------------------------------ MODULE MCServices ------------------------------
(***************************************************************************)
(* Services that share no state with each other, as one instance for TLC:   *)
(* each behaviour is one of a service in Part, and the variables of the     *)
(* other services are Nil in it.                                            *)
(***************************************************************************)
EXTENDS Integers, Sequences, FiniteSets, TLC

CONSTANTS
    Nil, End, Part,
    Page, Space, Share,     \* Sharing
    File, Request,          \* Attachments
    Runs,                   \* Attachments: how often a job that throws is run
    Archives, Stalls,       \* FileImport
    Attempt, Past,          \* Mfa
    User, Comment,          \* Notifications
    NoteChanges, NoteQueue, \* Notifications: changes around the jobs, jobs that wait
    Listings, RowIds, RowValues, PerPage, RowChanges   \* CursorPagination

ASSUME PastAssumption == Past \notin Attempt
ASSUME FileAssumption == Nil \notin File \cup {"page", "avatar"}
ASSUME CommentAssumption == Nil \notin Comment \cup [by : User, parent : Comment \cup {Nil}]
ASSUME StatusAssumption == Nil \notin {"processing", "success", "failed"}
ASSUME PageAssumption == Nil \notin Page
ASSUME SpaceAssumption == Space # {}
ASSUME ShareAssumption == Nil \notin [page : Page, space : Space, sub : BOOLEAN]
ASSUME BoundsAssumption == Runs \in Nat \ {0} /\ Stalls \in Nat /\ NoteChanges \in Nat /\ NoteQueue \in Nat

\* An archive is a set of files, each with the folders around it.
ASSUME ArchivesAssumption ==
    \A z \in Archives :
        /\ z.source \in {"generic", "notion"} /\ Nil \notin z.files
        /\ \A f \in z.files :
              /\ f.dir \in Seq({f.dir[i] : i \in DOMAIN f.dir}) /\ f.ext \in {"md", "html"}
              /\ f = [dir |-> f.dir, base |-> f.base, ext |-> f.ext]

\* A listing is a sequence of fields, and a cursor has a value for each.
ASSUME RowsAssumption ==
    /\ RowIds \subseteq Int /\ RowValues \subseteq Int /\ IsFiniteSet(RowIds)
    /\ PerPage \in Nat /\ RowChanges \in Nat
ASSUME ListingsAssumption ==
    \A l \in Listings :
        /\ l \in Seq({l[i] : i \in DOMAIN l}) /\ l # <<>>
        /\ {Nil, End} \cap [DOMAIN l -> RowIds \cup RowValues] = {}
ASSUME EndAssumption == Nil # End

VARIABLES
    part,
    parent, space, trash, access, share, off, shareReq, late,           \* Sharing
    owner, rows, files, icon, gone, doomed, queue, fileReq, lost,       \* Attachments
    archive, importReq, status, zip, job, run, table, exists,           \* FileImport
    mfa, codes, required, active, mfaReq, replaced, logins,             \* Mfa
    page, member, barred, watchers, text, comments, commentReq, jobs, work, notices, left,  \* Notifications
    fields, listed, stable, cursor, items, changes                      \* CursorPagination

sharing == <<parent, space, trash, access, share, off, shareReq, late>>
attachments == <<owner, rows, files, icon, gone, doomed, queue, fileReq, lost>>
import == <<archive, importReq, status, zip, job, run, table, exists>>
auth == <<mfa, codes, required, active, mfaReq, replaced, logins>>
notes == <<page, member, barred, watchers, text, comments, commentReq, jobs, work, notices, left>>
paging == <<fields, listed, stable, cursor, items, changes>>
all == <<part, sharing, attachments, import, auth, notes, paging>>

-------------------------------------------------------------------------------
(* Archives of up to four files: folders with and without a file of their    *)
(* name, two Notion pages of one name, a folder with a partial id, a folder   *)
(* around everything, html and md.                                           *)

Name(name, id, abbreviated) == [name |-> name, id |-> id, part |-> abbreviated]
a == Name("a", Nil, FALSE)
a1 == Name("a", 1, FALSE)
a2 == Name("a", 2, FALSE)
ap == Name("a", 2, TRUE)
b == Name("b", Nil, FALSE)
x == Name("x", Nil, FALSE)
Path(dir, base) == [dir |-> dir, base |-> base, ext |-> "md"]

Paths ==
    {Path(<<>>, a1), Path(<<>>, a2), Path(<<a>>, x), Path(<<ap>>, x),
     [Path(<<>>, a) EXCEPT !.ext = "html"], Path(<<a>>, a1), Path(<<>>, b),
     Path(<<a, b>>, x), Path(<<b>>, a2), Path(<<a>>, b)}

\* No two files have the same id.
Zips ==
    [source : {"generic", "notion"},
     files : {s \in SUBSET Paths : /\ Cardinality(s) <= 4
                                   /\ \A f, g \in s : f # g /\ f.base.id # Nil => f.base.id # g.base.id}]

(* What the callers of the pagination list by. *)

By(kind, direction) == [kind |-> kind, direction |-> direction]
Exact ==
    {<<By("id", "asc")>>,
     <<By("name", "asc"), By("id", "asc")>>,
     <<By("deletedAt", "desc"), By("id", "desc")>>,
     <<By("memberCount", "desc"), By("name", "asc"), By("id", "asc")>>}
Recent == {<<By("updatedAt", "desc"), By("id", "desc")>>}
Bytes == [v \in RowValues |-> v]

\* Nothing tells users apart.
Symmetry == Permutations(User)

-------------------------------------------------------------------------------
S == INSTANCE Sharing WITH req <- shareReq
A == INSTANCE Attachments WITH req <- fileReq, Attempts <- Runs
I == INSTANCE FileImport WITH req <- importReq, space <- exists
M == INSTANCE Mfa WITH Requests <- Attempt, req <- mfaReq
N == INSTANCE Notifications WITH req <- commentReq, changes <- left, Changes <- NoteChanges, Queue <- NoteQueue
P == INSTANCE CursorPagination WITH
        table <- listed, Ids <- RowIds, Values <- RowValues, Ticks <- 2,
        Collation <- Bytes, Limit <- PerPage, Changes <- RowChanges

OffS == parent = Nil /\ space = Nil /\ trash = Nil /\ access = Nil /\ share = Nil /\ off = Nil /\ shareReq = Nil /\ late = Nil
OffA ==
    /\ owner = Nil /\ rows = Nil /\ files = Nil /\ icon = Nil /\ gone = Nil /\ doomed = Nil
    /\ queue = Nil /\ fileReq = Nil /\ lost = Nil
OffI == archive = Nil /\ importReq = Nil /\ status = Nil /\ zip = Nil /\ job = Nil /\ run = Nil /\ table = Nil /\ exists = Nil
OffM == mfa = Nil /\ codes = Nil /\ required = Nil /\ active = Nil /\ mfaReq = Nil /\ replaced = Nil /\ logins = Nil
OffN ==
    /\ page = Nil /\ member = Nil /\ barred = Nil /\ watchers = Nil /\ text = Nil /\ comments = Nil
    /\ commentReq = Nil /\ jobs = Nil /\ work = Nil /\ notices = Nil /\ left = Nil
OffP == fields = Nil /\ listed = Nil /\ stable = Nil /\ cursor = Nil /\ items = Nil /\ changes = Nil

Init ==
    /\ part \in Part
    /\ IF part = "sharing" THEN S!Init ELSE OffS
    /\ IF part = "attachments" THEN A!Init ELSE OffA
    /\ IF part = "import" THEN I!Init ELSE OffI
    /\ IF part = "mfa" THEN M!Init ELSE OffM
    /\ IF part = "notices" THEN N!Init ELSE OffN
    /\ IF part = "paging" THEN P!Init ELSE OffP

Next ==
    \/ part = "sharing" /\ S!Next /\ UNCHANGED <<part, attachments, import, auth, notes, paging>>
    \/ part = "attachments" /\ A!Next /\ UNCHANGED <<part, sharing, import, auth, notes, paging>>
    \/ part = "import" /\ I!Next /\ UNCHANGED <<part, sharing, attachments, auth, notes, paging>>
    \/ part = "mfa" /\ M!Next /\ UNCHANGED <<part, sharing, attachments, import, notes, paging>>
    \/ part = "notices" /\ N!Next /\ UNCHANGED <<part, sharing, attachments, import, auth, paging>>
    \/ part = "paging" /\ P!Next /\ UNCHANGED <<part, sharing, attachments, import, auth, notes>>

Spec == Init /\ [][Next]_all

-------------------------------------------------------------------------------
(* The properties of the services, each of the behaviours of its own.         *)

\* Each service stays within its types: the rows, the files and what requests
\* and jobs hold in memory are of the kinds the schema and the code allow.
TypeOK ==
    /\ part \in Part
    /\ part = "sharing" => S!TypeOK
    /\ part = "attachments" => A!TypeOK
    /\ part = "import" => I!TypeOK
    /\ part = "mfa" => M!TypeOK
    /\ part = "notices" => N!TypeOK
    /\ part = "paging" => P!TypeOK

\* The walk up from a page that a visitor asks for (getShareForPage) and the
\* walks down from a share (tree and search) agree.
ServedIsListed == part = "sharing" => S!ServedIsListed

\* No share serves while sharing is off in the space where its page is: the
\* share moves with its page.
ServedWhereAllowed == part = "sharing" => S!ServedWhereAllowed

\* Listed files and the avatar shown are in the storage, whatever uploads,
\* removals and jobs overlap and break off.
InUseHasFile == part = "attachments" => A!InUseHasFile

\* Every object has a row, or a request or job that knows of it.
EveryFileHasRow == part = "attachments" => A!EveryFileHasRow

\* An imported page is inserted after its parent.
ParentsFirst == part = "import" => I!ParentsFirst

\* A task with the status success has one whole import behind it.
SuccessMeansImported == part = "import" => I!SuccessMeansImported

\* A recovery code logs in once.
RecoveryCodeOnce == part = "mfa" => M!RecoveryCodeOnce

\* A code that was replaced logs nobody in.
ReplacedCodesAreDead == part = "mfa" => M!ReplacedCodesAreDead

\* Whoever is told of a mention or a comment had the role and the permission,
\* each at some time of the run of the job, and is told once.
ToldRightly == part = "notices" => N!ToldRightly

\* Whoever is concerned and could open the page all the while is told.
ConcernedAreTold == part = "notices" => N!ConcernedAreTold

\* A walk through a listing shows every row that stays exactly once.
ListedOnce == part = "paging" => P!ListedOnce

\* What the importer says of pages without a file: they were made for a folder.
OnlyPlaceholdersAreEmpty == part = "import" => I!OnlyPlaceholdersAreEmpty

\* What the pagination says of the extra row: there is a next page.
NextPageHasRows == part = "paging" => P!NextPageHasRows
===============================================================================
