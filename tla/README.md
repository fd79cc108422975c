# Wrenlore: verification of the server's core

Wrenlore is a collaborative wiki: a NestJS server over PostgreSQL (kysely), redis and BullMQ queues, a
collaboration server (hocuspocus, yjs) that may run as several processes, and a React client. This
directory holds TLA+ models of the parts in which several actors share state, the TLC configurations
that check them on small instances, and proofs that hold for every instance.

Paths below are relative to the repository; `server/` stands for `src/apps/server/src/`.

    tlc -config <run>.cfg <MC module>      model-check one run (the table under "Runs")
    tlapm <Module>_proofs.tla              check the proofs of a module

## 1. Inventory

### What runs beside what

Every HTTP request is an async handler. It reads the database in some statements, checks what it
read, and writes in later statements, seldom inside one transaction; other requests, queued jobs and
interval jobs run at every `await` in between. Transactions run at READ COMMITTED, and a check made
before a transaction is not repeated inside it. A handler may stop at any statement: the statement
fails, or the process ends. Jobs run later, up to their number of attempts, on any process. A
collaboration process holds documents in memory and shares with the others only redis and PostgreSQL.

### Components

| Component | State | Operations | Talks to | What is hard | What makes it correct |
|---|---|---|---|---|---|
| Page tree (`server/core/page`, `page.repo.ts`) | `pages`: parent, space, position, deleted_at | create, move, move to space, duplicate, trash, restore, force delete | page access, attachments queue, ws, search | handlers read a subtree and write it later; recursive queries over a tree others change | the pages stay a forest, no row names a missing page, live pages do not hang below the trash, a subtree moves whole |
| Trash cleanup (`trash-cleanup.service.ts`) | the list of one run | find expired pages, delete each | page tree, attachments queue | the list is old when it is used; any step may fail | what is past its retention goes, nothing else does |
| Page access (`page-permission.repo.ts`, `page-access`) | `page_access`, `page_permissions` | restrict, grant, filter a set of pages | page tree, spaces, groups | the walk up the tree, the shortcut "no restricted page in this space" | a page is visible exactly when every restricted ancestor grants it |
| Members and invitations (`server/core/workspace`) | `users`, `workspace_invitations` | invite, accept, revoke, role, deactivate, delete | groups, spaces, auth, SSO | check-then-write on roles; two ways to create one account | an owner remains, roles cannot be raised past the actor, every account is in the default group |
| Groups (`server/core/group`) | `groups`, `group_users` | create, delete, add, remove | spaces, watchers | cascades, cleanup of watchers on another connection | no row outlives what it names |
| Spaces (`server/core/space`) | `spaces`, `space_members` | create, delete, add, change and remove members | watchers, pages | last-admin check and write are apart | a space keeps an admin, deleted users have no role |
| Watchers (`server/core/watcher`) | `watchers` | watch, unwatch, mute, queued add | history job, comments, notifications | jobs run after access is gone | only people with access watch |
| Collaboration server (`server/collaboration/extensions/redis-sync`) | redis lock per document, cached owners, proxied sockets, timers | route a socket, claim, refresh and delete the lock, proxy, unload | hocuspocus, redis | several processes, caches, TTLs, crashes, messages under way | one process serves a document; after a crash it is served again |
| Document persistence (`persistence.extension.ts`) | contributors in memory, page row | load, store, unload | pages, queues, redis | users edit while a store waits; a store fails half way | no change and no author is forgotten |
| Page history (`collab-history.service.ts`, `history.processor.ts`) | redis set of contributors, one delayed job per page, `page_history` | pop the set, write a version, retry | persistence, watchers | a job repeated, dropped, or crashed between pop and insert | who changed the page is listed by a version |
| Collaboration events (`collaboration.handler.ts`) | a direct connection | replace or extend a document | collaboration server | reply timeout against a late answer | the edit is made once, where the document is |
| Auth, MFA, reset (`server/core/auth`) | users, `user_mfa`, recovery codes, user tokens | login, setup, confirm, recover, reset password | sessions, mail | a code checked and consumed in two statements | a code or token works once |
| SSO (`server/core/sso`) | providers, accounts | SAML and OIDC login, provisioning, group sync | members, groups | concurrent first logins | one account per address |
| Attachments (`server/core/attachment`) | `attachments`, stored files | upload, delete by page, space or user | storage, page tree | a file and its row are two systems | no row without file, no file without a job |
| Import (`server/integrations/import`) | `file_tasks`, temporary files | unpack, build the tree, insert by level | pages, attachments, storage | one attempt; failure after rows are in | a task ends in success or failed, the file goes |
| Export, audit, mail, telemetry, health, static | none of their own, or output only | read, write out | | | |
| Shares and their search (`server/core/share`, `server/core/search`) | `shares`, the switch of a space | share a page with or without what is below, visit, list, search | page tree, page access, spaces | a walk up decides what is served, walks down decide what is listed; the share copies the space of its page | what is served is listed, and what is listed is served by the share or by another on the way; a shared page is not served where its space has sharing off |
| Comments (`server/core/comment`) | `comments` | create, reply, update, delete | notifications, watchers | the job is queued after the write | |
| Notifications (`server/core/notification`) | `notifications`, the queue | one job per comment or store: find those concerned, filter by access, insert | comments, watchers, members, page access | access changes between four reads; a job runs late or again | those concerned who may open the page are told, nobody else |
| AI (`server/core/ai`) | provider settings, tasks | route a task, fall back, stream | external services | settings changed under a request | a task runs on an enabled provider |
| Cursor pagination (`server/database/pagination`) | none | page forwards and backwards | listings | ties and NULLs in the sort key | each row is listed once |
| Database pool (`server/database`) | connections | transactions, and queries outside them while one is open | everything | a handler that holds one connection waits for a second | not everyone waits on everyone |
| Client (`src/apps/client`) | a copy of the page tree, sockets | drag and drop, edit | server | its copy is old | |

`PROJECT.json` lists every component with its status, and under `hazards` each place where the code is
hard to test, with the properties that cover it.

## 2. Modules

### PageTree

`status`, `parent`, `space` are the columns of `pages` (`status` folds deleted_at into live, trash and
expired, and adds the ids not yet drawn and the rows that are gone), `accessSpace` and `writers` are
`page_access` and `page_permissions`, `purge` is the set of pages with a delete-page-attachments job,
`req` is what each handler holds between two statements and `cron` what the cleanup job holds.

Each operation is a read step (`MoveToSpaceStart`) that does the controller's and the service's reads
and keeps what they returned, and one write step for each statement or transaction after it. With
`fail` in `Kind` a handler may stop between any two of them. `Below` is the recursive query, as the
least set closed under children; since the code uses UNION ALL, a query started on a cycle never
returns, which `Returns` says. Foreign keys and their cascades are part of the writes. `ClientGuard`
restricts moves to those the web client offers. Every user may edit every space; what tells users apart
is the restriction of pages.

A permanent delete and the cleanup job read a subtree and queue a job for each page in a loop of awaits
before the rows go. Nobody reads `purge`, so the read and the adds are one step, in which any part of the
adds may be all there is when something fails. `NoDanglingRows` and `CopiesAreTrees` hold however many
handlers overlap and stop; this is proved, and TLC checks the first with one request against the job.

### TrashRetention

PageTree with one history variable, `touched`: the pages restored or moved since the cleanup job made its
list. The job does not look at deleted_at again when it deletes (`trash-cleanup.service.ts:118`), so it takes
a page that was restored in between, and whatever was moved below it: `RetentionKept` says that this,
and what hangs on an expired page, is all it takes. A user who restores a page while the job is on its way
to it loses it, although the client says "Pages in trash will be permanently deleted after {{count}} days."
(`src/apps/client/public/locales/en-US/translation.json:539`).

### PageForest

What the tree promises, without statements, handlers and users: a forest in which every operation is one
step on a whole set of pages (`Grow`, `Graft`, `Transplant`, `Trash`, `Restore`, `Fell`). `PageTree` implements it when
requests do not overlap and no statement fails (`ImplementsForest`, an `INSTANCE PageForest WITH` the
expired pages counted as trash, and a page that a restore has still to detach as detached). What overlapping requests can break is exactly this refinement; the
properties that survive them are checked on PageTree itself.

### PageAccess

One space of live pages. `access` and `role` are `page_access` and `page_permissions`; each query of
`page-permission.repo.ts`, `page-access.service.ts` and the websocket service that decides who opens, edits,
lists, finds or hears of a page is an operator of its own, written as its SQL is (a chain of ancestors,
an inner or a left join, the first row of an order). The actions set and clear permissions, move pages
and change groups; each is one step, the interleavings of statements being in PageTree. `actor` is a
history variable: who made the last request. `Audience`, who gets an event, takes the answer of
`spaceHasRestrictions` as a parameter, since the code caches it for 30 seconds (`ws.service.ts:151-165`) and no change
of a restriction drops it. `ViewsAgree` says: with the present answer, or a stale yes, exactly those
who may open the page hear of it; a stale no leaves nobody out and sends the event to the whole room.

### Membership

`account`, `invite`, `groups`, `inGroup`, `spaces`, `spaceRole` and `watching` are the tables; `jobs` are
the queued add-page-watchers jobs. An address stands for its account; `watching` keeps one bit for a
user and a space. The `row` field of a handler says that the space_members row it read still exists,
since the code writes by row id. The cleanup of watchers is a step of its own before the commit,
because the repository deletes on another connection than the transaction's. Adding several members in
one request is adding one; a group created with users is created and then filled.

`MCMembership` puts three instances side by side: requests about accounts one at a time, requests about
groups that overlap and fail, requests about spaces that overlap and fail. A behaviour stays in one of
them. The checks before a write hold only one at a time, which is why the first is serial.

### CollabLock

One document. `lock` is the redis key with the ticks it has left, `cache` and `sweeps` are `lockPromises` and
the timeouts that clear it (a timeout is never cancelled, so an old one may clear a newer answer),
`open` and `beat` are the loaded document and the interval of `maintainLock`, `conns` the sockets
hocuspocus serves, `inbox` the redis channel in publish order, `pend` a message whose handler awaits the
answer about the lock. A tick is a fraction of lockTTL (`Half` ticks are half of it); timers due run
before the next tick. A server that crashes never returns, since the server id is random per start. A
socket is used again once nothing is left of it, so a retry is a new socket. A closeProxy message to a
server on which it has no effect is left out.

The routing is optimistic: the lock is claimed by a message and the document is loaded later, nothing
checks the lock where a proxied message arrives, and an unload deletes the key whoever owns it. So two
servers can load a document, and the module names the steps that this takes: the socket that claimed the
lock is refused (`ClaimRefused`) or closes (`ClaimClosed`) before it loads the document, or still waits when
half of the lifetime is over (`ClaimLate`), or an unload crosses a routed message (`UnloadCrossed`).
`CalmSpec` is the specification without these four steps: messages may be of any age, sockets of a loaded
document may be refused, servers may crash. `RefusingSpec` allows the first of them as well.

### DocHistory

One page, and the one server that has it loaded. `onStoreDocument` is split into the snapshot
(`StoreStart`: content and contributors at one instant), the transaction with its outcomes (nothing to do,
committed, failed before or after the row was read), `sadd`, and the enqueue; the job into its read,
the comparison with the newest version, `scard`, `spop`, and the insert. `unsaved`, `owed` and `excused`
are history variables: whose changes are not stored yet, whose stored changes no version lists yet,
and whom a failure or crash may have lost. Content is a value: a user can bring an earlier one back,
which is why "nothing changed" is an interesting outcome.

### The services: Sharing, Attachments, FileImport, Mfa, Notifications, CursorPagination

Six modules of services that share no state with each other. `MCServices` declares the variables of all
of them and picks one service for a behaviour (`part`); those of the others are Nil in it. Each module
can be instantiated on its own. What a service takes from outside is a constant (`Archives`, `Listings`, the
sets of rows, the bounds); `MCServices` also defines the values that the runs give to them (`Zips`, `Exact`,
`Recent`).

**Sharing.** `parent`, `space`, `trash`, `access` are the pages, `share` the table, `off` the spaces where sharing
is switched off. `GetShareForPage` is the walk up from a page, `Tree` and `Searched` the walks down from a
share. The recursive queries are least closed sets: `Above` is the
chain of ancestors, `Way` the part of it between a page and one above. Page operations are one step each; the creation of a share
is its checks and its insert, with anything in between. `late` remembers a share whose page changed space
in between, which the code does not see. The space of the page that is served is asked by nobody: a child that
lay in the trash while its parent moved to another space, and is restored under it, is served through the
parent's share although its own space has sharing off. `ServedWhereAllowed` is about the space of the shared page.

**Attachments.** `rows` is the table, `files` the storage, `icon` the avatar in the row of the user, `queue`
and `fileReq` the deletion jobs and the requests with what they hold. An upload writes the object, then the
row; a replacement of the avatar reads the old one in between and deletes it last; a job deletes files
and rows one by one, keeps going when one fails, and is taken up again when its worker stops. An upload that
fails may leave a part of its object. A page that is deleted for good has its job queued first and its row
deleted in a later step, which may fail or never come; a space and a user are deleted first, and the job that
follows may be missing. `doomed` remembers what somebody has begun to delete: the job of a page whose
deletion then fails takes the files of a page that stays, and `InUseHasFile` speaks of pages that nobody has
begun to delete. `lost` remembers objects whose upload broke off, whose row could not be written or
which could not be deleted, which the code only logs.

**FileImport.** `archive` is the content of the zip, `importReq` the upload, `status` the row of the task, `run`
what the job holds: the folders still to be treated, the map from paths to pages, the pages inserted.
`MakeFolder` is a turn of the loop that gives every folder a page of its own or of a file (in the order of the
depth), `InsertPage` the inserts by level, and the handlers of `completed` and `failed` are steps of their own. A
worker may stop anywhere; a stalled job runs once more.

**Mfa.** `mfa` and `codes` are `user_mfa` and its recovery codes, `mfaReq` the requests, each of which reads,
compares hashes and writes in statements of its own. The DELETE of the old codes is two steps: it finds the codes
that are there when it starts (READ COMMITTED), waits for those that another transaction holds, and deletes
what is left of them. A batch inserted meanwhile by another regeneration stays valid. `replaced` and `logins`
are history variables: the codes found by the deletion of a request that has answered, and the logins made with
a code.

**Notifications.** One page: `member`, `barred` and `watchers` are who has a role, who lacks a permission and
who watches; `comments` and `text` the comments; `jobs` and `work` the queue and the worker. The job reads the
page, the thread or the watchers, the roles and the permissions in four statements and then inserts one row
for each of those it found. `held`, `opened` and `kept` in `work` are its history: who had a role in the
space of the job at some time while it ran, who had the permission at some time, and who had both all the
time and was concerned. `notices` are the rows of this run; a
job that runs again inserts them again.

**CursorPagination.** `listed` is the table, `fields` the sort keys, `cursor` and `items` the walk. `Encode`,
`Compared`, `ApplyCursor` and `NextPage` are the code's; between two pages rows are inserted, deleted and
changed. `stable` are the rows that did not change since the walk began. A page is the set of its rows,
since their order is that of the listing: `First` is ORDER BY with LIMIT, `NextCursors` the cursor of the last
row. Values are numbers and `Collation` their rank in the database's collation, in which the cursor is compared
(the rows are sorted in COLLATE "C").

## 3. Runs

| Run | Instance | Asks |
|---|---|---|
| `tree_serial` | 3 pages, 2 spaces, 2 users, one request at a time | types; every operation is one step of the forest (refinement); a deleted page has its attachments queued, and only a deleted one |
| `tree_cleanup` | 2 pages, cleanup job with requests and failures between its steps | no row names a missing page; the job takes what hangs on an expired page, or on one touched since the list was made, and nothing else; what is expired goes (liveness) |
| `members` | 2 users, 2 groups, 2 spaces, 2 requests; accounts serial, groups and spaces overlapping with failures | types; rows refer; everyone is in the default group; an owner row remains; only owners change what owners hold; the last admin is kept; deleted users hold nothing |
| `collab_lock` | 2 servers, 2 sockets, TTL 2, `CalmFairSpec` | a loaded document is locked by its server; the document is served again after any crash (liveness) |
| `collab_race` | 2 servers, 2 sockets, TTL 2, messages of any age, refusals | types; no server believes in a dead owner for longer than TTL plus half a TTL |
| `bug_lock_refused` | TTL 4, `RefusingSpec` | *violated*: a refused socket leaves a lock nobody refreshes, two servers load the document |
| `bug_stale_owner` | TTL 4, `CalmSpec` | *violated*: an answer read just before the lock of a crashed server runs out lives half a TTL longer, where a comment promises less than one TTL in all |
| `doc_history` | 2 users, 2 contents, 2 attempts, every failure and crash | types; no author forgotten; nothing unsaved after an unload |
| `page_access` | 3 pages, at most 2 of them restricted, 2 users, 1 group | types; all queries agree on who opens and who edits a page; the sidebar leads to every page that opens; nobody gains a permission by his own request; who sets a restriction can still edit |
| `services` | see below | types; what a share serves is in its tree or its search, and what is listed there is served unless another share covers it, no share serves while its page's space has sharing off; what is in use and not being deleted has a file, a file has a row or somebody who works on it or broke off; parents are imported first, success means imported; a recovery code logs in once, one that a regeneration found and replaced never after it; those concerned and only they are notified; a walk lists every row that stays once, where a cursor says its keys exactly |
| `bug_import_content` | one import without failures | *violated*: a folder that takes over the page of its file loses the content |
| `bug_next_page` | listing by `updatedAt` | *violated*: a next page is announced and is empty |

Why these bounds are enough to be of interest: three pages are a chain with a middle, so that a subtree
and its remainder can part; with two pages a page and its parent are expired, restored, moved and deleted
at any step of the job (three pages, or a second request, take it past any reasonable time, and with two
requests moves make cycles, on which the job never ends); two users differ in their
grants; two groups and two spaces are needed for a cascade that must spare the other one. Two servers
are an owner and another; TTL 4 puts a tick between claim, cache timeout, refresh and expiry.
`Room` in CollabLock bounds the messages at a server when a socket opens, so that queues stay finite. Two
contents make "equal to the row", "equal to the version" and their opposites all reachable. Two
restricted pages of three are a nearest one, another above it, and a page without.

In `services`: two pages, spaces and shares are a share above another, and a space to move to; two files
with two requests and two attempts of a job overlap an upload with a removal and a deletion; the archives are all
sets of up to four out of ten paths (folders with and without a file of their name, two Notion pages of
one name, a partial id, a folder around everything), with one stall; three requests on the second factor
are a login between two regenerations; two users, two comments, one waiting job and one change of access
are a reply in a thread and a change at any point of the job; pages of two among four rows end between equal
keys, and two changes fall between them. Six services in one run share only the time it takes.

Deadlock is not an error where it is a legal end: in PageTree the ids run out, in Membership a serial
instance may have no request left to accept, in DocHistory the page is deleted, in the services all
requests are over. CollabLock and PageAccess are checked for deadlock.

Runs marked violated state what a comment, a message or a text of the repository says; `PROJECT.json`
quotes it under `findings`.

Symmetry is used for safety runs only; in `services` it is that of the users.

### Fairness

`tree_cleanup`: the interval job starts again and again (weak fairness), and a page that it keeps finding is
at last handled and deleted without error (strong fairness on `CleanupPage` and `CleanupDelete` of each
page): failures are transient, as the code assumes by only logging them.

`collab_lock`: timers fire and redis messages are handled (node's event loop); unanswered pings end a
connection (hocuspocus); some client always tries again, gives up where it is not served (the
provider's message timeout), and is not for ever closed just before it is served (strong fairness on
`ServeHere` and `HandleProxyMessage`). `[]<>Still` says that messages do not fill every instant.

## 4. Proofs

All proofs are for any sets of pages, users, servers and so on, and for any interleaving.

**PageTree_proofs.** `Typing`: `Spec => []TypeOK`. `NoDangling`: `Spec => []NoDanglingRows`, and
`Copies`: `Spec => []CopiesAreTrees`, for any number of concurrent handlers that may stop at any statement. `NoDanglingRows` alone is not inductive: the step
that inserts the rows of a duplicate needs that the planned rows hang on each other or on the
original's parent, so the invariant is `IInv == TypeOK /\ NoDanglingRows /\ CopiesAreTrees`. `Retention`:
`HSpec => RetentionKept`, under the same conditions. What the job holds is a set of ids read earlier; that they
still hang on something it may take is said by sets: `Condemned` is the least set of pages that has the expired
and the touched ones and is closed under children, and a page in it stays in it until it goes, since a page
that gets another parent is touched itself (`CondemnedStays`). The argument
for a delete is that a cascade is closed under children (`CascadeClosed`, from `BelowClosed`: the least
closed set is closed); for the other writes, that each either names a parent under the foreign key or
touches existing rows only.

**PageForest_proofs.** For any sets of pages and spaces. `StaysForest`: however the abstract tree is operated on,
it has no cycle, and no live page below one that is in the trash or gone. Acyclicity is
stated as "every non-empty set of pages has one whose parent is outside", so that it is preserved by
reasoning on sets (`Climbs`): a graft keeps it because the new parent is outside some set that has the
page and is closed under children (`Apart`).
By `PageTree_refinement` it is a property of PageTree, under its assumptions.

**PageTree_refinement.** For any sets of pages, spaces and users, and assuming `Serial`, `ClientGuard` and
`"fail" \notin Kind`. `Refines`: `Spec => ImplementsForest`. A handler writes what it read some statements
before, so the invariant `RInv` says of each operation what is still true of that (`Fresh`): the ids of a
restore are a whole subtree and its flag says whether the parent is live, the destination of a move is
live and outside a closed set around the page, the plan of a duplicate climbs to its parent. `Alone` says that
nobody else is between two statements, `Queued` that exactly what is deleted or about to be has its
attachments queued; `Forest!IInv` is the invariant of the abstract tree under the mapping, from which the sources of
moves and deletes take that their subtree is closed. Every write is one abstract operation or a stutter
(`WritesMap`, `CleanupKeeps`). `Purging` (`PurgedWithPage`) and `NoCircles` (the recursive queries return, a live
page hangs on a live one) follow. The three assumptions are needed: overlapping requests make
cycles and live pages below the trash, the API without the client allows a page to be dropped below itself, and a
restore that stops before its last statement leaves a live page below a trashed one.

**Membership_proofs.** `Typing`, `AllRowsRefer` (`RowsRefer`) and `AllGrouped` (`EveryoneGrouped`) hold for any number of
concurrent handlers that may stop anywhere. No handler repeats its checks when it writes, so the
invariant `IInv` has what each holds and cannot have been taken away since (`Held`): a user's row never goes, the row
of a member takes the flag of its handler along, the default group stays. The other four properties
assume `Serial`, since overlapping requests break them (two owners demote each other, two admins remove each
other): `OwnerRemains`, `AdminStays` and `OwnersAreLeft` (an action property), whose invariant `SInv` adds to `IInv`
that what a handler has counted or compared is so until it writes; and `DeletedStayOut`, which assumes
`ListedOnly` as well, that requests name users the client lists: the server does not look whether the user
added to a group or a space is deleted.

**PageAccess_proofs.** For any tree of pages, users and groups, without further assumptions. The tree is kept
acyclic (`Climbs`: every non-empty set of pages has one whose parent is outside), from which: a chain of
ancestors is linearly ordered, so the nearest restricted page exists and is one (`ViewsAlwaysAgree`,
`EditsAlwaysAgree`). `SidebarLeadsThere` needs that whoever may open a page may open all pages above. The
action properties `NobodyIsRaised` and `SetterStaysWriter` compare the chain before and after a step.

**Services_proofs.** One part for each service, each with an inductive invariant that the other services leave
alone, since a behaviour is one of a single service. All safety properties of `services` are theorems, for any
number of requests, attempts, files, users, comments, archives and rows.
- *Mfa*: ids of codes and logins belong to requests that are over, so that no code comes back under the id of
  one that a deletion has found (`HeldCodes`); an unused code has no login, and a code in the table was not replaced.
- *Attachments*: who uploads a file is the only one who knows of it (`OneMakes`), files are of the kind their request
  is (`Owned`), a request has done what its place in the code says (`Stages`), and an object without a row is in the hands of
  a request (`Covered`).
- *Notifications*: what is to be told, told and still to be collected covers whoever could read all the
  while (`Collected`), and is covered by whoever could at some time (`Told`, `Histories`).
- *Sharing*: the space of a share is that of its page (`ShareIInv`), and the pages are kept acyclic
  (`ClimbsAlways`). Reads from above lead to the lists below by reasoning on closed sets; the other way
  round, a page in the tree of a share has that share nearest to it because the chain of its ancestors
  is linear (`AboveLinear`, `ListedIsServed`).
- *FileImport*: for archives of any depth and size. `LevelBelow` shows that the BFS level of a page is
  greater than that of its parent, by counting the folders above each; `Entered`
  that every file has one page in the map; `Earlier` that the rows of a run that did not commit are not there.
- *CursorPagination*: `WalksListOnce` is for listings by any number of fields, pages of any size, values and changes.
  `Progress` says of every row that stays: it is on no page if it is after the cursor, else on exactly one. It
  rests on the comparison being a strict total order on rows (`Transitive`, `Irreflexive`). It assumes `Precise`,
  no listing by a time or a position: there the cursor says less than the column, which is what
  `bug_next_page` shows.
- `Typing` collects the types of all of them.

**DocHistory_proofs.** `Typing`, `Contributors` (`NoContributorLost`) and `Unloading` (`NothingUnsaved`), for any
finite set of users. The invariant `Credited` follows an author from the edit to the version: in
`contributors` while unsaved (`Changed`), in the `editing` of the store that writes his change
(`Carried`), then in redis, with the store about to put him there, or with the job that popped him
(`NoContributorLost`). `Stored` adds that nothing is unsaved when no store is scheduled.

**CollabLock_proofs.** For any set of servers and of sockets and any lifetime of the lock.
`StaleOwners` (`StaleOwnersForgotten`, in every mode) follows the age of a crash: `Aged` says that age and
remaining life of the lock add up to TTL at most, and age and remaining life of some timeout of a
cached answer to less than TTL and a half; a tick moves one unit from the second to the first, and a new
answer starts with half a TTL. `Ownership` (`CalmSpec => [](OpenOwnsLock /\ SingleOwner)`) assumes nothing of
the constants: it says that only one of the four steps named above can lead to two servers with the
document, and that every other refusal, close, delay and crash is harmless. `OpenOwnsLock` says nothing of
the time between the answer of redis and the load, so the invariant `Ruled` has five parts: the lock of a
loaded document outlives the time to its next refresh (`Owned`); the lock of a running server without the
document has more than half of its life left and a socket waits that loads it (`Claimed`); and what waits
(`Routed`), travels (`Delivered`) or is remembered (`Cached`) names the server that has the lock, unless the
message that takes the memory away is in the queue. `Claimed` is the part that three of the four steps
break, the first of them in `bug_lock_refused`; the fourth breaks `Routed` and `Delivered`.

**Only model-checked**: liveness under fairness (`ExpiredGoes`, `ServedAgain`), which TLAPS cannot prove. Every
safety and action property of the passing runs is a theorem. The assumptions on the constants are in the modules that declare
them and TLC evaluates them on every run.

## 5. Not modelled

See the components with status `not_modelled` in `PROJECT.json` for each reason.

- The **web client** keeps a copy of the tree that socket messages and its own requests change. What it
  does to the server's tree is in PageTree (`ClientGuard`, and its absence); the copy is replaced on every
  reload and nothing depends on it.
- The **AI** services look up a configuration and call external services; they keep no state that two
  requests would share but the settings rows, which are written whole.
- **Export** reads; **mail, audit, telemetry, health, static files** only write out; **storage drivers** are thin.
- The **pool of connections**: some transactions run queries on a second connection (the position of a page
  that moves to another space, the cleanup of watchers, the uploads of an import), so that as many of them as the
  pool has connections wait for each other. Planned.
- **SSO** beyond the account it creates or finds; **sessions, passwords, TOTP windows**.

Within the modelled parts: position keys, titles and contents of pages; the title shown for the link of a
share; the walk up to a share that gives up after 25 levels (`share.service.ts:188`); muted watchers; group sync from
SSO; the import of a single page; overwriting the file of a diagram; walking backwards through a
listing, which no client does; the other jobs a store queues; hocuspocus itself (its debouncing, its
store mutex and the condition under which it unloads are taken as guards); failures of redis in
CollabLock.

### Seen while modelling

True of the code, and asserted by no run. Where a comment or a text of the client says otherwise it is quoted
with the point; of the others the repository says nothing.

- Tree: a restore is three statements without a transaction, and a crash in between leaves a live page below
  a trashed one; trashed children stay in the old space when their parent moves; the cleanup job takes a page
  restored since it made its list (see TrashRetention, with the text of the client that says otherwise).
- Access: the shortcut "no restricted page in this space" (`page-permission.repo.ts:681`) compares the space of
  the restriction, which after moves and restores may not be that of the page; the websocket service keeps its
  answer for 30 seconds and nothing invalidates it; the rooms of a socket are those of its connection
  (`ws.gateway.ts:38-57`), whatever happens to its user's roles.
- Members: deleted and deactivated owners are counted (`user.repo.ts:133`, while `workspace.service.ts:594` relies
  on the count), so the last active owner can step down; two admins of a space can remove each other; deleting a
  group or an account takes the last admin of a space; the cleanup of watchers deletes on another connection than
  the transaction it belongs to (`watcher.repo.ts:174`) and does not see it.
- Collaboration: an active history job swallows the job of a store that ends meanwhile; a failed update
  credits its authors in a version that does not have their change; a message routed to an owner that
  unloads meanwhile loads the document there without a lock.
- Sharing: a page can be shared twice, and in the trash; the search in a share and the title of a link do not
  ask whether sharing is allowed in the space; deleting the inner of two shares serves what it covered through the outer;
  a page restored below a parent that moved is served in its own space with sharing off.
- Attachments: the comment "delete uploaded file on error" (`attachment.service.ts:136`) stands where the code
  only logs; a failing upload may leave a partial object that no row names; a permanent deletion that fails after its
  jobs are queued leaves pages without files; an upload that ends after the deletion job leaves row and file; two uploads of an avatar leave one behind.
- Import: a folder of the first level counts as being in the directory of a root file; a folder without an id
  takes the page of one with a partial id; a job that stalls between commit and status imports twice;
  objects uploaded by a transaction that is rolled back stay; PAGE_CREATED is emitted before the commit.
- Second factor: a setup that overlaps a confirmation deletes the enabled factor; two regenerations that overlap
  leave both batches valid, although the client says "This will invalidate all existing codes."
  (`src/apps/client/public/locales/en-US/translation.json:490`); two resets of a password with one link both succeed.
- Notifications: the job knows the space in which the page was when it was queued; a job that runs again
  repeats its notifications; a user who has the role and the permission only at different times of the job is told; a user with a permission on a restricted page but no role in its space can open the
  page and is not told; a queue that fails after the comment is written makes the request fail.
- Pagination: rows of a tree are sorted by position in COLLATE "C" (`page.service.ts:396`) and compared in the collation of the column; NULL sort values throw.

## 6. Plan

Done: PageTree with PageForest, Membership, PageAccess, CollabLock, DocHistory, Sharing, Attachments, FileImport,
Mfa, Notifications, CursorPagination, and the proofs of all their safety properties. Left:

1. An abstract **one-owner** specification that `CalmSpec` implements: a document passes from one
   server to another only through being loaded nowhere.
2. **ConnPool**: deadlock freedom as a function of the size of the pool.
3. CollabLock composed with DocHistory: no stored edit is overwritten while the document has a single owner.

Small components share the MC module `MCServices`. Recursion in modules with proofs is written as
least fixpoints or recursive functions.
