---------------------------------- MODULE Mfa ----------------------------------
(***************************************************************************)
(* The second factor of one local account: setup and its confirmation, the  *)
(* recovery codes and the logins that use them up, the reset by an          *)
(* administrator and the policy of the instance.  A request reads first and *)
(* writes in a transaction at READ COMMITTED: its DELETE looks for the rows  *)
(* when it starts, waits for those that others hold, and leaves the rows     *)
(* that are inserted meanwhile.                                              *)
(***************************************************************************)
EXTENDS Naturals, FiniteSets

CONSTANTS
    Requests,   \* the requests made on this account, each at most once
    Past,       \* a setup from before, with its codes
    Nil

VARIABLES
    mfa,        \* user_mfa: Nil or [id, enabled]; the id is the request that made it
    codes,      \* user_mfa_recovery_codes: [id, mfa, used]; the id as above
    required,   \* the policy: native MFA is required
    active,     \* the account is not deactivated
    req,        \* [op, pc, mfa, code, gone] of each request
    replaced,   \* history: codes that were there when a request began to delete,
                \* and that it replaced before it answered
    logins      \* history: the recovery logins [by, code, dead]

vars == <<mfa, codes, required, active, req, replaced, logins>>
tables == <<mfa, codes, required, active>>

Ids == Requests \cup {Past}
Fresh == [op |-> "none", pc |-> "start", mfa |-> Nil, code |-> Nil, gone |-> {}]
CodesOf(id) == {c \in codes : c.mfa = id}
NewCode(r, id) == [id |-> r, mfa |-> id, used |-> FALSE]

Init ==
    /\ \/ mfa = Nil /\ codes = {}
       \/ mfa = [id |-> Past, enabled |-> TRUE] /\ codes = {NewCode(Past, Past)}
    /\ required \in BOOLEAN /\ active = TRUE
    /\ req = [r \in Requests |-> Fresh]
    /\ replaced = {} /\ logins = {}

-------------------------------------------------------------------------------
(* What the tables do. *)

HasRow(id) == mfa # Nil /\ mfa.id = id

\* enable_mfa holds the row until its transaction ends; a DELETE waits for it.
Locked == \E r \in Requests :
    req[r].op = "confirm" /\ req[r].pc \in {"delete", "commit"} /\ HasRow(req[r].mfa)

\* A code is locked by the transaction that has deleted it.
CodeLocked(id) == \E r \in Requests : req[r].pc = "commit" /\ id \in req[r].gone

Enabled == mfa # Nil /\ mfa.enabled
Usable == required /\ active

\* The codes go with their row.
DeleteRow == codes' = {}

\* One more step of a request.
Goto(r, pc) == req' = [req EXCEPT ![r].pc = pc, ![r].gone = {}]
At(r, op, pc) == req[r].op = op /\ req[r].pc = pc

Read(r, op, pc, code) ==
    /\ req[r] = Fresh
    /\ req' = [req EXCEPT ![r] = [op |-> op, pc |-> pc, code |-> code, gone |-> {},
                                  mfa |-> IF mfa = Nil THEN Nil ELSE mfa.id]]
    /\ UNCHANGED <<tables, replaced, logins>>

-------------------------------------------------------------------------------
(* The account's own requests. *)

StartSetup(r) == Usable /\ ~Enabled /\ Read(r, "setup", "write", Nil)

\* The row that was read is deleted, whatever it is by now.  An account has one
\* row: where another request made one in between, the insert is refused.
WriteSetup(r) ==
    /\ At(r, "setup", "write") /\ ~Locked
    /\ \/ /\ mfa = Nil \/ HasRow(req[r].mfa)
          /\ mfa' = [id |-> r, enabled |-> FALSE] /\ DeleteRow
       \/ /\ mfa # Nil /\ ~HasRow(req[r].mfa)
          /\ UNCHANGED <<mfa, codes>>
    /\ Goto(r, "done")
    /\ UNCHANGED <<required, active, replaced, logins>>

ConfirmSetup(r) == Usable /\ mfa # Nil /\ ~Enabled /\ Read(r, "confirm", "write", Nil)

\* The first regeneration reads the row without a lock.
RegenerateRecoveryCodes(r) == Usable /\ Enabled /\ Read(r, "regenerate", "write", Nil)

\* The deletion of the old codes finds those that are there as it starts.  The
\* confirmation has updated its row before, and holds it if it is there.
BeginDeletion(r) ==
    /\ req[r].op \in {"confirm", "regenerate"} /\ req[r].pc = "write"
    /\ req[r].op = "confirm" => ~Locked
    /\ req' = [req EXCEPT ![r].pc = "delete",
                          ![r].gone = {c.id : c \in CodesOf(req[r].mfa)}]
    /\ UNCHANGED <<tables, replaced, logins>>

\* It waits for those that another transaction holds, and deletes what is left
\* of them, not what was inserted since.  Their rows are locked to the commit.
DeleteRecoveryCodes(r) ==
    /\ req[r].pc = "delete" /\ \A id \in req[r].gone : ~CodeLocked(id)
    /\ req' = [req EXCEPT ![r].pc = "commit",
                          ![r].gone = {id \in req[r].gone : \E c \in codes : c.id = id}]
    /\ UNCHANGED <<tables, replaced, logins>>

\* The new codes refer to the row: if it is gone, the transaction fails.
InsertRecoveryCodes(r) ==
    /\ req[r].op \in {"confirm", "regenerate"} /\ req[r].pc = "commit"
    /\ \/ /\ HasRow(req[r].mfa)
          /\ mfa' = [mfa EXCEPT !.enabled = TRUE]
          /\ codes' = {c \in codes : c.id \notin req[r].gone} \cup {NewCode(r, req[r].mfa)}
          /\ replaced' = replaced \cup req[r].gone
       \/ /\ ~HasRow(req[r].mfa)
          /\ UNCHANGED <<mfa, codes, replaced>>
    /\ Goto(r, "done")
    /\ UNCHANGED <<required, active, logins>>

-------------------------------------------------------------------------------
(* Logins.  The challenge comes after the password, if the account has MFA. *)

Login(r) == Usable /\ Enabled /\ Read(r, "recover", "challenged", Nil)

\* Among the codes that are read, one that is not used matches.
FindMatchingRecoveryCode(r, c) ==
    /\ At(r, "recover", "challenged") /\ Usable /\ Enabled
    /\ c \in CodesOf(mfa.id) /\ ~c.used
    /\ req' = [req EXCEPT ![r].pc = "mark", ![r].code = c.id]
    /\ UNCHANGED <<tables, replaced, logins>>

Consume(r, marked) ==
    LET id == req[r].code IN
    /\ At(r, "recover", "mark") /\ ~CodeLocked(id)
    /\ codes' = {IF c \in marked THEN [c EXCEPT !.used = TRUE] ELSE c : c \in codes}
    /\ logins' = IF marked = {} THEN logins
                 ELSE logins \cup {[by |-> r, code |-> id, dead |-> id \in replaced]}
    /\ Goto(r, "done")
    /\ UNCHANGED <<mfa, required, active, replaced>>

\* Mutant: a code that another login has used in between is marked again.
MarkRecoveryCode(r) == Consume(r, {c \in codes : c.id = req[r].code})

\* Mutant: the login does not look at what the update returns.
MarkRecoveryCodeUnseen(r) ==
    /\ At(r, "recover", "mark") /\ ~CodeLocked(req[r].code)
    /\ codes' = {IF c.id = req[r].code THEN [c EXCEPT !.used = TRUE] ELSE c : c \in codes}
    /\ logins' = logins \cup
          {[by |-> r, code |-> req[r].code, dead |-> req[r].code \in replaced]}
    /\ Goto(r, "done")
    /\ UNCHANGED <<mfa, required, active, replaced>>

\* The code is used up if it is still there and unused, and then logs in.
MarkRecoveryCodeUsed(r) == Consume(r, {c \in codes : c.id = req[r].code /\ ~c.used})

-------------------------------------------------------------------------------
(* The administrators. *)

\* resetMemberMfa deletes the row of the account, whatever it is.
ResetMemberMfa ==
    /\ mfa # Nil /\ ~Locked
    /\ mfa' = Nil /\ DeleteRow
    /\ UNCHANGED <<required, active, req, replaced, logins>>

UpdateMfaPolicy ==
    /\ required' = ~required
    /\ UNCHANGED <<mfa, codes, active, req, replaced, logins>>

SwitchUser ==
    /\ active' = ~active
    /\ UNCHANGED <<mfa, codes, required, req, replaced, logins>>

Next ==
    \/ \E r \in Requests :
          \/ StartSetup(r) \/ WriteSetup(r) \/ ConfirmSetup(r) \/ RegenerateRecoveryCodes(r)
          \/ BeginDeletion(r) \/ DeleteRecoveryCodes(r) \/ InsertRecoveryCodes(r)
          \/ Login(r) \/ MarkRecoveryCodeUsed(r)
          \/ \E c \in codes : FindMatchingRecoveryCode(r, c)
    \/ ResetMemberMfa \/ UpdateMfaPolicy \/ SwitchUser

Spec == Init /\ [][Next]_vars

-------------------------------------------------------------------------------
(* Properties. *)

TypeOK ==
    /\ mfa \in [id : Ids, enabled : BOOLEAN] \cup {Nil}
    /\ codes \subseteq [id : Ids, mfa : Ids, used : BOOLEAN]
    /\ required \in BOOLEAN /\ active \in BOOLEAN
    /\ req \in [Requests -> [op : {"none", "setup", "confirm", "regenerate", "recover"},
                             pc : {"start", "write", "challenged", "delete", "commit", "mark",
                                   "done"},
                             mfa : Ids \cup {Nil}, code : Ids \cup {Nil},
                             gone : SUBSET Ids]]
    /\ replaced \subseteq Ids
    /\ logins \subseteq [by : Requests, code : Ids, dead : BOOLEAN]

\* Two logins with one recovery code never both succeed, however their reads,
\* a regeneration and a reset interleave (the code's row is marked only while
\* it is unused, and the login looks at the result).
RecoveryCodeOnce == \A l, m \in logins : l.code = m.code => l = m

\* A code that was there when a regeneration or a confirmation began to delete
\* logs no one in after that request was answered, not even the login that had
\* found it before.  The codes of a regeneration that overlaps stay valid: its
\* insert is not seen, and both batches of codes then log in.
ReplacedCodesAreDead == \A l \in logins : ~l.dead
===============================================================================
