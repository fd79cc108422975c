--------------------------- MODULE Services_proofs ---------------------------
(***************************************************************************)
(* The services that share no state with each other keep their rules for   *)
(* any number of requests, files, users and comments: the second factor,   *)
(* the stored files, the notifications, the shares, the import and the     *)
(* listings.  The properties are those of MCServices, each about its       *)
(* service's behaviours.                                                   *)
(***************************************************************************)
EXTENDS MCServices, SequenceTheorems, FiniteSetTheorems, WellFoundedInduction, TLAPS

-------------------------------------------------------------------------------
(* The second factor.                                                      *)

\* No request will make this code again.
Settled(id) == id \in Attempt => mfaReq[id].pc = "done"

\* A code has an id of its own, and lives until it is replaced.
CodesAreOne ==
  /\ \A c \in codes : Settled(c.id) /\ c.id \notin replaced
  /\ \A c, d \in codes : c.id = d.id => c = d

\* No code comes back under the name of one that a deletion has found.
HeldCodes ==
  \A r \in Attempt : mfaReq[r].pc \in {"delete", "commit"} =>
    \A i \in mfaReq[r].gone : Settled(i)

\* A login used its code up, and found it alive.
LoginsUsed ==
  /\ \A l \in logins : Settled(l.code) /\ ~l.dead /\ \A c \in codes : c.id = l.code => c.used
  /\ \A l, m \in logins : l.code = m.code => l = m

MfaIInv ==
  /\ M!TypeOK /\ CodesAreOne /\ HeldCodes /\ LoginsUsed
  /\ \A i \in replaced : Settled(i)

\* What a step needs to know of codes and requests, without their fields.
LEMMA NewCodeIs ==
  ASSUME NEW i \in Attempt \cup {Past}, NEW m \in Attempt \cup {Past}
  PROVE  /\ M!NewCode(i, m) \in [id : Attempt \cup {Past}, mfa : Attempt \cup {Past}, used : BOOLEAN]
         /\ M!NewCode(i, m).id = i /\ M!NewCode(i, m).mfa = m /\ ~M!NewCode(i, m).used
  <1> DEFINE no == FALSE
  <1>1. no \in BOOLEAN /\ ~no
    OBVIOUS
  <1>2. M!NewCode(i, m) = [id |-> i, mfa |-> m, used |-> no]
    BY DEF M!NewCode
  <1> HIDE DEF no
  <1> QED
    BY <1>1, <1>2

Marked(c) == [c EXCEPT !.used = TRUE]

LEMMA MarkedIs ==
  ASSUME NEW c \in [id : M!Ids, mfa : M!Ids, used : BOOLEAN]
  PROVE  /\ Marked(c) \in [id : M!Ids, mfa : M!Ids, used : BOOLEAN]
         /\ Marked(c).id = c.id /\ Marked(c).mfa = c.mfa /\ Marked(c).used
  <1> DEFINE yes == TRUE
  <1>1. yes \in BOOLEAN /\ yes
    OBVIOUS
  <1>2. Marked(c) = [c EXCEPT !.used = yes]
    BY DEF Marked
  <1> HIDE DEF yes
  <1> QED
    BY <1>1, <1>2

LEMMA MfaInit == M!Init => MfaIInv
  <1> SUFFICES ASSUME M!Init PROVE MfaIInv
    OBVIOUS
  <1>1. mfa \in [id : M!Ids, enabled : BOOLEAN] \cup {Nil}
    <2> DEFINE yes == TRUE
    <2>1. yes \in BOOLEAN /\ (mfa = Nil \/ mfa = [id |-> Past, enabled |-> yes])
      BY DEF M!Init
    <2> HIDE DEF yes
    <2> QED
      BY <2>1 DEF M!Ids
  <1>2. /\ codes \subseteq [id : M!Ids, mfa : M!Ids, used : BOOLEAN]
        /\ \A c, d \in codes : c = d /\ c.id = Past
    BY NewCodeIs DEF M!Init, M!Ids
  <1>3. mfaReq \in [Attempt -> [op : {"none", "setup", "confirm", "regenerate", "recover"},
                             pc : {"start", "write", "challenged", "delete", "commit", "mark",
                                   "done"},
                             mfa : M!Ids \cup {Nil}, code : M!Ids \cup {Nil},
                             gone : SUBSET M!Ids]]
    BY DEF M!Init, M!Fresh
  <1>4. required \in BOOLEAN /\ active \in BOOLEAN
    BY DEF M!Init
  <1>5. replaced = {} /\ logins = {} /\ \A r \in Attempt : mfaReq[r].pc = "start"
    BY DEF M!Init, M!Fresh
  <1>6. M!TypeOK
    BY <1>1, <1>2, <1>3, <1>4, <1>5 DEF M!TypeOK
  <1> QED
    BY <1>2, <1>5, <1>6, PastAssumption DEF MfaIInv, CodesAreOne, HeldCodes, LoginsUsed, Settled

\* Types.  A row of user_mfa is made or enabled, codes are made, marked or
\* deleted, and a request goes on.
LEMMA MfaType == M!TypeOK /\ M!Next => M!TypeOK'
  <1> SUFFICES ASSUME M!TypeOK, M!Next PROVE M!TypeOK'
    OBVIOUS
  <1> DEFINE Row  == [id : M!Ids, enabled : BOOLEAN]
             Code == [id : M!Ids, mfa : M!Ids, used : BOOLEAN]
             Req  == [op : {"none", "setup", "confirm", "regenerate", "recover"},
                      pc : {"start", "write", "challenged", "delete", "commit", "mark", "done"},
                      mfa : M!Ids \cup {Nil}, code : M!Ids \cup {Nil}, gone : SUBSET M!Ids]
             Log  == [by : Attempt, code : M!Ids, dead : BOOLEAN]
  <1>1. /\ mfa \in Row \cup {Nil} /\ codes \subseteq Code /\ mfaReq \in [Attempt -> Req]
        /\ replaced \subseteq M!Ids /\ logins \subseteq Log
        /\ required \in BOOLEAN /\ active \in BOOLEAN /\ Attempt \subseteq M!Ids
    BY DEF M!TypeOK, M!Ids
  <1>2. /\ mfa' \in Row \cup {Nil} /\ codes' \subseteq Code /\ mfaReq' \in [Attempt -> Req]
        /\ replaced' \subseteq M!Ids /\ logins' \subseteq Log
        /\ required' \in BOOLEAN /\ active' \in BOOLEAN
        => M!TypeOK'
    BY DEF M!TypeOK, M!Ids
  <1> HIDE DEF Row, Code, Log
  <1>3. ASSUME NEW r \in Attempt, NEW op \in {"setup", "confirm", "regenerate", "recover"},
               NEW pc \in {"write", "challenged"}, M!Read(r, op, pc, Nil)
        PROVE  mfaReq' \in [Attempt -> Req] /\ UNCHANGED <<mfa, codes, required, active, replaced, logins>>
    <2> DEFINE m == IF mfa = Nil THEN Nil ELSE mfa.id
               h == [op |-> op, pc |-> pc, code |-> Nil, gone |-> {}, mfa |-> m]
    <2>1. m \in M!Ids \cup {Nil}
      BY <1>1 DEF Row
    <2> HIDE DEF m
    <2>2. h \in Req
      BY <2>1
    <2>3. mfaReq' = [mfaReq EXCEPT ![r] = h]
      BY <1>3 DEF M!Read, m
    <2> HIDE DEF h, Req
    <2> QED
      BY <1>1, <1>3, <2>2, <2>3 DEF M!Read, M!tables
  <1>4. ASSUME NEW r \in Attempt, NEW pc \in {"start", "write", "challenged", "delete", "commit", "mark", "done"},
               M!Goto(r, pc)
        PROVE  mfaReq' \in [Attempt -> Req]
    <2> DEFINE h == [mfaReq[r] EXCEPT !.pc = pc, !.gone = {}]
    <2>1. h \in Req
      BY <1>1
    <2>2. mfaReq' = [mfaReq EXCEPT ![r] = h]
      BY <1>1, <1>4 DEF M!Goto
    <2> HIDE DEF h, Req
    <2> QED
      BY <1>1, <2>1, <2>2
  <1>5. ASSUME NEW r \in Attempt,
               M!StartSetup(r) \/ M!ConfirmSetup(r) \/ M!RegenerateRecoveryCodes(r) \/ M!Login(r)
        PROVE  M!TypeOK'
    <2>1. M!Read(r, "setup", "write", Nil) \/ M!Read(r, "confirm", "write", Nil)
            \/ M!Read(r, "regenerate", "write", Nil) \/ M!Read(r, "recover", "challenged", Nil)
      BY <1>5 DEF M!StartSetup, M!ConfirmSetup, M!RegenerateRecoveryCodes, M!Login
    <2>2. mfaReq' \in [Attempt -> Req] /\ UNCHANGED <<mfa, codes, required, active, replaced, logins>>
      BY <1>3, <2>1
    <2> QED
      BY <1>1, <1>2, <2>2
  <1>6. ASSUME NEW r \in Attempt, M!WriteSetup(r) PROVE M!TypeOK'
    <2> DEFINE no == FALSE
    <2>1. no \in BOOLEAN /\ (mfa' = [id |-> r, enabled |-> no] \/ mfa' = mfa)
      BY <1>6 DEF M!WriteSetup
    <2> HIDE DEF no
    <2>2. mfa' \in Row \cup {Nil}
      BY <1>1, <2>1 DEF Row
    <2>3. /\ codes' \subseteq codes /\ M!Goto(r, "done")
          /\ UNCHANGED <<required, active, replaced, logins>>
      BY <1>6 DEF M!WriteSetup, M!DeleteRow
    <2> QED
      BY <1>1, <1>2, <1>4, <2>2, <2>3
  <1>7. ASSUME NEW r \in Attempt, M!BeginDeletion(r) \/ M!DeleteRecoveryCodes(r) PROVE M!TypeOK'
    <2>1. PICK pc \in {"delete", "commit"}, found \in SUBSET M!Ids :
            mfaReq' = [mfaReq EXCEPT ![r].pc = pc, ![r].gone = found]
      <3>1. {c.id : c \in M!CodesOf(mfaReq[r].mfa)} \in SUBSET M!Ids
        BY <1>1 DEF M!CodesOf, Code
      <3>2. {i \in mfaReq[r].gone : \E c \in codes : c.id = i} \in SUBSET M!Ids
        BY <1>1
      <3> QED
        BY <1>7, <3>1, <3>2 DEF M!BeginDeletion, M!DeleteRecoveryCodes
    <2> DEFINE h == [mfaReq[r] EXCEPT !.pc = pc, !.gone = found]
    <2>2. h \in Req
      BY <1>1
    <2>3. mfaReq' = [mfaReq EXCEPT ![r] = h]
      BY <1>1, <2>1
    <2>4. UNCHANGED <<mfa, codes, required, active, replaced, logins>>
      BY <1>7 DEF M!BeginDeletion, M!DeleteRecoveryCodes, M!tables
    <2> HIDE DEF h, Req
    <2> QED
      BY <1>1, <1>2, <2>2, <2>3, <2>4
  <1>8. ASSUME NEW r \in Attempt, M!InsertRecoveryCodes(r) PROVE M!TypeOK'
    <2>1. M!Goto(r, "done") /\ UNCHANGED <<required, active, logins>>
      BY <1>8 DEF M!InsertRecoveryCodes
    <2>2. CASE UNCHANGED <<mfa, codes, replaced>>
      BY <1>1, <1>2, <1>4, <2>1, <2>2
    <2>3. CASE /\ M!HasRow(mfaReq[r].mfa)
               /\ mfa' = [mfa EXCEPT !.enabled = TRUE]
               /\ codes' = {c \in codes : c.id \notin mfaReq[r].gone} \cup {M!NewCode(r, mfaReq[r].mfa)}
               /\ replaced' = replaced \cup mfaReq[r].gone
      <3> DEFINE yes == TRUE
      <3>1. yes \in BOOLEAN /\ mfa' = [mfa EXCEPT !.enabled = yes]
        BY <2>3
      <3> HIDE DEF yes
      <3>2. mfa \in Row /\ mfaReq[r].mfa \in M!Ids /\ mfaReq[r].gone \subseteq M!Ids
        BY <1>1, <2>3 DEF M!HasRow, Row
      <3>3. mfa' \in Row
        BY <3>1, <3>2 DEF Row
      <3>4. codes' \subseteq Code
        BY <1>1, <2>3, <3>2, NewCodeIs DEF Code, M!Ids
      <3>5. replaced' \subseteq M!Ids
        BY <1>1, <2>3, <3>2
      <3> QED
        BY <1>1, <1>2, <1>4, <2>1, <3>3, <3>4, <3>5
    <2> QED
      BY <1>8, <2>2, <2>3 DEF M!InsertRecoveryCodes
  <1>9. ASSUME NEW r \in Attempt, NEW c \in codes, M!FindMatchingRecoveryCode(r, c) PROVE M!TypeOK'
    <2> DEFINE h == [mfaReq[r] EXCEPT !.pc = "mark", !.code = c.id]
    <2>1. c.id \in M!Ids
      BY <1>1 DEF Code
    <2>2. h \in Req
      BY <1>1, <2>1
    <2>3. mfaReq' = [mfaReq EXCEPT ![r] = h]
      BY <1>1, <1>9 DEF M!FindMatchingRecoveryCode
    <2> HIDE DEF h, Req
    <2> QED
      BY <1>1, <1>2, <1>9, <2>2, <2>3 DEF M!FindMatchingRecoveryCode, M!tables
  <1>10. ASSUME NEW r \in Attempt, M!MarkRecoveryCodeUsed(r) PROVE M!TypeOK'
    <2> DEFINE marked == {c \in codes : c.id = mfaReq[r].code /\ ~c.used}
               dead   == mfaReq[r].code \in replaced
    <2>1. /\ codes' = {IF c \in marked THEN Marked(c) ELSE c : c \in codes}
          /\ logins' = IF marked = {} THEN logins
                       ELSE logins \cup {[by |-> r, code |-> mfaReq[r].code, dead |-> dead]}
          /\ M!Goto(r, "done") /\ UNCHANGED <<mfa, required, active, replaced>>
      BY <1>10 DEF M!MarkRecoveryCodeUsed, M!Consume, Marked
    <2>2. codes' \subseteq Code
      BY <1>1, <2>1, MarkedIs DEF Code
    <2>3. dead \in BOOLEAN /\ (marked # {} => mfaReq[r].code \in M!Ids)
      BY <1>1 DEF Code
    <2> HIDE DEF marked, dead
    <2>4. logins' \subseteq Log
      BY <1>1, <2>1, <2>3 DEF Log
    <2> QED
      BY <1>1, <1>2, <1>4, <2>1, <2>2, <2>4
  <1>11. CASE M!ResetMemberMfa \/ M!UpdateMfaPolicy \/ M!SwitchUser
    BY <1>1, <1>2, <1>11 DEF M!ResetMemberMfa, M!UpdateMfaPolicy, M!SwitchUser, M!DeleteRow
  <1> QED
    BY <1>5, <1>6, <1>7, <1>8, <1>9, <1>10, <1>11 DEF M!Next

LEMMA MfaGoto ==
  ASSUME M!TypeOK, NEW r \in Attempt, NEW pc, M!Goto(r, pc)
  PROVE  /\ mfaReq'[r].pc = pc /\ mfaReq'[r].gone = {}
         /\ \A q \in Attempt \ {r} : mfaReq'[q] = mfaReq[q]
  <1> DEFINE h == [mfaReq[r] EXCEPT !.pc = pc, !.gone = {}]
  <1>1. mfaReq' = [mfaReq EXCEPT ![r] = h] /\ h.pc = pc /\ h.gone = {}
    BY DEF M!Goto, M!TypeOK
  <1> HIDE DEF h
  <1> QED
    BY <1>1 DEF M!TypeOK

\* Most steps at most delete codes, and what a deletion finds is in the table.
LEMMA MfaQuiet ==
  ASSUME MfaIInv, M!TypeOK', NEW r \in Attempt,
         codes' \subseteq codes, replaced' = replaced, logins' = logins,
         \A q \in Attempt \ {r} : mfaReq'[q] = mfaReq[q],
         mfaReq[r].pc = "done" => mfaReq'[r].pc = "done",
         mfaReq'[r].pc \in {"delete", "commit"} => \A i \in mfaReq'[r].gone : Settled(i)
  PROVE  MfaIInv'
  <1>1. \A i : Settled(i) => Settled(i)'
    BY DEF Settled
  <1>2. CodesAreOne'
    BY <1>1 DEF MfaIInv, CodesAreOne
  <1>3. HeldCodes'
    BY <1>1 DEF MfaIInv, HeldCodes
  <1>4. LoginsUsed'
    BY <1>1 DEF MfaIInv, LoginsUsed
  <1> QED
    BY <1>1, <1>2, <1>3, <1>4 DEF MfaIInv

LEMMA MfaInsert ==
  ASSUME MfaIInv, M!TypeOK', NEW r \in Attempt, M!InsertRecoveryCodes(r)
  PROVE  MfaIInv'
  <1> DEFINE dead == mfaReq[r].gone
             n    == M!NewCode(r, mfaReq[r].mfa)
  <1>1. /\ M!TypeOK /\ mfaReq[r].pc = "commit" /\ logins' = logins
        /\ mfaReq'[r].pc = "done" /\ \A q \in Attempt \ {r} : mfaReq'[q] = mfaReq[q]
    BY MfaGoto DEF M!InsertRecoveryCodes, MfaIInv
  <1>2. CASE UNCHANGED <<mfa, codes, replaced>>
    BY <1>1, <1>2, MfaQuiet
  <1>3. CASE /\ M!HasRow(mfaReq[r].mfa)
             /\ codes' = {c \in codes : c.id \notin dead} \cup {n}
             /\ replaced' = replaced \cup dead
    <2>1. ~Settled(r) /\ Settled(r)' /\ \A i : Settled(i) => Settled(i)' /\ i # r
      BY <1>1 DEF Settled
    <2>2. n.id = r /\ ~n.used
      <3>1. mfaReq[r].mfa \in Attempt \cup {Past}
        BY <1>1, <1>3 DEF M!TypeOK, M!HasRow, M!Ids
      <3> QED
        BY <3>1, NewCodeIs
    <2> HIDE DEF n
    <2>3. \A i \in dead : Settled(i)
      BY <1>1 DEF MfaIInv, HeldCodes
    <2> HIDE DEF dead
    <2>4. CodesAreOne'
      <3>1. \A c \in codes : c.id \notin dead => Settled(c.id)' /\ c.id \notin replaced' /\ c.id # r
        BY <1>3, <2>1, <2>3 DEF MfaIInv, CodesAreOne
      <3>2. r \notin replaced'
        BY <1>3, <2>1, <2>3 DEF MfaIInv
      <3> QED
        BY <1>3, <2>1, <2>2, <3>1, <3>2 DEF MfaIInv, CodesAreOne
    <2>5. HeldCodes'
      BY <1>1, <2>1 DEF MfaIInv, HeldCodes
    <2>6. LoginsUsed'
      BY <1>1, <1>3, <2>1, <2>2 DEF MfaIInv, LoginsUsed
    <2>7. \A i \in replaced' : Settled(i)'
      BY <1>3, <2>1, <2>3 DEF MfaIInv
    <2> QED
      BY <2>4, <2>5, <2>6, <2>7 DEF MfaIInv
  <1> QED
    BY <1>2, <1>3 DEF M!InsertRecoveryCodes

LEMMA MfaMark ==
  ASSUME MfaIInv, M!TypeOK', NEW r \in Attempt, M!MarkRecoveryCodeUsed(r)
  PROVE  MfaIInv'
  <1> DEFINE id     == mfaReq[r].code
             marked == {c \in codes : c.id = id /\ ~c.used}
             dead   == id \in replaced
             login  == [by |-> r, code |-> id, dead |-> dead]
  <1>1. /\ M!TypeOK /\ mfaReq[r].pc = "mark" /\ replaced' = replaced
        /\ codes' = {IF c \in marked THEN Marked(c) ELSE c : c \in codes}
        /\ logins' = IF marked = {} THEN logins ELSE logins \cup {login}
        /\ mfaReq'[r].pc = "done" /\ \A q \in Attempt \ {r} : mfaReq'[q] = mfaReq[q]
    BY MfaGoto DEF M!MarkRecoveryCodeUsed, M!Consume, M!At, MfaIInv, Marked
  <1>2. CASE marked = {}
    <2>1. codes' = codes
      BY <1>1, <1>2
    <2> QED
      BY <1>1, <1>2, <2>1, MfaQuiet
  <1>3. CASE marked # {}
    <2>1. PICK k \in codes : k.id = id /\ ~k.used
      BY <1>3
    <2>2. marked = {k}
      BY <2>1 DEF MfaIInv, CodesAreOne
    <2>3. /\ Settled(id) /\ id \notin replaced /\ \A i : Settled(i) => Settled(i)'
          /\ \A l \in logins : l.code # id
      BY <1>1, <2>1 DEF MfaIInv, CodesAreOne, LoginsUsed, Settled
    <2>4. dead \in BOOLEAN /\ ~dead
      BY <2>3
    <2>5. Marked(k).id = id /\ Marked(k).used
      BY <1>1, <2>1, MarkedIs DEF M!TypeOK
    <2> HIDE DEF dead, marked
    <2>6. login.code = id /\ ~login.dead
      BY <2>4
    <2> HIDE DEF login
    <2>7. codes' = (codes \ {k}) \cup {Marked(k)} /\ logins' = logins \cup {login}
      BY <1>1, <1>3, <2>1, <2>2
    <2>8. CodesAreOne'
      BY <1>1, <2>1, <2>3, <2>5, <2>7 DEF MfaIInv, CodesAreOne
    <2>9. HeldCodes'
      BY <1>1, <2>3 DEF MfaIInv, HeldCodes
    <2>10. LoginsUsed'
      BY <2>1, <2>3, <2>5, <2>6, <2>7 DEF MfaIInv, LoginsUsed, CodesAreOne
    <2> QED
      BY <1>1, <2>3, <2>8, <2>9, <2>10 DEF MfaIInv
  <1> QED
    BY <1>2, <1>3

LEMMA MfaStep == MfaIInv /\ M!Next => MfaIInv'
  <1> SUFFICES ASSUME MfaIInv, M!Next PROVE MfaIInv'
    OBVIOUS
  <1>1. M!TypeOK /\ M!TypeOK'
    BY MfaType DEF MfaIInv
  <1>2. ASSUME NEW r \in Attempt,
               M!StartSetup(r) \/ M!ConfirmSetup(r) \/ M!RegenerateRecoveryCodes(r) \/ M!Login(r)
        PROVE  MfaIInv'
    <2>1. PICK op \in {"setup", "confirm", "regenerate", "recover"}, pc \in {"write", "challenged"} :
            M!Read(r, op, pc, Nil)
      BY <1>2 DEF M!StartSetup, M!ConfirmSetup, M!RegenerateRecoveryCodes, M!Login
    <2> DEFINE h == [op |-> op, pc |-> pc, code |-> Nil, gone |-> {},
                     mfa |-> IF mfa = Nil THEN Nil ELSE mfa.id]
    <2>2. /\ mfaReq[r].pc = "start" /\ mfaReq' = [mfaReq EXCEPT ![r] = h] /\ h.pc = pc
          /\ codes' = codes /\ replaced' = replaced /\ logins' = logins
      BY <2>1 DEF M!Read, M!Fresh, M!tables
    <2> HIDE DEF h
    <2>3. mfaReq'[r].pc = pc /\ \A q \in Attempt \ {r} : mfaReq'[q] = mfaReq[q]
      BY <1>1, <2>2 DEF M!TypeOK
    <2> QED
      BY <1>1, <2>1, <2>2, <2>3, MfaQuiet
  <1>3. ASSUME NEW r \in Attempt, M!WriteSetup(r) PROVE MfaIInv'
    <2>1. M!Goto(r, "done") /\ codes' \subseteq codes /\ replaced' = replaced /\ logins' = logins
      BY <1>3 DEF M!WriteSetup, M!DeleteRow
    <2> QED
      BY <1>1, <2>1, MfaGoto, MfaQuiet
  <1>4. ASSUME NEW r \in Attempt, M!BeginDeletion(r) \/ M!DeleteRecoveryCodes(r) PROVE MfaIInv'
    <2>1. PICK pc \in {"delete", "commit"}, found \in SUBSET M!Ids :
            /\ mfaReq' = [mfaReq EXCEPT ![r].pc = pc, ![r].gone = found]
            /\ \A i \in found : Settled(i)
      <3>1. CASE M!BeginDeletion(r)
        <4>1. /\ {c.id : c \in M!CodesOf(mfaReq[r].mfa)} \in SUBSET M!Ids
              /\ \A i \in {c.id : c \in M!CodesOf(mfaReq[r].mfa)} : Settled(i)
          BY <1>1 DEF M!CodesOf, MfaIInv, CodesAreOne, M!TypeOK
        <4> QED
          BY <3>1, <4>1 DEF M!BeginDeletion
      <3>2. CASE M!DeleteRecoveryCodes(r)
        <4>1. /\ {i \in mfaReq[r].gone : \E c \in codes : c.id = i} \in SUBSET M!Ids
              /\ \A i \in mfaReq[r].gone : (\E c \in codes : c.id = i) => Settled(i)
          BY <1>1 DEF MfaIInv, CodesAreOne, M!TypeOK
        <4> QED
          BY <3>2, <4>1 DEF M!DeleteRecoveryCodes
      <3> QED
        BY <1>4, <3>1, <3>2
    <2> DEFINE h == [mfaReq[r] EXCEPT !.pc = pc, !.gone = found]
    <2>2. mfaReq' = [mfaReq EXCEPT ![r] = h] /\ h.gone = found
      BY <1>1, <2>1 DEF M!TypeOK
    <2>3. mfaReq[r].pc # "done" /\ codes' = codes /\ replaced' = replaced /\ logins' = logins
      BY <1>4 DEF M!BeginDeletion, M!DeleteRecoveryCodes, M!tables
    <2> HIDE DEF h
    <2>4. mfaReq'[r] = h /\ \A q \in Attempt \ {r} : mfaReq'[q] = mfaReq[q]
      BY <1>1, <2>2 DEF M!TypeOK
    <2> QED
      BY <1>1, <2>1, <2>2, <2>3, <2>4, MfaQuiet
  <1>5. ASSUME NEW r \in Attempt, NEW c \in codes, M!FindMatchingRecoveryCode(r, c) PROVE MfaIInv'
    <2> DEFINE h == [mfaReq[r] EXCEPT !.pc = "mark", !.code = c.id]
    <2>1. /\ mfaReq[r].pc = "challenged" /\ mfaReq' = [mfaReq EXCEPT ![r] = h]
          /\ h.pc = "mark" /\ codes' = codes /\ replaced' = replaced /\ logins' = logins
      BY <1>1, <1>5 DEF M!FindMatchingRecoveryCode, M!At, M!tables, M!TypeOK
    <2> HIDE DEF h
    <2>2. mfaReq'[r] = h /\ \A q \in Attempt \ {r} : mfaReq'[q] = mfaReq[q]
      BY <1>1, <2>1 DEF M!TypeOK
    <2> QED
      BY <1>1, <2>1, <2>2, MfaQuiet
  <1>6. CASE M!ResetMemberMfa \/ M!UpdateMfaPolicy \/ M!SwitchUser
    <2>1. codes' \subseteq codes /\ UNCHANGED <<mfaReq, replaced, logins>>
      BY <1>6 DEF M!ResetMemberMfa, M!UpdateMfaPolicy, M!SwitchUser, M!DeleteRow
    <2> QED
      BY <1>1, <2>1 DEF MfaIInv, CodesAreOne, HeldCodes, LoginsUsed, Settled
  <1> QED
    BY <1>1, <1>2, <1>3, <1>4, <1>5, <1>6, MfaInsert, MfaMark DEF M!Next

\* The other services leave the second factor alone.
LEMMA MfaInvariance == Spec => [](part = "mfa" => MfaIInv)
  <1>1. Init => (part = "mfa" => MfaIInv)
    BY MfaInit DEF Init
  <1>2. (part = "mfa" => MfaIInv) /\ [Next]_all => (part = "mfa" => MfaIInv)'
    <2>1. CASE UNCHANGED all
      BY <2>1 DEF all, auth, MfaIInv, CodesAreOne, HeldCodes, LoginsUsed, Settled, M!TypeOK
    <2>2. CASE part = "mfa" /\ M!Next /\ part' = part
      BY <2>2, MfaStep
    <2> QED
      BY <2>1, <2>2 DEF Next
  <1> QED
    BY <1>1, <1>2, PTL DEF Spec

\* Two logins with one recovery code never both succeed, whatever requests,
\* resets and changes of the policy interleave.
THEOREM CodesLogInOnce == Spec => []RecoveryCodeOnce
  <1>1. (part = "mfa" => MfaIInv) => RecoveryCodeOnce
    BY DEF RecoveryCodeOnce, M!RecoveryCodeOnce, MfaIInv, LoginsUsed
  <1> QED
    BY <1>1, MfaInvariance, PTL

\* A code that a regeneration or a confirmation found as it began to delete
\* logs nobody in after that request was answered.
THEOREM ReplacedLogNobodyIn == Spec => []ReplacedCodesAreDead
  <1>1. (part = "mfa" => MfaIInv) => ReplacedCodesAreDead
    BY DEF ReplacedCodesAreDead, M!ReplacedCodesAreDead, MfaIInv, LoginsUsed
  <1> QED
    BY <1>1, MfaInvariance, PTL

-------------------------------------------------------------------------------
(* The stored files.                                                       *)

Pcs == {"idle", "upload", "save", "image", "read", "write", "drop", "dropRow",
        "remove", "removeRow", "clear", "job", "force", "queue"}
NoFile == {"idle", "job", "force", "queue"}
Kinds == {"page", "space", "user"}
FileReqs == [pc : Pcs, file : File \cup {Nil}, old : File \cup {Nil}, kind : Kinds \cup {Nil},
             left : 0..Runs, todo : SUBSET File, done : BOOLEAN, failed : BOOLEAN]

FileTypes ==
  /\ owner \in [File -> {"page", "avatar", Nil}]
  /\ rows \subseteq File /\ files \subseteq File /\ lost \subseteq File
  /\ icon \in File \cup {Nil} /\ gone \subseteq doomed /\ doomed \subseteq Kinds
  /\ queue \subseteq A!Jobs
  /\ fileReq \in [Request -> FileReqs]

\* The request or job r knows of the file f.
Knows(r, f) == fileReq[r].file = f \/ fileReq[r].old = f \/ f \in fileReq[r].todo

\* Of a name that is unused nothing is known.
Unused ==
  \A f \in File : owner[f] = Nil =>
    f \notin rows /\ f \notin files /\ icon # f /\ \A r \in Request : ~Knows(r, f)

\* A name is used for the one kind of file it was made for.
Owned ==
  /\ icon # Nil => owner[icon] = "avatar"
  /\ \A r \in Request :
       /\ fileReq[r].old # Nil => owner[fileReq[r].old] = "avatar"
       /\ fileReq[r].pc \notin NoFile => fileReq[r].file # Nil
       /\ fileReq[r].pc \in {"upload", "save"} => owner[fileReq[r].file] = "page"
       /\ fileReq[r].pc \notin NoFile \cup {"upload", "save"} =>
            owner[fileReq[r].file] = "avatar"

\* The one who uploads a file is the only one who knows of it.
OneMakes ==
  \A r \in Request, f \in File :
    fileReq[r].file = f /\ fileReq[r].pc \in {"upload", "save", "image", "read", "write"} =>
      /\ f \notin rows /\ icon # f /\ fileReq[r].old # f /\ f \notin fileReq[r].todo
      /\ \A q \in Request \ {r} : ~Knows(q, f)

\* What a request has done before its next statement.
Stages ==
  \A r \in Request :
    /\ fileReq[r].pc \in {"save", "read", "write"} => fileReq[r].file \in files
    /\ fileReq[r].pc \in {"drop", "dropRow"} => fileReq[r].file # icon
    /\ fileReq[r].pc \in {"dropRow", "removeRow"} => fileReq[r].file \notin files

\* A job works on files of what somebody has begun to delete.
JobsOfDoomed ==
  /\ \A j \in queue : j.kind \in doomed
  /\ "space" \in doomed => "page" \in doomed
  /\ \A r \in Request :
       /\ fileReq[r].pc = "job" => /\ fileReq[r].kind \in doomed /\ fileReq[r].left \in 1..Runs
                                   /\ \A f \in fileReq[r].todo : owner[f] = A!Of(fileReq[r].kind)
       /\ fileReq[r].pc # "job" => fileReq[r].todo = {}
       /\ fileReq[r].pc \in {"force", "queue"} => fileReq[r].kind \in doomed

\* An object without a row that is not lost is in the hands of its request.
Covered ==
  \A f \in files : f \notin rows /\ f \notin lost =>
    \E r \in Request : fileReq[r].file = f /\ fileReq[r].pc \in {"save", "read", "write", "drop"}

FileIInv ==
  /\ FileTypes /\ Unused /\ Owned /\ OneMakes /\ Stages /\ JobsOfDoomed /\ Covered
  /\ A!InUseHasFile

(* How requests go on. *)

LEMMA IdleIs ==
  /\ A!Idle \in FileReqs /\ A!Idle.pc = "idle" /\ A!Idle.file = Nil /\ A!Idle.old = Nil
  /\ A!Idle.todo = {}
  <1> DEFINE no == FALSE
  <1>1. no \in BOOLEAN
    OBVIOUS
  <1>2. A!Idle = [pc |-> "idle", file |-> Nil, old |-> Nil, kind |-> Nil, left |-> 0, todo |-> {},
                  done |-> no, failed |-> no]
    BY DEF A!Idle
  <1> HIDE DEF no
  <1> QED
    BY <1>1, <1>2, BoundsAssumption DEF FileReqs, Pcs

Others(r) == fileReq' \in [Request -> FileReqs] /\ \A q \in Request \ {r} : fileReq'[q] = fileReq[q]

LEMMA FileGoto ==
  ASSUME FileTypes, NEW r \in Request, NEW pc \in Pcs, A!Goto(r, pc)
  PROVE  /\ Others(r) /\ fileReq'[r].pc = pc
         /\ fileReq'[r].file = fileReq[r].file /\ fileReq'[r].old = fileReq[r].old
         /\ fileReq'[r].kind = fileReq[r].kind /\ fileReq'[r].todo = fileReq[r].todo
  <1> DEFINE h == [fileReq[r] EXCEPT !.pc = pc]
  <1>1. fileReq' = [fileReq EXCEPT ![r] = h] /\ fileReq \in [Request -> FileReqs]
    BY DEF A!Goto, FileTypes
  <1>2. h \in FileReqs
    BY <1>1 DEF FileReqs
  <1>3. /\ h.pc = pc /\ h.file = fileReq[r].file /\ h.old = fileReq[r].old
        /\ h.kind = fileReq[r].kind /\ h.todo = fileReq[r].todo
    BY <1>1 DEF FileReqs
  <1> HIDE DEF h
  <1> QED
    BY <1>1, <1>2, <1>3 DEF Others

LEMMA FileLeave ==
  ASSUME FileTypes, NEW r \in Request, A!Leave(r)
  PROVE  Others(r) /\ fileReq'[r] = A!Idle
  BY IdleIs DEF A!Leave, FileTypes, Others

LEMMA FileBegin ==
  ASSUME FileTypes, NEW r \in Request, NEW pc \in Pcs, NEW f \in File \cup {Nil},
         A!Begin(r, [A!Idle EXCEPT !.pc = pc, !.file = f])
  PROVE  /\ Others(r) /\ fileReq[r].pc = "idle" /\ fileReq'[r].pc = pc
         /\ fileReq'[r].file = f /\ fileReq'[r].old = Nil /\ fileReq'[r].todo = {}
  <1> DEFINE h == [A!Idle EXCEPT !.pc = pc, !.file = f]
  <1>1. fileReq' = [fileReq EXCEPT ![r] = h] /\ fileReq \in [Request -> FileReqs]
        /\ fileReq[r].pc = "idle"
    BY DEF A!Begin, FileTypes
  <1>2. h \in FileReqs /\ h.pc = pc /\ h.file = f /\ h.old = Nil /\ h.todo = {}
    BY IdleIs DEF FileReqs
  <1> HIDE DEF h
  <1> QED
    BY <1>1, <1>2 DEF Others

LEMMA FileInit == A!Init => FileIInv
  <1> SUFFICES ASSUME A!Init PROVE FileIInv
    OBVIOUS
  <1>1. /\ owner = [f \in File |-> Nil] /\ rows = {} /\ files = {} /\ icon = Nil /\ gone = {} /\ doomed = {}
        /\ queue = {} /\ lost = {} /\ \A r \in Request : fileReq[r] = A!Idle
    BY DEF A!Init
  <1>2. FileTypes
    BY IdleIs DEF A!Init, FileTypes
  <1> QED
    BY <1>1, <1>2, IdleIs, FileAssumption DEF FileIInv, Unused, Knows, Owned, NoFile, OneMakes, Stages, JobsOfDoomed, Covered, A!InUseHasFile

LEMMA FileUpload ==
  ASSUME FileIInv, NEW r \in Request, NEW f \in File,
         A!UploadStart(r, f) \/ A!ImageStart(r, f)
  PROVE  FileIInv'
  <1>1. PICK pc \in {"upload", "image"} :
          /\ A!Begin(r, [A!Idle EXCEPT !.pc = pc, !.file = f]) /\ owner[f] = Nil
          /\ owner' = [owner EXCEPT ![f] = IF pc = "upload" THEN "page" ELSE "avatar"]
          /\ UNCHANGED <<rows, files, icon, gone, doomed, queue, lost>>
    BY DEF A!UploadStart, A!ImageStart
  <1>2. /\ Others(r) /\ fileReq[r].pc = "idle" /\ fileReq'[r].pc = pc
        /\ fileReq'[r].file = f /\ fileReq'[r].old = Nil /\ fileReq'[r].todo = {}
    BY <1>1, FileBegin, ZenonT(60) DEF FileIInv, Pcs
  <1>3. FileTypes'
    BY <1>1, <1>2 DEF FileIInv, Others, FileTypes
  <1>4. /\ owner'[f] = IF pc = "upload" THEN "page" ELSE "avatar"
        /\ owner'[f] # Nil /\ \A g \in File \ {f} : owner'[g] = owner[g]
    BY <1>1, FileAssumption DEF FileIInv, FileTypes
  <1>5. f \notin rows /\ f \notin files /\ icon # f /\ \A q \in Request : ~Knows(q, f)
    BY <1>1 DEF FileIInv, Unused
  <1>6. /\ \A q \in Request \ {r} : \A g : Knows(q, g)' <=> Knows(q, g)
        /\ \A g : Knows(r, g)' <=> g = f \/ g = Nil
    BY <1>2 DEF Others, Knows
  <1>7. Unused'
    BY <1>1, <1>4, <1>6, FileAssumption DEF FileIInv, Unused
  <1>8. Owned'
    <2>1. \A q \in Request \ {r} : fileReq[q].file # f /\ fileReq[q].old # f
      BY <1>5 DEF Knows
    <2>2. \A q \in Request : fileReq[q].file \in File \cup {Nil} /\ fileReq[q].old \in File \cup {Nil}
      BY DEF FileIInv, FileTypes, FileReqs
    <2>3. icon' # Nil => owner'[icon'] = "avatar"
      BY <1>1, <1>4, <1>5 DEF FileIInv, FileTypes, Owned, NoFile
    <2>4. ASSUME NEW q \in Request
          PROVE  /\ fileReq'[q].old # Nil => owner'[fileReq'[q].old] = "avatar"
                 /\ fileReq'[q].pc \notin NoFile => fileReq'[q].file # Nil
                 /\ fileReq'[q].pc \in {"upload", "save"} => owner'[fileReq'[q].file] = "page"
                 /\ fileReq'[q].pc \notin NoFile \cup {"upload", "save"} =>
                       owner'[fileReq'[q].file] = "avatar"
      <3>1. CASE q = r
        BY <1>1, <1>2, <1>4, <3>1, FileAssumption
      <3>2. CASE q # r
        <4>1. fileReq'[q] = fileReq[q]
          BY <1>2, <3>2 DEF Others
        <4> QED
          BY <1>4, <2>1, <2>2, <3>2, <4>1 DEF FileIInv, Owned, NoFile
      <3> QED
        BY <3>1, <3>2
    <2> QED
      BY <2>3, <2>4 DEF Owned, NoFile
  <1>9. OneMakes'
    <2> SUFFICES ASSUME NEW q \in Request, NEW g \in File, fileReq'[q].file = g,
                        fileReq'[q].pc \in {"upload", "save", "image", "read", "write"}
                 PROVE  /\ g \notin rows' /\ icon' # g /\ fileReq'[q].old # g /\ g \notin fileReq'[q].todo
                        /\ \A p \in Request \ {q} : ~Knows(p, g)'
      BY DEF OneMakes
    <2>1. CASE q = r
      BY <1>1, <1>2, <1>5, <1>6, <2>1, FileAssumption
    <2>2. CASE q # r
      <3>1. fileReq'[q] = fileReq[q] /\ g # f
        BY <1>2, <1>5, <2>2 DEF Others, Knows
      <3>2. /\ g \notin rows /\ icon # g /\ fileReq[q].old # g /\ g \notin fileReq[q].todo
            /\ \A p \in Request \ {q} : ~Knows(p, g)
        BY <3>1 DEF FileIInv, OneMakes
      <3> QED
        BY <1>1, <1>6, <2>2, <3>1, <3>2, FileAssumption
    <2> QED
      BY <2>1, <2>2
  <1>10. Stages'
    BY <1>1, <1>2 DEF FileIInv, Others, Stages
  <1>11. JobsOfDoomed'
    <2>1. \A q \in Request : fileReq[q].todo \subseteq File \ {f}
      BY <1>5 DEF Knows, FileIInv, FileTypes, FileReqs
    <2> QED
      BY <1>1, <1>2, <1>4, <2>1 DEF FileIInv, Others, JobsOfDoomed
  <1>12. Covered'
    BY <1>1, <1>2 DEF FileIInv, Others, Covered
  <1>13. A!InUseHasFile'
    BY <1>1, <1>2, <1>4, <1>5 DEF FileIInv, FileTypes, Others, A!InUseHasFile, A!Running
  <1> QED
    BY <1>3, <1>7, <1>8, <1>9, <1>10, <1>11, <1>12, <1>13 DEF FileIInv

LEMMA FileStored ==
  ASSUME FileIInv, NEW r \in Request, A!UploadToDrive(r) \/ A!ImageToDrive(r)
  PROVE  FileIInv'
  <1>1. /\ UNCHANGED <<owner, rows, icon, gone, doomed, queue>>
        /\ fileReq[r].pc \in {"upload", "image"} /\ fileReq[r].file \in File
    BY DEF A!UploadToDrive, A!ImageToDrive, FileIInv, FileTypes, FileReqs, Owned, NoFile
  <1>2. CASE A!BreaksOff(r)
    <2>1. Others(r) /\ fileReq'[r] = A!Idle
      BY <1>2, FileLeave DEF FileIInv, A!BreaksOff
    <2>2. /\ files \subseteq files' /\ files' \subseteq files \cup {fileReq[r].file}
          /\ lost' = lost \cup {fileReq[r].file}
      BY <1>2 DEF A!BreaksOff
    <2>3. FileTypes' /\ Owned' /\ OneMakes' /\ JobsOfDoomed'
      BY <1>1, <2>1, <2>2, IdleIs, FileAssumption
         DEF FileTypes, FileIInv, Others, Owned, NoFile, OneMakes, JobsOfDoomed, Knows
    <2>4. Unused' /\ Covered' /\ A!InUseHasFile'
      BY <1>1, <2>1, <2>2, IdleIs, FileAssumption
         DEF FileTypes, FileIInv, Others, Unused, Covered, A!InUseHasFile, A!Running, Knows
    <2>5. Stages'
      <3>1. \A q \in Request : fileReq[q].pc \in {"dropRow", "removeRow"} =>
               q # r /\ fileReq[q].file # fileReq[r].file
        BY <1>1 DEF FileIInv, OneMakes, Knows
      <3> QED
        BY <1>1, <2>1, <2>2, <3>1, IdleIs DEF FileIInv, Others, Stages
    <2> QED
      BY <2>3, <2>4, <2>5 DEF FileIInv
  <1>3. CASE /\ lost' = lost /\ files' = files \cup {fileReq[r].file}
             /\ \E pc \in {"save", "read"} : A!Goto(r, pc) /\ (pc = "save" <=> fileReq[r].pc = "upload")
    <2>1. PICK pc \in {"save", "read"} : A!Goto(r, pc) /\ (pc = "save" <=> fileReq[r].pc = "upload")
      BY <1>3
    <2>2. /\ Others(r) /\ fileReq'[r].pc = pc
         /\ fileReq'[r].file = fileReq[r].file /\ fileReq'[r].old = fileReq[r].old
         /\ fileReq'[r].kind = fileReq[r].kind /\ fileReq'[r].todo = fileReq[r].todo
      BY <2>1, FileGoto DEF FileIInv, Pcs
    <2>5. FileTypes' /\ JobsOfDoomed'
      BY <1>1, <1>3, <2>1, <2>2, FileAssumption
         DEF FileTypes, FileReqs, FileIInv, Others, Owned, NoFile, JobsOfDoomed, Knows
    <2>6. Unused' /\ Owned'
      BY <1>1, <1>3, <2>1, <2>2, FileAssumption
         DEF FileTypes, FileIInv, Others, Unused, Owned, NoFile, Knows
    <2>7. OneMakes'
      BY <1>1, <1>3, <2>1, <2>2, FileAssumption
         DEF FileTypes, FileIInv, Others, Owned, NoFile, OneMakes, Knows
    <2>8. Stages' /\ Covered'
      BY <1>1, <1>3, <2>1, <2>2, FileAssumption
         DEF FileTypes, FileIInv, Others, Owned, NoFile, OneMakes, Stages, Covered, Knows
    <2>9. A!InUseHasFile'
      BY <1>1, <1>3, <2>1, <2>2, FileAssumption
         DEF FileTypes, FileIInv, Others, Owned, NoFile, OneMakes, Stages, A!InUseHasFile, A!Running, Knows
    <2> QED
      BY <2>5, <2>6, <2>7, <2>8, <2>9 DEF FileIInv
  <1> QED
    BY <1>1, <1>2, <1>3 DEF A!UploadToDrive, A!ImageToDrive

LEMMA FileSaved ==
  ASSUME FileIInv, NEW r \in Request, A!SaveAttachment(r)
  PROVE  FileIInv'
  <1>1. /\ fileReq[r].pc = "save" /\ UNCHANGED <<owner, files, icon, gone, doomed, queue>>
        /\ \/ rows' = rows \cup {fileReq[r].file} /\ lost' = lost
           \/ rows' = rows /\ lost' = lost \cup {fileReq[r].file}
    BY DEF A!SaveAttachment
  <1>2. Others(r) /\ fileReq'[r] = A!Idle
    BY FileLeave DEF FileIInv, A!SaveAttachment
  <1>5. FileTypes' /\ JobsOfDoomed'
    BY <1>1, <1>2, IdleIs, FileAssumption
       DEF FileTypes, FileReqs, FileIInv, Others, Owned, NoFile, JobsOfDoomed, Knows
  <1>6. Unused' /\ Owned'
    BY <1>1, <1>2, IdleIs, FileAssumption
       DEF FileTypes, FileIInv, Others, Unused, Owned, NoFile, Knows
  <1>7. OneMakes'
    BY <1>1, <1>2, IdleIs, FileAssumption
       DEF FileTypes, FileIInv, Others, Owned, NoFile, OneMakes, Knows
  <1>8. Stages' /\ Covered'
    BY <1>1, <1>2, IdleIs, FileAssumption
       DEF FileTypes, FileIInv, Others, Owned, NoFile, OneMakes, Stages, Covered, Knows
  <1>9. A!InUseHasFile'
    BY <1>1, <1>2, IdleIs, FileAssumption
       DEF FileTypes, FileIInv, Others, Owned, NoFile, OneMakes, Stages, A!InUseHasFile, A!Running, Knows
  <1> QED
    BY <1>5, <1>6, <1>7, <1>8, <1>9 DEF FileIInv

LEMMA ImageReads ==
  ASSUME FileIInv, NEW r \in Request, A!ImageRead(r)
  PROVE  FileIInv'
  <1> DEFINE h == [fileReq[r] EXCEPT !.pc = "write", !.old = icon]
  <1>1. /\ fileReq[r].pc = "read" /\ fileReq' = [fileReq EXCEPT ![r] = h]
        /\ UNCHANGED <<owner, rows, files, icon, gone, doomed, queue, lost>>
    BY DEF A!ImageRead, A!stores, FileIInv, FileTypes
  <1>2. /\ h \in FileReqs /\ h.pc = "write" /\ h.old = icon /\ h.file = fileReq[r].file
        /\ h.kind = fileReq[r].kind /\ h.todo = fileReq[r].todo
    BY DEF FileIInv, FileTypes, FileReqs, Pcs
  <1> HIDE DEF h
  <1>3. Others(r) /\ fileReq'[r] = h
    BY <1>1, <1>2 DEF FileIInv, FileTypes, Others
  <1>5. FileTypes' /\ JobsOfDoomed'
    BY <1>1, <1>2, <1>3, FileAssumption
       DEF FileTypes, FileReqs, FileIInv, Others, Owned, NoFile, JobsOfDoomed, Knows
  <1>6. Unused' /\ Owned'
    BY <1>1, <1>2, <1>3, FileAssumption
       DEF FileTypes, FileIInv, Others, Unused, Owned, NoFile, Knows
  <1>7. OneMakes'
    BY <1>1, <1>2, <1>3, FileAssumption
       DEF FileTypes, FileIInv, Others, Owned, NoFile, OneMakes, Knows
  <1>8. Stages' /\ Covered'
    BY <1>1, <1>2, <1>3, FileAssumption
       DEF FileTypes, FileIInv, Others, Owned, NoFile, OneMakes, Stages, Covered, Knows
  <1>9. A!InUseHasFile'
    BY <1>1, <1>2, <1>3, FileAssumption
       DEF FileTypes, FileIInv, Others, Owned, NoFile, OneMakes, Stages, A!InUseHasFile, A!Running, Knows
  <1> QED
    BY <1>5, <1>6, <1>7, <1>8, <1>9 DEF FileIInv

LEMMA ImageWrites ==
  ASSUME FileIInv, NEW r \in Request, A!ImageWrite(r)
  PROVE  FileIInv'
  <1>1. /\ fileReq[r].pc = "write" /\ UNCHANGED <<owner, files, gone, doomed, queue, lost>>
        /\ rows' = rows \cup {fileReq[r].file} /\ icon' = fileReq[r].file
    BY DEF A!ImageWrite
  <1>2. CASE fileReq[r].old = Nil /\ A!Leave(r)
    <2>1. Others(r) /\ fileReq'[r] = A!Idle
      BY <1>2, FileLeave DEF FileIInv
    <2>2. fileReq[r].file \in File
      BY <1>1 DEF FileIInv, FileTypes, FileReqs, Owned, NoFile
    <2>3. FileTypes' /\ Stages' /\ JobsOfDoomed'
      BY <1>1, <2>1, <2>2, IdleIs
         DEF FileIInv, FileTypes, FileReqs, Others, OneMakes, Knows, Stages, JobsOfDoomed
    <2>4. Unused' /\ Owned'
      BY <1>1, <2>1, <2>2, IdleIs, FileAssumption
         DEF FileIInv, FileTypes, FileReqs, Others, Unused, Owned, NoFile, Knows
    <2>5. OneMakes'
      <3> SUFFICES ASSUME NEW q \in Request, NEW g \in File, fileReq'[q].file = g,
                          fileReq'[q].pc \in {"upload", "save", "image", "read", "write"}
                   PROVE  /\ g \notin rows' /\ icon' # g /\ fileReq'[q].old # g /\ g \notin fileReq'[q].todo
                          /\ \A p \in Request \ {q} : ~Knows(p, g)'
        BY DEF OneMakes
      <3>1. q # r /\ fileReq'[q] = fileReq[q]
        BY <2>1, IdleIs DEF Others
      <3>2. /\ g \notin rows /\ icon # g /\ fileReq[q].old # g /\ g \notin fileReq[q].todo
            /\ \A p \in Request \ {q} : ~Knows(p, g)
        BY <3>1 DEF FileIInv, OneMakes
      <3>3. ~Knows(r, g) /\ g # fileReq[r].file
        BY <3>1, <3>2 DEF Knows
      <3>4. \A p \in Request \ {q} : ~Knows(p, g)'
        BY <2>1, <3>2, IdleIs, FileAssumption DEF Others, Knows
      <3> QED
        BY <1>1, <3>1, <3>2, <3>3, <3>4
    <2>6. Covered'
      BY <1>1, <2>1, <2>2, IdleIs DEF FileIInv, FileTypes, Others, Covered
    <2>7. A!InUseHasFile'
      BY <1>1, <2>1, <2>2, IdleIs, FileAssumption
         DEF FileIInv, FileTypes, Others, A!InUseHasFile, Owned, NoFile, Stages
    <2> QED
      BY <2>3, <2>4, <2>5, <2>6, <2>7 DEF FileIInv
  <1>3. CASE /\ fileReq[r].old # Nil
             /\ fileReq' = [fileReq EXCEPT ![r].pc = "drop", ![r].file = fileReq[r].old]
    <2> DEFINE h == [fileReq[r] EXCEPT !.pc = "drop", !.file = fileReq[r].old]
    <2>1. fileReq' = [fileReq EXCEPT ![r] = h]
      BY <1>3 DEF FileIInv, FileTypes
    <2>2. /\ h \in FileReqs /\ h.pc = "drop" /\ h.old = fileReq[r].old /\ h.file = fileReq[r].old
          /\ h.kind = fileReq[r].kind /\ h.todo = fileReq[r].todo
      BY DEF FileIInv, FileTypes, FileReqs, Pcs
    <2> HIDE DEF h
    <2>3. Others(r) /\ fileReq'[r] = h
      BY <2>1, <2>2 DEF FileIInv, FileTypes, Others
    <2>4. fileReq[r].file \in File /\ fileReq[r].old \in File /\ fileReq[r].old # fileReq[r].file
      BY <1>1, <1>3 DEF FileIInv, FileTypes, FileReqs, Owned, NoFile, OneMakes
    <2>5. FileTypes' /\ Stages' /\ JobsOfDoomed'
      BY <1>1, <2>2, <2>3, <2>4
         DEF FileIInv, FileTypes, FileReqs, Others, OneMakes, Knows, Stages, JobsOfDoomed
    <2>6. Unused' /\ Owned'
      BY <1>1, <2>2, <2>3, <2>4, FileAssumption
         DEF FileIInv, FileTypes, FileReqs, Others, Unused, Owned, NoFile, Knows
    <2>7. OneMakes'
      BY <1>1, <2>2, <2>3, <2>4 DEF FileIInv, FileTypes, Others, OneMakes, Knows
    <2>8. Covered'
      BY <1>1, <2>2, <2>3, <2>4 DEF FileIInv, FileTypes, Others, Covered
    <2>9. A!InUseHasFile'
      BY <1>1, <2>2, <2>3, <2>4, FileAssumption
         DEF FileIInv, FileTypes, Others, A!InUseHasFile, Owned, NoFile, Stages
    <2> QED
      BY <2>5, <2>6, <2>7, <2>8, <2>9 DEF FileIInv
  <1> QED
    BY <1>2, <1>3 DEF A!ImageWrite

LEMMA ImageFails ==
  ASSUME FileIInv, NEW r \in Request, A!ImageFail(r)
  PROVE  FileIInv'
  <1>1. /\ fileReq[r].pc \in {"read", "write"}
        /\ UNCHANGED <<owner, rows, files, icon, gone, doomed, queue, lost>>
    BY DEF A!ImageFail, A!stores
  <1>2. /\ Others(r) /\ fileReq'[r].pc = "drop"
        /\ fileReq'[r].file = fileReq[r].file /\ fileReq'[r].old = fileReq[r].old
        /\ fileReq'[r].kind = fileReq[r].kind /\ fileReq'[r].todo = fileReq[r].todo
    BY FileGoto DEF FileIInv, A!ImageFail, Pcs
  <1>5. FileTypes' /\ JobsOfDoomed'
    BY <1>1, <1>2, FileAssumption
       DEF FileTypes, FileReqs, FileIInv, Others, Owned, NoFile, JobsOfDoomed, Knows
  <1>6. Unused' /\ Owned'
    BY <1>1, <1>2, FileAssumption
       DEF FileTypes, FileIInv, Others, Unused, Owned, NoFile, Knows
  <1>7. OneMakes'
    BY <1>1, <1>2, FileAssumption
       DEF FileTypes, FileIInv, Others, Owned, NoFile, OneMakes, Knows
  <1>8. Stages' /\ Covered'
    BY <1>1, <1>2, FileAssumption
       DEF FileTypes, FileIInv, Others, Owned, NoFile, OneMakes, Stages, Covered, Knows
  <1>9. A!InUseHasFile'
    BY <1>1, <1>2, FileAssumption
       DEF FileTypes, FileIInv, Others, Owned, NoFile, OneMakes, Stages, A!InUseHasFile, A!Running, Knows
  <1> QED
    BY <1>5, <1>6, <1>7, <1>8, <1>9 DEF FileIInv

LEMMA FileDrop ==
  ASSUME FileIInv, NEW r \in Request, A!DropFile(r)
  PROVE  FileIInv'
  <1>1. fileReq[r].pc = "drop" /\ UNCHANGED <<owner, rows, icon, gone, doomed, queue>>
    BY DEF A!DropFile
  <1>2. CASE files' = files \ {fileReq[r].file} /\ A!Goto(r, "dropRow") /\ lost' = lost
    <2>1. /\ Others(r) /\ fileReq'[r].pc = "dropRow"
          /\ fileReq'[r].file = fileReq[r].file /\ fileReq'[r].old = fileReq[r].old
          /\ fileReq'[r].kind = fileReq[r].kind /\ fileReq'[r].todo = fileReq[r].todo
      BY <1>2, FileGoto DEF FileIInv, Pcs
    <2>5. FileTypes' /\ JobsOfDoomed'
      BY <1>1, <1>2, <2>1, FileAssumption, BoundsAssumption
         DEF FileTypes, FileReqs, FileIInv, Others, Owned, NoFile, JobsOfDoomed, Knows
    <2>6. Unused' /\ Owned'
      BY <1>1, <1>2, <2>1, FileAssumption, BoundsAssumption
         DEF FileTypes, FileIInv, Others, Unused, Owned, NoFile, Knows
    <2>7. OneMakes'
      BY <1>1, <1>2, <2>1, FileAssumption, BoundsAssumption
         DEF FileTypes, FileIInv, Others, Owned, NoFile, OneMakes, Knows
    <2>8. Stages' /\ Covered'
      BY <1>1, <1>2, <2>1, FileAssumption, BoundsAssumption
         DEF FileTypes, FileIInv, Others, Owned, NoFile, OneMakes, Stages, Covered, Knows
    <2>9. A!InUseHasFile'
      BY <1>1, <1>2, <2>1, FileAssumption, BoundsAssumption
         DEF FileTypes, FileIInv, Others, Owned, NoFile, OneMakes, Stages, A!InUseHasFile, A!Running, Knows
    <2> QED
      BY <2>5, <2>6, <2>7, <2>8, <2>9 DEF FileIInv
  <1>3. CASE files' = files /\ A!Leave(r) /\ lost' = lost \cup {fileReq[r].file}
    <2>1. Others(r) /\ fileReq'[r] = A!Idle
      BY <1>3, FileLeave DEF FileIInv
    <2>5. FileTypes' /\ JobsOfDoomed'
      BY <1>1, <1>3, <2>1, IdleIs, FileAssumption
         DEF FileTypes, FileReqs, FileIInv, Others, Owned, NoFile, JobsOfDoomed, Knows
    <2>6. Unused' /\ Owned'
      BY <1>1, <1>3, <2>1, IdleIs, FileAssumption
         DEF FileTypes, FileIInv, Others, Unused, Owned, NoFile, Knows
    <2>7. OneMakes'
      BY <1>1, <1>3, <2>1, IdleIs, FileAssumption
         DEF FileTypes, FileIInv, Others, Owned, NoFile, OneMakes, Knows
    <2>8. Stages' /\ Covered'
      BY <1>1, <1>3, <2>1, IdleIs, FileAssumption
         DEF FileTypes, FileIInv, Others, Owned, NoFile, OneMakes, Stages, Covered, Knows
    <2>9. A!InUseHasFile'
      BY <1>1, <1>3, <2>1, IdleIs, FileAssumption
         DEF FileTypes, FileIInv, Others, Owned, NoFile, OneMakes, Stages, A!InUseHasFile, A!Running, Knows
    <2> QED
      BY <2>5, <2>6, <2>7, <2>8, <2>9 DEF FileIInv
  <1> QED
    BY <1>2, <1>3 DEF A!DropFile

LEMMA FileDropRow ==
  ASSUME FileIInv, NEW r \in Request, A!DropRow(r)
  PROVE  FileIInv'
  <1>1. /\ fileReq[r].pc = "dropRow" /\ UNCHANGED <<owner, files, icon, gone, doomed, queue, lost>>
        /\ rows' \in {rows, rows \ {fileReq[r].file}}
    BY DEF A!DropRow
  <1>2. Others(r) /\ fileReq'[r] = A!Idle
    BY FileLeave DEF FileIInv, A!DropRow
  <1>3. /\ \A f \in File : f \in rows => f \in rows' \/ f \notin files
        /\ \A f \in File : f \in rows' => f \in rows
    BY <1>1 DEF FileIInv, Stages
  <1>4. FileTypes' /\ Unused' /\ Owned' /\ OneMakes'
    BY <1>1, <1>2, IdleIs, FileAssumption, SMTT(30)
       DEF FileTypes, FileReqs, FileIInv, Others, Unused, Owned, NoFile, OneMakes, Knows
  <1>5. Stages' /\ JobsOfDoomed'
    BY <1>1, <1>2, IdleIs, FileAssumption DEF FileIInv, FileTypes, Others, Stages, JobsOfDoomed
  <1>6. Covered' /\ A!InUseHasFile'
    BY <1>1, <1>2, <1>3, IdleIs, FileAssumption
       DEF FileIInv, FileTypes, Others, Stages, Covered, A!InUseHasFile, A!Running
  <1> QED
    BY <1>4, <1>5, <1>6 DEF FileIInv

LEMMA IconRemoveStart ==
  ASSUME FileIInv, NEW r \in Request, A!RemoveStart(r)
  PROVE  FileIInv'
  <1>1. /\ icon # Nil /\ UNCHANGED <<owner, rows, files, icon, gone, doomed, queue, lost>>
        /\ A!Begin(r, [A!Idle EXCEPT !.pc = "remove", !.file = icon])
    BY DEF A!RemoveStart, A!stores
  <1>2. /\ Others(r) /\ fileReq[r].pc = "idle" /\ fileReq'[r].pc = "remove"
        /\ fileReq'[r].file = icon /\ fileReq'[r].old = Nil /\ fileReq'[r].todo = {}
    BY <1>1, FileBegin DEF FileIInv, FileTypes, Pcs
  <1>5. FileTypes' /\ JobsOfDoomed'
    BY <1>1, <1>2, FileAssumption, BoundsAssumption
       DEF FileTypes, FileReqs, FileIInv, Others, Owned, NoFile, JobsOfDoomed, Knows
  <1>6. Unused' /\ Owned'
    BY <1>1, <1>2, FileAssumption, BoundsAssumption
       DEF FileTypes, FileIInv, Others, Unused, Owned, NoFile, Knows
  <1>7. OneMakes'
    BY <1>1, <1>2, FileAssumption, BoundsAssumption
       DEF FileTypes, FileIInv, Others, Owned, NoFile, OneMakes, Knows
  <1>8. Stages' /\ Covered'
    BY <1>1, <1>2, FileAssumption, BoundsAssumption
       DEF FileTypes, FileIInv, Others, Owned, NoFile, OneMakes, Stages, Covered, Knows
  <1>9. A!InUseHasFile'
    BY <1>1, <1>2, FileAssumption, BoundsAssumption
       DEF FileTypes, FileIInv, Others, Owned, NoFile, OneMakes, Stages, A!InUseHasFile, A!Running, Knows
  <1> QED
    BY <1>5, <1>6, <1>7, <1>8, <1>9 DEF FileIInv

LEMMA IconRemoveFile ==
  ASSUME FileIInv, NEW r \in Request, A!RemoveFile(r)
  PROVE  FileIInv'
  <1>1. fileReq[r].pc = "remove" /\ UNCHANGED <<owner, rows, icon, gone, doomed, queue, lost>>
    BY DEF A!RemoveFile
  <1>2. CASE files' = files \ {fileReq[r].file} /\ A!Goto(r, "removeRow")
    <2>1. /\ Others(r) /\ fileReq'[r].pc = "removeRow"
          /\ fileReq'[r].file = fileReq[r].file /\ fileReq'[r].old = fileReq[r].old
          /\ fileReq'[r].kind = fileReq[r].kind /\ fileReq'[r].todo = fileReq[r].todo
      BY <1>2, FileGoto DEF FileIInv, Pcs
    <2>5. FileTypes' /\ JobsOfDoomed'
      BY <1>1, <1>2, <2>1, FileAssumption
         DEF FileTypes, FileReqs, FileIInv, Others, Owned, NoFile, JobsOfDoomed, Knows
    <2>6. Unused' /\ Owned'
      BY <1>1, <1>2, <2>1, FileAssumption
         DEF FileTypes, FileIInv, Others, Unused, Owned, NoFile, Knows
    <2>7. OneMakes'
      BY <1>1, <1>2, <2>1, FileAssumption
         DEF FileTypes, FileIInv, Others, Owned, NoFile, OneMakes, Knows
    <2>8. Stages' /\ Covered'
      BY <1>1, <1>2, <2>1, FileAssumption
         DEF FileTypes, FileIInv, Others, Owned, NoFile, OneMakes, Stages, Covered, Knows
    <2>9. A!InUseHasFile'
      BY <1>1, <1>2, <2>1, FileAssumption
         DEF FileTypes, FileIInv, Others, Owned, NoFile, OneMakes, Stages, A!InUseHasFile, A!Running, Knows
    <2> QED
      BY <2>5, <2>6, <2>7, <2>8, <2>9 DEF FileIInv
  <1>3. CASE files' = files /\ A!Goto(r, "clear")
    <2>1. /\ Others(r) /\ fileReq'[r].pc = "clear"
          /\ fileReq'[r].file = fileReq[r].file /\ fileReq'[r].old = fileReq[r].old
          /\ fileReq'[r].kind = fileReq[r].kind /\ fileReq'[r].todo = fileReq[r].todo
      BY <1>3, FileGoto DEF FileIInv, Pcs
    <2>5. FileTypes' /\ JobsOfDoomed'
      BY <1>1, <1>3, <2>1, FileAssumption
         DEF FileTypes, FileReqs, FileIInv, Others, Owned, NoFile, JobsOfDoomed, Knows
    <2>6. Unused' /\ Owned'
      BY <1>1, <1>3, <2>1, FileAssumption
         DEF FileTypes, FileIInv, Others, Unused, Owned, NoFile, Knows
    <2>7. OneMakes'
      BY <1>1, <1>3, <2>1, FileAssumption
         DEF FileTypes, FileIInv, Others, Owned, NoFile, OneMakes, Knows
    <2>8. Stages' /\ Covered'
      BY <1>1, <1>3, <2>1, FileAssumption
         DEF FileTypes, FileIInv, Others, Owned, NoFile, OneMakes, Stages, Covered, Knows
    <2>9. A!InUseHasFile'
      BY <1>1, <1>3, <2>1, FileAssumption
         DEF FileTypes, FileIInv, Others, Owned, NoFile, OneMakes, Stages, A!InUseHasFile, A!Running, Knows
    <2> QED
      BY <2>5, <2>6, <2>7, <2>8, <2>9 DEF FileIInv
  <1> QED
    BY <1>2, <1>3 DEF A!RemoveFile

LEMMA IconRemoveRow ==
  ASSUME FileIInv, NEW r \in Request, A!RemoveRow(r)
  PROVE  FileIInv'
  <1>1. /\ fileReq[r].pc = "removeRow" /\ UNCHANGED <<owner, files, icon, gone, doomed, queue, lost>>
        /\ rows' \in {rows, rows \ {fileReq[r].file}}
    BY DEF A!RemoveRow
  <1>2. /\ Others(r) /\ fileReq'[r].pc = "clear"
        /\ fileReq'[r].file = fileReq[r].file /\ fileReq'[r].old = fileReq[r].old
        /\ fileReq'[r].kind = fileReq[r].kind /\ fileReq'[r].todo = fileReq[r].todo
    BY FileGoto DEF FileIInv, A!RemoveRow, Pcs
  <1>5. FileTypes' /\ JobsOfDoomed'
    BY <1>1, <1>2, FileAssumption
       DEF FileTypes, FileReqs, FileIInv, Others, Owned, NoFile, JobsOfDoomed, Knows
  <1>6. Unused' /\ Owned'
    BY <1>1, <1>2, FileAssumption
       DEF FileTypes, FileIInv, Others, Unused, Owned, NoFile, Knows
  <1>7. OneMakes'
    BY <1>1, <1>2, FileAssumption
       DEF FileTypes, FileIInv, Others, Owned, NoFile, OneMakes, Knows
  <1>8. Stages' /\ Covered'
    BY <1>1, <1>2, FileAssumption
       DEF FileTypes, FileIInv, Others, Owned, NoFile, OneMakes, Stages, Covered, Knows
  <1>9. A!InUseHasFile'
    BY <1>1, <1>2, FileAssumption
       DEF FileTypes, FileIInv, Others, Owned, NoFile, OneMakes, Stages, A!InUseHasFile, A!Running, Knows
  <1> QED
    BY <1>5, <1>6, <1>7, <1>8, <1>9 DEF FileIInv

LEMMA IconClear ==
  ASSUME FileIInv, NEW r \in Request, A!ClearIcon(r)
  PROVE  FileIInv'
  <1>1. /\ fileReq[r].pc = "clear" /\ UNCHANGED <<owner, rows, files, gone, doomed, queue>>
        /\ \/ icon' = Nil /\ lost' = lost
           \/ icon' = icon /\ lost' = lost \cup {fileReq[r].file}
    BY DEF A!ClearIcon
  <1>2. Others(r) /\ fileReq'[r] = A!Idle
    BY FileLeave DEF FileIInv, A!ClearIcon
  <1>5. FileTypes' /\ JobsOfDoomed'
    BY <1>1, <1>2, IdleIs, FileAssumption
       DEF FileTypes, FileReqs, FileIInv, Others, Owned, NoFile, JobsOfDoomed, Knows
  <1>6. Unused' /\ Owned'
    BY <1>1, <1>2, IdleIs, FileAssumption
       DEF FileTypes, FileIInv, Others, Unused, Owned, NoFile, Knows
  <1>7. OneMakes'
    BY <1>1, <1>2, IdleIs, FileAssumption
       DEF FileTypes, FileIInv, Others, Owned, NoFile, OneMakes, Knows
  <1>8. Stages' /\ Covered'
    BY <1>1, <1>2, IdleIs, FileAssumption
       DEF FileTypes, FileIInv, Others, Owned, NoFile, OneMakes, Stages, Covered, Knows
  <1>9. A!InUseHasFile'
    BY <1>1, <1>2, IdleIs, FileAssumption
       DEF FileTypes, FileIInv, Others, Owned, NoFile, OneMakes, Stages, A!InUseHasFile, A!Running, Knows
  <1> QED
    BY <1>5, <1>6, <1>7, <1>8, <1>9 DEF FileIInv

\* A deletion begins, with the job or with the rows.
LEMMA DeletionStarts ==
  ASSUME FileIInv, NEW r \in Request, NEW pc \in {"force", "queue"}, NEW kind \in Kinds,
         A!Begin(r, [A!Idle EXCEPT !.pc = pc, !.kind = kind]),
         doomed' = doomed \cup (IF kind = "space" THEN {"space", "page"} ELSE {kind}),
         gone' \subseteq doomed', icon' = icon \/ icon' = Nil, UNCHANGED <<owner, rows, files, lost>>,
         queue' = queue \/ queue' = queue \cup {[kind |-> kind, left |-> Runs]}
  PROVE  FileIInv'
  <1> DEFINE j == [kind |-> kind, left |-> Runs]
             h == [A!Idle EXCEPT !.pc = pc, !.kind = kind]
  <1>1. j \in A!Jobs /\ j.kind = kind /\ (queue' = queue \/ queue' = queue \cup {j})
    BY BoundsAssumption DEF A!Jobs, Kinds
  <1>2. /\ h \in FileReqs /\ h.pc = pc /\ h.kind = kind /\ h.file = Nil /\ h.old = Nil
        /\ h.todo = {}
    BY IdleIs DEF FileReqs, Pcs
  <1>3. fileReq[r].pc = "idle" /\ fileReq' = [fileReq EXCEPT ![r] = h]
    BY DEF A!Begin
  <1> HIDE DEF j, h
  <1>4. Others(r) /\ fileReq'[r] = h
    BY <1>2, <1>3 DEF FileIInv, FileTypes, Others
  <1>5. doomed \subseteq doomed' /\ kind \in doomed' /\ doomed' \subseteq Kinds
        /\ ("space" \in doomed' => "page" \in doomed')
    BY DEF FileIInv, FileTypes, JobsOfDoomed, Kinds
  <1>6. FileTypes'
    BY <1>1, <1>4, <1>5 DEF FileIInv, FileTypes, Others
  <1>7. JobsOfDoomed'
    BY <1>1, <1>2, <1>4, <1>5 DEF FileIInv, JobsOfDoomed, Others
  <1>8. Unused' /\ OneMakes'
    BY <1>2, <1>4, FileAssumption DEF FileIInv, Unused, OneMakes, Others, Knows
  <1>9. Owned' /\ Stages' /\ Covered'
    BY <1>2, <1>3, <1>4 DEF FileIInv, Owned, NoFile, Stages, Covered, Others
  <1>10. A!InUseHasFile'
    BY <1>3, <1>4, <1>5 DEF FileIInv, FileTypes, A!InUseHasFile, A!Running, Others
  <1> QED
    BY <1>6, <1>7, <1>8, <1>9, <1>10 DEF FileIInv

LEMMA ForceDeletes ==
  ASSUME FileIInv, NEW r \in Request, A!ForceDeleteStart(r)
  PROVE  FileIInv'
  <1>1. gone' \subseteq doomed' /\ "page" # "space" /\ "page" \in Kinds
    BY DEF A!ForceDeleteStart, FileIInv, FileTypes, Kinds
  <1> QED
    BY <1>1, DeletionStarts DEF A!ForceDeleteStart

LEMMA FirstDeletes ==
  ASSUME FileIInv, NEW r \in Request, NEW kind \in {"space", "user"}, A!DeleteFirst(r, kind)
  PROVE  FileIInv'
  <1>1. gone' \subseteq doomed' /\ kind \in Kinds /\ (icon' = icon \/ icon' = Nil)
    BY DEF A!DeleteFirst, FileIInv, FileTypes, Kinds
  <1> QED
    BY <1>1, DeletionStarts DEF A!DeleteFirst

\* It ends, with the rows or with the job.
LEMMA DeletionEnds ==
  ASSUME FileIInv, NEW r \in Request, A!ForceDeleteRows(r) \/ A!QueueJob(r)
  PROVE  FileIInv'
  <1> DEFINE j == [kind |-> fileReq[r].kind, left |-> Runs]
  <1>1. /\ fileReq[r].pc \in {"force", "queue"} /\ UNCHANGED <<owner, rows, files, icon, doomed, lost>>
        /\ gone' \subseteq doomed'
        /\ queue' = queue \/ (fileReq[r].pc = "queue" /\ queue' = queue \cup {j})
    BY DEF A!ForceDeleteRows, A!QueueJob, A!stores, FileIInv, FileTypes, JobsOfDoomed
  <1>2. Others(r) /\ fileReq'[r] = A!Idle
    BY FileLeave DEF FileIInv, A!ForceDeleteRows, A!QueueJob
  <1>3. fileReq[r].kind \in doomed /\ fileReq[r].kind \in Kinds
    BY <1>1 DEF FileIInv, FileTypes, JobsOfDoomed
  <1>4. j \in A!Jobs /\ j.kind \in doomed
    BY <1>3, BoundsAssumption DEF A!Jobs, Kinds
  <1> HIDE DEF j
  <1>5. FileTypes' /\ JobsOfDoomed'
    BY <1>1, <1>2, <1>4, IdleIs, FileAssumption
       DEF FileTypes, FileReqs, FileIInv, Others, Owned, NoFile, JobsOfDoomed, Knows
  <1>6. Unused' /\ Owned'
    BY <1>1, <1>2, <1>4, IdleIs, FileAssumption
       DEF FileTypes, FileIInv, Others, Unused, Owned, NoFile, Knows
  <1>7. OneMakes'
    BY <1>1, <1>2, <1>4, IdleIs, FileAssumption
       DEF FileTypes, FileIInv, Others, Owned, NoFile, OneMakes, Knows
  <1>8. Stages' /\ Covered'
    BY <1>1, <1>2, <1>4, IdleIs, FileAssumption
       DEF FileTypes, FileIInv, Others, Owned, NoFile, OneMakes, Stages, Covered, Knows
  <1>9. A!InUseHasFile'
    BY <1>1, <1>2, <1>4, IdleIs, FileAssumption
       DEF FileTypes, FileIInv, Others, Owned, NoFile, OneMakes, Stages, A!InUseHasFile, A!Running, Knows
  <1> QED
    BY <1>5, <1>6, <1>7, <1>8, <1>9 DEF FileIInv

LEMMA JobStarts ==
  ASSUME FileIInv, NEW r \in Request, NEW j \in A!Jobs, A!JobStart(r, j)
  PROVE  FileIInv'
  <1> DEFINE todo == {f \in rows : owner[f] = A!Of(j.kind)}
             h    == [A!Idle EXCEPT !.pc = "job", !.kind = j.kind, !.left = j.left, !.todo = todo]
  <1>1. /\ j \in queue /\ queue' = queue \ {j} /\ fileReq[r].pc = "idle"
        /\ fileReq' = [fileReq EXCEPT ![r] = h]
        /\ UNCHANGED <<owner, rows, files, icon, gone, doomed, lost>>
    BY DEF A!JobStart, A!Begin, A!stores
  <1>2. j.kind \in Kinds /\ j.left \in 1..Runs /\ j.kind \in doomed
    BY <1>1 DEF A!Jobs, FileIInv, JobsOfDoomed, Kinds
  <1>3. todo \subseteq rows /\ \A f \in todo : owner[f] = A!Of(j.kind)
    OBVIOUS
  <1> HIDE DEF todo
  <1>4. rows \subseteq File
    BY DEF FileIInv, FileTypes
  <1>5. /\ h \in FileReqs /\ h.pc = "job" /\ h.kind = j.kind /\ h.left = j.left /\ h.todo = todo
        /\ h.file = Nil /\ h.old = Nil
    <2> DEFINE g == [A!Idle EXCEPT !.pc = "job", !.kind = j.kind]
    <2>1. /\ g \in FileReqs /\ g.pc = "job" /\ g.kind = j.kind /\ g.file = Nil /\ g.old = Nil
      BY <1>2, IdleIs DEF FileReqs, Pcs
    <2>2. h = [g EXCEPT !.left = j.left, !.todo = todo]
      OBVIOUS
    <2> HIDE DEF g, h
    <2>3. todo \in SUBSET File /\ j.left \in 0..Runs
      BY <1>2, <1>3, <1>4
    <2> QED
      BY <2>1, <2>2, <2>3 DEF FileReqs
  <1> HIDE DEF h
  <1>6. Others(r) /\ fileReq'[r] = h
    BY <1>1, <1>5 DEF FileIInv, FileTypes, Others
  <1>7. FileTypes' /\ Owned' /\ Stages' /\ Covered'
    BY <1>1, <1>5, <1>6 DEF FileIInv, FileTypes, Others, Owned, NoFile, Stages, Covered
  <1>8. Unused'
    BY <1>1, <1>3, <1>5, <1>6, FileAssumption DEF FileIInv, Others, Unused, Knows
  <1>9. OneMakes'
    BY <1>1, <1>3, <1>5, <1>6, FileAssumption DEF FileIInv, Others, OneMakes, Knows
  <1>10. JobsOfDoomed'
    BY <1>1, <1>2, <1>3, <1>5, <1>6 DEF FileIInv, Others, JobsOfDoomed
  <1>11. A!InUseHasFile'
    BY <1>1, <1>5, <1>6 DEF FileIInv, FileTypes, Others, A!InUseHasFile, A!Running
  <1> QED
    BY <1>7, <1>8, <1>9, <1>10, <1>11 DEF FileIInv

LEMMA JobDeletesFile ==
  ASSUME FileIInv, NEW r \in Request, NEW f \in File, A!JobFile(r, f)
  PROVE  FileIInv'
  <1>1. /\ fileReq[r].pc = "job" /\ f \in fileReq[r].todo /\ files' = files \ {f}
        /\ UNCHANGED <<owner, rows, icon, gone, doomed, queue, fileReq, lost>>
    BY DEF A!JobFile
  <1>2. fileReq[r].kind \in doomed /\ owner[f] = A!Of(fileReq[r].kind) /\ fileReq[r].kind \in Kinds
    BY <1>1 DEF FileIInv, JobsOfDoomed, FileTypes
  <1>3. \A q \in Request : fileReq[q].pc \in {"upload", "save", "image", "read", "write"} =>
          fileReq[q].file # f
    BY <1>1 DEF FileIInv, OneMakes, Knows
  <1>4. FileTypes' /\ Unused' /\ Owned' /\ OneMakes' /\ JobsOfDoomed' /\ Covered'
    BY <1>1 DEF FileIInv, FileTypes, Unused, Owned, NoFile, OneMakes, JobsOfDoomed, Covered, Knows
  <1>5. Stages'
    BY <1>1, <1>3 DEF FileIInv, Stages
  <1>6. A!InUseHasFile'
    <2>1. owner[f] = "page" => "page" \in doomed
      BY <1>2 DEF FileIInv, JobsOfDoomed, A!Of, Kinds
    <2>2. owner[f] = "avatar" => "user" \in doomed
      BY <1>2 DEF A!Of, Kinds
    <2> QED
      BY <1>1, <2>1, <2>2 DEF FileIInv, A!InUseHasFile, A!Running, Owned, NoFile
  <1> QED
    BY <1>4, <1>5, <1>6 DEF FileIInv

\* A job goes on to its next file.
LEMMA JobGoesOn ==
  ASSUME FileIInv, NEW r \in Request, NEW f \in File, A!JobRow(r, f) \/ A!JobItemFails(r, f)
  PROVE  FileIInv'
  <1> DEFINE yes == TRUE
             h == IF A!JobRow(r, f) THEN [fileReq[r] EXCEPT !.todo = @ \ {f}, !.done = yes]
                                    ELSE [fileReq[r] EXCEPT !.todo = @ \ {f}, !.failed = yes]
  <1>1. /\ fileReq[r].pc = "job" /\ fileReq' = [fileReq EXCEPT ![r] = h]
        /\ rows' = rows \/ (f \notin files /\ rows' = rows \ {f})
        /\ UNCHANGED <<owner, files, icon, gone, doomed, queue, lost>>
    BY DEF A!JobRow, A!JobItemFails, A!stores, FileIInv, FileTypes
  <1>2. yes \in BOOLEAN
    OBVIOUS
  <1> HIDE DEF yes
  <1>3. /\ h \in FileReqs /\ h.pc = "job" /\ h.kind = fileReq[r].kind /\ h.left = fileReq[r].left
        /\ h.todo = fileReq[r].todo \ {f} /\ h.file = fileReq[r].file /\ h.old = fileReq[r].old
    BY <1>1, <1>2 DEF FileIInv, FileTypes, FileReqs
  <1> HIDE DEF h
  <1>4. Others(r) /\ fileReq'[r] = h
    BY <1>1, <1>3 DEF FileIInv, FileTypes, Others
  <1>5. FileTypes' /\ JobsOfDoomed'
    BY <1>1, <1>3, <1>4, FileAssumption
       DEF FileTypes, FileReqs, FileIInv, Others, Owned, NoFile, JobsOfDoomed, Knows
  <1>6. Unused' /\ Owned'
    BY <1>1, <1>3, <1>4, FileAssumption
       DEF FileTypes, FileIInv, Others, Unused, Owned, NoFile, Knows
  <1>7. OneMakes'
    BY <1>1, <1>3, <1>4, FileAssumption
       DEF FileTypes, FileIInv, Others, Owned, NoFile, OneMakes, Knows
  <1>8. Stages' /\ Covered'
    BY <1>1, <1>3, <1>4, FileAssumption
       DEF FileTypes, FileIInv, Others, Owned, NoFile, OneMakes, Stages, Covered, Knows
  <1>9. A!InUseHasFile'
    BY <1>1, <1>3, <1>4, FileAssumption
       DEF FileTypes, FileIInv, Others, Owned, NoFile, OneMakes, Stages, A!InUseHasFile, A!Running, Knows
  <1> QED
    BY <1>5, <1>6, <1>7, <1>8, <1>9 DEF FileIInv

LEMMA JobEnds ==
  ASSUME FileIInv, NEW r \in Request, A!JobEnd(r)
  PROVE  FileIInv'
  <1> DEFINE j == [kind |-> "space", left |-> fileReq[r].left - 1]
  <1>1. /\ fileReq[r].pc = "job" /\ UNCHANGED <<owner, rows, files, icon, gone, doomed, lost>>
        /\ queue' = queue \/ (fileReq[r].kind = "space" /\ fileReq[r].left > 1 /\ queue' = queue \cup {j})
    BY DEF A!JobEnd, A!stores
  <1>2. fileReq[r].left \in 1..Runs /\ fileReq[r].kind \in doomed
    BY <1>1 DEF FileIInv, JobsOfDoomed
  <1>3. j.kind = "space" /\ (fileReq[r].left > 1 => j \in A!Jobs)
    BY <1>2, BoundsAssumption DEF A!Jobs
  <1> HIDE DEF j
  <1>4. Others(r) /\ fileReq'[r] = A!Idle
    BY FileLeave DEF FileIInv, A!JobEnd
  <1>5. FileTypes' /\ JobsOfDoomed'
    BY <1>1, <1>2, <1>3, <1>4, IdleIs, FileAssumption
       DEF FileTypes, FileReqs, FileIInv, Others, Owned, NoFile, JobsOfDoomed, Knows
  <1>6. Unused' /\ Owned'
    BY <1>1, <1>2, <1>3, <1>4, IdleIs, FileAssumption
       DEF FileTypes, FileIInv, Others, Unused, Owned, NoFile, Knows
  <1>7. OneMakes'
    BY <1>1, <1>2, <1>3, <1>4, IdleIs, FileAssumption
       DEF FileTypes, FileIInv, Others, Owned, NoFile, OneMakes, Knows
  <1>8. Stages' /\ Covered'
    BY <1>1, <1>2, <1>3, <1>4, IdleIs, FileAssumption
       DEF FileTypes, FileIInv, Others, Owned, NoFile, OneMakes, Stages, Covered, Knows
  <1>9. A!InUseHasFile'
    BY <1>1, <1>2, <1>3, <1>4, IdleIs, FileAssumption
       DEF FileTypes, FileIInv, Others, Owned, NoFile, OneMakes, Stages, A!InUseHasFile, A!Running, Knows
  <1> QED
    BY <1>5, <1>6, <1>7, <1>8, <1>9 DEF FileIInv

LEMMA FileCrash ==
  ASSUME FileIInv, NEW r \in Request, A!Crash(r)
  PROVE  FileIInv'
  <1> DEFINE j == [kind |-> fileReq[r].kind, left |-> fileReq[r].left]
  <1>1. /\ fileReq[r].pc # "idle" /\ UNCHANGED <<owner, rows, files, icon, gone, doomed>>
        /\ IF fileReq[r].pc = "job" THEN queue' = queue \cup {j} /\ lost' = lost
                                    ELSE queue' = queue /\ lost' = lost \cup ({fileReq[r].file} \ {Nil})
    BY DEF A!Crash, A!stores
  <1>2. fileReq[r].pc = "job" => j \in A!Jobs /\ j.kind \in doomed
    BY DEF FileIInv, FileTypes, JobsOfDoomed, A!Jobs, Kinds
  <1> HIDE DEF j
  <1>3. Others(r) /\ fileReq'[r] = A!Idle
    BY FileLeave DEF FileIInv, A!Crash
  <1>4. /\ fileReq[r].file \in File \cup {Nil}
        /\ fileReq[r].pc \notin NoFile => fileReq[r].file \in File
    BY <1>1 DEF FileIInv, FileTypes, FileReqs, Owned, NoFile
  <1>5. FileTypes' /\ Stages' /\ JobsOfDoomed'
    BY <1>1, <1>2, <1>3, <1>4, IdleIs
       DEF FileIInv, FileTypes, Others, Stages, JobsOfDoomed
  <1>6. Unused' /\ Owned' /\ OneMakes'
    BY <1>1, <1>3, IdleIs, FileAssumption DEF FileIInv, Others, Unused, Owned, NoFile, OneMakes, Knows
  <1>7. Covered'
    <2>1. fileReq[r].pc \in {"save", "read", "write", "drop"} => fileReq[r].file \in lost'
      BY <1>1, <1>4, FileAssumption DEF NoFile
    <2>2. lost \subseteq lost'
      BY <1>1
    <2> QED
      BY <1>1, <1>3, <2>1, <2>2, IdleIs DEF FileIInv, Others, Covered
  <1>8. A!InUseHasFile'
    BY <1>1, <1>3, <1>4, IdleIs, FileAssumption DEF FileIInv, Others, A!InUseHasFile, A!Running
  <1> QED
    BY <1>5, <1>6, <1>7, <1>8 DEF FileIInv

LEMMA FileStep == FileIInv /\ A!Next => FileIInv'
  BY FileUpload, FileStored, FileSaved, ImageReads, ImageWrites, ImageFails, FileDrop, FileDropRow,
     IconRemoveStart, IconRemoveFile, IconRemoveRow, IconClear, ForceDeletes, FirstDeletes,
     DeletionEnds, JobStarts, JobDeletesFile, JobGoesOn, JobEnds, FileCrash
     DEF A!Next, Kinds

LEMMA FileInvariance == Spec => [](part = "attachments" => FileIInv)
  <1>1. Init => (part = "attachments" => FileIInv)
    BY FileInit DEF Init
  <1>2. (part = "attachments" => FileIInv) /\ [Next]_all => (part = "attachments" => FileIInv)'
    <2>1. CASE UNCHANGED all
      BY <2>1 DEF all, attachments, FileIInv, FileTypes, Unused, Owned, NoFile, OneMakes, Stages,
                  JobsOfDoomed, Covered, Knows, A!InUseHasFile, A!Running
    <2>2. CASE part = "attachments" /\ A!Next /\ part' = part
      BY <2>2, FileStep
    <2> QED
      BY <2>1, <2>2 DEF Next
  <1> QED
    BY <1>1, <1>2, PTL DEF Spec

\* What is in use is in the storage, whatever uploads, removals and jobs
\* overlap, fail and break off.
THEOREM UsedAreStored == Spec => []InUseHasFile
  <1>1. (part = "attachments" => FileIInv) => InUseHasFile
    BY DEF InUseHasFile, FileIInv
  <1> QED
    BY <1>1, FileInvariance, PTL

\* No object is stored unseen: it has a row, a request works on it, or the work
\* on it broke off.
THEOREM StoredAreKnown == Spec => []EveryFileHasRow
  <1>1. (part = "attachments" => FileIInv) => EveryFileHasRow
    BY DEF EveryFileHasRow, A!EveryFileHasRow, A!Running, FileIInv, Covered
  <1> QED
    BY <1>1, FileInvariance, PTL


-------------------------------------------------------------------------------
(* The notifications.                                                      *)

NoteJobs ==
  [by : User, comment : Comment \cup {Nil}, parent : Comment \cup {Nil}, space : Space \cup {Nil},
   mentioned : SUBSET User, watch : BOOLEAN]

Works ==
  [pc : {"idle", "context", "recipients", "spaces", "pages", "tell"}, job : NoteJobs \cup {Nil},
   recipients : SUBSET User, allowed : SUBSET User,
   todo : SUBSET [kind : {"mention", "created"}, user : User],
   held : SUBSET User, opened : SUBSET User, kept : SUBSET User]

\* A job is not about its own actor, and mentions in the page are in no thread.
WellMade(j) ==
  j \in NoteJobs /\ j.by \notin j.mentioned /\ (j.comment = Nil => j.parent = Nil /\ ~j.watch)

CommentTypes ==
  /\ text \in [Comment -> [by : User, parent : Comment \cup {Nil}] \cup {Nil}]
  /\ comments \subseteq Comment /\ \A c \in comments : text[c] # Nil

ReaderTypes ==
  page \in Space \cup {Nil} /\ member \subseteq User \X Space /\ barred \subseteq User /\ watchers \subseteq User

\* The comment that a request will insert is not there yet.
RequestJobs ==
  /\ commentReq \in [pc : {"idle", "insert", "queue"}, job : NoteJobs \cup {Nil}]
  /\ commentReq.pc # "idle" => WellMade(commentReq.job)
  /\ commentReq.pc = "insert" => commentReq.job.comment \in Comment \ comments

JobTypes ==
  /\ \A j \in jobs : WellMade(j)
  /\ work \in Works /\ (work.pc # "idle" => WellMade(work.job))

\* The histories hold who has the access now; while the page is there that goes
\* for the permission too.
Histories ==
  work.pc # "idle" =>
    /\ \A u \in User : <<u, work.job.space>> \in member => u \in work.held
    /\ page # Nil => User \ barred \subseteq work.opened
    /\ \A u \in work.kept : /\ <<u, work.job.space>> \in member /\ u \notin barred
                            /\ u \in work.job.mentioned \cup N!Recipients(work.job, watchers, comments)

\* The worker knows whom to tell.
Telling == work.pc = "tell" \/ (work.pc = "context" /\ work.job.comment = Nil)

\* Whoever could read all the while has been collected so far.
Collected ==
  /\ work.pc \in {"spaces", "pages"} => work.kept \subseteq work.job.mentioned \cup work.recipients
  /\ work.pc = "pages" => work.allowed \subseteq work.held /\ work.kept \subseteq work.allowed
  /\ Telling => \A u \in work.kept : u # work.job.by => \E n \in work.todo \cup notices : n.user = u

\* Whoever is told, or to be told, had the access, and once.
Told ==
  /\ work.pc # "tell" => notices = {}
  /\ ~Telling => work.todo = {}
  /\ work.todo \cap notices = {}
  /\ \A n \in work.todo \cup notices :
        n.user # work.job.by /\ n.user \in work.held /\ \A m \in work.todo \cup notices : m.user = n.user => m = n
  /\ page # Nil => \A n \in work.todo : n.user \in work.opened
  /\ \A n \in notices : n.user \in work.opened

NoteIInv ==
  CommentTypes /\ ReaderTypes /\ RequestJobs /\ JobTypes /\ Histories /\ Collected /\ Told

LEMMA JobIs ==
  ASSUME ReaderTypes, NEW u \in User, NEW c \in Comment \cup {Nil}, NEW p \in Comment \cup {Nil},
         NEW mentioned \in SUBSET User, NEW watch \in BOOLEAN, c = Nil => p = Nil /\ ~watch
  PROVE  WellMade(N!Job(u, c, p, mentioned, watch)) /\ N!Job(u, c, p, mentioned, watch).comment = c
  BY DEF N!Job, WellMade, NoteJobs, ReaderTypes

LEMMA RecipientsAreUsers ==
  ASSUME CommentTypes, NEW j \in NoteJobs, NEW wat \in SUBSET User
  PROVE  N!Recipients(j, wat, comments) \in SUBSET User
  <1>1. \A c \in Comment : N!Participants(c, comments) \subseteq User
    BY CommentAssumption DEF CommentTypes, N!Participants
  <1> QED
    BY <1>1 DEF N!Recipients, NoteJobs

\* The requests leave the worker alone.
watched == <<page, member, barred, watchers, text, comments, work, notices>>

LEMMA WorkGoesOn ==
  ASSUME UNCHANGED watched, Histories, Collected, Told
  PROVE  Histories' /\ Collected' /\ Told'
  BY DEF watched, Histories, Collected, Told, Telling, N!Recipients, N!Participants

LEMMA NoteInit == N!Init => NoteIInv
  <1> SUFFICES ASSUME N!Init PROVE NoteIInv
    OBVIOUS
  <1>1. /\ work.pc = "idle" /\ work.todo = {} /\ work \in Works
    BY DEF N!Init, N!Resting, Works
  <1>2. commentReq.pc = "idle" /\ commentReq \in [pc : {"idle", "insert", "queue"}, job : NoteJobs \cup {Nil}]
    BY DEF N!Init, N!Idle
  <1>3. page \in Space
    BY SpaceAssumption DEF N!Init
  <1>4. CommentTypes /\ ReaderTypes
    BY <1>3 DEF N!Init, CommentTypes, ReaderTypes
  <1> QED
    BY <1>1, <1>2, <1>4
       DEF N!Init, NoteIInv, RequestJobs, JobTypes, Histories, Collected, Told, Telling

-------------------------------------------------------------------------------
LEMMA NoteCreateStart ==
  ASSUME NoteIInv, NEW u \in User, NEW p \in comments \cup {Nil}, NEW mentions \in SUBSET User,
         N!CreateStart(u, p, mentions)
  PROVE  NoteIInv'
  <1> DEFINE watch == p = Nil
             j == N!Job(u, N!Fresh, p, mentions, watch)
             h == [pc |-> "insert", job |-> j]
  <1>1. commentReq' = h /\ UNCHANGED watched /\ jobs' = jobs /\ \E c \in Comment : text[c] = Nil
    BY DEF N!CreateStart, watched, N!readers
  <1>2. N!Fresh \in Comment \ comments
    BY <1>1 DEF N!Fresh, NoteIInv, CommentTypes
  <1>3. p \in Comment \cup {Nil} /\ watch \in BOOLEAN
    BY DEF NoteIInv, CommentTypes
  <1> HIDE DEF watch
  <1>4. WellMade(j) /\ j.comment = N!Fresh
    BY <1>2, <1>3, JobIs, CommentAssumption DEF NoteIInv
  <1> HIDE DEF j
  <1>5. h.pc = "insert" /\ h.job = j /\ h \in [pc : {"idle", "insert", "queue"}, job : NoteJobs \cup {Nil}]
    BY <1>4 DEF WellMade
  <1> HIDE DEF h
  <1>6. RequestJobs'
    BY <1>1, <1>2, <1>4, <1>5 DEF RequestJobs, WellMade, watched
  <1>7. CommentTypes' /\ ReaderTypes' /\ JobTypes'
    BY <1>1 DEF NoteIInv, CommentTypes, ReaderTypes, JobTypes, WellMade, watched
  <1> QED
    BY <1>1, <1>6, <1>7, WorkGoesOn DEF NoteIInv

LEMMA NoteCreateInsert ==
  ASSUME NoteIInv, N!CreateInsert
  PROVE  NoteIInv'
  <1> DEFINE j == commentReq.job
             row == [by |-> j.by, parent |-> j.parent]
  <1>1. /\ commentReq.pc = "insert" /\ text' = [text EXCEPT ![j.comment] = row]
        /\ comments' = comments \cup {j.comment} /\ commentReq' = [commentReq EXCEPT !.pc = "queue"]
        /\ UNCHANGED <<page, member, barred, watchers, jobs, work, notices>>
    BY DEF N!CreateInsert, N!readers
  <1>2. WellMade(j) /\ j.comment \in Comment \ comments
    BY <1>1 DEF NoteIInv, RequestJobs
  <1>3. row \in [by : User, parent : Comment \cup {Nil}] /\ row # Nil
    BY <1>2, CommentAssumption DEF WellMade, NoteJobs
  <1> HIDE DEF row
  <1>4. /\ commentReq' \in [pc : {"idle", "insert", "queue"}, job : NoteJobs \cup {Nil}]
        /\ commentReq'.pc = "queue" /\ commentReq'.job = j
    BY <1>1 DEF NoteIInv, RequestJobs
  <1> HIDE DEF j
  <1>5. CommentTypes' /\ \A d \in comments : text'[d] = text[d]
    BY <1>1, <1>2, <1>3 DEF NoteIInv, CommentTypes
  <1>6. RequestJobs'
    BY <1>2, <1>4 DEF RequestJobs, WellMade
  <1>7. ReaderTypes' /\ JobTypes'
    BY <1>1 DEF NoteIInv, ReaderTypes, JobTypes, WellMade
  <1>8. \A c \in Comment : N!Participants(c, comments) \subseteq N!Participants(c, comments)'
    BY <1>1, <1>5 DEF N!Participants
  <1>9. \A i \in NoteJobs : N!Recipients(i, watchers, comments) \subseteq N!Recipients(i, watchers, comments)'
    BY <1>1, <1>8 DEF N!Recipients, NoteJobs
  <1>10. Histories'
    BY <1>1, <1>9 DEF NoteIInv, Histories, JobTypes, WellMade
  <1>11. Collected' /\ Told'
    BY <1>1 DEF NoteIInv, Collected, Told, Telling
  <1> QED
    BY <1>5, <1>6, <1>7, <1>10, <1>11 DEF NoteIInv

LEMMA NoteUpdate ==
  ASSUME NoteIInv, NEW u \in User, NEW c \in comments, NEW mentions \in SUBSET User,
         N!Update(u, c, mentions)
  PROVE  NoteIInv'
  <1> DEFINE j == N!Job(u, c, Nil, mentions, FALSE)
             h == [pc |-> "queue", job |-> j]
  <1>1. commentReq' = h /\ UNCHANGED watched /\ jobs' = jobs
    BY DEF N!Update, watched, N!readers
  <1>2. WellMade(j)
    BY JobIs, CommentAssumption DEF NoteIInv, CommentTypes
  <1> HIDE DEF j
  <1>3. h.pc = "queue" /\ h.job = j /\ h \in [pc : {"idle", "insert", "queue"}, job : NoteJobs \cup {Nil}]
    BY <1>2 DEF WellMade
  <1> HIDE DEF h
  <1>4. RequestJobs'
    BY <1>1, <1>2, <1>3 DEF RequestJobs, WellMade
  <1>5. CommentTypes' /\ ReaderTypes' /\ JobTypes'
    BY <1>1 DEF NoteIInv, CommentTypes, ReaderTypes, JobTypes, WellMade, watched
  <1> QED
    BY <1>1, <1>4, <1>5, WorkGoesOn DEF NoteIInv

\* A job is queued, or a request breaks off.
LEMMA NoteQueued ==
  ASSUME NoteIInv, N!QueueCommentNotification \/ N!RequestFails
  PROVE  NoteIInv'
  <1>1. /\ commentReq' = N!Idle /\ UNCHANGED watched
        /\ jobs' = jobs \/ (commentReq.pc = "queue" /\ jobs' = jobs \cup {commentReq.job})
    BY DEF N!QueueCommentNotification, N!RequestFails, watched, N!readers
  <1>2. commentReq.pc = "queue" => WellMade(commentReq.job)
    BY DEF NoteIInv, RequestJobs
  <1>3. RequestJobs'
    BY <1>1 DEF RequestJobs, N!Idle
  <1>4. JobTypes'
    BY <1>1, <1>2 DEF NoteIInv, JobTypes, WellMade, watched
  <1>5. CommentTypes' /\ ReaderTypes'
    BY <1>1 DEF NoteIInv, CommentTypes, ReaderTypes, watched
  <1> QED
    BY <1>1, <1>3, <1>4, <1>5, WorkGoesOn DEF NoteIInv

LEMMA NoteStoreMentions ==
  ASSUME NoteIInv, NEW u \in User, NEW mentions \in SUBSET User, N!StoreMentions(u, mentions)
  PROVE  NoteIInv'
  <1> DEFINE j == N!Job(u, Nil, Nil, mentions, FALSE)
  <1>1. jobs' = jobs \cup {j} /\ UNCHANGED watched /\ commentReq' = commentReq
    BY DEF N!StoreMentions, watched, N!readers
  <1>2. WellMade(j)
    BY JobIs DEF NoteIInv
  <1> HIDE DEF j
  <1>3. JobTypes'
    BY <1>1, <1>2 DEF NoteIInv, JobTypes, WellMade, watched
  <1>4. CommentTypes' /\ ReaderTypes' /\ RequestJobs'
    BY <1>1 DEF NoteIInv, CommentTypes, ReaderTypes, RequestJobs, WellMade, watched
  <1> QED
    BY <1>1, <1>3, <1>4, WorkGoesOn DEF NoteIInv

-------------------------------------------------------------------------------
\* What a change around the job does to what its worker holds.
LEMMA NoteChange ==
  ASSUME NoteIInv, NEW mem \in SUBSET (User \X Space), NEW bar \in SUBSET User,
         NEW wat \in SUBSET User, NEW com \in SUBSET comments,
         N!Change(mem, bar, wat, com), text' = text, page' = page \/ (page # Nil /\ page' \in Space)
  PROVE  NoteIInv'
  <1> DEFINE j == work.job
             held == work.held \cup {u \in User : <<u, j.space>> \in mem}
             opened == work.opened \cup (User \ bar)
             kept == {u \in work.kept : N!MayRead(u, j.space, mem, bar)
                                          /\ u \in j.mentioned \cup N!Recipients(j, wat, com)}
             h == [work EXCEPT !.held = held, !.opened = opened, !.kept = kept]
  <1>1. /\ member' = mem /\ barred' = bar /\ watchers' = wat /\ comments' = com
        /\ work' = IF work.pc = "idle" THEN work ELSE h
        /\ commentReq' = commentReq /\ jobs' = jobs /\ notices' = notices
    BY DEF N!Change
  <1>2. work \in Works
    BY DEF NoteIInv, JobTypes
  <1>3. held \in SUBSET User /\ opened \in SUBSET User /\ kept \in SUBSET User /\ kept \subseteq work.kept
        /\ work.held \subseteq held /\ work.opened \subseteq opened
    BY <1>2 DEF Works
  <1>4. /\ \A u \in User : <<u, j.space>> \in mem => u \in held
        /\ User \ bar \subseteq opened
        /\ \A u \in kept : /\ <<u, j.space>> \in mem /\ u \notin bar
                           /\ u \in j.mentioned \cup N!Recipients(j, wat, com)
    BY DEF N!MayRead
  <1> HIDE DEF held, opened, kept
  <1>5. /\ h \in Works /\ h.pc = work.pc /\ h.job = j /\ h.recipients = work.recipients
        /\ h.allowed = work.allowed /\ h.todo = work.todo /\ h.held = held /\ h.opened = opened /\ h.kept = kept
    BY <1>2, <1>3 DEF Works
  <1> HIDE DEF h
  <1>6. CommentTypes' /\ ReaderTypes'
    BY <1>1 DEF NoteIInv, CommentTypes, ReaderTypes
  <1>7. RequestJobs'
    BY <1>1 DEF NoteIInv, RequestJobs, WellMade
  <1>8. JobTypes'
    BY <1>1, <1>5 DEF NoteIInv, JobTypes, WellMade
  <1>9. Histories'
    BY <1>1, <1>4, <1>5 DEF Histories, N!Recipients, N!Participants
  <1>10. Collected'
    BY <1>1, <1>3, <1>5 DEF NoteIInv, Collected, Telling
  <1>11. Told'
    BY <1>1, <1>3, <1>5 DEF NoteIInv, Told, Telling
  <1> QED
    BY <1>6, <1>7, <1>8, <1>9, <1>10, <1>11 DEF NoteIInv


\* What the tables hold around the changes.
LEMMA NoteTables ==
  NoteIInv => /\ member \in SUBSET (User \X Space) /\ barred \in SUBSET User /\ watchers \in SUBSET User
              /\ comments \in SUBSET Comment
  BY DEF NoteIInv, ReaderTypes, CommentTypes

LEMMA NoteMember ==
  ASSUME NoteIInv, NEW u \in User, NEW s \in Space, N!ChangeMember(u, s)
  PROVE  NoteIInv'
  <1>1. \E mem \in SUBSET (User \X Space), wat \in SUBSET User : N!Change(mem, barred, wat, comments)
    BY NoteTables DEF N!ChangeMember
  <1> QED
    BY <1>1, NoteTables, NoteChange DEF N!ChangeMember

LEMMA NoteReader ==
  ASSUME NoteIInv, NEW u \in User, N!ChangePermission(u) \/ N!ChangeWatching(u)
  PROVE  NoteIInv'
  <1>1. \E bar \in SUBSET User, wat \in SUBSET User : N!Change(member, bar, wat, comments)
    BY NoteTables DEF N!ChangePermission, N!ChangeWatching
  <1> QED
    BY <1>1, NoteTables, NoteChange DEF N!ChangePermission, N!ChangeWatching

LEMMA NoteDeleteComment ==
  ASSUME NoteIInv, NEW c \in Comment, N!DeleteComment(c)
  PROVE  NoteIInv'
  <1>1. \E com \in SUBSET comments : N!Change(member, barred, watchers, com)
    BY NoteTables DEF N!DeleteComment
  <1> QED
    BY <1>1, NoteTables, NoteChange DEF N!DeleteComment

LEMMA NoteMove ==
  ASSUME NoteIInv, NEW s \in Space, N!MoveToSpace(s)
  PROVE  NoteIInv'
  <1>1. \E bar \in SUBSET User, wat \in SUBSET User : N!Change(member, bar, wat, comments)
    BY NoteTables DEF N!MoveToSpace
  <1> QED
    BY <1>1, NoteTables, NoteChange DEF N!MoveToSpace

LEMMA NoteDeletePage ==
  ASSUME NoteIInv, N!DeletePage
  PROVE  NoteIInv'
  <1> DEFINE none == {}
             h == [work EXCEPT !.kept = none]
  <1>1. /\ page' = Nil /\ member' = member /\ barred' = {} /\ watchers' = {} /\ comments' = {}
        /\ work' = h /\ UNCHANGED <<text, commentReq, jobs, notices>>
    BY DEF N!DeletePage
  <1>2. work \in Works /\ none \in SUBSET User /\ none = {}
    BY DEF NoteIInv, JobTypes
  <1> HIDE DEF none
  <1>3. /\ h \in Works /\ h.pc = work.pc /\ h.job = work.job /\ h.recipients = work.recipients
        /\ h.allowed = work.allowed /\ h.todo = work.todo /\ h.held = work.held
        /\ h.opened = work.opened /\ h.kept = none
    BY <1>2 DEF Works
  <1> HIDE DEF h
  <1>4. CommentTypes' /\ ReaderTypes'
    BY <1>1 DEF NoteIInv, CommentTypes, ReaderTypes
  <1>5. RequestJobs' /\ JobTypes'
    BY <1>1, <1>3 DEF NoteIInv, RequestJobs, JobTypes, WellMade
  <1>6. Histories'
    BY <1>1, <1>2, <1>3 DEF NoteIInv, Histories
  <1>7. Collected' /\ Told'
    BY <1>1, <1>2, <1>3 DEF NoteIInv, Collected, Told, Telling
  <1> QED
    BY <1>4, <1>5, <1>6, <1>7 DEF NoteIInv

-------------------------------------------------------------------------------
\* What the steps of a job leave alone.
LEMMA NoteReads ==
  ASSUME NoteIInv, UNCHANGED <<page, member, barred, watchers, text, comments, commentReq>>
  PROVE  CommentTypes' /\ ReaderTypes' /\ RequestJobs'
  BY DEF NoteIInv, CommentTypes, ReaderTypes, RequestJobs, WellMade

LEMMA NoteTake ==
  ASSUME NoteIInv, NEW j \in jobs, N!Take(j)
  PROVE  NoteIInv'
  <1> DEFINE holders == {u \in User : <<u, j.space>> \in member}
             opened == User \ barred
             kept == (holders \cap opened) \cap (j.mentioned \cup N!Recipients(j, watchers, comments))
             pc == IF j.comment = Nil THEN "spaces" ELSE "context"
             h == [N!Resting EXCEPT !.pc = pc, !.job = j,
                     !.held = holders, !.opened = opened, !.kept = (holders \ barred) \cap (j.mentioned \cup N!Recipients(j, watchers, comments))]
  <1>1. /\ work.pc = "idle" /\ jobs' = jobs \ {j} /\ work' = h /\ notices' = notices
        /\ UNCHANGED <<page, member, barred, watchers, text, comments, commentReq>>
    BY DEF N!Take, N!readers
  <1>2. WellMade(j)
    BY DEF NoteIInv, JobTypes
  <1>3. /\ holders \in SUBSET User /\ opened \in SUBSET User /\ kept \in SUBSET User
        /\ kept = (holders \ barred) \cap (j.mentioned \cup N!Recipients(j, watchers, comments))
        /\ pc \in {"spaces", "context"} /\ (pc = "spaces" <=> j.comment = Nil)
    OBVIOUS
  <1>4. \A u \in kept : u \in j.mentioned \cup N!Recipients(j, watchers, comments)
    OBVIOUS
  <1>5. j.comment = Nil => kept \subseteq j.mentioned
    BY <1>2 DEF WellMade, N!Recipients
  <1>6. /\ \A u \in User : <<u, j.space>> \in member => u \in holders
        /\ \A u \in kept : <<u, j.space>> \in member /\ u \notin barred
        /\ User \ barred \subseteq opened
    OBVIOUS
  <1>7. /\ h \in Works /\ h.pc = pc /\ h.job = j /\ h.held = holders /\ h.opened = opened /\ h.kept = kept
        /\ h.todo = {}
    <2> DEFINE g == [N!Resting EXCEPT !.pc = pc, !.job = j, !.held = holders]
    <2>1. h = [g EXCEPT !.opened = opened, !.kept = kept]
      BY <1>3 DEF N!Resting
    <2> HIDE DEF pc, holders, opened, kept, h
    <2>2. /\ g \in Works /\ g.pc = pc /\ g.job = j /\ g.held = holders /\ g.todo = {}
      BY <1>2, <1>3 DEF N!Resting, Works, WellMade
    <2> HIDE DEF g
    <2> QED
      BY <1>3, <2>1, <2>2 DEF Works
  <1> HIDE DEF h, pc, holders, opened, kept
  <1>8. JobTypes'
    BY <1>1, <1>2, <1>7 DEF NoteIInv, JobTypes, WellMade
  <1>9. Histories'
    BY <1>1, <1>4, <1>6, <1>7 DEF Histories, N!Recipients, N!Participants
  <1>10. Collected' /\ Told'
    BY <1>1, <1>3, <1>5, <1>7 DEF NoteIInv, Collected, Told, Telling
  <1> QED
    BY <1>1, <1>8, <1>9, <1>10, NoteReads DEF NoteIInv

LEMMA NoteStops ==
  ASSUME NoteIInv, N!Stop, UNCHANGED <<page, member, barred, watchers, text, comments, commentReq>>,
         jobs' = jobs \/ (work.pc # "idle" /\ jobs' = jobs \cup {work.job})
  PROVE  NoteIInv'
  <1>1. work'.pc = "idle" /\ work'.todo = {} /\ notices' = {} /\ work' \in Works
    BY DEF N!Stop, N!Resting, Works
  <1>2. JobTypes'
    BY <1>1 DEF NoteIInv, JobTypes, WellMade
  <1>3. Histories' /\ Collected' /\ Told'
    BY <1>1 DEF Histories, Collected, Told, Telling
  <1> QED
    BY <1>2, <1>3, NoteReads DEF NoteIInv

LEMMA NoteGetContext ==
  ASSUME NoteIInv, N!GetContext
  PROVE  NoteIInv'
  <1>1. /\ work.pc = "context" /\ UNCHANGED <<jobs, notices>>
        /\ UNCHANGED <<page, member, barred, watchers, text, comments, commentReq>>
    BY DEF N!GetContext, N!Reads, N!readers
  <1>2. CASE work' = N!Resting
    BY <1>1, <1>2, NoteStops DEF N!Stop, NoteIInv, Told
  <1>3. CASE page # Nil
    <2> DEFINE pc == IF work.job.comment = Nil THEN "tell" ELSE "recipients"
               h == [work EXCEPT !.pc = pc]
    <2>1. work' = h
      BY <1>1, <1>3 DEF N!GetContext, N!Goto
    <2>2. pc \in {"tell", "recipients"} /\ (pc = "tell" <=> work.job.comment = Nil)
      OBVIOUS
    <2> HIDE DEF pc
    <2>3. /\ h \in Works /\ h.pc = pc /\ h.job = work.job /\ h.recipients = work.recipients
          /\ h.allowed = work.allowed /\ h.todo = work.todo /\ h.held = work.held
          /\ h.opened = work.opened /\ h.kept = work.kept
      BY <2>2 DEF NoteIInv, JobTypes, Works
    <2> HIDE DEF h
    <2>4. JobTypes'
      BY <1>1, <2>1, <2>3 DEF NoteIInv, JobTypes, WellMade
    <2>5. Histories'
      BY <1>1, <2>1, <2>2, <2>3 DEF NoteIInv, Histories, N!Recipients, N!Participants
    <2>6. Collected' /\ Told'
      BY <1>1, <2>1, <2>2, <2>3 DEF NoteIInv, Collected, Told, Telling
    <2> QED
      BY <1>1, <2>4, <2>5, <2>6, NoteReads DEF NoteIInv
  <1> QED
    BY <1>2, <1>3 DEF N!GetContext


LEMMA NoteGetRecipients ==
  ASSUME NoteIInv, N!GetRecipients
  PROVE  NoteIInv'
  <1> DEFINE recipients == N!Recipients(work.job, watchers, comments)
             h == [work EXCEPT !.pc = "spaces", !.recipients = recipients]
  <1>1. /\ work.pc = "recipients" /\ work' = h /\ UNCHANGED <<jobs, notices>>
        /\ UNCHANGED <<page, member, barred, watchers, text, comments, commentReq>>
    BY DEF N!GetRecipients, N!Reads, N!readers
  <1>2. recipients \in SUBSET User
    BY <1>1, RecipientsAreUsers DEF NoteIInv, JobTypes, WellMade, ReaderTypes
  <1>3. \A u \in work.kept : u \in work.job.mentioned \cup recipients
    BY <1>1 DEF NoteIInv, Histories
  <1> HIDE DEF recipients
  <1>4. /\ h \in Works /\ h.pc = "spaces" /\ h.job = work.job /\ h.recipients = recipients
        /\ h.todo = work.todo /\ h.held = work.held /\ h.opened = work.opened /\ h.kept = work.kept
    BY <1>2 DEF NoteIInv, JobTypes, Works
  <1> HIDE DEF h
  <1>5. JobTypes'
    BY <1>1, <1>4 DEF NoteIInv, JobTypes, WellMade
  <1>6. Histories'
    BY <1>1, <1>4 DEF NoteIInv, Histories, N!Recipients, N!Participants
  <1>7. Collected' /\ Told'
    BY <1>1, <1>3, <1>4 DEF NoteIInv, Collected, Told, Telling
  <1> QED
    BY <1>1, <1>5, <1>6, <1>7, NoteReads DEF NoteIInv

LEMMA NoteSpaces ==
  ASSUME NoteIInv, N!GetUserIdsWithSpaceAccess
  PROVE  NoteIInv'
  <1> DEFINE allowed == {u \in work.job.mentioned \cup work.recipients : <<u, work.job.space>> \in member}
             h == [work EXCEPT !.pc = "pages", !.allowed = allowed]
  <1>1. /\ work.pc = "spaces" /\ work' = h /\ UNCHANGED <<jobs, notices>>
        /\ UNCHANGED <<page, member, barred, watchers, text, comments, commentReq>>
    BY DEF N!GetUserIdsWithSpaceAccess, N!Reads, N!readers
  <1>2. work \in Works /\ work.job.mentioned \subseteq User
    BY <1>1 DEF NoteIInv, JobTypes, WellMade, NoteJobs
  <1>3. allowed \in SUBSET User
    BY <1>2 DEF Works
  <1>4. allowed \subseteq work.held /\ work.kept \subseteq allowed
    BY <1>1, <1>3 DEF NoteIInv, Histories, Collected
  <1> HIDE DEF allowed
  <1>5. /\ h \in Works /\ h.pc = "pages" /\ h.job = work.job /\ h.recipients = work.recipients
        /\ h.allowed = allowed
        /\ h.todo = work.todo /\ h.held = work.held /\ h.opened = work.opened /\ h.kept = work.kept
    BY <1>2, <1>3 DEF Works
  <1> HIDE DEF h
  <1>6. JobTypes'
    BY <1>1, <1>5 DEF NoteIInv, JobTypes, WellMade
  <1>7. Histories'
    BY <1>1, <1>5 DEF NoteIInv, Histories, N!Recipients, N!Participants
  <1>8. Collected' /\ Told'
    BY <1>1, <1>4, <1>5 DEF NoteIInv, Collected, Told, Telling
  <1> QED
    BY <1>1, <1>6, <1>7, <1>8, NoteReads DEF NoteIInv

\* A user is told as mentioned, or as a recipient, and not as both.
LEMMA ToTellIs ==
  ASSUME work \in Works, WellMade(work.job), NEW allowed \in SUBSET User
  PROVE  /\ N!ToTell(allowed) \in SUBSET [kind : {"mention", "created"}, user : User]
         /\ \A n \in N!ToTell(allowed) :
               /\ n.user # work.job.by /\ n.user \in allowed
               /\ \A m \in N!ToTell(allowed) : m.user = n.user => m = n
         /\ \A u \in allowed \cap (work.job.mentioned \cup work.recipients) :
               u # work.job.by => \E n \in N!ToTell(allowed) : n.user = u
  <1> DEFINE mentioned == work.job.mentioned \cap allowed
             rest == (work.recipients \cap allowed) \ (mentioned \cup {work.job.by})
             told == {N!Notice("mention", u) : u \in mentioned}
             more == {N!Notice("created", u) : u \in rest}
  <1>1. N!ToTell(allowed) = told \cup more
    BY DEF N!ToTell
  <1>2. /\ mentioned \subseteq User /\ rest \subseteq User /\ mentioned \cap rest = {}
        /\ mentioned \subseteq allowed /\ rest \subseteq allowed
        /\ work.job.by \notin mentioned \cup rest
        /\ allowed \cap (work.job.mentioned \cup work.recipients) \subseteq mentioned \cup rest \cup {work.job.by}
    BY DEF Works, WellMade, NoteJobs
  <1> HIDE DEF mentioned, rest
  <1>3. \A kind \in {"mention", "created"}, u \in User :
          /\ N!Notice(kind, u) \in [kind : {"mention", "created"}, user : User]
          /\ N!Notice(kind, u).kind = kind /\ N!Notice(kind, u).user = u
    BY DEF N!Notice
  <1>4. \A n \in told : \E u \in mentioned : n = N!Notice("mention", u) /\ n.user = u
    BY <1>2, <1>3
  <1>5. \A n \in more : \E u \in rest : n = N!Notice("created", u) /\ n.user = u
    BY <1>2, <1>3
  <1>6. /\ \A u \in mentioned : N!Notice("mention", u) \in told
        /\ \A u \in rest : N!Notice("created", u) \in more
    OBVIOUS
  <1> HIDE DEF told, more
  <1>7. N!ToTell(allowed) \in SUBSET [kind : {"mention", "created"}, user : User]
    BY <1>1, <1>2, <1>3, <1>4, <1>5
  <1>8. \A n \in told \cup more : n.user # work.job.by /\ n.user \in allowed
    BY <1>2, <1>4, <1>5
  <1>9. \A n, m \in told \cup more : m.user = n.user => m = n
    BY <1>2, <1>4, <1>5
  <1>10. \A u \in mentioned \cup rest : \E n \in told \cup more : n.user = u
    BY <1>2, <1>3, <1>6
  <1> QED
    BY <1>1, <1>2, <1>7, <1>8, <1>9, <1>10

LEMMA NotePages ==
  ASSUME NoteIInv, N!GetUserIdsWithPageAccess
  PROVE  NoteIInv'
  <1> DEFINE allowed == work.allowed \ barred
             todo == N!ToTell(allowed)
             pc == IF work.job.comment = Nil /\ allowed # {} THEN "context" ELSE "tell"
             h == [work EXCEPT !.recipients = {}, !.allowed = {}, !.todo = todo, !.pc = pc]
  <1>1. /\ work.pc = "pages" /\ UNCHANGED <<jobs, notices>> /\ work' = h
        /\ UNCHANGED <<page, member, barred, watchers, text, comments, commentReq>>
    BY DEF N!GetUserIdsWithPageAccess, N!Reads, N!readers
  <1>2. work \in Works /\ WellMade(work.job)
    BY <1>1 DEF NoteIInv, JobTypes
  <1>3. allowed \in SUBSET User /\ allowed \subseteq work.held /\ allowed \cap barred = {}
        /\ work.kept \subseteq allowed
    BY <1>1, <1>2 DEF NoteIInv, Collected, Histories, Works
  <1>4. pc \in {"context", "tell"} /\ (pc = "context" => work.job.comment = Nil)
    OBVIOUS
  <1> HIDE DEF allowed, pc
  <1>5. /\ todo \in SUBSET [kind : {"mention", "created"}, user : User]
        /\ \A n \in todo : /\ n.user # work.job.by /\ n.user \in allowed
                           /\ \A m \in todo : m.user = n.user => m = n
        /\ \A u \in allowed \cap (work.job.mentioned \cup work.recipients) :
              u # work.job.by => \E n \in todo : n.user = u
    BY <1>2, <1>3, ToTellIs
  <1> HIDE DEF todo
  <1>6. /\ h \in Works /\ h.pc = pc /\ h.job = work.job /\ h.todo = todo
        /\ h.held = work.held /\ h.opened = work.opened /\ h.kept = work.kept
    <2> DEFINE g == [work EXCEPT !.recipients = {}, !.allowed = {}]
    <2>1. /\ g \in Works /\ g.job = work.job
          /\ g.held = work.held /\ g.opened = work.opened /\ g.kept = work.kept
      BY <1>2 DEF Works
    <2>2. h = [g EXCEPT !.todo = todo, !.pc = pc]
      OBVIOUS
    <2> HIDE DEF g, h
    <2> QED
      BY <1>4, <1>5, <2>1, <2>2 DEF Works
  <1> HIDE DEF h
  <1>7. JobTypes'
    BY <1>1, <1>4, <1>6 DEF NoteIInv, JobTypes, WellMade
  <1>8. Histories'
    BY <1>1, <1>6 DEF NoteIInv, Histories, N!Recipients, N!Participants
  <1>9. Collected'
    BY <1>1, <1>3, <1>4, <1>5, <1>6 DEF NoteIInv, Collected, Telling
  <1>10. page # Nil => \A n \in todo : n.user \in work.opened
    BY <1>1, <1>3, <1>5 DEF NoteIInv, Histories
  <1>11. Told'
    BY <1>1, <1>3, <1>4, <1>5, <1>6, <1>10 DEF NoteIInv, Told, Telling
  <1> QED
    BY <1>1, <1>7, <1>8, <1>9, <1>11, NoteReads DEF NoteIInv

LEMMA NoteTell ==
  ASSUME NoteIInv, NEW n \in work.todo, N!Tell(n)
  PROVE  NoteIInv'
  <1> DEFINE todo == work.todo \ {n}
             h == [work EXCEPT !.todo = todo]
  <1>1. /\ work.pc = "tell" /\ page # Nil /\ notices' = notices \cup {n} /\ jobs' = jobs
        /\ UNCHANGED <<page, member, barred, watchers, text, comments, commentReq>>
        /\ work' = h
    BY DEF N!Tell, N!readers, NoteIInv, JobTypes, Works
  <1>2. work \in Works
    BY DEF NoteIInv, JobTypes
  <1>3. todo \cup notices' = work.todo \cup notices /\ todo \cap notices' = {} /\ todo \subseteq work.todo
    BY <1>1 DEF NoteIInv, Told
  <1> HIDE DEF todo
  <1>4. /\ h \in Works /\ h.pc = "tell" /\ h.job = work.job /\ h.todo = todo
        /\ h.held = work.held /\ h.opened = work.opened /\ h.kept = work.kept
    BY <1>1, <1>2, <1>3 DEF Works
  <1> HIDE DEF h
  <1>5. JobTypes'
    BY <1>1, <1>4 DEF NoteIInv, JobTypes, WellMade
  <1>6. Histories'
    BY <1>1, <1>4 DEF NoteIInv, Histories, N!Recipients, N!Participants
  <1>7. Collected'
    BY <1>1, <1>3, <1>4 DEF NoteIInv, Collected, Telling
  <1>8. Told'
    BY <1>1, <1>3, <1>4 DEF NoteIInv, Told, Telling
  <1> QED
    BY <1>1, <1>5, <1>6, <1>7, <1>8, NoteReads DEF NoteIInv

LEMMA NoteEnds ==
  ASSUME NoteIInv, N!Finish \/ N!JobFails
  PROVE  NoteIInv'
  BY NoteStops DEF N!Finish, N!JobFails, N!readers

LEMMA NoteStep == NoteIInv /\ N!Next => NoteIInv'
  <1> SUFFICES ASSUME NoteIInv, N!Next PROVE NoteIInv'
    OBVIOUS
  <1>1. \A u \in User, s \in Space : N!ChangeMember(u, s) => NoteIInv'
    BY NoteMember
  <1>2. \A u \in User : N!ChangePermission(u) \/ N!ChangeWatching(u) => NoteIInv'
    BY NoteReader
  <1>3. \A c \in Comment : N!DeleteComment(c) => NoteIInv'
    BY NoteDeleteComment
  <1>4. \A s \in Space : N!MoveToSpace(s) => NoteIInv'
    BY NoteMove
  <1> QED
    BY <1>1, <1>2, <1>3, <1>4, NoteCreateStart, NoteCreateInsert, NoteUpdate, NoteQueued, NoteStoreMentions,
       NoteDeletePage, NoteTake, NoteGetContext, NoteGetRecipients, NoteSpaces, NotePages, NoteTell, NoteEnds
       DEF N!Next

LEMMA NoteInvariance == Spec => [](part = "notices" => NoteIInv)
  <1>1. Init => (part = "notices" => NoteIInv)
    BY NoteInit DEF Init
  <1>2. (part = "notices" => NoteIInv) /\ [Next]_all => (part = "notices" => NoteIInv)'
    <2>1. CASE UNCHANGED all
      BY <2>1 DEF all, notes, NoteIInv, CommentTypes, ReaderTypes, RequestJobs, JobTypes, WellMade,
                  Histories, Collected, Told, Telling, N!Recipients, N!Participants
    <2>2. CASE part = "notices" /\ N!Next /\ part' = part
      BY <2>2, NoteStep
    <2> QED
      BY <2>1, <2>2 DEF Next
  <1> QED
    BY <1>1, <1>2, PTL DEF Spec

\* Whoever is notified of a comment or a mention had the role and the permission,
\* each at some time of the job, did not cause it himself, and is notified once.
THEOREM ToldAreReaders == Spec => []ToldRightly
  <1>1. (part = "notices" => NoteIInv) => ToldRightly
    BY DEF ToldRightly, N!ToldRightly, NoteIInv, Told
  <1> QED
    BY <1>1, NoteInvariance, PTL

\* At the end of a job whoever is concerned and could open the page all the while
\* has been notified, whatever was read before and after the access changed.
THEOREM ReadersAreTold == Spec => []ConcernedAreTold
  <1>1. (part = "notices" => NoteIInv) => ConcernedAreTold
    BY DEF ConcernedAreTold, N!ConcernedAreTold, NoteIInv, Collected, Telling
  <1> QED
    BY <1>1, NoteInvariance, PTL


-------------------------------------------------------------------------------
(* The public shares.                                                      *)

\* What is above a page that is above p is above p.
LEMMA AboveAbove ==
  ASSUME NEW p \in Page, NEW q \in S!Above(p)
  PROVE  S!Above(q) \subseteq S!Above(p) /\ q \in Page
  BY DEF S!Above

LEMMA AboveSelf ==
  ASSUME NEW p \in Page
  PROVE  p \in S!Above(p)
  BY DEF S!Above

\* The walk up from a page that is served and the walk down from its share find
\* the same way, whatever the tree, the trash, the restrictions and the shares.
LEMMA ServedIsOnTheWay ==
  ASSUME NEW p \in Page, NEW s \in S!Serves(p)
  PROVE  /\ p = share[s].page \/ p \in S!Tree(s)
         /\ p \in S!Searched(s)
  <1> DEFINE q == share[s].page
  <1>1. /\ q \in S!Above(p) /\ S!Way(p, q) \subseteq S!Live /\ (q # p => share[s].sub)
        /\ p \in S!Live /\ ~S!HasRestrictedAncestor(p) /\ S!IsSharingAllowed(share[s].space)
    BY DEF S!Serves, S!GetShareForPage
  <1>2. q \in Page /\ S!Above(q) \subseteq S!Above(p)
    BY <1>1, AboveAbove
  <1>3. ~S!HasRestrictedAncestor(q)
    BY <1>1, <1>2 DEF S!HasRestrictedAncestor
  <1>4. S!Way(p, q) \cap access = {}
    BY <1>1 DEF S!HasRestrictedAncestor, S!Way
  <1>5. p \in S!OpenBelow(q)
    BY <1>1, <1>4 DEF S!OpenBelow, S!Below
  <1> QED
    BY <1>1, <1>3, <1>5 DEF S!Tree, S!Searched

Row == [page : Page, space : Space, sub : BOOLEAN]

\* A share is in the space of its page, unless its insert came after a move.
ShareIInv ==
  /\ space \in [Page -> Space] /\ share \in [Share -> Row \cup {Nil}]
  /\ shareReq # Nil => shareReq \in Row
  /\ \A s \in Share \ late : share[s] # Nil => share[s].space = space[share[s].page]

LEMMA ShareInit == S!Init => ShareIInv
  BY DEF S!Init, ShareIInv

\* Which shares a step drops, and what it leaves of the others.
LEMMA ShareDrop ==
  ASSUME ShareIInv, NEW D \in SUBSET Share, S!Drop(D), space' = space, shareReq' = shareReq
  PROVE  ShareIInv'
  BY DEF S!Drop, ShareIInv

LEMMA ShareStep == ShareIInv /\ S!Next => ShareIInv'
  <1> SUFFICES ASSUME ShareIInv, S!Next PROVE ShareIInv'
    OBVIOUS
  <1>1. ASSUME NEW p \in Page, NEW sub \in BOOLEAN, S!CreateStart(p, sub) PROVE ShareIInv'
    <2> DEFINE row == [page |-> p, space |-> space[p], sub |-> sub]
    <2>1. shareReq' = row /\ UNCHANGED <<space, share, late>>
      BY <1>1 DEF S!CreateStart, S!pages
    <2>2. row \in Row
      BY DEF ShareIInv, Row
    <2> HIDE DEF row
    <2> QED
      BY <2>1, <2>2 DEF ShareIInv
  <1>2. ASSUME NEW s \in Share, S!CreateInsert(s) PROVE ShareIInv'
    BY <1>2 DEF S!CreateInsert, S!pages, ShareIInv
  <1>3. ASSUME NEW s \in Share, NEW sub \in BOOLEAN, S!UpdateShare(s, sub) PROVE ShareIInv'
    <2> DEFINE row == [share[s] EXCEPT !.sub = sub]
    <2>1. /\ share[s] \in Row /\ share' = [share EXCEPT ![s] = row]
          /\ UNCHANGED <<space, late, shareReq>>
      BY <1>3 DEF S!UpdateShare, S!Shares, S!pages, ShareIInv
    <2>2. row \in Row /\ row.page = share[s].page /\ row.space = share[s].space
      BY <2>1 DEF Row
    <2> HIDE DEF row
    <2> QED
      BY <1>3, <2>1, <2>2 DEF ShareIInv, S!UpdateShare, S!Shares
  <1>4. ASSUME NEW s \in Share, S!DeleteShare(s) PROVE ShareIInv'
    BY <1>4, ShareDrop DEF S!DeleteShare, S!pages
  <1>5. ASSUME NEW p \in Page, S!Trash(p) PROVE ShareIInv'
    BY <1>5, ShareDrop DEF S!Trash, S!SharesOf, S!Shares
  <1>6. ASSUME NEW p \in Page, NEW q \in Space, S!MoveToSpace(p, q) PROVE ShareIInv'
    <2> DEFINE ids == S!LiveBelow(p)
               row(s) == [share[s] EXCEPT !.space = q]
    <2>1. /\ space' = [r \in Page |-> IF r \in ids THEN q ELSE space[r]]
          /\ share' = [s \in Share |-> IF s \in S!SharesOf(ids) THEN row(s) ELSE share[s]]
          /\ late' = late \ S!SharesOf(ids) /\ shareReq' = shareReq
      BY <1>6 DEF S!MoveToSpace
    <2>2. \A s \in S!SharesOf(ids) : s \in Share /\ share[s] \in Row /\ share[s].page \in ids
      BY DEF S!SharesOf, S!Shares, ShareIInv
    <2>3. \A s \in Share : share[s] # Nil /\ share[s].page \in ids => s \in S!SharesOf(ids)
      BY DEF S!SharesOf, S!Shares
    <2>4. \A s \in S!SharesOf(ids) : row(s) \in Row /\ row(s).page = share[s].page /\ row(s).space = q
      BY <2>2 DEF Row
    <2> HIDE DEF ids, row
    <2>5. ids \subseteq Page
      BY DEF ids, S!LiveBelow, S!Below
    <2> QED
      BY <2>1, <2>2, <2>3, <2>4, <2>5 DEF ShareIInv, Row
  <1>7. ASSUME UNCHANGED <<space, share, shareReq, late>> PROVE ShareIInv'
    BY <1>7 DEF ShareIInv
  <1> QED
    BY <1>1, <1>2, <1>3, <1>4, <1>5, <1>6, <1>7
       DEF S!Next, S!Restore, S!Restrict, S!Unrestrict, S!Move, S!SwitchSharing, S!pages

LEMMA ShareInvariance == Spec => [](part = "sharing" => ShareIInv)
  <1>1. Init => (part = "sharing" => ShareIInv)
    BY ShareInit DEF Init
  <1>2. (part = "sharing" => ShareIInv) /\ [Next]_all => (part = "sharing" => ShareIInv)'
    <2>1. CASE UNCHANGED all
      BY <2>1 DEF all, sharing, ShareIInv
    <2>2. CASE part = "sharing" /\ S!Next /\ part' = part
      BY <2>2, ShareStep
    <2> QED
      BY <2>1, <2>2 DEF Next
  <1> QED
    BY <1>1, <1>2, PTL DEF Spec

\* Whatever page a share serves, sharing is on in the space where its own page
\* is, wherever that was moved since, unless its insert came after the move.
THEOREM ServedAreAllowed == Spec => []ServedWhereAllowed
  <1>1. (part = "sharing" => ShareIInv) => ServedWhereAllowed
    <2> SUFFICES ASSUME ShareIInv, NEW p \in Page, NEW s \in S!Serves(p) \ late
                 PROVE  S!IsSharingAllowed(space[share[s].page])
      BY DEF ServedWhereAllowed, S!ServedWhereAllowed
    <2>1. s \in Share /\ share[s] # Nil /\ S!IsSharingAllowed(share[s].space)
      BY DEF S!Serves, S!GetShareForPage, S!Shares
    <2> QED
      BY <2>1 DEF ShareIInv
  <1> QED
    BY <1>1, ShareInvariance, PTL


-------------------------------------------------------------------------------
(* The import of an archive.                                               *)

\* Every set of naturals up to a bound that has a member has a greatest.
LEMMA Greatest ==
  ASSUME NEW n \in Nat, NEW T \in SUBSET (1..n), T # {}
  PROVE  \E i \in T : \A k \in T : k <= i
  <1> DEFINE R == StrictSubsetOrdering(1..n)
             Above(i) == {k \in 1..n : i < k}
             F == {Above(i) : i \in T}
  <1>1. IsFiniteSet(1..n)
    BY FS_Interval
  <1>2. IsWellFoundedOn(R, FiniteSubsetsOf(1..n))
    BY FS_StrictSubsetOrderingWellFounded
  <1>3. F \subseteq FiniteSubsetsOf(1..n) /\ F # {}
    <2>1. \A i \in T : Above(i) \in SUBSET (1..n)
      OBVIOUS
    <2>2. \A i \in T : Above(i) \in FiniteSubsetsOf(1..n)
      <3> HIDE DEF Above
      <3> QED
        BY <1>1, <2>1, FS_Subset DEF FiniteSubsetsOf
    <2> QED
      BY <2>2
  <1>4. \E A1 \in F : \A A2 \in F : ~(<<A2, A1>> \in R)
    <2> HIDE DEF F, R
    <2> QED
      BY <1>2, <1>3, WFMin
  <1>5. PICK i \in T : \A k \in T : ~(<<Above(k), Above(i)>> \in R)
    BY <1>4
  <1>6. ASSUME NEW k \in T, i < k PROVE FALSE
    <2>1. Above(k) \subseteq Above(i) /\ k \in Above(i) /\ k \notin Above(k)
      BY <1>6
    <2>2. Above(k) \in SUBSET (1..n) /\ Above(i) \in SUBSET (1..n)
      OBVIOUS
    <2> HIDE DEF Above
    <2> QED
      BY <1>5, <2>1, <2>2 DEF StrictSubsetOrdering
  <1> QED
    BY <1>6

\* The folders around a file or folder are what its path begins with.
LEMMA PrefixIs ==
  ASSUME NEW T, NEW t \in Seq(T), NEW d \in I!Prefixes(t)
  PROVE  d \in Seq(T) /\ Len(d) \in 1..Len(t) /\ d = SubSeq(t, 1, Len(d))
  <1>1. PICK i \in 1..Len(t) : d = SubSeq(t, 1, i)
    BY DEF I!Prefixes
  <1>2. \A k \in 1..i : t[k] \in T
    BY ElementOfSeq
  <1> QED
    BY <1>1, <1>2, SubSeqProperties

\* The folder around a folder has fewer around it.
LEMMA PrefixesBefore ==
  ASSUME NEW T, NEW t \in Seq(T), NEW d \in I!Prefixes(t)
  PROVE  /\ SubSeq(d, 1, Len(d) - 1) \in Seq(T)
         /\ I!Prefixes(SubSeq(d, 1, Len(d) - 1)) \subseteq I!Prefixes(t) \ {d}
  <1> DEFINE n == Len(d)
             f == SubSeq(d, 1, n - 1)
  <1>1. d \in Seq(T) /\ n \in 1..Len(t) /\ d = SubSeq(t, 1, n)
    BY PrefixIs
  <1>2. \A k \in 1..(n - 1) : d[k] \in T
    BY <1>1, ElementOfSeq
  <1>3. f \in Seq(T) /\ Len(f) = n - 1
    BY <1>1, <1>2, SubSeqProperties
  <1>4. ASSUME NEW e \in I!Prefixes(f) PROVE e \in I!Prefixes(t) \ {d}
    <2>1. e \in Seq(T) /\ Len(e) \in 1..(n - 1) /\ e = SubSeq(f, 1, Len(e))
      BY <1>3, <1>4, PrefixIs
    <2>2. f = SubSeq(t, 1, n - 1)
      BY <1>1, <2>1, SubSeqOfSubSeq
    <2>3. e = SubSeq(t, 1, Len(e))
      BY <1>1, <2>1, <2>2, SubSeqOfSubSeq
    <2>4. Len(e) \in 1..Len(t) /\ Len(e) < n
      BY <1>1, <2>1
    <2>5. e \in I!Prefixes(t)
      BY <2>3, <2>4 DEF I!Prefixes
    <2> QED
      BY <2>4, <2>5
  <1> QED
    BY <1>3, <1>4

LEMMA PrefixesFinite ==
  ASSUME NEW T, NEW t \in Seq(T)
  PROVE  IsFiniteSet(I!Prefixes(t))
  <1> DEFINE f == [i \in 1..Len(t) |-> SubSeq(t, 1, i)]
  <1>1. IsFiniteSet(1..Len(t))
    BY FS_Interval, LenProperties
  <1>2. f \in Surjection(1..Len(t), I!Prefixes(t))
    BY DEF Surjection, I!Prefixes
  <1> QED
    BY <1>1, <1>2, FS_Surjection

\* Of folders around one file, some is the nearest.
LEMMA NearestFolder ==
  ASSUME NEW T, NEW t \in Seq(T), NEW D \in SUBSET I!Prefixes(t), D # {}
  PROVE  \E d \in D : \A e \in D : Len(e) <= Len(d)
  <1> DEFINE L == {Len(d) : d \in D}
  <1>1. \A d \in D : Len(d) \in 1..Len(t)
    BY PrefixIs
  <1>2. L \in SUBSET (1..Len(t)) /\ L # {}
    BY <1>1
  <1>3. Len(t) \in Nat
    BY LenProperties
  <1>4. \E i \in L : \A k \in L : k <= i
    <2> HIDE DEF L
    <2> QED
      BY <1>2, <1>3, Greatest
  <1> QED
    BY <1>4


\* The BFS comes to a folder's page before it comes to what is in the folder.
LEMMA LevelBelow ==
  ASSUME NEW T, NEW keys, NEW k, k.dir \in Seq(T), NEW q, NEW d \in I!Prefixes(k.dir),
         I!PagesFor(d) \cap keys # {}, q.dir = SubSeq(d, 1, Len(d) - 1)
  PROVE  /\ I!PageLevel(keys, q) \in Nat /\ I!PageLevel(keys, k) \in Nat
         /\ I!PageLevel(keys, q) < I!PageLevel(keys, k)
  <1> DEFINE above(r) == I!FoldersAbove(keys, r)
  <1>1. I!Prefixes(q.dir) \subseteq I!Prefixes(k.dir) \ {d}
    BY PrefixesBefore
  <1>2. above(q) \subseteq above(k) /\ d \in above(k) /\ d \notin above(q)
    BY <1>1 DEF I!FoldersAbove
  <1>3. IsFiniteSet(I!Prefixes(k.dir)) /\ above(k) \in SUBSET I!Prefixes(k.dir)
    BY PrefixesFinite DEF I!FoldersAbove
  <1>4. I!PageLevel(keys, q) = Cardinality(above(q)) /\ I!PageLevel(keys, k) = Cardinality(above(k))
    BY DEF I!PageLevel, I!Cardinality, Cardinality
  <1> HIDE DEF above
  <1>5. IsFiniteSet(above(k)) /\ IsFiniteSet(above(q))
    BY <1>2, <1>3, FS_Subset
  <1>6. Cardinality(above(k)) \in Nat /\ Cardinality(above(q)) \in Nat
    BY <1>5, FS_CardinalityType
  <1>7. Cardinality(above(q)) <= Cardinality(above(k)) /\ Cardinality(above(q)) # Cardinality(above(k))
    BY <1>2, <1>5, FS_Subset
  <1> QED
    BY <1>4, <1>6, <1>7

\* The parent of a page is the page of a folder around it: the BFS comes to it first.
LEMMA ParentBefore ==
  ASSUME NEW T, NEW keys, NEW k, k.dir \in Seq(T), I!ParentKey(keys, k) # Nil
  PROVE  /\ I!ParentKey(keys, k) \in keys
         /\ I!PageLevel(keys, I!ParentKey(keys, k)) \in Nat /\ I!PageLevel(keys, k) \in Nat
         /\ I!PageLevel(keys, I!ParentKey(keys, k)) < I!PageLevel(keys, k)
  <1> DEFINE above == I!FoldersAbove(keys, k)
             near  == CHOOSE d \in above : \A e \in above : Len(e) <= Len(d)
             html  == [I!Md(near) EXCEPT !.ext = "html"]
  <1>1. /\ above # {}
        /\ I!ParentKey(keys, k) = IF I!Md(near) \in keys THEN I!Md(near) ELSE html
    BY DEF I!ParentKey
  <1>2. above \in SUBSET I!Prefixes(k.dir)
    BY DEF I!FoldersAbove
  <1>3. \E d \in above : \A e \in above : Len(e) <= Len(d)
    <2> HIDE DEF above
    <2> QED
      BY <1>1, <1>2, NearestFolder
  <1>4. near \in above
    <2> HIDE DEF above
    <2> QED
      BY <1>3
  <1> HIDE DEF near
  <1>5. I!PagesFor(near) = {I!Md(near), html} /\ I!PagesFor(near) \cap keys # {}
    BY <1>4 DEF I!PagesFor, I!FoldersAbove
  <1>6. I!Md(near).dir = SubSeq(near, 1, Len(near) - 1) /\ html.dir = SubSeq(near, 1, Len(near) - 1)
    BY DEF I!Md
  <1> HIDE DEF html
  <1>7. I!ParentKey(keys, k) \in keys
    BY <1>1, <1>5
  <1>8. near \in I!Prefixes(k.dir) /\ I!PagesFor(near) \cap keys # {}
    BY <1>4 DEF I!FoldersAbove
  <1>9. \A q : q.dir = SubSeq(near, 1, Len(near) - 1) =>
          /\ I!PageLevel(keys, q) \in Nat /\ I!PageLevel(keys, k) \in Nat
          /\ I!PageLevel(keys, q) < I!PageLevel(keys, k)
    BY <1>8, LevelBelow
  <1>10. I!ParentKey(keys, k).dir = SubSeq(near, 1, Len(near) - 1)
    BY <1>1, <1>6
  <1> QED
    BY <1>7, <1>9, <1>10

\* The names of the files and folders of the archive.
Names == UNION {{f.base} \cup {f.dir[i] : i \in DOMAIN f.dir} : f \in archive.files}
Places == [dir : Seq(Names), base : Names, ext : {"md", "html"}]
Entries == [key : Places, file : Places \cup {Nil}, name : {n.name : n \in Names}]
Folders == {d \in Seq(Names) : Len(d) > 0}

\* Before the pages of this run are in the table.
Before == {"idle", "read", "unpack", "folders", "insert"}

ImportTypes ==
  /\ archive \in Archives
  /\ job \in [at : {"none", "waiting", "active", "over"}, stalls : 0..Stalls]
  /\ run \in [pc : Before \cup {"mark", "drop", "returned", "thrown", "completed", "failed"},
              map : SUBSET Entries, todo : SUBSET Folders, done : SUBSET Places]
  /\ job.at = "active" <=> run.pc # "idle"
  /\ importReq = "queued" \/ job.at = "none"

LEMMA FilesArePlaces ==
  ASSUME archive \in Archives
  PROVE  /\ archive.files \subseteq Places /\ Nil \notin archive.files
         /\ \A f \in archive.files : f.dir \in Seq(Names) /\ f.base \in Names
         /\ archive.source \in {"generic", "notion"}
  <1>1. ASSUME NEW f \in archive.files PROVE f \in Places /\ f.dir \in Seq(Names) /\ f.base \in Names
    <2> DEFINE R == {f.dir[i] : i \in DOMAIN f.dir}
    <2>1. /\ f.dir \in Seq(R) /\ f.ext \in {"md", "html"}
          /\ f = [dir |-> f.dir, base |-> f.base, ext |-> f.ext]
      BY ArchivesAssumption
    <2>2. R \subseteq Names /\ f.base \in Names
      BY DEF Names
    <2>3. f.dir \in Seq(Names)
      <3> HIDE DEF R
      <3> QED
        BY <2>1, <2>2, SeqMonotonic
    <2> QED
      BY <2>1, <2>2, <2>3 DEF Places
  <1> QED
    BY <1>1, ArchivesAssumption

\* The page of a folder is a place.
LEMMA MdIsPlace ==
  ASSUME NEW d \in Folders
  PROVE  I!Md(d) \in Places /\ d[Len(d)] \in Names /\ I!Md(d) \in I!PagesFor(d)
  <1>1. d \in Seq(Names) /\ Len(d) \in Nat /\ Len(d) > 0
    BY LenProperties DEF Folders
  <1>2. \A i \in 1..Len(d) : d[i] \in Names
    BY <1>1, ElementOfSeq
  <1>3. SubSeq(d, 1, Len(d) - 1) \in Seq(Names)
    BY <1>1, <1>2, SubSeqProperties
  <1> QED
    BY <1>1, <1>2, <1>3 DEF I!Md, I!PagesFor, Places

LEMMA FoldersAre ==
  ASSUME archive \in Archives
  PROVE  I!FoldersOf(archive.files) \subseteq Folders
  <1>1. ASSUME NEW f \in archive.files, NEW d \in I!Prefixes(f.dir) PROVE d \in Folders
    BY FilesArePlaces, PrefixIs DEF Folders
  <1> QED
    BY <1>1 DEF I!FoldersOf


\* A page of the map is of one file or of none, and has a key of its own.  In
\* a generic archive the key is the file, and only folders without one are empty.
Entered ==
  /\ \A p, q \in run.map : p.key = q.key => p = q
  /\ \A p, q \in run.map : p.file = q.file => p = q \/ p.file = Nil
  /\ \A p \in run.map : p.file \in archive.files \cup {Nil}
  /\ run.pc \in {"folders", "insert"} => \A f \in archive.files : \E p \in run.map : p.file = f
  /\ archive.source = "generic" =>
        \A p \in run.map : IF p.file = Nil THEN p.key \notin archive.files ELSE p.key = p.file

Inserted ==
  /\ run.done \subseteq I!Keys(run.map) /\ I!ParentsFirst
  /\ run.pc \in {"read", "unpack", "folders"} => run.done = {}

\* The rows in the table are of this run, once it has committed, and of runs before.
Earlier ==
  \A t \in table :
    t.run \in Nat /\ t.run >= job.stalls /\ (run.pc \in Before /\ job.at # "over" => t.run > job.stalls)

Complete(imported) ==
  /\ \A f \in archive.files : Cardinality({r \in imported : r.file = f}) = 1
  /\ archive.source = "generic" =>
        \A r \in imported : r.content = r.file /\ (r.parent = Nil \/ \E t \in imported : t.key = r.parent)
Whole(n) == Complete({t.row : t \in {u \in table : u.run = n}})

Committed == run.pc = "mark" /\ status # Nil => Whole(job.stalls)
Successful == status = "success" => \E n \in 0..Stalls : Whole(n)

ImportIInv == ImportTypes /\ Entered /\ Inserted /\ Earlier /\ Committed /\ Successful

Resting == [pc |-> "idle", map |-> {}, todo |-> {}, done |-> {}]

\* A run that has nothing in memory has nothing to show.
LEMMA EmptyRun ==
  ASSUME run.map = {}, run.done = {}, run.pc \notin {"folders", "insert", "mark"}
  PROVE  Entered /\ Inserted /\ Committed
  BY DEF Entered, Inserted, Committed, I!ParentsFirst

\* What is imported stays so, while no row comes or goes.
LEMMA WholeStays ==
  ASSUME NEW n, Whole(n), table' = table, archive' = archive
  PROVE  Whole(n)'
  BY DEF Whole, Complete

LEMMA PlacesStay ==
  ASSUME archive' = archive
  PROVE  Names' = Names /\ Places' = Places /\ Entries' = Entries /\ Folders' = Folders
  BY DEF Names, Places, Entries, Folders

LEMMA ImportInit == I!Init => ImportIInv
  <1> SUFFICES ASSUME I!Init PROVE ImportIInv
    OBVIOUS
  <1>1. /\ run.pc = "idle" /\ run.map = {} /\ run.done = {} /\ run.todo = {} /\ run = Resting
        /\ archive \in Archives /\ importReq = "start" /\ status = Nil /\ table = {}
        /\ job = [at |-> "none", stalls |-> Stalls]
    BY DEF I!Init, I!Idle, Resting
  <1>2. ImportTypes
    BY <1>1, BoundsAssumption DEF ImportTypes, Before, Resting
  <1>3. Earlier
    BY <1>1 DEF Earlier
  <1>4. Successful
    BY <1>1, StatusAssumption DEF Successful
  <1> QED
    BY <1>1, <1>2, <1>3, <1>4, EmptyRun DEF ImportIInv

\* The request and the deletion of the space leave the run alone.
LEMMA ImportRequest ==
  ASSUME ImportIInv, I!RequestStep
  PROVE  ImportIInv'
  <1>1. /\ UNCHANGED <<archive, run, table>> /\ job.at = "none"
        /\ importReq' \in {"stored", "listed", "queued"}
        /\ job' = job \/ (importReq' = "queued" /\ job' = [job EXCEPT !.at = "waiting"])
        /\ status' = status \/ status' = "processing"
    BY DEF I!RequestStep, I!ImportZip, ImportIInv, ImportTypes
  <1>2. run.pc = "idle" /\ job'.stalls = job.stalls /\ job'.at \in {"none", "waiting"}
        /\ job' \in [at : {"none", "waiting", "active", "over"}, stalls : 0..Stalls]
        /\ (importReq' = "queued" \/ job'.at = "none")
    <2>1. importReq' = "queued" \/ job' = job
      BY <1>1
    <2> QED
      BY <1>1, <2>1 DEF ImportIInv, ImportTypes
  <1>3. ImportTypes'
    BY <1>1, <1>2, PlacesStay DEF ImportIInv, ImportTypes
  <1>4. Entered' /\ Inserted'
    BY <1>1 DEF ImportIInv, Entered, Inserted, I!ParentsFirst, I!Keys
  <1>5. Earlier' /\ Committed'
    BY <1>1, <1>2 DEF ImportIInv, Earlier, Committed
  <1>6. Successful'
    BY <1>1, WholeStays DEF ImportIInv, Successful
  <1> QED
    BY <1>3, <1>4, <1>5, <1>6 DEF ImportIInv

LEMMA ImportSpaceGoes ==
  ASSUME ImportIInv, I!DeleteSpace
  PROVE  ImportIInv'
  <1>1. status' = Nil /\ table' = {} /\ UNCHANGED <<archive, importReq, job, run>>
    BY DEF I!DeleteSpace
  <1>2. ImportTypes'
    BY <1>1, PlacesStay DEF ImportIInv, ImportTypes
  <1>3. Entered' /\ Inserted'
    BY <1>1 DEF ImportIInv, Entered, Inserted, I!ParentsFirst, I!Keys
  <1>4. Earlier' /\ Committed' /\ Successful'
    BY <1>1, StatusAssumption DEF Earlier, Committed, Successful
  <1> QED
    BY <1>2, <1>3, <1>4 DEF ImportIInv

LEMMA ImportTake ==
  ASSUME ImportIInv, I!Take
  PROVE  ImportIInv'
  <1> DEFINE h == [I!Idle EXCEPT !.pc = "read"]
             j == [job EXCEPT !.at = "active"]
  <1>1. job.at = "waiting" /\ job' = j /\ run' = h /\ UNCHANGED <<archive, importReq, status, table>>
    BY DEF I!Take, I!outside
  <1>2. h.pc = "read" /\ h.map = {} /\ h.todo = {} /\ h.done = {}
        /\ h = [pc |-> "read", map |-> {}, todo |-> {}, done |-> {}]
    BY DEF I!Idle
  <1>3. j.at = "active" /\ j.stalls = job.stalls
        /\ j \in [at : {"none", "waiting", "active", "over"}, stalls : 0..Stalls]
    BY DEF ImportIInv, ImportTypes
  <1> HIDE DEF h, j
  <1>4. run.pc = "idle" /\ importReq = "queued"
    BY <1>1 DEF ImportIInv, ImportTypes
  <1>5. ImportTypes'
    BY <1>1, <1>2, <1>3, <1>4, PlacesStay DEF ImportIInv, ImportTypes, Before
  <1>6. Earlier'
    BY <1>1, <1>3, <1>4 DEF ImportIInv, Earlier, Before
  <1>7. Successful'
    BY <1>1, WholeStays DEF ImportIInv, Successful
  <1>8. (Entered /\ Inserted /\ Committed)'
    BY <1>1, <1>2 DEF Entered, Inserted, Committed, I!ParentsFirst
  <1> QED
    BY <1>5, <1>6, <1>7, <1>8 DEF ImportIInv

\* A job is over, or waits for another process; or its last attempt has failed.
LEMMA ImportRests ==
  ASSUME ImportIInv, job.at = "active",
         NEW pc \in {"idle", "failed"}, run' = [pc |-> pc, map |-> {}, todo |-> {}, done |-> {}],
         UNCHANGED <<archive, importReq, table>>,
         status' = status \/ status' = "failed",
         job' \in [at : {"none", "waiting", "active", "over"}, stalls : 0..Stalls],
         IF pc = "failed" THEN job' = job
         ELSE \/ job'.at = "over" /\ job'.stalls = job.stalls
              \/ job'.at = "waiting" /\ job'.stalls < job.stalls
  PROVE  ImportIInv'
  <1>1. run'.pc = pc /\ run'.map = {} /\ run'.todo = {} /\ run'.done = {}
    OBVIOUS
  <1>2. importReq = "queued"
    BY DEF ImportIInv, ImportTypes
  <1>3. ImportTypes'
    BY <1>2, PlacesStay DEF ImportIInv, ImportTypes, Before
  <1>4. Earlier'
    <2>1. job.stalls \in Nat /\ job'.stalls \in Nat
      BY BoundsAssumption DEF ImportIInv, ImportTypes
    <2> QED
      BY <1>1, <2>1 DEF ImportIInv, Earlier, Before
  <1>5. Successful'
    BY WholeStays DEF ImportIInv, Successful
  <1>6. (Entered /\ Inserted /\ Committed)'
    BY <1>1 DEF Entered, Inserted, Committed, I!ParentsFirst
  <1> QED
    BY <1>3, <1>4, <1>5, <1>6 DEF ImportIInv

LEMMA ImportEnds ==
  ASSUME ImportIInv, I!OnCompleted \/ I!HandleFailedJob \/ I!Stop
  PROVE  ImportIInv'
  <1>1. job.at = "active" /\ UNCHANGED <<archive, importReq, table>>
        /\ (status' = status \/ status' = "failed")
    BY DEF I!OnCompleted, I!HandleFailedJob, I!Stop, I!At, I!outside, I!SetStatus
  <1>2. CASE I!Finish
    <2> DEFINE j == [job EXCEPT !.at = "over"]
    <2>1. job' = j /\ run' = [pc |-> "idle", map |-> {}, todo |-> {}, done |-> {}]
      BY <1>2 DEF I!Finish, I!Idle
    <2>2. /\ j.at = "over" /\ j.stalls = job.stalls
          /\ j \in [at : {"none", "waiting", "active", "over"}, stalls : 0..Stalls]
      BY DEF ImportIInv, ImportTypes
    <2> HIDE DEF j
    <2> QED
      BY <1>1, <2>1, <2>2, ImportRests
  <1>3. CASE job.stalls > 0 /\ job' = [at |-> "waiting", stalls |-> job.stalls - 1] /\ run' = I!Idle
    <2>1. job.stalls \in 1..Stalls
      BY <1>3, BoundsAssumption DEF ImportIInv, ImportTypes
    <2>2. /\ job'.at = "waiting" /\ job'.stalls < job.stalls
          /\ job' \in [at : {"none", "waiting", "active", "over"}, stalls : 0..Stalls]
      BY <1>3, <2>1, BoundsAssumption
    <2>3. run' = [pc |-> "idle", map |-> {}, todo |-> {}, done |-> {}]
      BY <1>3 DEF I!Idle
    <2> QED
      BY <1>1, <2>2, <2>3, ImportRests
  <1>4. CASE job' = job /\ run' = [I!Idle EXCEPT !.pc = "failed"]
    <2>1. run' = [pc |-> "failed", map |-> {}, todo |-> {}, done |-> {}]
      BY <1>4 DEF I!Idle
    <2> QED
      BY <1>1, <1>4, <2>1, ImportRests DEF ImportIInv, ImportTypes
  <1> QED
    BY <1>2, <1>3, <1>4 DEF I!OnCompleted, I!HandleFailedJob, I!Stop


\* The job goes on, and what it holds in memory stays.
LEMMA ImportGoto ==
  ASSUME ImportIInv, job.at = "active", UNCHANGED <<archive, importReq, job, table>>,
         NEW c \in {"unpack", "insert", "drop", "returned", "thrown", "completed", "failed"}, I!Goto(c),
         c = "unpack" => run.pc = "read", c = "insert" => run.pc = "folders",
         status' = status \/ (run.pc = "mark" /\ status # Nil /\ status' = "success")
  PROVE  ImportIInv'
  <1> DEFINE h == [run EXCEPT !.pc = c]
  <1>1. run' = h
    BY DEF I!Goto
  <1>2. /\ h.pc = c /\ h.map = run.map /\ h.todo = run.todo /\ h.done = run.done
        /\ h \in [pc : Before \cup {"mark", "drop", "returned", "thrown", "completed", "failed"},
                  map : SUBSET Entries, todo : SUBSET Folders, done : SUBSET Places]
    BY DEF ImportIInv, ImportTypes, Before
  <1> HIDE DEF h
  <1>3. ImportTypes'
    BY <1>1, <1>2, PlacesStay DEF ImportIInv, ImportTypes
  <1>4. Entered'
    BY <1>1, <1>2 DEF ImportIInv, Entered
  <1>5. Inserted'
    BY <1>1, <1>2 DEF ImportIInv, Inserted, I!ParentsFirst, I!Keys
  <1>6. Earlier'
    BY <1>1, <1>2 DEF ImportIInv, Earlier, Before
  <1>7. Committed'
    BY <1>1, <1>2 DEF Committed
  <1>8. Successful'
    <2>1. job.stalls \in 0..Stalls
      BY DEF ImportIInv, ImportTypes
    <2> QED
      BY <2>1, WholeStays DEF ImportIInv, Successful, Committed
  <1> QED
    BY <1>3, <1>4, <1>5, <1>6, <1>7, <1>8 DEF ImportIInv

LEMMA ImportGoesOn ==
  ASSUME ImportIInv,
         \/ I!ReadTask \/ I!UnpackFails \/ I!FoldersDone \/ I!Rollback
         \/ I!MarkSuccess \/ I!DropZip \/ I!Settle
  PROVE  ImportIInv'
  <1>1. job.at = "active" /\ UNCHANGED <<archive, importReq, job, table>>
    BY DEF I!ReadTask, I!UnpackFails, I!FoldersDone, I!Rollback, I!MarkSuccess, I!DropZip, I!Settle,
           I!At, I!Quiet, I!outside
  <1>2. status' = status \/ (run.pc = "mark" /\ status # Nil /\ status' = "success" /\ I!Goto("drop"))
    BY DEF I!ReadTask, I!UnpackFails, I!FoldersDone, I!Rollback, I!MarkSuccess, I!DropZip, I!Settle,
           I!At, I!Quiet, I!SetStatus
  <1>3. \/ run.pc = "read" /\ I!Goto("unpack")
        \/ run.pc = "folders" /\ I!Goto("insert")
        \/ I!Goto("returned") \/ I!Goto("thrown")
        \/ I!Goto("drop") \/ I!Goto("completed") \/ I!Goto("failed")
    BY DEF I!ReadTask, I!UnpackFails, I!FoldersDone, I!Rollback, I!MarkSuccess, I!DropZip, I!Settle, I!At
  <1> QED
    BY <1>1, <1>2, <1>3, ImportGoto

\* A step of the job in memory: what it has to keep.
LEMMA ImportInMemory ==
  ASSUME ImportIInv, I!Quiet, job.at = "active",
         run' \in [pc : {"folders", "insert"}, map : SUBSET Entries, todo : SUBSET Folders, done : SUBSET Places],
         run.pc \in Before, Entered', Inserted'
  PROVE  ImportIInv'
  <1>1. UNCHANGED <<archive, importReq, status, job, table>>
    BY DEF I!Quiet, I!outside
  <1>2. ImportTypes'
    BY <1>1, PlacesStay DEF ImportIInv, ImportTypes, Before
  <1>3. Earlier' /\ Committed'
    BY <1>1 DEF ImportIInv, Earlier, Committed, Before
  <1>4. Successful'
    BY <1>1, WholeStays DEF ImportIInv, Successful
  <1> QED
    BY <1>2, <1>3, <1>4 DEF ImportIInv

LEMMA ImportUnpack ==
  ASSUME ImportIInv, I!Unpack
  PROVE  ImportIInv'
  <1> DEFINE entry(f) == [key |-> f, file |-> f, name |-> f.base.name]
             map == {entry(f) : f \in archive.files}
             todo == I!FoldersOf(archive.files) \ I!SkipRootFolder(archive.files)
             h == [run EXCEPT !.pc = "folders", !.map = map, !.todo = todo]
  <1>1. job.at = "active" /\ run.pc = "unpack" /\ run' = h /\ I!Quiet /\ archive' = archive
    BY DEF I!Unpack, I!At, I!Quiet, I!outside
  <1>2. archive \in Archives /\ run.done = {}
    BY <1>1 DEF ImportIInv, ImportTypes, Inserted
  <1>3. todo \in SUBSET Folders
    BY <1>2, FoldersAre
  <1>4. \A f \in archive.files : entry(f) \in Entries /\ entry(f).key = f /\ entry(f).file = f
    BY <1>2, FilesArePlaces DEF Entries
  <1> HIDE DEF todo, entry
  <1>5. /\ map \in SUBSET Entries
        /\ \A p \in map : p.key = p.file /\ p.file \in archive.files /\ p = entry(p.file)
        /\ \A f \in archive.files : \E p \in map : p.file = f
    BY <1>4
  <1> HIDE DEF map
  <1>6. /\ h.pc = "folders" /\ h.map = map /\ h.todo = todo /\ h.done = {}
        /\ h \in [pc : {"folders", "insert"}, map : SUBSET Entries, todo : SUBSET Folders, done : SUBSET Places]
    BY <1>2, <1>3, <1>5 DEF ImportIInv, ImportTypes
  <1> HIDE DEF h
  <1>7. Entered'
    <2>1. Nil \notin archive.files
      BY <1>2, FilesArePlaces
    <2> QED
      BY <1>1, <1>5, <1>6, <2>1 DEF Entered
  <1>8. Inserted'
    BY <1>1, <1>6 DEF Inserted, I!ParentsFirst
  <1> QED
    BY <1>1, <1>6, <1>7, <1>8, ImportInMemory DEF Before

\* A folder without a page takes over the page of a file, or gets an empty one.
LEMMA ImportMakeFolder ==
  ASSUME ImportIInv, NEW d \in run.todo, I!MakeFolder(d)
  PROVE  ImportIInv'
  <1> DEFINE todo == run.todo \ {d}
             rest == [run EXCEPT !.todo = todo]
             matches == IF archive.source = "notion" THEN I!FirstMatches(run.map, d) ELSE {}
             none == [key |-> I!Md(d), file |-> Nil, name |-> d[Len(d)].name]
  <1>1. job.at = "active" /\ run.pc = "folders" /\ I!Quiet /\ archive' = archive
    BY DEF I!MakeFolder, I!At, I!Quiet, I!outside
  <1>2. /\ archive \in Archives /\ run.map \in SUBSET Entries /\ d \in Folders /\ todo \in SUBSET Folders
        /\ run.done = {}
    BY <1>1 DEF ImportIInv, ImportTypes, Inserted
  <1>3. /\ rest.pc = "folders" /\ rest.map = run.map /\ rest.todo = todo /\ rest.done = {}
        /\ rest \in [pc : {"folders", "insert"}, map : SUBSET Entries, todo : SUBSET Folders, done : SUBSET Places]
    BY <1>1, <1>2 DEF ImportIInv, ImportTypes
  <1>4. matches \subseteq run.map /\ (matches # {} => archive.source = "notion")
    BY DEF I!FirstMatches, I!Matches
  <1>5. \/ run' = rest
        \/ /\ I!PagesFor(d) \cap I!Keys(run.map) = {}
           /\ \E p \in matches :
                run' = [rest EXCEPT !.map = (run.map \ {p}) \cup {[p EXCEPT !.key = I!Md(d)]}]
        \/ /\ I!PagesFor(d) \cap I!Keys(run.map) = {}
           /\ run' = [rest EXCEPT !.map = run.map \cup {none}]
    BY <1>3 DEF I!MakeFolder
  <1> HIDE DEF rest, todo, matches
  <1>6. I!PagesFor(d) \cap I!Keys(run.map) = {} => \A p \in run.map : p.key # I!Md(d)
    BY <1>2, MdIsPlace DEF I!Keys
  <1>7. CASE run' = rest
    <2>1. Entered'
      BY <1>1, <1>3, <1>7 DEF ImportIInv, Entered
    <2>2. Inserted'
      BY <1>3, <1>7 DEF Inserted, I!ParentsFirst
    <2> QED
      BY <1>1, <1>3, <1>7, <2>1, <2>2, ImportInMemory DEF Before
  <1>8. ASSUME \A p \in run.map : p.key # I!Md(d), NEW p \in matches,
               run' = [rest EXCEPT !.map = (run.map \ {p}) \cup {[p EXCEPT !.key = I!Md(d)]}]
        PROVE  ImportIInv'
    <2> DEFINE n == [p EXCEPT !.key = I!Md(d)]
               map == (run.map \ {p}) \cup {n}
    <2>1. p \in run.map /\ archive.source = "notion"
      BY <1>4
    <2>2. n \in Entries /\ n.key = I!Md(d) /\ n.file = p.file
      BY <1>2, <2>1, MdIsPlace DEF Entries
    <2> HIDE DEF n
    <2>3. map \in SUBSET Entries
      BY <1>2, <2>2
    <2>4. /\ run'.pc = "folders" /\ run'.map = map /\ run'.done = {}
          /\ run' \in [pc : {"folders", "insert"}, map : SUBSET Entries, todo : SUBSET Folders, done : SUBSET Places]
      BY <1>3, <1>8, <2>3 DEF n
    <2>5. Entered'
      BY <1>1, <1>8, <2>1, <2>2, <2>4 DEF ImportIInv, Entered
    <2>6. Inserted'
      BY <2>4 DEF Inserted, I!ParentsFirst
    <2> QED
      BY <1>1, <2>4, <2>5, <2>6, ImportInMemory DEF Before
  <1>9. ASSUME \A p \in run.map : p.key # I!Md(d), run' = [rest EXCEPT !.map = run.map \cup {none}]
        PROVE  ImportIInv'
    <2> DEFINE map == run.map \cup {none}
    <2>1. none \in Entries /\ none.key = I!Md(d) /\ none.file = Nil
      BY <1>2, MdIsPlace DEF Entries
    <2> HIDE DEF none
    <2>2. map \in SUBSET Entries
      BY <1>2, <2>1
    <2>3. /\ run'.pc = "folders" /\ run'.map = map /\ run'.done = {}
          /\ run' \in [pc : {"folders", "insert"}, map : SUBSET Entries, todo : SUBSET Folders, done : SUBSET Places]
      BY <1>3, <1>9, <2>2
    <2>4. archive.source = "generic" => I!Md(d) \notin archive.files
      <3>1. \A f \in archive.files : f # Nil /\ \E p \in run.map : p.file = f
        BY <1>1, <1>2, FilesArePlaces DEF ImportIInv, Entered
      <3> QED
        BY <1>9, <3>1 DEF ImportIInv, Entered
    <2>5. Entered'
      BY <1>1, <1>9, <2>1, <2>3, <2>4 DEF ImportIInv, Entered
    <2>6. Inserted'
      BY <2>3 DEF Inserted, I!ParentsFirst
    <2> QED
      BY <1>1, <2>3, <2>5, <2>6, ImportInMemory DEF Before
  <1> QED
    BY <1>5, <1>6, <1>7, <1>8, <1>9

\* A page is inserted when all with a lower level are in, its parent among them.
LEMMA ImportInsertPage ==
  ASSUME ImportIInv, NEW p \in run.map, I!InsertPage(p)
  PROVE  ImportIInv'
  <1> DEFINE keys == I!Keys(run.map)
             done == run.done \cup {p.key}
             h == [run EXCEPT !.done = done]
             q == I!ParentKey(keys, p.key)
  <1>1. /\ job.at = "active" /\ run.pc = "insert" /\ I!Quiet /\ archive' = archive
        /\ p.key \notin run.done /\ run' = h
        /\ \A k \in keys \ run.done : I!PageLevel(keys, p.key) <= I!PageLevel(keys, k)
    BY DEF I!InsertPage, I!At, I!Quiet, I!outside, ImportIInv, ImportTypes
  <1>2. /\ run.map \in SUBSET Entries /\ run.todo \in SUBSET Folders /\ run.done \in SUBSET Places
        /\ run.done \subseteq keys /\ p.key \in keys /\ p.key \in Places
    BY DEF ImportIInv, ImportTypes, Inserted, Entries, I!Keys
  <1>3. /\ h.pc = "insert" /\ h.map = run.map /\ h.done = done
        /\ h \in [pc : {"folders", "insert"}, map : SUBSET Entries, todo : SUBSET Folders, done : SUBSET Places]
    BY <1>1, <1>2 DEF ImportIInv, ImportTypes
  <1> HIDE DEF h
  <1>4. q \in run.done \cup {Nil}
    <2> SUFFICES ASSUME q # Nil, q \notin run.done PROVE FALSE
      OBVIOUS
    <2>1. p.key.dir \in Seq(Names)
      BY <1>2 DEF Places
    <2> HIDE DEF keys
    <2>2. /\ q \in keys
          /\ I!PageLevel(keys, q) \in Nat /\ I!PageLevel(keys, p.key) \in Nat
          /\ I!PageLevel(keys, q) < I!PageLevel(keys, p.key)
      BY <2>1, ParentBefore
    <2> HIDE DEF q
    <2>3. I!PageLevel(keys, p.key) <= I!PageLevel(keys, q)
      BY <1>1, <2>2
    <2> QED
      BY <2>2, <2>3
  <1>5. I!Keys(run.map)' = keys
    BY <1>1, <1>3 DEF I!Keys
  <1>6. Inserted'
    <2>1. \A k \in run.done : I!ParentKey(keys, k) \in run.done \cup {Nil}
      BY DEF ImportIInv, Inserted, I!ParentsFirst
    <2>2. \A k \in done : I!ParentKey(keys, k) \in done \cup {Nil}
      BY <1>4, <2>1
    <2>3. I!ParentsFirst'
      BY <1>1, <1>3, <2>2 DEF I!ParentsFirst, I!Keys
    <2> QED
      BY <1>1, <1>2, <1>3, <1>5, <2>3 DEF Inserted
  <1>7. Entered'
    BY <1>1, <1>3 DEF ImportIInv, Entered
  <1> QED
    BY <1>1, <1>3, <1>6, <1>7, ImportInMemory DEF Before


\* The rows that a run commits are the whole import.
LEMMA RowsAreComplete ==
  ASSUME archive \in Archives, run.map \in SUBSET Entries, run.pc = "insert", Entered
  PROVE  Complete({I!Row(p) : p \in run.map})
  <1> DEFINE imported == {I!Row(p) : p \in run.map}
             keys == I!Keys(run.map)
  <1>1. \A p \in run.map :
          /\ I!Row(p) \in imported /\ I!Row(p).file = p.file /\ I!Row(p).key = p.key
          /\ I!Row(p).content = IF p.key \in archive.files THEN p.key ELSE Nil
          /\ I!Row(p).parent = I!ParentKey(keys, p.key)
    BY DEF I!Row
  <1>2. \A r \in imported : \E p \in run.map : r = I!Row(p)
    OBVIOUS
  <1> HIDE DEF imported
  <1>3. ASSUME NEW f \in archive.files PROVE Cardinality({r \in imported : r.file = f}) = 1
    <2>1. PICK p \in run.map : p.file = f
      BY DEF Entered
    <2>2. f # Nil
      BY FilesArePlaces
    <2>3. \A q \in run.map : q.file = f => q = p
      BY <2>1, <2>2 DEF Entered
    <2>4. {r \in imported : r.file = f} = {I!Row(p)}
      BY <1>1, <1>2, <2>1, <2>3
    <2> QED
      BY <2>4, FS_Singleton
  <1>4. ASSUME archive.source = "generic", NEW p \in run.map
        PROVE  /\ I!Row(p).content = I!Row(p).file
               /\ I!Row(p).parent = Nil \/ \E t \in imported : t.key = I!Row(p).parent
    <2>1. I!Row(p).content = I!Row(p).file
      BY <1>1, <1>4 DEF Entered
    <2>2. p.key.dir \in Seq(Names)
      BY DEF Entries, Places
    <2>3. I!ParentKey(keys, p.key) # Nil => I!ParentKey(keys, p.key) \in keys
      <3> HIDE DEF keys
      <3> QED
        BY <2>2, ParentBefore
    <2>4. \A k \in keys : \E t \in imported : t.key = k
      BY <1>1 DEF I!Keys
    <2> HIDE DEF keys
    <2> QED
      BY <1>1, <2>1, <2>3, <2>4
  <1>5. Complete(imported)
    BY <1>2, <1>3, <1>4 DEF Complete
  <1> QED
    BY <1>5 DEF imported

LEMMA ImportCommit ==
  ASSUME ImportIInv, I!Commit
  PROVE  ImportIInv'
  <1> DEFINE entry(p) == [run |-> job.stalls, row |-> I!Row(p)]
             new == {entry(p) : p \in run.map}
             imported == {I!Row(p) : p \in run.map}
             h == [run EXCEPT !.pc = "mark"]
  <1>1. /\ job.at = "active" /\ run.pc = "insert" /\ run' = h /\ table' = table \cup new
        /\ UNCHANGED <<archive, importReq, status, job>>
    BY DEF I!Commit, I!At, I!Goto, I!outside
  <1>2. /\ archive \in Archives /\ run.map \in SUBSET Entries /\ job.stalls \in 0..Stalls /\ job.stalls \in Nat
    BY BoundsAssumption DEF ImportIInv, ImportTypes
  <1>3. /\ h.pc = "mark" /\ h.map = run.map /\ h.done = run.done
        /\ h \in [pc : Before \cup {"mark", "drop", "returned", "thrown", "completed", "failed"},
                  map : SUBSET Entries, todo : SUBSET Folders, done : SUBSET Places]
    BY DEF ImportIInv, ImportTypes, Before
  <1> HIDE DEF h
  <1>4. \A t \in table : t.run \in Nat /\ t.run > job.stalls
    BY <1>1 DEF ImportIInv, Earlier, Before
  <1>5. /\ \A t \in new : t.run = job.stalls /\ t.row \in imported
        /\ \A r \in imported : \E t \in new : t.row = r
    <2>1. \A p \in run.map : /\ entry(p) \in new /\ I!Row(p) \in imported
                            /\ entry(p).run = job.stalls /\ entry(p).row = I!Row(p)
      OBVIOUS
    <2>2. /\ \A t \in new : \E p \in run.map : t = entry(p)
          /\ \A r \in imported : \E p \in run.map : r = I!Row(p)
      OBVIOUS
    <2> HIDE DEF entry, new, imported
    <2> QED
      BY <2>1, <2>2
  <1>6. Complete(imported)
    BY <1>1, <1>2, RowsAreComplete DEF ImportIInv
  <1> HIDE DEF new, imported
  <1>7. {t.row : t \in {u \in table' : u.run = job.stalls}} = imported
    <2>1. {u \in table' : u.run = job.stalls} = new
      BY <1>1, <1>2, <1>4, <1>5
    <2>2. {t.row : t \in new} = imported
      BY <1>5
    <2> QED
      BY <2>1, <2>2
  <1>8. Whole(job.stalls)'
    <2>1. PICK V : V = imported
      OBVIOUS
    <2>2. Complete(V)
      BY <1>6, <2>1
    <2>3. Complete(V)'
      BY <1>1, <2>2 DEF Complete
    <2>4. /\ job' = job
          /\ {t.row : t \in {u \in table' : u.run = job'.stalls}} = V
      BY <1>1, <1>7, <2>1
    <2> QED
      BY <2>3, <2>4 DEF Whole
  <1>9. ImportTypes'
    BY <1>1, <1>3, PlacesStay DEF ImportIInv, ImportTypes
  <1>10. Entered'
    BY <1>1, <1>3 DEF ImportIInv, Entered
  <1>11. Inserted'
    BY <1>1, <1>3 DEF ImportIInv, Inserted, I!ParentsFirst, I!Keys
  <1>12. Earlier'
    BY <1>1, <1>2, <1>3, <1>4, <1>5 DEF Earlier, Before
  <1>13. Committed' /\ Successful'
    BY <1>1, <1>2, <1>8 DEF Committed, Successful
  <1> QED
    BY <1>9, <1>10, <1>11, <1>12, <1>13 DEF ImportIInv

LEMMA ImportStep == ImportIInv /\ I!Next => ImportIInv'
  BY ImportRequest, ImportSpaceGoes, ImportTake, ImportEnds, ImportGoesOn, ImportUnpack, ImportMakeFolder,
     ImportInsertPage, ImportCommit
     DEF I!Next

LEMMA ImportInvariance == Spec => [](part = "import" => ImportIInv)
  <1>1. Init => (part = "import" => ImportIInv)
    BY ImportInit DEF Init
  <1>2. (part = "import" => ImportIInv) /\ [Next]_all => (part = "import" => ImportIInv)'
    <2>1. CASE UNCHANGED all
      <3>1. part' = part /\ UNCHANGED import
        BY <2>1 DEF all
      <3>2. ImportIInv => ImportIInv'
        <4> SUFFICES ASSUME ImportIInv PROVE ImportIInv'
          OBVIOUS
        <4>1. UNCHANGED <<archive, importReq, status, job, run, table>>
          BY <3>1 DEF import
        <4>2. ImportTypes'
          BY <4>1, PlacesStay DEF ImportIInv, ImportTypes
        <4>3. Entered' /\ Inserted'
          BY <4>1 DEF ImportIInv, Entered, Inserted, I!ParentsFirst, I!Keys
        <4>4. Earlier' /\ Committed' /\ Successful'
          BY <4>1, WholeStays DEF ImportIInv, Earlier, Committed, Successful
        <4> QED
          BY <4>2, <4>3, <4>4 DEF ImportIInv
      <3> QED
        BY <3>1, <3>2
    <2>2. CASE part = "import" /\ I!Next /\ part' = part
      BY <2>2, ImportStep
    <2> QED
      BY <2>1, <2>2 DEF Next
  <1> QED
    BY <1>1, <1>2, PTL DEF Spec

\* No page of any archive is inserted before its parent: the BFS of the levels
\* and the search for the nearest folder agree.
THEOREM ParentsComeFirst == Spec => []ParentsFirst
  <1>1. (part = "import" => ImportIInv) => ParentsFirst
    BY DEF ParentsFirst, ImportIInv, Inserted
  <1> QED
    BY <1>1, ImportInvariance, PTL

\* A task that is a success has one whole import in the table, whatever failed and
\* however often its job was taken up again.
THEOREM SuccessIsWhole == Spec => []SuccessMeansImported
  <1>1. (part = "import" => ImportIInv) => SuccessMeansImported
    BY DEF SuccessMeansImported, I!SuccessMeansImported, ImportIInv, Successful, Whole, Complete,
           I!Cardinality, Cardinality
  <1> QED
    BY <1>1, ImportInvariance, PTL

-------------------------------------------------------------------------------
(* The listings.                                                           *)

\* Where the database compares a cursor with what it sorts by, and a cursor says
\* of a row all that it is sorted by: times and positions are left out.
Precise == \A l \in Listings : \A i \in DOMAIN l : l[i].kind \notin {"updatedAt", "position"}

\* A sort key of a row, or of the row that a cursor was made from.
Key(k) == \A i \in DOMAIN fields : k[i] \in Int

Walk ==
  /\ fields \in Listings /\ listed \subseteq P!Rows /\ IsFiniteSet(listed) /\ stable \subseteq listed
  /\ items \in Seq(SUBSET P!Rows) /\ \A i \in DOMAIN items : Cardinality(items[i]) <= PerPage
  /\ cursor \in {Nil, End} \cup {P!GenerateCursor(row) : row \in P!Rows}
  /\ changes \in 0..RowChanges

\* What is still to come is on no page, and what is past on one.
Ahead(row) == cursor # End /\ P!ApplyCursor(row)
OnNone(row) == \A i \in DOMAIN items : row \notin items[i]
OnOne(row) == \E k \in DOMAIN items : \A i \in DOMAIN items : row \in items[i] <=> i = k
Progress ==
  /\ cursor = Nil => items = <<>>
  /\ \A row \in stable : IF Ahead(row) THEN OnNone(row) ELSE OnOne(row)

Precedes(k, l) == P!Lexical(P!Sorted, k, l)

LEMMA FieldsAre ==
  ASSUME fields \in Listings
  PROVE  Len(fields) \in Nat \ {0} /\ DOMAIN fields = 1..Len(fields)
  <1> DEFINE T == {fields[i] : i \in DOMAIN fields}
  <1>1. fields \in Seq(T) /\ fields # <<>>
    BY ListingsAssumption
  <1> HIDE DEF T
  <1>2. Len(fields) \in Nat /\ DOMAIN fields = 1..Len(fields)
    BY <1>1
  <1>3. Len(fields) # 0
    BY <1>1, EmptySeq
  <1> QED
    BY <1>2, <1>3

LEMMA RowsAreKeys ==
  ASSUME fields \in Listings, NEW row \in P!Rows
  PROVE  \A i \in DOMAIN fields : row[i] \in RowIds \cup RowValues
  <1> DEFINE m == Len(fields) - 1
             K == RowIds \cup RowValues
  <1>1. PICK w \in [1..m -> RowValues], id \in RowIds : row = Append(w, id)
    BY DEF P!Rows
  <1>2. m \in Nat /\ DOMAIN fields = 1..(m + 1)
    BY FieldsAre
  <1>3. w \in [1..m -> K] /\ id \in K
    OBVIOUS
  <1> HIDE DEF m, K
  <1>4. w \in Seq(K)
    BY <1>2, <1>3, SeqDef
  <1>5. Len(w) = m
    BY <1>2, <1>3, <1>4
  <1>6. row \in Seq(K) /\ Len(row) = m + 1
    BY <1>1, <1>3, <1>4, <1>5
  <1>7. \A i \in 1..Len(row) : row[i] \in K
    BY <1>6
  <1> QED
    BY <1>2, <1>6, <1>7 DEF K

LEMMA RowIsKey ==
  ASSUME fields \in Listings, NEW row \in P!Rows
  PROVE  Key(row)
  BY RowsAreKeys, RowsAssumption DEF Key

(* The order of a listing.                                                 *)

LEMMA Transitive ==
  ASSUME fields \in Listings, NEW k, NEW l, NEW n, Key(k), Key(l), Key(n),
         Precedes(k, l), Precedes(l, n)
  PROVE  Precedes(k, n)
  <1>1. PICK i \in DOMAIN fields : P!Sorted(fields[i], k[i], l[i]) /\ \A m \in 1..(i - 1) : k[m] = l[m]
    BY DEF Precedes, P!Lexical
  <1>2. PICK j \in DOMAIN fields : P!Sorted(fields[j], l[j], n[j]) /\ \A m \in 1..(j - 1) : l[m] = n[m]
    BY DEF Precedes, P!Lexical
  <1>3. i \in Nat /\ j \in Nat /\ DOMAIN fields = 1..Len(fields) /\ Len(fields) \in Nat
    BY FieldsAre
  <1>4. CASE i < j
    <2>1. P!Sorted(fields[i], k[i], n[i]) /\ \A m \in 1..(i - 1) : k[m] = n[m]
      BY <1>1, <1>2, <1>3, <1>4
    <2> QED
      BY <2>1 DEF Precedes, P!Lexical
  <1>5. CASE i = j
    <2>1. P!Sorted(fields[i], k[i], n[i])
      <3>1. k[i] \in Int /\ l[i] \in Int /\ n[i] \in Int
        BY DEF Key
      <3>2. P!Sorted(fields[i], k[i], l[i]) /\ P!Sorted(fields[i], l[i], n[i])
        BY <1>1, <1>2, <1>5
      <3>3. CASE fields[i].direction = "asc"
        <4>1. k[i] < l[i] /\ l[i] < n[i]
          BY <3>2, <3>3 DEF P!Sorted
        <4>2. k[i] < n[i]
          BY <3>1, <4>1
        <4> QED
          BY <3>3, <4>2 DEF P!Sorted
      <3>4. CASE fields[i].direction # "asc"
        <4>1. l[i] < k[i] /\ n[i] < l[i]
          BY <3>2, <3>4 DEF P!Sorted
        <4>2. n[i] < k[i]
          BY <3>1, <4>1
        <4> QED
          BY <3>4, <4>2 DEF P!Sorted
      <3> QED
        BY <3>3, <3>4
    <2>2. \A m \in 1..(i - 1) : k[m] = n[m]
      BY <1>1, <1>2, <1>5
    <2> QED
      BY <2>1, <2>2 DEF Precedes, P!Lexical
  <1>6. CASE j < i
    <2>1. P!Sorted(fields[j], k[j], n[j]) /\ \A m \in 1..(j - 1) : k[m] = n[m]
      BY <1>1, <1>2, <1>3, <1>6
    <2> QED
      BY <2>1 DEF Precedes, P!Lexical
  <1> QED
    BY <1>3, <1>4, <1>5, <1>6

LEMMA Irreflexive ==
  ASSUME NEW k, Key(k)
  PROVE  ~Precedes(k, k)
  BY DEF Precedes, P!Lexical, P!Sorted, Key

Compares(cur, row) == P!Lexical(P!Compared, cur, row)

\* For a precise listing a cursor stands where its row does.
LEMMA CursorIsRow ==
  ASSUME Precise, fields \in Listings, NEW k \in P!Rows, NEW l \in P!Rows
  PROVE  P!GenerateCursor(k) \notin {Nil, End} /\ (Compares(P!GenerateCursor(k), l) <=> Precedes(k, l))
  <1> DEFINE cur == P!GenerateCursor(k)
  <1>1. \A i \in DOMAIN fields : fields[i].kind \notin {"updatedAt", "position"}
    BY DEF Precise
  <1>2. cur = [i \in DOMAIN fields |-> k[i]]
    BY <1>1 DEF P!GenerateCursor, P!Encode
  <1>3. cur \in [DOMAIN fields -> RowIds \cup RowValues]
    BY <1>2, RowsAreKeys
  <1>4. cur \notin {Nil, End}
    BY <1>3, ListingsAssumption
  <1> HIDE DEF cur
  <1>5. ASSUME NEW i \in DOMAIN fields
        PROVE  P!Compared(fields[i], cur[i], l[i]) <=> P!Sorted(fields[i], k[i], l[i])
    BY <1>1, <1>2 DEF P!Compared
  <1>6. DOMAIN fields = 1..Len(fields) /\ Len(fields) \in Nat
    BY FieldsAre
  <1>7. ASSUME NEW i \in DOMAIN fields
        PROVE  (\A j \in 1..(i - 1) : cur[j] = l[j]) <=> (\A j \in 1..(i - 1) : k[j] = l[j])
    <2>1. \A j \in 1..(i - 1) : cur[j] = k[j]
      BY <1>2, <1>6
    <2> QED
      BY <2>1
  <1>8. Compares(cur, l) <=> Precedes(k, l)
    BY <1>5, <1>7 DEF Compares, P!Lexical, Precedes
  <1> QED
    BY <1>4, <1>8 DEF cur

(* The steps. *)

\* A page is what the query finds up to its last row, and the next page starts there.
IsPage(got, p) ==
  /\ p \subseteq got /\ IsFiniteSet(p) /\ Cardinality(p) <= PerPage
  /\ \A k \in p, l \in got \ p : Precedes(k, l)
  /\ \/ cursor' = End /\ p = got
     \/ \E last \in p : cursor' = P!GenerateCursor(last) /\ \A k \in p \ {last} : Precedes(k, last)

LEMMA NextPageIs ==
  ASSUME Walk, P!NextPage
  PROVE  /\ cursor # End /\ UNCHANGED <<fields, listed, stable, changes>>
         /\ \E p : IsPage({r \in listed : P!ApplyCursor(r)}, p) /\ items' = Append(items, p)
  <1> DEFINE found == {r \in listed : P!ApplyCursor(r)}
             n == IF Cardinality(found) > PerPage THEN PerPage + 1 ELSE Cardinality(found)
  <1>1. cursor # End /\ UNCHANGED <<fields, listed, stable, changes>>
    BY DEF P!NextPage
  <1>2. IsFiniteSet(found) /\ Cardinality(found) \in Nat
    BY FS_Subset, FS_CardinalityType DEF Walk
  <1>3. PICK got \in P!First(found, n) :
          LET more == Cardinality(got) > PerPage
          IN  \E p \in P!First(got, IF more THEN PerPage ELSE Cardinality(got)) :
                /\ items' = Append(items, p)
                /\ cursor' \in IF more THEN P!NextCursors(p) ELSE {End}
    BY DEF P!NextPage, P!Fetched, P!Cardinality, Cardinality
  <1> DEFINE m == IF Cardinality(got) > PerPage THEN PerPage ELSE Cardinality(got)
  <1>4. PICK p \in P!First(got, m) :
          /\ items' = Append(items, p)
          /\ cursor' \in IF Cardinality(got) > PerPage THEN P!NextCursors(p) ELSE {End}
    BY <1>3
  <1> HIDE DEF found
  <1>5. /\ got \subseteq found /\ Cardinality(got) = n
        /\ \A k \in got, l \in found \ got : Precedes(k, l)
    BY DEF P!First, Precedes, P!Cardinality, Cardinality
  <1>6. IsFiniteSet(got) /\ Cardinality(got) \in Nat
    BY <1>2, <1>5, FS_Subset, FS_CardinalityType
  <1>7. /\ p \subseteq got /\ Cardinality(p) = m
        /\ \A k \in p, l \in got \ p : Precedes(k, l)
    BY DEF P!First, Precedes, P!Cardinality, Cardinality
  <1>8. IsFiniteSet(p) /\ Cardinality(p) <= PerPage
    BY <1>6, <1>7, FS_Subset, RowsAssumption
  <1>9. p \subseteq found /\ \A k \in p, l \in found \ p : Precedes(k, l)
    BY <1>5, <1>7
  <1>10. \/ cursor' = End /\ p = found
         \/ \E last \in p : cursor' = P!GenerateCursor(last) /\ \A k \in p \ {last} : Precedes(k, last)
    <2>1. CASE Cardinality(got) > PerPage
      <3>1. cursor' \in P!NextCursors(p)
        BY <1>4, <2>1
      <3> QED
        BY <3>1 DEF P!NextCursors, Precedes
    <2>2. CASE ~(Cardinality(got) > PerPage)
      <3>1. cursor' = End /\ Cardinality(p) = Cardinality(got)
        BY <1>4, <1>7, <2>2
      <3>2. Cardinality(found) = Cardinality(got)
        BY <1>2, <1>5, <1>6, <2>2, RowsAssumption
      <3>3. p = got /\ got = found
        BY <1>2, <1>5, <1>6, <1>7, <3>1, <3>2, FS_Subset
      <3> QED
        BY <3>1, <3>3
    <2> QED
      BY <2>1, <2>2
  <1> QED
    BY <1>1, <1>4, <1>8, <1>9, <1>10 DEF IsPage, found

LEMMA WalkInit == P!Init => Walk /\ Progress
  <1> SUFFICES ASSUME P!Init PROVE Walk /\ Progress
    OBVIOUS
  <1>1. /\ fields \in Listings /\ stable = listed /\ cursor = Nil /\ items = <<>> /\ changes = RowChanges
        /\ \E ids \in SUBSET RowIds : \E values \in [ids -> [1..(Len(fields) - 1) -> RowValues]] :
              listed = {Append(values[id], id) : id \in ids}
    BY DEF P!Init
  <1>2. PICK ids \in SUBSET RowIds : \E values \in [ids -> [1..(Len(fields) - 1) -> RowValues]] :
              listed = {Append(values[id], id) : id \in ids}
    BY <1>1
  <1>3. PICK values \in [ids -> [1..(Len(fields) - 1) -> RowValues]] :
              listed = {Append(values[id], id) : id \in ids}
    BY <1>2
  <1>4. listed \subseteq P!Rows
    BY <1>3 DEF P!Rows
  <1>5. IsFiniteSet(listed)
    <2> DEFINE f == [id \in ids |-> Append(values[id], id)]
    <2>1. IsFiniteSet(ids)
      BY RowsAssumption, FS_Subset
    <2>2. f \in Surjection(ids, listed)
      BY <1>3 DEF Surjection
    <2> QED
      BY <2>1, <2>2, FS_Surjection
  <1>6. items \in Seq(SUBSET P!Rows) /\ DOMAIN items = {}
    BY <1>1
  <1>7. Walk
    BY <1>1, <1>4, <1>5, <1>6, RowsAssumption DEF Walk
  <1>8. Progress
    BY <1>1, <1>6, EndAssumption DEF Progress, Ahead, OnNone, P!ApplyCursor
  <1> QED
    BY <1>7, <1>8

\* What a longer walk shows.
LEMMA Extended ==
  ASSUME NEW T, items \in Seq(T), NEW p \in T, items' = Append(items, p)
  PROVE  /\ items' \in Seq(T) /\ Len(items) \in Nat /\ DOMAIN items = 1..Len(items)
         /\ DOMAIN items' = 1..(Len(items) + 1) /\ items'[Len(items) + 1] = p
         /\ \A i \in DOMAIN items : items'[i] = items[i]
  OBVIOUS

LEMMA WalkNextPage ==
  ASSUME Walk, P!NextPage
  PROVE  Walk'
  <1> DEFINE found == {r \in listed : P!ApplyCursor(r)}
  <1>1. /\ cursor # End /\ UNCHANGED <<fields, listed, stable, changes>>
        /\ \E q : IsPage(found, q) /\ items' = Append(items, q)
    BY NextPageIs
  <1>2. PICK q : IsPage(found, q) /\ items' = Append(items, q)
    BY <1>1
  <1>3. q \in SUBSET P!Rows /\ Cardinality(q) <= PerPage
    BY <1>2 DEF IsPage, Walk
  <1>4. items' \in Seq(SUBSET P!Rows) /\ \A i \in DOMAIN items' : Cardinality(items'[i]) <= PerPage
    <2> DEFINE T == SUBSET P!Rows
    <2>1. items \in Seq(T) /\ q \in T
      BY <1>3 DEF Walk
    <2> HIDE DEF T
    <2>2. /\ items' \in Seq(T) /\ Len(items) \in Nat /\ DOMAIN items = 1..Len(items)
          /\ DOMAIN items' = 1..(Len(items) + 1) /\ items'[Len(items) + 1] = q
          /\ \A i \in DOMAIN items : items'[i] = items[i]
      BY <1>2, <2>1, Extended
    <2>3. \A i \in DOMAIN items' : i \in DOMAIN items \/ i = Len(items) + 1
      BY <2>2
    <2> QED
      BY <1>3, <2>2, <2>3 DEF Walk, T
  <1>5. cursor' \in {Nil, End} \cup {P!GenerateCursor(row) : row \in P!Rows}
    BY <1>2, <1>3 DEF IsPage
  <1>6. P!Rows' = P!Rows /\ \A row : P!GenerateCursor(row)' = P!GenerateCursor(row)
    BY <1>1 DEF P!Rows, P!GenerateCursor
  <1> QED
    BY <1>1, <1>4, <1>5, <1>6 DEF Walk

LEMMA ProgressNextPage ==
  ASSUME Precise, Walk, Progress, P!NextPage
  PROVE  Progress'
  <1> DEFINE found == {r \in listed : P!ApplyCursor(r)}
  <1>1. /\ cursor # End /\ UNCHANGED <<fields, listed, stable, changes>>
        /\ \E q : IsPage(found, q) /\ items' = Append(items, q)
    BY NextPageIs
  <1>2. PICK q : IsPage(found, q) /\ items' = Append(items, q)
    BY <1>1
  <1>3. fields \in Listings /\ listed \subseteq P!Rows /\ stable \subseteq listed /\ q \subseteq listed
    BY <1>2 DEF IsPage, Walk
  <1>4. /\ Len(items) \in Nat /\ DOMAIN items = 1..Len(items)
        /\ DOMAIN items' = 1..(Len(items) + 1) /\ items'[Len(items) + 1] = q
        /\ \A i \in DOMAIN items : items'[i] = items[i]
    <2> DEFINE T == SUBSET P!Rows
    <2>1. items \in Seq(T) /\ q \in T
      BY <1>3 DEF Walk
    <2> HIDE DEF T
    <2> QED
      BY <1>2, <2>1, Extended
  <1>5. \A row \in stable : Ahead(row) <=> row \in found
    BY <1>1, <1>3 DEF Ahead
  <1>6. ASSUME NEW row \in stable, row \notin found PROVE OnOne(row)' /\ row \notin q
    <2>1. row \notin q /\ OnOne(row)
      BY <1>2, <1>5, <1>6 DEF IsPage, Progress
    <2>2. PICK k \in DOMAIN items : \A i \in DOMAIN items : row \in items[i] <=> i = k
      BY <2>1 DEF OnOne
    <2>3. k \in DOMAIN items' /\ \A i \in DOMAIN items' : row \in items'[i] <=> i = k
      BY <1>4, <2>1, <2>2
    <2> QED
      BY <2>1, <2>3 DEF OnOne
  <1>7. ASSUME NEW row \in stable, row \in q PROVE OnOne(row)'
    <2>1. OnNone(row)
      BY <1>2, <1>5, <1>7 DEF IsPage, Progress
    <2>2. Len(items) + 1 \in DOMAIN items' /\ \A i \in DOMAIN items' : row \in items'[i] <=> i = Len(items) + 1
      BY <1>4, <1>7, <2>1 DEF OnNone
    <2> QED
      BY <2>2 DEF OnOne
  <1>8. ASSUME NEW row \in stable, row \in found, row \notin q PROVE OnNone(row)'
    <2>1. OnNone(row)
      BY <1>5, <1>8 DEF Progress
    <2> QED
      BY <1>4, <1>8, <2>1 DEF OnNone
  <1>9. CASE cursor' = End /\ q = found
    <2>1. cursor' # Nil /\ \A row : ~Ahead(row)'
      BY <1>9, EndAssumption DEF Ahead
    <2>2. \A row \in stable : OnOne(row)'
      BY <1>6, <1>7, <1>9
    <2> HIDE DEF found
    <2> QED
      BY <1>1, <2>1, <2>2 DEF Progress
  <1>10. ASSUME NEW last \in q, cursor' = P!GenerateCursor(last), \A k \in q \ {last} : Precedes(k, last)
         PROVE  Progress'
    <2>1. last \in P!Rows /\ last \in found
      BY <1>2, <1>3, <1>10 DEF IsPage
    <2>2. cursor' \notin {Nil, End} /\ \A row \in P!Rows : Compares(cursor', row) <=> Precedes(last, row)
      BY <1>3, <1>10, <2>1, CursorIsRow
    <2>3. ASSUME NEW row \in P!Rows PROVE Ahead(row)' <=> Precedes(last, row)
      <3>1. P!ApplyCursor(row)' <=> Compares(cursor', row)
        BY <1>1, <2>2 DEF P!ApplyCursor, Compares, P!Lexical
      <3> QED
        BY <2>2, <3>1 DEF Ahead
    <2>4. ASSUME NEW row \in stable, row \notin found PROVE ~Precedes(last, row)
      <3>1. row \in P!Rows /\ row \in listed /\ cursor # Nil /\ ~P!ApplyCursor(row) /\ P!ApplyCursor(last)
        BY <1>3, <2>1, <2>4 DEF P!ApplyCursor
      <3>2. PICK k \in P!Rows : cursor = P!GenerateCursor(k)
        BY <1>1, <3>1 DEF Walk
      <3>3. ~Precedes(k, row) /\ Precedes(k, last)
        BY <1>3, <2>1, <3>1, <3>2, CursorIsRow DEF P!ApplyCursor, Compares
      <3> QED
        BY <1>3, <2>1, <3>1, <3>3, Transitive, RowIsKey
    <2>5. ASSUME NEW row \in stable, row \in q PROVE ~Precedes(last, row)
      <3>1. row \in P!Rows /\ Key(row) /\ Key(last)
        BY <1>3, <2>1, RowIsKey
      <3>2. row = last \/ Precedes(row, last)
        BY <1>10, <2>5
      <3> QED
        BY <1>3, <3>1, <3>2, Irreflexive, Transitive
    <2>6. ASSUME NEW row \in stable, row \in found, row \notin q PROVE Precedes(last, row)
      BY <1>2, <1>10, <2>6 DEF IsPage
    <2>7. ASSUME NEW row \in stable PROVE IF Ahead(row)' THEN OnNone(row)' ELSE OnOne(row)'
      <3>1. row \in P!Rows
        BY <1>3
      <3> HIDE DEF found
      <3>2. CASE row \notin found
        BY <1>6, <2>3, <2>4, <3>1, <3>2
      <3>3. CASE row \in found /\ row \in q
        BY <1>7, <2>3, <2>5, <3>1, <3>3
      <3>4. CASE row \in found /\ row \notin q
        BY <1>8, <2>3, <2>6, <3>1, <3>4
      <3> QED
        BY <3>2, <3>3, <3>4
    <2> HIDE DEF found
    <2> QED
      BY <1>1, <2>2, <2>7 DEF Progress
  <1> QED
    BY <1>2, <1>9, <1>10 DEF IsPage

LEMMA WalkChange ==
  ASSUME Walk, P!Change, listed' \subseteq P!Rows, IsFiniteSet(listed'), stable' \subseteq stable \cap listed'
  PROVE  Walk' /\ (Progress => Progress')
  <1>1. UNCHANGED <<fields, cursor, items>> /\ changes' \in 0..RowChanges /\ cursor # Nil
    BY RowsAssumption DEF P!Change, Walk
  <1>2. P!Rows' = P!Rows /\ \A row : P!GenerateCursor(row)' = P!GenerateCursor(row)
    BY <1>1 DEF P!Rows, P!GenerateCursor
  <1>3. Walk'
    BY <1>1, <1>2 DEF Walk
  <1>4. \A row \in stable' : (Ahead(row)' <=> Ahead(row)) /\ (OnNone(row)' <=> OnNone(row)) /\ (OnOne(row)' <=> OnOne(row))
    BY <1>1 DEF Ahead, OnNone, OnOne, P!ApplyCursor, P!Lexical
  <1>5. Progress => Progress'
    BY <1>1, <1>4 DEF Progress
  <1> QED
    BY <1>3, <1>5

LEMMA WalkStep ==
  ASSUME Walk, P!Next
  PROVE  Walk' /\ (Precise /\ Progress => Progress')
  <1>1. CASE P!NextPage
    BY <1>1, WalkNextPage, ProgressNextPage
  <1>2. ASSUME NEW row \in P!Rows, P!RowInserted(row) PROVE Walk' /\ (Progress => Progress')
    <2>1. IsFiniteSet(listed \cup {row})
      BY FS_AddElement DEF Walk
    <2> QED
      BY <1>2, <2>1, WalkChange DEF Walk, P!RowInserted
  <1>3. ASSUME NEW row \in listed, P!RowDeleted(row) PROVE Walk' /\ (Progress => Progress')
    <2>1. IsFiniteSet(listed \ {row})
      BY FS_RemoveElement DEF Walk
    <2> QED
      BY <1>3, <2>1, WalkChange DEF Walk, P!RowDeleted
  <1>4. ASSUME NEW row \in listed, NEW r \in P!Rows, P!RowUpdated(row, r) PROVE Walk' /\ (Progress => Progress')
    <2>1. IsFiniteSet((listed \ {row}) \cup {r})
      BY FS_AddElement, FS_RemoveElement DEF Walk
    <2> QED
      BY <1>4, <2>1, WalkChange DEF Walk, P!RowUpdated
  <1> QED
    BY <1>1, <1>2, <1>3, <1>4 DEF P!Next

LEMMA WalkStays ==
  ASSUME UNCHANGED paging
  PROVE  (Walk => Walk') /\ (Progress => Progress')
  <1>1. UNCHANGED <<fields, listed, stable, cursor, items, changes>>
    BY DEF paging
  <1>2. P!Rows' = P!Rows /\ \A row : P!GenerateCursor(row)' = P!GenerateCursor(row)
    BY <1>1 DEF P!Rows, P!GenerateCursor
  <1>3. Walk => Walk'
    BY <1>1, <1>2 DEF Walk
  <1>4. \A row : (Ahead(row)' <=> Ahead(row)) /\ (OnNone(row)' <=> OnNone(row)) /\ (OnOne(row)' <=> OnOne(row))
    BY <1>1 DEF Ahead, OnNone, OnOne, P!ApplyCursor, P!Lexical
  <1>5. Progress => Progress'
    BY <1>1, <1>4 DEF Progress
  <1> QED
    BY <1>3, <1>5

LEMMA WalkInvariance == Spec => [](part = "paging" => Walk)
  <1>1. Init => (part = "paging" => Walk)
    BY WalkInit DEF Init
  <1>2. (part = "paging" => Walk) /\ [Next]_all => (part = "paging" => Walk)'
    <2>1. CASE UNCHANGED all
      BY <2>1, WalkStays DEF all
    <2>2. CASE part = "paging" /\ P!Next /\ part' = part
      BY <2>2, WalkStep
    <2> QED
      BY <2>1, <2>2 DEF Next
  <1> QED
    BY <1>1, <1>2, PTL DEF Spec

\* A walk to the end lists every row that stays as it is exactly once, for pages of
\* any size and listings by any number of fields that a cursor says exactly,
\* whatever rows of equal fields there are and whatever changes between the pages.
THEOREM WalksListOnce ==
  ASSUME Precise
  PROVE  Spec => []ListedOnce
  <1>1. Init => (part = "paging" => Progress)
    BY WalkInit DEF Init
  <1>2. (part = "paging" => Walk) /\ (part = "paging" => Progress) /\ [Next]_all => (part = "paging" => Progress)'
    <2>1. CASE UNCHANGED all
      BY <2>1, WalkStays DEF all
    <2>2. CASE part = "paging" /\ P!Next /\ part' = part
      BY <2>2, WalkStep
    <2> QED
      BY <2>1, <2>2 DEF Next
  <1>3. (part = "paging" => Progress) => ListedOnce
    <2> SUFFICES ASSUME Progress, cursor = End, NEW row \in stable
                 PROVE  Cardinality({i \in DOMAIN items : row \in items[i]}) = 1
      BY DEF ListedOnce, P!ListedOnce, P!Cardinality, Cardinality
    <2>1. OnOne(row)
      BY DEF Progress, Ahead
    <2>2. PICK k \in DOMAIN items : \A i \in DOMAIN items : row \in items[i] <=> i = k
      BY <2>1 DEF OnOne
    <2>3. {i \in DOMAIN items : row \in items[i]} = {k}
      BY <2>2
    <2> QED
      BY <2>3, FS_Singleton
  <1> QED
    BY <1>1, <1>2, <1>3, WalkInvariance, PTL DEF Spec

-------------------------------------------------------------------------------
(* Types.  What the invariants above do not say of the other variables.     *)

PageTypes ==
  /\ parent \in [Page -> Page \cup {Nil}]
  /\ trash \subseteq Page /\ access \subseteq Page /\ off \subseteq Space /\ late \subseteq S!Shares

\* A step that drops shares, or none.
LEMMA DropTypes ==
  ASSUME PageTypes, NEW D, S!Drop(D)
  PROVE  late' \subseteq S!Shares'
  BY DEF PageTypes, S!Drop, S!Shares

LEMMA PageTypesStep ==
  ASSUME ShareIInv, PageTypes, S!Next
  PROVE  PageTypes'
  <1>0. \A row \in Row : row # Nil
    BY ShareAssumption DEF Row
  <1>1. ASSUME NEW p \in Page, NEW sub \in BOOLEAN, S!CreateStart(p, sub) PROVE PageTypes'
    BY <1>1 DEF S!CreateStart, S!pages, S!Shares, PageTypes
  <1>2. ASSUME NEW s \in Share, S!CreateInsert(s) PROVE PageTypes'
    BY <1>2 DEF S!CreateInsert, S!pages, S!Shares, PageTypes, ShareIInv
  <1>3. ASSUME NEW s \in Share, NEW sub \in BOOLEAN, S!UpdateShare(s, sub) PROVE PageTypes'
    <2> DEFINE row == [share[s] EXCEPT !.sub = sub]
    <2>1. /\ share' = [share EXCEPT ![s] = row] /\ share[s] \in Row /\ UNCHANGED <<parent, trash, access, off, late>>
      BY <1>3 DEF S!UpdateShare, S!Shares, S!pages, ShareIInv
    <2>2. row \in Row
      BY <2>1 DEF Row
    <2> HIDE DEF row
    <2>3. S!Shares \subseteq S!Shares'
      BY <1>0, <2>1, <2>2 DEF S!Shares, ShareIInv
    <2> QED
      BY <2>1, <2>3 DEF PageTypes
  <1>4. ASSUME NEW s \in Share, S!DeleteShare(s) PROVE PageTypes'
    BY <1>4, DropTypes DEF S!DeleteShare, S!pages, PageTypes
  <1>5. ASSUME NEW p \in Page, S!Trash(p) PROVE PageTypes'
    <2>1. S!LiveBelow(p) \subseteq Page
      BY DEF S!LiveBelow, S!Below
    <2> QED
      BY <1>5, <2>1, DropTypes DEF S!Trash, PageTypes
  <1>6. ASSUME NEW p \in Page, NEW q \in Space, S!MoveToSpace(p, q) PROVE PageTypes'
    <2> DEFINE ids == S!LiveBelow(p)
               row(s) == [share[s] EXCEPT !.space = q]
    <2>1. /\ share' = [s \in Share |-> IF s \in S!SharesOf(ids) THEN row(s) ELSE share[s]]
          /\ late' = late \ S!SharesOf(ids) /\ parent' = [parent EXCEPT ![p] = Nil]
          /\ access' = access \ ids /\ UNCHANGED <<trash, off>>
      BY <1>6 DEF S!MoveToSpace
    <2>2. \A s \in S!SharesOf(ids) : row(s) \in Row
      BY DEF S!SharesOf, S!Shares, ShareIInv, Row
    <2> HIDE DEF ids, row
    <2> QED
      BY <1>0, <2>1, <2>2 DEF PageTypes, S!Shares
  <1>7. ASSUME NEW p \in Page, S!Restore(p) \/ S!Restrict(p) \/ S!Unrestrict(p) PROVE PageTypes'
    <2>1. parent' \in [Page -> Page \cup {Nil}] /\ trash' \subseteq Page /\ access' \subseteq Page
      BY <1>7 DEF S!Restore, S!Restrict, S!Unrestrict, PageTypes
    <2> QED
      BY <1>7, <2>1 DEF S!Restore, S!Restrict, S!Unrestrict, PageTypes, S!Shares
  <1>8. ASSUME NEW p \in Page, NEW q \in Page \cup {Nil}, S!Move(p, q) PROVE PageTypes'
    BY <1>8 DEF S!Move, PageTypes, S!Shares
  <1>9. ASSUME NEW q \in Space, S!SwitchSharing(q) PROVE PageTypes'
    BY <1>9 DEF S!SwitchSharing, S!pages, PageTypes, S!Shares
  <1> QED
    BY <1>1, <1>2, <1>3, <1>4, <1>5, <1>6, <1>7, <1>8, <1>9 DEF S!Next

\* The queue of notifications: a job taken leaves its place, and comes back if it fails.
QueueTypes ==
  /\ left \in 0..NoteChanges
  /\ IsFiniteSet(jobs) /\ Cardinality(jobs) <= NoteQueue + 1
  /\ work.pc # "idle" => Cardinality(jobs) <= NoteQueue

LEMMA QueueTypesInit == N!Init => QueueTypes
  BY FS_EmptySet, BoundsAssumption DEF N!Init, N!Resting, QueueTypes

\* A job joins the queue when there is room.
LEMMA QueuedHasRoom ==
  ASSUME QueueTypes, N!Room, NEW j, jobs' = jobs \/ jobs' = jobs \cup {j}, work' = work, left' = left
  PROVE  QueueTypes'
  <1>0. IsFiniteSet(jobs) /\ Cardinality(jobs) \in Nat /\ NoteQueue \in Nat
    BY BoundsAssumption, FS_CardinalityType DEF QueueTypes
  <1>1. IsFiniteSet(jobs \cup {j}) /\ Cardinality(jobs \cup {j}) \in {Cardinality(jobs), Cardinality(jobs) + 1}
    BY <1>0, FS_AddElement
  <1>2. Cardinality(jobs) < NoteQueue
    BY DEF N!Room, N!Cardinality, Cardinality
  <1>3. IsFiniteSet(jobs') /\ Cardinality(jobs') <= NoteQueue
    <2>1. CASE jobs' = jobs
      BY <1>0, <1>2, <2>1
    <2>2. CASE jobs' = jobs \cup {j}
      BY <1>0, <1>1, <1>2, <2>2
    <2> QED
      BY <2>1, <2>2
  <1>4. Cardinality(jobs') \in Nat
    BY <1>3, FS_CardinalityType
  <1> QED
    BY <1>3, <1>4, BoundsAssumption DEF QueueTypes

LEMMA QueueTypesStep ==
  ASSUME NoteIInv, QueueTypes, N!Next
  PROVE  QueueTypes'
  <1>0. /\ left \in Nat /\ left <= NoteChanges /\ NoteChanges \in Nat /\ NoteQueue \in Nat /\ IsFiniteSet(jobs) /\ Cardinality(jobs) \in Nat
    BY BoundsAssumption, FS_CardinalityType DEF QueueTypes
  <1>1. jobs' = jobs /\ (left' = left \/ N!Spend) /\ (work'.pc # "idle" => work.pc # "idle") => QueueTypes'
    BY <1>0 DEF QueueTypes, N!Spend
  <1>2. ASSUME NEW mem, NEW bar, NEW wat, NEW com, N!Change(mem, bar, wat, com)
        PROVE  jobs' = jobs /\ (work'.pc # "idle" => work.pc # "idle")
    BY <1>2 DEF N!Change
  <1>3. ASSUME N!RequestFails \/ N!CreateInsert \/ N!GetContext \/ N!GetRecipients \/ N!GetUserIdsWithSpaceAccess
               \/ N!GetUserIdsWithPageAccess \/ N!Finish \/ N!DeletePage
        PROVE  QueueTypes'
    <2>1. CASE N!RequestFails \/ N!CreateInsert
      BY <1>1, <2>1 DEF N!RequestFails, N!CreateInsert
    <2>2. CASE N!GetContext \/ N!GetRecipients \/ N!GetUserIdsWithSpaceAccess \/ N!GetUserIdsWithPageAccess
      <3>1. work.pc # "idle" /\ jobs' = jobs /\ left' = left
        BY <2>2 DEF N!GetContext, N!GetRecipients, N!GetUserIdsWithSpaceAccess, N!GetUserIdsWithPageAccess, N!Reads
      <3> QED
        BY <1>1, <3>1
    <2>3. CASE N!Finish
      BY <1>1, <2>3 DEF N!Finish
    <2>4. CASE N!DeletePage
      <3>1. work'.pc = work.pc
        BY <2>4 DEF N!DeletePage, NoteIInv, JobTypes, Works
      <3> QED
        BY <1>1, <2>4, <3>1 DEF N!DeletePage
    <2> QED
      BY <1>3, <2>1, <2>2, <2>3, <2>4
  <1>4. ASSUME NEW u \in User, NEW q \in comments \cup {Nil}, NEW mentions \in SUBSET User,
               N!CreateStart(u, q, mentions)
        PROVE  QueueTypes'
    BY <1>1, <1>4 DEF N!CreateStart
  <1>5. ASSUME NEW u \in User, NEW c \in comments, NEW mentions \in SUBSET User, N!Update(u, c, mentions)
        PROVE  QueueTypes'
    <2>1. jobs' = jobs /\ N!Spend /\ work' = work
      BY <1>5 DEF N!Update, N!Spend
    <2> QED
      BY <1>1, <2>1
  <1>6. ASSUME N!QueueCommentNotification PROVE QueueTypes'
    BY <1>6, QueuedHasRoom DEF N!QueueCommentNotification
  <1>7. ASSUME NEW u \in User, NEW mentions \in SUBSET User, N!StoreMentions(u, mentions) PROVE QueueTypes'
    <2>1. N!Room /\ work' = work /\ left' = left /\ jobs' = jobs \cup {N!Job(u, Nil, Nil, mentions, FALSE)}
      BY <1>7 DEF N!StoreMentions
    <2>2. PICK j : jobs' = jobs \cup {j}
      BY <2>1
    <2>3. jobs' = jobs \/ jobs' = jobs \cup {j}
      BY <2>2
    <2> QED
      BY <2>1, <2>3, QueuedHasRoom
  <1>8. ASSUME NEW u \in User, NEW s \in Space, N!ChangeMember(u, s) PROVE QueueTypes'
    BY <1>1, <1>2, <1>8 DEF N!ChangeMember
  <1>9. ASSUME NEW u \in User, N!ChangePermission(u) \/ N!ChangeWatching(u) PROVE QueueTypes'
    BY <1>1, <1>2, <1>9 DEF N!ChangePermission, N!ChangeWatching
  <1>10. ASSUME NEW c \in Comment, N!DeleteComment(c) PROVE QueueTypes'
    BY <1>1, <1>2, <1>10 DEF N!DeleteComment
  <1>11. ASSUME NEW s \in Space, N!MoveToSpace(s) PROVE QueueTypes'
    BY <1>1, <1>2, <1>11 DEF N!MoveToSpace
  <1>12. ASSUME NEW j \in jobs, N!Take(j) PROVE QueueTypes'
    <2>1. jobs' = jobs \ {j} /\ left' = left
      BY <1>12 DEF N!Take
    <2>2. IsFiniteSet(jobs \ {j}) /\ Cardinality(jobs \ {j}) = Cardinality(jobs) - 1
      BY <1>0, FS_RemoveElement
    <2> QED
      BY <1>0, <2>1, <2>2 DEF QueueTypes
  <1>13. ASSUME NEW m \in work.todo, N!Tell(m) PROVE QueueTypes'
    BY <1>1, <1>13 DEF N!Tell
  <1>14. ASSUME N!JobFails PROVE QueueTypes'
    <2>1. work.pc # "idle" /\ work'.pc = "idle" /\ jobs' \in {jobs, jobs \cup {work.job}} /\ left' = left
      BY <1>14 DEF N!JobFails, N!Stop, N!Resting
    <2>2. IsFiniteSet(jobs \cup {work.job}) /\ Cardinality(jobs \cup {work.job}) \in {Cardinality(jobs), Cardinality(jobs) + 1}
      BY <1>0, FS_AddElement
    <2>3. IsFiniteSet(jobs') /\ Cardinality(jobs') <= NoteQueue + 1
      <3>1. Cardinality(jobs) <= NoteQueue
        BY <2>1 DEF QueueTypes
      <3>2. CASE jobs' = jobs
        BY <1>0, <3>1, <3>2
      <3>3. CASE jobs' = jobs \cup {work.job}
        BY <1>0, <2>2, <3>1, <3>3
      <3> QED
        BY <2>1, <3>2, <3>3
    <2> QED
      BY <2>1, <2>3 DEF QueueTypes
  <1> QED
    BY <1>3, <1>4, <1>5, <1>6, <1>7, <1>8, <1>9, <1>10, <1>11, <1>12, <1>13, <1>14 DEF N!Next, NoteIInv, CommentTypes

\* What the import keeps besides.
TaskTypes ==
  /\ importReq \in {"start", "stored", "listed", "queued"} /\ status \in {Nil, "processing", "success", "failed"}
  /\ zip \in BOOLEAN /\ exists \in BOOLEAN

LEMMA TaskTypesInit == I!Init => TaskTypes
  BY DEF I!Init, TaskTypes

LEMMA TaskTypesStep == TaskTypes /\ I!Next => TaskTypes'
  <1> SUFFICES ASSUME TaskTypes, I!Next PROVE TaskTypes'
    OBVIOUS
  <1> DEFINE on == TRUE
             no == FALSE
  <1>0. on \in BOOLEAN /\ no \in BOOLEAN
    OBVIOUS
  <1>1. \/ UNCHANGED <<importReq, status, zip, exists>>
        \/ I!RequestStep
        \/ status' \in {status, "success", "failed"} /\ status \in {Nil, "processing", "success", "failed"}
           /\ UNCHANGED <<importReq, zip, exists>>
        \/ zip' \in {zip, no} /\ UNCHANGED <<importReq, status, exists>>
        \/ zip' \in {zip, no} /\ status' \in {status, "failed"} /\ UNCHANGED <<importReq, exists>>
        \/ I!DeleteSpace
    BY DEF I!Next, I!Take, I!ReadTask, I!Unpack, I!UnpackFails, I!MakeFolder, I!FoldersDone,
           I!InsertPage, I!Commit, I!Rollback, I!MarkSuccess, I!DropZip, I!Settle, I!OnCompleted, I!HandleFailedJob,
           I!Stop, I!Quiet, I!outside, I!SetStatus, TaskTypes
  <1>2. CASE I!RequestStep
    <2>1. importReq' \in {"stored", "listed", "queued"} /\ status' \in {status, "processing"} /\ zip' \in {zip, on}
          /\ exists' = exists
      BY <1>2 DEF I!RequestStep, I!ImportZip
    <2> QED
      BY <1>0, <2>1 DEF TaskTypes
  <1>3. CASE I!DeleteSpace
    <2>1. exists' = no /\ UNCHANGED <<importReq, zip>> /\ status' \in {status, Nil}
      BY <1>3 DEF I!DeleteSpace
    <2> QED
      BY <1>0, <2>1 DEF TaskTypes
  <1> HIDE DEF on, no
  <1> QED
    BY <1>0, <1>1, <1>2, <1>3 DEF TaskTypes

LEMMA PageTypesInit == S!Init => PageTypes
  BY DEF S!Init, S!Shares, PageTypes

\* The types that the invariants above leave open.
OtherTypes ==
  /\ part \in Part
  /\ part = "sharing" => PageTypes
  /\ part = "import" => TaskTypes
  /\ part = "notices" => QueueTypes

LEMMA OtherTypesInvariance == Spec => []OtherTypes
  <1>1. Init => OtherTypes
    BY PageTypesInit, TaskTypesInit, QueueTypesInit DEF Init, OtherTypes
  <1>2. /\ OtherTypes /\ (part = "sharing" => ShareIInv) /\ (part = "notices" => NoteIInv)
        /\ [Next]_all
        => OtherTypes'
    <2> SUFFICES ASSUME OtherTypes, part = "sharing" => ShareIInv, part = "notices" => NoteIInv, [Next]_all
                 PROVE  OtherTypes'
      OBVIOUS
    <2>1. part' = part
      BY DEF Next, all
    <2>2. part = "sharing" => PageTypes'
      <3> SUFFICES ASSUME part = "sharing", PageTypes, ShareIInv PROVE PageTypes'
        BY DEF OtherTypes
      <3>1. CASE UNCHANGED sharing
        BY <3>1 DEF sharing, PageTypes, S!Shares
      <3> QED
        BY <3>1, PageTypesStep DEF Next, all
    <2>3. part = "import" => TaskTypes'
      <3>1. CASE UNCHANGED import
        BY <3>1 DEF import, TaskTypes, OtherTypes
      <3> QED
        BY <3>1, TaskTypesStep DEF Next, all, OtherTypes
    <2>4. part = "notices" => QueueTypes'
      <3> SUFFICES ASSUME part = "notices", QueueTypes, NoteIInv PROVE QueueTypes'
        BY DEF OtherTypes
      <3>1. CASE UNCHANGED notes
        BY <3>1 DEF notes, QueueTypes
      <3> QED
        BY <3>1, QueueTypesStep DEF Next, all
    <2> QED
      BY <2>1, <2>2, <2>3, <2>4 DEF OtherTypes
  <1> QED
    BY <1>1, <1>2, ShareInvariance, NoteInvariance, PTL DEF Spec

\* All that is above a page but the page is above its parent.
LEMMA AboveNext ==
  ASSUME PageTypes, NEW p \in Page, NEW q \in S!Above(p), q # p
  PROVE  parent[p] \in Page /\ parent[p] \in S!Above(p) /\ q \in S!Above(parent[p])
  <1>1. q \in Page
    BY DEF S!Above
  <1>2. parent[p] # Nil
    <2> SUFFICES ASSUME parent[p] = Nil PROVE FALSE
      OBVIOUS
    <2>1. S!ClosedUp({p})
      BY DEF S!ClosedUp
    <2> QED
      BY <2>1 DEF S!Above
  <1>3. parent[p] \in Page
    BY <1>2 DEF PageTypes
  <1>4. parent[p] \in S!Above(p)
    BY <1>2, <1>3 DEF S!Above, S!ClosedUp
  <1>5. ASSUME NEW T \in SUBSET Page, parent[p] \in T, S!ClosedUp(T) PROVE q \in T
    <2>1. T \cup {p} \in SUBSET Page /\ S!ClosedUp(T \cup {p})
      BY <1>5 DEF S!ClosedUp
    <2> QED
      BY <2>1 DEF S!Above
  <1> QED
    BY <1>1, <1>3, <1>4, <1>5 DEF S!Above

\* Of two pages above a third one is above the other.
LEMMA AboveLinear ==
  ASSUME PageTypes, NEW p \in Page, NEW q \in S!Above(p), NEW r \in S!Above(p)
  PROVE  q \in S!Above(r) \/ r \in S!Above(q)
  <1> DEFINE T == {t \in S!Above(p) : q \in S!Above(t) \/ t \in S!Above(q)}
  <1>1. q \in Page /\ r \in Page /\ T \subseteq Page
    BY DEF S!Above
  <1>2. p \in T
    BY AboveSelf
  <1>3. ASSUME NEW t \in T, parent[t] # Nil PROVE parent[t] \in T
    <2>1. t \in Page /\ parent[t] \in S!Above(p)
      BY <1>1, <1>3 DEF PageTypes, S!Above, S!ClosedUp
    <2>2. CASE t \in S!Above(q)
      <3>1. parent[t] \in S!Above(q)
        BY <1>1, <1>3, <2>1, <2>2 DEF PageTypes, S!Above, S!ClosedUp
      <3> QED
        BY <2>1, <3>1
    <2>3. CASE q \in S!Above(t) /\ t \notin S!Above(q)
      <3>1. t # q
        BY <1>1, <2>3, AboveSelf
      <3> QED
        BY <2>1, <2>3, <3>1, AboveNext
    <2> QED
      BY <1>3, <2>2, <2>3
  <1>4. S!ClosedUp(T)
    BY <1>3 DEF S!ClosedUp
  <1> HIDE DEF T
  <1>5. r \in T
    BY <1>1, <1>2, <1>4 DEF S!Above
  <1> QED
    BY <1>5 DEF T

\* The pages hang in no circle: going up leads out of every set of them.
Climbs == \A T \in (SUBSET Page) \ {{}} : \E p \in T : parent[p] \notin T

LEMMA ClimbsOn ==
  ASSUME Nil \notin Page, PageTypes, Climbs, S!Next
  PROVE  Climbs'
  <1>1. ASSUME NEW D \in SUBSET Page, NEW over \in Page \cup {Nil},
               \A t \in Page : parent'[t] = IF t \in D THEN over ELSE parent[t],
               over # Nil => D \cap S!Above(over) = {}
        PROVE  Climbs'
    <2> SUFFICES ASSUME NEW T \in (SUBSET Page) \ {{}} PROVE \E t \in T : parent'[t] \notin T
      BY DEF Climbs
    <2>1. CASE over \notin T
      BY <1>1, <2>1 DEF Climbs
    <2>2. CASE over \in T
      <3>1. over \in S!Above(over) /\ over \in Page
        BY <2>2, AboveSelf
      <3>2. PICK t \in T \cap S!Above(over) : parent[t] \notin T \cap S!Above(over)
        BY <2>2, <3>1 DEF Climbs
      <3>3. t \in Page /\ t \notin D /\ parent'[t] = parent[t]
        BY <1>1, <2>2, <3>2
      <3>4. parent[t] \in Page => parent[t] \in S!Above(over)
        BY <3>2, <3>3 DEF S!Above, S!ClosedUp
      <3> QED
        BY <3>2, <3>3, <3>4
    <2> QED
      BY <2>1, <2>2
  <1>2. ASSUME NEW p \in Page, S!Restore(p) PROVE Climbs'
    <2> DEFINE D == IF parent[p] \in trash THEN {p} ELSE {}
    <2>1. D \in SUBSET Page /\ \A t \in Page : parent'[t] = IF t \in D THEN Nil ELSE parent[t]
      BY <1>2 DEF S!Restore, PageTypes
    <2> HIDE DEF D
    <2> QED
      BY <1>1, <2>1
  <1>3. ASSUME NEW p \in Page, NEW q \in Page \cup {Nil}, S!Move(p, q) PROVE Climbs'
    <2>1. \A t \in Page : parent'[t] = IF t \in {p} THEN q ELSE parent[t]
      BY <1>3 DEF S!Move, PageTypes
    <2>2. q # Nil => {p} \cap S!Above(q) = {}
      BY <1>3 DEF S!Move, S!Below
    <2> QED
      BY <1>1, <2>1, <2>2
  <1>4. ASSUME NEW p \in Page, NEW q \in Space, S!MoveToSpace(p, q) PROVE Climbs'
    <2>1. \A t \in Page : parent'[t] = IF t \in {p} THEN Nil ELSE parent[t]
      BY <1>4 DEF S!MoveToSpace, PageTypes
    <2> QED
      BY <1>1, <2>1
  <1>5. CASE parent' = parent
    BY <1>5 DEF Climbs
  <1> QED
    BY <1>2, <1>3, <1>4, <1>5
       DEF S!Next, S!CreateStart, S!CreateInsert, S!UpdateShare, S!DeleteShare, S!Trash, S!Restrict,
           S!Unrestrict, S!SwitchSharing, S!pages

LEMMA ClimbsAlways == Spec => [](part = "sharing" => Climbs)
  <1>1. Nil \notin Page
    BY PageAssumption
  <1>2. Init => (part = "sharing" => Climbs)
    BY <1>1 DEF Init, S!Init, Climbs
  <1>3. OtherTypes /\ (part = "sharing" => Climbs) /\ [Next]_all => (part = "sharing" => Climbs)'
    <2>1. CASE UNCHANGED all
      BY <2>1 DEF all, sharing, Climbs
    <2> QED
      BY <1>1, <2>1, ClimbsOn DEF Next, OtherTypes
  <1> QED
    BY <1>2, <1>3, OtherTypesInvariance, PTL DEF Spec

\* From a page to itself there is only the page.
LEMMA WayToSelf ==
  ASSUME PageTypes, Climbs, NEW p \in Page
  PROVE  S!Way(p, p) = {p}
  <1> DEFINE T == S!Way(p, p)
  <1>1. p \in T /\ T \in (SUBSET Page) \ {{}}
    BY AboveSelf DEF S!Way, S!Above
  <1>2. PICK t \in T : parent[t] \notin T
    BY <1>1 DEF Climbs
  <1>3. t \in Page /\ t \in S!Above(p) /\ p \in S!Above(t)
    BY <1>1, <1>2 DEF S!Way
  <1>4. t = p
    <2> SUFFICES ASSUME t # p PROVE FALSE
      OBVIOUS
    <2>1. parent[t] \in S!Above(t) /\ p \in S!Above(parent[t])
      BY <1>3, AboveNext
    <2> QED
      BY <1>2, <1>3, <2>1, AboveAbove DEF S!Way
  <1>5. ASSUME NEW r \in T, r # p PROVE FALSE
    <2>1. r \in S!Above(p) /\ p \in S!Above(r)
      BY DEF S!Way
    <2>2. parent[p] \in Page /\ parent[p] \in S!Above(p) /\ r \in S!Above(parent[p])
      BY <1>5, <2>1, AboveNext
    <2>3. p \in S!Above(parent[p])
      BY <2>1, <2>2, AboveAbove
    <2> QED
      BY <1>2, <1>4, <2>2, <2>3 DEF S!Way
  <1> QED
    BY <1>1, <1>5

\* What a share lists, with no other shared page on the way, is what it serves.
LEMMA ListedIsServed ==
  ASSUME PageTypes, Climbs, NEW p \in Page, NEW s \in S!Shares, share[s].page \in Page,
         p \in S!Tree(s) \cup S!Searched(s), S!IsSharingAllowed(share[s].space),
         \A t \in S!Shares : share[t].page \notin S!Way(p, share[s].page) \ {share[s].page}
  PROVE  s \in S!Serves(p)
  <1> DEFINE q == share[s].page
  <1>1. /\ ~S!HasRestrictedAncestor(q)
        /\ (p = q /\ p \in S!Live) \/ (share[s].sub /\ p \in S!OpenBelow(q))
    BY DEF S!Tree, S!Searched
  <1>2. q \in S!Above(p) /\ S!Way(p, q) \subseteq S!Live \ access
    <2>1. CASE p = q /\ p \in S!Live
      BY <1>1, <2>1, WayToSelf, AboveSelf DEF S!HasRestrictedAncestor
    <2>2. CASE p \in S!OpenBelow(q)
      BY <2>2 DEF S!OpenBelow, S!Below
    <2> QED
      BY <1>1, <2>1, <2>2
  <1>3. p \in S!Live
    BY <1>2, AboveSelf DEF S!Way
  <1>4. ASSUME NEW r \in S!Above(p), r \in access PROVE FALSE
    <2>1. CASE q \in S!Above(r)
      BY <1>2, <1>4, <2>1 DEF S!Way
    <2>2. CASE r \in S!Above(q)
      BY <1>1, <1>4, <2>2 DEF S!HasRestrictedAncestor
    <2> QED
      BY <1>2, <2>1, <2>2, AboveLinear
  <1>5. s \in S!GetShareForPage(p)
    BY <1>1, <1>2 DEF S!GetShareForPage
  <1> QED
    BY <1>3, <1>4, <1>5 DEF S!Serves, S!HasRestrictedAncestor

\* Whatever page a visitor is served, the tree of the share shows it and its
\* search finds it; and what these show is served, down to the next shared page.
THEOREM ServedAreListed == Spec => []ServedIsListed
  <1>1. ASSUME part = "sharing", PageTypes, Climbs, ShareIInv PROVE S!ServedIsListed
    <2>1. \A s \in S!Shares : share[s].page \in Page
      BY <1>1 DEF S!Shares, ShareIInv, Row
    <2> QED
      BY <1>1, <2>1, ServedIsOnTheWay, ListedIsServed DEF S!ServedIsListed
  <1> QED
    BY <1>1, OtherTypesInvariance, ClimbsAlways, ShareInvariance, PTL DEF OtherTypes, ServedIsListed

\* Every service keeps its rows, files, jobs and requests of the kinds that the
\* schema and the code allow.
THEOREM Typing == Spec => []TypeOK
  <1>1. PageTypes /\ ShareIInv => S!TypeOK
    BY DEF PageTypes, ShareIInv, Row, S!TypeOK
  <1>2. FileIInv => A!TypeOK
    <2> SUFFICES ASSUME FileIInv, NEW r \in Request
                 PROVE  fileReq[r].todo \subseteq File /\ fileReq[r].file \in File \cup {Nil}
      BY DEF FileIInv, FileTypes, Kinds, A!TypeOK
    <2> QED
      BY DEF FileIInv, FileTypes, FileReqs
  <1>3. ImportIInv /\ TaskTypes => I!TypeOK
    BY DEF ImportIInv, ImportTypes, Inserted, TaskTypes, I!TypeOK
  <1>4. MfaIInv => M!TypeOK
    BY DEF MfaIInv
  <1>5. NoteIInv /\ QueueTypes => N!TypeOK
    BY DEF NoteIInv, CommentTypes, ReaderTypes, QueueTypes, N!TypeOK, N!Cardinality, Cardinality
  <1>6. Walk => P!TypeOK
    BY DEF Walk, P!TypeOK, P!Cardinality, Cardinality
  <1>7. /\ OtherTypes
        /\ part = "sharing" => ShareIInv
        /\ part = "attachments" => FileIInv
        /\ part = "import" => ImportIInv
        /\ part = "mfa" => MfaIInv
        /\ part = "notices" => NoteIInv
        /\ part = "paging" => Walk
        => TypeOK
    BY <1>1, <1>2, <1>3, <1>4, <1>5, <1>6 DEF OtherTypes, TypeOK
  <1> QED
    BY <1>7, OtherTypesInvariance, ShareInvariance, FileInvariance, ImportInvariance, MfaInvariance,
       NoteInvariance, WalkInvariance, PTL
===============================================================================
