--------------------------- MODULE CollabLock_proofs ---------------------------
(***************************************************************************)
(* What holds of the collaboration servers for any number of servers and   *)
(* sockets and any lifetime of the lock.                                    *)
(***************************************************************************)
EXTENDS CollabLock, TLAPS

-------------------------------------------------------------------------------
(* Messages                                                                 *)

\* A message of this type waits in a queue.
Kind(q, type) == \E i \in DOMAIN q : q[i].type = type

\* A message at the end of a queue adds its kind.
LEMMA AppendKinds ==
  ASSUME NEW q \in Seq(Message), NEW m \in Message
  PROVE  /\ Append(q, m) \in Seq(Message)
         /\ \A y : Kind(Append(q, m), y) <=> Kind(q, y) \/ m.type = y
  <1>1. /\ Append(q, m) \in Seq(Message)
        /\ DOMAIN Append(q, m) = 1..(Len(q) + 1) /\ DOMAIN q = 1..Len(q) /\ Len(q) \in Nat
    OBVIOUS
  <1>2. Append(q, m)[Len(q) + 1] = m /\ \A i \in 1..Len(q) : Append(q, m)[i] = q[i]
    OBVIOUS
  <1>3. 1..(Len(q) + 1) = (1..Len(q)) \cup {Len(q) + 1}
    BY <1>1
  <1> QED
    BY <1>1, <1>2, <1>3, Zenon DEF Kind

\* A message taken from the front of a queue takes away no other kind.
LEMMA TailKinds ==
  ASSUME NEW q \in Seq(Message), q # <<>>
  PROVE  /\ Tail(q) \in Seq(Message) /\ Head(q) \in Message
         /\ \A y : Kind(Tail(q), y) => Kind(q, y)
         /\ \A y : Kind(q, y) /\ Head(q).type # y => Kind(Tail(q), y)
         /\ Kind(q, Head(q).type)
  <1>1. /\ Tail(q) \in Seq(Message) /\ Head(q) \in Message /\ Head(q) = q[1]
        /\ DOMAIN Tail(q) = 1..(Len(q) - 1) /\ DOMAIN q = 1..Len(q) /\ Len(q) \in Nat \ {0}
    OBVIOUS
  <1>2. \A i \in 1..(Len(q) - 1) : Tail(q)[i] = q[i + 1]
    OBVIOUS
  <1>3. ASSUME NEW y, Kind(Tail(q), y) PROVE Kind(q, y)
    <2>1. PICK i \in 1..(Len(q) - 1) : Tail(q)[i].type = y
      BY <1>1, <1>3 DEF Kind
    <2>2. i + 1 \in 1..Len(q) /\ q[i + 1].type = y
      BY <1>1, <1>2, <2>1
    <2> QED
      BY <1>1, <2>2 DEF Kind
  <1>4. ASSUME NEW y, Kind(q, y), Head(q).type # y PROVE Kind(Tail(q), y)
    <2>1. PICK i \in 1..Len(q) : q[i].type = y
      BY <1>1, <1>4 DEF Kind
    <2>2. i # 1
      BY <1>1, <1>4, <2>1
    <2>3. i - 1 \in 1..(Len(q) - 1) /\ Tail(q)[i - 1] = q[i]
      BY <1>1, <1>2, <2>2
    <2> QED
      BY <1>1, <2>1, <2>3 DEF Kind
  <1>5. Kind(q, Head(q).type)
    BY <1>1 DEF Kind
  <1> QED
    BY <1>1, <1>3, <1>4, <1>5

\* Publishing adds one kind of message to the servers that hear it.
LEMMA BroadcastKinds ==
  ASSUME inbox \in [Server -> Seq(Message)], NEW m \in Message, NEW to,
         inbox' = Broadcast(m, to)
  PROVE  /\ inbox' \in [Server -> Seq(Message)]
         /\ \A s \in Server : s \notin to => inbox'[s] = inbox[s]
         /\ \A s \in Server : \A y : Kind(inbox[s], y) => Kind(inbox'[s], y)
         /\ \A s \in Server : \A y :
              Kind(inbox'[s], y) => Kind(inbox[s], y) \/ (s \in to /\ m.type = y)
         /\ \A s \in Server : s \in to => Kind(inbox'[s], m.type)
  <1>1. \A s \in Server : /\ s \in to => inbox'[s] = Append(inbox[s], m)
                          /\ s \notin to => inbox'[s] = inbox[s]
    BY DEF Broadcast
  <1>2. \A s \in Server : inbox[s] \in Seq(Message)
    OBVIOUS
  <1>3. \A s \in Server : /\ Append(inbox[s], m) \in Seq(Message)
                          /\ \A y : Kind(Append(inbox[s], m), y) <=> Kind(inbox[s], y) \/ m.type = y
    BY <1>2, AppendKinds
  <1>4. inbox' \in [Server -> Seq(Message)]
    <2>1. \A s \in Server : inbox'[s] \in Seq(Message)
      <3> TAKE s \in Server
      <3> QED
        BY <1>1, <1>2, <1>3, Zenon
    <2>2. inbox' = [s \in Server |-> inbox'[s]]
      BY DEF Broadcast
    <2> QED
      BY <2>1, <2>2
  <1>5. ASSUME NEW s \in Server
        PROVE  /\ s \notin to => inbox'[s] = inbox[s]
               /\ \A y : Kind(inbox[s], y) => Kind(inbox'[s], y)
               /\ \A y : Kind(inbox'[s], y) => Kind(inbox[s], y) \/ (s \in to /\ m.type = y)
               /\ s \in to => Kind(inbox'[s], m.type)
    BY <1>1, <1>3, <1>5, Zenon
  <1> QED
    BY <1>4, <1>5

\* Handling a message touches one queue and takes away one kind at most.
LEMMA ReceiveKinds ==
  ASSUME inbox \in [Server -> Seq(Message)], NEW s \in Server, NEW type, Receive(s, type)
  PROVE  /\ inbox' \in [Server -> Seq(Message)]
         /\ Head(inbox[s]) \in Message /\ Kind(inbox[s], type)
         /\ \A t \in Server : t # s => inbox'[t] = inbox[t]
         /\ \A t \in Server : \A y : Kind(inbox'[t], y) => Kind(inbox[t], y)
         /\ \A t \in Server : \A y : Kind(inbox[t], y) /\ y # type => Kind(inbox'[t], y)
  <1>1. /\ inbox[s] \in Seq(Message) /\ inbox[s] # <<>> /\ Head(inbox[s]).type = type
        /\ inbox' = [inbox EXCEPT ![s] = Tail(inbox[s])]
    BY DEF Receive
  <1>2. inbox'[s] = Tail(inbox[s]) /\ \A t \in Server : t # s => inbox'[t] = inbox[t]
    BY <1>1
  <1>3. inbox' \in [Server -> Seq(Message)]
    BY <1>1, TailKinds
  <1> QED
    BY <1>1, <1>2, <1>3, TailKinds

-------------------------------------------------------------------------------
(* Types                                                                    *)

\* The timeouts, as numbers.
LEMMA Lifetimes == /\ Half \in Nat /\ Half > 0
                   /\ TTL \in Nat /\ Forgotten \in Nat /\ TTL = 2 * Half /\ Forgotten = 3 * Half
  BY HalfAssumption DEF TTL, Forgotten

\* The key exists with its owner and some time to live, or not at all.
LEMMA LockType ==
  ASSUME TypeOK
  PROVE  /\ lock.owner \in Server \cup {Nil} /\ Nil \notin Server
         /\ lock.owner # Nil => /\ lock \in [owner : Server, left : 1..TTL]
                                /\ lock.left \in 1..TTL
         /\ lock.owner = Nil => lock = Free
  BY NilAssumption DEF TypeOK, Free

\* A lock just taken or refreshed.
LEMMA HeldType ==
  ASSUME NEW s \in Server
  PROVE  /\ HeldBy(s) \in [owner : Server, left : 1..TTL]
         /\ HeldBy(s).owner = s /\ HeldBy(s).left = TTL
  BY Lifetimes DEF HeldBy

\* What an answer of redis says.
LEMMA Answer ==
  ASSUME TypeOK, NEW s \in up, GetOrClaimLock(s)
  PROVE  /\ lock.owner # Nil => lock' = lock
         /\ lock.owner = Nil => lock' = HeldBy(s)
         /\ lock'.owner \in Server
         /\ lock' \in [owner : Server, left : 1..TTL]
         /\ cache' = [cache EXCEPT ![s] = lock'.owner]
         /\ sweeps' = [sweeps EXCEPT ![s] = @ \cup {Half}]
         /\ cache' \in [Server -> Server \cup {Nil}]
         /\ sweeps' \in [Server -> SUBSET (0..Half)]
  <1>1. s \in Server
    BY DEF TypeOK
  <1>2. /\ lock.owner # Nil => lock' = lock
        /\ lock.owner = Nil => lock' = HeldBy(s)
        /\ cache' = [cache EXCEPT ![s] = lock'.owner]
        /\ sweeps' = [sweeps EXCEPT ![s] = @ \cup {Half}]
    BY DEF GetOrClaimLock
  <1>3. lock' \in [owner : Server, left : 1..TTL] /\ lock'.owner \in Server
    BY <1>1, <1>2, LockType, HeldType
  <1>4. Half \in 0..Half
    BY Lifetimes
  <1> QED
    BY <1>1, <1>2, <1>3, <1>4 DEF TypeOK

\* What the clock does to the lock.
LEMMA Ageing ==
  ASSUME TypeOK, Tick
  PROVE  /\ lock' \in [owner : Server, left : 1..TTL] \cup {Free}
         /\ lock'.owner # Nil => /\ lock'.owner = lock.owner
                                 /\ lock'.left = lock.left - 1 /\ lock.left \in 2..TTL
         /\ lock.owner # Nil /\ lock.left > 1 => lock'.owner = lock.owner
  <1>1. lock' = IF lock.left <= 1 THEN Free ELSE [lock EXCEPT !.left = @ - 1]
    BY DEF Tick
  <1>2. CASE lock.owner = Nil
    <2>1. lock = Free /\ lock.left = 0
      BY <1>2, LockType DEF Free
    <2>2. lock' = Free
      BY <1>1, <2>1
    <2> QED
      BY <1>2, <2>2 DEF Free
  <1>3. CASE lock.owner # Nil
    <2>1. lock \in [owner : Server, left : 1..TTL] /\ lock.left \in 1..TTL
      BY <1>3, LockType
    <2>2. CASE lock.left <= 1
      <3>1. lock' = Free
        BY <1>1, <2>2
      <3> QED
        BY <2>1, <2>2, <3>1, Lifetimes DEF Free
    <2>3. CASE ~(lock.left <= 1)
      <3>1. lock' = [lock EXCEPT !.left = lock.left - 1]
        BY <1>1, <2>3
      <3>2. lock.left \in 2..TTL /\ lock.left - 1 \in 1..TTL
        BY <2>1, <2>3, Lifetimes
      <3>3. lock' \in [owner : Server, left : 1..TTL]
        BY <2>1, <3>1, <3>2
      <3>4. lock'.owner = lock.owner /\ lock'.left = lock.left - 1
        BY <2>1, <3>1
      <3> QED
        BY <3>2, <3>3, <3>4
    <2> QED
      BY <2>2, <2>3
  <1> QED
    BY <1>2, <1>3

\* A connection made to a document that may have to be loaded.
LEMMA JoinType ==
  ASSUME TypeOK, NEW c \in Socket, NEW s \in up, Join(c, s)
  PROVE  /\ conns' \in [Server -> SUBSET Socket] /\ open' \subseteq up
         /\ beat' \in [Server -> 0..Half]
         /\ \A t \in Server \ up : conns'[t] = {}
  <1>1. Half \in 0..Half /\ s \in Server
    BY Lifetimes DEF TypeOK
  <1> QED
    BY <1>1 DEF Join, TypeOK

\* Every step of the servers, the sockets and the clock keeps the types.
LEMMA TypingStep == TypeOK /\ [Next]_vars => TypeOK'
  <1> SUFFICES ASSUME TypeOK, [Next]_vars PROVE TypeOK'
    OBVIOUS
  <1> USE DEF TypeOK, timers, sockets
  <1>0. /\ inbox \in [Server -> Seq(Message)] /\ up \subseteq Server
        /\ \A c \in Socket : pend[c] # Nil => pend[c] \in [from : up, to : Server]
    OBVIOUS
  <1>1. ASSUME NEW c \in Socket, NEW s \in Server,
               ConnectLoaded(c, s) \/ ConnectCached(c, s) \/ ConnectAsking(c, s)
        PROVE  TypeOK'
    <2>1. Connect(c, s) /\ s \in up /\ at' \in [Socket -> up \cup {Nil}]
      BY <1>1, ZenonT(60) DEF ConnectLoaded, ConnectCached, ConnectAsking, Connect
    <2>2. CASE ConnectLoaded(c, s)
      <3>1. pend' \in [Socket -> [from : up, to : Server] \cup {Nil}]
        BY <2>1, <2>2 DEF ConnectLoaded
      <3> QED
        BY <2>1, <2>2, <3>1 DEF ConnectLoaded
    <2>3. CASE ConnectCached(c, s)
      <3>1. cache[s] \in Server
        BY <2>3 DEF ConnectCached
      <3>2. pend' \in [Socket -> [from : up, to : Server] \cup {Nil}]
        BY <2>1, <2>3, <3>1 DEF ConnectCached
      <3> QED
        BY <2>1, <2>3, <3>2 DEF ConnectCached
    <2>4. CASE ConnectAsking(c, s)
      <3>1. GetOrClaimLock(s)
        BY <2>4 DEF ConnectAsking
      <3>2. /\ lock'.owner \in Server /\ lock' \in [owner : Server, left : 1..TTL]
            /\ cache' \in [Server -> Server \cup {Nil}]
            /\ sweeps' \in [Server -> SUBSET (0..Half)]
            /\ \A t \in Server : t # s => cache'[t] = cache[t]
        BY <2>1, <3>1, Answer, SMTT(30)
      <3>3. pend' \in [Socket -> [from : up, to : Server] \cup {Nil}]
        BY <2>1, <2>4, <3>2 DEF ConnectAsking
      <3> QED
        BY <2>1, <2>4, <3>2, <3>3 DEF ConnectAsking
    <2> QED
      BY <1>1, <2>2, <2>3, <2>4
  <1>2. ASSUME NEW c \in Socket,
               ServeHere(c) \/ RefuseHere(c) \/ DropClosed(c) \/ Forward(c) \/ Close(c)
        PROVE  TypeOK'
    <2>1. CASE ServeHere(c)
      <3>1. at[c] \in up
        BY <2>1, <1>0 DEF ServeHere
      <3>2. Join(c, at[c])
        BY <2>1 DEF ServeHere
      <3>3. pend' \in [Socket -> [from : up, to : Server] \cup {Nil}]
        BY <2>1 DEF ServeHere
      <3> QED
        BY <2>1, <3>1, <3>2, <3>3, JoinType DEF ServeHere
    <2>2. CASE RefuseHere(c)
      BY <2>2 DEF RefuseHere
    <2>3. CASE DropClosed(c)
      BY <2>3 DEF DropClosed
    <2>4. CASE Forward(c)
      <3> DEFINE to == {pend[c].to} \cap up
      <3>0. to \subseteq up
        OBVIOUS
      <3>1. [type |-> "proxy", socket |-> c] \in Message
        BY DEF Message
      <3>2. inbox' = Broadcast([type |-> "proxy", socket |-> c], to)
        BY <2>4 DEF Forward
      <3> HIDE DEF to
      <3>3. /\ inbox' \in [Server -> Seq(Message)]
            /\ \A s \in Server \ up : inbox'[s] = inbox[s]
        BY <1>0, <3>0, <3>1, <3>2, BroadcastKinds
      <3> QED
        BY <2>4, <3>3 DEF Forward
    <2>5. CASE Close(c)
      <3> DEFINE to == Proxying(c) \ {at[c]}
      <3>0. to \subseteq up
        BY DEF Proxying
      <3>1. [type |-> "closeProxy", socket |-> c] \in Message
        BY DEF Message
      <3>2. inbox' = Broadcast([type |-> "closeProxy", socket |-> c], to)
        BY <2>5 DEF Close
      <3> HIDE DEF to
      <3>3. /\ inbox' \in [Server -> Seq(Message)]
            /\ \A s \in Server \ up : inbox'[s] = inbox[s]
        BY <1>0, <3>0, <3>1, <3>2, BroadcastKinds
      <3>4. at[c] \in Server
        BY <2>5 DEF Close
      <3>5. conns' \in [Server -> SUBSET Socket] /\ \A s \in Server \ up : conns'[s] = {}
        BY <2>5, <3>4 DEF Close
      <3>6. at' \in [Socket -> up \cup {Nil}]
        BY <2>5 DEF Close
      <3> QED
        BY <2>5, <3>3, <3>5, <3>6 DEF Close
    <2> QED
      BY <1>2, <2>1, <2>2, <2>3, <2>4, <2>5
  <1>3. ASSUME NEW s \in Server, NEW type, Receive(s, type)
        PROVE  /\ s \in up /\ inbox' \in [Server -> Seq(Message)]
               /\ \A t \in Server \ up : inbox'[t] = <<>>
               /\ type # "unload" => Head(inbox[s]).socket \in Socket
    <2>1. s \in up
      BY <1>3 DEF Receive
    <2>2. Head(inbox[s]) \in Message /\ Head(inbox[s]).type = type
      BY <1>0, <1>3, ReceiveKinds DEF Receive
    <2> QED
      BY <1>0, <1>3, <2>1, <2>2, ReceiveKinds DEF Message
  <1>4. ASSUME NEW s \in Server, HandleProxyMessage(s) \/ RefuseProxyMessage(s) \/ CloseProxy(s)
        PROVE  TypeOK'
    <2>1. CASE HandleProxyMessage(s)
      <3>1. Receive(s, "proxy") /\ Join(Head(inbox[s]).socket, s)
        BY <2>1 DEF HandleProxyMessage
      <3>2. s \in up /\ Head(inbox[s]).socket \in Socket
        BY <1>3, <3>1
      <3> QED
        BY <1>3, <2>1, <3>1, <3>2, JoinType DEF HandleProxyMessage
    <2>2. CASE RefuseProxyMessage(s)
      BY <1>3, <2>2 DEF RefuseProxyMessage
    <2>3. CASE CloseProxy(s)
      BY <1>3, <2>3 DEF CloseProxy
    <2> QED
      BY <1>4, <2>1, <2>2, <2>3
  <1>5. ASSUME NEW s \in Server, NEW c \in Socket, PingTimeout(s, c) PROVE TypeOK'
    BY <1>5 DEF PingTimeout
  <1>6. ASSUME NEW s \in Server,
               Unload(s) \/ DropCached(s) \/ Crash(s) \/ Refresh(s) \/ Sweep(s)
        PROVE  TypeOK'
    <2>1. CASE Unload(s)
      <3>1. [type |-> "unload", socket |-> Nil] \in Message
        BY DEF Message
      <3>2. inbox' = Broadcast([type |-> "unload", socket |-> Nil], up)
        BY <2>1 DEF Unload
      <3>3. /\ inbox' \in [Server -> Seq(Message)]
            /\ \A t \in Server \ up : inbox'[t] = inbox[t]
        BY <1>0, <3>1, <3>2, BroadcastKinds
      <3>4. beat' \in [Server -> 0..Half]
        BY <2>1, Lifetimes DEF Unload
      <3> QED
        BY <2>1, <3>3, <3>4 DEF Unload
    <2>2. CASE DropCached(s)
      BY <1>3, <2>2 DEF DropCached
    <2>3. CASE Crash(s)
      <3>1. beat' \in [Server -> 0..Half]
        BY <2>3, Lifetimes DEF Crash
      <3>2. pend' \in [Socket -> [from : up', to : Server] \cup {Nil}]
        <4>1. ASSUME NEW c \in Socket, pend'[c] # Nil
              PROVE  pend'[c] \in [from : up', to : Server]
          <5>1. pend'[c] = pend[c] /\ pend[c].from # s
            BY <2>3, <4>1 DEF Crash
          <5>2. pend[c] \in [from : up, to : Server]
            BY <4>1, <5>1
          <5> QED
            BY <2>3, <5>1, <5>2 DEF Crash
        <4> QED
          BY <2>3, <4>1 DEF Crash
      <3>3. at' \in [Socket -> up' \cup {Nil}]
        BY <2>3 DEF Crash
      <3>4. /\ inbox' \in [Server -> Seq(Message)]
            /\ cache' \in [Server -> Server \cup {Nil}]
            /\ sweeps' \in [Server -> SUBSET (0..Half)]
            /\ conns' \in [Server -> SUBSET Socket]
        BY <2>3 DEF Crash
      <3>5. /\ open' \subseteq up' /\ up' \subseteq Server
            /\ \A t \in Server \ up' : conns'[t] = {} /\ inbox'[t] = <<>> /\ cache'[t] = Nil
        BY <2>3 DEF Crash
      <3> QED
        BY <2>3, <3>1, <3>2, <3>3, <3>4, <3>5 DEF Crash
    <2>4. CASE Refresh(s)
      <3>1. beat' \in [Server -> 0..Half] /\ lock' \in [owner : Server, left : 1..TTL]
        BY <2>4, Lifetimes, HeldType DEF Refresh
      <3> QED
        BY <2>4, <3>1 DEF Refresh
    <2>5. CASE Sweep(s)
      BY <2>5 DEF Sweep
    <2> QED
      BY <1>6, <2>1, <2>2, <2>3, <2>4, <2>5
  <1>7. CASE Tick
    <2>1. beat' \in [Server -> 0..Half]
      <3>1. ASSUME NEW s \in Server PROVE (IF s \in open THEN beat[s] - 1 ELSE 0) \in 0..Half
        BY <1>7, Lifetimes DEF Tick, Due
      <3> QED
        BY <1>7, <3>1 DEF Tick
    <2>2. sweeps' \in [Server -> SUBSET (0..Half)]
      <3>1. ASSUME NEW s \in Server, NEW x \in sweeps[s] PROVE x - 1 \in 0..Half
        BY <1>7, Lifetimes, SMTT(30) DEF Tick, Due
      <3> QED
        BY <1>7, <3>1 DEF Tick
    <2>3. dead' \in [Server -> 0..Forgotten]
      <3>1. ASSUME NEW s \in Server
            PROVE  (IF s \in up \/ dead[s] = Forgotten THEN dead[s] ELSE dead[s] + 1)
                      \in 0..Forgotten
        <4>1. dead[s] \in 0..Forgotten
          OBVIOUS
        <4> HIDE DEF TypeOK
        <4> QED
          BY <4>1, Lifetimes
      <3> QED
        BY <1>7, <3>1 DEF Tick
    <2> QED
      BY <1>7, <2>1, <2>2, <2>3, Ageing DEF Tick
  <1>8. CASE UNCHANGED vars
    BY <1>8 DEF vars
  <1> QED
    BY <1>1, <1>2, <1>4, <1>5, <1>6, <1>7, <1>8 DEF Next

\* Nothing is loaded, locked or on its way at first.
LEMMA InitTypes == Init => TypeOK
  <1>1. 0 \in 0..Half /\ 0 \in 0..Forgotten /\ <<>> \in Seq(Message)
    BY Lifetimes
  <1> QED
    BY <1>1 DEF Init, TypeOK

\* The invariant of module CollabLock that types every variable.
THEOREM Typing == Spec => []TypeOK
  BY InitTypes, TypingStep, PTL DEF Spec

-------------------------------------------------------------------------------
(* Owners that crashed are forgotten                                        *)

\* The lock of a crashed server runs out, and so does every cached answer: what
\* is left of the one and of the other shrinks as the crash grows older.
Aged ==
    /\ \A t \in up : dead[t] = 0
    /\ \A t \in Server : lock.owner = t => dead[t] + lock.left <= TTL
    /\ \A s \in up, t \in Server :
          cache[s] = t => \E x \in sweeps[s] : dead[t] + x < Forgotten

\* No step lets an answer about a crashed server outlive the bound.
LEMMA AgedStep == TypeOK /\ Aged /\ [Next]_vars => Aged'
  <1> SUFFICES ASSUME TypeOK, Aged, [Next]_vars PROVE Aged'
    OBVIOUS
  <1> USE DEF timers, sockets
  <1>0. /\ up \subseteq Server /\ Nil \notin Server
        /\ cache \in [Server -> Server \cup {Nil}]
        /\ sweeps \in [Server -> SUBSET (0..Half)] /\ dead \in [Server -> 0..Forgotten]
    BY NilAssumption DEF TypeOK
  <1>1. ASSUME UNCHANGED <<up, lock, cache, sweeps, dead>> PROVE Aged'
    BY <1>1 DEF Aged
  <1>2. ASSUME NEW c \in Socket, NEW s \in Server, ConnectAsking(c, s) PROVE Aged'
    <2>1. s \in up /\ GetOrClaimLock(s) /\ UNCHANGED <<up, dead>>
      BY <1>2 DEF ConnectAsking, Connect
    <2>2. /\ lock.owner # Nil => lock' = lock
          /\ lock.owner = Nil => lock' = HeldBy(s)
          /\ lock'.owner \in Server /\ lock' \in [owner : Server, left : 1..TTL]
          /\ cache' = [cache EXCEPT ![s] = lock'.owner]
          /\ sweeps' = [sweeps EXCEPT ![s] = sweeps[s] \cup {Half}]
      BY <2>1, Answer
    <2>3. \A t \in Server : lock'.owner = t => dead[t] + lock'.left <= TTL
      BY <1>0, <2>1, <2>2, HeldType, Lifetimes DEF Aged
    <2>4. dead[lock'.owner] + Half < Forgotten
      <3>1. lock'.left \in 1..TTL /\ dead[lock'.owner] \in 0..Forgotten
        BY <1>0, <2>2
      <3>2. dead[lock'.owner] + lock'.left <= TTL
        BY <2>2, <2>3
      <3> QED
        BY <3>1, <3>2, Lifetimes
    <2>5. ASSUME NEW u \in up, NEW t \in Server, cache'[u] = t
          PROVE  \E x \in sweeps'[u] : dead[t] + x < Forgotten
      <3>1. CASE u = s
        BY <1>0, <2>2, <2>4, <2>5, <3>1
      <3>2. CASE u # s
        BY <1>0, <2>2, <2>5, <3>2 DEF Aged
      <3> QED
        BY <3>1, <3>2
    <2> QED
      BY <2>1, <2>3, <2>5 DEF Aged
  <1>3. ASSUME NEW s \in Server, DropCached(s) PROVE Aged'
    BY <1>0, <1>3 DEF DropCached, Aged
  <1>4. ASSUME NEW s \in Server, Unload(s) PROVE Aged'
    BY <1>0, <1>4 DEF Unload, Aged, Free
  <1>5. ASSUME NEW s \in Server, Crash(s) PROVE Aged'
    BY <1>0, <1>5 DEF Crash, Aged
  <1>6. ASSUME NEW s \in Server, Refresh(s) PROVE Aged'
    <2>1. s \in up
      BY <1>6 DEF Refresh, TypeOK
    <2>2. lock' = HeldBy(s) /\ UNCHANGED <<up, cache, sweeps, dead>>
      BY <1>6 DEF Refresh
    <2>3. lock'.owner = s /\ lock'.left = TTL /\ dead[s] = 0
      BY <2>1, <2>2, HeldType DEF Aged
    <2> QED
      BY <2>2, <2>3, Lifetimes DEF Aged
  <1>7. ASSUME NEW s \in Server, Sweep(s) PROVE Aged'
    BY <1>0, <1>7 DEF Sweep, Aged
  <1>8. CASE Tick
    <2>1. UNCHANGED <<up, cache>>
      BY <1>8 DEF Tick
    <2>2. ASSUME NEW t \in Server
          PROVE  /\ dead[t] \in 0..Forgotten
                 /\ t \in up => dead'[t] = dead[t]
                 /\ dead[t] = Forgotten => dead'[t] = dead[t]
                 /\ dead[t] # Forgotten => dead'[t] \in {dead[t], dead[t] + 1}
      BY <1>0, <1>8 DEF Tick
    <2>3. ASSUME NEW t \in Server, lock'.owner = t PROVE dead'[t] + lock'.left <= TTL
      <3>1. lock.owner = t /\ lock'.left = lock.left - 1 /\ lock.left \in 2..TTL
        BY <1>0, <1>8, <2>3, Ageing
      <3>2. dead[t] + lock.left <= TTL
        BY <3>1 DEF Aged
      <3>3. dead[t] # Forgotten
        BY <3>1, <3>2, Lifetimes
      <3> QED
        BY <2>2, <3>1, <3>2, <3>3, Lifetimes
    <2>4. ASSUME NEW s \in up, NEW t \in Server, cache[s] = t
          PROVE  \E x \in sweeps'[s] : dead'[t] + x < Forgotten
      <3>1. PICK x \in sweeps[s] : dead[t] + x < Forgotten
        BY <2>4 DEF Aged
      <3>2. x \in 0..Half
        BY <1>0
      <3>3. x - 1 \in sweeps'[s]
        BY <1>0, <1>8 DEF Tick
      <3>4. dead'[t] + (x - 1) < Forgotten
        BY <2>2, <3>1, <3>2, Lifetimes
      <3> QED
        BY <3>3, <3>4
    <2>5. \A t \in up' : dead'[t] = 0
      BY <1>0, <2>1, <2>2 DEF Aged
    <2> QED
      BY <2>1, <2>3, <2>4, <2>5 DEF Aged
  <1>9. ASSUME NEW c \in Socket, NEW s \in Server,
               ConnectLoaded(c, s) \/ ConnectCached(c, s) \/ PingTimeout(s, c)
        PROVE  Aged'
    BY <1>1, <1>9 DEF ConnectLoaded, ConnectCached, PingTimeout
  <1>10. ASSUME NEW c \in Socket,
                ServeHere(c) \/ RefuseHere(c) \/ DropClosed(c) \/ Forward(c) \/ Close(c)
         PROVE  Aged'
    BY <1>1, <1>10 DEF ServeHere, RefuseHere, DropClosed, Forward, Close
  <1>11. ASSUME NEW s \in Server,
                HandleProxyMessage(s) \/ RefuseProxyMessage(s) \/ CloseProxy(s)
         PROVE  Aged'
    BY <1>1, <1>11 DEF HandleProxyMessage, RefuseProxyMessage, CloseProxy
  <1>12. CASE UNCHANGED vars
    BY <1>1, <1>12 DEF vars
  <1> QED
    BY <1>2, <1>3, <1>4, <1>5, <1>6, <1>7, <1>8, <1>9, <1>10, <1>11, <1>12 DEF Next

\* Whatever messages, crashes and timers do, no server believes in an owner that
\* crashed longer ago than the lock and a cached answer last.
THEOREM StaleOwners == Spec => []StaleOwnersForgotten
  <1>1. Init => Aged
    BY Lifetimes, NilAssumption DEF Init, Aged, Free
  <1>2. TypeOK /\ Aged => StaleOwnersForgotten
    <2> SUFFICES ASSUME TypeOK, Aged, NEW s \in up, NEW t \in Server \ up,
                        dead[t] = Forgotten, cache[s] = t
                 PROVE  FALSE
      BY DEF StaleOwnersForgotten
    <2>1. PICK x \in sweeps[s] : dead[t] + x < Forgotten
      BY DEF Aged
    <2>2. x \in 0..Half
      BY DEF TypeOK
    <2> QED
      BY <2>1, <2>2, Lifetimes
  <1> QED
    BY <1>1, <1>2, AgedStep, Typing, PTL DEF Spec

-------------------------------------------------------------------------------
(* The lock covers the loaded document                                      *)

\* A loaded document is refreshed before its lock runs out.
Owned == \A s \in open : lock.owner = s /\ lock.left > beat[s]

\* A lock without a document is about to get one: a socket waits that loads it,
\* and the lock lasts until the first refresh after that.
Claimed ==
    \A s \in up \ open : lock.owner = s =>
        /\ lock.left > Half
        /\ \E c \in Socket : pend[c] = [from |-> s, to |-> s] /\ at[c] = s

\* What waits, travels or is remembered names the server that has the lock.
Routed == \A c \in Socket : pend[c] # Nil /\ pend[c].to \in up => lock.owner = pend[c].to
Delivered == \A s \in up : Kind(inbox[s], "proxy") => lock.owner = s
Cached == \A s \in up, t \in up : cache[s] = t => lock.owner = t \/ Kind(inbox[s], "unload")

\* The inductive invariant of the lock.
Ruled == Owned /\ Claimed /\ Routed /\ Delivered /\ Cached

\* The types that the proofs about the lock use.
LEMMA Types ==
  ASSUME TypeOK
  PROVE  /\ up \subseteq Server /\ open \subseteq up /\ Nil \notin Server
         /\ inbox \in [Server -> Seq(Message)]
         /\ beat \in [Server -> 0..Half] /\ cache \in [Server -> Server \cup {Nil}]
         /\ pend \in [Socket -> [from : up, to : Server] \cup {Nil}]
         /\ at \in [Socket -> up \cup {Nil}]
         /\ \A s, t \in Server : [from |-> s, to |-> t] # Nil
  BY NilAssumption DEF TypeOK

\* A connection to a document whose lock this server has.
LEMMA JoinOwned ==
  ASSUME TypeOK, Ruled, NEW c \in Socket, NEW s \in up, lock.owner = s, Join(c, s),
         UNCHANGED lock
  PROVE  Owned'
  <1>1. beat' \in [Server -> 0..Half] /\ open' = open \cup {s}
    BY JoinType DEF Join
  <1>2. CASE s \in open
    BY <1>1, <1>2 DEF Join, Ruled, Owned
  <1>3. CASE s \notin open
    <2>1. lock.left > Half
      BY <1>3 DEF Ruled, Claimed
    <2>2. beat' = [beat EXCEPT ![s] = Half]
      BY <1>3 DEF Join
    <2>3. beat'[s] = Half /\ \A t \in open : beat'[t] = beat[t]
      BY <1>3, <2>2, Types
    <2> QED
      BY <1>1, <2>1, <2>3, Lifetimes DEF Ruled, Owned
  <1> QED
    BY <1>2, <1>3

\* A socket that opens, when nobody is told to drop his answers.
LEMMA ConnectRuled ==
  ASSUME ~UnloadCrossed, TypeOK, Ruled, NEW c \in Socket, NEW s \in Server,
         ConnectLoaded(c, s) \/ ConnectCached(c, s) \/ ConnectAsking(c, s)
  PROVE  Ruled'
  <1>0. /\ s \in up /\ pend[c] = Nil /\ at' = [at EXCEPT ![c] = s]
        /\ \A t \in Server : ~Kind(inbox[t], "unload")
        /\ UNCHANGED <<up, open, beat, inbox>>
    BY DEF ConnectLoaded, ConnectCached, ConnectAsking, Connect, Fresh, InFlight, Kind,
           UnloadCrossed
  <1>1. \A d \in Socket : d # c => at'[d] = at[d]
    BY <1>0, Types
  <1>2. ASSUME NEW t \in Server, lock' = lock, cache' = cache,
               pend' = [pend EXCEPT ![c] = [from |-> s, to |-> t]], t \in up => lock.owner = t
        PROVE  Ruled'
    <2>1. \A d \in Socket : d # c => pend'[d] = pend[d]
      BY <1>2, Types
    <2>2. pend'[c] = [from |-> s, to |-> t]
      BY <1>2, Types
    <2>3. Claimed'
      <3> SUFFICES ASSUME NEW u \in up \ open, lock.owner = u
                   PROVE  /\ lock.left > Half
                          /\ \E d \in Socket : pend'[d] = [from |-> u, to |-> u] /\ at'[d] = u
        BY <1>0, <1>2 DEF Claimed
      <3>1. PICK d \in Socket : pend[d] = [from |-> u, to |-> u] /\ at[d] = u
        BY DEF Ruled, Claimed
      <3>2. d # c
        BY <1>0, <3>1, Types
      <3> QED
        BY <1>1, <2>1, <3>1, <3>2 DEF Ruled, Claimed
    <2>4. Routed'
      BY <1>0, <1>2, <2>1, <2>2 DEF Ruled, Routed
    <2> QED
      BY <1>0, <1>2, <2>3, <2>4 DEF Ruled, Owned, Delivered, Cached
  <1>3. CASE ConnectLoaded(c, s)
    <2>1. s \in open /\ lock.owner = s
      BY <1>3 DEF ConnectLoaded, Ruled, Owned
    <2> QED
      BY <1>2, <1>3, <2>1 DEF ConnectLoaded, timers
  <1>4. CASE ConnectCached(c, s)
    <2>1. cache[s] \in Server /\ pend' = [pend EXCEPT ![c] = [from |-> s, to |-> cache[s]]]
      BY <1>4, Types DEF ConnectCached
    <2>2. cache[s] \in up => lock.owner = cache[s]
      BY <1>0 DEF Ruled, Cached
    <2> QED
      BY <1>2, <1>4, <2>1, <2>2 DEF ConnectCached
  <1>5. CASE ConnectAsking(c, s)
    <2>1. /\ s \notin open /\ GetOrClaimLock(s)
          /\ pend' = [pend EXCEPT ![c] = [from |-> s, to |-> lock'.owner]]
      BY <1>5 DEF ConnectAsking
    <2>2. /\ lock.owner # Nil => lock' = lock
          /\ lock.owner = Nil => lock' = HeldBy(s)
          /\ lock'.owner \in Server /\ cache' = [cache EXCEPT ![s] = lock'.owner]
      BY <1>0, <2>1, Answer
    <2>3. /\ pend'[c] = [from |-> s, to |-> lock'.owner] /\ at'[c] = s
          /\ \A d \in Socket : d # c => pend'[d] = pend[d]
          /\ cache'[s] = lock'.owner /\ \A t \in Server : t # s => cache'[t] = cache[t]
      BY <1>0, <2>1, <2>2, Types
    <2>4. \A t \in Server : lock.owner = t => lock' = lock
      BY <2>2, Types
    <2>5. Owned'
      BY <1>0, <2>4, Types DEF Ruled, Owned
    <2>6. Claimed'
      <3> SUFFICES ASSUME NEW t \in up \ open, lock'.owner = t
                   PROVE  /\ lock'.left > Half
                          /\ \E d \in Socket : pend'[d] = [from |-> t, to |-> t] /\ at'[d] = t
        BY <1>0 DEF Claimed
      <3>1. CASE lock.owner = Nil
        <4>1. t = s /\ lock'.left > Half
          BY <2>2, <3>1, HeldType, Lifetimes
        <4> QED
          BY <2>3, <4>1
      <3>2. CASE lock.owner # Nil
        <4>1. lock' = lock
          BY <2>2, <3>2
        <4>2. PICK d \in Socket : pend[d] = [from |-> t, to |-> t] /\ at[d] = t
          BY <4>1 DEF Ruled, Claimed
        <4>3. d # c
          BY <1>0, <4>2, Types
        <4> QED
          BY <1>1, <2>3, <4>1, <4>2, <4>3 DEF Ruled, Claimed
      <3> QED
        BY <3>1, <3>2
    <2>7. Routed'
      <3> SUFFICES ASSUME NEW d \in Socket, pend'[d] # Nil, pend'[d].to \in up
                   PROVE  lock'.owner = pend'[d].to
        BY <1>0 DEF Routed
      <3>1. CASE d = c
        BY <2>3, <3>1
      <3>2. CASE d # c
        <4>1. pend'[d] = pend[d] /\ lock.owner = pend[d].to
          BY <2>3, <3>2 DEF Ruled, Routed
        <4> QED
          BY <2>4, <4>1, Types
      <3> QED
        BY <3>1, <3>2
    <2>8. Delivered'
      BY <1>0, <2>4, Types DEF Ruled, Delivered
    <2>9. Cached'
      <3> SUFFICES ASSUME NEW u \in up, NEW v \in up, cache'[u] = v PROVE lock'.owner = v
        BY <1>0 DEF Cached
      <3>1. CASE u = s
        BY <2>3, <3>1
      <3>2. CASE u # s
        <4>1. lock.owner = v
          BY <1>0, <2>3, <3>2, Types DEF Ruled, Cached
        <4> QED
          BY <2>4, <4>1, Types
      <3> QED
        BY <3>1, <3>2
    <2> QED
      BY <2>5, <2>6, <2>7, <2>8, <2>9 DEF Ruled
  <1> QED
    BY <1>3, <1>4, <1>5

\* The lock, the answers and the routes stay: what is left to show is little.
LEMMA SameLock ==
  ASSUME TypeOK, Ruled, UNCHANGED <<up, lock, cache>>,
         Owned', open \subseteq open',
         \A c \in Socket : pend'[c] # Nil => pend'[c] = pend[c],
         \A c \in Socket : pend[c] # Nil /\ pend[c].from = pend[c].to /\ at[c] = pend[c].to
                             /\ pend[c].to \notin open'
                             => pend'[c] = pend[c] /\ at'[c] = at[c],
         \A s \in up : Kind(inbox'[s], "proxy") => Kind(inbox[s], "proxy") \/ lock.owner = s,
         \A s \in up : Kind(inbox[s], "unload") => Kind(inbox'[s], "unload") \/ cache[s] = Nil
  PROVE  Ruled'
  <1>1. Claimed'
    <2> SUFFICES ASSUME NEW s \in up \ open', lock.owner = s
                 PROVE  /\ lock.left > Half
                        /\ \E c \in Socket : pend'[c] = [from |-> s, to |-> s] /\ at'[c] = s
      BY DEF Claimed
    <2>1. s \in up \ open
      OBVIOUS
    <2>2. PICK c \in Socket : pend[c] = [from |-> s, to |-> s] /\ at[c] = s
      BY <2>1 DEF Ruled, Claimed
    <2>3. pend[c] # Nil
      BY <2>2, Types
    <2>4. pend'[c] = pend[c] /\ at'[c] = at[c]
      BY <2>2, <2>3
    <2> QED
      BY <2>1, <2>2, <2>4 DEF Ruled, Claimed
  <1>2. Routed'
    BY DEF Ruled, Routed
  <1>3. Delivered'
    BY DEF Ruled, Delivered
  <1>4. Cached'
    <2> SUFFICES ASSUME NEW s \in up, NEW t \in up, cache[s] = t
                 PROVE  lock.owner = t \/ Kind(inbox'[s], "unload")
      BY DEF Cached
    <2>1. lock.owner = t \/ Kind(inbox[s], "unload")
      BY DEF Ruled, Cached
    <2>2. cache[s] # Nil
      BY Types
    <2> QED
      BY <2>1, <2>2
  <1> QED
    BY <1>1, <1>2, <1>3, <1>4 DEF Ruled

\* What the messages that waited for the lock do, and the close of a socket.
LEMMA SocketRuled ==
  ASSUME ~ClaimRefused, ~ClaimClosed, TypeOK, Ruled, NEW c \in Socket,
         ServeHere(c) \/ RefuseHere(c) \/ DropClosed(c) \/ Forward(c) \/ Close(c)
  PROVE  Ruled'
  <1> USE DEF timers, sockets
  <1>0. Owned /\ inbox \in [Server -> Seq(Message)] /\ up \subseteq Server
    BY Types DEF Ruled
  <1>1. CASE ServeHere(c)
    <2>1. /\ pend[c] # Nil /\ pend[c].to = pend[c].from /\ at[c] = pend[c].from
          /\ Join(c, at[c]) /\ pend' = [pend EXCEPT ![c] = Nil]
          /\ UNCHANGED <<up, lock, cache, at, inbox>>
      BY <1>1 DEF ServeHere
    <2>2. at[c] \in up /\ lock.owner = at[c]
      BY <2>1, Types DEF Ruled, Routed
    <2>3. Owned' /\ open' = open \cup {at[c]}
      BY <2>1, <2>2, JoinOwned DEF Join
    <2>4. \A d \in Socket : d # c => pend'[d] = pend[d]
      BY <2>1, Types
    <2>5. pend'[c] = Nil
      BY <2>1, Types
    <2> QED
      BY <2>1, <2>3, <2>4, <2>5, SameLock
  <1>2. CASE RefuseHere(c)
    <2>1. /\ ~Claims(c) /\ pend[c].to = pend[c].from /\ pend[c] # Nil
          /\ pend' = [pend EXCEPT ![c] = Nil]
          /\ UNCHANGED <<up, lock, open, beat, cache, at, inbox>>
      BY <1>2 DEF RefuseHere, ClaimRefused
    <2>2. pend'[c] = Nil /\ \A d \in Socket : d # c => pend'[d] = pend[d]
      BY <2>1, Types
    <2>3. ~(at[c] = pend[c].to /\ pend[c].to \notin open)
      BY <2>1 DEF Claims
    <2>4. Owned'
      BY <1>0, <2>1 DEF Owned
    <2> QED
      BY <2>1, <2>2, <2>3, <2>4, SameLock
  <1>3. CASE DropClosed(c)
    <2>1. /\ at[c] = Nil /\ pend' = [pend EXCEPT ![c] = Nil]
          /\ UNCHANGED <<up, lock, open, beat, cache, at, inbox>>
      BY <1>3 DEF DropClosed
    <2>2. pend'[c] = Nil /\ \A d \in Socket : d # c => pend'[d] = pend[d]
      BY <2>1, Types
    <2>3. \A d \in Socket : pend[d] # Nil => pend[d].to # Nil
      BY Types
    <2>4. Owned'
      BY <1>0, <2>1 DEF Owned
    <2> QED
      BY <2>1, <2>2, <2>3, <2>4, SameLock
  <1>4. CASE Forward(c)
    <2> DEFINE to == {pend[c].to} \cap up
               m == [type |-> "proxy", socket |-> c]
    <2>1. /\ pend[c] # Nil /\ pend[c].to # pend[c].from
          /\ inbox' = Broadcast(m, to) /\ pend' = [pend EXCEPT ![c] = Nil]
          /\ UNCHANGED <<up, lock, open, beat, cache, at>>
      BY <1>4 DEF Forward
    <2>2. pend'[c] = Nil /\ \A d \in Socket : d # c => pend'[d] = pend[d]
      BY <2>1, Types
    <2>3. \A s \in to : lock.owner = s
      BY <2>1 DEF Ruled, Routed
    <2>4. m \in Message
      BY DEF Message
    <2>5. Owned'
      BY <1>0, <2>1 DEF Owned
    <2> HIDE DEF to, m
    <2>6. /\ \A s \in Server : \A y : Kind(inbox[s], y) => Kind(inbox'[s], y)
          /\ \A s \in Server : \A y :
               Kind(inbox'[s], y) => Kind(inbox[s], y) \/ (s \in to /\ m.type = y)
      BY <1>0, <2>1, <2>4, BroadcastKinds
    <2> QED
      BY <1>0, <2>1, <2>2, <2>3, <2>5, <2>6, SameLock
  <1>5. CASE Close(c)
    <2> DEFINE to == Proxying(c) \ {at[c]}
               m == [type |-> "closeProxy", socket |-> c]
    <2>1. /\ ~Claims(c) /\ at' = [at EXCEPT ![c] = Nil] /\ inbox' = Broadcast(m, to)
          /\ UNCHANGED <<up, lock, open, beat, cache, pend>>
      BY <1>5 DEF Close, ClaimClosed
    <2>2. /\ \A d \in Socket : d # c => at'[d] = at[d]
          /\ ~(/\ pend[c] # Nil /\ pend[c].from = pend[c].to
               /\ at[c] = pend[c].to /\ pend[c].to \notin open)
      BY <2>1, Types DEF Claims
    <2>3. m \in Message /\ m.type = "closeProxy"
      BY DEF Message
    <2>4. Owned'
      BY <1>0, <2>1 DEF Owned
    <2> HIDE DEF to, m
    <2>5. /\ \A s \in Server : \A y : Kind(inbox[s], y) => Kind(inbox'[s], y)
          /\ \A s \in Server : \A y :
               Kind(inbox'[s], y) => Kind(inbox[s], y) \/ (s \in to /\ m.type = y)
      BY <1>0, <2>1, <2>3, BroadcastKinds
    <2>6. \A s \in up : Kind(inbox'[s], "proxy") => Kind(inbox[s], "proxy")
      BY <1>0, <2>3, <2>5
    <2> QED
      BY <1>0, <2>1, <2>2, <2>4, <2>5, <2>6, SameLock
  <1> QED
    BY <1>1, <1>2, <1>3, <1>4, <1>5

\* What the messages of other servers do.
LEMMA MessageRuled ==
  ASSUME TypeOK, Ruled, NEW s \in Server,
         HandleProxyMessage(s) \/ RefuseProxyMessage(s) \/ CloseProxy(s) \/ DropCached(s)
  PROVE  Ruled'
  <1> USE DEF timers, sockets
  <1>0. Owned /\ inbox \in [Server -> Seq(Message)] /\ up \subseteq Server
    BY Types DEF Ruled
  <1>1. ASSUME NEW type, Receive(s, type)
        PROVE  /\ s \in up /\ Head(inbox[s]) \in Message /\ Head(inbox[s]).type = type
               /\ Kind(inbox[s], type)
               /\ \A t \in Server : \A y : Kind(inbox'[t], y) => Kind(inbox[t], y)
               /\ \A t \in Server : \A y : Kind(inbox[t], y) /\ y # type => Kind(inbox'[t], y)
               /\ \A t \in Server : t # s => inbox'[t] = inbox[t]
    <2>1. s \in up /\ Head(inbox[s]).type = type
      BY <1>0, <1>1 DEF Receive, TypeOK
    <2> QED
      BY <1>0, <1>1, <2>1, ReceiveKinds
  <1>2. CASE HandleProxyMessage(s)
    <2>1. /\ Receive(s, "proxy") /\ Join(Head(inbox[s]).socket, s)
          /\ UNCHANGED <<up, lock, cache, at, pend>>
      BY <1>2 DEF HandleProxyMessage
    <2>2. s \in up /\ lock.owner = s /\ Head(inbox[s]).socket \in Socket
      BY <1>1, <2>1 DEF Ruled, Delivered, Message
    <2>3. Owned' /\ open' = open \cup {s}
      BY <2>1, <2>2, JoinOwned DEF Join
    <2> QED
      BY <1>0, <1>1, <2>1, <2>3, SameLock
  <1>3. CASE RefuseProxyMessage(s)
    <2>1. Receive(s, "proxy") /\ UNCHANGED <<up, lock, open, beat, cache, at, pend>>
      BY <1>3 DEF RefuseProxyMessage
    <2>2. Owned'
      BY <1>0, <2>1 DEF Owned
    <2> QED
      BY <1>0, <1>1, <2>1, <2>2, SameLock
  <1>4. CASE CloseProxy(s)
    <2>1. Receive(s, "closeProxy") /\ UNCHANGED <<up, lock, open, beat, cache, at, pend>>
      BY <1>4 DEF CloseProxy
    <2>2. Owned'
      BY <1>0, <2>1 DEF Owned
    <2> QED
      BY <1>0, <1>1, <2>1, <2>2, SameLock
  <1>5. CASE DropCached(s)
    <2>1. /\ Receive(s, "unload") /\ cache' = [cache EXCEPT ![s] = Nil]
          /\ UNCHANGED <<up, lock, open, beat, at, pend>>
      BY <1>5 DEF DropCached
    <2>2. Delivered'
      BY <1>0, <1>1, <2>1 DEF Ruled, Delivered
    <2>3. cache'[s] = Nil /\ \A t \in Server : t # s => cache'[t] = cache[t]
      BY <2>1, Types
    <2>4. Cached'
      <3> SUFFICES ASSUME NEW u \in up, NEW v \in up, cache'[u] = v
                   PROVE  lock.owner = v \/ Kind(inbox'[u], "unload")
        BY <2>1 DEF Cached
      <3>1. u # s
        BY <2>3, Types
      <3>2. cache[u] = v /\ inbox'[u] = inbox[u]
        BY <1>0, <1>1, <2>1, <2>3, <3>1
      <3> QED
        BY <3>2 DEF Ruled, Cached
    <2> QED
      BY <2>1, <2>2, <2>4 DEF Ruled, Owned, Claimed, Routed
  <1> QED
    BY <1>2, <1>3, <1>4, <1>5

\* Unloads, crashes and timers of a server.
LEMMA ServerRuled ==
  ASSUME ~UnloadCrossed, TypeOK, Ruled, NEW s \in Server,
         Unload(s) \/ Crash(s) \/ Refresh(s) \/ Sweep(s)
  PROVE  Ruled'
  <1> USE DEF timers, sockets
  <1>0. Owned /\ inbox \in [Server -> Seq(Message)] /\ up \subseteq Server
    BY Types DEF Ruled
  <1>1. CASE Unload(s)
    <2> DEFINE m == [type |-> "unload", socket |-> Nil]
    <2>1. /\ s \in open /\ open' = open \ {s} /\ lock' = Free
          /\ inbox' = Broadcast(m, up)
          /\ \A c \in Socket : pend[c] = Nil
          /\ \A t \in Server : ~Kind(inbox[t], "proxy")
          /\ UNCHANGED <<up, cache, pend>>
      BY <1>1 DEF Unload, UnloadCrossed, InFlight, Kind
    <2>2. open' = {}
      BY <1>0, <2>1 DEF Owned
    <2>3. m \in Message /\ m.type = "unload"
      BY DEF Message
    <2> HIDE DEF m
    <2>4. \A t \in up : Kind(inbox'[t], "unload") /\ ~Kind(inbox'[t], "proxy")
      BY <1>0, <2>1, <2>3, BroadcastKinds
    <2>5. \A t \in up : lock'.owner # t
      BY <2>1, Types DEF Free
    <2> QED
      BY <2>1, <2>2, <2>4, <2>5 DEF Ruled, Owned, Claimed, Routed, Delivered, Cached
  <1>2. CASE Crash(s)
    <2>1. /\ up' = up \ {s} /\ open' = open \ {s} /\ lock' = lock
          /\ \A t \in Server : t # s => /\ beat'[t] = beat[t] /\ cache'[t] = cache[t]
                                        /\ inbox'[t] = inbox[t]
          /\ \A c \in Socket : at'[c] = IF at[c] = s THEN Nil ELSE at[c]
          /\ \A c \in Socket :
               pend'[c] = IF pend[c] # Nil /\ pend[c].from = s THEN Nil ELSE pend[c]
      BY <1>2, Types DEF Crash
    <2>2. Owned'
      BY <1>0, <2>1, Types DEF Owned
    <2>3. Claimed'
      <3> SUFFICES ASSUME NEW t \in up' \ open', lock.owner = t
                   PROVE  /\ lock.left > Half
                          /\ \E c \in Socket : pend'[c] = [from |-> t, to |-> t] /\ at'[c] = t
        BY <2>1 DEF Claimed
      <3>1. PICK c \in Socket : pend[c] = [from |-> t, to |-> t] /\ at[c] = t
        BY <2>1 DEF Ruled, Claimed
      <3> QED
        BY <2>1, <3>1 DEF Ruled, Claimed
    <2>4. Routed'
      BY <2>1 DEF Ruled, Routed
    <2>5. Delivered' /\ Cached'
      BY <1>0, <2>1 DEF Ruled, Delivered, Cached
    <2> QED
      BY <2>2, <2>3, <2>4, <2>5 DEF Ruled
  <1>3. CASE Refresh(s)
    <2>1. /\ s \in open /\ s \in up /\ lock.owner = s /\ lock' = HeldBy(s)
          /\ beat' = [beat EXCEPT ![s] = Half]
          /\ UNCHANGED <<up, open, cache, at, pend, inbox>>
      BY <1>0, <1>3, Types DEF Refresh, Owned
    <2>2. lock'.owner = s /\ lock'.left = TTL /\ beat'[s] = Half
      BY <2>1, HeldType, Types
    <2>3. \A t \in open : t = s
      BY <1>0, <2>1 DEF Owned
    <2>4. Owned'
      BY <2>1, <2>2, <2>3, Lifetimes DEF Owned
    <2>5. Claimed'
      BY <2>1, <2>2 DEF Claimed
    <2> QED
      BY <2>1, <2>2, <2>4, <2>5 DEF Ruled, Routed, Delivered, Cached
  <1>4. CASE Sweep(s)
    <2>1. cache' = [cache EXCEPT ![s] = Nil] /\ UNCHANGED <<up, lock, open, beat, at, pend, inbox>>
      BY <1>4 DEF Sweep
    <2>2. \A u, v \in up : cache'[u] = v => cache[u] = v
      BY <2>1, Types
    <2> QED
      BY <2>1, <2>2 DEF Ruled, Owned, Claimed, Routed, Delivered, Cached
  <1> QED
    BY <1>1, <1>2, <1>3, <1>4

\* The clock: a loaded document is refreshed before its lock runs out, and a
\* claimed lock lasts until the document is loaded and refreshed.
LEMMA TickRuled ==
  ASSUME ~ClaimLate, TypeOK, Ruled, Tick
  PROVE  Ruled'
  <1>1. /\ \A s \in open : beat[s] # 0
        /\ \A s \in open : beat'[s] = beat[s] - 1
        /\ UNCHANGED <<up, open, cache, at, pend, inbox>>
    BY Types DEF Tick, Due, sockets
  <1>2. ASSUME NEW s \in open
        PROVE  lock.left > 1 /\ lock.left - 1 > beat'[s]
    <2>1. lock.owner = s /\ lock.left > beat[s] /\ beat[s] \in 1..Half
      BY <1>1, Types DEF Ruled, Owned
    <2>2. lock.left \in 1..TTL
      BY <2>1, LockType, Types
    <2> QED
      BY <1>1, <2>1, <2>2, Lifetimes
  <1>3. ASSUME NEW s \in up \ open, lock.owner = s
        PROVE  lock.left > 1 /\ lock.left - 1 > Half
    <2>1. PICK c \in Socket : pend[c] = [from |-> s, to |-> s] /\ at[c] = s
      BY <1>3 DEF Ruled, Claimed
    <2>2. Claims(c)
      BY <2>1, Types DEF Claims
    <2>3. lock.left # Half + 1
      BY <2>2 DEF ClaimLate
    <2>4. lock.left > Half /\ lock.left \in 1..TTL
      BY <1>3, LockType, Types DEF Ruled, Claimed
    <2> QED
      BY <2>3, <2>4, Lifetimes
  <1>4. ASSUME NEW s \in up, lock.owner = s
        PROVE  lock'.owner = s /\ lock'.left = lock.left - 1
    <2>1. lock.owner # Nil /\ lock.left > 1
      BY <1>2, <1>3, <1>4, Types
    <2> QED
      BY <1>4, <2>1, Ageing
  <1>5. ASSUME NEW s \in up, lock'.owner = s PROVE lock.owner = s
    BY <1>5, Ageing, Types
  <1>6. Owned'
    <2> SUFFICES ASSUME NEW s \in open PROVE lock'.owner = s /\ lock'.left > beat'[s]
      BY <1>1 DEF Owned
    <2>1. s \in up /\ lock.owner = s
      BY Types DEF Ruled, Owned
    <2> QED
      BY <1>2, <1>4, <2>1
  <1>7. Claimed'
    BY <1>1, <1>3, <1>4, <1>5 DEF Ruled, Claimed
  <1>8. Routed' /\ Delivered'
    BY <1>1, <1>4 DEF Ruled, Routed, Delivered
  <1>9. Cached'
    BY <1>1, <1>4 DEF Ruled, Cached
  <1> QED
    BY <1>6, <1>7, <1>8, <1>9 DEF Ruled

\* A server that has the document loaded has its lock, and so no two servers
\* have it loaded, unless one of four things happened: the socket that claimed
\* the lock was refused, or closed, or waited for half of its lifetime, before it
\* loaded the document, or an unload and a routed message crossed.  Refused and
\* closed sockets of a loaded document, late messages, crashes and proxied
\* sockets that nobody serves do no harm.
THEOREM Ownership == CalmSpec => [](OpenOwnsLock /\ SingleOwner)
  <1>1. Init => Ruled
    BY NilAssumption DEF Init, Ruled, Owned, Claimed, Routed, Delivered, Cached, Free, Kind
  <1>2. TypeOK /\ Ruled /\ [CalmNext]_vars => Ruled'
    <2> SUFFICES ASSUME TypeOK, Ruled, [CalmNext]_vars PROVE Ruled'
      OBVIOUS
    <2>0. CASE UNCHANGED vars
      BY <2>0 DEF vars, Ruled, Owned, Claimed, Routed, Delivered, Cached
    <2> SUFFICES ASSUME CalmNext PROVE Ruled'
      BY <2>0
    <2> USE DEF CalmNext
    <2>1. ASSUME NEW c \in Socket, NEW s \in Server,
                 ConnectLoaded(c, s) \/ ConnectCached(c, s) \/ ConnectAsking(c, s)
          PROVE  Ruled'
      BY <2>1, ConnectRuled
    <2>2. ASSUME NEW c \in Socket,
                 ServeHere(c) \/ RefuseHere(c) \/ DropClosed(c) \/ Forward(c) \/ Close(c)
          PROVE  Ruled'
      BY <2>2, SocketRuled
    <2>3. ASSUME NEW s \in Server,
                 \/ HandleProxyMessage(s) \/ RefuseProxyMessage(s)
                 \/ CloseProxy(s) \/ DropCached(s)
          PROVE  Ruled'
      BY <2>3, MessageRuled
    <2>4. ASSUME NEW s \in Server, Unload(s) \/ Crash(s) \/ Refresh(s) \/ Sweep(s)
          PROVE  Ruled'
      BY <2>4, ServerRuled
    <2>5. ASSUME NEW s \in Server, NEW c \in Socket, PingTimeout(s, c) PROVE Ruled'
      BY <2>5 DEF PingTimeout, Ruled, Owned, Claimed, Routed, Delivered, Cached, timers
    <2>6. CASE Tick
      BY <2>6, TickRuled
    <2> QED
      BY <2>1, <2>2, <2>3, <2>4, <2>5, <2>6 DEF Next
  <1>3. Ruled => OpenOwnsLock /\ SingleOwner
    BY DEF Ruled, Owned, OpenOwnsLock, SingleOwner
  <1>4. [CalmNext]_vars => [Next]_vars
    BY DEF CalmNext
  <1> QED
    BY <1>1, <1>2, <1>3, <1>4, Typing, PTL DEF CalmSpec, Spec
===============================================================================
