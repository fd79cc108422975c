------------------------------ MODULE CollabLock ------------------------------
(***************************************************************************)
(* Which collaboration server serves a document: the redis lock, the cached *)
(* answers to it, the sockets routed by them and the proxying of a socket   *)
(* to another server (collaboration/extensions/redis-sync).                 *)
(*                                                                          *)
(* One document, several servers.  A socket is one websocket connection: it *)
(* arrives at any server (its origin), asks for the document, and is served *)
(* there or, through redis messages, at the server that holds the lock.     *)
(* Time passes in ticks; timers that are due run before the next tick.  A   *)
(* server that stops comes back under another id, so it is gone for good.   *)
(***************************************************************************)
EXTENDS Integers, Sequences

CONSTANTS
    Server,   \* running collaboration processes (serverId)
    Socket,   \* websocket connections; one is used again when nothing is left of it
    Half,     \* half of lockTTL in ticks: cache timeout and refresh interval
    Room,     \* bound: messages queued at one server when a socket opens
    Nil

ASSUME HalfAssumption == Half \in Nat \ {0}
ASSUME RoomAssumption == Room \in Nat \ {0}
ASSUME NilAssumption == Nil \notin Server \cup Socket \cup [from : Server, to : Server]

VARIABLES
    up,       \* servers that run
    lock,     \* the redis key collabLock:<document>: owner and ticks left
    open,     \* servers that have the document loaded, each with a refresh interval
    beat,     \* ticks to the next refresh of the lock by a server
    cache,    \* lockPromises: the owner a server believes in, or Nil
    sweeps,   \* the timeouts that delete the cached answer, in ticks to go
    at,       \* the server a socket is connected to, or Nil when it is closed
    pend,     \* a message that waits for the answer of the lock: from, to
    conns,    \* the sockets a server serves, its own and proxied ones
    inbox,    \* redis messages published to a server and not handled yet
    dead      \* ticks since a server stopped

vars == <<up, lock, open, beat, cache, sweeps, at, pend, conns, inbox, dead>>
sockets == <<at, pend, conns>>
timers == <<beat, cache, sweeps>>

TTL == 2 * Half
Forgotten == TTL + Half
Free == [owner |-> Nil, left |-> 0]
HeldBy(s) == [owner |-> s, left |-> TTL]

Message == [type : {"proxy", "closeProxy"}, socket : Socket]
           \cup [type : {"unload"}, socket : {Nil}]

Init ==
    /\ up = Server
    /\ lock = Free
    /\ open = {}
    /\ beat = [s \in Server |-> 0]
    /\ cache = [s \in Server |-> Nil]
    /\ sweeps = [s \in Server |-> {}]
    /\ at = [c \in Socket |-> Nil]
    /\ pend = [c \in Socket |-> Nil]
    /\ conns = [s \in Server |-> {}]
    /\ inbox = [s \in Server |-> <<>>]
    /\ dead = [s \in Server |-> 0]
-------------------------------------------------------------------------------
(* Routing *)

InFlight(type) == \E s \in Server : \E i \in DOMAIN inbox[s] : inbox[s][i].type = type

\* Published on the common channel: every running server gets it.
Broadcast(m, to) == [s \in Server |-> IF s \in to THEN Append(inbox[s], m) ELSE inbox[s]]

\* Nothing is left of the socket that last had this name.
Fresh(c) ==
    /\ at[c] = Nil /\ pend[c] = Nil
    /\ \A s \in Server : /\ c \notin conns[s]
                         /\ \A i \in DOMAIN inbox[s] : inbox[s][i].socket # c

\* Mutant: the answer is cached without a timeout.
GetOrClaimLockKeep(s) ==
    /\ lock' = IF lock.owner = Nil THEN HeldBy(s) ELSE lock
    /\ cache' = [cache EXCEPT ![s] = lock'.owner]
    /\ UNCHANGED sweeps

\* Mutant: the timeout of the cached answer is the whole TTL.
GetOrClaimLockWhole(s) ==
    /\ lock' = IF lock.owner = Nil THEN HeldBy(s) ELSE lock
    /\ cache' = [cache EXCEPT ![s] = lock'.owner]
    /\ sweeps' = [sweeps EXCEPT ![s] = @ \cup {TTL}]

\* SET key serverId PX lockTTL NX GET: takes the lock when it is free, tells
\* who has it otherwise.  The timeout of an earlier answer is not cancelled.
GetOrClaimLock(s) ==
    /\ lock' = IF lock.owner = Nil THEN HeldBy(s) ELSE lock
    /\ cache' = [cache EXCEPT ![s] = lock'.owner]
    /\ sweeps' = [sweeps EXCEPT ![s] = @ \cup {Half}]

\* A socket opens at a server and sends its first message, which names the document.
Connect(c, s) ==
    /\ Fresh(c) /\ s \in up
    /\ \A t \in Server : Len(inbox[t]) < Room
    /\ at' = [at EXCEPT ![c] = s]

\* The document is loaded here.
ConnectLoaded(c, s) ==
    /\ Connect(c, s)
    /\ s \in open
    /\ pend' = [pend EXCEPT ![c] = [from |-> s, to |-> s]]
    /\ UNCHANGED <<up, lock, open, beat, cache, sweeps, conns, inbox, dead>>

\* It is not, and the owner is known from an earlier message.
ConnectCached(c, s) ==
    /\ Connect(c, s)
    /\ s \notin open /\ cache[s] # Nil
    /\ pend' = [pend EXCEPT ![c] = [from |-> s, to |-> cache[s]]]
    /\ UNCHANGED <<up, lock, open, beat, cache, sweeps, conns, inbox, dead>>

\* The owner has to be asked for.
ConnectAsking(c, s) ==
    /\ Connect(c, s)
    /\ s \notin open /\ cache[s] = Nil
    /\ GetOrClaimLock(s)
    /\ pend' = [pend EXCEPT ![c] = [from |-> s, to |-> lock'.owner]]
    /\ UNCHANGED <<up, open, beat, conns, inbox, dead>>
-------------------------------------------------------------------------------
(* Serving *)

\* Mutant: the interval that refreshes the lock starts with a whole TTL.
JoinLateRefresh(c, s) ==
    /\ conns' = [conns EXCEPT ![s] = @ \cup {c}]
    /\ open' = open \cup {s}
    /\ beat' = IF s \in open THEN beat ELSE [beat EXCEPT ![s] = TTL]

\* The document is loaded if it is not (onLoadDocument: maintainLock starts the
\* interval that refreshes the lock, first after half of its TTL; nothing asks
\* who has the lock) and the socket is connected to it.
Join(c, s) ==
    /\ conns' = [conns EXCEPT ![s] = @ \cup {c}]
    /\ open' = open \cup {s}
    /\ beat' = IF s \in open THEN beat ELSE [beat EXCEPT ![s] = Half]

\* The lock said that this server serves the document.
ServeHere(c) ==
    /\ pend[c] # Nil /\ pend[c].to = pend[c].from
    /\ at[c] = pend[c].from
    /\ Join(c, at[c])
    /\ pend' = [pend EXCEPT ![c] = Nil]
    /\ UNCHANGED <<up, lock, cache, sweeps, at, inbox, dead>>

\* Authentication refuses the socket: nothing is loaded, the lock stays.
RefuseHere(c) ==
    /\ pend[c] # Nil /\ pend[c].to = pend[c].from
    /\ pend' = [pend EXCEPT ![c] = Nil]
    /\ UNCHANGED <<up, lock, open, timers, at, conns, inbox, dead>>

\* The socket was closed while the lock was asked for.
DropClosed(c) ==
    /\ pend[c] # Nil /\ pend[c].to = pend[c].from
    /\ at[c] = Nil
    /\ pend' = [pend EXCEPT ![c] = Nil]
    /\ UNCHANGED <<up, lock, open, timers, at, conns, inbox, dead>>

\* Another server has the lock: the message is published to it, whether or not
\* the socket is still there.  Nobody hears it when that server is gone.
Forward(c) ==
    /\ pend[c] # Nil /\ pend[c].to # pend[c].from
    /\ inbox' = Broadcast([type |-> "proxy", socket |-> c], {pend[c].to} \cap up)
    /\ pend' = [pend EXCEPT ![c] = Nil]
    /\ UNCHANGED <<up, lock, open, timers, at, conns, dead>>

Receive(s, type) ==
    /\ inbox[s] # <<>> /\ Head(inbox[s]).type = type
    /\ inbox' = [inbox EXCEPT ![s] = Tail(@)]

\* handleProxyMessage: serves the socket of another server without asking for the lock.
HandleProxyMessage(s) ==
    /\ Receive(s, "proxy")
    /\ Join(Head(inbox[s]).socket, s)
    /\ UNCHANGED <<up, lock, cache, sweeps, at, pend, dead>>

RefuseProxyMessage(s) ==
    /\ Receive(s, "proxy")
    /\ UNCHANGED <<up, lock, open, timers, sockets, dead>>
-------------------------------------------------------------------------------
(* Leaving *)

\* The servers on which closing the proxy of a socket has an effect.
Proxying(c) ==
    {s \in up : c \in conns[s] \/ \E i \in DOMAIN inbox[s] : inbox[s][i].socket = c}

\* The socket closes, or the browser is gone (onSocketClose): a connection here
\* ends, and the other servers are told to end theirs.  The message overtakes
\* one that still waits for the lock.
Close(c) ==
    /\ at[c] # Nil
    /\ at' = [at EXCEPT ![c] = Nil]
    /\ conns' = [conns EXCEPT ![at[c]] = @ \ {c}]
    /\ inbox' = Broadcast([type |-> "closeProxy", socket |-> c], Proxying(c) \ {at[c]})
    /\ UNCHANGED <<up, lock, open, timers, pend, dead>>

CloseProxy(s) ==
    /\ Receive(s, "closeProxy")
    /\ conns' = [conns EXCEPT ![s] = @ \ {Head(inbox[s]).socket}]
    /\ UNCHANGED <<up, lock, open, timers, at, pend, dead>>

\* Pings of a proxied socket that its origin does not know are not answered:
\* hocuspocus gives the connection up.
PingTimeout(s, c) ==
    /\ c \in conns[s] /\ at[c] = Nil
    /\ conns' = [conns EXCEPT ![s] = @ \ {c}]
    /\ UNCHANGED <<up, lock, open, timers, at, pend, inbox, dead>>

\* Mutant: the other servers are not told.
UnloadSilently(s) ==
    /\ s \in open /\ conns[s] = {}
    /\ open' = open \ {s}
    /\ beat' = [beat EXCEPT ![s] = 0]
    /\ lock' = Free
    /\ UNCHANGED <<up, cache, sweeps, sockets, inbox, dead>>

\* hocuspocus unloads a document that nobody is connected to
\* (afterUnloadDocument): the interval stops, the key is deleted whoever owns
\* it, and every server, this one too, is told to drop its cached answer.
Unload(s) ==
    /\ s \in open /\ conns[s] = {}
    /\ open' = open \ {s}
    /\ beat' = [beat EXCEPT ![s] = 0]
    /\ lock' = Free
    /\ inbox' = Broadcast([type |-> "unload", socket |-> Nil], up)
    /\ UNCHANGED <<up, cache, sweeps, sockets, dead>>

DropCached(s) ==
    /\ Receive(s, "unload")
    /\ cache' = [cache EXCEPT ![s] = Nil]
    /\ UNCHANGED <<up, lock, open, beat, sweeps, sockets, dead>>

\* A server stops without a word, with its sockets; the others go on.
Crash(s) ==
    /\ s \in up /\ up # {s}
    /\ up' = up \ {s}
    /\ open' = open \ {s}
    /\ beat' = [beat EXCEPT ![s] = 0]
    /\ cache' = [cache EXCEPT ![s] = Nil]
    /\ sweeps' = [sweeps EXCEPT ![s] = {}]
    /\ conns' = [conns EXCEPT ![s] = {}]
    /\ inbox' = [inbox EXCEPT ![s] = <<>>]
    /\ at' = [c \in Socket |-> IF at[c] = s THEN Nil ELSE at[c]]
    /\ pend' = [c \in Socket |-> IF pend[c] # Nil /\ pend[c].from = s THEN Nil ELSE pend[c]]
    /\ UNCHANGED <<lock, dead>>
-------------------------------------------------------------------------------
(* Time *)

\* The interval of maintainLock: SET key serverId PX lockTTL, without NX.
Refresh(s) ==
    /\ s \in open /\ beat[s] = 0
    /\ lock' = HeldBy(s)
    /\ beat' = [beat EXCEPT ![s] = Half]
    /\ UNCHANGED <<up, open, cache, sweeps, sockets, inbox, dead>>

\* A timeout of getOrClaimLock: it deletes whatever is cached by now.
Sweep(s) ==
    /\ 0 \in sweeps[s]
    /\ sweeps' = [sweeps EXCEPT ![s] = @ \ {0}]
    /\ cache' = [cache EXCEPT ![s] = Nil]
    /\ UNCHANGED <<up, lock, open, beat, sockets, inbox, dead>>

Due(s) == (s \in open /\ beat[s] = 0) \/ 0 \in sweeps[s]

\* Nothing waits for an answer or a message.
Still == (\A c \in Socket : pend[c] = Nil) /\ (\A s \in Server : inbox[s] = <<>>)

Tick ==
    /\ \A s \in Server : ~Due(s)
    /\ lock' = IF lock.left <= 1 THEN Free ELSE [lock EXCEPT !.left = @ - 1]
    /\ beat' = [s \in Server |-> IF s \in open THEN beat[s] - 1 ELSE 0]
    /\ sweeps' = [s \in Server |-> {x - 1 : x \in sweeps[s]}]
    /\ dead' = [s \in Server |-> IF s \in up \/ dead[s] = Forgotten THEN dead[s] ELSE dead[s] + 1]
    /\ UNCHANGED <<up, open, cache, sockets, inbox>>

Next ==
    \/ \E c \in Socket, s \in Server :
          ConnectLoaded(c, s) \/ ConnectCached(c, s) \/ ConnectAsking(c, s)
    \/ \E c \in Socket : ServeHere(c) \/ RefuseHere(c) \/ DropClosed(c) \/ Forward(c) \/ Close(c)
    \/ \E s \in Server : HandleProxyMessage(s) \/ RefuseProxyMessage(s) \/ CloseProxy(s)
    \/ \E s \in Server, c \in Socket : PingTimeout(s, c)
    \/ \E s \in Server : Unload(s) \/ DropCached(s) \/ Crash(s) \/ Refresh(s) \/ Sweep(s)
    \/ Tick

Spec == Init /\ [][Next]_vars

\* Timers run and messages arrive, with a moment of rest again and again; a
\* server pings; some client always tries
\* again and at last one is patient enough to be served.
Fairness ==
    /\ []<>Still /\ SF_vars(Tick)
    /\ \A s \in Server :
         /\ WF_vars(Refresh(s)) /\ WF_vars(Sweep(s))
         /\ SF_vars(HandleProxyMessage(s)) /\ WF_vars(CloseProxy(s)) /\ WF_vars(DropCached(s))
         /\ WF_vars(\E c \in Socket : PingTimeout(s, c))
    /\ \A c \in Socket : SF_vars(ServeHere(c)) /\ WF_vars(DropClosed(c)) /\ WF_vars(Forward(c))
    /\ \A c \in Socket : WF_vars(Close(c) /\ \A s \in Server : c \notin conns[s])
    /\ \A s \in Server : SF_vars(\E c \in Socket : ConnectLoaded(c, s) \/ ConnectCached(c, s) \/ ConnectAsking(c, s))

FairSpec == Spec /\ Fairness
-------------------------------------------------------------------------------
(* What the lock does not guard against: it is claimed by a message and the *)
(* document is loaded later, and it is deleted while messages travel.       *)

\* The answer named the server of the socket, which has not loaded the document yet.
Claims(c) ==
    /\ pend[c] # Nil /\ pend[c].to = pend[c].from
    /\ at[c] = pend[c].from /\ at[c] \notin open

\* The socket that was to load the document is refused, or closes.
ClaimRefused == \E c \in Socket : Claims(c) /\ RefuseHere(c)
ClaimClosed == \E c \in Socket : Claims(c) /\ Close(c)

\* It still waits when half of the lifetime of the lock is over.
ClaimLate == Tick /\ lock.left = Half + 1 /\ \E c \in Socket : Claims(c)

\* A routed message and an unload cross.
UnloadCrossed ==
    \/ /\ InFlight("unload")
       /\ \E c \in Socket, s \in Server :
              ConnectLoaded(c, s) \/ ConnectCached(c, s) \/ ConnectAsking(c, s)
    \/ /\ InFlight("proxy") \/ \E c \in Socket : pend[c] # Nil
       /\ \E s \in Server : Unload(s)

\* Everything else may happen; in RefusingSpec a claim may also be refused.
CalmNext == Next /\ ~(ClaimRefused \/ ClaimClosed \/ ClaimLate \/ UnloadCrossed)
CalmSpec == Init /\ [][CalmNext]_vars
CalmFairSpec == CalmSpec /\ Fairness

RefusingNext == Next /\ ~(ClaimClosed \/ ClaimLate \/ UnloadCrossed)
RefusingSpec == Init /\ [][RefusingNext]_vars
-------------------------------------------------------------------------------
(* Properties *)

TypeOK ==
    /\ up \subseteq Server /\ open \subseteq up
    /\ lock \in [owner : Server, left : 1..TTL] \cup {Free}
    /\ beat \in [Server -> 0..Half]
    /\ cache \in [Server -> Server \cup {Nil}]
    /\ sweeps \in [Server -> SUBSET (0..Half)]
    /\ at \in [Socket -> up \cup {Nil}]
    /\ pend \in [Socket -> [from : up, to : Server] \cup {Nil}]
    /\ conns \in [Server -> SUBSET Socket]
    /\ inbox \in [Server -> Seq(Message)]
    /\ dead \in [Server -> 0..Forgotten]
    /\ \A s \in Server \ up : conns[s] = {} /\ inbox[s] = <<>> /\ cache[s] = Nil

\* A server that has the document loaded holds its lock, from the first message
\* that loads it to the unload: the refresh is never too late.
OpenOwnsLock == \A s \in open : lock.owner = s

\* One server serves the document ("another server owns the doc").
SingleOwner == \A s, t \in open : s = t

\* The owner that a server believes in may have crashed, but not longer ago
\* than the lock of a crashed server lasts plus the age of a cached answer: one
\* and a half lifetimes, where the comment on the cache promises less than one.
StaleOwnersForgotten ==
    \A s \in up, t \in Server \ up : dead[t] = Forgotten => cache[s] # t

\* That comment: "a lockTTL / 2 guarantees stale reads < lockTTL upon server crash".
StaleReadsBelowTTL ==
    \A s \in up, t \in Server \ up : dead[t] >= TTL => cache[s] # t

\* Whatever stops or is lost on the way, the document is served again.
ServedAgain == []<>(\E s \in up : conns[s] # {})
===============================================================================
