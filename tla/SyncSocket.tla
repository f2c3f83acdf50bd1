----------------------------- MODULE SyncSocket -----------------------------
(***************************************************************************)
(* The browser's WebSocket of sync-client.js: one module-wide socket that  *)
(* is opened, lost, re-opened after a back-off and kept alive by a         *)
(* heartbeat, and the serial queue that hands incoming messages to .NET.   *)
(*                                                                         *)
(* JavaScript runs one callback at a time, so an action is one callback:   *)
(* an exported function, a socket event, a timer, or a turn of the promise *)
(* chain "messageQueue".  Between two of them anything else may run; in    *)
(* particular a call into .NET may stay unanswered while sockets and       *)
(* connections are replaced.                                               *)
(***************************************************************************)
EXTENDS Integers, FiniteSets, Sequences

CONSTANTS
  MaxIncoming,     \* options.maxIncomingMessages
  HandlerMayFail,  \* whether .NET may fail to handle a message
  MaxConnections,  \* bound: calls of connect
  MaxFaults,       \* bound: losses, throwing calls and overflows
  MaxMessages      \* bound: messages the relay sends

ASSUME ConstantsAssumption ==
  /\ MaxIncoming \in Nat \ {0}
  /\ HandlerMayFail \in BOOLEAN
  /\ MaxConnections \in Nat
  /\ MaxFaults \in Nat
  /\ MaxMessages \in Nat

None == 0
Connections == 1..MaxConnections
(* A socket is constructed by connect or by a reconnect timer, and each     *)
(* timer follows a fault of its own: so many are never exceeded.           *)
MaxSockets == MaxConnections + MaxFaults
Sockets == 1..MaxSockets

VARIABLES
  connection,      \* the connection object, numbered in order of creation
  created,         \* how many connection objects there have been
  wanted,          \* connections whose "reconnect" is true
  ws,              \* the current socket
  constructed,     \* how many sockets there have been
  owner,           \* the connection a socket was opened for
  phase,           \* what the browser knows of a socket (its readyState)
  attached,        \* sockets that still have their on... handlers
  joined,          \* sockets on which the room was sent
  timer,           \* the connection the reconnect timer will open, or None
  heartbeat,       \* the socket the heartbeat interval writes on, or None
  incoming,        \* incomingMessages of each connection
  chain,           \* messageQueue: the socket of each message not yet settled
  running,         \* connections whose first message is awaiting .NET
  status,          \* what .NET was told last
  received,        \* bound: messages so far
  faults           \* bound: faults so far

socketVars == <<ws, constructed, owner, phase, attached, joined>>
queueVars  == <<incoming, chain, running, received>>
connVars   == <<connection, created, wanted>>
vars == <<connVars, socketVars, queueVars, timer, heartbeat, status, faults>>

IsCurrentSocket(c, s) == connection = c /\ ws = s
Fault == faults < MaxFaults /\ faults' = faults + 1

Init ==
  /\ connection = None /\ created = 0 /\ wanted = {}
  /\ ws = None /\ constructed = 0 /\ attached = {} /\ joined = {}
  /\ owner = [s \in Sockets |-> None]
  /\ phase = [s \in Sockets |-> "unborn"]
  /\ timer = None /\ heartbeat = None
  /\ incoming = [c \in Connections |-> 0]
  /\ chain = [c \in Connections |-> <<>>]
  /\ running = {}
  /\ status = "none" /\ received = 0 /\ faults = 0

-----------------------------------------------------------------------------
(* closeCurrentSocket: the handlers go first, so the close is not heard of. *)
ClosedPhase == [s \in Sockets |-> IF s = ws THEN "closed" ELSE phase[s]]
CloseCurrentSocket ==
  /\ heartbeat' = None
  /\ ws' = None
  /\ attached' = attached \ {ws}
  /\ phase' = ClosedPhase
  /\ UNCHANGED <<constructed, owner, joined>>

ScheduleReconnect(c) ==
  timer' = IF c \notin wanted \/ timer # None THEN timer ELSE c

(* A socket that failed under its owner is given up and another one is     *)
(* opened after the back-off.                                              *)
GiveUpSocket(c, told) ==
  /\ status' = told
  /\ CloseCurrentSocket
  /\ ScheduleReconnect(c)

(* openSocket once the timer is cleared: s, ph and att are ws, phase and   *)
(* attached as the caller leaves them.                                     *)
OpenSocket(c, s, ph, att, told) ==
  \/ /\ Fault                                      \* the constructor throws
     /\ timer' = c
     /\ status' = "error"
     /\ ws' = s /\ phase' = ph /\ attached' = att
     /\ UNCHANGED <<constructed, owner>>
  \/ /\ constructed' = constructed + 1
     /\ ws' = constructed'
     /\ owner' = [owner EXCEPT ![constructed'] = c]
     /\ phase' = [ph EXCEPT ![constructed'] = "connecting"]
     /\ attached' = att \cup {constructed'}
     /\ timer' = None
     /\ status' = told
     /\ UNCHANGED faults

-----------------------------------------------------------------------------
(* The exported functions.  The page forgets the last status when it       *)
(* connects or disconnects (SyncClient.cs:112, 342).                       *)
ConnectOverSocket ==                \* mutant: the old socket is left alone
  /\ created < MaxConnections
  /\ created' = created + 1
  /\ connection' = created'
  /\ wanted' = wanted \cup {created'}
  /\ heartbeat' = None
  /\ OpenSocket(created', ws, phase, attached, "none")
  /\ UNCHANGED <<joined, queueVars>>

Connect ==
  /\ created < MaxConnections
  /\ created' = created + 1
  /\ connection' = created'
  /\ wanted' = wanted \cup {created'}
  /\ heartbeat' = None
  /\ OpenSocket(created', None, ClosedPhase, attached \ {ws}, "none")
  /\ UNCHANGED <<joined, queueVars>>

Disconnect ==
  /\ connection # None
  /\ wanted' = wanted \ {connection}
  /\ timer' = None
  /\ IF ws # None THEN CloseCurrentSocket ELSE UNCHANGED <<socketVars, heartbeat>>
  /\ connection' = None
  /\ status' = "none"
  /\ UNCHANGED <<created, queueVars, faults>>

(* send: a socket that takes the data changes nothing here, and without an *)
(* open one the caller gets false; a socket that throws is given up.       *)
SendThrows ==
  /\ connection # None /\ ws # None /\ phase[ws] = "open"
  /\ Fault
  /\ GiveUpSocket(connection, "error")
  /\ UNCHANGED <<connVars, queueVars>>

-----------------------------------------------------------------------------
(* Socket events.  A handler that finds its socket replaced does nothing.  *)
SocketOpened(s) ==
  LET c == owner[s] IN
  /\ phase[s] = "connecting" /\ s \in attached
  /\ IsCurrentSocket(c, s)
  /\ phase' = [phase EXCEPT ![s] = "open"]
  /\ joined' = joined \cup {s}
  /\ heartbeat' = s
  /\ status' = "connected"
  /\ UNCHANGED <<connVars, ws, constructed, owner, attached, timer, queueVars, faults>>

(* onopen when the room cannot be sent.                                    *)
OpenFailsSilently(s) ==             \* mutant: nobody schedules a reconnect
  /\ phase[s] = "connecting" /\ s \in attached
  /\ IsCurrentSocket(owner[s], s)
  /\ Fault
  /\ status' = "error"
  /\ CloseCurrentSocket
  /\ UNCHANGED <<connVars, timer, queueVars>>

JoinThrows(s) ==
  /\ phase[s] = "connecting" /\ s \in attached
  /\ IsCurrentSocket(owner[s], s)
  /\ Fault
  /\ GiveUpSocket(owner[s], "error")
  /\ UNCHANGED <<connVars, queueVars>>

(* The network or the relay ends a socket: it can no longer be written, and *)
(* its close event will come.                                              *)
NetworkLoses(s) ==
  /\ phase[s] \in {"connecting", "open"}
  /\ Fault
  /\ phase' = [phase EXCEPT ![s] = "closing"]
  /\ UNCHANGED <<connVars, ws, constructed, owner, attached, joined, timer,
                 heartbeat, queueVars, status>>

(* onclose, and the onerror that precedes it in the same turn: its "error" *)
(* is overwritten by "disconnected" at once.                               *)
CloseEventKeepsHeartbeat(s) ==      \* mutant: the interval goes on
  /\ phase[s] = "closing" /\ s \in attached
  /\ phase' = [phase EXCEPT ![s] = "closed"]
  /\ attached' = attached \ {s}
  /\ ws' = IF ws = s THEN None ELSE ws
  /\ IF connection = owner[s]
     THEN status' = "disconnected" /\ ScheduleReconnect(owner[s])
     ELSE UNCHANGED <<status, timer>>
  /\ UNCHANGED <<connVars, heartbeat, constructed, owner, joined, queueVars, faults>>

CloseEvent(s) ==
  /\ phase[s] = "closing" /\ s \in attached
  /\ phase' = [phase EXCEPT ![s] = "closed"]
  /\ attached' = attached \ {s}
  /\ ws' = IF ws = s THEN None ELSE ws
  /\ heartbeat' = IF ws = s THEN None ELSE heartbeat
  /\ IF connection = owner[s]
     THEN status' = "disconnected" /\ ScheduleReconnect(owner[s])
     ELSE UNCHANGED <<status, timer>>
  /\ UNCHANGED <<connVars, constructed, owner, joined, queueVars, faults>>

-----------------------------------------------------------------------------
(* Timers.                                                                 *)
FireKeepingTimer ==                 \* mutant: reconnectTimer is not reset
  /\ timer # None
  /\ IF connection = timer /\ timer \in wanted
     THEN /\ constructed' = constructed + 1
          /\ ws' = constructed'
          /\ owner' = [owner EXCEPT ![constructed'] = timer]
          /\ phase' = [phase EXCEPT ![constructed'] = "connecting"]
          /\ attached' = attached \cup {constructed'}
          /\ constructed < MaxSockets
     ELSE UNCHANGED <<constructed, ws, owner, phase, attached>>
  /\ UNCHANGED <<connVars, joined, timer, heartbeat, queueVars, status, faults>>

ReconnectFires ==
  /\ timer # None
  /\ IF connection = timer /\ timer \in wanted
     THEN OpenSocket(timer, ws, phase, attached, status)
     ELSE /\ timer' = None
          /\ UNCHANGED <<constructed, ws, owner, phase, attached, status, faults>>
  /\ UNCHANGED <<connVars, joined, heartbeat, queueVars>>

(* The interval writes on an open socket only; a write that is taken has   *)
(* no effect here.                                                         *)
HeartbeatThrows ==
  /\ heartbeat # None
  /\ LET c == owner[heartbeat] IN
     /\ IsCurrentSocket(c, heartbeat) /\ phase[heartbeat] = "open"
     /\ Fault
     /\ GiveUpSocket(c, "error")
  /\ UNCHANGED <<connVars, queueVars>>

-----------------------------------------------------------------------------
(* enqueueIncomingMessage and handleIncomingOverflow.                      *)
OverflowUnheard(c) ==               \* mutant: .NET is not told
  /\ incoming' = [incoming EXCEPT ![c] = 0]
  /\ Fault
  /\ CloseCurrentSocket
  /\ ScheduleReconnect(c)
  /\ UNCHANGED <<status, chain>>

HandleIncomingOverflow(c) ==
  /\ incoming' = [incoming EXCEPT ![c] = 0]
  /\ Fault
  /\ GiveUpSocket(c, "overloaded")
  /\ UNCHANGED chain

Receive(s) ==
  LET c == owner[s] IN
  /\ phase[s] \in {"open", "closing"} /\ s \in attached
  /\ IsCurrentSocket(c, s)
  /\ received < MaxMessages /\ received' = received + 1
  /\ \/ /\ incoming[c] >= MaxIncoming
        /\ HandleIncomingOverflow(c)
     \/ /\ incoming[c] < MaxIncoming
        /\ incoming' = [incoming EXCEPT ![c] = @ + 1]
        /\ chain' = [chain EXCEPT ![c] = Append(@, s)]
        /\ UNCHANGED <<socketVars, timer, heartbeat, status, faults>>
  /\ UNCHANGED <<connVars, running>>

(* The "finally" of a link of the chain.  An overflow sets the counter to  *)
(* zero while links still wait: it must not become negative.               *)
SettleBelowZero(c) ==               \* mutant: Math.max is left out
  /\ incoming' = [incoming EXCEPT ![c] = @ - 1]
  /\ chain' = [chain EXCEPT ![c] = Tail(@)]

SettleUncounted(c) ==               \* mutant: the decrement is not in finally
  /\ incoming' = incoming
  /\ chain' = [chain EXCEPT ![c] = Tail(@)]

Settle(c) ==
  /\ incoming' = [incoming EXCEPT ![c] = IF @ > 0 THEN @ - 1 ELSE 0]
  /\ chain' = [chain EXCEPT ![c] = Tail(@)]

Deliver(c) ==
  /\ chain[c] # <<>> /\ c \notin running
  /\ IsCurrentSocket(c, Head(chain[c]))
  /\ running' = running \cup {c}
  /\ UNCHANGED <<connVars, socketVars, timer, heartbeat, incoming, chain,
                 received, status, faults>>

SkipStale(c) ==
  /\ chain[c] # <<>> /\ c \notin running
  /\ ~IsCurrentSocket(c, Head(chain[c]))
  /\ Settle(c)
  /\ UNCHANGED <<connVars, socketVars, timer, heartbeat, running, received,
                 status, faults>>

HandlerReturns(c) ==
  /\ c \in running
  /\ running' = running \ {c}
  /\ Settle(c)
  /\ UNCHANGED <<connVars, socketVars, timer, heartbeat, received, status, faults>>

HandlerFails(c) ==
  /\ HandlerMayFail /\ c \in running
  /\ running' = running \ {c}
  /\ Settle(c)
  /\ status' = IF IsCurrentSocket(c, Head(chain[c])) THEN "error" ELSE status
  /\ UNCHANGED <<connVars, socketVars, timer, heartbeat, received, faults>>

-----------------------------------------------------------------------------
Next ==
  \/ Connect \/ Disconnect \/ SendThrows
  \/ \E s \in Sockets :
       SocketOpened(s) \/ JoinThrows(s) \/ NetworkLoses(s) \/ CloseEvent(s) \/ Receive(s)
  \/ ReconnectFires \/ HeartbeatThrows
  \/ \E c \in Connections :
       Deliver(c) \/ SkipStale(c) \/ HandlerReturns(c) \/ HandlerFails(c)

Spec == Init /\ [][Next]_vars

(* The browser runs its timers and events, and a connection attempt ends   *)
(* one way or the other.  Faults are finitely many (MaxFaults).            *)
Fairness ==
  /\ WF_vars(ReconnectFires)
  /\ \A s \in Sockets :
       /\ WF_vars(SocketOpened(s) \/ JoinThrows(s) \/ NetworkLoses(s))
       /\ WF_vars(CloseEvent(s))

FairSpec == Spec /\ Fairness

-----------------------------------------------------------------------------
Statuses == {"none", "connected", "disconnected", "error", "overloaded"}
Phases == {"unborn", "connecting", "open", "closing", "closed"}

LinkTypeOK ==
  /\ created \in 0..MaxConnections
  /\ connection \in Connections \cup {None}
  /\ wanted \subseteq Connections
  /\ constructed \in 0..MaxSockets
  /\ ws \in Sockets \cup {None}
  /\ owner \in [Sockets -> Connections \cup {None}]
  /\ phase \in [Sockets -> Phases]
  /\ attached \subseteq Sockets
  /\ joined \subseteq Sockets
  /\ timer \in Connections \cup {None}
  /\ heartbeat \in Sockets \cup {None}
  /\ status \in Statuses
  /\ faults \in 0..MaxFaults

MessageTypeOK ==
  /\ incoming \in [Connections -> 0..MaxIncoming]
  /\ chain \in [Connections -> Seq(Sockets)]
  /\ running \subseteq Connections
  /\ received \in 0..MaxMessages

(* Every variable has its type; the counter of incoming messages in        *)
(* particular is never negative.                                           *)
TypeOK == LinkTypeOK /\ MessageTypeOK

(* A connection the page wants is never stranded (connect, openSocket,     *)
(* onclose, scheduleReconnect): either the reconnect timer will open a     *)
(* socket for it, or its socket still has the handlers that will report    *)
(* the loss.  A timer never belongs to an older connection, which would    *)
(* also block the timer of the new one.                                    *)
NeverStranded ==
  /\ timer # None => timer = connection /\ ws = None
  /\ connection # None =>
       /\ connection \in wanted
       /\ \/ timer = connection
          \/ /\ ws \in attached
             /\ owner[ws] = connection
             /\ phase[ws] \in {"connecting", "open", "closing"}

(* No socket but the current one is alive: what connect, disconnect and    *)
(* the failure paths replace is closed and unheard, so that no ghost peer  *)
(* stays in the relay's room.                                              *)
NoSocketLeaks ==
  /\ attached \subseteq {ws}
  /\ \A s \in Sockets : phase[s] \in {"connecting", "open", "closing"} => s = ws
  /\ connection = None => ws = None

(* A socket that joined its room has the heartbeat that keeps the relay    *)
(* from timing it out, and no interval outlives its socket.                *)
HeartbeatKept == heartbeat = IF ws \in joined THEN ws ELSE None

(* .NET believes "connected" only while the current socket joined the room *)
(* and its loss, if any, is still to be reported by its own handler.       *)
ConnectedIsTrue == status = "connected" => ws \in joined /\ ws \in attached

(* The counter that triggers an overflow never counts more messages than   *)
(* there are: a connection is not dropped while its queue has room.        *)
NeverOvercounted == \A c \in Connections : incoming[c] <= Len(chain[c])

(* Only the first message of a queue is with .NET.                        *)
RunningIsFirst == \A c \in running : chain[c] # <<>>

(* Objects are numbered as they are created.                               *)
Numbered ==
  /\ \A s \in Sockets : s > constructed => phase[s] = "unborn" /\ s \notin joined
  /\ \A c \in wanted : c <= created
  /\ connection <= created

(* Every socket beyond the connections is paid for by a fault.             *)
Due == IF timer # None \/ (ws # None /\ phase[ws] = "closing") THEN 1 ELSE 0
BudgetKept == constructed + Due <= created + faults

LinkInv ==
  /\ LinkTypeOK /\ NeverStranded /\ NoSocketLeaks /\ HeartbeatKept
  /\ ConnectedIsTrue /\ Numbered /\ BudgetKept

MessageInv == MessageTypeOK /\ NeverOvercounted /\ RunningIsFirst

IInv == LinkInv /\ MessageInv

(* A wanted connection comes back: unless the page replaces or ends it, it *)
(* joins its room again after the last loss, whatever was lost when.       *)
ComesBack ==
  \A c \in Connections :
    connection = c ~> (connection # c \/ (ws \in joined /\ phase[ws] = "open"))
=============================================================================
