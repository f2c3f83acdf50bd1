-------------------------- MODULE SyncSocketProofs --------------------------
(* Proofs about SyncSocket for every limit of the queue and every number of *)
(* connections, losses and messages.                                       *)
EXTENDS SyncSocket, TLAPS

(* The numbers of the constants, for the arithmetic of the steps below.    *)
LEMMA Bounds ==
  /\ MaxIncoming \in Nat \ {0} /\ MaxConnections \in Nat /\ MaxFaults \in Nat
  /\ MaxMessages \in Nat /\ MaxSockets \in Nat
  /\ None \notin Sockets /\ None \notin Connections
  /\ Sockets \subseteq Nat /\ Connections \subseteq Nat
BY ConstantsAssumption DEF MaxSockets, None, Sockets, Connections

(* What does not touch the link keeps its invariant; .NET may be told      *)
(* anything but "connected" at any time.                                   *)
LEMMA LinkUntouched ==
  ASSUME LinkInv, UNCHANGED <<connVars, socketVars, timer, heartbeat, faults>>,
         status' \in (Statuses \ {"connected"}) \cup {status}
  PROVE  LinkInv'
BY DEF LinkInv, LinkTypeOK, NeverStranded, NoSocketLeaks, HeartbeatKept,
       ConnectedIsTrue, Numbered, BudgetKept, Due, connVars, socketVars

(* What does not touch the queues keeps theirs.                            *)
LEMMA QueuesUntouched == ASSUME MessageInv, UNCHANGED queueVars PROVE MessageInv'
BY DEF MessageInv, MessageTypeOK, NeverOvercounted, RunningIsFirst, queueVars

(* Giving up the current socket leaves the timer in its place.             *)
LEMMA GiveUpKeeps ==
  ASSUME LinkInv, connection # None, NEW told \in Statuses \ {"connected"},
         Fault, GiveUpSocket(connection, told), UNCHANGED connVars,
         ws # None
  PROVE  LinkInv'
<1> USE Bounds
<1>1. /\ timer = None /\ connection \in wanted /\ ws \in attached
      /\ phase[ws] \in {"connecting", "open", "closing"}
  BY DEF LinkInv, NeverStranded
<1>2. timer' = connection /\ status' = told /\ UNCHANGED <<connection, created, wanted>>
  BY <1>1 DEF GiveUpSocket, ScheduleReconnect, connVars
<1>3. /\ ws' = None /\ heartbeat' = None /\ attached' = attached \ {ws}
      /\ phase' = ClosedPhase /\ UNCHANGED <<constructed, owner, joined>>
  BY DEF GiveUpSocket, CloseCurrentSocket
<1>4. faults' = faults + 1 /\ faults < MaxFaults
  BY DEF Fault
<1>5. LinkTypeOK'
  BY <1>2, <1>3, <1>4 DEF LinkInv, LinkTypeOK, ClosedPhase, Phases
<1>6. NeverStranded'
  BY <1>1, <1>2, <1>3 DEF NeverStranded
<1>7. attached' = {} /\ \A s \in Sockets : phase'[s] \notin {"connecting", "open", "closing"}
  BY <1>3 DEF LinkInv, LinkTypeOK, NoSocketLeaks, ClosedPhase
<1>8. NoSocketLeaks'
  BY <1>7, <1>3 DEF NoSocketLeaks
<1>9. HeartbeatKept' /\ ConnectedIsTrue'
  BY <1>2, <1>3 DEF LinkInv, LinkTypeOK, HeartbeatKept, ConnectedIsTrue
<1>10. Numbered'
  BY <1>2, <1>3 DEF LinkInv, LinkTypeOK, Numbered, NoSocketLeaks, NeverStranded, ClosedPhase
<1>11. BudgetKept'
  <2>1. constructed <= created + faults
    BY DEF LinkInv, LinkTypeOK, BudgetKept, Due
  <2>2. Due' = 1
    BY <1>2 DEF Due
  <2> QED
    BY <2>1, <2>2, <1>2, <1>3, <1>4 DEF LinkInv, LinkTypeOK, BudgetKept
<1> QED
  BY <1>5, <1>6, <1>8, <1>9, <1>10, <1>11 DEF LinkInv

(* A new socket becomes the only one, for the connection that is current   *)
(* from now on: connect and the reconnect timer both end here.             *)
LEMMA OpenKeeps ==
  ASSUME LinkInv, NEW s, NEW ph, NEW att, NEW told \in Statuses, NEW n \in Nat,
         OpenSocket(connection', s, ph, att, told),
         s = None, ph \in [Sockets -> Phases], att = {},
         \A x \in Sockets : ph[x] \notin {"connecting", "open", "closing"},
         \A x \in Sockets : x > constructed => ph[x] = "unborn",
         told # "connected", heartbeat' = None, joined' = joined,
         connection' \in Connections, connection' \in wanted',
         wanted' \subseteq 1..n, created' = n, n <= MaxConnections,
         connection' <= n, constructed + 1 <= n + faults
  PROVE  LinkInv'
<1> USE Bounds
<1>1. /\ constructed \in Nat /\ faults \in 0..MaxFaults
      /\ joined \subseteq Sockets /\ owner \in [Sockets -> Connections \cup {None}]
      /\ constructed \in 0..MaxSockets
      /\ \A x \in Sockets : x > constructed => x \notin joined
  BY DEF LinkInv, LinkTypeOK, Numbered
<1>2. CASE /\ Fault /\ timer' = connection' /\ status' = "error"
           /\ ws' = s /\ phase' = ph /\ attached' = att
           /\ UNCHANGED <<constructed, owner>>
  <2>1. faults' = faults + 1 /\ faults' \in 0..MaxFaults
    BY <1>1, <1>2 DEF Fault
  <2>2. LinkTypeOK'
    BY <1>1, <1>2, <2>1 DEF LinkTypeOK, Statuses, Connections
  <2>3. NeverStranded' /\ NoSocketLeaks'
    BY <1>2 DEF NeverStranded, NoSocketLeaks
  <2>4. HeartbeatKept' /\ ConnectedIsTrue'
    BY <1>1, <1>2 DEF HeartbeatKept, ConnectedIsTrue
  <2>5. Numbered'
    BY <1>1, <1>2 DEF Numbered
  <2>6. BudgetKept'
    <3>1. Due' = 1 /\ constructed' = constructed
      BY <1>2 DEF Due, None, Connections
    <3> QED
      BY <3>1, <1>1, <2>1 DEF BudgetKept
  <2> QED
    BY <2>2, <2>3, <2>4, <2>5, <2>6 DEF LinkInv
<1>3. CASE /\ constructed' = constructed + 1 /\ ws' = constructed'
           /\ owner' = [owner EXCEPT ![constructed'] = connection']
           /\ phase' = [ph EXCEPT ![constructed'] = "connecting"]
           /\ attached' = att \cup {constructed'}
           /\ timer' = None /\ status' = told /\ UNCHANGED faults
  <2>1. constructed' \in Sockets /\ constructed' # None
    BY <1>1, <1>3 DEF MaxSockets, Sockets, None
  <2>2. /\ phase' \in [Sockets -> Phases] /\ phase'[constructed'] = "connecting"
        /\ \A x \in Sockets : x # constructed' => phase'[x] = ph[x]
        /\ owner'[constructed'] = connection'
    BY <1>1, <1>3, <2>1 DEF Phases
  <2>3. LinkTypeOK'
    BY <1>1, <1>3, <2>1, <2>2 DEF LinkTypeOK, Connections, Sockets
  <2>4. NeverStranded' /\ NoSocketLeaks'
    BY <1>3, <2>1, <2>2 DEF NeverStranded, NoSocketLeaks
  <2>5. constructed' \notin joined
    BY <1>1, <1>3, <2>1
  <2>6. HeartbeatKept' /\ ConnectedIsTrue'
    BY <1>1, <1>3, <2>1, <2>5 DEF HeartbeatKept, ConnectedIsTrue
  <2>7. Numbered'
    BY <1>1, <1>3, <2>1, <2>2 DEF Numbered
  <2>8. BudgetKept'
    <3>1. Due' = 0
      BY <1>3, <2>1, <2>2 DEF Due
    <3> QED
      BY <3>1, <1>1, <1>3 DEF BudgetKept
  <2> QED
    BY <2>3, <2>4, <2>6, <2>7, <2>8 DEF LinkInv
<1> QED
  BY <1>2, <1>3 DEF OpenSocket

(* Connecting replaces whatever socket and timer there were.               *)
LEMMA ConnectKeeps == ASSUME LinkInv, Connect PROVE LinkInv'
<1> USE Bounds
<1>1. /\ created' = created + 1 /\ connection' = created' /\ created < MaxConnections
      /\ wanted' = wanted \cup {created'} /\ heartbeat' = None /\ joined' = joined
      /\ OpenSocket(connection', None, ClosedPhase, attached \ {ws}, "none")
  BY DEF Connect
<1>2. /\ ClosedPhase \in [Sockets -> Phases] /\ attached \ {ws} = {}
      /\ \A x \in Sockets : ClosedPhase[x] \notin {"connecting", "open", "closing"}
  BY DEF LinkInv, LinkTypeOK, NoSocketLeaks, ClosedPhase, Phases
<1>3. \A x \in Sockets : x > constructed => ClosedPhase[x] = "unborn"
  <2>1. \A x \in Sockets : x > constructed => phase[x] = "unborn"
    BY DEF LinkInv, Numbered
  <2>2. ws # None => phase[ws] # "unborn"
    BY DEF LinkInv, NeverStranded, NoSocketLeaks
  <2> QED
    BY <2>1, <2>2 DEF ClosedPhase
<1>4. /\ created + 1 \in Nat /\ created + 1 <= MaxConnections /\ connection' \in Connections
      /\ connection' \in wanted' /\ wanted' \subseteq 1..(created + 1)
      /\ connection' <= created + 1
  <2>1. created \in 0..MaxConnections /\ wanted \subseteq 1..created
    BY DEF LinkInv, LinkTypeOK, Numbered, Connections
  <2> QED
    BY <1>1, <2>1 DEF Connections
<1>5. constructed + 1 <= created + 1 + faults
  <2>1. constructed <= created + faults
    BY DEF LinkInv, LinkTypeOK, BudgetKept, Due
  <2> QED
    BY <1>1, <2>1 DEF LinkInv, LinkTypeOK
<1> QED
  BY <1>1, <1>2, <1>3, <1>4, <1>5, OpenKeeps DEF Statuses

(* Disconnecting leaves no socket and no timer.                            *)
LEMMA DisconnectKeeps == ASSUME LinkInv, Disconnect PROVE LinkInv'
<1> USE Bounds
<1>1. /\ ws' = None /\ heartbeat' = None /\ attached' = attached \ {ws}
      /\ phase' = ClosedPhase /\ UNCHANGED <<constructed, owner, joined>>
  BY DEF Disconnect, CloseCurrentSocket, LinkInv, LinkTypeOK, HeartbeatKept,
         ClosedPhase, NoSocketLeaks, socketVars
<1>2. /\ wanted' = wanted \ {connection} /\ timer' = None /\ connection' = None
      /\ status' = "none" /\ UNCHANGED <<created, faults>>
  BY DEF Disconnect
<1>3. ClosedPhase \in [Sockets -> Phases]
  BY DEF ClosedPhase, LinkInv, LinkTypeOK, Phases
<1>4. LinkTypeOK'
  BY <1>1, <1>2, <1>3 DEF LinkInv, LinkTypeOK, Statuses
<1>5. NeverStranded' /\ NoSocketLeaks' /\ HeartbeatKept' /\ ConnectedIsTrue'
  BY <1>1, <1>2 DEF LinkInv, LinkTypeOK, NeverStranded, NoSocketLeaks, HeartbeatKept,
                    ConnectedIsTrue, ClosedPhase
<1>6. Numbered'
  <2>1. ws # None => phase[ws] # "unborn"
    BY DEF LinkInv, NeverStranded, NoSocketLeaks
  <2> QED
    BY <1>1, <1>2, <2>1 DEF LinkInv, LinkTypeOK, Numbered, ClosedPhase, None
<1>7. BudgetKept'
  <2>1. Due' = 0 /\ constructed <= created + faults
    BY <1>1, <1>2 DEF Due, LinkInv, LinkTypeOK, BudgetKept
  <2> QED
    BY <1>1, <1>2, <2>1 DEF LinkInv, LinkTypeOK, BudgetKept
<1> QED
  BY <1>4, <1>5, <1>6, <1>7 DEF LinkInv

(* The room is sent and the heartbeat starts.                              *)
LEMMA SocketOpenedKeeps ==
  ASSUME LinkInv, NEW s \in Sockets, SocketOpened(s) PROVE LinkInv'
<1> USE Bounds
<1>1. /\ ws = s /\ s \in attached /\ phase[s] = "connecting"
      /\ connection = owner[s] /\ phase' = [phase EXCEPT ![s] = "open"]
      /\ joined' = joined \cup {s} /\ heartbeat' = s /\ status' = "connected"
      /\ UNCHANGED <<connection, created, wanted, ws, constructed, owner, attached, timer, faults>>
  BY DEF SocketOpened, IsCurrentSocket, connVars
<1>2. LinkTypeOK' /\ NeverStranded' /\ NoSocketLeaks' /\ HeartbeatKept' /\ ConnectedIsTrue'
  BY <1>1 DEF LinkInv, LinkTypeOK, NeverStranded, NoSocketLeaks, HeartbeatKept,
              ConnectedIsTrue, Phases, Statuses
<1>3. Numbered'
  BY <1>1 DEF LinkInv, LinkTypeOK, Numbered
<1>4. BudgetKept'
  <2>1. Due' = Due
    BY <1>1 DEF Due, LinkInv, LinkTypeOK
  <2> QED
    BY <1>1, <2>1 DEF LinkInv, BudgetKept
<1> QED
  BY <1>2, <1>3, <1>4 DEF LinkInv

(* A lost socket keeps the handlers that report it.                        *)
LEMMA NetworkLosesKeeps ==
  ASSUME LinkInv, NEW s \in Sockets, NetworkLoses(s) PROVE LinkInv'
<1> USE Bounds
<1>1. /\ phase[s] \in {"connecting", "open"} /\ phase' = [phase EXCEPT ![s] = "closing"]
      /\ faults < MaxFaults /\ faults' = faults + 1
      /\ UNCHANGED <<connection, created, wanted, ws, constructed, owner, attached,
                     joined, timer, heartbeat, status>>
  BY DEF NetworkLoses, Fault, connVars
<1>2. LinkTypeOK' /\ NeverStranded' /\ NoSocketLeaks' /\ HeartbeatKept' /\ ConnectedIsTrue'
  BY <1>1 DEF LinkInv, LinkTypeOK, NeverStranded, NoSocketLeaks, HeartbeatKept,
              ConnectedIsTrue, Phases
<1>3. Numbered'
  BY <1>1 DEF LinkInv, LinkTypeOK, Numbered
<1>4. BudgetKept'
  <2>1. Due' \in {0, 1} /\ Due \in {0, 1}
    BY DEF Due
  <2>2. constructed + Due <= created + faults
    BY DEF LinkInv, BudgetKept
  <2>4. constructed \in Int /\ created \in Int /\ faults \in Int
    BY DEF LinkInv, LinkTypeOK
  <2>5. constructed + 1 <= created + (faults + 1)
    BY <2>1, <2>2, <2>4
  <2>6. CASE Due' = 0
    BY <1>1, <2>4, <2>5, <2>6 DEF BudgetKept
  <2>7. CASE Due' = 1
    BY <1>1, <2>4, <2>5, <2>7 DEF BudgetKept
  <2> QED
    BY <2>1, <2>6, <2>7
<1> QED
  BY <1>2, <1>3, <1>4 DEF LinkInv

(* The reported loss starts the timer of the same connection.              *)
LEMMA CloseEventKeeps ==
  ASSUME LinkInv, NEW s \in Sockets, CloseEvent(s) PROVE LinkInv'
<1> USE Bounds
<1>1. ws = s /\ s \in attached /\ phase[s] = "closing" /\ connection # None
  BY DEF CloseEvent, LinkInv, LinkTypeOK, NoSocketLeaks
<1>2. connection = owner[s] /\ connection \in wanted /\ timer = None
  BY <1>1 DEF LinkInv, NeverStranded
<1>3. /\ phase' = [phase EXCEPT ![s] = "closed"] /\ attached' = attached \ {s}
      /\ ws' = None /\ heartbeat' = None /\ status' = "disconnected"
      /\ timer' = connection
      /\ UNCHANGED <<connection, created, wanted, constructed, owner, joined, faults>>
  BY <1>1, <1>2 DEF CloseEvent, ScheduleReconnect, connVars
<1>4. LinkTypeOK' /\ NeverStranded' /\ NoSocketLeaks' /\ HeartbeatKept' /\ ConnectedIsTrue'
  BY <1>1, <1>2, <1>3 DEF LinkInv, LinkTypeOK, NeverStranded, NoSocketLeaks,
                          HeartbeatKept, ConnectedIsTrue, Phases, Statuses
<1>5. Numbered'
  BY <1>1, <1>3 DEF LinkInv, LinkTypeOK, Numbered
<1>6. BudgetKept'
  <2>1. Due = 1 /\ Due' = 1
    BY <1>1, <1>2, <1>3 DEF Due
  <2> QED
    BY <1>3, <2>1 DEF LinkInv, BudgetKept
<1> QED
  BY <1>4, <1>5, <1>6 DEF LinkInv

(* The timer is that of the current connection, and opens a socket for it. *)
LEMMA ReconnectFiresKeeps == ASSUME LinkInv, ReconnectFires PROVE LinkInv'
<1> USE Bounds
<1>1. timer # None /\ timer = connection /\ ws = None /\ connection \in wanted
  BY DEF ReconnectFires, LinkInv, NeverStranded
<1>2. /\ OpenSocket(connection, None, phase, attached, status)
      /\ UNCHANGED <<connection, created, wanted, joined, heartbeat>>
  BY <1>1 DEF ReconnectFires, connVars
<1>3. /\ phase \in [Sockets -> Phases] /\ attached = {} /\ status \in Statuses
      /\ \A x \in Sockets : phase[x] \notin {"connecting", "open", "closing"}
      /\ \A x \in Sockets : x > constructed => phase[x] = "unborn"
      /\ status # "connected" /\ heartbeat = None
  BY <1>1 DEF LinkInv, LinkTypeOK, NoSocketLeaks, Numbered, ConnectedIsTrue, HeartbeatKept
<1>4. /\ connection \in Connections /\ created \in 0..MaxConnections
      /\ wanted \subseteq 1..created /\ connection <= created
  BY <1>1 DEF LinkInv, LinkTypeOK, Numbered, Connections
<1>5. constructed + 1 <= created + faults
  BY <1>1 DEF LinkInv, BudgetKept, Due
<1> QED
  BY <1>1, <1>2, <1>3, <1>4, <1>5, OpenKeeps

(* A message is queued under the limit, or the overflow gives the socket   *)
(* up and resets the counter.                                              *)
LEMMA ReceiveKeeps ==
  ASSUME IInv, NEW s \in Sockets, Receive(s) PROVE IInv'
<1> USE Bounds
<1> DEFINE c == owner[s]
<1>1. /\ s \in attached /\ connection = c /\ ws = s
      /\ received < MaxMessages /\ received' = received + 1
      /\ UNCHANGED <<connection, created, wanted, running>>
  BY DEF Receive, IsCurrentSocket, connVars
<1>2. c \in Connections /\ connection # None /\ ws # None
  BY <1>1 DEF IInv, LinkInv, LinkTypeOK, NoSocketLeaks
<1>3. CASE incoming[c] >= MaxIncoming /\ HandleIncomingOverflow(c)
  <2>1. LinkInv'
    BY <1>1, <1>2, <1>3, GiveUpKeeps
       DEF HandleIncomingOverflow, IInv, Statuses, connVars
  <2>2. MessageInv'
    BY <1>1, <1>2, <1>3 DEF HandleIncomingOverflow, IInv, MessageInv, MessageTypeOK,
                            NeverOvercounted, RunningIsFirst
  <2> QED
    BY <2>1, <2>2 DEF IInv
<1>4. CASE /\ incoming[c] < MaxIncoming
           /\ incoming' = [incoming EXCEPT ![c] = @ + 1]
           /\ chain' = [chain EXCEPT ![c] = Append(@, s)]
           /\ UNCHANGED <<socketVars, timer, heartbeat, status, faults>>
  <2>1. LinkInv'
    BY <1>1, <1>4, LinkUntouched DEF IInv, connVars
  <2>2. chain[c] \in Seq(Sockets) /\ incoming[c] \in Nat /\ incoming[c] <= Len(chain[c])
    BY <1>2 DEF IInv, MessageInv, MessageTypeOK, NeverOvercounted
  <2>3. /\ Append(chain[c], s) \in Seq(Sockets) /\ Append(chain[c], s) # <<>>
        /\ Len(Append(chain[c], s)) = Len(chain[c]) + 1
    BY <2>2, SMTT(30)
  <2>4. MessageInv'
    BY SMTT(30), <1>1, <1>2, <1>4, <2>2, <2>3
       DEF IInv, MessageInv, MessageTypeOK, NeverOvercounted, RunningIsFirst
  <2> QED
    BY <2>1, <2>4 DEF IInv
<1> QED
  BY <1>3, <1>4 DEF Receive

(* The first link of a queue is settled, and nobody is with .NET then.     *)
LEMMA SettleKeeps ==
  ASSUME MessageInv, NEW c \in Connections, chain[c] # <<>>, Settle(c),
         running' = running \ {c}, received' = received
  PROVE  MessageInv'
<1> USE Bounds
<1>1. /\ chain[c] \in Seq(Sockets) /\ incoming[c] \in 0..MaxIncoming
      /\ incoming[c] <= Len(chain[c])
  BY DEF MessageInv, MessageTypeOK, NeverOvercounted
<1>2. Tail(chain[c]) \in Seq(Sockets) /\ Len(Tail(chain[c])) = Len(chain[c]) - 1
      /\ Len(chain[c]) \in Nat \ {0}
  BY <1>1
<1>3. /\ chain' = [chain EXCEPT ![c] = Tail(chain[c])]
      /\ incoming' = [incoming EXCEPT ![c] = IF incoming[c] > 0 THEN incoming[c] - 1 ELSE 0]
  BY DEF Settle
<1>4. (IF incoming[c] > 0 THEN incoming[c] - 1 ELSE 0) \in 0..MaxIncoming
  BY <1>1
<1>5. (IF incoming[c] > 0 THEN incoming[c] - 1 ELSE 0) <= Len(Tail(chain[c]))
  BY <1>1, <1>2
<1>6. MessageTypeOK'
  BY <1>2, <1>3, <1>4 DEF MessageInv, MessageTypeOK
<1>7. NeverOvercounted'
  BY <1>3, <1>5 DEF MessageInv, MessageTypeOK, NeverOvercounted
<1>8. RunningIsFirst'
  BY <1>3 DEF MessageInv, MessageTypeOK, RunningIsFirst
<1> QED
  BY <1>6, <1>7, <1>8 DEF MessageInv

(* The steps of the queues leave the link alone.                           *)
LEMMA QueueStepKeeps ==
  ASSUME IInv, NEW c \in Connections,
         Deliver(c) \/ SkipStale(c) \/ HandlerReturns(c) \/ HandlerFails(c)
  PROVE  IInv'
<1>1. LinkInv'
  BY LinkUntouched DEF IInv, Deliver, SkipStale, HandlerReturns, HandlerFails, Statuses
<1>2. CASE Deliver(c)
  BY <1>1, <1>2 DEF Deliver, IInv, MessageInv, MessageTypeOK, NeverOvercounted, RunningIsFirst
<1>3. CASE SkipStale(c)
  <2>1. running' = running \ {c}
    BY <1>3 DEF SkipStale
  <2> QED
    BY <1>1, <1>3, <2>1, SettleKeeps DEF SkipStale, IInv
<1>4. CASE HandlerReturns(c)
  BY <1>1, <1>4, SettleKeeps DEF HandlerReturns, IInv, MessageInv, RunningIsFirst
<1>5. CASE HandlerFails(c)
  BY <1>1, <1>5, SettleKeeps DEF HandlerFails, IInv, MessageInv, RunningIsFirst
<1> QED
  BY <1>2, <1>3, <1>4, <1>5

(* The page loads with no connection.                                      *)
LEMMA InitKeeps == ASSUME Init PROVE IInv
<1> USE Bounds
<1>1. LinkInv
  BY DEF Init, LinkInv, LinkTypeOK, NeverStranded, NoSocketLeaks, HeartbeatKept,
         ConnectedIsTrue, Numbered, BudgetKept, Due, Statuses, Phases, None
<1>2. MessageInv
  BY DEF Init, MessageInv, MessageTypeOK, NeverOvercounted, RunningIsFirst, None
<1> QED
  BY <1>1, <1>2 DEF IInv

(* IInv is inductive.                                                      *)
LEMMA StepKeeps == ASSUME IInv, [Next]_vars PROVE IInv'
<1> USE Bounds
<1>1. ASSUME NEW s \in Sockets, JoinThrows(s) PROVE IInv'
  <2>1. connection = owner[s] /\ connection # None /\ ws # None
    BY <1>1 DEF JoinThrows, IsCurrentSocket, IInv, LinkInv, NoSocketLeaks
  <2> QED
    BY <1>1, <2>1, GiveUpKeeps, QueuesUntouched DEF JoinThrows, IInv, Statuses
<1>2. ASSUME SendThrows PROVE IInv'
  BY <1>2, GiveUpKeeps, QueuesUntouched DEF SendThrows, IInv, Statuses
<1>3. ASSUME HeartbeatThrows PROVE IInv'
  <2>1. connection = owner[heartbeat] /\ ws = heartbeat /\ ws # None /\ connection # None
    BY <1>3 DEF HeartbeatThrows, IsCurrentSocket, IInv, LinkInv, NoSocketLeaks
  <2> QED
    BY <1>3, <2>1, GiveUpKeeps, QueuesUntouched DEF HeartbeatThrows, IInv, Statuses
<1>4. ASSUME Connect \/ Disconnect \/ ReconnectFires PROVE IInv'
  BY <1>4, ConnectKeeps, DisconnectKeeps, ReconnectFiresKeeps, QueuesUntouched
     DEF Connect, Disconnect, ReconnectFires, IInv
<1>5. ASSUME NEW s \in Sockets, SocketOpened(s) \/ NetworkLoses(s) \/ CloseEvent(s)
      PROVE  IInv'
  BY <1>5, SocketOpenedKeeps, NetworkLosesKeeps, CloseEventKeeps, QueuesUntouched
     DEF SocketOpened, NetworkLoses, CloseEvent, IInv
<1>6. CASE UNCHANGED vars
  BY <1>6, LinkUntouched, QueuesUntouched DEF IInv, vars
<1> QED
  BY <1>1, <1>2, <1>3, <1>4, <1>5, <1>6, ReceiveKeeps, QueueStepKeeps DEF Next

(* The inductive invariant holds in every reachable state.                 *)
THEOREM Invariance == Spec => []IInv
BY InitKeeps, StepKeeps, PTL DEF Spec

(* TypeOK: the variables of sync-client.js keep their types, the counter   *)
(* of incoming messages never becomes negative.                            *)
THEOREM TypeCorrect == Spec => []TypeOK
<1>1. IInv => TypeOK
  BY DEF IInv, LinkInv, MessageInv, TypeOK
<1> QED
  BY <1>1, Invariance, PTL

(* NeverStranded: connect, openSocket, onclose and every failure path keep *)
(* a timer or a heard socket for the wanted connection.                    *)
THEOREM ConnectionNeverStranded == Spec => []NeverStranded
<1>1. IInv => NeverStranded
  BY DEF IInv, LinkInv
<1> QED
  BY <1>1, Invariance, PTL

(* NoSocketLeaks: closeCurrentSocket is called wherever a socket is        *)
(* replaced, so only the current one can be alive or heard.                *)
THEOREM SocketsNeverLeak == Spec => []NoSocketLeaks
<1>1. IInv => NoSocketLeaks
  BY DEF IInv, LinkInv
<1> QED
  BY <1>1, Invariance, PTL

(* HeartbeatKept: the interval is the joined socket's, and none other.     *)
THEOREM HeartbeatFollowsSocket == Spec => []HeartbeatKept
<1>1. IInv => HeartbeatKept
  BY DEF IInv, LinkInv
<1> QED
  BY <1>1, Invariance, PTL

(* ConnectedIsTrue: .NET is told of every loss of the socket it believes   *)
(* in (notifyStatus on every path).                                        *)
THEOREM ConnectedStatusTrue == Spec => []ConnectedIsTrue
<1>1. IInv => ConnectedIsTrue
  BY DEF IInv, LinkInv
<1> QED
  BY <1>1, Invariance, PTL

(* NeverOvercounted: the overflow counter is at most the queue's length.   *)
THEOREM CounterNeverOver == Spec => []NeverOvercounted
<1>1. IInv => NeverOvercounted
  BY DEF IInv, MessageInv
<1> QED
  BY <1>1, Invariance, PTL
=============================================================================
