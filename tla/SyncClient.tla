----------------------------- MODULE SyncClient -----------------------------
(***************************************************************************)
(* The browser's outgoing sync queue: SyncClient.cs of Notes.Web over the   *)
(* JavaScript socket of sync-client.js.                                    *)
(*                                                                         *)
(* A change the user saves is queued under its path, written to the socket *)
(* while another peer is in the room, kept "in flight" until the relay     *)
(* acknowledges it, and written again when the acknowledgement does not    *)
(* come in time.  Every await of the code is a point where another handler *)
(* may run: one flush, one send and one repair request are each several    *)
(* steps, and Tasks are the asynchronous invocations that may be under way *)
(* at the same time.                                                       *)
(***************************************************************************)
EXTENDS Integers, FiniteSets, Sequences

CONSTANTS
  Paths,           \* normalized note paths
  Rooms,           \* pairing codes
  NoRoom,          \* the value of _room before the first ConnectAsync
  Tasks,           \* asynchronous invocations (bound: how many overlap)
  MaxQueued,       \* maxQueuedOperations
  MaxInFlight,     \* DefaultMaxInFlightOperations
  MaxMessages,     \* bound: changes saved or repaired in a behaviour
  ManifestMayFail  \* whether building the repair manifest can throw

ASSUME ConstantsAssumption ==
  /\ IsFiniteSet(Paths) /\ Paths # {}
  /\ Rooms # {} /\ NoRoom \notin Rooms
  /\ Tasks # {}
  /\ MaxQueued \in Nat \ {0}
  /\ MaxInFlight \in Nat \ {0}
  /\ MaxMessages \in Nat
  /\ ManifestMayFail \in BOOLEAN

VARIABLES
  room,            \* _room
  socket,          \* "detached" (no connection object), "down" or "open"
  connected,       \* IsConnected
  peers,           \* PeerCount
  chain,           \* the task that runs OnMessage: messageQueue is serial
  pending,         \* pendingByPath: the messages, one per path
  order,           \* pendingOrder
  slot,            \* entry index of each key of the Dictionary (0: not a key)
  freeSlots,       \* the Dictionary's list of freed entries, last freed first
  inFlight,        \* inFlightPathByMessageId
  timed,           \* ids with an entry in inFlightTimeouts
  late,            \* ids with an expiry task that can no longer be cancelled
  wire,            \* messages written on this socket, their ack still to come
  nextId,          \* SyncMessageId.New as a counter
  pc, carried, sendOk, thenRepair,   \* the control state of each task
  gateFree,        \* flushGate
  repairPending, repairInProgress,   \* the fields of these names
  markedSince,     \* repairRequestGeneration has moved since the handler began
  requested        \* history: a request was written since the last mark

queueVars  == <<pending, order, slot, freeSlots>>
flightVars == <<inFlight, timed, late>>
linkVars   == <<room, socket, connected, peers, chain>>
taskVars   == <<pc, carried, sendOk, thenRepair, gateFree>>
repairVars == <<repairPending, repairInProgress, markedSince, requested>>
vars == <<linkVars, queueVars, flightVars, wire, nextId, taskVars, repairVars>>

-----------------------------------------------------------------------------
(* "since" is the id of the message that opened the path's queue entry: a   *)
(* newer change of the same path takes over the entry and its place.       *)
Message == [id : Nat, path : Paths, room : Rooms, repair : BOOLEAN, since : Nat]

IdsOf(M) == {m.id : m \in M}
Keys     == {m.path : m \in pending}
PC == {"idle", "gate", "flush", "sending",
       "repair", "manifest", "requesting", "repaired"}

CanSend(c, n) == c /\ n > 1
CanSendNow == CanSend(connected, peers)
HasInFlightCapacity == Cardinality(inFlight) < MaxInFlight
NoRoomCheck == TRUE                 \* mutant: a save before the first connect
HasRoom     == room # NoRoom

(* The keys K in the order in which the Dictionary enumerates its entries.  *)
Enumerations(K) ==
  {s \in [1..Cardinality(K) -> K] :
     /\ \A i, j \in DOMAIN s : i < j => slot[s[i]] < slot[s[j]]
     /\ \A p \in K : \E i \in DOMAIN s : s[i] = p}

(* The first queued message, in queue order, that is not in flight.         *)
Sendable == {m \in pending : m.id \notin IdsOf(inFlight)}
NextPendingToSend ==
  {m \in Sendable :
     \E i \in DOMAIN order :
        /\ order[i] = m.path
        /\ \A j \in 1..(i - 1) : \A n \in Sendable : order[j] # n.path}

-----------------------------------------------------------------------------
Init ==
  /\ room = NoRoom /\ socket = "detached" /\ connected = FALSE /\ peers = 0
  /\ chain \in Tasks
  /\ pending = {} /\ order = <<>> /\ freeSlots = <<>>
  /\ slot = [p \in Paths |-> 0]
  /\ inFlight = {} /\ timed = {} /\ late = {} /\ wire = {} /\ nextId = 1
  /\ pc = [t \in Tasks |-> "idle"]
  /\ carried = [t \in Tasks |-> {}]
  /\ sendOk = [t \in Tasks |-> FALSE]
  /\ thenRepair = [t \in Tasks |-> FALSE]
  /\ gateFree = TRUE
  /\ repairPending = FALSE /\ repairInProgress = FALSE
  /\ markedSince = FALSE /\ requested = FALSE

(* Cancel and remove the timeouts of ids.  A delay that has already elapsed *)
(* cannot be cancelled any more: its expiry task still runs, later.         *)
CancelTimeouts(ids) ==
  /\ timed' = timed \ ids
  /\ \E elapsed \in SUBSET (timed \cap ids) : late' = late \cup elapsed

RemoveInFlightOnly(ids) ==          \* mutant: the timeout stays
  /\ inFlight' = {m \in inFlight : m.id \notin ids}
  /\ UNCHANGED <<timed, late>>

RemoveInFlight(ids) ==
  /\ inFlight' = {m \in inFlight : m.id \notin ids}
  /\ CancelTimeouts(ids)

ClearInFlight ==
  /\ inFlight' = {}
  /\ CancelTimeouts(timed)

(* ClearPending, for the first connection to another room.                  *)
ClearInFlightOnly ==                \* mutant: the queue is kept
  /\ ClearInFlight
  /\ UNCHANGED queueVars

ClearPending ==
  /\ pending' = {} /\ order' = <<>> /\ freeSlots' = <<>>
  /\ slot' = [p \in Paths |-> 0]
  /\ ClearInFlight

MarkWithoutGeneration ==            \* mutant: the generation does not move
  /\ repairPending' = TRUE
  /\ requested' = FALSE
  /\ UNCHANGED <<repairInProgress, markedSince>>

MarkRepairPending ==
  /\ repairPending' = TRUE
  /\ markedSince' = repairInProgress
  /\ requested' = FALSE
  /\ UNCHANGED repairInProgress

(* The tail of a handler: FlushPendingAsync when the state it leaves allows *)
(* sending, and the repair request after it when the handler asks for one.  *)
FlushIfPossible(t, repair, possible) ==
  /\ IF possible
     THEN /\ pc[t] = "idle"
          /\ pc' = [pc EXCEPT ![t] = "gate"]
          /\ thenRepair' = [thenRepair EXCEPT ![t] = repair]
     ELSE UNCHANGED <<pc, thenRepair>>
  /\ UNCHANGED <<carried, sendOk, gateFree>>

-----------------------------------------------------------------------------
(* The page: connecting, disconnecting, saving.  A new connection starts a  *)
(* messageQueue of its own; what the old one awaits goes on beside it.      *)
NewChain ==
  chain' \in IF pc[chain] = "idle" THEN {chain} ELSE {t \in Tasks : pc[t] = "idle"}

ConnectClearing(r) ==               \* mutant: every connection clears the queue
  /\ ClearPending /\ NewChain
  /\ room' = r /\ socket' = "down" /\ connected' = FALSE /\ peers' = 0
  /\ wire' = {}
  /\ MarkRepairPending
  /\ UNCHANGED <<nextId, taskVars>>

Connect(r) ==
  /\ \/ room # r /\ ClearPending
     \/ room = r /\ UNCHANGED <<queueVars, flightVars>>
  /\ NewChain
  /\ room' = r /\ socket' = "down" /\ connected' = FALSE /\ peers' = 0
  /\ wire' = {}
  /\ MarkRepairPending
  /\ UNCHANGED <<nextId, taskVars>>

Disconnect ==
  /\ socket # "detached"
  /\ socket' = "detached" /\ connected' = FALSE /\ peers' = 0
  /\ wire' = {}
  /\ ClearInFlight
  /\ UNCHANGED <<room, chain, queueVars, nextId, taskVars, repairVars>>

(* A path that is not queued yet: when the queue is full the path at the    *)
(* head of the order is dropped first (the loop runs once, as the queue     *)
(* never holds more than MaxQueued paths), and its freed entry is reused.   *)
EnqueuePath(m) ==
  IF Cardinality(Keys) >= MaxQueued
  THEN LET victim == Head(order)
           dropped == {n \in pending : n.path = victim}
       IN /\ order' = Append(Tail(order), m.path)
          /\ slot' = [slot EXCEPT ![victim] = 0, ![m.path] = slot[victim]]
          /\ UNCHANGED freeSlots
          /\ pending' = (pending \ dropped) \cup {m}
          /\ RemoveInFlight(IdsOf(dropped))
  ELSE /\ order' = Append(order, m.path)
       /\ IF freeSlots = <<>>
          THEN /\ slot' = [slot EXCEPT ![m.path] = Cardinality(Keys) + 1]
               /\ UNCHANGED freeSlots
          ELSE /\ slot' = [slot EXCEPT ![m.path] = Head(freeSlots)]
               /\ freeSlots' = Tail(freeSlots)
       /\ pending' = pending \cup {m}
       /\ UNCHANGED flightVars

(* A path that is queued already: the newer change replaces the older one   *)
(* in place, and the older one is no longer waited for.                     *)
ReplacePath(m, previous) ==
  /\ pending' = (pending \ {previous}) \cup {m}
  /\ RemoveInFlight({previous.id})
  /\ UNCHANGED <<order, slot, freeSlots>>

NewMessage(p, repair, since) ==
  [id |-> nextId, path |-> p, room |-> room, repair |-> repair, since |-> since]

SendOrQueue(t, p) ==
  /\ t # chain /\ HasRoom /\ nextId <= MaxMessages
  /\ \/ /\ p \notin Keys
        /\ EnqueuePath(NewMessage(p, FALSE, nextId))
     \/ \E previous \in pending :
        /\ previous.path = p
        /\ ReplacePath(NewMessage(p, FALSE, previous.since), previous)
  /\ nextId' = nextId + 1
  /\ FlushIfPossible(t, FALSE, CanSendNow)
  /\ UNCHANGED <<linkVars, wire, repairVars>>

(* TrySendRepairFileAsync, called while OnMessage answers a repair request; *)
(* the answer goes on when the socket is lost or replaced meanwhile.        *)
CanQueueRepair(p) == p \notin Keys /\ Cardinality(Keys) < MaxQueued

TrySendRepairFile(t, p) ==
  /\ HasRoom /\ nextId <= MaxMessages
  /\ CanQueueRepair(p)
  /\ EnqueuePath(NewMessage(p, TRUE, nextId))
  /\ nextId' = nextId + 1
  /\ FlushIfPossible(t, FALSE, CanSendNow)
  /\ UNCHANGED <<linkVars, wire, repairVars>>

-----------------------------------------------------------------------------
(* The socket: status callbacks and incoming messages.                     *)

StatusConnected(t) ==
  /\ t # chain
  /\ socket = "down" /\ socket' = "open"
  /\ connected' = TRUE
  /\ peers' = IF peers > 1 THEN peers ELSE 1
  /\ wire' = {}
  /\ FlushIfPossible(t, TRUE, CanSend(TRUE, peers'))
  /\ UNCHANGED <<room, chain, queueVars, flightVars, nextId, repairVars>>

(* OnStatus with any other status: an error leaves the socket the current   *)
(* one until its close event, a close or an overload does not.              *)
StatusLost ==
  /\ socket # "detached"
  /\ socket' \in {socket, "down"}
  /\ connected' = FALSE /\ peers' = 0
  /\ ClearInFlight
  /\ MarkRepairPending
  /\ UNCHANGED <<room, chain, queueVars, wire, nextId, taskVars>>

Presence(n) ==
  /\ socket = "open" /\ pc[chain] = "idle"
  /\ peers' = n
  /\ IF n <= 1
     THEN ClearInFlight /\ MarkRepairPending
     ELSE UNCHANGED <<flightVars, repairVars>>
  /\ FlushIfPossible(chain, TRUE, CanSend(connected, n))
  /\ UNCHANGED <<room, chain, socket, connected, queueVars, wire, nextId>>

RemoveKeepingOrder(m) ==            \* mutant: RebuildPendingOrder is forgotten
  /\ pending' = pending \ {m}
  /\ slot' = [slot EXCEPT ![m.path] = 0]
  /\ freeSlots' = <<slot[m.path]>> \o freeSlots
  /\ UNCHANGED order

RemoveAcknowledged(m) ==
  /\ pending' = pending \ {m}
  /\ order' \in Enumerations(Keys \ {m.path})
  /\ slot' = [slot EXCEPT ![m.path] = 0]
  /\ freeSlots' = <<slot[m.path]>> \o freeSlots

(* The relay's acknowledgement of m.  One that is not waited for (it came   *)
(* before the send was marked, or after a timeout) is ignored.              *)
Acknowledge(m) ==
  /\ socket = "open" /\ m \in wire
  /\ pc[chain] = "idle"
  /\ wire' = wire \ {m}
  /\ IF m.id \notin IdsOf(inFlight)
     THEN UNCHANGED <<queueVars, flightVars, taskVars>>
     ELSE /\ RemoveInFlight({m.id})
          /\ IF m \in pending
             THEN RemoveAcknowledged(m)
             ELSE UNCHANGED queueVars
          /\ FlushIfPossible(chain, FALSE, CanSendNow)
  /\ UNCHANGED <<linkVars, nextId, repairVars>>

(* ExpireInFlightAsync of message id: the delay that inFlightTimeouts holds, *)
(* or a late one, which then drops a newer delay without cancelling it.     *)
ExpireWithoutFlush(t, id) ==        \* mutant: nobody is woken
  /\ t # chain /\ id \in timed
  /\ timed' = timed \ {id}
  /\ inFlight' = {m \in inFlight : m.id # id}
  /\ UNCHANGED <<late, linkVars, queueVars, wire, nextId, taskVars, repairVars>>

Expire(t, id) ==
  /\ t # chain
  /\ \/ /\ id \in timed
        /\ UNCHANGED late
     \/ /\ id \in late
        /\ late' = (late \ {id}) \cup (timed \cap {id})
  /\ timed' = timed \ {id}
  /\ inFlight' = {m \in inFlight : m.id # id}
  /\ FlushIfPossible(t, FALSE, id \in IdsOf(inFlight) /\ CanSendNow)
  /\ UNCHANGED <<linkVars, queueVars, wire, nextId, repairVars>>

-----------------------------------------------------------------------------
(* The steps of a task between its awaits.                                 *)

(* The JavaScript send: true when the open socket takes the message; when   *)
(* the socket throws, the status callback runs before false is returned.    *)
SocketTakes(written) ==
  /\ socket = "open"
  /\ wire' = wire \cup written
  /\ UNCHANGED <<linkVars, flightVars>>

SocketThrows ==
  /\ socket = "open"
  /\ socket' = "down" /\ connected' = FALSE /\ peers' = 0
  /\ ClearInFlight
  /\ MarkRepairPending
  /\ UNCHANGED <<room, chain, wire>>

SocketRefuses ==                    \* no socket, or one already closing
  UNCHANGED <<linkVars, flightVars, wire, repairVars>>

MarkDisconnected ==
  /\ connected' = FALSE /\ peers' = 0
  /\ ClearInFlight
  /\ MarkRepairPending
  /\ UNCHANGED <<room, chain, socket>>

AfterFlush(t) == IF thenRepair[t] THEN "repair" ELSE "idle"

FlushUngated(t) ==                  \* mutant: flushes are not serialized
  /\ pc[t] = "gate"
  /\ pc' = [pc EXCEPT ![t] = "flush"]
  /\ UNCHANGED <<linkVars, queueVars, flightVars, wire, nextId,
                 carried, sendOk, thenRepair, gateFree, repairVars>>

AcquireGate(t) ==
  /\ pc[t] = "gate" /\ gateFree
  /\ gateFree' = FALSE
  /\ pc' = [pc EXCEPT ![t] = "flush"]
  /\ UNCHANGED <<linkVars, queueVars, flightVars, wire, nextId,
                 carried, sendOk, thenRepair, repairVars>>

FlushSend(t) ==
  /\ pc[t] = "flush" /\ CanSendNow /\ HasInFlightCapacity
  /\ \E m \in NextPendingToSend :
       /\ carried' = [carried EXCEPT ![t] = {m}]
       /\ \/ SocketTakes({m}) /\ UNCHANGED repairVars
             /\ sendOk' = [sendOk EXCEPT ![t] = TRUE]
          \/ SocketThrows /\ sendOk' = [sendOk EXCEPT ![t] = FALSE]
          \/ SocketRefuses /\ sendOk' = [sendOk EXCEPT ![t] = FALSE]
  /\ pc' = [pc EXCEPT ![t] = "sending"]
  /\ UNCHANGED <<queueVars, nextId, thenRepair, gateFree>>

FlushEnd(t) ==
  /\ pc[t] = "flush"
  /\ ~(CanSendNow /\ HasInFlightCapacity /\ NextPendingToSend # {})
  /\ gateFree' = TRUE
  /\ pc' = [pc EXCEPT ![t] = AfterFlush(t)]
  /\ thenRepair' = [thenRepair EXCEPT ![t] = FALSE]
  /\ UNCHANGED <<linkVars, queueVars, flightVars, wire, nextId,
                 carried, sendOk, repairVars>>

(* MarkInFlight: only when the message is still its path's current one.     *)
SendSucceeded(t) ==
  /\ pc[t] = "sending" /\ sendOk[t]
  /\ \E m \in carried[t] :
       IF m \in pending
       THEN /\ inFlight' = inFlight \cup {m}
            /\ timed' = timed \cup {m.id}
            /\ \E elapsed \in SUBSET (timed \cap {m.id}) :
                 late' = late \cup elapsed
       ELSE UNCHANGED flightVars
  /\ pc' = [pc EXCEPT ![t] = "flush"]
  /\ carried' = [carried EXCEPT ![t] = {}]
  /\ sendOk' = [sendOk EXCEPT ![t] = FALSE]
  /\ UNCHANGED <<linkVars, queueVars, wire, nextId,
                 thenRepair, gateFree, repairVars>>

SendFailed(t) ==
  /\ pc[t] = "sending" /\ ~sendOk[t]
  /\ MarkDisconnected
  /\ gateFree' = TRUE
  /\ pc' = [pc EXCEPT ![t] = AfterFlush(t)]
  /\ carried' = [carried EXCEPT ![t] = {}]
  /\ thenRepair' = [thenRepair EXCEPT ![t] = FALSE]
  /\ UNCHANGED <<queueVars, wire, nextId, sendOk>>

(* RequestRepairIfPendingAsync up to the call of the page's handler.        *)
RepairCheck(t) ==
  /\ pc[t] = "repair"
  /\ IF CanSendNow /\ repairPending /\ ~repairInProgress
     THEN /\ repairInProgress' = TRUE
          /\ markedSince' = FALSE
          /\ pc' = [pc EXCEPT ![t] = "manifest"]
     ELSE /\ pc' = [pc EXCEPT ![t] = "idle"]
          /\ UNCHANGED <<repairInProgress, markedSince>>
  /\ UNCHANGED <<linkVars, queueVars, flightVars, wire, nextId, carried,
                 sendOk, thenRepair, gateFree, repairPending, requested>>

(* The page's handler swallows an exception, so the client sees a success.  *)
ManifestFails(t) ==
  /\ ManifestMayFail /\ pc[t] = "manifest"
  /\ pc' = [pc EXCEPT ![t] = "repaired"]
  /\ UNCHANGED <<linkVars, queueVars, flightVars, wire, nextId, carried,
                 sendOk, thenRepair, gateFree, repairVars>>

SendRepairRequest(t) ==
  /\ pc[t] = "manifest"
  /\ IF ~CanSendNow
     THEN /\ pc' = [pc EXCEPT ![t] = "repaired"]
          /\ UNCHANGED <<linkVars, flightVars, wire, sendOk, repairVars>>
     ELSE /\ pc' = [pc EXCEPT ![t] = "requesting"]
          /\ \/ /\ SocketTakes({})
                /\ sendOk' = [sendOk EXCEPT ![t] = TRUE]
                /\ requested' = TRUE
                /\ UNCHANGED <<repairPending, repairInProgress, markedSince>>
             \/ SocketThrows /\ sendOk' = [sendOk EXCEPT ![t] = FALSE]
             \/ SocketRefuses /\ sendOk' = [sendOk EXCEPT ![t] = FALSE]
  /\ UNCHANGED <<queueVars, nextId, carried, thenRepair, gateFree>>

RepairRequestSent(t) ==
  /\ pc[t] = "requesting"
  /\ IF sendOk[t]
     THEN UNCHANGED <<linkVars, flightVars, repairVars>>
     ELSE MarkDisconnected
  /\ pc' = [pc EXCEPT ![t] = "repaired"]
  /\ sendOk' = [sendOk EXCEPT ![t] = FALSE]
  /\ UNCHANGED <<queueVars, wire, nextId, carried, thenRepair, gateFree>>

NeverRetryRepair == FALSE           \* mutant: a mark during a request is dropped
RetryRepair == repairPending /\ markedSince /\ CanSendNow

RepairDone(t) ==
  /\ pc[t] = "repaired"
  /\ repairPending' = (repairPending /\ (markedSince \/ ~CanSendNow))
  /\ repairInProgress' = FALSE
  /\ markedSince' = FALSE
  /\ pc' = [pc EXCEPT ![t] = IF RetryRepair THEN "repair" ELSE "idle"]
  /\ UNCHANGED <<linkVars, queueVars, flightVars, wire, nextId, carried,
                 sendOk, thenRepair, gateFree, requested>>

-----------------------------------------------------------------------------
TaskStep(t) ==
  \/ AcquireGate(t)
  \/ FlushSend(t)
  \/ FlushEnd(t)
  \/ SendSucceeded(t)
  \/ SendFailed(t)
  \/ RepairCheck(t)
  \/ ManifestFails(t)
  \/ SendRepairRequest(t)
  \/ RepairRequestSent(t)
  \/ RepairDone(t)

Next ==
  \/ \E r \in Rooms : Connect(r)
  \/ Disconnect
  \/ \E t \in Tasks, p \in Paths : SendOrQueue(t, p)
  \/ \E t \in Tasks, p \in Paths : TrySendRepairFile(t, p)
  \/ \E t \in Tasks : StatusConnected(t)
  \/ StatusLost
  \/ \E n \in 1..2 : Presence(n)
  \/ \E m \in wire : Acknowledge(m)
  \/ \E t \in Tasks : \E id \in timed \cup late : Expire(t, id)
  \/ \E t \in Tasks : TaskStep(t)

Spec == Init /\ [][Next]_vars

(* The runtime runs every continuation whose await has completed, the gate  *)
(* admits its waiters in turn, and started delays elapse: no more is used   *)
(* than that some delay elapses again and again while any is started.  Of   *)
(* relay and network it is assumed that a message which is waited for again *)
(* and again is acknowledged, at some time, while it is waited for.         *)
AcknowledgedInFlight(i) ==
  \E m \in wire : m.id = i /\ m \in inFlight /\ Acknowledge(m)

Fairness ==
  /\ \A t \in Tasks : SF_vars(TaskStep(t))
  /\ SF_vars(\E t \in Tasks : \E id \in timed \cup late : Expire(t, id))
  /\ \A i \in 1..MaxMessages :
       []<>(i \in IdsOf(inFlight)) => []<><<AcknowledgedInFlight(i)>>_vars

FairSpec == Spec /\ Fairness

-----------------------------------------------------------------------------
(* The type invariant, by groups of variables.                             *)
LinkTypeOK ==
  /\ room \in Rooms \cup {NoRoom}
  /\ socket \in {"detached", "down", "open"}
  /\ connected \in BOOLEAN /\ peers \in Nat /\ chain \in Tasks
  /\ wire \in SUBSET Message /\ nextId \in Nat \ {0}

QueueTypeOK ==
  /\ pending \in SUBSET Message
  /\ order \in Seq(Paths)
  /\ slot \in [Paths -> Nat] /\ freeSlots \in Seq(Nat)

FlightTypeOK ==
  /\ inFlight \in SUBSET Message
  /\ timed \in SUBSET Nat /\ late \in SUBSET Nat

TaskTypeOK ==
  /\ pc \in [Tasks -> PC]
  /\ carried \in [Tasks -> SUBSET Message]
  /\ sendOk \in [Tasks -> BOOLEAN] /\ thenRepair \in [Tasks -> BOOLEAN]
  /\ gateFree \in BOOLEAN

RepairTypeOK ==
  /\ repairPending \in BOOLEAN /\ repairInProgress \in BOOLEAN
  /\ markedSince \in BOOLEAN /\ requested \in BOOLEAN

TypeOK ==
  LinkTypeOK /\ QueueTypeOK /\ FlightTypeOK /\ TaskTypeOK /\ RepairTypeOK

(* The dictionary and the queue beside it never part: every queued path has *)
(* one message and one place in the order, and no more than MaxQueued paths *)
(* are held.  A path without a place would never be sent.                   *)
QueueConsistent ==
  /\ \A m, n \in pending : m.path = n.path => m = n
  /\ {order[i] : i \in DOMAIN order} = Keys
  /\ \A i, j \in DOMAIN order : order[i] = order[j] => i = j
  /\ Cardinality(Keys) <= MaxQueued

(* Only current messages are waited for, and each has a timeout that will   *)
(* send it again: an entry of a replaced or dropped message would hold a    *)
(* place of the window for ever, one without a timeout could be waited for  *)
(* for ever.                                                                *)
InFlightTracked ==
  /\ inFlight \subseteq pending
  /\ timed = IdsOf(inFlight)

(* The window counts the message being written too: no interleaving of     *)
(* flushes, which test the window before an await and fill it after,        *)
(* exceeds it, and no two flushes write at the same time.                   *)
Sending == {t \in Tasks : pc[t] = "sending"}
WindowRespected ==
  /\ \A t, u \in Sending : t = u
  /\ Sending # {} => Cardinality(inFlight) < MaxInFlight
  /\ Cardinality(inFlight) <= MaxInFlight

(* A change saved for one room is never written to the socket of another,   *)
(* although the queue outlives disconnects and reconnects.                  *)
SentToOwnRoom == \A m \in wire : m.room = room

(* The inductive invariant: beside the properties above, the gate and the   *)
(* program counters agree, and every queued message is of this room and has *)
(* an id that was drawn before.                                             *)
Flushing == {t \in Tasks : pc[t] \in {"flush", "sending"}}
GateHeld ==
  /\ \A t, u \in Flushing : t = u
  /\ gateFree => Flushing = {}

QueuedHere == \A m \in pending : m.room = room /\ m.id < nextId

IInv ==
  /\ TypeOK
  /\ QueueConsistent
  /\ InFlightTracked
  /\ GateHeld /\ WindowRespected
  /\ QueuedHere /\ SentToOwnRoom

(* A queued change leaves the queue in four ways only: a newer change of    *)
(* its path replaces it, the relay acknowledges it after it was written to  *)
(* this very socket, the full queue drops it for a new path, or the vault   *)
(* of another room is opened.                                               *)
NothingLostSilently ==
  [][\A m \in pending \ pending' :
       \/ \E n \in pending' : n.path = m.path /\ n.id > m.id
       \/ m \in wire \ wire'
       \/ Cardinality(Keys) = MaxQueued /\ nextId' = nextId + 1
       \/ room' # room]_vars

(* A file sent to repair a peer never pushes out or replaces a change the   *)
(* user made (the two tests of TrySendRepairFileAsync, for every order).    *)
RepairNeverDisplaces ==
  [][(\E n \in pending' \ pending : n.repair) => pending \subseteq pending']_vars

(* When the client believes that no repair is due, it has written a repair  *)
(* request since it last lost its socket or its last peer: a loss while the *)
(* request is being built must not be forgotten when the handler returns.   *)
RepairRequestedSinceAbsence ==
  room # NoRoom => repairPending \/ requested

(* "SendFileAsyncBoundsQueuedPathsByDroppingOldestPath": a save that pushes *)
(* a path out of the full queue pushes out the one queued for longest.      *)
DropsOldestPath ==
  [][nextId' # nextId =>
       \A m \in pending :
          m.path \in {n.path : n \in pending'}
          \/ \A n \in pending : m.since <= n.since]_vars

(* While the client stays connected with a peer, every queued change is     *)
(* acknowledged in the end: no wake-up of the flush is lost between the     *)
(* window filling up, acknowledgements, timeouts and overlapping flushes.   *)
DeliveredWhenStable == <>[]CanSendNow => <>[](pending = {})

(* While the client stays connected with a peer, the repair request that    *)
(* became due is made in the end, also when the peer left during an earlier *)
(* one.                                                                     *)
RepairedWhenStable == <>[]CanSendNow => <>[](~repairPending)

=============================================================================
