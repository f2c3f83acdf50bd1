-------------------------- MODULE SyncClientProofs --------------------------
(* Proofs about SyncClient for every set of paths, rooms and tasks and every *)
(* queue and window size.                                                   *)
EXTENDS SyncClient, FiniteSetTheorems, TLAPS

(* The queued paths are finitely many, so that their number is meaningful.  *)
LEMMA KeysFinite ==
  ASSUME TypeOK
  PROVE  /\ Keys \subseteq Paths
         /\ IsFiniteSet(Keys) /\ Cardinality(Keys) \in Nat
<1>1. Keys \subseteq Paths
  BY DEF Keys, TypeOK, QueueTypeOK, Message
<1>2. QED
  BY <1>1, ConstantsAssumption, FS_Subset, FS_CardinalityType

(* The order RebuildPendingOrder leaves is a sequence of the remaining keys, *)
(* each of them once.                                                       *)
LEMMA EnumerationsType ==
  ASSUME TypeOK, NEW K \in SUBSET Paths, NEW s \in Enumerations(K)
  PROVE  /\ s \in Seq(Paths)
         /\ {s[i] : i \in DOMAIN s} = K
         /\ \A i, j \in DOMAIN s : s[i] = s[j] => i = j
<1>1. Cardinality(K) \in Nat
  BY ConstantsAssumption, FS_Subset, FS_CardinalityType
<1>2. s \in [1..Cardinality(K) -> K]
  BY DEF Enumerations
<1>3. s \in Seq(Paths)
  BY <1>1, <1>2
<1>4. {s[i] : i \in DOMAIN s} = K
  BY <1>2 DEF Enumerations
<1>5. \A i, j \in DOMAIN s : s[i] = s[j] => i = j
  <2> SUFFICES ASSUME NEW i \in DOMAIN s, NEW j \in DOMAIN s, s[i] = s[j]
               PROVE  i = j
    OBVIOUS
  <2>0. slot \in [Paths -> Nat]
    BY DEF TypeOK, QueueTypeOK
  <2>1. i \in Int /\ j \in Int /\ s[i] \in Paths /\ slot[s[i]] \in Nat
    BY <1>1, <1>2, <2>0
  <2>2. ~(i < j) /\ ~(j < i)
    BY <2>1 DEF Enumerations
  <2>3. QED
    BY <2>1, <2>2
<1>6. QED
  BY <1>3, <1>4, <1>5

(* The shared parts of the handlers leave their variables within their types. *)
LEMMA RemoveInFlightType ==
  ASSUME FlightTypeOK, NEW ids, RemoveInFlight(ids) PROVE FlightTypeOK'
BY DEF FlightTypeOK, RemoveInFlight, CancelTimeouts

(* Forgetting everything in flight (ClearInFlight) keeps its types.         *)
LEMMA ClearInFlightType == ASSUME FlightTypeOK, ClearInFlight PROVE FlightTypeOK'
BY DEF FlightTypeOK, ClearInFlight, CancelTimeouts

(* Marking a repair as due (MarkRepairPending) keeps its types.             *)
LEMMA MarkRepairPendingType ==
  ASSUME RepairTypeOK, MarkRepairPending PROVE RepairTypeOK'
BY DEF RepairTypeOK, MarkRepairPending

(* Starting the flush at the end of a handler keeps the tasks' types.       *)
LEMMA FlushIfPossibleType ==
  ASSUME TaskTypeOK, NEW t \in Tasks, NEW b \in BOOLEAN, NEW c \in BOOLEAN,
         FlushIfPossible(t, b, c)
  PROVE  TaskTypeOK'
BY DEF TaskTypeOK, FlushIfPossible, PC

(* A full queue has a head to drop. *)
LEMMA FullQueueHasHead ==
  ASSUME TypeOK, Keys # {} => order # <<>>, Cardinality(Keys) >= MaxQueued
  PROVE  /\ order # <<>>
         /\ Head(order) \in Paths /\ Tail(order) \in Seq(Paths)
<1>1. Keys # {}
  <2> SUFFICES ASSUME Keys = {} PROVE FALSE
    OBVIOUS
  <2>1. Cardinality(Keys) = 0
    BY FS_EmptySet
  <2>2. QED
    BY <2>1, ConstantsAssumption
<1>2. order \in Seq(Paths)
  BY DEF TypeOK, QueueTypeOK
<1>3. QED
  BY <1>1, <1>2

(* Queueing a new path, with the eviction of a full queue, keeps its types. *)
LEMMA EnqueuePathType ==
  ASSUME TypeOK, NEW m \in Message, EnqueuePath(m), Keys # {} => order # <<>>
  PROVE  QueueTypeOK' /\ FlightTypeOK'
<1> USE DEF QueueTypeOK
<1>1. /\ m.path \in Paths /\ Cardinality(Keys) \in Nat
      /\ QueueTypeOK /\ FlightTypeOK
  BY KeysFinite DEF TypeOK, Message
<1>2. CASE Cardinality(Keys) >= MaxQueued
  <2> DEFINE victim == Head(order)
             dropped == {n \in pending : n.path = victim}
  <2>1. victim \in Paths /\ Tail(order) \in Seq(Paths)
    BY <1>2, FullQueueHasHead
  <2>2. /\ order' = Append(Tail(order), m.path)
        /\ slot' = [slot EXCEPT ![victim] = 0, ![m.path] = slot[victim]]
        /\ freeSlots' = freeSlots
        /\ pending' = (pending \ dropped) \cup {m}
        /\ RemoveInFlight(IdsOf(dropped))
    BY <1>2 DEF EnqueuePath
  <2>3. FlightTypeOK'
    BY <1>1, <2>2, RemoveInFlightType
  <2>4. slot' \in [Paths -> Nat]
    BY <1>1, <2>1, <2>2
  <2>5. order' \in Seq(Paths) /\ freeSlots' \in Seq(Nat)
    BY <1>1, <2>1, <2>2
  <2>6. pending' \in SUBSET Message
    BY <1>1, <2>2
  <2>7. QED
    BY <2>3, <2>4, <2>5, <2>6
<1>3. CASE ~(Cardinality(Keys) >= MaxQueued)
  <2>1. freeSlots # <<>> =>
          Head(freeSlots) \in Nat /\ Tail(freeSlots) \in Seq(Nat)
    BY <1>1
  <2>2. /\ order' = Append(order, m.path)
        /\ pending' = pending \cup {m}
        /\ UNCHANGED flightVars
    BY <1>3 DEF EnqueuePath
  <2>3. slot' \in [Paths -> Nat] /\ freeSlots' \in Seq(Nat)
    <3>1. CASE freeSlots = <<>>
      <4>1. /\ slot' = [slot EXCEPT ![m.path] = Cardinality(Keys) + 1]
            /\ freeSlots' = freeSlots
        BY <1>3, <3>1 DEF EnqueuePath
      <4>2. QED
        BY <1>1, <4>1
    <3>2. CASE freeSlots # <<>>
      <4>1. /\ slot' = [slot EXCEPT ![m.path] = Head(freeSlots)]
            /\ freeSlots' = Tail(freeSlots)
        BY <1>3, <3>2 DEF EnqueuePath
      <4>2. QED
        BY <1>1, <2>1, <3>2, <4>1
    <3>3. QED
      BY <3>1, <3>2
  <2>4. QED
    BY <1>1, <2>2, <2>3 DEF flightVars, FlightTypeOK
<1>4. QED
  BY <1>2, <1>3

-----------------------------------------------------------------------------
(* A change saved after the first connection is a well-typed message.       *)
LEMMA NewMessageType ==
  ASSUME LinkTypeOK, room # NoRoom,
         NEW p \in Paths, NEW b \in BOOLEAN, NEW n \in Nat
  PROVE  NewMessage(p, b, n) \in Message
BY DEF LinkTypeOK, NewMessage, Message

(* Every step leaves the variables within their types. *)
LEMMA TypeStep == TypeOK /\ QueueConsistent /\ [Next]_vars => TypeOK'
<1> SUFFICES ASSUME TypeOK, QueueConsistent, [Next]_vars PROVE TypeOK'
  OBVIOUS
<1>a. LinkTypeOK /\ QueueTypeOK /\ FlightTypeOK /\ TaskTypeOK /\ RepairTypeOK
  BY DEF TypeOK
<1>b. Keys # {} => order # <<>>
  BY <1>a DEF QueueConsistent, QueueTypeOK
<1>c. CanSendNow \in BOOLEAN /\ chain \in Tasks
  BY <1>a DEF CanSendNow, CanSend, LinkTypeOK
<1>d. /\ UNCHANGED queueVars => QueueTypeOK'
      /\ UNCHANGED flightVars => FlightTypeOK'
      /\ UNCHANGED taskVars => TaskTypeOK'
      /\ UNCHANGED repairVars => RepairTypeOK'
      /\ UNCHANGED <<linkVars, wire, nextId>> => LinkTypeOK'
  BY <1>a DEF queueVars, flightVars, taskVars, repairVars, linkVars,
              QueueTypeOK, FlightTypeOK, TaskTypeOK, RepairTypeOK, LinkTypeOK
<1>1. ASSUME NEW r \in Rooms, Connect(r) PROVE TypeOK'
  <2>1. LinkTypeOK'
    BY <1>a, <1>c, <1>1 DEF Connect, NewChain, LinkTypeOK
  <2>2. QueueTypeOK' /\ FlightTypeOK'
    <3>1. CASE room = r
      BY <1>d, <1>1, <3>1 DEF Connect
    <3>2. CASE room # r
      <4>1. /\ pending' = {} /\ order' = <<>> /\ freeSlots' = <<>>
            /\ slot' = [p \in Paths |-> 0]
            /\ ClearInFlight
        BY <1>1, <3>2 DEF Connect, ClearPending
      <4>2. QED
        BY <1>a, <4>1, ClearInFlightType DEF QueueTypeOK
    <3>3. QED
      BY <3>1, <3>2
  <2>3. TaskTypeOK' /\ RepairTypeOK'
    BY <1>a, <1>d, <1>1, MarkRepairPendingType DEF Connect
  <2>4. QED
    BY <2>1, <2>2, <2>3 DEF TypeOK
<1>2. CASE Disconnect
  <2>1. LinkTypeOK'
    BY <1>a, <1>2 DEF Disconnect, LinkTypeOK
  <2>2. QED
    BY <1>a, <1>d, <1>2, <2>1, ClearInFlightType DEF Disconnect, TypeOK
<1>3. ASSUME NEW t \in Tasks, NEW p \in Paths, SendOrQueue(t, p) PROVE TypeOK'
  <2>1. QueueTypeOK' /\ FlightTypeOK'
    <3>1. CASE p \notin Keys /\ EnqueuePath(NewMessage(p, FALSE, nextId))
      <4>1. NewMessage(p, FALSE, nextId) \in Message
        BY <1>a, <1>3, NewMessageType DEF SendOrQueue, LinkTypeOK, HasRoom
      <4>2. QED
        BY <1>b, <3>1, <4>1, EnqueuePathType
    <3>2. ASSUME NEW previous \in pending,
                 ReplacePath(NewMessage(p, FALSE, previous.since), previous)
          PROVE  QueueTypeOK' /\ FlightTypeOK'
      <4>1. NewMessage(p, FALSE, previous.since) \in Message
        <5>1. previous.since \in Nat
          BY <1>a DEF QueueTypeOK, Message
        <5>2. QED
          BY <1>a, <1>3, <5>1, NewMessageType DEF SendOrQueue, HasRoom
      <4>2. RemoveInFlight({previous.id})
        BY <3>2 DEF ReplacePath
      <4>3. QED
        BY <1>a, <3>2, <4>1, <4>2, RemoveInFlightType
           DEF ReplacePath, QueueTypeOK
    <3>3. QED
      BY <1>3, <3>1, <3>2 DEF SendOrQueue
  <2>2. LinkTypeOK' /\ RepairTypeOK'
    BY <1>a, <1>d, <1>3 DEF SendOrQueue, LinkTypeOK, linkVars
  <2>3. TaskTypeOK'
    BY <1>a, <1>c, <1>3, FlushIfPossibleType DEF SendOrQueue
  <2>4. QED
    BY <2>1, <2>2, <2>3 DEF TypeOK
<1>4. ASSUME NEW t \in Tasks, NEW p \in Paths, TrySendRepairFile(t, p) PROVE TypeOK'
  <2>1. NewMessage(p, TRUE, nextId) \in Message
    BY <1>a, <1>4, NewMessageType DEF TrySendRepairFile, LinkTypeOK, HasRoom
  <2>2. QueueTypeOK' /\ FlightTypeOK'
    BY <1>b, <1>4, <2>1, EnqueuePathType DEF TrySendRepairFile
  <2>3. LinkTypeOK' /\ RepairTypeOK'
    BY <1>a, <1>d, <1>4 DEF TrySendRepairFile, LinkTypeOK, linkVars
  <2>4. TaskTypeOK'
    BY <1>a, <1>c, <1>4, FlushIfPossibleType DEF TrySendRepairFile
  <2>5. QED
    BY <2>2, <2>3, <2>4 DEF TypeOK
<1>5. ASSUME NEW t \in Tasks, StatusConnected(t) PROVE TypeOK'
  <2>1. LinkTypeOK'
    BY <1>a, <1>5 DEF StatusConnected, LinkTypeOK
  <2>2. CanSend(TRUE, peers') \in BOOLEAN
    BY DEF CanSend
  <2>3. TaskTypeOK'
    BY <1>a, <1>5, <2>2, FlushIfPossibleType DEF StatusConnected
  <2>4. QED
    BY <1>d, <1>5, <2>1, <2>3 DEF StatusConnected, TypeOK
<1>6. CASE StatusLost
  <2>1. LinkTypeOK'
    BY <1>a, <1>6 DEF StatusLost, LinkTypeOK
  <2>2. QED
    BY <1>a, <1>d, <1>6, <2>1, ClearInFlightType, MarkRepairPendingType
       DEF StatusLost, TypeOK
<1>7. ASSUME NEW n \in 1..2, Presence(n) PROVE TypeOK'
  <2>1. LinkTypeOK'
    BY <1>a, <1>7 DEF Presence, LinkTypeOK
  <2>2. FlightTypeOK' /\ RepairTypeOK'
    BY <1>a, <1>d, <1>7, ClearInFlightType, MarkRepairPendingType DEF Presence
  <2>3. CanSend(connected, n) \in BOOLEAN
    BY DEF CanSend
  <2>4. TaskTypeOK'
    BY <1>a, <1>c, <1>7, <2>3, FlushIfPossibleType DEF Presence
  <2>5. QED
    BY <1>d, <1>7, <2>1, <2>2, <2>4 DEF Presence, TypeOK
<1>8. ASSUME NEW m \in wire, Acknowledge(m) PROVE TypeOK'
  <2>1. m \in Message
    BY <1>a DEF LinkTypeOK
  <2>2. QueueTypeOK' /\ FlightTypeOK'
    <3>1. CASE m.id \notin IdsOf(inFlight)
      BY <1>8, <1>d, <3>1 DEF Acknowledge
    <3>2. CASE m.id \in IdsOf(inFlight) /\ m \notin pending
      BY <1>8, <1>a, <1>d, <3>2, RemoveInFlightType DEF Acknowledge
    <3>3. CASE m.id \in IdsOf(inFlight) /\ m \in pending
      <4>1. Keys \ {m.path} \in SUBSET Paths
        BY KeysFinite
      <4>2. /\ RemoveInFlight({m.id})
            /\ pending' = pending \ {m}
            /\ order' \in Enumerations(Keys \ {m.path})
            /\ slot' = [slot EXCEPT ![m.path] = 0]
            /\ freeSlots' = <<slot[m.path]>> \o freeSlots
        BY <1>8, <3>3 DEF Acknowledge, RemoveAcknowledged
      <4>3. order' \in Seq(Paths)
        BY <4>1, <4>2, EnumerationsType
      <4>4. slot' \in [Paths -> Nat] /\ freeSlots' \in Seq(Nat)
        <5>1. /\ m.path \in Paths
              /\ slot \in [Paths -> Nat] /\ freeSlots \in Seq(Nat)
          BY <1>a, <2>1 DEF QueueTypeOK, Message
        <5>2. <<slot[m.path]>> \in Seq(Nat)
          BY <5>1
        <5>3. QED
          BY <4>2, <5>1, <5>2
      <4>5. QED
        BY <1>a, <4>2, <4>3, <4>4, RemoveInFlightType DEF QueueTypeOK
    <3>4. QED
      BY <3>1, <3>2, <3>3
  <2>3. TaskTypeOK'
    BY <1>a, <1>c, <1>d, <1>8, FlushIfPossibleType DEF Acknowledge
  <2>4. LinkTypeOK'
    BY <1>a, <1>8 DEF Acknowledge, LinkTypeOK, linkVars
  <2>5. QED
    BY <1>d, <1>8, <2>2, <2>3, <2>4 DEF Acknowledge, TypeOK
<1>9. ASSUME NEW t \in Tasks, NEW id \in timed \cup late, Expire(t, id)
      PROVE  TypeOK'
  <2>1. FlightTypeOK'
    BY <1>a, <1>9 DEF Expire, FlightTypeOK
  <2>2. TaskTypeOK'
    BY <1>a, <1>c, <1>9, FlushIfPossibleType DEF Expire
  <2>3. QED
    BY <1>d, <1>9, <2>1, <2>2 DEF Expire, TypeOK
<1>10. ASSUME NEW t \in Tasks, TaskStep(t) PROVE TypeOK'
  <2>a. ASSUME SocketThrows PROVE FlightTypeOK' /\ RepairTypeOK'
    BY <1>a, <2>a, ClearInFlightType, MarkRepairPendingType DEF SocketThrows
  <2>b. ASSUME MarkDisconnected, UNCHANGED <<wire, nextId>>
        PROVE  LinkTypeOK' /\ FlightTypeOK' /\ RepairTypeOK'
    BY <1>a, <2>b, ClearInFlightType, MarkRepairPendingType
       DEF MarkDisconnected, LinkTypeOK
  <2>c. ASSUME NEW M \in SUBSET Message, nextId' = nextId,
               SocketTakes(M) \/ SocketThrows \/ SocketRefuses
        PROVE  LinkTypeOK'
    <3>1. CASE SocketTakes(M)
      BY <1>a, <2>c, <3>1 DEF SocketTakes, LinkTypeOK, linkVars
    <3>2. CASE SocketThrows
      BY <1>a, <2>c, <3>2 DEF SocketThrows, LinkTypeOK
    <3>3. CASE SocketRefuses
      BY <1>a, <2>c, <3>3 DEF SocketRefuses, LinkTypeOK, linkVars
    <3>4. QED
      BY <2>c, <3>1, <3>2, <3>3
  <2>d. ASSUME NEW M, SocketTakes(M) PROVE FlightTypeOK'
    BY <1>d, <2>d DEF SocketTakes
  <2>e. ASSUME SocketRefuses PROVE FlightTypeOK' /\ RepairTypeOK'
    BY <1>d, <2>e DEF SocketRefuses
  <2>1. CASE AcquireGate(t)
    <3>1. TaskTypeOK'
      BY <1>a, <2>1 DEF AcquireGate, TaskTypeOK, PC
    <3>2. QED
      BY <1>d, <2>1, <3>1 DEF AcquireGate, TypeOK
  <2>2. CASE FlushSend(t)
    <3>1. PICK m \in NextPendingToSend :
            /\ carried' = [carried EXCEPT ![t] = {m}]
            /\ \/ SocketTakes({m}) /\ UNCHANGED repairVars
                  /\ sendOk' = [sendOk EXCEPT ![t] = TRUE]
               \/ SocketThrows /\ sendOk' = [sendOk EXCEPT ![t] = FALSE]
               \/ SocketRefuses /\ sendOk' = [sendOk EXCEPT ![t] = FALSE]
      BY <2>2 DEF FlushSend
    <3>2. m \in Message
      BY <1>a DEF NextPendingToSend, Sendable, QueueTypeOK
    <3>3. TaskTypeOK'
      BY <1>a, <2>2, <3>1, <3>2 DEF FlushSend, TaskTypeOK, PC
    <3>4. QueueTypeOK' /\ nextId' = nextId
      BY <1>d, <2>2 DEF FlushSend
    <3>5. LinkTypeOK' /\ FlightTypeOK' /\ RepairTypeOK'
      BY <1>d, <2>a, <2>c, <2>d, <2>e, <3>1, <3>2, <3>4
    <3>6. QED
      BY <3>3, <3>4, <3>5 DEF TypeOK
  <2>3. CASE FlushEnd(t)
    <3>1. TaskTypeOK'
      BY <1>a, <2>3 DEF FlushEnd, AfterFlush, TaskTypeOK, PC
    <3>2. QED
      BY <1>d, <2>3, <3>1 DEF FlushEnd, TypeOK
  <2>4. CASE SendSucceeded(t)
    <3>1. \A m \in carried[t] : m \in Message /\ m.id \in Nat
      BY <1>a DEF TaskTypeOK, Message
    <3>2. FlightTypeOK'
      BY <1>a, <1>d, <2>4, <3>1 DEF SendSucceeded, FlightTypeOK, flightVars
    <3>3. TaskTypeOK'
      BY <1>a, <2>4 DEF SendSucceeded, TaskTypeOK, PC
    <3>4. QED
      BY <1>d, <2>4, <3>2, <3>3 DEF SendSucceeded, TypeOK
  <2>5. CASE SendFailed(t)
    <3>1. TaskTypeOK'
      BY <1>a, <2>5 DEF SendFailed, AfterFlush, TaskTypeOK, PC
    <3>2. QED
      BY <1>d, <2>5, <2>b, <3>1 DEF SendFailed, TypeOK
  <2>6. CASE RepairCheck(t)
    <3>1. TaskTypeOK' /\ RepairTypeOK'
      BY <1>a, <2>6 DEF RepairCheck, TaskTypeOK, RepairTypeOK, PC
    <3>2. QED
      BY <1>d, <2>6, <3>1 DEF RepairCheck, TypeOK
  <2>7. CASE ManifestFails(t)
    <3>1. TaskTypeOK'
      BY <1>a, <2>7 DEF ManifestFails, TaskTypeOK, PC
    <3>2. QED
      BY <1>d, <2>7, <3>1 DEF ManifestFails, TypeOK
  <2>8. CASE SendRepairRequest(t)
    <3>1. TaskTypeOK'
      BY <1>a, <2>8 DEF SendRepairRequest, TaskTypeOK, PC
    <3>2. QueueTypeOK' /\ nextId' = nextId
      BY <1>d, <2>8 DEF SendRepairRequest
    <3>3. CASE ~CanSendNow
      BY <1>d, <2>8, <3>1, <3>2, <3>3 DEF SendRepairRequest, TypeOK
    <3>4. CASE CanSendNow /\ SocketTakes({}) /\ requested' = TRUE
               /\ UNCHANGED <<repairPending, repairInProgress, markedSince>>
      <4>1. RepairTypeOK'
        BY <1>a, <3>4 DEF RepairTypeOK
      <4>2. LinkTypeOK' /\ FlightTypeOK'
        BY <2>c, <2>d, <3>2, <3>4
      <4>3. QED
        BY <3>1, <3>2, <4>1, <4>2 DEF TypeOK
    <3>5. CASE CanSendNow /\ (SocketThrows \/ SocketRefuses)
      <4>1. LinkTypeOK'
        BY <2>c, <3>2, <3>5
      <4>2. QED
        BY <2>a, <2>e, <3>1, <3>2, <3>5, <4>1 DEF TypeOK
    <3>6. QED
      BY <2>8, <3>3, <3>4, <3>5 DEF SendRepairRequest
  <2>9. CASE RepairRequestSent(t)
    <3>1. TaskTypeOK'
      BY <1>a, <2>9 DEF RepairRequestSent, TaskTypeOK, PC
    <3>2. QED
      BY <1>d, <2>9, <2>b, <3>1 DEF RepairRequestSent, TypeOK
  <2>10. CASE RepairDone(t)
    <3>1. TaskTypeOK' /\ RepairTypeOK'
      BY <1>a, <2>10 DEF RepairDone, TaskTypeOK, RepairTypeOK, PC
    <3>2. QED
      BY <1>d, <2>10, <3>1 DEF RepairDone, TypeOK
  <2>11. QED
    BY <1>10, <2>1, <2>2, <2>3, <2>4, <2>5, <2>6, <2>7, <2>8, <2>9, <2>10
       DEF TaskStep
<1>11. CASE UNCHANGED vars
  BY <1>d, <1>11 DEF TypeOK, vars
<1>12. QED
  BY <1>1, <1>2, <1>3, <1>4, <1>5, <1>6, <1>7, <1>8, <1>9, <1>10, <1>11 DEF Next

-----------------------------------------------------------------------------
(* What a step can do to the queue and to the window, the interleavings of   *)
(* the tasks put aside.                                                     *)
QueueSame == UNCHANGED <<queueVars, nextId, room>>

Enqueues(p, b) ==
  /\ p \notin Keys /\ room # NoRoom
  /\ EnqueuePath(NewMessage(p, b, nextId))
  /\ b => Cardinality(Keys) < MaxQueued
  /\ nextId' = nextId + 1 /\ room' = room

Replaces(previous) ==
  /\ ReplacePath(NewMessage(previous.path, FALSE, previous.since), previous)
  /\ nextId' = nextId + 1 /\ room' = room /\ room # NoRoom

Acknowledges(m) ==
  /\ RemoveInFlight({m.id})
  /\ pending' = pending \ {m}
  /\ order' \in Enumerations(Keys \ {m.path})
  /\ wire' = wire \ {m}
  /\ nextId' = nextId /\ room' = room

Expires(id) ==
  /\ timed' = timed \ {id}
  /\ inFlight' = {m \in inFlight : m.id # id}

MarksInFlight(m) ==
  /\ m \in pending
  /\ inFlight' = inFlight \cup {m}
  /\ timed' = timed \cup {m.id}

StepKinds ==
  \/ QueueSame /\ UNCHANGED flightVars
  \/ QueueSame /\ ClearInFlight
  \/ QueueSame /\ \E id : RemoveInFlight({id})
  \/ QueueSame /\ \E id : Expires(id)
  \/ QueueSame /\ \E m : MarksInFlight(m)
  \/ \E r \in Rooms : Connect(r)
  \/ \E p \in Paths, b \in BOOLEAN : Enqueues(p, b)
  \/ \E previous \in pending : Replaces(previous)
  \/ \E m \in wire \cap pending : Acknowledges(m)

(* Every step touches the queue and the window in one of these ways.        *)
LEMMA StepIsOfAKind == [Next]_vars => StepKinds
<1> SUFFICES ASSUME [Next]_vars PROVE StepKinds
  OBVIOUS
<1> USE DEF QueueSame, linkVars
<1>1. ASSUME NEW r \in Rooms, Connect(r) PROVE StepKinds
  BY <1>1 DEF StepKinds
<1>2. CASE Disconnect
  BY <1>2 DEF Disconnect, StepKinds
<1>3. ASSUME NEW t \in Tasks, NEW p \in Paths, SendOrQueue(t, p) PROVE StepKinds
  <2>1. CASE p \notin Keys /\ EnqueuePath(NewMessage(p, FALSE, nextId))
    <3>1. Enqueues(p, FALSE)
      BY <1>3, <2>1 DEF SendOrQueue, Enqueues, HasRoom
    <3>2. QED
      BY <3>1 DEF StepKinds
  <2>2. ASSUME NEW previous \in pending, previous.path = p,
               ReplacePath(NewMessage(p, FALSE, previous.since), previous)
        PROVE  StepKinds
    <3>1. Replaces(previous)
      BY <1>3, <2>2 DEF SendOrQueue, Replaces, HasRoom
    <3>2. QED
      BY <3>1 DEF StepKinds
  <2>3. QED
    BY <1>3, <2>1, <2>2 DEF SendOrQueue
<1>4. ASSUME NEW t \in Tasks, NEW p \in Paths, TrySendRepairFile(t, p) PROVE StepKinds
  <2>1. Enqueues(p, TRUE)
    BY <1>4 DEF TrySendRepairFile, Enqueues, CanQueueRepair, HasRoom
  <2>2. QED
    BY <2>1 DEF StepKinds
<1>5. ASSUME NEW t \in Tasks, StatusConnected(t) PROVE StepKinds
  BY <1>5 DEF StatusConnected, StepKinds
<1>6. CASE StatusLost
  BY <1>6 DEF StatusLost, StepKinds
<1>7. ASSUME NEW n \in 1..2, Presence(n) PROVE StepKinds
  BY <1>7 DEF Presence, StepKinds
<1>8. ASSUME NEW m \in wire, Acknowledge(m) PROVE StepKinds
  <2>1. CASE m.id \notin IdsOf(inFlight)
    BY <1>8, <2>1 DEF Acknowledge, StepKinds
  <2>2. CASE m.id \in IdsOf(inFlight) /\ m \notin pending
    BY <1>8, <2>2 DEF Acknowledge, StepKinds
  <2>3. CASE m.id \in IdsOf(inFlight) /\ m \in pending
    <3>1. Acknowledges(m)
      BY <1>8, <2>3 DEF Acknowledge, Acknowledges, RemoveAcknowledged
    <3>2. QED
      BY <2>3, <3>1 DEF StepKinds
  <2>4. QED
    BY <2>1, <2>2, <2>3
<1>9. ASSUME NEW t \in Tasks, NEW id \in timed \cup late, Expire(t, id)
      PROVE  StepKinds
  <2>1. Expires(id) /\ QueueSame
    BY <1>9 DEF Expire, Expires
  <2>2. QED
    BY <2>1 DEF StepKinds
<1>10. ASSUME NEW t \in Tasks, TaskStep(t) PROVE StepKinds
  <2>1. CASE FlushSend(t)
    BY <2>1 DEF FlushSend, SocketTakes, SocketThrows, SocketRefuses, StepKinds
  <2>2. CASE SendSucceeded(t)
    <3>1. QueueSame
      BY <2>2 DEF SendSucceeded
    <3>2. PICK m \in carried[t] :
            IF m \in pending
            THEN inFlight' = inFlight \cup {m} /\ timed' = timed \cup {m.id}
            ELSE UNCHANGED flightVars
      BY <2>2 DEF SendSucceeded
    <3>3. CASE m \in pending
      <4>1. MarksInFlight(m)
        BY <3>2, <3>3 DEF MarksInFlight
      <4>2. QED
        BY <3>1, <4>1 DEF StepKinds
    <3>4. CASE m \notin pending
      BY <3>1, <3>2, <3>4 DEF StepKinds
    <3>5. QED
      BY <3>3, <3>4
  <2>3. CASE SendFailed(t)
    BY <2>3 DEF SendFailed, MarkDisconnected, StepKinds
  <2>4. CASE SendRepairRequest(t)
    BY <2>4 DEF SendRepairRequest, SocketTakes, SocketThrows, SocketRefuses,
                StepKinds
  <2>5. CASE RepairRequestSent(t)
    BY <2>5 DEF RepairRequestSent, MarkDisconnected, StepKinds
  <2>6. CASE \/ AcquireGate(t) \/ FlushEnd(t) \/ RepairCheck(t)
             \/ ManifestFails(t) \/ RepairDone(t)
    BY <2>6 DEF AcquireGate, FlushEnd, RepairCheck, ManifestFails, RepairDone,
                StepKinds
  <2>7. QED
    BY <1>10, <2>1, <2>2, <2>3, <2>4, <2>5, <2>6 DEF TaskStep
<1>11. CASE UNCHANGED vars
  BY <1>11 DEF vars, StepKinds
<1>12. QED
  BY <1>1, <1>2, <1>3, <1>4, <1>5, <1>6, <1>7, <1>8, <1>9, <1>10, <1>11 DEF Next

(* Messages in flight are current, and each has its timeout. *)
LEMMA InFlightStep == InFlightTracked /\ [Next]_vars => InFlightTracked'
<1> SUFFICES ASSUME InFlightTracked, [Next]_vars PROVE InFlightTracked'
  OBVIOUS
<1> USE DEF InFlightTracked, IdsOf
<1>1. CASE QueueSame /\ UNCHANGED flightVars
  BY <1>1 DEF QueueSame, queueVars, flightVars
<1>2. CASE QueueSame /\ ClearInFlight
  BY <1>2 DEF QueueSame, queueVars, ClearInFlight, CancelTimeouts
<1>3. ASSUME QueueSame, NEW id, RemoveInFlight({id}) PROVE InFlightTracked'
  BY <1>3 DEF QueueSame, queueVars, RemoveInFlight, CancelTimeouts
<1>4. ASSUME QueueSame, NEW id, Expires(id) PROVE InFlightTracked'
  BY <1>4 DEF QueueSame, queueVars, Expires
<1>5. ASSUME QueueSame, NEW m, MarksInFlight(m) PROVE InFlightTracked'
  BY <1>5 DEF QueueSame, queueVars, MarksInFlight
<1>6. ASSUME NEW r \in Rooms, Connect(r) PROVE InFlightTracked'
  BY <1>6 DEF Connect, ClearInFlight, CancelTimeouts, queueVars, flightVars, ClearPending
<1>7. ASSUME NEW p \in Paths, NEW b \in BOOLEAN, Enqueues(p, b)
      PROVE  InFlightTracked'
  <2>1. CASE Cardinality(Keys) >= MaxQueued
    BY <1>7, <2>1 DEF Enqueues, EnqueuePath, RemoveInFlight, CancelTimeouts
  <2>2. CASE ~(Cardinality(Keys) >= MaxQueued)
    BY <1>7, <2>2 DEF Enqueues, EnqueuePath, flightVars
  <2>3. QED
    BY <2>1, <2>2
<1>8. ASSUME NEW previous \in pending, Replaces(previous) PROVE InFlightTracked'
  BY <1>8 DEF Replaces, ReplacePath, RemoveInFlight, CancelTimeouts
<1>9. ASSUME NEW m \in wire \cap pending, Acknowledges(m) PROVE InFlightTracked'
  BY <1>9 DEF Acknowledges, RemoveInFlight, CancelTimeouts
<1>10. QED
  BY <1>1, <1>2, <1>3, <1>4, <1>5, <1>6, <1>7, <1>8, <1>9, StepIsOfAKind
     DEF StepKinds

(* A queue of distinct paths, its head removed and a new path appended.     *)
LEMMA AppendDistinct ==
  ASSUME NEW q \in Seq(Paths), NEW p \in Paths,
         \A i, j \in DOMAIN q : q[i] = q[j] => i = j,
         p \notin {q[i] : i \in DOMAIN q}
  PROVE  LET s == Append(q, p) IN
         /\ {s[i] : i \in DOMAIN s} = {q[i] : i \in DOMAIN q} \cup {p}
         /\ \A i, j \in DOMAIN s : s[i] = s[j] => i = j
<1> DEFINE s == Append(q, p)
<1>1. /\ DOMAIN q = 1..Len(q) /\ DOMAIN s = 1..(Len(q) + 1) /\ Len(q) \in Nat
      /\ \A i \in 1..Len(q) : s[i] = q[i]
      /\ s[Len(q) + 1] = p
  OBVIOUS
<1> HIDE DEF s
<1>2. {s[i] : i \in DOMAIN s} = {q[i] : i \in DOMAIN q} \cup {p}
  <2>1. ASSUME NEW x \in {s[i] : i \in DOMAIN s}
        PROVE  x \in {q[i] : i \in DOMAIN q} \cup {p}
    <3>1. PICK i \in 1..(Len(q) + 1) : x = s[i]
      BY <1>1
    <3>2. CASE i = Len(q) + 1
      BY <1>1, <3>1, <3>2
    <3>3. CASE i \in 1..Len(q)
      BY <1>1, <3>1, <3>3
    <3>4. QED
      BY <1>1, <3>1, <3>2, <3>3
  <2>2. ASSUME NEW x \in {q[i] : i \in DOMAIN q} PROVE x \in {s[i] : i \in DOMAIN s}
    <3>1. PICK i \in 1..Len(q) : x = q[i]
      BY <1>1
    <3>2. i \in DOMAIN s /\ x = s[i]
      BY <1>1, <3>1
    <3>3. QED
      BY <3>2
  <2>3. p \in {s[i] : i \in DOMAIN s}
    BY <1>1
  <2>4. QED
    BY <2>1, <2>2, <2>3
<1>3. ASSUME NEW i \in DOMAIN s, NEW j \in DOMAIN s, s[i] = s[j] PROVE i = j
  <2>1. ASSUME NEW k \in 1..Len(q) PROVE s[k] # p
    BY <1>1, <2>1
  <2>2. QED
    BY <1>1, <1>3, <2>1
<1>4. QED
  BY <1>2, <1>3 DEF s

(* Dropping the head of the order (the eviction) keeps its places distinct. *)
LEMMA TailDistinct ==
  ASSUME NEW q \in Seq(Paths), q # <<>>,
         \A i, j \in DOMAIN q : q[i] = q[j] => i = j
  PROVE  LET s == Tail(q) IN
         /\ {s[i] : i \in DOMAIN s} = {q[i] : i \in DOMAIN q} \ {Head(q)}
         /\ \A i, j \in DOMAIN s : s[i] = s[j] => i = j
<1> DEFINE s == Tail(q)
<1>1. /\ Len(q) \in Nat \ {0} /\ DOMAIN q = 1..Len(q)
      /\ DOMAIN s = 1..(Len(q) - 1) /\ Head(q) = q[1]
      /\ \A i \in 1..(Len(q) - 1) : s[i] = q[i + 1]
  OBVIOUS
<1> HIDE DEF s
<1>2. ASSUME NEW x \in {s[i] : i \in DOMAIN s}
      PROVE  x \in {q[i] : i \in DOMAIN q} \ {Head(q)}
  <2>1. PICK i \in 1..(Len(q) - 1) : x = q[i + 1]
    BY <1>1
  <2>2. i + 1 \in DOMAIN q /\ 1 \in DOMAIN q /\ i + 1 # 1
    BY <1>1
  <2>3. QED
    BY <1>1, <2>1, <2>2
<1>3. ASSUME NEW x \in {q[i] : i \in DOMAIN q} \ {Head(q)}
      PROVE  x \in {s[i] : i \in DOMAIN s}
  <2>1. PICK i \in 1..Len(q) : x = q[i]
    BY <1>1
  <2>2. i # 1
    BY <1>1, <1>3, <2>1
  <2>3. i - 1 \in 1..(Len(q) - 1) /\ s[i - 1] = q[i]
    BY <1>1, <2>2
  <2>4. QED
    BY <1>1, <2>1, <2>3
<1>4. ASSUME NEW i \in DOMAIN s, NEW j \in DOMAIN s, s[i] = s[j] PROVE i = j
  <2>1. /\ i \in Nat /\ j \in Nat
        /\ i + 1 \in DOMAIN q /\ j + 1 \in DOMAIN q /\ q[i + 1] = q[j + 1]
    BY <1>1, <1>4
  <2>2. i + 1 = j + 1
    BY <2>1
  <2>3. QED
    BY <2>1, <2>2
<1>5. QED
  BY <1>2, <1>3, <1>4 DEF s

(* The queue order stays a duplicate-free enumeration of the queued paths.  *)
LEMMA QueueStep == TypeOK /\ QueueConsistent /\ [Next]_vars => QueueConsistent'
<1> SUFFICES ASSUME TypeOK, QueueConsistent, [Next]_vars PROVE QueueConsistent'
  OBVIOUS
<1>0. /\ order \in Seq(Paths) /\ pending \in SUBSET Message
      /\ Keys \subseteq Paths /\ IsFiniteSet(Keys) /\ Cardinality(Keys) \in Nat
      /\ MaxQueued \in Nat \ {0}
  BY KeysFinite, ConstantsAssumption DEF TypeOK, QueueTypeOK
<1>1. CASE QueueSame
  BY <1>1 DEF QueueSame, queueVars, QueueConsistent, Keys
<1>2. ASSUME NEW r \in Rooms, Connect(r) PROVE QueueConsistent'
  <2>1. CASE room = r
    BY <1>2, <2>1 DEF Connect, queueVars, QueueConsistent, Keys, ClearPending
  <2>2. CASE room # r
    <3>1. pending' = {} /\ order' = <<>>
      BY <1>2, <2>2 DEF Connect, ClearPending
    <3>2. Keys' = {}
      BY <3>1 DEF Keys
    <3>3. Cardinality(Keys') = 0
      BY <3>2, FS_EmptySet
    <3>4. QED
      BY <1>0, <3>1, <3>2, <3>3 DEF QueueConsistent
  <2>3. QED
    BY <2>1, <2>2
<1>3. ASSUME NEW p \in Paths, NEW b \in BOOLEAN, Enqueues(p, b)
      PROVE  QueueConsistent'
  <2> DEFINE m == NewMessage(p, b, nextId)
  <2>1. m.path = p /\ p \notin Keys /\ EnqueuePath(m)
    BY <1>3 DEF Enqueues, NewMessage
  <2> HIDE DEF m
  <2>2. CASE Cardinality(Keys) >= MaxQueued
    <3> DEFINE victim == Head(order)
               rest == Tail(order)
               dropped == {n \in pending : n.path = victim}
    <3>1. /\ order' = Append(rest, p)
          /\ pending' = (pending \ dropped) \cup {m}
      BY <2>1, <2>2 DEF EnqueuePath
    <3>2. order # <<>>
      BY <1>0, <2>2, FullQueueHasHead DEF QueueConsistent
    <3>3. victim \in Keys
      BY <1>0, <3>2 DEF QueueConsistent
    <3>4. /\ rest \in Seq(Paths)
          /\ {rest[i] : i \in DOMAIN rest} = Keys \ {victim}
          /\ \A i, j \in DOMAIN rest : rest[i] = rest[j] => i = j
      <4>1. /\ \A i, j \in DOMAIN order : order[i] = order[j] => i = j
            /\ {order[i] : i \in DOMAIN order} = Keys
        BY DEF QueueConsistent
      <4>2. rest \in Seq(Paths)
        BY <1>0, <3>2
      <4>3. QED
        BY <1>0, <3>2, <4>1, <4>2, TailDistinct
    <3>5. Keys' = (Keys \ {victim}) \cup {p}
      BY <2>1, <3>1 DEF Keys
    <3> HIDE DEF victim, rest
    <3>6. /\ {order'[i] : i \in DOMAIN order'} = Keys'
          /\ \A i, j \in DOMAIN order' : order'[i] = order'[j] => i = j
      BY <2>1, <3>1, <3>4, <3>5, AppendDistinct
    <3>7. Cardinality(Keys') = Cardinality(Keys)
      <4>1. /\ IsFiniteSet(Keys \ {victim})
            /\ Cardinality(Keys \ {victim}) = Cardinality(Keys) - 1
        BY <1>0, <3>3, FS_RemoveElement
      <4>2. Cardinality(Keys') = Cardinality(Keys \ {victim}) + 1
        BY <2>1, <3>5, <4>1, FS_AddElement
      <4>3. QED
        BY <1>0, <4>1, <4>2
    <3>8. \A x, y \in pending' : x.path = y.path => x = y
      BY <2>1, <3>1 DEF QueueConsistent, Keys
    <3>9. QED
      BY <3>6, <3>7, <3>8 DEF QueueConsistent
  <2>3. CASE ~(Cardinality(Keys) >= MaxQueued)
    <3>1. order' = Append(order, p) /\ pending' = pending \cup {m}
      BY <2>1, <2>3 DEF EnqueuePath
    <3>2. Keys' = Keys \cup {p}
      BY <2>1, <3>1 DEF Keys
    <3>3. /\ {order'[i] : i \in DOMAIN order'} = Keys'
          /\ \A i, j \in DOMAIN order' : order'[i] = order'[j] => i = j
      BY <1>0, <2>1, <3>1, <3>2, AppendDistinct DEF QueueConsistent
    <3>4. Cardinality(Keys') = Cardinality(Keys) + 1
      BY <1>0, <2>1, <3>2, FS_AddElement
    <3>5. \A x, y \in pending' : x.path = y.path => x = y
      BY <2>1, <3>1 DEF QueueConsistent, Keys
    <3>6. Cardinality(Keys') <= MaxQueued
      BY <1>0, <2>3, <3>4
    <3>7. QED
      BY <3>3, <3>5, <3>6 DEF QueueConsistent
  <2>4. QED
    BY <2>2, <2>3
<1>4. ASSUME NEW previous \in pending, Replaces(previous) PROVE QueueConsistent'
  <2> DEFINE m == NewMessage(previous.path, FALSE, previous.since)
  <2>1. /\ m.path = previous.path
        /\ pending' = (pending \ {previous}) \cup {m}
        /\ order' = order
    BY <1>4 DEF Replaces, ReplacePath, NewMessage
  <2> HIDE DEF m
  <2>2. Keys' = Keys
    BY <2>1 DEF Keys
  <2>3. \A x, y \in pending' : x.path = y.path => x = y
    BY <2>1 DEF QueueConsistent
  <2>4. QED
    BY <2>1, <2>2, <2>3 DEF QueueConsistent
<1>5. ASSUME NEW m \in wire \cap pending, Acknowledges(m) PROVE QueueConsistent'
  <2>1. pending' = pending \ {m} /\ order' \in Enumerations(Keys \ {m.path})
    BY <1>5 DEF Acknowledges
  <2>2. Keys' = Keys \ {m.path}
    BY <2>1 DEF Keys, QueueConsistent
  <2>3. /\ {order'[i] : i \in DOMAIN order'} = Keys'
        /\ \A i, j \in DOMAIN order' : order'[i] = order'[j] => i = j
    BY <1>0, <2>1, <2>2, EnumerationsType
  <2>4. Cardinality(Keys') <= Cardinality(Keys) /\ Cardinality(Keys') \in Nat
    BY <1>0, <2>2, FS_Subset, FS_CardinalityType
  <2>5. QED
    BY <1>0, <2>1, <2>3, <2>4 DEF QueueConsistent
<1>6. QED
  BY <1>1, <1>2, <1>3, <1>4, <1>5, StepIsOfAKind DEF StepKinds

-----------------------------------------------------------------------------
(* The gate: whoever may change the program counters of a flush holds it.   *)
LEMMA GateStep == TypeOK /\ GateHeld /\ [Next]_vars => GateHeld'
<1> SUFFICES ASSUME TypeOK, GateHeld, [Next]_vars PROVE GateHeld'
  OBVIOUS
<1>0. pc \in [Tasks -> PC] /\ chain \in Tasks
  BY DEF TypeOK, TaskTypeOK, LinkTypeOK
<1>a. ASSUME NEW t \in Tasks, NEW b, NEW c, FlushIfPossible(t, b, c) PROVE GateHeld'
  BY <1>0, <1>a DEF FlushIfPossible, GateHeld, Flushing
<1>b. ASSUME UNCHANGED taskVars PROVE GateHeld'
  BY <1>b DEF taskVars, GateHeld, Flushing
<1>1. ASSUME NEW r \in Rooms, Connect(r) PROVE GateHeld'
  BY <1>1, <1>b DEF Connect
<1>2. CASE Disconnect \/ StatusLost
  BY <1>2, <1>b DEF Disconnect, StatusLost
<1>3. ASSUME NEW t \in Tasks, NEW p \in Paths, SendOrQueue(t, p) PROVE GateHeld'
  BY <1>3, <1>a DEF SendOrQueue
<1>4. ASSUME NEW t \in Tasks, NEW p \in Paths, TrySendRepairFile(t, p) PROVE GateHeld'
  BY <1>4, <1>0, <1>a DEF TrySendRepairFile
<1>5. ASSUME NEW t \in Tasks, StatusConnected(t) PROVE GateHeld'
  BY <1>5, <1>a DEF StatusConnected
<1>7. ASSUME NEW n \in 1..2, Presence(n) PROVE GateHeld'
  BY <1>7, <1>0, <1>a DEF Presence
<1>8. ASSUME NEW m \in wire, Acknowledge(m) PROVE GateHeld'
  BY <1>8, <1>0, <1>a, <1>b DEF Acknowledge
<1>9. ASSUME NEW t \in Tasks, NEW id \in timed \cup late, Expire(t, id)
      PROVE  GateHeld'
  BY <1>9, <1>a DEF Expire
<1>10. ASSUME NEW t \in Tasks, TaskStep(t) PROVE GateHeld'
  <2> USE DEF GateHeld, Flushing
  <2>1. CASE AcquireGate(t)
    BY <1>0, <2>1 DEF AcquireGate
  <2>2. CASE FlushSend(t)
    BY <1>0, <2>2 DEF FlushSend
  <2>3. CASE FlushEnd(t)
    BY <1>0, <2>3 DEF FlushEnd, AfterFlush
  <2>4. CASE SendSucceeded(t)
    BY <1>0, <2>4 DEF SendSucceeded
  <2>5. CASE SendFailed(t)
    BY <1>0, <2>5 DEF SendFailed, AfterFlush
  <2>6. CASE RepairCheck(t)
    BY <1>0, <2>6 DEF RepairCheck
  <2>7. CASE ManifestFails(t)
    BY <1>0, <2>7 DEF ManifestFails
  <2>8. CASE SendRepairRequest(t)
    BY <1>0, <2>8 DEF SendRepairRequest
  <2>9. CASE RepairRequestSent(t)
    BY <1>0, <2>9 DEF RepairRequestSent
  <2>10. CASE RepairDone(t)
    BY <1>0, <2>10 DEF RepairDone
  <2>11. QED
    BY <1>10, <2>1, <2>2, <2>3, <2>4, <2>5, <2>6, <2>7, <2>8, <2>9, <2>10
       DEF TaskStep
<1>11. CASE UNCHANGED vars
  BY <1>11, <1>b DEF vars
<1>12. QED
  BY <1>1, <1>2, <1>3, <1>4, <1>5, <1>7, <1>8, <1>9, <1>10, <1>11 DEF Next

(* Only the start of a send makes a task a sender, and only its success     *)
(* fills the window.                                                        *)
LEMMA WindowSteps ==
  ASSUME TypeOK, [Next]_vars
  PROVE  \/ inFlight' \subseteq inFlight /\ Sending' \subseteq Sending
         \/ \E t \in Tasks : FlushSend(t)
         \/ \E t \in Tasks : SendSucceeded(t)
<1>0. pc \in [Tasks -> PC] /\ chain \in Tasks
  BY DEF TypeOK, TaskTypeOK, LinkTypeOK
<1> DEFINE Shrinks == inFlight' \subseteq inFlight /\ Sending' \subseteq Sending
<1>a. ASSUME NEW t \in Tasks, NEW b, NEW c, FlushIfPossible(t, b, c)
      PROVE  Sending' \subseteq Sending
  BY <1>0, <1>a DEF FlushIfPossible, Sending
<1>b. UNCHANGED taskVars => Sending' \subseteq Sending
  BY DEF taskVars, Sending
<1>c. UNCHANGED flightVars => inFlight' \subseteq inFlight
  BY DEF flightVars
<1>d. ClearInFlight => inFlight' \subseteq inFlight
  BY DEF ClearInFlight
<1>e. ASSUME NEW m, EnqueuePath(m) PROVE inFlight' \subseteq inFlight
  BY <1>c, <1>e DEF EnqueuePath, RemoveInFlight
<1>1. ASSUME NEW r \in Rooms, Connect(r) PROVE Shrinks
  BY <1>1, <1>b, <1>c, <1>d DEF Connect, ClearPending
<1>2. CASE Disconnect \/ StatusLost
  BY <1>2, <1>b, <1>d DEF Disconnect, StatusLost
<1>3. ASSUME NEW t \in Tasks, NEW p \in Paths, SendOrQueue(t, p) PROVE Shrinks
  <2>1. inFlight' \subseteq inFlight
    BY <1>3, <1>e DEF SendOrQueue, ReplacePath, RemoveInFlight
  <2>2. QED
    BY <1>3, <1>a, <2>1 DEF SendOrQueue
<1>4. ASSUME NEW t \in Tasks, NEW p \in Paths, TrySendRepairFile(t, p) PROVE Shrinks
  BY <1>4, <1>0, <1>a, <1>e DEF TrySendRepairFile
<1>5. ASSUME NEW t \in Tasks, StatusConnected(t) PROVE Shrinks
  BY <1>5, <1>a, <1>c DEF StatusConnected
<1>7. ASSUME NEW n \in 1..2, Presence(n) PROVE Shrinks
  BY <1>7, <1>0, <1>a, <1>c, <1>d DEF Presence
<1>8. ASSUME NEW m \in wire, Acknowledge(m) PROVE Shrinks
  BY <1>8, <1>0, <1>a, <1>b, <1>c DEF Acknowledge, RemoveInFlight
<1>9. ASSUME NEW t \in Tasks, NEW id \in timed \cup late, Expire(t, id)
      PROVE  Shrinks
  BY <1>9, <1>a DEF Expire
<1>10. ASSUME NEW t \in Tasks, TaskStep(t), ~FlushSend(t), ~SendSucceeded(t)
       PROVE  Shrinks
  <2>1. CASE AcquireGate(t)
    BY <1>0, <1>c, <2>1 DEF AcquireGate, Sending
  <2>3. CASE FlushEnd(t)
    BY <1>0, <1>c, <2>3 DEF FlushEnd, AfterFlush, Sending
  <2>5. CASE SendFailed(t)
    BY <1>0, <1>d, <2>5 DEF SendFailed, AfterFlush, MarkDisconnected, Sending
  <2>6. CASE RepairCheck(t)
    BY <1>0, <1>c, <2>6 DEF RepairCheck, Sending
  <2>7. CASE ManifestFails(t)
    BY <1>0, <1>c, <2>7 DEF ManifestFails, Sending
  <2>8. CASE SendRepairRequest(t)
    <3>1. Sending' \subseteq Sending
      BY <1>0, <2>8 DEF SendRepairRequest, Sending
    <3>2. inFlight' \subseteq inFlight
      BY <1>c, <1>d, <2>8
         DEF SendRepairRequest, SocketTakes, SocketThrows, SocketRefuses
    <3>3. QED
      BY <3>1, <3>2
  <2>9. CASE RepairRequestSent(t)
    BY <1>0, <1>c, <1>d, <2>9 DEF RepairRequestSent, MarkDisconnected, Sending
  <2>10. CASE RepairDone(t)
    BY <1>0, <1>c, <2>10 DEF RepairDone, Sending
  <2>11. QED
    BY <1>10, <2>1, <2>3, <2>5, <2>6, <2>7, <2>8, <2>9, <2>10 DEF TaskStep
<1>11. CASE UNCHANGED vars
  BY <1>11, <1>b, <1>c DEF vars
<1>12. QED
  BY <1>1, <1>2, <1>3, <1>4, <1>5, <1>7, <1>8, <1>9, <1>10, <1>11 DEF Next

(* The messages in flight are finitely many: no more than the queued paths. *)
LEMMA PendingFinite ==
  ASSUME TypeOK, QueueConsistent
  PROVE  IsFiniteSet(pending)
<1> DEFINE f == [m \in pending |-> m.path]
<1>1. f \in Injection(pending, Paths)
  BY DEF Injection, IsInjective, QueueConsistent, TypeOK, QueueTypeOK, Message
<1>2. QED
  BY <1>1, ConstantsAssumption, FS_Injection

(* No step of any task lets more than MaxInFlight messages be in flight.    *)
LEMMA WindowStep ==
  TypeOK /\ QueueConsistent /\ InFlightTracked /\ GateHeld /\ WindowRespected
  /\ [Next]_vars => WindowRespected'
<1> SUFFICES ASSUME TypeOK, QueueConsistent, InFlightTracked, GateHeld,
                    WindowRespected, [Next]_vars
             PROVE  WindowRespected'
  OBVIOUS
<1>1. IsFiniteSet(inFlight) /\ Cardinality(inFlight) \in Nat
  BY PendingFinite, FS_Subset, FS_CardinalityType DEF InFlightTracked
<1>2. \A t, u \in Sending' : t = u
  BY GateStep DEF GateHeld, Flushing, Sending
<1>3. ASSUME inFlight' \subseteq inFlight
      PROVE  Cardinality(inFlight') <= Cardinality(inFlight)
             /\ Cardinality(inFlight') \in Nat
  BY <1>1, <1>3, FS_Subset, FS_CardinalityType
<1>4. CASE inFlight' \subseteq inFlight /\ Sending' \subseteq Sending
  BY <1>1, <1>2, <1>3, <1>4, ConstantsAssumption DEF WindowRespected
<1>5. ASSUME NEW t \in Tasks, FlushSend(t) PROVE WindowRespected'
  <2>1. inFlight' \subseteq inFlight
    BY <1>5 DEF FlushSend, SocketTakes, SocketThrows, SocketRefuses,
                ClearInFlight, flightVars
  <2>2. Cardinality(inFlight) < MaxInFlight
    BY <1>5 DEF FlushSend, HasInFlightCapacity
  <2>3. QED
    BY <1>1, <1>2, <1>3, <2>1, <2>2, ConstantsAssumption DEF WindowRespected
<1>6. ASSUME NEW t \in Tasks, SendSucceeded(t) PROVE WindowRespected'
  <2>1. t \in Sending /\ Sending' = {}
    BY <1>6 DEF SendSucceeded, Sending, WindowRespected, TypeOK, TaskTypeOK
  <2>2. Cardinality(inFlight) < MaxInFlight
    BY <2>1 DEF WindowRespected
  <2>3. PICK m \in carried[t] :
          inFlight' = inFlight \/ inFlight' = inFlight \cup {m}
    BY <1>6 DEF SendSucceeded, flightVars
  <2>4. Cardinality(inFlight') <= Cardinality(inFlight) + 1
        /\ Cardinality(inFlight') \in Nat
    <3>1. CASE inFlight' = inFlight
      BY <1>1, <3>1
    <3>2. CASE inFlight' = inFlight \cup {m}
      <4>1. Cardinality(inFlight \cup {m}) =
              IF m \in inFlight THEN Cardinality(inFlight)
              ELSE Cardinality(inFlight) + 1
        BY <1>1, FS_AddElement
      <4>2. QED
        BY <1>1, <3>2, <4>1
    <3>3. QED
      BY <2>3, <3>1, <3>2
  <2>5. QED
    BY <1>1, <2>1, <2>2, <2>4, ConstantsAssumption DEF WindowRespected
<1>7. QED
  BY <1>4, <1>5, <1>6, WindowSteps

-----------------------------------------------------------------------------
(* Queued messages are of the room the client is connected to.              *)
LEMMA QueuedHereStep == TypeOK /\ QueuedHere /\ [Next]_vars => QueuedHere'
<1> SUFFICES ASSUME TypeOK, QueuedHere, [Next]_vars PROVE QueuedHere'
  OBVIOUS
<1>0. /\ nextId \in Nat
      /\ \A m \in pending : m.id \in Nat
  BY DEF TypeOK, LinkTypeOK, QueueTypeOK, Message
<1>1. CASE QueueSame
  BY <1>1 DEF QueueSame, queueVars, QueuedHere
<1>2. ASSUME NEW r \in Rooms, Connect(r) PROVE QueuedHere'
  BY <1>2 DEF Connect, QueuedHere, queueVars, ClearPending
<1>3. ASSUME NEW p \in Paths, NEW b \in BOOLEAN, Enqueues(p, b) PROVE QueuedHere'
  <2> DEFINE m == NewMessage(p, b, nextId)
  <2>1. m.id = nextId /\ m.room = room
    BY DEF NewMessage
  <2>2. pending' \subseteq pending \cup {m}
    BY <1>3 DEF Enqueues, EnqueuePath
  <2>3. nextId' = nextId + 1 /\ room' = room
    BY <1>3 DEF Enqueues
  <2> HIDE DEF m
  <2>4. QED
    BY <1>0, <2>1, <2>2, <2>3 DEF QueuedHere
<1>4. ASSUME NEW previous \in pending, Replaces(previous) PROVE QueuedHere'
  <2> DEFINE m == NewMessage(previous.path, FALSE, previous.since)
  <2>1. m.id = nextId /\ m.room = room
    BY DEF NewMessage
  <2>2. pending' \subseteq pending \cup {m} /\ nextId' = nextId + 1 /\ room' = room
    BY <1>4 DEF Replaces, ReplacePath
  <2> HIDE DEF m
  <2>3. QED
    BY <1>0, <2>1, <2>2 DEF QueuedHere
<1>5. ASSUME NEW m \in wire \cap pending, Acknowledges(m) PROVE QueuedHere'
  BY <1>5 DEF Acknowledges, QueuedHere
<1>6. QED
  BY <1>1, <1>2, <1>3, <1>4, <1>5, StepIsOfAKind DEF StepKinds

(* The socket only ever carries what the flush took from the queue.         *)
LEMMA WireSteps ==
  [Next]_vars => \/ wire' = {}
                 \/ wire' \subseteq wire /\ room' = room
                 \/ \E m \in pending : wire' = wire \cup {m} /\ room' = room
<1> DEFINE Goal == \/ wire' = {}
                   \/ wire' \subseteq wire /\ room' = room
                   \/ \E m \in pending : wire' = wire \cup {m} /\ room' = room
<1> SUFFICES ASSUME [Next]_vars PROVE Goal
  OBVIOUS
<1> USE DEF linkVars
<1>1. ASSUME NEW r \in Rooms, Connect(r) PROVE Goal
  BY <1>1 DEF Connect
<1>2. CASE Disconnect \/ StatusLost
  BY <1>2 DEF Disconnect, StatusLost
<1>3. ASSUME NEW t \in Tasks, NEW p \in Paths, SendOrQueue(t, p) PROVE Goal
  BY <1>3 DEF SendOrQueue
<1>4. ASSUME NEW t \in Tasks, NEW p \in Paths, TrySendRepairFile(t, p) PROVE Goal
  BY <1>4 DEF TrySendRepairFile
<1>5. ASSUME NEW t \in Tasks, StatusConnected(t) PROVE Goal
  BY <1>5 DEF StatusConnected
<1>6. ASSUME NEW n \in 1..2, Presence(n) PROVE Goal
  BY <1>6 DEF Presence
<1>7. ASSUME NEW m \in wire, Acknowledge(m) PROVE Goal
  BY <1>7 DEF Acknowledge
<1>8. ASSUME NEW t \in Tasks, NEW id \in timed \cup late, Expire(t, id) PROVE Goal
  BY <1>8 DEF Expire
<1>9. ASSUME NEW t \in Tasks, TaskStep(t) PROVE Goal
  <2>1. CASE FlushSend(t)
    <3>1. PICK m \in NextPendingToSend :
            SocketTakes({m}) \/ SocketThrows \/ SocketRefuses
      BY <2>1 DEF FlushSend
    <3>2. m \in pending
      BY DEF NextPendingToSend, Sendable
    <3>3. QED
      BY <3>1, <3>2 DEF SocketTakes, SocketThrows, SocketRefuses
  <2>2. CASE SendFailed(t) \/ RepairRequestSent(t)
    BY <2>2 DEF SendFailed, RepairRequestSent, MarkDisconnected
  <2>3. CASE SendRepairRequest(t)
    BY <2>3 DEF SendRepairRequest, SocketTakes, SocketThrows, SocketRefuses
  <2>4. CASE \/ AcquireGate(t) \/ FlushEnd(t) \/ SendSucceeded(t)
             \/ RepairCheck(t) \/ ManifestFails(t) \/ RepairDone(t)
    BY <2>4 DEF AcquireGate, FlushEnd, SendSucceeded, RepairCheck,
                ManifestFails, RepairDone
  <2>5. QED
    BY <1>9, <2>1, <2>2, <2>3, <2>4 DEF TaskStep
<1>10. CASE UNCHANGED vars
  BY <1>10 DEF vars
<1>11. QED
  BY <1>1, <1>2, <1>3, <1>4, <1>5, <1>6, <1>7, <1>8, <1>9, <1>10 DEF Next

(* The inductive invariant holds before the first connection ...            *)
LEMMA InitIInv == Init => IInv
<1> SUFFICES ASSUME Init PROVE IInv
  OBVIOUS
<1>1. TypeOK
  <2>1. LinkTypeOK /\ FlightTypeOK /\ RepairTypeOK
    <3>1. LinkTypeOK
      <4>1. connected \in BOOLEAN /\ chain \in Tasks
        BY DEF Init
      <4>2. /\ room = NoRoom /\ socket = "detached"
            /\ peers = 0 /\ wire = {} /\ nextId = 1
        BY DEF Init
      <4>3. QED
        BY <4>1, <4>2 DEF LinkTypeOK
    <3>2. FlightTypeOK
      BY DEF Init, FlightTypeOK
    <3>3. RepairTypeOK
      BY DEF Init, RepairTypeOK
    <3>4. QED
      BY <3>1, <3>2, <3>3
  <2>2. QueueTypeOK
    BY DEF Init, QueueTypeOK
  <2>3. TaskTypeOK
    BY DEF Init, TaskTypeOK, PC
  <2>4. QED
    BY <2>1, <2>2, <2>3 DEF TypeOK
<1>2. Keys = {} /\ Cardinality(Keys) = 0 /\ Cardinality(inFlight) = 0
  BY FS_EmptySet DEF Init, Keys
<1>3. QueueConsistent
  BY <1>2, ConstantsAssumption DEF Init, QueueConsistent
<1>4. InFlightTracked /\ QueuedHere /\ SentToOwnRoom
  BY DEF Init, InFlightTracked, IdsOf, QueuedHere, SentToOwnRoom
<1>5. GateHeld /\ WindowRespected
  BY <1>2, ConstantsAssumption
     DEF Init, GateHeld, Flushing, WindowRespected, Sending
<1>6. QED
  BY <1>1, <1>3, <1>4, <1>5 DEF IInv

(* ... and every step of the page, the socket or a task preserves it.       *)
LEMMA NextIInv == IInv /\ [Next]_vars => IInv'
<1> SUFFICES ASSUME IInv, [Next]_vars PROVE IInv'
  OBVIOUS
<1>1. SentToOwnRoom'
  BY WireSteps DEF IInv, SentToOwnRoom, QueuedHere
<1>2. QED
  BY <1>1, TypeStep, QueueStep, InFlightStep, GateStep, WindowStep,
     QueuedHereStep DEF IInv

(* SyncClient's queue, window, gate and rooms satisfy IInv in every state.  *)
THEOREM Invariance == Spec => []IInv
BY InitIInv, NextIInv, PTL DEF Spec

-----------------------------------------------------------------------------
(* The fields of SyncClient.cs keep their types, in every interleaving.     *)
THEOREM TypeCorrect == Spec => []TypeOK
<1>1. IInv => TypeOK
  BY DEF IInv
<1>2. QED
  BY <1>1, Invariance, PTL

(* pendingByPath and pendingOrder never part, and are bounded (QueuePending, *)
(* RebuildPendingOrder).                                                    *)
THEOREM QueueSafe == Spec => []QueueConsistent
<1>1. IInv => QueueConsistent
  BY DEF IInv
<1>2. QED
  BY <1>1, Invariance, PTL

(* inFlightPathByMessageId and inFlightTimeouts hold the ids of current      *)
(* messages, and the same ids.                                              *)
THEOREM InFlightSafe == Spec => []InFlightTracked
<1>1. IInv => InFlightTracked
  BY DEF IInv
<1>2. QED
  BY <1>1, Invariance, PTL

(* The window of DefaultMaxInFlightOperations holds although it is tested   *)
(* before and filled after the await of the send.                           *)
THEOREM WindowSafe == Spec => []WindowRespected
<1>1. IInv => WindowRespected
  BY DEF IInv
<1>2. QED
  BY <1>1, Invariance, PTL

(* No change of one room is written to the socket of another.               *)
THEOREM RoomSafe == Spec => []SentToOwnRoom
<1>1. IInv => SentToOwnRoom
  BY DEF IInv
<1>2. QED
  BY <1>1, Invariance, PTL

(* A queued change leaves the queue only as NothingLostSilently says: no     *)
(* disconnect, timeout, retry or stale acknowledgement loses it.            *)
THEOREM NoSilentLoss == Spec => NothingLostSilently
<1> DEFINE Leaves(m) == \/ \E n \in pending' : n.path = m.path /\ n.id > m.id
                        \/ m \in wire \ wire'
                        \/ Cardinality(Keys) = MaxQueued /\ nextId' = nextId + 1
                        \/ room' # room
           Lossless == \A m \in pending \ pending' : Leaves(m)
<1>1. IInv /\ [Next]_vars => Lossless
  <2> SUFFICES ASSUME IInv, [Next]_vars, NEW m \in pending \ pending' PROVE Leaves(m)
    OBVIOUS
  <2>0. m.id \in Nat /\ nextId \in Nat /\ m.id < nextId /\ TypeOK /\ QueueConsistent
    BY DEF IInv, TypeOK, LinkTypeOK, QueueTypeOK, Message, QueuedHere
  <2>1. CASE QueueSame
    BY <2>1 DEF QueueSame, queueVars
  <2>2. ASSUME NEW r \in Rooms, Connect(r) PROVE Leaves(m)
    BY <2>2 DEF Connect, queueVars
  <2>3. ASSUME NEW p \in Paths, NEW b \in BOOLEAN, Enqueues(p, b) PROVE Leaves(m)
    <3>1. Cardinality(Keys) >= MaxQueued
      BY <2>3 DEF Enqueues, EnqueuePath
    <3>2. Cardinality(Keys) = MaxQueued
      BY <2>0, <3>1, KeysFinite, ConstantsAssumption DEF QueueConsistent
    <3>3. QED
      BY <2>3, <3>2 DEF Enqueues
  <2>4. ASSUME NEW previous \in pending, Replaces(previous) PROVE Leaves(m)
    <3> DEFINE n == NewMessage(previous.path, FALSE, previous.since)
    <3>1. m = previous /\ n \in pending'
      BY <2>4 DEF Replaces, ReplacePath
    <3>2. n.path = m.path /\ n.id > m.id
      BY <2>0, <3>1 DEF NewMessage
    <3>3. QED
      BY <3>1, <3>2
  <2>5. ASSUME NEW k \in wire \cap pending, Acknowledges(k) PROVE Leaves(m)
    BY <2>5 DEF Acknowledges
  <2>6. QED
    BY <2>1, <2>2, <2>3, <2>4, <2>5, StepIsOfAKind DEF StepKinds
<1>2. IInv /\ [Next]_vars => [Lossless]_vars
  BY <1>1
<1>3. QED
  BY <1>2, Invariance, PTL DEF NothingLostSilently, Spec

(* TryQueuePendingRepair never removes a message of the user.               *)
THEOREM RepairIsPolite == Spec => RepairNeverDisplaces
<1> DEFINE Polite == (\E n \in pending' \ pending : n.repair) => pending \subseteq pending'
<1>1. IInv /\ [Next]_vars => Polite
  <2> SUFFICES ASSUME IInv, [Next]_vars, NEW n \in pending' \ pending, n.repair
               PROVE  pending \subseteq pending'
    OBVIOUS
  <2>1. CASE QueueSame
    BY <2>1 DEF QueueSame, queueVars
  <2>2. ASSUME NEW r \in Rooms, Connect(r) PROVE FALSE
    BY <2>2 DEF Connect, queueVars, ClearPending
  <2>3. ASSUME NEW p \in Paths, NEW b \in BOOLEAN, Enqueues(p, b)
        PROVE  pending \subseteq pending'
    <3> DEFINE m == NewMessage(p, b, nextId)
    <3>1. m.repair = b
      BY DEF NewMessage
    <3>2. EnqueuePath(m)
      BY <2>3 DEF Enqueues
    <3> HIDE DEF m
    <3>3. n = m
      BY <3>2 DEF EnqueuePath
    <3>4. Cardinality(Keys) < MaxQueued /\ Cardinality(Keys) \in Nat
      BY <2>3, <3>1, <3>3, KeysFinite DEF Enqueues, IInv
    <3>5. ~(Cardinality(Keys) >= MaxQueued)
      BY <3>4, ConstantsAssumption
    <3>6. QED
      BY <3>2, <3>5 DEF EnqueuePath
  <2>4. ASSUME NEW previous \in pending, Replaces(previous) PROVE FALSE
    <3> DEFINE m == NewMessage(previous.path, FALSE, previous.since)
    <3>1. n = m
      BY <2>4 DEF Replaces, ReplacePath
    <3>2. m.repair = FALSE
      BY DEF NewMessage
    <3>3. QED
      BY <3>1, <3>2
  <2>5. ASSUME NEW k \in wire \cap pending, Acknowledges(k) PROVE FALSE
    BY <2>5 DEF Acknowledges
  <2>6. QED
    BY <2>1, <2>2, <2>3, <2>4, <2>5, StepIsOfAKind DEF StepKinds
<1>2. IInv /\ [Next]_vars => [Polite]_vars
  BY <1>1
<1>3. QED
  BY <1>2, Invariance, PTL DEF RepairNeverDisplaces, Spec

-----------------------------------------------------------------------------
(* The repair request. One task at a time is between RepairCheck and         *)
(* RepairDone; unless an absence was marked meanwhile it still can send, or  *)
(* has sent the request, or was detached by the page. It then is marked     *)
(* again before it can send again.                                          *)
Repairing == {t \in Tasks : pc[t] \in {"manifest", "requesting", "repaired"}}

RepairTracked ==
  /\ \A t, u \in Repairing : t = u
  /\ Repairing # {} => repairInProgress
  /\ socket = "detached" => ~connected
  /\ \A t \in Repairing : ~markedSince =>
       /\ pc[t] = "manifest" => CanSendNow \/ socket = "detached"
       /\ pc[t] = "requesting" /\ sendOk[t] => requested
       /\ pc[t] = "repaired" => requested \/ socket = "detached"

RepairInv == RepairTracked /\ RepairRequestedSinceAbsence

(* A step that marks an absence: whoever builds a request will be told.     *)
LEMMA RepairMarked ==
  ASSUME RepairInv, MarkRepairPending, Repairing' \subseteq Repairing,
         socket' = "detached" => ~connected'
  PROVE  RepairInv'
<1>1. repairPending' /\ (Repairing' # {} => repairInProgress' /\ markedSince')
  BY DEF MarkRepairPending, RepairInv, RepairTracked
<1>2. QED
  BY <1>1 DEF RepairInv, RepairTracked, RepairRequestedSinceAbsence

(* A step that leaves the request alone and loses no peer.                  *)
LEMMA RepairKept ==
  ASSUME RepairInv, UNCHANGED <<repairVars, room>>, Repairing' = Repairing,
         \A t \in Repairing : pc'[t] = pc[t] /\ sendOk'[t] = sendOk[t],
         socket' = "detached" => ~connected', socket = "detached" => socket' = "detached",
         CanSendNow => CanSendNow' \/ socket' = "detached"
  PROVE  RepairInv'
BY DEF RepairInv, RepairTracked, RepairRequestedSinceAbsence, repairVars

(* A flush is started by a task that was idle, and is not a request.        *)
LEMMA FlushNotRepairing ==
  ASSUME TaskTypeOK, NEW t \in Tasks, NEW b, NEW possible, FlushIfPossible(t, b, possible)
  PROVE  Repairing' = Repairing /\ \A u \in Repairing : pc'[u] = pc[u] /\ sendOk'[u] = sendOk[u]
BY DEF TaskTypeOK, FlushIfPossible, Repairing

(* A task's step outside of a request.                                      *)
LEMMA OutsideRepair ==
  ASSUME TaskTypeOK, NEW t \in Tasks,
         pc[t] \notin {"manifest", "requesting", "repaired"},
         NEW q, q \notin {"manifest", "requesting", "repaired"}, pc' = [pc EXCEPT ![t] = q],
         sendOk' = sendOk \/ \E b \in BOOLEAN : sendOk' = [sendOk EXCEPT ![t] = b]
  PROVE  Repairing' = Repairing /\ \A u \in Repairing : pc'[u] = pc[u] /\ sendOk'[u] = sendOk[u]
BY DEF TaskTypeOK, Repairing

LEMMA RepairPageStep ==
  ASSUME TypeOK, RepairInv,
         \/ \E r \in Rooms : Connect(r)
         \/ Disconnect
         \/ \E t \in Tasks, p \in Paths : SendOrQueue(t, p)
         \/ \E t \in Tasks, p \in Paths : TrySendRepairFile(t, p)
  PROVE  RepairInv'
<1>1. ASSUME NEW r \in Rooms, Connect(r) PROVE RepairInv'
  BY <1>1, RepairMarked DEF Connect, taskVars, Repairing
<1>2. CASE Disconnect
  BY <1>2, RepairKept DEF Disconnect, taskVars, Repairing
<1>3. ASSUME NEW t \in Tasks, NEW p \in Paths, SendOrQueue(t, p) \/ TrySendRepairFile(t, p)
      PROVE  RepairInv'
  <2>1. UNCHANGED <<linkVars, repairVars>> /\ \E u \in Tasks : FlushIfPossible(u, FALSE, CanSendNow)
    BY <1>3 DEF SendOrQueue, TrySendRepairFile
  <2>2. Repairing' = Repairing /\ \A u \in Repairing : pc'[u] = pc[u] /\ sendOk'[u] = sendOk[u]
    BY <2>1, FlushNotRepairing DEF TypeOK
  <2>3. UNCHANGED <<room, socket, connected, peers>> /\ UNCHANGED CanSendNow
    BY <2>1 DEF linkVars, CanSendNow
  <2>4. QED
    BY <2>1, <2>2, <2>3, RepairKept DEF RepairInv, RepairTracked
<1>4. QED
  BY <1>1, <1>2, <1>3

LEMMA RepairSocketStep ==
  ASSUME TypeOK, RepairInv,
         \/ \E t \in Tasks : StatusConnected(t)
         \/ StatusLost
         \/ \E n \in 1..2 : Presence(n)
         \/ \E m \in wire : Acknowledge(m)
         \/ \E t \in Tasks : \E id \in timed \cup late : Expire(t, id)
  PROVE  RepairInv'
<1>0. TaskTypeOK /\ chain \in Tasks /\ peers \in Nat /\ connected \in BOOLEAN
  BY DEF TypeOK, LinkTypeOK
<1>1. ASSUME NEW t \in Tasks, StatusConnected(t) PROVE RepairInv'
  <2>1. Repairing' = Repairing /\ \A u \in Repairing : pc'[u] = pc[u] /\ sendOk'[u] = sendOk[u]
    BY <1>0, <1>1, FlushNotRepairing DEF StatusConnected
  <2>2. connected' /\ socket' = "open" /\ socket = "down" /\ (peers > 1 => peers' > 1)
    BY <1>0, <1>1 DEF StatusConnected
  <2>3. CanSendNow => CanSendNow'
    BY <2>2 DEF CanSendNow, CanSend
  <2>4. QED
    BY <1>1, <2>1, <2>2, <2>3, RepairKept DEF StatusConnected
<1>2. CASE StatusLost
  BY <1>2, RepairMarked DEF StatusLost, taskVars, Repairing
<1>3. ASSUME NEW n \in 1..2, Presence(n) PROVE RepairInv'
  <2>1. Repairing' = Repairing /\ \A u \in Repairing : pc'[u] = pc[u] /\ sendOk'[u] = sendOk[u]
    BY <1>0, <1>3, FlushNotRepairing DEF Presence
  <2>2. socket = "open" /\ UNCHANGED <<room, socket, connected>>
    BY <1>3 DEF Presence
  <2>3. CASE n <= 1
    BY <1>3, <2>1, <2>2, <2>3, RepairMarked DEF Presence
  <2>4. CASE ~(n <= 1)
    <3>1. n > 1 /\ peers' = n /\ UNCHANGED repairVars
      BY <1>3, <2>4 DEF Presence
    <3>2. CanSendNow => CanSendNow'
      BY <2>2, <3>1 DEF CanSendNow, CanSend
    <3>3. QED
      BY <2>1, <2>2, <3>1, <3>2, RepairKept
  <2>5. QED
    BY <2>3, <2>4
<1>4. ASSUME UNCHANGED <<linkVars, repairVars>>,
             UNCHANGED taskVars \/ \E u \in Tasks : \E p : FlushIfPossible(u, FALSE, p)
      PROVE  RepairInv'
  <2>1. Repairing' = Repairing /\ \A u \in Repairing : pc'[u] = pc[u] /\ sendOk'[u] = sendOk[u]
    <3>1. CASE UNCHANGED taskVars
      BY <3>1 DEF taskVars, Repairing
    <3>2. QED
      BY <1>0, <1>4, <3>1, FlushNotRepairing
  <2>2. UNCHANGED <<room, socket, connected, peers>> /\ UNCHANGED CanSendNow
    BY <1>4 DEF linkVars, CanSendNow
  <2>3. QED
    BY <1>4, <2>1, <2>2, RepairKept DEF RepairInv, RepairTracked
<1>5. ASSUME NEW m \in wire, Acknowledge(m) PROVE RepairInv'
  BY <1>0, <1>4, <1>5 DEF Acknowledge
<1>6. ASSUME NEW t \in Tasks, NEW id \in timed \cup late, Expire(t, id) PROVE RepairInv'
  BY <1>4, <1>6 DEF Expire
<1>7. QED
  BY <1>1, <1>2, <1>3, <1>5, <1>6

LEMMA RepairFlushStep ==
  ASSUME TypeOK, RepairInv, NEW t \in Tasks,
         AcquireGate(t) \/ FlushSend(t) \/ FlushEnd(t) \/ SendSucceeded(t) \/ SendFailed(t)
  PROVE  RepairInv'
<1>0. TaskTypeOK
  BY DEF TypeOK
<1>1. AfterFlush(t) \notin {"manifest", "requesting", "repaired"}
  BY DEF AfterFlush
<1>2. Repairing' = Repairing /\ \A u \in Repairing : pc'[u] = pc[u] /\ sendOk'[u] = sendOk[u]
  <2>1. /\ pc[t] \in {"gate", "flush", "sending"}
        /\ \E q \in {"flush", "sending", AfterFlush(t)} : pc' = [pc EXCEPT ![t] = q]
        /\ sendOk' = sendOk \/ \E b \in BOOLEAN : sendOk' = [sendOk EXCEPT ![t] = b]
    BY DEF AcquireGate, FlushSend, FlushEnd, SendSucceeded, SendFailed
  <2>2. QED
    BY <1>0, <1>1, <2>1, OutsideRepair
<1>3. ASSUME UNCHANGED <<linkVars, repairVars>> PROVE RepairInv'
  <2>1. UNCHANGED <<room, socket, connected, peers>> /\ UNCHANGED CanSendNow
    BY <1>3 DEF linkVars, CanSendNow
  <2>2. QED
    BY <1>2, <1>3, <2>1, RepairKept DEF RepairInv, RepairTracked
<1>4. CASE FlushSend(t)
  <2>1. UNCHANGED <<linkVars, repairVars>> \/ SocketThrows
    BY <1>4 DEF FlushSend, SocketTakes, SocketRefuses
  <2>2. QED
    BY <1>2, <1>3, <2>1, RepairMarked DEF SocketThrows
<1>5. CASE SendFailed(t)
  BY <1>2, <1>5, RepairMarked DEF SendFailed, MarkDisconnected
<1>6. CASE AcquireGate(t) \/ FlushEnd(t) \/ SendSucceeded(t)
  BY <1>3, <1>6 DEF AcquireGate, FlushEnd, SendSucceeded
<1>7. QED
  BY <1>4, <1>5, <1>6

(* The steps of the request itself.                                         *)
LEMMA RepairRequestStep ==
  ASSUME TypeOK, RepairInv, ~ManifestMayFail, NEW t \in Tasks,
         \/ RepairCheck(t) \/ ManifestFails(t) \/ SendRepairRequest(t)
         \/ RepairRequestSent(t) \/ RepairDone(t)
  PROVE  RepairInv'
<1>0. TaskTypeOK /\ RepairTypeOK /\ connected \in BOOLEAN
  BY DEF TypeOK, LinkTypeOK
<1>1. CASE RepairCheck(t)
  <2>1. UNCHANGED <<room, socket, connected, peers, sendOk, repairPending, requested>> /\ UNCHANGED CanSendNow
    BY <1>1 DEF RepairCheck, linkVars, CanSendNow
  <2>2. CASE CanSendNow /\ repairPending /\ ~repairInProgress
    <3>1. Repairing = {} /\ Repairing' = {t} /\ pc'[t] = "manifest" /\ repairInProgress' /\ CanSendNow'
      BY <1>0, <1>1, <2>1, <2>2 DEF RepairCheck, RepairInv, RepairTracked, Repairing, TaskTypeOK
    <3>2. QED
      BY <2>1, <3>1 DEF RepairInv, RepairTracked, RepairRequestedSinceAbsence
  <2>3. CASE ~(CanSendNow /\ repairPending /\ ~repairInProgress)
    <3>1. Repairing' = Repairing /\ \A u \in Repairing : pc'[u] = pc[u] /\ sendOk'[u] = sendOk[u]
      BY <1>0, <1>1, <2>1, <2>3, OutsideRepair DEF RepairCheck
    <3>2. UNCHANGED repairVars
      BY <1>1, <2>1, <2>3 DEF RepairCheck, repairVars
    <3>3. QED
      BY <2>1, <3>1, <3>2, RepairKept DEF RepairInv, RepairTracked
  <2>4. QED
    BY <2>2, <2>3
<1>2. CASE ManifestFails(t)
  BY <1>2 DEF ManifestFails
<1>3. CASE SendRepairRequest(t)
  <2>1. t \in Repairing /\ \A u \in Repairing : u = t
    BY <1>3 DEF SendRepairRequest, RepairInv, RepairTracked, Repairing
  <2>2. Repairing' = Repairing /\ pc'[t] \in {"repaired", "requesting"}
    BY <1>0, <1>3, <2>1 DEF SendRepairRequest, Repairing, TaskTypeOK
  <2>3. CASE SocketThrows
    BY <2>2, <2>3, RepairMarked DEF SocketThrows
  <2>4. CASE ~SocketThrows /\ CanSendNow
    <3>1. UNCHANGED <<linkVars, repairPending, repairInProgress, markedSince>> /\ pc'[t] = "requesting"
      BY <1>0, <1>3, <2>4 DEF SendRepairRequest, SocketTakes, SocketRefuses, repairVars, TaskTypeOK
    <3>2. (sendOk'[t] => requested') /\ (requested => requested')
      BY <1>0, <1>3, <2>4 DEF SendRepairRequest, SocketRefuses, repairVars, TaskTypeOK
    <3>3. QED
      BY <2>1, <2>2, <3>1, <3>2 DEF RepairInv, RepairTracked, RepairRequestedSinceAbsence, linkVars
  <2>5. CASE ~CanSendNow
    <3>1. UNCHANGED <<linkVars, repairVars>> /\ pc'[t] = "repaired"
      BY <1>0, <1>3, <2>5 DEF SendRepairRequest, TaskTypeOK
    <3>2. ~markedSince => socket = "detached"
      BY <1>3, <2>1, <2>5 DEF SendRepairRequest, RepairInv, RepairTracked
    <3>3. QED
      BY <2>1, <2>2, <3>1, <3>2
      DEF RepairInv, RepairTracked, RepairRequestedSinceAbsence, linkVars, repairVars
  <2>6. QED
    BY <2>3, <2>4, <2>5
<1>4. CASE RepairRequestSent(t)
  <2>1. t \in Repairing /\ \A u \in Repairing : u = t
    BY <1>4 DEF RepairRequestSent, RepairInv, RepairTracked, Repairing
  <2>2. Repairing' = Repairing /\ pc'[t] = "repaired"
    BY <1>0, <1>4, <2>1 DEF RepairRequestSent, Repairing, TaskTypeOK
  <2>3. CASE sendOk[t]
    <3>1. UNCHANGED <<linkVars, repairVars>>
      BY <1>4, <2>3 DEF RepairRequestSent
    <3>2. ~markedSince => requested
      BY <1>4, <2>1, <2>3 DEF RepairRequestSent, RepairInv, RepairTracked
    <3>3. QED
      BY <2>1, <2>2, <3>1, <3>2
      DEF RepairInv, RepairTracked, RepairRequestedSinceAbsence, linkVars, repairVars
  <2>4. CASE ~sendOk[t]
    BY <1>4, <2>2, <2>4, RepairMarked DEF RepairRequestSent, MarkDisconnected
  <2>5. QED
    BY <2>3, <2>4
<1>5. CASE RepairDone(t)
  <2>1. t \in Repairing /\ \A u \in Repairing : u = t
    BY <1>5 DEF RepairDone, RepairInv, RepairTracked, Repairing
  <2>2. Repairing' = {}
    BY <1>0, <1>5, <2>1 DEF RepairDone, Repairing, TaskTypeOK
  <2>3. UNCHANGED <<room, socket, connected, requested>>
    BY <1>5 DEF RepairDone, linkVars
  <2>4. repairPending => repairPending' \/ requested
    <3>1. CASE markedSince
      BY <1>0, <1>5, <3>1 DEF RepairDone, RepairTypeOK
    <3>2. CASE ~markedSince /\ CanSendNow
      <4>1. socket # "detached"
        BY <3>2 DEF CanSendNow, CanSend, RepairInv, RepairTracked
      <4>2. QED
        BY <1>5, <2>1, <3>2, <4>1 DEF RepairDone, RepairInv, RepairTracked
    <3>3. CASE ~CanSendNow
      BY <1>0, <1>5, <3>3 DEF RepairDone, RepairTypeOK
    <3>4. QED
      BY <3>1, <3>2, <3>3
  <2>5. QED
    BY <2>2, <2>3, <2>4 DEF RepairInv, RepairTracked, RepairRequestedSinceAbsence
<1>6. QED
  BY <1>1, <1>2, <1>3, <1>4, <1>5

(* RequestRepairIfPendingAsync forgets no absence: when no repair is due any  *)
(* more a request has been written since the last one, if the page's handler *)
(* does not fail (it swallows what it fails with).                          *)
THEOREM NoAbsenceForgotten ==
  ASSUME ~ManifestMayFail PROVE Spec => []RepairRequestedSinceAbsence
<1>1. Init => RepairInv
  BY DEF Init, RepairInv, RepairTracked, RepairRequestedSinceAbsence, Repairing
<1>2. IInv /\ RepairInv /\ [Next]_vars => RepairInv'
  <2> SUFFICES ASSUME TypeOK, RepairInv, [Next]_vars PROVE RepairInv'
    BY DEF IInv
  <2>1. CASE UNCHANGED vars
    <3>1. UNCHANGED CanSendNow
      BY <2>1 DEF vars, linkVars, CanSendNow
    <3>2. QED
      BY <2>1, <3>1 DEF vars, linkVars, taskVars, repairVars, Repairing,
         RepairInv, RepairTracked, RepairRequestedSinceAbsence
  <2>2. QED
    BY <2>1, RepairPageStep, RepairSocketStep, RepairFlushStep, RepairRequestStep DEF Next, TaskStep
<1>3. RepairInv => RepairRequestedSinceAbsence
  BY DEF RepairInv
<1>4. QED
  BY <1>1, <1>2, <1>3, Invariance, PTL DEF Spec

=============================================================================
