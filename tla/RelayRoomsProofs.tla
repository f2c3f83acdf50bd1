-------------------------- MODULE RelayRoomsProofs --------------------------
(* Proofs about RelayRooms for every set of connections and rooms, every     *)
(* limit, and every choice of what may fail.                                *)
EXTENDS RelayRooms, TLAPS

(* The handler and the cleanup of each connection are tasks of their own.   *)
LEMMA TaskNames ==
  /\ Tasks = ConnTasks \cup {Health} /\ Health \notin ConnTasks /\ Nobody \notin Tasks
  /\ \A c \in Conns : /\ Handler(c) \in ConnTasks /\ Cleanup(c) \in ConnTasks
                      /\ Handler(c)[1] = c /\ Handler(c)[2] = "handler"
                      /\ Cleanup(c)[1] = c /\ Cleanup(c)[2] = "cleanup"
  /\ \A c, d \in Conns : /\ Handler(c) # Cleanup(d)
                         /\ Handler(c) = Handler(d) => c = d
                         /\ Cleanup(c) = Cleanup(d) => c = d
  /\ \A t \in ConnTasks : \E c \in Conns : t = Handler(c) \/ t = Cleanup(c)
BY RelayAssumption DEF Tasks, ConnTasks, Handler, Cleanup

(* A step of a handler (Goto) moves that task and no other one.             *)
LEMMA HandlerMoves ==
  ASSUME TypeOK, NEW c \in Conns, NEW to, Goto(Handler(c), to)
  PROVE  /\ DOMAIN pc' = Tasks /\ pc'[Handler(c)] = to
         /\ \A t \in Tasks : t # Handler(c) => pc'[t] = pc[t]
BY TaskNames DEF Goto, TypeOK

(* So does a step of the cleanup after a removed peer.                      *)
LEMMA CleanupMoves ==
  ASSUME TypeOK, NEW c \in Conns, NEW to, Goto(Cleanup(c), to)
  PROVE  /\ DOMAIN pc' = Tasks /\ pc'[Cleanup(c)] = to
         /\ \A t \in Tasks : t # Cleanup(c) => pc'[t] = pc[t]
BY TaskNames DEF Goto, TypeOK

(* Abandoning a recovery, or not having one, keeps the types.               *)
RecoveryTypeOK ==
  /\ recoverer \in Tasks \cup {Nobody} /\ stage \in Stages
  /\ chosen \subseteq Rooms /\ rooms \subseteq Rooms
  /\ waiting \subseteq Conns /\ asked \subseteq Conns /\ added \subseteq Conns

(* StopRecovery abandons the recovery of its task and nobody else's.        *)
LEMMA StopRecoveryType ==
  ASSUME TypeOK, NEW t, StopRecovery(t)
  PROVE  /\ RecoveryTypeOK'
         /\ \/ recoverer # t /\ UNCHANGED <<recoverer, stage>>
            \/ recoverer = t /\ recoverer' = Nobody /\ stage' = "aborted"
BY DEF TypeOK, RecoveryTypeOK, StopRecovery, Recovering, recoveryVars, Stages

(* Leaving a room (SyncRoomRegistry.Leave) takes away a place and gives none. *)
LEMMA LeaveEffect ==
  ASSUME TypeOK, NEW c \in Conns, Leave(c), UNCHANGED home
  PROVE  /\ peers' \in [Rooms -> SUBSET Conns]
         /\ ~Present(c)'
         /\ \A d \in Conns : Present(d)' => Present(d)
BY DEF TypeOK, Leave, Present

(* The types of the control states.                                         *)
PCTypeOK ==
  /\ \A c \in Conns : /\ pc[Handler(c)] \in HandlerPC \cup LeavingPC
                      /\ pc[Cleanup(c)] \in LeavingPC \cup {"idle"}
  /\ pc[Health] \in {"idle", "checking"} /\ DOMAIN pc = Tasks

(* The control states keep their types when a handler moves within its own, *)
LEMMA HandlerGoto ==
  ASSUME TypeOK, NEW c \in Conns, NEW to \in HandlerPC \cup LeavingPC,
         Goto(Handler(c), to)
  PROVE  PCTypeOK'
<1>1. /\ DOMAIN pc' = Tasks /\ pc'[Handler(c)] = to
      /\ \A t \in Tasks : t # Handler(c) => pc'[t] = pc[t]
  BY HandlerMoves
<1>2. ASSUME NEW d \in Conns
      PROVE  /\ pc'[Handler(d)] \in HandlerPC \cup LeavingPC
             /\ pc'[Cleanup(d)] \in LeavingPC \cup {"idle"}
  BY <1>1, TaskNames DEF TypeOK
<1>3. pc'[Health] \in {"idle", "checking"}
  BY <1>1, TaskNames DEF TypeOK
<1>4. QED
  BY <1>1, <1>2, <1>3 DEF PCTypeOK

(* ... and when a cleanup does.                                            *)
LEMMA CleanupGoto ==
  ASSUME TypeOK, NEW c \in Conns, NEW to \in LeavingPC \cup {"idle"},
         Goto(Cleanup(c), to)
  PROVE  PCTypeOK'
<1>1. /\ DOMAIN pc' = Tasks /\ pc'[Cleanup(c)] = to
      /\ \A t \in Tasks : t # Cleanup(c) => pc'[t] = pc[t]
  BY CleanupMoves
<1>2. ASSUME NEW d \in Conns
      PROVE  /\ pc'[Handler(d)] \in HandlerPC \cup LeavingPC
             /\ pc'[Cleanup(d)] \in LeavingPC \cup {"idle"}
  BY <1>1, TaskNames DEF TypeOK
<1>3. pc'[Health] \in {"idle", "checking"}
  BY <1>1, TaskNames DEF TypeOK
<1>4. QED
  BY <1>1, <1>2, <1>3 DEF PCTypeOK

(* The invariant without the types.  A step of a handler keeps it that      *)
(* gives back the gate if it has it, adds nobody to the registry, leaves a  *)
(* recovery only within its call, and ends nothing that has a place.        *)
Disciplined == /\ RegistryHoldsLiving /\ PlaceGivenBack
               /\ GateExact /\ RecoveryWithinCall

(* The steps of HandleSyncRequestAsync of this kind.                        *)
LEMMA HandlerStepKeeps ==
  ASSUME IInv, NEW c \in Conns, NEW to \in (HandlerPC \cup LeavingPC) \ {"gated", "new"},
         Goto(Handler(c), to),
         \A d \in Conns : Present(d)' => Present(d),
         to \in LeavingPC => ~Present(c)',
         gate' = IF gate = Handler(c) THEN Nobody ELSE gate, link' = link,
         \/ recoverer # Handler(c) /\ UNCHANGED <<recoverer, stage>>
         \/ recoverer = Handler(c) /\ recoverer' = Nobody /\ stage' = "aborted"
  PROVE  PCTypeOK' /\ Disciplined'
<1>0. /\ TypeOK /\ Handler(c) \in Tasks /\ Nobody \notin Tasks /\ Handler(c) # Nobody
      /\ pc'[Handler(c)] = to
      /\ \A t \in Tasks : t # Handler(c) => pc'[t] = pc[t]
  BY HandlerMoves, TaskNames DEF IInv
<1>1. PCTypeOK'
  BY HandlerGoto DEF IInv
<1>3. RegistryHoldsLiving' /\ PlaceGivenBack'
  BY <1>0, TaskNames DEF IInv, RegistryHoldsLiving, PlaceGivenBack, LeavingPC
<1>4. GateExact'
  <2>1. \A t \in Tasks : gate = t <=> HoldsGate(t)
    BY DEF IInv, GateExact
  <2>2. ASSUME NEW t \in Tasks PROVE gate' = t <=> HoldsGate(t)'
    <3>1. CASE t = Handler(c)
      BY <1>0, <3>1 DEF HoldsGate, Recovering
    <3>2. CASE t # Handler(c)
      <4>1. HoldsGate(t)' <=> HoldsGate(t)
        BY <1>0, <3>2 DEF HoldsGate, Recovering
      <4>2. gate' = t <=> gate = t
        BY <1>0, <3>2
      <4>3. QED
        BY <2>1, <4>1, <4>2
    <3>3. QED
      BY <3>1, <3>2
  <2>3. QED
    BY <2>2 DEF GateExact
<1>5. RecoveryWithinCall'
  BY <1>0 DEF IInv, TypeOK, RecoveryWithinCall, CallsBackplane
<1>6. QED
  BY <1>1, <1>3, <1>4, <1>5 DEF Disciplined

(* ... in particular a step that only moves the handler.                    *)
LEMMA QuietHandlerStep ==
  ASSUME IInv, NEW c \in Conns, NEW to \in (HandlerPC \cup LeavingPC) \ {"gated", "new"},
         Goto(Handler(c), to), UNCHANGED <<registryVars, gate, link, recoverer, stage>>,
         pc[Handler(c)] # "gated", recoverer # Handler(c),
         to \in LeavingPC => ~Present(c)
  PROVE  PCTypeOK' /\ Disciplined'
<1>1. \A d \in Conns : Present(d)' <=> Present(d)
  BY DEF Present, registryVars
<1>2. gate # Handler(c)
  BY TaskNames DEF IInv, GateExact, HoldsGate, Recovering
<1>3. QED
  BY <1>1, <1>2, HandlerStepKeeps

(* A step of a cleanup keeps it under the same conditions.                 *)
LEMMA CleanupStepKeeps ==
  ASSUME IInv, NEW c \in Conns, NEW to \in LeavingPC,
         Goto(Cleanup(c), to), link' = link,
         \A d \in Conns : Present(d)' => Present(d),
         \/ recoverer # Cleanup(c) /\ UNCHANGED <<recoverer, stage, gate>>
         \/ /\ recoverer = Cleanup(c) /\ recoverer' = Nobody /\ stage' = "aborted"
            /\ gate' = IF gate = Cleanup(c) THEN Nobody ELSE gate
  PROVE  PCTypeOK' /\ Disciplined'
<1>0. /\ TypeOK /\ Cleanup(c) \in Tasks /\ Nobody \notin Tasks /\ Cleanup(c) # Nobody
      /\ pc'[Cleanup(c)] = to /\ pc[Cleanup(c)] # "gated" /\ to # "gated"
      /\ \A t \in Tasks : t # Cleanup(c) => pc'[t] = pc[t]
  BY CleanupMoves, TaskNames DEF IInv, TypeOK, LeavingPC
<1>1. PCTypeOK'
  BY CleanupGoto DEF IInv
<1>3. RegistryHoldsLiving' /\ PlaceGivenBack'
  BY <1>0, TaskNames DEF IInv, RegistryHoldsLiving, PlaceGivenBack, LeavingPC
<1>4. GateExact'
  <2>1. \A t \in Tasks : gate = t <=> HoldsGate(t)
    BY DEF IInv, GateExact
  <2>2. ASSUME NEW t \in Tasks PROVE gate' = t <=> HoldsGate(t)'
    <3>1. CASE t = Cleanup(c)
      <4>1. gate = t => recoverer = t
        BY <1>0, <2>1, <3>1 DEF HoldsGate, Recovering
      <4>2. ~HoldsGate(t)' /\ gate' # t
        BY <1>0, <3>1, <4>1 DEF HoldsGate, Recovering
      <4>3. QED
        BY <4>2
    <3>2. CASE t # Cleanup(c)
      <4>1. HoldsGate(t)' <=> HoldsGate(t)
        BY <1>0, <3>2 DEF HoldsGate, Recovering
      <4>2. gate' = t <=> gate = t
        BY <1>0, <3>2
      <4>3. QED
        BY <2>1, <4>1, <4>2
    <3>3. QED
      BY <3>1, <3>2
  <2>3. QED
    BY <2>2 DEF GateExact
<1>5. RecoveryWithinCall'
  BY <1>0 DEF IInv, TypeOK, RecoveryWithinCall, CallsBackplane
<1>6. QED
  BY <1>1, <1>3, <1>4, <1>5 DEF Disciplined

(* A step that moves no task and leaves registry and gate alone.            *)
LEMMA UnmovedStep ==
  ASSUME IInv, UNCHANGED <<registryVars, gate, pc>>,
         \/ UNCHANGED <<recoverer, stage>> /\ (link = "up" => link' = "up")
         \/ stage # "subscribing" /\ stage' # "subscribing" /\ RecoveryWithinCall'
  PROVE  PCTypeOK' /\ Disciplined'
<1>1. PCTypeOK'
  BY DEF IInv, TypeOK, PCTypeOK
<1>2. RegistryHoldsLiving' /\ PlaceGivenBack'
  BY DEF IInv, RegistryHoldsLiving, PlaceGivenBack, Present, registryVars
<1>3. GateExact'
  BY DEF IInv, GateExact, HoldsGate, Recovering
<1>4. RecoveryWithinCall'
  BY DEF IInv, RecoveryWithinCall, CallsBackplane
<1>5. QED
  BY <1>1, <1>2, <1>3, <1>4 DEF Disciplined

(* The types of everything but the control states.                          *)
StateTypeOK ==
  /\ peers \in [Rooms -> SUBSET Conns] /\ home \in [Conns -> Rooms]
  /\ admitted \subseteq Conns /\ tracked \subseteq Conns
  /\ subscriptions \subseteq Rooms /\ gate \in Tasks \cup {Nobody}
  /\ link \in {"backoff", "ready", "up"}
  /\ RecoveryTypeOK

(* TypeOK is these two parts.                                               *)
LEMMA TypesSplit ==
  /\ TypeOK <=> (PCTypeOK /\ StateTypeOK)
  /\ TypeOK' <=> (PCTypeOK' /\ StateTypeOK')
BY DEF TypeOK, PCTypeOK, StateTypeOK, RecoveryTypeOK

(* The steps of a handler, and what others do to it, keep the types.        *)
LEMMA HandlerTypes ==
  ASSUME TypeOK, NEW c \in Conns,
         Join(c) \/ HandlerStep(c) \/ Close(c) \/ Abort(c) \/ RemovePeer(c)
  PROVE  StateTypeOK'
<1>0. StateTypeOK /\ Handler(c) \in Tasks /\ home[c] \in Rooms
  BY TypesSplit, TaskNames DEF StateTypeOK
<1>1. CASE Join(c)
  BY <1>0, <1>1 DEF Join, StateTypeOK, RecoveryTypeOK, redisVars, bridgeVars, recoveryVars
<1>2. CASE CheckDistributed(c)
  BY <1>0, <1>2 DEF CheckDistributed, StateTypeOK, RecoveryTypeOK,
                   registryVars, redisVars, bridgeVars, recoveryVars
<1>3. CASE AdmissionAnswered(c)
  BY <1>0, <1>3 DEF AdmissionAnswered, Leave, StateTypeOK, RecoveryTypeOK,
                   registryVars, redisVars, bridgeVars, recoveryVars
<1>4. CASE SubscribeAnswered(c)
  BY <1>0, <1>4 DEF SubscribeAnswered, StateTypeOK, RecoveryTypeOK,
                   registryVars, redisVars, bridgeVars, recoveryVars
<1>5. CASE Announce(c)
  BY <1>0, <1>5 DEF Announce, StateTypeOK, RecoveryTypeOK,
                   registryVars, redisVars, bridgeVars, recoveryVars
<1>6. CASE LeaveRoom(c)
  BY <1>0, <1>6 DEF LeaveRoom, Leave, StateTypeOK, RecoveryTypeOK,
                   registryVars, redisVars, bridgeVars, recoveryVars
<1>7. CASE AcquireGate(c)
  BY <1>0, <1>7 DEF AcquireGate, StateTypeOK, RecoveryTypeOK,
                   registryVars, redisVars, bridgeVars, recoveryVars
<1>8. CASE Close(c)
  BY <1>0, <1>8 DEF Close, StateTypeOK, RecoveryTypeOK,
                   registryVars, redisVars, bridgeVars, recoveryVars
<1>9. CASE Abort(c)
  <2>1. RecoveryTypeOK'
    BY <1>9, StopRecoveryType DEF Abort
  <2>2. peers' \in [Rooms -> SUBSET Conns]
    BY <1>0, <1>9 DEF Abort, Leave, StateTypeOK
  <2>3. QED
    BY <1>0, <1>9, <2>1, <2>2 DEF Abort, StateTypeOK, redisVars
<1>10. CASE RemovePeer(c)
  BY <1>0, <1>10 DEF RemovePeer, Leave, StateTypeOK, RecoveryTypeOK,
                    registryVars, redisVars, bridgeVars, recoveryVars
<1>11. QED
  BY <1>1, <1>2, <1>3, <1>4, <1>5, <1>6, <1>7, <1>8, <1>9, <1>10 DEF HandlerStep

(* So do the steps after LeaveRoom, of handlers and cleanups.               *)
LEMMA LeaveTypes ==
  ASSUME TypeOK, NEW t \in ConnTasks,
         LeaveStep(t) \/ (\E c \in Conns : CleanupTimesOut(c))
  PROVE  StateTypeOK'
<1>0. StateTypeOK /\ t[1] \in Conns /\ home[t[1]] \in Rooms
  <2>1. t[1] \in Conns
    BY DEF ConnTasks
  <2>2. QED
    BY <2>1, TypesSplit DEF StateTypeOK
<1>1. CASE ReleaseAdmission(t)
  BY <1>0, <1>1 DEF ReleaseAdmission, StateTypeOK, RecoveryTypeOK,
                   registryVars, redisVars, bridgeVars, recoveryVars
<1>2. CASE Unannounce(t)
  BY <1>0, <1>2 DEF Unannounce, StateTypeOK, RecoveryTypeOK,
                   registryVars, redisVars, bridgeVars, recoveryVars
<1>3. CASE ReleaseIfRoomEmpty(t)
  BY <1>0, <1>3 DEF ReleaseIfRoomEmpty, StateTypeOK, RecoveryTypeOK,
                   registryVars, redisVars, bridgeVars, recoveryVars
<1>4. CASE \E c \in Conns : CleanupTimesOut(c)
  BY <1>0, <1>4 DEF CleanupTimesOut, StateTypeOK, RecoveryTypeOK,
                   registryVars, redisVars, bridgeVars, recoveryVars
<1>5. QED
  BY <1>1, <1>2, <1>3, <1>4 DEF LeaveStep

(* The recovery keeps the types,                                            *)
LinkStep ==
  BackoffElapses \/ HealthCheck \/ HealthAnswered \/ \E t \in Tasks : ConnectRedis(t)

(* ... as its link goes up and down,                                        *)
LEMMA LinkTypes == ASSUME TypeOK, LinkStep PROVE StateTypeOK'
<1>0. StateTypeOK
  BY TypesSplit
<1>1. CASE BackoffElapses
  BY <1>0, <1>1 DEF BackoffElapses, StateTypeOK, RecoveryTypeOK,
                   registryVars, redisVars, bridgeVars, recoveryVars
<1>2. CASE HealthCheck \/ HealthAnswered
  BY <1>0, <1>2 DEF HealthCheck, HealthAnswered, StateTypeOK, RecoveryTypeOK,
                   registryVars, redisVars, bridgeVars, recoveryVars
<1>3. ASSUME NEW t \in Tasks, ConnectRedis(t) PROVE StateTypeOK'
  BY <1>0, <1>3 DEF ConnectRedis, StateTypeOK, RecoveryTypeOK, ActiveRooms, Stages,
                   registryVars, redisVars, bridgeVars, recoveryVars
<1>4. QED
  BY <1>1, <1>2, <1>3 DEF LinkStep

(* ... and as the recovered handler runs.                                   *)
LEMMA RecoveryTypes == ASSUME TypeOK, RecoveryStep PROVE StateTypeOK'
<1>0. StateTypeOK
  BY TypesSplit
<1>1. ASSUME NEW r \in rooms, RecoverRoom(r) \/ ReconcileRoom(r) PROVE StateTypeOK'
  BY <1>0, <1>1 DEF RecoverRoom, ReconcileRoom, StateTypeOK, RecoveryTypeOK, Stages,
                   registryVars, redisVars, bridgeVars
<1>2. CASE StartAdmissions \/ StartPresence \/ RecoveryDone
  BY <1>0, <1>2 DEF StartAdmissions, StartPresence, RecoveryDone, Registered,
                   ActiveRooms, Stages, StateTypeOK, RecoveryTypeOK,
                   registryVars, redisVars, bridgeVars
<1>3. ASSUME NEW c \in waiting, AskAdmission(c) \/ AskPresence(c) PROVE StateTypeOK'
  BY <1>0, <1>3 DEF AskAdmission, AskPresence, StateTypeOK, RecoveryTypeOK,
                   registryVars, redisVars, bridgeVars
<1>4. ASSUME NEW c \in asked, AdmissionReconciled(c) \/ TrackPeer(c)
      PROVE  StateTypeOK'
  BY <1>0, <1>4 DEF AdmissionReconciled, TrackPeer, StateTypeOK, RecoveryTypeOK,
                   registryVars, bridgeVars
<1>5. ASSUME NEW c \in added, RecheckAdmission(c) \/ RecheckPresence(c)
      PROVE  StateTypeOK'
  BY <1>0, <1>5 DEF RecheckAdmission, RecheckPresence, StateTypeOK, RecoveryTypeOK,
                   registryVars, redisVars, bridgeVars
<1>8. CASE RecoveryTakesGate \/ RoomRecovered
  BY <1>0, <1>8 DEF RecoveryTakesGate, RoomRecovered, StateTypeOK, RecoveryTypeOK,
                   Stages, registryVars, redisVars
<1>6. ASSUME NEW t \in Tasks, RecoveryTimesOut(t) PROVE StateTypeOK'
  <2>1. RecoveryTypeOK'
    BY <1>6, StopRecoveryType DEF RecoveryTimesOut
  <2>2. QED
    BY <1>0, <1>6, <2>1 DEF RecoveryTimesOut, StateTypeOK, registryVars, redisVars
<1>7. QED
  BY <1>1, <1>2, <1>3, <1>4, <1>5, <1>6, <1>8 DEF RecoveryStep

-----------------------------------------------------------------------------
(* Registry, gate and recovery: the steps of a handler.  Most only move it. *)
LEMMA HandlerDiscipline ==
  ASSUME IInv, NEW c \in Conns, HandlerStep(c) \/ Close(c)
  PROVE  PCTypeOK' /\ Disciplined'
<1>0. /\ TypeOK
      /\ ~CallsBackplane(Handler(c)) => recoverer # Handler(c)
      /\ Handler(c) \in Tasks /\ Handler(c) # Nobody
  BY TaskNames DEF IInv, RecoveryWithinCall
<1>1. CASE CheckDistributed(c)
  <2>1. PICK to \in {"admitting", "subscribing"} : Goto(Handler(c), to)
    BY <1>1 DEF CheckDistributed
  <2>2. QED
    BY <1>0, <1>1, <2>1, QuietHandlerStep
       DEF CheckDistributed, CallsBackplane, HandlerPC, LeavingPC, bridgeVars, recoveryVars
<1>2. CASE AdmissionAnswered(c)
  <2>1. PICK to \in {"subscribing", "gone"} :
          /\ Goto(Handler(c), to)
          /\ \/ to = "gone" /\ Leave(c)
             \/ to = "subscribing" /\ UNCHANGED peers
    BY <1>2 DEF AdmissionAnswered
  <2>2. /\ \A d \in Conns : Present(d)' => Present(d)
        /\ to \in LeavingPC => ~Present(c)'
    BY <1>0, <1>2, <2>1, LeaveEffect DEF AdmissionAnswered, LeavingPC, Present
  <2>3. gate # Handler(c)
    BY <1>0, <1>2, TaskNames
       DEF IInv, GateExact, HoldsGate, Recovering, CallsBackplane, AdmissionAnswered
  <2>4. QED
    BY <1>0, <1>2, <2>1, <2>2, <2>3, HandlerStepKeeps
       DEF AdmissionAnswered, CallsBackplane, HandlerPC, LeavingPC, bridgeVars, recoveryVars
<1>3. CASE SubscribeAnswered(c)
  <2>1. gate = Handler(c)
    BY <1>0, <1>3, TaskNames DEF IInv, GateExact, HoldsGate, SubscribeAnswered
  <2>2. \A d \in Conns : Present(d)' => Present(d)
    BY <1>3 DEF SubscribeAnswered, Present, registryVars
  <2>3. QED
    BY <1>0, <1>3, <2>1, <2>2, HandlerStepKeeps
       DEF SubscribeAnswered, Recovering, HandlerPC, LeavingPC, recoveryVars
<1>4. CASE Announce(c)
  BY <1>0, <1>4, QuietHandlerStep
     DEF Announce, Recovering, HandlerPC, LeavingPC, bridgeVars, recoveryVars
<1>5. CASE LeaveRoom(c)
  <2>1. ~Present(c)' /\ \A d \in Conns : Present(d)' => Present(d)
    BY <1>0, <1>5, LeaveEffect DEF LeaveRoom
  <2>2. gate # Handler(c)
    BY <1>0, <1>5, TaskNames
       DEF IInv, GateExact, HoldsGate, Recovering, CallsBackplane, LeaveRoom
  <2>3. QED
    BY <1>0, <1>5, <2>1, <2>2, HandlerStepKeeps
       DEF LeaveRoom, CallsBackplane, HandlerPC, LeavingPC, bridgeVars, recoveryVars
<1>6. CASE AcquireGate(c)
  <2>1. CASE home[c] \in subscriptions
    BY <1>0, <1>6, <2>1, QuietHandlerStep
       DEF AcquireGate, CallsBackplane, HandlerPC, LeavingPC, bridgeVars, recoveryVars
  <2>2. CASE home[c] \notin subscriptions
    <3>1. Goto(Handler(c), "gated") /\ gate = Nobody /\ gate' = Handler(c)
      BY <1>6, <2>2 DEF AcquireGate
    <3>2. /\ pc'[Handler(c)] = "gated"
          /\ \A t \in Tasks : t # Handler(c) => pc'[t] = pc[t]
      BY <1>0, <3>1, HandlerMoves
    <3>3. PCTypeOK'
      BY <1>0, <3>1, HandlerGoto DEF HandlerPC
    <3>4. RegistryHoldsLiving' /\ PlaceGivenBack'
      BY <1>6, <3>2, TaskNames
         DEF IInv, RegistryHoldsLiving, PlaceGivenBack, LeavingPC, Present,
             AcquireGate, registryVars
    <3>5. GateExact'
      <4>1. UNCHANGED <<recoverer, stage>>
        BY <1>6 DEF AcquireGate, recoveryVars
      <4>2. \A t \in Tasks : ~HoldsGate(t)
        BY <3>1, TaskNames DEF IInv, GateExact
      <4>3. \A t \in Tasks : HoldsGate(t)' <=> t = Handler(c)
        BY <1>0, <3>2, <4>1, <4>2 DEF HoldsGate, Recovering
      <4>4. QED
        BY <3>1, <4>3 DEF GateExact
    <3>6. RecoveryWithinCall'
      BY <1>0, <1>6, <3>2 DEF IInv, TypeOK, RecoveryWithinCall, CallsBackplane,
                             AcquireGate, recoveryVars
    <3>7. QED
      BY <3>3, <3>4, <3>5, <3>6 DEF Disciplined
  <2>3. QED
    BY <2>1, <2>2
<1>7. CASE Close(c)
  BY <1>0, <1>7, QuietHandlerStep
     DEF Close, Recovering, HandlerPC, LeavingPC, bridgeVars, recoveryVars
<1>8. QED
  BY <1>1, <1>2, <1>3, <1>4, <1>5, <1>6, <1>7 DEF HandlerStep

(* What others do to a handler: it joins, its request is aborted, a         *)
(* broadcast removes its peer.                                              *)
LEMMA JoinDiscipline ==
  ASSUME IInv, NEW c \in Conns, Join(c) PROVE PCTypeOK' /\ Disciplined'
<1>0. /\ TypeOK /\ pc[Handler(c)] = "new" /\ ~Present(c)
      /\ recoverer # Handler(c) /\ gate # Handler(c) /\ Handler(c) \in Tasks
  BY TaskNames DEF IInv, Join, RecoveryWithinCall, CallsBackplane, GateExact,
                  HoldsGate, Recovering, RegistryHoldsLiving
<1>1. CASE HasPlace(home[c])
  <2>1. Goto(Handler(c), "joining")
    BY <1>1 DEF Join
  <2>2. /\ pc'[Handler(c)] = "joining"
        /\ \A t \in Tasks : t # Handler(c) => pc'[t] = pc[t]
    BY <1>0, <2>1, HandlerMoves
  <2>3. PCTypeOK'
    BY <1>0, <2>1, HandlerGoto DEF HandlerPC
  <2>4. \A d \in Conns : d # c /\ Present(d)' => Present(d)
    BY <1>0, <1>1 DEF Join, Present, TypeOK
  <2>5. RegistryHoldsLiving' /\ PlaceGivenBack'
    BY <2>2, <2>4, TaskNames DEF IInv, RegistryHoldsLiving, PlaceGivenBack, LeavingPC
  <2>6. GateExact' /\ RecoveryWithinCall'
    BY <1>0, <2>2, TaskNames
       DEF IInv, TypeOK, GateExact, HoldsGate, Recovering, RecoveryWithinCall,
           CallsBackplane, Join, bridgeVars, recoveryVars
  <2>7. QED
    BY <2>3, <2>5, <2>6 DEF Disciplined
<1>2. CASE ~HasPlace(home[c])
  BY <1>0, <1>2, QuietHandlerStep
     DEF Join, HandlerPC, LeavingPC, registryVars, bridgeVars, recoveryVars
<1>3. QED
  BY <1>1, <1>2

(* RequestAborted: the handler leaves, with the gate and the recovery it had. *)
LEMMA AbortDiscipline ==
  ASSUME IInv, NEW c \in Conns, Abort(c) PROVE PCTypeOK' /\ Disciplined'
<1>0. TypeOK /\ Handler(c) \in Tasks /\ Handler(c) # Nobody
  BY TaskNames DEF IInv
<1>1. PICK to \in {"gone", "leaving"} :
        /\ Goto(Handler(c), to)
        /\ \/ to = "gone" /\ Leave(c)
           \/ to = "leaving" /\ UNCHANGED peers
  BY DEF Abort
<1>2. /\ \A d \in Conns : Present(d)' => Present(d)
      /\ to \in LeavingPC => ~Present(c)'
  BY <1>0, <1>1, LeaveEffect DEF Abort, LeavingPC, Present
<1>3. /\ gate' = IF gate = Handler(c) THEN Nobody ELSE gate
      /\ StopRecovery(Handler(c))
  BY DEF Abort
<1>4. /\ link' = link
      /\ \/ recoverer # Handler(c) /\ UNCHANGED <<recoverer, stage>>
         \/ recoverer = Handler(c) /\ recoverer' = Nobody /\ stage' = "aborted"
  BY <1>0, <1>3, StopRecoveryType DEF Abort
<1>5. QED
  BY <1>1, <1>2, <1>3, <1>4, HandlerStepKeeps DEF HandlerPC, LeavingPC

(* RemovePeerAsync starts the cleanup, which is not under way yet.           *)
LEMMA RemovePeerDiscipline ==
  ASSUME IInv, NEW c \in Conns, RemovePeer(c) PROVE PCTypeOK' /\ Disciplined'
<1>1. \A d \in Conns : Present(d)' => Present(d)
  BY LeaveEffect DEF RemovePeer, IInv
<1>2. recoverer # Cleanup(c)
  BY TaskNames DEF IInv, RecoveryWithinCall, CallsBackplane, RemovePeer
<1>3. QED
  BY <1>1, <1>2, CleanupStepKeeps DEF RemovePeer, LeavingPC, bridgeVars, recoveryVars

(* The steps after LeaveRoom only move their task.                          *)
LEMMA LeaveDiscipline ==
  ASSUME IInv, NEW c \in Conns, NEW t \in ConnTasks, t = Handler(c) \/ t = Cleanup(c),
         LeaveStep(t) \/ (CleanupTimesOut(c) /\ t = Cleanup(c))
  PROVE  PCTypeOK' /\ Disciplined'
<1>1. PICK to \in {"unannouncing", "unsubscribing", "gone"} : Goto(t, to)
  BY DEF LeaveStep, ReleaseAdmission, Unannounce, ReleaseIfRoomEmpty, CleanupTimesOut
<1>2. /\ pc[t] \in {"releasing", "unannouncing", "unsubscribing"}
      /\ UNCHANGED <<registryVars, gate, link, recoverer, stage>>
      /\ recoverer # t \/ ~CallsBackplane(t)
  BY DEF LeaveStep, ReleaseAdmission, Unannounce, ReleaseIfRoomEmpty, CleanupTimesOut,
         Recovering, CallsBackplane, bridgeVars, recoveryVars
<1>3. recoverer # t
  BY <1>2, TaskNames DEF IInv, RecoveryWithinCall
<1>4. CASE t = Handler(c)
  <2>1. ~Present(c)
    BY <1>2, <1>4 DEF IInv, PlaceGivenBack, LeavingPC
  <2>2. QED
    BY <1>1, <1>2, <1>3, <1>4, <2>1, QuietHandlerStep DEF LeavingPC
<1>5. CASE t = Cleanup(c)
  <2>1. \A d \in Conns : Present(d)' => Present(d)
    BY <1>2 DEF Present, registryVars
  <2>2. QED
    BY <1>1, <1>2, <1>3, <1>5, <2>1, CleanupStepKeeps DEF LeavingPC
<1>6. QED
  BY <1>4, <1>5

(* The link to Redis and the health check.                                  *)
LEMMA LinkDiscipline ==
  ASSUME IInv, LinkStep PROVE PCTypeOK' /\ Disciplined'
<1>1. CASE BackoffElapses
  BY <1>1, UnmovedStep DEF BackoffElapses, bridgeVars, recoveryVars
<1>2. ASSUME NEW t \in Tasks, ConnectRedis(t) PROVE PCTypeOK' /\ Disciplined'
  <2>1. recoverer = Nobody /\ stage \in {"none", "done", "aborted"} /\ t # Nobody
    BY <1>2, TaskNames DEF ConnectRedis, IInv, RecoveryWithinCall
  <2>2. CASE link' = "up"
    <3>1. /\ recoverer' = t /\ stage' = "rooms" /\ CallsBackplane(t)
          /\ UNCHANGED <<registryVars, gate, pc>>
      BY <1>2, <2>2 DEF ConnectRedis, bridgeVars
    <3>2. RecoveryWithinCall'
      BY <2>1, <2>2, <3>1 DEF RecoveryWithinCall, CallsBackplane
    <3>3. QED
      BY <2>1, <3>1, <3>2, UnmovedStep
  <2>3. CASE link' # "up"
    BY <1>2, <2>3, UnmovedStep DEF ConnectRedis, bridgeVars, recoveryVars
  <2>4. QED
    BY <2>2, <2>3
<1>3. CASE HealthCheck \/ HealthAnswered
  <2>1. PICK to \in {"checking", "idle"} : Goto(Health, to)
    BY <1>3 DEF HealthCheck, HealthAnswered
  <2>2. /\ DOMAIN pc' = Tasks /\ pc'[Health] = to
        /\ \A t \in Tasks : t # Health => pc'[t] = pc[t]
    BY <2>1, TaskNames DEF Goto, IInv, TypeOK
  <2>3. PCTypeOK'
    BY <2>2, TaskNames DEF IInv, TypeOK, PCTypeOK
  <2>4. RegistryHoldsLiving' /\ PlaceGivenBack'
    BY <1>3, <2>2, TaskNames
       DEF IInv, RegistryHoldsLiving, PlaceGivenBack, Present,
           HealthCheck, HealthAnswered, registryVars
  <2>5. GateExact'
    BY <1>3, <2>2, TaskNames
       DEF IInv, TypeOK, GateExact, HoldsGate, Recovering, HealthCheck, HealthAnswered,
           bridgeVars, recoveryVars
  <2>6. RecoveryWithinCall'
    BY <1>3, <2>2, TaskNames
       DEF IInv, TypeOK, RecoveryWithinCall, CallsBackplane, HealthCheck,
           HealthAnswered, Recovering, recoveryVars
  <2>7. QED
    BY <2>3, <2>4, <2>5, <2>6 DEF Disciplined
<1>4. QED
  BY <1>1, <1>2, <1>3 DEF LinkStep

(* The recovery moves no task but the one it times out within, and that one *)
(* gives back the gate when it has it.                                      *)
LEMMA RecoveryDiscipline ==
  ASSUME IInv, RecoveryStep PROVE PCTypeOK' /\ Disciplined'
<1>1. CASE /\ UNCHANGED <<registryVars, gate, link, pc>>
           /\ \/ UNCHANGED <<recoverer, stage>>
              \/ /\ stage # "subscribing" /\ stage' # "subscribing"
                 /\ \/ recoverer' = recoverer /\ stage \in Stages \ {"none", "done", "aborted"}
                    \/ recoverer' = Nobody /\ stage' = "done"
  <2>1. CASE UNCHANGED <<recoverer, stage>>
    BY <1>1, <2>1, UnmovedStep
  <2>2. CASE ~UNCHANGED <<recoverer, stage>>
    <3>1. RecoveryWithinCall'
      BY <1>1, <2>2 DEF IInv, RecoveryWithinCall, CallsBackplane
    <3>2. QED
      BY <1>1, <2>2, <3>1, UnmovedStep
  <2>3. QED
    BY <2>1, <2>2
<1>2. ASSUME NEW c \in Conns, RecoveryTimesOut(Handler(c))
      PROVE  PCTypeOK' /\ Disciplined'
  <2>0. /\ TypeOK /\ recoverer = Handler(c) /\ CallsBackplane(Handler(c))
        /\ Handler(c) # Nobody /\ Handler(c)[2] = "handler"
    BY <1>2, TaskNames DEF RecoveryTimesOut, Recovering, IInv, RecoveryWithinCall
  <2>1. PICK to \in {"announcing", "open", "unsubscribing"} :
          /\ Goto(Handler(c), to)
          /\ to = "unsubscribing" => pc[Handler(c)] = "unannouncing"
    BY <1>2, <2>0, TaskNames
       DEF RecoveryTimesOut, AfterCall, CallsBackplane, TypeOK, HandlerPC, LeavingPC
  <2>2. recoverer' = Nobody /\ stage' = "aborted" /\ link' = link
    BY <1>2, <2>0, StopRecoveryType DEF RecoveryTimesOut
  <2>3. \A d \in Conns : Present(d)' <=> Present(d)
    BY <1>2 DEF RecoveryTimesOut, Present, registryVars
  <2>4. to \in LeavingPC => ~Present(c)'
    BY <2>1, <2>3 DEF IInv, PlaceGivenBack, LeavingPC
  <2>5. QED
    BY <1>2, <2>0, <2>1, <2>2, <2>3, <2>4, HandlerStepKeeps
       DEF RecoveryTimesOut, HandlerPC, LeavingPC
<1>3. ASSUME NEW c \in Conns, RecoveryTimesOut(Cleanup(c))
      PROVE  PCTypeOK' /\ Disciplined'
  <2>0. /\ TypeOK /\ recoverer = Cleanup(c) /\ CallsBackplane(Cleanup(c))
        /\ Cleanup(c) # Nobody /\ Cleanup(c)[2] = "cleanup"
    BY <1>3, TaskNames DEF RecoveryTimesOut, Recovering, IInv, RecoveryWithinCall
  <2>1. Goto(Cleanup(c), "gone")
    BY <1>3, <2>0, TaskNames
       DEF RecoveryTimesOut, AfterCall, CallsBackplane, TypeOK, LeavingPC
  <2>2. recoverer' = Nobody /\ stage' = "aborted" /\ link' = link
    BY <1>3, <2>0, StopRecoveryType DEF RecoveryTimesOut
  <2>3. \A d \in Conns : Present(d)' <=> Present(d)
    BY <1>3 DEF RecoveryTimesOut, Present, registryVars
  <2>4. QED
    BY <1>3, <2>0, <2>1, <2>2, <2>3, CleanupStepKeeps DEF RecoveryTimesOut, LeavingPC
<1>4. CASE RecoveryTimesOut(Health)
  <2>0. /\ TypeOK /\ recoverer = Health /\ pc[Health] = "checking" /\ Health # Nobody
        /\ Health \in Tasks
    BY <1>4, TaskNames DEF RecoveryTimesOut, Recovering, IInv, RecoveryWithinCall,
                          CallsBackplane, TypeOK
  <2>1. /\ pc'[Health] = "idle" /\ DOMAIN pc' = Tasks
        /\ \A t \in Tasks : t # Health => pc'[t] = pc[t]
    BY <1>4, <2>0, TaskNames DEF RecoveryTimesOut, AfterCall, Goto, TypeOK
  <2>2. PCTypeOK'
    BY <2>0, <2>1, TaskNames DEF TypeOK, PCTypeOK
  <2>3. recoverer' = Nobody /\ stage' = "aborted"
    BY <1>4, <2>0, StopRecoveryType DEF RecoveryTimesOut
  <2>4. RegistryHoldsLiving' /\ PlaceGivenBack'
    BY <1>4, <2>1, TaskNames
       DEF IInv, RegistryHoldsLiving, PlaceGivenBack, Present, RecoveryTimesOut,
           registryVars
  <2>5. GateExact'
    <3>1. \A t \in Tasks : gate = t <=> HoldsGate(t)
      BY DEF IInv, GateExact
    <3>2. \A t \in Tasks : HoldsGate(t)' <=> HoldsGate(t) /\ t # Health
      BY <2>0, <2>1, <2>3, TaskNames DEF HoldsGate, Recovering
    <3>3. gate' = IF gate = Health THEN Nobody ELSE gate
      BY <1>4 DEF RecoveryTimesOut
    <3>4. QED
      BY <2>0, <3>1, <3>2, <3>3, TaskNames DEF GateExact
  <2>6. QED
    BY <2>0, <2>2, <2>3, <2>4, <2>5 DEF Disciplined, RecoveryWithinCall
<1>7. ASSUME UNCHANGED <<registryVars, link, pc, recoverer>>,
             stage \in {"queued", "subscribing"}, stage' \in {"rooms", "subscribing"},
             stage' = "subscribing" => pc[recoverer] # "gated", GateExact'
      PROVE  PCTypeOK' /\ Disciplined'
  <2>1. PCTypeOK'
    BY <1>7 DEF IInv, TypeOK, PCTypeOK
  <2>2. RegistryHoldsLiving' /\ PlaceGivenBack'
    BY <1>7 DEF IInv, RegistryHoldsLiving, PlaceGivenBack, Present, registryVars
  <2>3. RecoveryWithinCall'
    BY <1>7 DEF IInv, RecoveryWithinCall, CallsBackplane
  <2>4. QED
    BY <1>7, <2>1, <2>2, <2>3 DEF Disciplined
<1>8. CASE RecoveryTakesGate
  <2>0. /\ UNCHANGED <<registryVars, link, pc, recoverer>> /\ stage = "queued"
        /\ gate = Nobody /\ recoverer # Nobody /\ recoverer \in Tasks
        /\ \/ stage' = "rooms" /\ gate' = gate
           \/ stage' = "subscribing" /\ gate' = recoverer
    BY <1>8 DEF RecoveryTakesGate, IInv, TypeOK, RecoveryWithinCall
  <2>1. \A t \in Tasks : ~HoldsGate(t)
    BY <2>0, TaskNames DEF IInv, GateExact
  <2>2. \A t \in Tasks : HoldsGate(t)' <=> t = recoverer /\ stage' = "subscribing"
    BY <2>0, <2>1 DEF HoldsGate, Recovering
  <2>3. GateExact'
    BY <2>0, <2>2, TaskNames DEF GateExact
  <2>4. pc[recoverer] # "gated"
    BY <2>0, <2>1 DEF HoldsGate
  <2>5. QED
    BY <1>7, <2>0, <2>3, <2>4
<1>9. CASE RoomRecovered
  <2>0. /\ UNCHANGED <<registryVars, link, pc, recoverer>> /\ stage = "subscribing"
        /\ recoverer # Nobody /\ recoverer \in Tasks
        /\ stage' = "rooms" /\ gate' = Nobody
    BY <1>9 DEF RoomRecovered, IInv, TypeOK, RecoveryWithinCall
  <2>1. gate = recoverer /\ pc[recoverer] # "gated"
    BY <2>0 DEF IInv, GateExact, HoldsGate, Recovering, RecoveryWithinCall
  <2>2. \A t \in Tasks : ~HoldsGate(t)'
    BY <2>0, <2>1 DEF IInv, GateExact, HoldsGate, Recovering
  <2>3. GateExact'
    BY <2>0, <2>2, TaskNames DEF GateExact
  <2>4. QED
    BY <1>7, <2>0, <2>3
<1>5. \/ \E t \in Tasks : RecoveryTimesOut(t)
      \/ RecoveryTakesGate \/ RoomRecovered
      \/ /\ UNCHANGED <<registryVars, gate, link, pc>>
         /\ \/ UNCHANGED <<recoverer, stage>>
            \/ /\ stage # "subscribing" /\ stage' # "subscribing"
               /\ \/ recoverer' = recoverer /\ stage \in Stages \ {"none", "done", "aborted"}
                  \/ recoverer' = Nobody /\ stage' = "done"
  BY DEF RecoveryStep, RecoverRoom, RecoveryTakesGate, RoomRecovered,
       ReconcileRoom, StartAdmissions, AskPresence, AskAdmission,
         AskPresence, TrackPeer, AdmissionReconciled, RecheckPresence, RecheckAdmission,
         StartPresence, RecoveryDone, bridgeVars, Stages
<1>6. QED
  <2>1. ASSUME NEW t \in Tasks, RecoveryTimesOut(t) PROVE PCTypeOK' /\ Disciplined'
    <3>1. t = Health \/ \E c \in Conns : t = Handler(c) \/ t = Cleanup(c)
      BY DEF Tasks, Handler, Cleanup
    <3>2. QED
      BY <2>1, <3>1, <1>2, <1>3, <1>4
  <2>2. QED
    BY <1>1, <1>5, <1>8, <1>9, <2>1

-----------------------------------------------------------------------------
(* The inductive invariant holds before the first connection ...            *)
LEMMA InitIInv == Init => IInv
<1> SUFFICES ASSUME Init PROVE IInv
  OBVIOUS
<1>1. /\ \A c \in Conns : pc[Handler(c)] = "new" /\ pc[Cleanup(c)] = "idle"
      /\ pc[Health] = "idle" /\ DOMAIN pc = Tasks
  <2>1. \A t \in Tasks : pc[t] = IF t = Health THEN "idle"
                                 ELSE IF t[2] = "handler" THEN "new" ELSE "idle"
    BY DEF Init
  <2>2. QED
    BY <2>1, TaskNames DEF Init
<1>2. PCTypeOK
  BY <1>1 DEF PCTypeOK, HandlerPC
<1>3. StateTypeOK
  BY RelayAssumption DEF Init, StateTypeOK, RecoveryTypeOK, Stages
<1>4. \A c \in Conns : ~Present(c)
  BY DEF Init, Present
<1>5. RegistryHoldsLiving /\ PlaceGivenBack
  BY <1>4 DEF RegistryHoldsLiving, PlaceGivenBack
<1>6. GateExact
  <2>1. \A t \in Tasks : pc[t] # "gated" /\ t # Nobody
    BY <1>1, TaskNames
  <2>2. QED
    BY <2>1 DEF Init, GateExact, HoldsGate, Recovering
<1>7. RecoveryWithinCall
  BY DEF Init, RecoveryWithinCall
<1>8. QED
  BY <1>2, <1>3, <1>5, <1>6, <1>7, TypesSplit DEF IInv

(* ... and every step keeps it.                                             *)
LEMMA NextIInv == IInv /\ [Next]_vars => IInv'
<1> SUFFICES ASSUME IInv, [Next]_vars PROVE IInv'
  OBVIOUS
<1>0. TypeOK
  BY DEF IInv
<1>1. ASSUME StateTypeOK', PCTypeOK', Disciplined' PROVE IInv'
  BY <1>1, TypesSplit DEF IInv, Disciplined
<1>2. ASSUME NEW c \in Conns, Join(c) PROVE IInv'
  BY <1>0, <1>1, <1>2, HandlerTypes, JoinDiscipline
<1>3. ASSUME NEW c \in Conns, HandlerStep(c) \/ Close(c) PROVE IInv'
  BY <1>0, <1>1, <1>3, HandlerTypes, HandlerDiscipline
<1>4. ASSUME NEW c \in Conns, Abort(c) PROVE IInv'
  BY <1>0, <1>1, <1>4, HandlerTypes, AbortDiscipline
<1>5. ASSUME NEW c \in Conns, RemovePeer(c) PROVE IInv'
  BY <1>0, <1>1, <1>5, HandlerTypes, RemovePeerDiscipline
<1>6. ASSUME NEW t \in ConnTasks, LeaveStep(t) PROVE IInv'
  <2>1. PICK c \in Conns : t = Handler(c) \/ t = Cleanup(c)
    BY TaskNames
  <2>2. StateTypeOK'
    BY <1>0, <1>6, LeaveTypes
  <2>3. PCTypeOK' /\ Disciplined'
    BY <1>6, <2>1, LeaveDiscipline
  <2>4. QED
    BY <1>1, <2>2, <2>3
<1>7. ASSUME NEW c \in Conns, CleanupTimesOut(c) PROVE IInv'
  <2>1. Cleanup(c) \in ConnTasks
    BY TaskNames
  <2>2. StateTypeOK'
    BY <1>0, <1>7, <2>1, LeaveTypes
  <2>3. PCTypeOK' /\ Disciplined'
    BY <1>7, <2>1, LeaveDiscipline
  <2>4. QED
    BY <1>1, <2>2, <2>3
<1>8. CASE LinkStep
  BY <1>0, <1>1, <1>8, LinkTypes, LinkDiscipline
<1>9. CASE RecoveryStep
  BY <1>0, <1>1, <1>9, RecoveryTypes, RecoveryDiscipline
<1>10. CASE UNCHANGED vars
  <2>1. UNCHANGED <<registryVars, gate, link, pc, recoverer, stage>>
    BY <1>10 DEF vars, bridgeVars, recoveryVars
  <2>2. PCTypeOK' /\ Disciplined'
    BY <2>1, UnmovedStep
  <2>3. StateTypeOK'
    BY <1>0, <1>10, TypesSplit DEF StateTypeOK, RecoveryTypeOK, vars, registryVars,
                                 redisVars, bridgeVars, recoveryVars
  <2>4. QED
    BY <1>1, <2>2, <2>3
<1>11. QED
  BY <1>2, <1>3, <1>4, <1>5, <1>6, <1>7, <1>8, <1>9, <1>10 DEF Next, TaskStep, LinkStep

(* Whatever fails, at whatever await, IInv holds in every reachable state.  *)
THEOREM Invariance == Spec => []IInv
<1>1. QED
  BY InitIInv, NextIInv, PTL DEF Spec

(* Type correctness of the relay.                                           *)
THEOREM TypeCorrect == Spec => []TypeOK
<1>1. IInv => TypeOK
  BY DEF IInv
<1>2. QED
  BY <1>1, Invariance, PTL

(* No way out of HandleSyncRequestAsync keeps a place in the registry: not   *)
(* a refusal, an abort, a failure of Redis, a removal from outside.         *)
THEOREM PlacesGivenBack == Spec => []RegistryHoldsLiving
<1>1. IInv => RegistryHoldsLiving
  BY DEF IInv
<1>2. QED
  BY <1>1, Invariance, PTL

(* subscriptionGate is held exactly while EnsureSubscribedAsync awaits the   *)
(* backplane, although a recovery may run, and be abandoned, inside it.     *)
THEOREM GateGivenBack == Spec => []GateExact
<1>1. IInv => GateExact
  BY DEF IInv
<1>2. QED
  BY <1>1, Invariance, PTL

-----------------------------------------------------------------------------
(* Joining against leaving, on a relay that has Redis from the start and is  *)
(* always answered: no recovery runs, and who was found or made subscribed  *)
(* stays so while it has its place, because EnsureSubscribedAsync and        *)
(* ReleaseIfRoomEmptyAsync look under the gate.                             *)
JoinedSubscribed ==
  \A c \in Conns : pc[Handler(c)] \in {"announcing", "open"} /\ Present(c)
                   => home[c] \in subscriptions

HealthyInv == /\ IInv /\ JoinedSubscribed
              /\ link = "up" /\ stage = "none" /\ recoverer = Nobody

(* A step that takes no subscription away, gives no place, and brings no    *)
(* handler beyond its subscription.                                         *)
LEMMA SubscribedKept ==
  ASSUME JoinedSubscribed, home' = home, subscriptions \subseteq subscriptions',
         \A c \in Conns : pc'[Handler(c)] \in {"announcing", "open"} =>
            \/ home[c] \in subscriptions'
            \/ /\ pc[Handler(c)] \in {"announcing", "open"}
               /\ Present(c)' => Present(c)
  PROVE  JoinedSubscribed'
BY DEF JoinedSubscribed

(* No step of such a relay breaks the invariant: RecoveryStep is disabled.  *)
LEMMA HealthyStep ==
  ASSUME ~RedisMayFail, HealthyInv, [Next]_vars PROVE HealthyInv'
<1>0. /\ IInv /\ TypeOK /\ JoinedSubscribed
      /\ link = "up" /\ stage = "none" /\ recoverer = Nobody
  BY DEF HealthyInv, IInv
<1>1. ~RecoveryStep
  <2>1. ~ \E t \in Tasks : RecoveryTimesOut(t)
    BY <1>0, TaskNames DEF RecoveryTimesOut, Recovering
  <2>2. QED
    BY <1>0, <2>1 DEF RecoveryStep, RecoverRoom, RecoveryTakesGate, RoomRecovered,
       ReconcileRoom, StartAdmissions, AskPresence,
       AskAdmission, TrackPeer, AdmissionReconciled, RecheckPresence,
       RecheckAdmission, StartPresence, RecoveryDone
<1>2. ~LinkStep \/ UNCHANGED <<home, subscriptions, link, stage, recoverer>>
  BY <1>0 DEF LinkStep, BackoffElapses, HealthCheck, HealthAnswered, ConnectRedis,
             registryVars, bridgeVars, recoveryVars
<1>3. ASSUME NEW c \in Conns,
             Join(c) \/ HandlerStep(c) \/ Close(c) \/ Abort(c) \/ RemovePeer(c)
      PROVE  /\ UNCHANGED <<link, stage, recoverer>>
             /\ JoinedSubscribed'
  <2>1. UNCHANGED <<link, stage, recoverer, home>>
    BY <1>0, <1>3, TaskNames
       DEF Join, HandlerStep, CheckDistributed, AdmissionAnswered, SubscribeAnswered,
           Announce, LeaveRoom, AcquireGate, Close, Abort, RemovePeer, StopRecovery,
           Recovering, registryVars, recoveryVars
  <2>2. subscriptions \subseteq subscriptions'
    BY <1>3 DEF Join, HandlerStep, CheckDistributed, AdmissionAnswered,
               SubscribeAnswered, Announce, LeaveRoom, AcquireGate, Close, Abort,
               RemovePeer, bridgeVars
  <2>3. \A d \in Conns : d # c => pc'[Handler(d)] = pc[Handler(d)]
    <3>1. (\E to : Goto(Handler(c), to)) \/ (\E to : Goto(Cleanup(c), to))
      BY <1>3 DEF Join, HandlerStep, CheckDistributed, AdmissionAnswered,
                 SubscribeAnswered, Announce, LeaveRoom, AcquireGate, Close, Abort,
                 RemovePeer
    <3>2. QED
      BY <1>0, <3>1, HandlerMoves, CleanupMoves, TaskNames
  <2>4. \A d \in Conns : d # c /\ Present(d)' => Present(d)
    BY <1>0, <1>3 DEF Join, HandlerStep, CheckDistributed, AdmissionAnswered,
               SubscribeAnswered, Announce, LeaveRoom, AcquireGate, Close, Abort,
               RemovePeer, Leave, Present, TypeOK, registryVars
  <2>5. pc'[Handler(c)] \in {"announcing", "open"} =>
           \/ home[c] \in subscriptions'
           \/ /\ pc[Handler(c)] \in {"announcing", "open"}
              /\ Present(c)' => Present(c)
    <3>1. CASE SubscribeAnswered(c) \/ AcquireGate(c)
      BY <1>0, <3>1, HandlerMoves DEF SubscribeAnswered, AcquireGate
    <3>2. CASE Announce(c)
      BY <1>0, <3>2 DEF Announce, Present, registryVars
    <3>3. CASE RemovePeer(c)
      BY <1>0, <3>3, CleanupMoves, LeaveEffect, TaskNames DEF RemovePeer
    <3>4. CASE \/ Join(c) \/ CheckDistributed(c) \/ AdmissionAnswered(c)
               \/ LeaveRoom(c) \/ Close(c) \/ Abort(c)
      BY <1>0, <3>4, HandlerMoves
         DEF Join, CheckDistributed, AdmissionAnswered, LeaveRoom, Close, Abort
    <3>5. QED
      BY <1>3, <3>1, <3>2, <3>3, <3>4 DEF HandlerStep
  <2>6. QED
    BY <1>0, <2>1, <2>2, <2>3, <2>4, <2>5, SubscribedKept
<1>4. ASSUME NEW c \in Conns, NEW t \in ConnTasks, t = Handler(c) \/ t = Cleanup(c),
             LeaveStep(t) \/ (CleanupTimesOut(c) /\ t = Cleanup(c))
      PROVE  /\ UNCHANGED <<link, stage, recoverer>>
             /\ JoinedSubscribed'
  <2>1. UNCHANGED <<link, stage, recoverer, registryVars>>
    BY <1>4 DEF LeaveStep, ReleaseAdmission, Unannounce, ReleaseIfRoomEmpty,
               CleanupTimesOut, recoveryVars
  <2>2. \A d \in Conns : pc'[Handler(d)] \in {"announcing", "open"} =>
                            pc'[Handler(d)] = pc[Handler(d)]
    <3>1. PICK to \in LeavingPC : Goto(t, to)
      BY <1>4 DEF LeaveStep, ReleaseAdmission, Unannounce, ReleaseIfRoomEmpty,
                 CleanupTimesOut, LeavingPC
    <3>2. QED
      BY <1>0, <1>4, <3>1, HandlerMoves, CleanupMoves, TaskNames DEF LeavingPC
  <2>3. \A d \in Conns : Present(d) /\ home[d] \in subscriptions =>
                            home[d] \in subscriptions'
    BY <1>4 DEF LeaveStep, ReleaseAdmission, Unannounce, ReleaseIfRoomEmpty,
               CleanupTimesOut, RoomEmpty, Present, bridgeVars
  <2>4. QED
    BY <1>0, <2>1, <2>2, <2>3 DEF JoinedSubscribed, Present, registryVars
<1>5. CASE LinkStep
  <2>1. \A d \in Conns : pc'[Handler(d)] = pc[Handler(d)]
    BY <1>0, <1>5, TaskNames DEF LinkStep, BackoffElapses, HealthCheck,
       HealthAnswered, ConnectRedis, Goto, TypeOK
  <2>2. UNCHANGED registryVars
    BY <1>5 DEF LinkStep, BackoffElapses, HealthCheck, HealthAnswered, ConnectRedis
  <2>3. JoinedSubscribed'
    BY <1>0, <1>2, <1>5, <2>1, <2>2 DEF JoinedSubscribed, Present, registryVars
  <2>4. QED
    BY <1>0, <1>2, <1>5, <2>3, NextIInv DEF HealthyInv
<1>6. CASE UNCHANGED vars
  BY <1>0, <1>6, NextIInv
     DEF HealthyInv, JoinedSubscribed, Present, vars, registryVars, bridgeVars, recoveryVars
<1>7. ASSUME NEW t \in ConnTasks, LeaveStep(t) PROVE HealthyInv'
  <2>1. PICK c \in Conns : t = Handler(c) \/ t = Cleanup(c)
    BY TaskNames
  <2>2. UNCHANGED <<link, stage, recoverer>> /\ JoinedSubscribed'
    BY <1>4, <1>7, <2>1
  <2>3. QED
    BY <1>0, <2>2, NextIInv DEF HealthyInv
<1>8. ASSUME NEW c \in Conns, CleanupTimesOut(c) PROVE HealthyInv'
  <2>1. UNCHANGED <<link, stage, recoverer>> /\ JoinedSubscribed'
    BY <1>4, <1>8, TaskNames
  <2>2. QED
    BY <1>0, <2>1, NextIInv DEF HealthyInv
<1>9. QED
  <2>1. ASSUME NEW c \in Conns,
               Join(c) \/ HandlerStep(c) \/ Close(c) \/ Abort(c) \/ RemovePeer(c)
        PROVE  HealthyInv'
    BY <1>0, <1>3, <2>1, NextIInv DEF HealthyInv
  <2>2. QED
    BY <1>1, <1>5, <1>6, <1>7, <1>8, <2>1 DEF Next, TaskStep, LinkStep

(* A relay that did not reach Redis at its start never counts as one: the    *)
(* call that reaches it begins a recovery.                                  *)
LEMMA StartedOnce ==
  ASSUME [Next]_vars, StartedConnected' PROVE StartedConnected
<1> USE DEF StartedConnected
<1>1. ASSUME NEW c \in Conns,
             Join(c) \/ HandlerStep(c) \/ Close(c) \/ Abort(c) \/ RemovePeer(c)
      PROVE  StartedConnected
  BY <1>1 DEF Join, HandlerStep, CheckDistributed, AdmissionAnswered, SubscribeAnswered,
     Announce, LeaveRoom, AcquireGate, Close, Abort, RemovePeer, StopRecovery, recoveryVars
<1>2. ASSUME NEW t \in ConnTasks, LeaveStep(t) PROVE StartedConnected
  BY <1>2 DEF LeaveStep, ReleaseAdmission, Unannounce, ReleaseIfRoomEmpty, recoveryVars
<1>3. ASSUME NEW c \in Conns, CleanupTimesOut(c) PROVE StartedConnected
  BY <1>3 DEF CleanupTimesOut, StopRecovery, recoveryVars
<1>4. CASE LinkStep
  BY <1>4 DEF LinkStep, BackoffElapses, HealthCheck, HealthAnswered, ConnectRedis,
     recoveryVars
<1>5. CASE RecoveryStep
  <2>1. ASSUME NEW t \in Tasks, RecoveryTimesOut(t) PROVE StartedConnected
    BY <2>1 DEF RecoveryTimesOut, StopRecovery
  <2>2. QED
    BY <1>5, <2>1 DEF RecoveryStep, RecoverRoom, RecoveryTakesGate, RoomRecovered,
       ReconcileRoom, StartAdmissions, AskPresence,
       AskAdmission, TrackPeer, AdmissionReconciled, RecheckPresence,
       RecheckAdmission, StartPresence, RecoveryDone
<1>6. CASE UNCHANGED vars
  BY <1>6 DEF vars, recoveryVars
<1>7. QED
  BY <1>1, <1>2, <1>3, <1>4, <1>5, <1>6 DEF Next, TaskStep, LinkStep

(* While Redis answers, the room of every served connection is subscribed,   *)
(* whoever leaves, aborts or is removed while it joins.                     *)
THEOREM ServedSubscribed ==
  ASSUME ~RedisMayFail PROVE Spec => []ServedRoomsSubscribed
<1> DEFINE Inv == IInv /\ (StartedConnected => HealthyInv)
<1>1. Init => Inv
  <2>1. Init => JoinedSubscribed
    BY DEF Init, JoinedSubscribed, Present
  <2>2. QED
    BY <2>1, InitIInv DEF Init, HealthyInv, StartedConnected
<1>2. Inv /\ [Next]_vars => Inv'
  <2> SUFFICES ASSUME Inv, [Next]_vars PROVE Inv'
    OBVIOUS
  <2>1. IInv'
    BY NextIInv
  <2>2. CASE StartedConnected
    BY <2>1, <2>2, HealthyStep
  <2>3. CASE ~StartedConnected
    BY <2>1, <2>3, StartedOnce
  <2>4. QED
    BY <2>2, <2>3
<1>3. Inv => ServedRoomsSubscribed
  BY DEF HealthyInv, JoinedSubscribed, ServedRoomsSubscribed, Served
<1>4. QED
  BY <1>1, <1>2, <1>3, PTL DEF Spec

-----------------------------------------------------------------------------
(* Subscriptions without a user.  While nobody is refused or aborted within  *)
(* its joining, and before a recovery runs, a handler between its join and   *)
(* its end answers for each subscription, whether Redis fails or not: the    *)
(* one that finds the room occupied leaves it to the others.                *)
Active(c) == pc[Handler(c)] \notin {"new", "gone"}
Answered(r) == \E c \in Conns : home[c] = r /\ Active(c)
OwnRoom == \A r \in Rooms : \A c \in peers[r] : home[c] = r
UseInv == IInv /\ OwnRoom /\ (stage = "none" => \A r \in subscriptions : Answered(r))

(* Whoever stands in the registry is a connection whose handler is active.  *)
LEMMA OccupiedAnswered ==
  ASSUME IInv, OwnRoom, NEW r \in Rooms, NEW c \in peers[r]
  PROVE  /\ c \in Conns /\ home[c] = r /\ Present(c)
         /\ Active(c) /\ pc[Handler(c)] \notin LeavingPC
BY DEF IInv, TypeOK, OwnRoom, Present, Active, RegistryHoldsLiving, PlaceGivenBack

(* The registry keeps each connection in the room it asked for.             *)
LEMMA OwnRoomStep == ASSUME IInv, OwnRoom, [Next]_vars PROVE OwnRoom' /\ home' = home
<1>0. TypeOK
  BY DEF IInv
<1>1. ASSUME NEW c \in Conns,
             Join(c) \/ HandlerStep(c) \/ Close(c) \/ Abort(c) \/ RemovePeer(c)
      PROVE  OwnRoom' /\ home' = home
  BY <1>0, <1>1 DEF OwnRoom, TypeOK, Leave, Join, HandlerStep, CheckDistributed,
     AdmissionAnswered, SubscribeAnswered, Announce, LeaveRoom, AcquireGate, Close,
     Abort, RemovePeer, registryVars
<1>2. CASE UNCHANGED registryVars
  BY <1>2 DEF OwnRoom, registryVars
<1>3. ASSUME NEW t \in ConnTasks, LeaveStep(t) PROVE UNCHANGED registryVars
  BY <1>3 DEF LeaveStep, ReleaseAdmission, Unannounce, ReleaseIfRoomEmpty
<1>4. (\E c \in Conns : CleanupTimesOut(c)) \/ LinkStep \/ RecoveryStep \/ UNCHANGED vars
      => UNCHANGED registryVars
  BY DEF CleanupTimesOut, LinkStep, BackoffElapses, HealthCheck, HealthAnswered,
         ConnectRedis, RecoveryStep, RecoverRoom, RecoveryTakesGate, RoomRecovered,
       ReconcileRoom, StartAdmissions, AskPresence,
         AskAdmission, TrackPeer, AdmissionReconciled, RecheckPresence,
         RecheckAdmission, StartPresence, RecoveryDone, RecoveryTimesOut, vars
<1>5. QED
  BY <1>1, <1>2, <1>3, <1>4 DEF Next, TaskStep, LinkStep

(* A step that lets no active handler end adds no unanswered subscription.  *)
LEMMA StillAnswered ==
  ASSUME UseInv, stage = "none", home' = home,
         \A d \in Conns : Active(d) => Active(d)',
         \A r \in subscriptions' \ subscriptions : Answered(r)
  PROVE  \A r \in subscriptions' : Answered(r)'
BY DEF UseInv, Answered

(* A recovery that has begun is never forgotten.                            *)
LEMMA NoRecoveryYet ==
  ASSUME [Next]_vars, stage' = "none" PROVE stage = "none" /\ ~RecoveryStep
<1>1. RecoveryStep => stage' # "none"
  BY DEF RecoveryStep, RecoverRoom, RecoveryTakesGate, RoomRecovered, StartAdmissions,
     AskAdmission, AdmissionReconciled, RecheckAdmission, StartPresence, ReconcileRoom,
     AskPresence, TrackPeer, RecheckPresence, RecoveryDone, RecoveryTimesOut,
     StopRecovery, Recovering
<1>2. ASSUME NEW c \in Conns,
             Join(c) \/ HandlerStep(c) \/ Close(c) \/ Abort(c) \/ RemovePeer(c)
      PROVE  stage = "none"
  BY <1>2 DEF Join, HandlerStep, CheckDistributed, AdmissionAnswered, SubscribeAnswered,
     Announce, LeaveRoom, AcquireGate, Close, Abort, RemovePeer, StopRecovery, recoveryVars
<1>3. ASSUME NEW t \in ConnTasks, LeaveStep(t) PROVE stage = "none"
  BY <1>3 DEF LeaveStep, ReleaseAdmission, Unannounce, ReleaseIfRoomEmpty, recoveryVars
<1>4. ASSUME NEW c \in Conns, CleanupTimesOut(c) PROVE stage = "none"
  BY <1>4 DEF CleanupTimesOut, recoveryVars
<1>5. LinkStep \/ UNCHANGED vars => stage = "none"
  BY DEF LinkStep, BackoffElapses, HealthCheck, HealthAnswered, ConnectRedis, vars,
     recoveryVars
<1>6. QED
  BY <1>1, <1>2, <1>3, <1>4, <1>5 DEF Next, TaskStep, LinkStep

(* No step takes the last active handler of a subscribed room away.         *)
LEMMA UseStep ==
  ASSUME ~RequestsMayAbort, ~OthersFillRooms, UseInv, [Next]_vars PROVE UseInv'
<1> SUFFICES ASSUME stage' = "none" PROVE \A r \in subscriptions' : Answered(r)'
  BY NextIInv, OwnRoomStep DEF UseInv
<1>0. /\ IInv /\ TypeOK /\ OwnRoom /\ \A r \in subscriptions : Answered(r)
      /\ IInv' /\ OwnRoom' /\ home' = home /\ stage = "none" /\ ~RecoveryStep
  BY NextIInv, OwnRoomStep, NoRecoveryYet DEF UseInv, IInv
<1>1. ASSUME NEW c \in Conns, Join(c) \/ HandlerStep(c) \/ Close(c)
      PROVE  \A r \in subscriptions' : Answered(r)'
  <2>1. PICK to : /\ Goto(Handler(c), to)
                  /\ pc[Handler(c)] = "new" \/ to \notin {"gone", "new"}
    BY <1>1 DEF Join, HandlerStep, CheckDistributed, AdmissionAnswered,
       SubscribeAnswered, Announce, LeaveRoom, AcquireGate, Close
  <2>2. \A d \in Conns : Active(d) => Active(d)'
    BY <1>0, <2>1, HandlerMoves, TaskNames DEF Active
  <2>3. \A r \in subscriptions' \ subscriptions : r = home[c] /\ Active(c)
    BY <1>1 DEF Join, HandlerStep, CheckDistributed, AdmissionAnswered, Active,
       SubscribeAnswered, Announce, LeaveRoom, AcquireGate, Close, bridgeVars
  <2>4. QED
    BY <1>0, <2>2, <2>3, StillAnswered DEF Answered
<1>2. ASSUME NEW c \in Conns, RemovePeer(c) \/ CleanupTimesOut(c)
      PROVE  \A r \in subscriptions' : Answered(r)'
  <2>1. \A d \in Conns : Active(d) => Active(d)'
    BY <1>0, <1>2, CleanupMoves, TaskNames DEF RemovePeer, CleanupTimesOut, Active
  <2>2. subscriptions' = subscriptions
    BY <1>2 DEF RemovePeer, CleanupTimesOut, bridgeVars
  <2>3. QED
    BY <1>0, <2>1, <2>2, StillAnswered
<1>3. ASSUME NEW t \in ConnTasks, LeaveStep(t)
      PROVE  \A r \in subscriptions' : Answered(r)'
  <2>0. PICK c \in Conns : t = Handler(c) \/ t = Cleanup(c)
    BY TaskNames
  <2>1. CASE ReleaseAdmission(t) \/ Unannounce(t)
    <3>1. PICK to \in {"unannouncing", "unsubscribing"} : Goto(t, to)
      BY <2>1 DEF ReleaseAdmission, Unannounce
    <3>2. \A d \in Conns : Active(d) => Active(d)'
      BY <1>0, <2>0, <3>1, HandlerMoves, CleanupMoves, TaskNames DEF Active
    <3>3. subscriptions' = subscriptions
      BY <2>1 DEF ReleaseAdmission, Unannounce, bridgeVars
    <3>4. QED
      BY <1>0, <3>2, <3>3, StillAnswered
  <2>2. CASE ReleaseIfRoomEmpty(t)
    <3>1. /\ Goto(t, "gone") /\ pc[t] = "unsubscribing" /\ t[1] = c
          /\ subscriptions' = IF RoomEmpty(home[c])
                              THEN subscriptions \ {home[c]} ELSE subscriptions
      <4>1. t[1] = c /\ home[t[1]] = home[c]
        BY <2>0, TaskNames
      <4>2. /\ Goto(t, "gone") /\ pc[t] = "unsubscribing"
            /\ subscriptions' = IF RoomEmpty(home[t[1]])
                                THEN subscriptions \ {home[t[1]]} ELSE subscriptions
        BY <2>2, Zenon DEF ReleaseIfRoomEmpty
      <4> QED BY <4>1, <4>2, Zenon
    <3>2. \A d \in Conns : d # c /\ Active(d) => Active(d)'
      BY <1>0, <2>0, <3>1, HandlerMoves, CleanupMoves, TaskNames DEF Active
    <3>3. ASSUME NEW r \in subscriptions', r # home[c] PROVE Answered(r)'
      BY <1>0, <3>1, <3>2, <3>3 DEF Answered
    <3>4. ASSUME NEW r \in subscriptions', r = home[c] PROVE Answered(r)'
      <4>1. peers[home[c]] # {} /\ home[c] \in Rooms
        BY <1>0, <3>1, <3>4 DEF RoomEmpty, TypeOK
      <4>2. PICK d \in peers[home[c]] : TRUE
        BY <4>1
      <4>3. /\ d \in Conns /\ home[d] = home[c] /\ Active(d)
            /\ pc[Handler(d)] \notin LeavingPC
        BY <1>0, <4>1, OccupiedAnswered
      <4>4. Active(d)'
        <5>1. CASE t = Handler(c)
          BY <3>1, <3>2, <4>3, <5>1 DEF LeavingPC
        <5>2. CASE t = Cleanup(c)
          BY <1>0, <3>1, <4>3, <5>2, CleanupMoves, TaskNames DEF Active
        <5>3. QED
          BY <2>0, <5>1, <5>2
      <4>5. QED
        BY <1>0, <3>4, <4>3, <4>4 DEF Answered
    <3>5. QED
      BY <3>3, <3>4
  <2>3. QED
    BY <1>3, <2>1, <2>2 DEF LeaveStep
<1>4. CASE LinkStep
  <2>1. \A d \in Conns : Active(d) => Active(d)'
    BY <1>0, <1>4, TaskNames DEF LinkStep, BackoffElapses, HealthCheck,
       HealthAnswered, ConnectRedis, Goto, TypeOK, Active
  <2>2. subscriptions' = subscriptions
    BY <1>4 DEF LinkStep, BackoffElapses, HealthCheck, HealthAnswered, ConnectRedis,
               bridgeVars
  <2>3. QED
    BY <1>0, <2>1, <2>2, StillAnswered
<1>5. CASE UNCHANGED vars
  BY <1>0, <1>5, StillAnswered DEF vars, bridgeVars, Active
<1>6. ASSUME NEW c \in Conns PROVE ~Abort(c)
  BY DEF Abort
<1>7. QED
  BY <1>0, <1>1, <1>2, <1>3, <1>4, <1>5, <1>6 DEF Next, TaskStep, LinkStep

(* While nobody is refused by Redis or aborted within its joining, and until *)
(* a recovery runs, no subscription outlives its room, although Redis fails  *)
(* and peers are removed from outside.  A recovery gives this up: it asks    *)
(* whether a room has peers before it waits for subscriptionGate.           *)
THEOREM NoSubscriptionLeaks ==
  ASSUME ~RequestsMayAbort, ~OthersFillRooms PROVE Spec => []SubscriptionsInUse
<1>1. Init => UseInv
  BY InitIInv DEF Init, UseInv, OwnRoom
<1>2. UseInv /\ [Next]_vars => UseInv'
  BY UseStep
<1>3. UseInv => SubscriptionsInUse
  <2> SUFFICES ASSUME UseInv, AtRest, stage = "none", NEW r \in subscriptions
               PROVE  \E c \in Conns : home[c] = r /\ pc[Handler(c)] = "open"
    BY DEF SubscriptionsInUse
  <2>1. PICK c \in Conns : home[c] = r /\ Active(c)
    BY DEF UseInv, Answered
  <2>2. pc[Handler(c)] \in {"new", "idle", "open", "gone"}
    BY TaskNames DEF AtRest
  <2>3. pc[Handler(c)] \in HandlerPC \cup LeavingPC
    BY DEF UseInv, IInv, TypeOK
  <2>4. QED
    BY <2>1, <2>2, <2>3 DEF Active, HandlerPC, LeavingPC
<1>4. QED
  BY <1>1, <1>2, <1>3, PTL DEF Spec

-----------------------------------------------------------------------------
(* Before Redis is reached nobody is admitted, asked for or tracked there,   *)
(* and no recovery has begun; once it is reached the link stays.            *)
BeforeRedis ==
  link # "up" => /\ stage = "none" /\ recoverer = Nobody /\ admitted = {} /\ tracked = {}
                 /\ \A c \in Conns : pc[Handler(c)] # "admitting"

(* A step of one task leaves the control states of all others.              *)
LEMMA OneTaskMoves ==
  ASSUME TypeOK, NEW t \in Tasks, NEW to, Goto(t, to)
  PROVE  \A c \in Conns :
           /\ pc'[Handler(c)] = IF t = Handler(c) THEN to ELSE pc[Handler(c)]
           /\ pc'[Cleanup(c)] = IF t = Cleanup(c) THEN to ELSE pc[Cleanup(c)]
BY TaskNames DEF Goto, TypeOK

(* The link never leaves "up", and nothing reaches Redis before it is.      *)
LEMMA BeforeRedisStep ==
  ASSUME IInv, BeforeRedis, [Next]_vars PROVE BeforeRedis'
<1> SUFFICES ASSUME link' # "up" PROVE BeforeRedis'
  BY DEF BeforeRedis
<1>0. TypeOK
  BY DEF IInv
<1>1. ASSUME NEW c \in Conns,
             Join(c) \/ HandlerStep(c) \/ Close(c) \/ Abort(c) \/ RemovePeer(c)
      PROVE  BeforeRedis'
  <2>1. link' = link /\ link # "up" /\ Handler(c) # Nobody /\ Handler(c) \in Tasks /\ Cleanup(c) \in Tasks
    BY <1>1, TaskNames DEF Join, HandlerStep, CheckDistributed, AdmissionAnswered, SubscribeAnswered,
       Announce, LeaveRoom, AcquireGate, Close, Abort, RemovePeer
  <2>2. /\ stage = "none" /\ recoverer = Nobody /\ admitted = {} /\ tracked = {}
        /\ \A d \in Conns : pc[Handler(d)] # "admitting"
    BY <2>1 DEF BeforeRedis
  <2>3. UNCHANGED <<stage, recoverer, admitted, tracked>>
    BY <1>1, <2>1, <2>2 DEF Join, HandlerStep, CheckDistributed, AdmissionAnswered, SubscribeAnswered,
       Announce, LeaveRoom, AcquireGate, Close, Abort, RemovePeer, StopRecovery, Recovering,
       redisVars, recoveryVars
  <2>4. PICK t, to : t \in {Handler(c), Cleanup(c)} /\ Goto(t, to) /\ to # "admitting"
    BY <1>1, <2>1, <2>2 DEF Join, HandlerStep, CheckDistributed, AdmissionAnswered, SubscribeAnswered,
       Announce, LeaveRoom, AcquireGate, Close, Abort, RemovePeer
  <2>5. QED
    BY <1>0, <2>1, <2>2, <2>3, <2>4, OneTaskMoves DEF BeforeRedis
<1>2. ASSUME NEW t \in ConnTasks, LeaveStep(t) \/ \E c \in Conns : t = Cleanup(c) /\ CleanupTimesOut(c)
      PROVE  BeforeRedis'
  <2>1. link' = link /\ UNCHANGED recoveryVars
    BY <1>2 DEF LeaveStep, ReleaseAdmission, Unannounce, ReleaseIfRoomEmpty, CleanupTimesOut
  <2>2. admitted' \subseteq admitted /\ tracked' \subseteq tracked
    BY <1>2 DEF LeaveStep, ReleaseAdmission, Unannounce, ReleaseIfRoomEmpty, CleanupTimesOut, redisVars
  <2>3. PICK to \in LeavingPC : Goto(t, to)
    BY <1>2 DEF LeaveStep, ReleaseAdmission, Unannounce, ReleaseIfRoomEmpty, CleanupTimesOut, LeavingPC
  <2>4. QED
    BY <1>0, <2>1, <2>2, <2>3, OneTaskMoves, TaskNames DEF BeforeRedis, LeavingPC, recoveryVars
<1>3. CASE LinkStep
  <2>1. UNCHANGED <<redisVars, recoveryVars>> /\ (link' # "up" => link # "up")
    BY <1>3 DEF LinkStep, BackoffElapses, HealthCheck, HealthAnswered, ConnectRedis
  <2>2. pc' = pc \/ \E to : Goto(Health, to)
    BY <1>3 DEF LinkStep, BackoffElapses, HealthCheck, HealthAnswered, ConnectRedis
  <2>3. \A c \in Conns : pc'[Handler(c)] = pc[Handler(c)]
    BY <1>0, <2>2, OneTaskMoves, TaskNames
  <2>4. QED
    BY <2>1, <2>3 DEF BeforeRedis, redisVars, recoveryVars
<1>4. CASE RecoveryStep
  <2>1. link' = link
    BY <1>4 DEF RecoveryStep, RecoverRoom, RecoveryTakesGate, RoomRecovered,
       ReconcileRoom, StartAdmissions, AskPresence, AskAdmission,
       TrackPeer, AdmissionReconciled, RecheckPresence, RecheckAdmission, StartPresence,
       RecoveryDone, RecoveryTimesOut
  <2>2. stage = "none" /\ recoverer = Nobody
    BY <2>1 DEF BeforeRedis
  <2>3. ~RecoveryStep
    BY <2>2, TaskNames DEF RecoveryStep, RecoverRoom, RecoveryTakesGate, RoomRecovered,
       ReconcileRoom, StartAdmissions, AskPresence, AskAdmission,
       TrackPeer, AdmissionReconciled, RecheckPresence, RecheckAdmission, StartPresence,
       RecoveryDone, RecoveryTimesOut, Recovering
  <2>4. QED
    BY <1>4, <2>3
<1>5. CASE UNCHANGED vars
  BY <1>5 DEF vars, redisVars, recoveryVars, BeforeRedis
<1>6. QED
  BY <1>1, <1>2, <1>3, <1>4, <1>5, TaskNames DEF Next, TaskStep, LinkStep

LEMMA BeforeRedisInit == Init => BeforeRedis
<1>1. Init => \A c \in Conns : pc[Handler(c)] = "new"
  BY TaskNames DEF Init
<1>2. QED
  BY <1>1 DEF Init, BeforeRedis

-----------------------------------------------------------------------------
(* Whom the recovery has entered, and has still to look at again.           *)
Tracking  == IF stage = "presence" THEN added ELSE {}
Admitting == IF stage = "admissions" THEN added ELSE {}

(* But for these, who is not in the presence table: a connection that has    *)
(* not joined, or whose handler is past Unannounce, which comes after every  *)
(* way in.  An abandoned recovery does not look again.                      *)
Untracked ==
  stage # "aborted" =>
    \A c \in Conns : pc[Handler(c)] \in {"new", "unsubscribing", "gone"} =>
                        c \notin tracked \ Tracking

(* Who is not admitted: the same from ReleaseAdmission on; the second look   *)
(* at an admission is not given up.                                         *)
Unadmitted ==
  \A c \in Conns : pc[Handler(c)] \in {"new", "unannouncing", "unsubscribing", "gone"} =>
                      c \notin admitted \ Admitting

GhostInv == IInv /\ BeforeRedis /\ Untracked /\ Unadmitted

(* A step that adds nobody keeps both, if the handler that passes Unannounce *)
(* or ReleaseAdmission in it is out of the table by then.                   *)
LEMMA StaysOut ==
  ASSUME GhostInv, tracked' \subseteq tracked, admitted' \subseteq admitted,
         UNCHANGED <<stage, added>>,
         \A c \in Conns :
           /\ \/ pc'[Handler(c)] \notin {"unsubscribing", "gone"} \/ c \notin tracked'
              \/ pc'[Handler(c)] = pc[Handler(c)]
           /\ \/ pc'[Handler(c)] \notin {"unannouncing", "unsubscribing", "gone"}
              \/ c \notin admitted'
              \/ pc[Handler(c)] \in {"new", "unannouncing", "unsubscribing", "gone"}
           /\ pc'[Handler(c)] = "new" => pc[Handler(c)] = "new"
  PROVE  Untracked' /\ Unadmitted'
<1>1. /\ Tracking' = Tracking /\ Admitting' = Admitting
  BY DEF Tracking, Admitting
<1>2. Untracked'
  BY <1>1 DEF GhostInv, Untracked
<1>3. Unadmitted'
  BY <1>1 DEF GhostInv, Unadmitted
<1>4. QED
  BY <1>2, <1>3

(* Joining, serving and being removed.                                      *)
LEMMA GhostHandlerStep ==
  ASSUME ~OthersFillRooms, GhostInv, NEW c \in Conns,
         Join(c) \/ HandlerStep(c) \/ Close(c) \/ RemovePeer(c)
  PROVE  Untracked' /\ Unadmitted'
<1>0. IInv /\ TypeOK /\ Handler(c) \in Tasks /\ Cleanup(c) \in Tasks
  BY TaskNames DEF GhostInv, IInv
<1>1. UNCHANGED <<stage, added>> /\ Tracking' = Tracking /\ Admitting' = Admitting
  BY DEF Tracking, Admitting, Join, HandlerStep, CheckDistributed, AdmissionAnswered, SubscribeAnswered,
     Announce, LeaveRoom, AcquireGate, Close, RemovePeer, recoveryVars
<1>2. CASE Join(c)
  <2>1. \E to \in {"joining", "gone"} : Goto(Handler(c), to)
    BY <1>2 DEF Join
  <2>2. \A d \in Conns : /\ d # c => pc'[Handler(d)] = pc[Handler(d)]
                         /\ pc[Handler(c)] = "new" /\ pc'[Handler(c)] \in {"joining", "gone"}
    BY <1>0, <1>2, <2>1, OneTaskMoves, TaskNames DEF Join
  <2>3. UNCHANGED redisVars
    BY <1>2 DEF Join
  <2>4. QED
    BY <1>1, <2>2, <2>3 DEF GhostInv, Untracked, Unadmitted, redisVars
<1>3. CASE CheckDistributed(c) \/ AcquireGate(c) \/ SubscribeAnswered(c) \/ LeaveRoom(c) \/ Close(c)
           \/ RemovePeer(c)
  <2>1. UNCHANGED redisVars
    BY <1>3 DEF CheckDistributed, AcquireGate, SubscribeAnswered, LeaveRoom, Close, RemovePeer
  <2>2. PICK t, to : /\ t \in {Handler(c), Cleanup(c)} /\ Goto(t, to)
                     /\ to \notin {"new", "unannouncing", "unsubscribing", "gone"}
    BY <1>3 DEF CheckDistributed, AcquireGate, SubscribeAnswered, LeaveRoom, Close, RemovePeer
  <2>3. \A d \in Conns : \/ pc'[Handler(d)] = pc[Handler(d)]
                         \/ pc'[Handler(d)] \notin {"new", "unannouncing", "unsubscribing", "gone"}
    BY <1>0, <2>2, OneTaskMoves
  <2>4. QED
    BY <1>1, <2>1, <2>3, StaysOut DEF redisVars
<1>4. CASE AdmissionAnswered(c)
  <2>1. Goto(Handler(c), "subscribing")
    BY <1>4 DEF AdmissionAnswered
  <2>2. \A d \in Conns : pc'[Handler(d)] = IF d = c THEN "subscribing" ELSE pc[Handler(d)]
    BY <1>0, <2>1, OneTaskMoves, TaskNames
  <2>3. tracked' = tracked /\ admitted' \subseteq admitted \cup {c}
    BY <1>4 DEF AdmissionAnswered
  <2>4. QED
    BY <1>1, <2>2, <2>3 DEF GhostInv, Untracked, Unadmitted
<1>5. CASE Announce(c)
  <2>1. \A d \in Conns : pc'[Handler(d)] = IF d = c THEN "open" ELSE pc[Handler(d)]
    BY <1>0, <1>5, OneTaskMoves, TaskNames DEF Announce
  <2>2. admitted' = admitted /\ tracked' \subseteq tracked \cup {c}
    BY <1>5 DEF Announce
  <2>3. QED
    BY <1>1, <2>1, <2>2 DEF GhostInv, Untracked, Unadmitted
<1>6. QED
  BY <1>2, <1>3, <1>4, <1>5 DEF HandlerStep

(* Leaving: the admission and the presence are given up before the end.     *)
LEMMA GhostLeaveStep ==
  ASSUME GhostInv, NEW c \in Conns, NEW t \in ConnTasks, t = Handler(c) \/ t = Cleanup(c),
         LeaveStep(t) \/ (t = Cleanup(c) /\ CleanupTimesOut(c))
  PROVE  Untracked' /\ Unadmitted'
<1>0. TypeOK /\ t \in Tasks /\ t[1] = c /\ BeforeRedis
  BY TaskNames DEF GhostInv, IInv
<1>1. UNCHANGED <<stage, added>>
  BY DEF LeaveStep, ReleaseAdmission, Unannounce, ReleaseIfRoomEmpty, CleanupTimesOut, recoveryVars
<1>2. CASE ReleaseAdmission(t)
  <2>1. admitted' = admitted \ {c} /\ tracked' \subseteq tracked /\ Goto(t, "unannouncing")
        /\ pc[t] = "releasing"
    BY <1>0, <1>2 DEF ReleaseAdmission
  <2>2. \A d \in Conns : pc'[Handler(d)] = IF t = Handler(d) THEN "unannouncing" ELSE pc[Handler(d)]
    BY <1>0, <2>1, OneTaskMoves
  <2>3. \A d \in Conns : t = Handler(d) => d = c
    BY TaskNames
  <2>4. QED
    BY <1>1, <2>1, <2>2, <2>3, StaysOut
<1>3. CASE Unannounce(t)
  <2>1. /\ admitted' = admitted /\ tracked' \subseteq tracked /\ Goto(t, "unsubscribing")
        /\ pc[t] = "unannouncing"
    BY <1>3 DEF Unannounce
  <2>2. c \notin tracked'
    BY <1>0, <1>3 DEF Unannounce, BeforeRedis
  <2>3. \A d \in Conns : pc'[Handler(d)] = IF t = Handler(d) THEN "unsubscribing" ELSE pc[Handler(d)]
    BY <1>0, <2>1, OneTaskMoves
  <2>4. \A d \in Conns : t = Handler(d) => d = c
    BY TaskNames
  <2>5. QED
    BY <1>1, <2>1, <2>2, <2>3, <2>4, StaysOut
<1>4. CASE ReleaseIfRoomEmpty(t) \/ (t = Cleanup(c) /\ CleanupTimesOut(c))
  <2>1. /\ UNCHANGED redisVars /\ Goto(t, "gone")
        /\ t = Cleanup(c) \/ pc[t] = "unsubscribing"
    BY <1>4 DEF ReleaseIfRoomEmpty, CleanupTimesOut
  <2>2. \A d \in Conns : pc'[Handler(d)] = IF t = Handler(d) THEN "gone" ELSE pc[Handler(d)]
    BY <1>0, <2>1, OneTaskMoves
  <2>3. \A d \in Conns : t = Handler(d) => pc[Handler(d)] = "unsubscribing"
    BY <2>1, TaskNames
  <2>4. Tracking' = Tracking /\ Admitting' = Admitting
    BY <1>1 DEF Tracking, Admitting
  <2>5. QED
    BY <1>1, <2>1, <2>2, <2>3, <2>4 DEF GhostInv, Untracked, Unadmitted, redisVars
<1>5. QED
  BY <1>2, <1>3, <1>4 DEF LeaveStep

(* Reconnecting begins a recovery that has entered nobody.                  *)
LEMMA GhostLinkStep == ASSUME GhostInv, LinkStep PROVE Untracked' /\ Unadmitted'
<1>0. TypeOK /\ BeforeRedis /\ Health \in Tasks
  BY TaskNames DEF GhostInv, IInv
<1>1. UNCHANGED redisVars /\ added' = added
  BY DEF LinkStep, BackoffElapses, HealthCheck, HealthAnswered, ConnectRedis, recoveryVars
<1>2. \A c \in Conns : pc'[Handler(c)] = pc[Handler(c)]
  <2>1. pc' = pc \/ \E to : Goto(Health, to)
    BY DEF LinkStep, BackoffElapses, HealthCheck, HealthAnswered, ConnectRedis
  <2>2. QED
    BY <1>0, <2>1, OneTaskMoves, TaskNames
<1>3. stage' = stage \/ (tracked = {} /\ admitted = {})
  BY <1>0 DEF LinkStep, BackoffElapses, HealthCheck, HealthAnswered, ConnectRedis,
     recoveryVars, BeforeRedis
<1>4. CASE stage' = stage
  BY <1>1, <1>2, <1>4, StaysOut DEF redisVars
<1>5. CASE tracked = {} /\ admitted = {}
  BY <1>1, <1>5 DEF Untracked, Unadmitted, redisVars
<1>6. QED
  BY <1>3, <1>4, <1>5

(* The recovery enters those it looks at again afterwards, unless it is      *)
(* abandoned: of an admission it makes sure before it ends.                 *)
LEMMA GhostRecoveryStep ==
  ASSUME GhostInv, RecoveryStep PROVE Untracked' /\ Unadmitted'
<1>0. /\ TypeOK
      /\ \A c \in Conns : Present(c) => pc[Handler(c)] \notin LeavingPC \cup {"new"}
  BY DEF GhostInv, IInv, RegistryHoldsLiving, PlaceGivenBack
<1>1. ASSUME NEW t \in Tasks, RecoveryTimesOut(t) PROVE Untracked' /\ Unadmitted'
  <2>1. /\ UNCHANGED redisVars /\ stage' = "aborted" /\ Goto(t, AfterCall(t))
        /\ recoverer = t /\ Admitting = {} /\ Admitting' = {}
    BY <1>1 DEF RecoveryTimesOut, StopRecovery, Recovering, Admitting
  <2>2. \A c \in Conns : pc'[Handler(c)] = IF t = Handler(c) THEN AfterCall(t) ELSE pc[Handler(c)]
    BY <1>0, <2>1, OneTaskMoves
  <2>3. CallsBackplane(t)
    BY <2>1, TaskNames DEF GhostInv, IInv, RecoveryWithinCall
  <2>4. ASSUME NEW c \in Conns, t = Handler(c)
        PROVE  \/ AfterCall(t) \in {"announcing", "open"}
               \/ AfterCall(t) = "unsubscribing" /\ pc[t] = "unannouncing"
    <3>1. pc[t] \in {"gated", "announcing", "open", "unannouncing"} /\ t[2] = "handler"
      BY <1>0, <2>3, <2>4, TaskNames DEF CallsBackplane, TypeOK, HandlerPC, LeavingPC
    <3>2. QED
      BY <3>1 DEF AfterCall
  <2>5. Unadmitted'
    BY <2>1, <2>2, <2>4 DEF GhostInv, Unadmitted, redisVars
  <2>6. QED
    BY <2>1, <2>5 DEF Untracked
<1>2. CASE ~ \E t \in Tasks : RecoveryTimesOut(t)
  <2>1. pc' = pc /\ stage # "aborted" /\ stage' # "aborted"
    BY <1>2 DEF RecoveryStep, RecoverRoom, RecoveryTakesGate, RoomRecovered,
       ReconcileRoom, StartAdmissions, AskPresence, AskAdmission, TrackPeer,
       AdmissionReconciled, RecheckPresence, RecheckAdmission, StartPresence, RecoveryDone
  <2>2. admitted' \ Admitting' \subseteq admitted \ Admitting \/ \E c \in added : RecheckAdmission(c)
    BY <1>2 DEF RecoveryStep, RecoverRoom, RecoveryTakesGate, RoomRecovered,
       ReconcileRoom, StartAdmissions, AskPresence, AskAdmission, Admitting,
       TrackPeer, AdmissionReconciled, RecheckPresence, StartPresence, RecoveryDone, redisVars
  <2>3. tracked' \ Tracking' \subseteq tracked \ Tracking \/ \E c \in added : RecheckPresence(c)
    BY <1>2 DEF RecoveryStep, RecoverRoom, RecoveryTakesGate, RoomRecovered,
       ReconcileRoom, StartAdmissions, AskPresence, AskAdmission, Tracking, TrackPeer,
       AdmissionReconciled, RecheckAdmission, StartPresence, RecoveryDone, redisVars
  <2>4. Unadmitted'
    <3>1. CASE admitted' \ Admitting' \subseteq admitted \ Admitting
      BY <2>1, <3>1 DEF GhostInv, Unadmitted
    <3>2. ASSUME NEW c \in added, RecheckAdmission(c) PROVE Unadmitted'
      <4>1. /\ c \in Conns /\ admitted' \subseteq admitted
            /\ Admitting = added /\ Admitting' = added \ {c}
            /\ (c \in admitted' => Present(c))
        BY <1>0, <3>2 DEF RecheckAdmission, TypeOK, redisVars, Admitting
      <4>2. QED
        BY <1>0, <2>1, <4>1 DEF GhostInv, Unadmitted, LeavingPC
    <3>3. QED
      BY <2>2, <3>1, <3>2
  <2>5. Untracked'
    <3>1. CASE tracked' \ Tracking' \subseteq tracked \ Tracking
      BY <2>1, <3>1 DEF GhostInv, Untracked
    <3>2. ASSUME NEW c \in added, RecheckPresence(c) PROVE Untracked'
      <4>1. /\ c \in Conns /\ tracked' \subseteq tracked
            /\ Tracking = added /\ Tracking' = added \ {c}
            /\ (c \in tracked' => Present(c))
        BY <1>0, <3>2 DEF RecheckPresence, TypeOK, Tracking
      <4>2. QED
        BY <1>0, <2>1, <4>1 DEF GhostInv, Untracked, LeavingPC
    <3>3. QED
      BY <2>3, <3>1, <3>2
  <2>6. QED
    BY <2>4, <2>5
<1>3. QED
  BY <1>1, <1>2

(* While nobody is refused by Redis or aborted within its joining, whoever   *)
(* is gone has left the admissions, however Redis fails and recovers, and    *)
(* the presence heartbeat too unless a recovery was abandoned, which may     *)
(* have entered it after its own handler's Unannounce.                      *)
THEOREM NobodyHaunts ==
  ASSUME ~RequestsMayAbort, ~OthersFillRooms PROVE Spec => []NoGhostMember
<1>1. Init => GhostInv
  <2> SUFFICES ASSUME Init PROVE GhostInv
    OBVIOUS
  <2>1. QED
    BY InitIInv, BeforeRedisInit DEF Init, GhostInv, Untracked, Unadmitted
<1>2. GhostInv /\ [Next]_vars => GhostInv'
  <2> SUFFICES ASSUME GhostInv, [Next]_vars PROVE GhostInv'
    OBVIOUS
  <2>1. IInv' /\ BeforeRedis'
    BY NextIInv, BeforeRedisStep DEF GhostInv
  <2>2. ASSUME NEW c \in Conns, Join(c) \/ HandlerStep(c) \/ Close(c) \/ RemovePeer(c)
        PROVE  Untracked' /\ Unadmitted'
    BY <2>2, GhostHandlerStep
  <2>3. ASSUME NEW t \in ConnTasks, LeaveStep(t) PROVE Untracked' /\ Unadmitted'
    <3>1. PICK c \in Conns : t = Handler(c) \/ t = Cleanup(c)
      BY TaskNames
    <3>2. QED
      BY <2>3, <3>1, GhostLeaveStep
  <2>4. ASSUME NEW c \in Conns, CleanupTimesOut(c) PROVE Untracked' /\ Unadmitted'
    BY <2>4, GhostLeaveStep, TaskNames
  <2>5. ASSUME NEW c \in Conns PROVE ~Abort(c)
    BY DEF Abort
  <2>6. ASSUME UNCHANGED vars PROVE Untracked' /\ Unadmitted'
    <3>1. UNCHANGED <<pc, tracked, admitted, added, stage>>
      BY <2>6 DEF vars, redisVars, recoveryVars
    <3>2. QED
      BY <3>1, StaysOut
  <2>7. Untracked' /\ Unadmitted'
    <3>1. CASE LinkStep \/ RecoveryStep
      BY <3>1, GhostLinkStep, GhostRecoveryStep
    <3>2. QED
      BY <2>2, <2>3, <2>4, <2>5, <2>6, <3>1 DEF Next, TaskStep, LinkStep
  <2>8. QED
    BY <2>1, <2>7 DEF GhostInv
<1>3. GhostInv => NoGhostMember
  BY DEF GhostInv, Untracked, Unadmitted, Tracking, Admitting, NoGhostMember, Gone
<1>4. QED
  BY <1>1, <1>2, <1>3, PTL DEF Spec

-----------------------------------------------------------------------------
(* A connection removed from outside has no place and gets none again.      *)
RemovedStaysOut ==
  \A c \in Conns : pc[Cleanup(c)] # "idle" => ~Present(c) /\ pc[Handler(c)] # "new"

(* What the recovery has still to do for a connection that keeps its place,  *)
(* from the moment its own handler passes the step that would do it.        *)
SubscribedOrDue ==
  \A c \in Conns : pc[Handler(c)] \in {"announcing", "open"} /\ Present(c) =>
     \/ stage \in {"none", "aborted"} \/ home[c] \in subscriptions
     \/ stage = "rooms" /\ home[c] \in rooms
     \/ stage \in {"queued", "subscribing"} /\ home[c] \in rooms \cup chosen

AdmittedOrDue ==
  \A c \in Conns :
     pc[Handler(c)] \in {"subscribing", "gated", "announcing", "open"} /\ Present(c) =>
       \/ stage \in {"none", "aborted", "rooms", "queued", "subscribing"}
       \/ c \in admitted
       \/ stage = "admissions" /\ c \in waiting \cup asked

TrackedOrDue ==
  \A c \in Conns : pc[Handler(c)] = "open" /\ Present(c) =>
     \/ stage \in {"none", "aborted", "rooms", "queued", "subscribing", "admissions"}
     \/ c \in tracked
     \/ stage = "presence" /\ (home[c] \in rooms \/ c \in waiting \cup asked)

DueInv == /\ IInv /\ BeforeRedis /\ RemovedStaysOut
          /\ SubscribedOrDue /\ AdmittedOrDue /\ TrackedOrDue

(* A recovery that is abandoned moves the task it ran within on.            *)
LEMMA TimedOut ==
  ASSUME IInv, NEW t \in Tasks, RecoveryTimesOut(t)
  PROVE  /\ UNCHANGED <<registryVars, redisVars, subscriptions, link>> /\ stage' = "aborted"
         /\ \A c \in Conns : /\ pc'[Handler(c)] = "new" => pc[Handler(c)] = "new"
                             /\ pc'[Cleanup(c)] # "idle" => pc[Cleanup(c)] # "idle"
<1>0. TypeOK
  BY DEF IInv
<1>1. /\ UNCHANGED <<registryVars, redisVars, subscriptions, link>> /\ stage' = "aborted"
      /\ Goto(t, AfterCall(t)) /\ CallsBackplane(t)
  BY TaskNames DEF RecoveryTimesOut, StopRecovery, Recovering, IInv, RecoveryWithinCall
<1>2. pc[t] # "idle" /\ AfterCall(t) # "new"
  BY <1>1 DEF CallsBackplane, AfterCall
<1>3. QED
  BY <1>0, <1>1, <1>2, OneTaskMoves

(* The steps of connections, and what the others leave alone.               *)
ConnStep(c) ==
  \/ Join(c) \/ HandlerStep(c) \/ Close(c) \/ Abort(c) \/ RemovePeer(c) \/ CleanupTimesOut(c)
  \/ LeaveStep(Handler(c)) \/ LeaveStep(Cleanup(c))

LEMMA StepsOfConns ==
  [Next]_vars => \/ \E c \in Conns : ConnStep(c)
                 \/ LinkStep \/ RecoveryStep \/ UNCHANGED vars
BY TaskNames DEF Next, TaskStep, ConnStep, LinkStep

(* Who has a place after a step of c had it before, but for its joining.     *)
LEMMA PlaceBefore ==
  ASSUME TypeOK, NEW c \in Conns, ConnStep(c)
  PROVE  /\ home' = home
         /\ \A d \in Conns : Present(d)' => Present(d) \/ (d = c /\ Join(c))
         /\ RemovePeer(c) => ~Present(c)'
         /\ LeaveRoom(c) => ~Present(c)'
<1>0. (RemovePeer(c) => ~Present(c)') /\ (LeaveRoom(c) => ~Present(c)')
  BY LeaveEffect DEF RemovePeer, LeaveRoom
<1>1. CASE Join(c)
  BY <1>0, <1>1 DEF Join, Present, TypeOK
<1>2. CASE ~Join(c)
  <2>1. (Leave(c) /\ home' = home) \/ UNCHANGED registryVars
    BY <1>2 DEF ConnStep, HandlerStep, CheckDistributed, AdmissionAnswered, SubscribeAnswered,
       Announce, LeaveRoom, AcquireGate, Close, Abort, RemovePeer, CleanupTimesOut, LeaveStep,
       ReleaseAdmission, Unannounce, ReleaseIfRoomEmpty, registryVars
  <2>2. QED
    BY <1>0, <2>1, LeaveEffect DEF registryVars, Present
<1>3. QED
  BY <1>1, <1>2

(* The control states after a step of c.                                    *)
LEMMA OthersStay ==
  ASSUME TypeOK, NEW c \in Conns, ConnStep(c)
  PROVE  \A d \in Conns : d # c => /\ pc'[Handler(d)] = pc[Handler(d)]
                                   /\ pc'[Cleanup(d)] = pc[Cleanup(d)]
<1>1. (\E to : Goto(Handler(c), to)) \/ (\E to : Goto(Cleanup(c), to))
  BY DEF ConnStep, Join, HandlerStep, CheckDistributed, AdmissionAnswered, SubscribeAnswered,
     Announce, LeaveRoom, AcquireGate, Close, Abort, RemovePeer, CleanupTimesOut, LeaveStep,
     ReleaseAdmission, Unannounce, ReleaseIfRoomEmpty
<1>2. Handler(c) \in Tasks /\ Cleanup(c) \in Tasks
  BY TaskNames
<1>3. QED
  BY <1>1, <1>2, OneTaskMoves, TaskNames

(* Whoever was removed from outside has no place, and gets none again.      *)
LEMMA RemovedStep ==
  ASSUME IInv, RemovedStaysOut, [Next]_vars PROVE RemovedStaysOut'
<1>0. TypeOK
  BY DEF IInv
<1>1. ASSUME NEW c \in Conns, ConnStep(c) PROVE RemovedStaysOut'
  <2>0. Handler(c) \in Tasks /\ Cleanup(c) \in Tasks /\ Handler(c) # Cleanup(c)
    BY TaskNames
  <2>1. CASE RemovePeer(c)
    <3>1. Goto(Cleanup(c), "releasing") /\ Present(c) /\ pc[Handler(c)] # "new"
      BY <2>1 DEF RemovePeer, IInv, RegistryHoldsLiving
    <3>2. pc'[Handler(c)] = pc[Handler(c)] /\ ~Present(c)'
      BY <1>0, <1>1, <2>0, <2>1, <3>1, OneTaskMoves, PlaceBefore
    <3>3. \A d \in Conns : d # c => (Present(d)' => Present(d))
      BY <1>0, <1>1, PlaceBefore
    <3>4. QED
      BY <1>0, <1>1, <3>1, <3>2, <3>3, OthersStay DEF RemovedStaysOut
  <2>2. CASE Join(c)
    <3>1. (\E to \in {"joining", "gone"} : Goto(Handler(c), to)) /\ pc[Handler(c)] = "new"
      BY <2>2 DEF Join
    <3>2. pc'[Cleanup(c)] = "idle"
      BY <1>0, <2>0, <3>1, OneTaskMoves DEF RemovedStaysOut
    <3>3. \A d \in Conns : d # c => (Present(d)' => Present(d))
      BY <1>0, <1>1, PlaceBefore
    <3>4. QED
      BY <1>0, <1>1, <3>2, <3>3, OthersStay DEF RemovedStaysOut
  <2>3. CASE ~RemovePeer(c) /\ ~Join(c)
    <3>1. \E t \in {Handler(c), Cleanup(c)} : \E to :
            Goto(t, to) /\ to # "new" /\ (t = Cleanup(c) => pc[t] # "idle")
      BY <1>1, <2>0, <2>3 DEF ConnStep, HandlerStep, CheckDistributed, AdmissionAnswered,
         SubscribeAnswered, Announce, LeaveRoom, AcquireGate, Close, Abort, CleanupTimesOut,
         LeaveStep, ReleaseAdmission, Unannounce, ReleaseIfRoomEmpty
    <3>2. /\ pc'[Handler(c)] = "new" => pc[Handler(c)] = "new"
          /\ pc'[Cleanup(c)] # "idle" => pc[Cleanup(c)] # "idle"
      BY <1>0, <2>0, <3>1, OneTaskMoves
    <3>3. \A d \in Conns : Present(d)' => Present(d)
      BY <1>0, <1>1, <2>3, PlaceBefore
    <3>4. QED
      BY <1>0, <1>1, <3>2, <3>3, OthersStay DEF RemovedStaysOut
  <2>4. QED
    BY <2>1, <2>2, <2>3
<1>2. ASSUME UNCHANGED registryVars,
             \A c \in Conns : /\ pc'[Handler(c)] = "new" => pc[Handler(c)] = "new"
                              /\ pc'[Cleanup(c)] # "idle" => pc[Cleanup(c)] # "idle"
      PROVE  RemovedStaysOut'
  BY <1>2 DEF RemovedStaysOut, Present, registryVars
<1>3. CASE LinkStep
  <2>1. UNCHANGED registryVars /\ (pc' = pc \/ \E to : Goto(Health, to))
    BY <1>3 DEF LinkStep, BackoffElapses, HealthCheck, HealthAnswered, ConnectRedis
  <2>2. QED
    BY <1>0, <1>2, <2>1, OneTaskMoves, TaskNames
<1>4. CASE RecoveryStep
  <2>1. UNCHANGED <<registryVars, pc>> \/ \E t \in Tasks : RecoveryTimesOut(t)
    BY <1>4 DEF RecoveryStep, RecoverRoom, RecoveryTakesGate, RoomRecovered,
       ReconcileRoom, StartAdmissions, AskPresence, AskAdmission,
       TrackPeer, AdmissionReconciled, RecheckPresence, RecheckAdmission, StartPresence, RecoveryDone
  <2>2. CASE UNCHANGED <<registryVars, pc>>
    BY <1>2, <2>2
  <2>3. QED
    BY <1>2, <2>1, <2>2, TimedOut
<1>5. CASE UNCHANGED vars
  BY <1>2, <1>5 DEF vars
<1>6. QED
  BY <1>1, <1>3, <1>4, <1>5, StepsOfConns

(* What is due to the connections together.  Nothing is before a recovery    *)
(* has begun, or once it has been abandoned.                                *)
Due == SubscribedOrDue /\ AdmittedOrDue /\ TrackedOrDue

LEMMA NothingDue == stage \in {"none", "aborted"} => Due
BY DEF Due, SubscribedOrDue, AdmittedOrDue, TrackedOrDue

(* A step that leaves the recovery alone keeps it, when it takes nothing     *)
(* from a connection that keeps its place, and takes none past a step it has *)
(* not done.                                                                *)
LEMMA DueKept ==
  ASSUME Due, UNCHANGED recoveryVars, home' = home, NEW c \in Conns,
         \A d \in Conns : Present(d)' =>
           /\ home[d] \in subscriptions => home[d] \in subscriptions'
           /\ d \in admitted => d \in admitted'
           /\ d \in tracked => d \in tracked'
           /\ d # c => Present(d) /\ pc'[Handler(d)] = pc[Handler(d)],
         Present(c)' =>
           /\ pc'[Handler(c)] \in {"announcing", "open"} =>
                (Present(c) /\ pc[Handler(c)] \in {"announcing", "open"})
                \/ home[c] \in subscriptions'
           /\ pc'[Handler(c)] \in {"subscribing", "gated", "announcing", "open"} =>
                (Present(c) /\ pc[Handler(c)] \in {"subscribing", "gated", "announcing", "open"})
                \/ c \in admitted'
           /\ pc'[Handler(c)] = "open" =>
                (Present(c) /\ pc[Handler(c)] = "open") \/ c \in tracked'
  PROVE  Due'
<1>1. UNCHANGED <<stage, chosen, rooms, waiting, asked, added>>
  BY DEF recoveryVars
<1>2. SubscribedOrDue'
  BY <1>1 DEF Due, SubscribedOrDue
<1>3. AdmittedOrDue'
  BY <1>1 DEF Due, AdmittedOrDue
<1>4. TrackedOrDue'
  BY <1>1 DEF Due, TrackedOrDue
<1>5. QED
  BY <1>2, <1>3, <1>4 DEF Due

(* The connections.                                                         *)
LEMMA DueConnStep ==
  ASSUME ~RedisMayFail, ~OthersFillRooms, DueInv, NEW c \in Conns, ConnStep(c)
  PROVE  Due'
<1>0. /\ TypeOK /\ Due /\ IInv /\ BeforeRedis /\ RemovedStaysOut
      /\ Handler(c) \in Tasks /\ Cleanup(c) \in Tasks /\ Handler(c) # Cleanup(c)
      /\ Handler(c)[1] = c /\ Cleanup(c)[1] = c
      /\ Handler(c) \in ConnTasks /\ Cleanup(c) \in ConnTasks
  BY TaskNames DEF DueInv, Due, IInv
<1>1. CASE UNCHANGED recoveryVars
  <2>0. SUFFICES ASSUME stage \notin {"none", "aborted"} PROVE Due'
    BY <1>1, NothingDue DEF recoveryVars, Due, SubscribedOrDue, AdmittedOrDue, TrackedOrDue
  <2>1. link = "up"
    BY <1>0, <2>0 DEF BeforeRedis
  <2>2. /\ home' = home
        /\ \A d \in Conns : d # c /\ Present(d)' => Present(d) /\ pc'[Handler(d)] = pc[Handler(d)]
    BY <1>0, PlaceBefore, OthersStay
  <2>3. Present(c)' => pc[Cleanup(c)] = "idle" \/ Join(c)
    BY <1>0, PlaceBefore DEF RemovedStaysOut
  <2>4. ASSUME NEW d \in Conns, Present(d)', ~Join(c)
        PROVE  /\ home[d] \in subscriptions => home[d] \in subscriptions'
               /\ d \in admitted => d \in admitted'
               /\ d \in tracked => d \in tracked'
    <3>1. Present(d) /\ pc[Handler(d)] \notin LeavingPC /\ pc[Cleanup(d)] = "idle"
      BY <1>0, <2>4, PlaceBefore DEF IInv, PlaceGivenBack, RemovedStaysOut
    <3>2. home[d] \in subscriptions => home[d] \in subscriptions'
      BY <1>0, <2>4, <3>1 DEF ConnStep, HandlerStep, CheckDistributed, AdmissionAnswered,
         SubscribeAnswered, Announce, LeaveRoom, AcquireGate, Close, Abort, RemovePeer,
         CleanupTimesOut, LeaveStep, ReleaseAdmission, Unannounce, ReleaseIfRoomEmpty,
         bridgeVars, RoomEmpty, Present
    <3>3. d \in admitted => d \in admitted'
      <4>1. CASE ReleaseAdmission(Handler(c)) \/ ReleaseAdmission(Cleanup(c))
        BY <1>0, <3>1, <4>1 DEF ReleaseAdmission, LeavingPC
      <4>2. CASE ~(ReleaseAdmission(Handler(c)) \/ ReleaseAdmission(Cleanup(c)))
        BY <2>4, <4>2 DEF ConnStep, HandlerStep, CheckDistributed, AdmissionAnswered,
           SubscribeAnswered, Announce, LeaveRoom, AcquireGate, Close, Abort, RemovePeer,
           CleanupTimesOut, LeaveStep, Unannounce, ReleaseIfRoomEmpty, redisVars
      <4>3. QED
        BY <4>1, <4>2
    <3>4. d \in tracked => d \in tracked'
      <4>1. ASSUME NEW t \in {Handler(c), Cleanup(c)}, ReleaseAdmission(t) \/ Unannounce(t)
            PROVE  d \in tracked => d \in tracked'
        <5>1. t[1] = c /\ pc[t] \in LeavingPC /\ tracked \ {t[1]} \subseteq tracked'
          BY <1>0, <4>1 DEF ReleaseAdmission, Unannounce, LeavingPC
        <5>2. c # d
          BY <3>1, <5>1 DEF LeavingPC
        <5>3. QED
          BY <5>1, <5>2
      <4>2. CASE \A t \in {Handler(c), Cleanup(c)} : ~ReleaseAdmission(t) /\ ~Unannounce(t)
        BY <2>4, <4>2 DEF ConnStep, HandlerStep, CheckDistributed, AdmissionAnswered,
           SubscribeAnswered, Announce, LeaveRoom, AcquireGate, Close, Abort, RemovePeer,
           CleanupTimesOut, LeaveStep, ReleaseIfRoomEmpty, redisVars
      <4>3. QED
        BY <4>1, <4>2
    <3>5. QED
      BY <3>2, <3>3, <3>4
  <2>5. CASE Join(c)
    <3>1. UNCHANGED <<subscriptions, admitted, tracked>> /\ pc'[Handler(c)] \in {"joining", "gone"}
      <4>1. \E to \in {"joining", "gone"} : Goto(Handler(c), to)
        BY <2>5 DEF Join
      <4>2. QED
        BY <1>0, <2>5, <4>1, OneTaskMoves DEF Join, redisVars, bridgeVars
    <3>2. QED
      BY <1>0, <1>1, <2>2, <3>1, DueKept
  <2>6. CASE ~Join(c)
    <3>1. ASSUME Present(c)'
          PROVE  /\ pc'[Handler(c)] \in {"announcing", "open"} =>
                      pc[Handler(c)] \in {"announcing", "open"} \/ home[c] \in subscriptions'
                 /\ pc'[Handler(c)] \in {"subscribing", "gated", "announcing", "open"} =>
                      pc[Handler(c)] \in {"subscribing", "gated", "announcing", "open"}
                      \/ c \in admitted'
                 /\ pc'[Handler(c)] = "open" => pc[Handler(c)] = "open" \/ c \in tracked'
      <4>1. CASE RemovePeer(c) \/ CleanupTimesOut(c) \/ LeaveStep(Cleanup(c))
        <5>1. \E to : Goto(Cleanup(c), to)
          BY <4>1 DEF RemovePeer, CleanupTimesOut, LeaveStep, ReleaseAdmission, Unannounce,
             ReleaseIfRoomEmpty
        <5>2. pc'[Handler(c)] = pc[Handler(c)]
          BY <1>0, <5>1, OneTaskMoves
        <5>3. QED
          BY <5>2
      <4>2. CASE LeaveRoom(c) \/ Close(c) \/ LeaveStep(Handler(c)) \/ Abort(c)
        <5>1. \E to \in {"leaving", "releasing", "unannouncing", "unsubscribing", "gone"} :
                Goto(Handler(c), to)
          BY <4>2 DEF LeaveRoom, Close, LeaveStep, ReleaseAdmission, Unannounce,
             ReleaseIfRoomEmpty, Abort
        <5>2. QED
          BY <1>0, <5>1, OneTaskMoves
      <4>3. CASE CheckDistributed(c)
        <5>1. Goto(Handler(c), "admitting")
          BY <2>1, <4>3 DEF CheckDistributed
        <5>2. QED
          BY <1>0, <5>1, OneTaskMoves
      <4>4. CASE AdmissionAnswered(c)
        <5>1. Goto(Handler(c), "subscribing") /\ c \in admitted'
          BY <4>4 DEF AdmissionAnswered
        <5>2. QED
          BY <1>0, <5>1, OneTaskMoves
      <4>5. CASE SubscribeAnswered(c) \/ AcquireGate(c)
        <5>1. \E to \in {"gated", "announcing"} :
                /\ Goto(Handler(c), to) /\ pc[Handler(c)] \in {"subscribing", "gated"}
                /\ to = "announcing" => home[c] \in subscriptions'
          BY <2>1, <4>5 DEF SubscribeAnswered, AcquireGate
        <5>2. QED
          BY <1>0, <5>1, OneTaskMoves
      <4>6. CASE Announce(c)
        <5>1. Goto(Handler(c), "open") /\ pc[Handler(c)] = "announcing" /\ c \in tracked'
          BY <2>1, <4>6 DEF Announce
        <5>2. QED
          BY <1>0, <5>1, OneTaskMoves
      <4>7. QED
        BY <2>6, <4>1, <4>2, <4>3, <4>4, <4>5, <4>6 DEF ConnStep, HandlerStep
    <3>2. Present(c)' => Present(c)
      BY <1>0, <2>6, PlaceBefore
    <3>3. QED
      BY <1>0, <1>1, <2>2, <2>4, <2>6, <3>1, <3>2, DueKept
  <2>7. QED
    BY <2>5, <2>6
<1>2. CASE ~UNCHANGED recoveryVars
  <2>1. stage' = "aborted"
    BY <1>2 DEF ConnStep, Join, HandlerStep, CheckDistributed, AdmissionAnswered,
         SubscribeAnswered, Announce, LeaveRoom, AcquireGate, Close, Abort, RemovePeer,
         CleanupTimesOut, LeaveStep, ReleaseAdmission, Unannounce, ReleaseIfRoomEmpty,
         StopRecovery
  <2>2. QED
    BY <2>1 DEF Due, SubscribedOrDue, AdmittedOrDue, TrackedOrDue
<1>3. QED
  BY <1>1, <1>2

(* The recovery: who keeps its place is passed from one set of the current   *)
(* stage to the next until it has been done.                                *)
LEMMA DueRecoveryStep ==
  ASSUME ~RedisMayFail, ~OthersFillRooms, DueInv, RecoveryStep PROVE Due'
<1>0. /\ TypeOK /\ Due /\ IInv /\ \A c \in Conns : Present(c) => c \in Registered /\ c \in peers[home[c]]
  BY DEF DueInv, Due, IInv, TypeOK, Present, Registered
<1> USE DEF Due, SubscribedOrDue, AdmittedOrDue, TrackedOrDue
<1>1. ASSUME NEW t \in Tasks, RecoveryTimesOut(t) PROVE Due'
  BY <1>0, <1>1, TimedOut
<1>2. ASSUME NEW r \in rooms, RecoverRoom(r) PROVE Due'
  <2>1. /\ UNCHANGED <<peers, home, admitted, tracked, subscriptions, pc>> /\ stage = "rooms"
        /\ rooms' = rooms \ {r}
        /\ \/ stage' = "queued" /\ chosen' = {r}
           \/ stage' = "rooms" /\ peers[r] = {}
    BY <1>2 DEF RecoverRoom, registryVars, redisVars, bridgeVars
  <2>2. \A c \in Conns : Present(c) => peers[home[c]] # {}
    BY DEF Present
  <2>3. QED
    BY <1>0, <2>1, <2>2 DEF Present
<1>3. CASE RecoveryTakesGate
  <2>1. /\ UNCHANGED <<peers, home, admitted, tracked, subscriptions, pc, rooms>>
        /\ stage = "queued"
        /\ \/ stage' = "subscribing" /\ chosen' = chosen
           \/ stage' = "rooms" /\ chosen \subseteq subscriptions
    BY <1>3 DEF RecoveryTakesGate, registryVars, redisVars
  <2>2. QED
    BY <1>0, <2>1 DEF Present
<1>4. CASE RoomRecovered
  <2>1. /\ UNCHANGED <<peers, home, admitted, tracked, pc, rooms>>
        /\ stage = "subscribing" /\ stage' = "rooms"
        /\ subscriptions' = subscriptions \cup chosen
    BY <1>4 DEF RoomRecovered, registryVars, redisVars
  <2>2. QED
    BY <1>0, <2>1 DEF Present
<1>5. CASE StartAdmissions
  <2>1. /\ UNCHANGED <<peers, home, admitted, tracked, subscriptions, pc>> /\ stage = "rooms"
        /\ rooms = {} /\ stage' = "admissions" /\ waiting' = Registered \ admitted
    BY <1>5 DEF StartAdmissions, registryVars, redisVars, bridgeVars
  <2>2. QED
    BY <1>0, <2>1 DEF Present
<1>6. ASSUME NEW c \in waiting, AskAdmission(c) PROVE Due'
  BY <1>0, <1>6 DEF AskAdmission, registryVars, redisVars, bridgeVars, Present
<1>7. ASSUME NEW c \in asked, AdmissionReconciled(c) PROVE Due'
  BY <1>0, <1>7 DEF AdmissionReconciled, registryVars, bridgeVars, Present
<1>8. ASSUME NEW c \in added, RecheckAdmission(c) PROVE Due'
  BY <1>0, <1>8 DEF RecheckAdmission, registryVars, redisVars, bridgeVars, Present
<1>9. CASE StartPresence
  <2>1. /\ UNCHANGED <<peers, home, admitted, tracked, subscriptions, pc, waiting, asked>>
        /\ stage = "admissions" /\ waiting = {} /\ asked = {}
        /\ stage' = "presence" /\ rooms' = ActiveRooms
    BY <1>9 DEF StartPresence, registryVars, redisVars, bridgeVars
  <2>2. \A c \in Conns : Present(c) => home[c] \in rooms'
    BY <1>0, <2>1 DEF Present, ActiveRooms, TypeOK
  <2>3. QED
    BY <1>0, <2>1, <2>2 DEF Present
<1>10. ASSUME NEW r \in rooms, ReconcileRoom(r) PROVE Due'
  BY <1>0, <1>10 DEF ReconcileRoom, registryVars, redisVars, bridgeVars, Present
<1>11. ASSUME NEW c \in waiting, AskPresence(c) PROVE Due'
  BY <1>0, <1>11 DEF AskPresence, registryVars, redisVars, bridgeVars, Present
<1>12. ASSUME NEW c \in asked, TrackPeer(c) PROVE Due'
  BY <1>0, <1>12 DEF TrackPeer, registryVars, bridgeVars, Present
<1>13. ASSUME NEW c \in added, RecheckPresence(c) PROVE Due'
  BY <1>0, <1>13 DEF RecheckPresence, registryVars, bridgeVars, Present
<1>14. CASE RecoveryDone
  BY <1>0, <1>14 DEF RecoveryDone, registryVars, redisVars, bridgeVars, Present
<1>15. QED
  BY <1>1, <1>2, <1>3, <1>4, <1>5, <1>6, <1>7, <1>8, <1>9, <1>10, <1>11, <1>12,
     <1>13, <1>14 DEF RecoveryStep

(* Reconnecting begins a recovery for every room that is active by then.    *)
LEMMA DueLinkStep ==
  ASSUME DueInv, LinkStep PROVE Due'
<1>0. TypeOK /\ Due /\ Health \in Tasks
  BY TaskNames DEF DueInv, Due, IInv
<1>1. UNCHANGED <<peers, home, admitted, tracked, subscriptions>>
  BY DEF LinkStep, BackoffElapses, HealthCheck, HealthAnswered, ConnectRedis,
     registryVars, redisVars, bridgeVars
<1>2. \A c \in Conns : pc'[Handler(c)] = pc[Handler(c)]
  <2>1. pc' = pc \/ \E to : Goto(Health, to)
    BY DEF LinkStep, BackoffElapses, HealthCheck, HealthAnswered, ConnectRedis
  <2>2. QED
    BY <1>0, <2>1, OneTaskMoves, TaskNames
<1>3. CASE UNCHANGED recoveryVars
  BY <1>0, <1>1, <1>2, <1>3
     DEF recoveryVars, Due, SubscribedOrDue, AdmittedOrDue, TrackedOrDue, Present
<1>4. CASE ~UNCHANGED recoveryVars
  <2>1. stage' = "rooms" /\ rooms' = ActiveRooms
    BY <1>4 DEF LinkStep, BackoffElapses, HealthCheck, HealthAnswered, ConnectRedis
  <2>2. \A c \in Conns : Present(c) => home[c] \in rooms'
    BY <1>0, <2>1 DEF Present, ActiveRooms, TypeOK
  <2>3. QED
    BY <1>1, <2>1, <2>2 DEF Due, SubscribedOrDue, AdmittedOrDue, TrackedOrDue, Present
<1>5. QED
  BY <1>3, <1>4

(* While Redis answers and refuses nobody, a recovery that ran to its end    *)
(* has caught up for every served connection, whoever joins, leaves, aborts  *)
(* or is removed while it runs.                                             *)
THEOREM CaughtUp ==
  ASSUME ~RedisMayFail, ~OthersFillRooms PROVE Spec => []RecoveryCatchesUp
<1>1. Init => DueInv
  <2> SUFFICES ASSUME Init PROVE DueInv
    OBVIOUS
  <2>1. Due /\ RemovedStaysOut
    <3>1. stage = "none" /\ \A c \in Conns : pc[Cleanup(c)] = "idle"
      BY TaskNames DEF Init
    <3>2. QED
      BY <3>1, NothingDue DEF RemovedStaysOut
  <2>2. QED
    BY <2>1, InitIInv, BeforeRedisInit DEF DueInv, Due
<1>2. DueInv /\ [Next]_vars => DueInv'
  <2> SUFFICES ASSUME DueInv, [Next]_vars PROVE DueInv'
    OBVIOUS
  <2>1. IInv' /\ BeforeRedis' /\ RemovedStaysOut'
    BY NextIInv, BeforeRedisStep, RemovedStep DEF DueInv
  <2>2. ASSUME UNCHANGED vars PROVE Due'
    <3>1. UNCHANGED <<peers, home, admitted, tracked, subscriptions, pc, stage,
                      chosen, rooms, waiting, asked>>
      BY <2>2 DEF vars, registryVars, redisVars, bridgeVars, recoveryVars
    <3>2. QED
      BY <3>1 DEF DueInv, Due, SubscribedOrDue, AdmittedOrDue, TrackedOrDue, Present
  <2>3. Due'
    BY <2>2, StepsOfConns, DueConnStep, DueLinkStep, DueRecoveryStep
  <2>4. QED
    BY <2>1, <2>3 DEF DueInv, Due
<1>3. DueInv => RecoveryCatchesUp
  BY DEF DueInv, SubscribedOrDue, AdmittedOrDue, TrackedOrDue, RecoveryCatchesUp, Served
<1>4. QED
  BY <1>1, <1>2, <1>3, PTL DEF Spec

=============================================================================
