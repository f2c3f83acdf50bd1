----------------------------- MODULE RelayRooms -----------------------------
(***************************************************************************)
(* One relay process of Notes.Sync: how a connection joins a room and       *)
(* leaves it again, and what the process keeps for the rooms meanwhile.     *)
(*                                                                         *)
(* A connection is entered in the registry of this process, admitted by     *)
(* Redis on behalf of all the relays, subscribed to its room's channel and  *)
(* tracked as present; leaving undoes the four.  Each is a call of its own  *)
(* with awaits between, on threads of their own, while a failed send may    *)
(* remove the same connection from outside.  When Redis was not reachable   *)
(* at the start, the first call that reaches it again runs the recovery,    *)
(* which has to catch up for all the connections that joined before.        *)
(***************************************************************************)
EXTENDS Integers, FiniteSets

CONSTANTS
  Conns,            \* connections; each joins at most once (bound)
  Rooms,            \* room codes
  Health,           \* the task that answers /health
  Nobody,           \* no task
  MaxRooms,
  MaxPeersPerRoom,
  StartLinks,       \* whether Redis is reached at the start: "up", "backoff"
  RedisMayFail,     \* a call of Redis may fail or exceed sendTimeout
  OthersFillRooms,  \* other relays may have taken the last place of a room
  RequestsMayAbort, \* a client may vanish while its join is under way
  Unreachable       \* peers a broadcast may fail to reach, which it then removes

Handler(c) == <<c, "handler">>     \* HandleSyncRequestAsync
Cleanup(c) == <<c, "cleanup">>     \* CleanupRemovedPeerAsync
Tasks == (Conns \X {"handler", "cleanup"}) \cup {Health}
ConnTasks == Conns \X {"handler", "cleanup"}

ASSUME RelayAssumption ==
  /\ IsFiniteSet(Conns) /\ IsFiniteSet(Rooms) /\ Rooms # {}
  /\ Health \notin ConnTasks /\ Nobody \notin Tasks
  /\ Conns \cap Rooms = {}
  /\ MaxRooms \in Nat \ {0} /\ MaxPeersPerRoom \in Nat \ {0}
  /\ StartLinks \subseteq {"backoff", "up"} /\ RedisMayFail \in BOOLEAN
  /\ OthersFillRooms \in BOOLEAN /\ RequestsMayAbort \in BOOLEAN
  /\ Unreachable \subseteq Conns

VARIABLES
  peers,           \* SyncRoomRegistry.rooms: the connections of each room
  home,            \* the room each connection asks for
  admitted,        \* distributedAdmissions
  tracked,         \* presenceMembers, which the heartbeat keeps alive in Redis
  subscriptions,   \* the rooms of SyncBackplaneBridge.subscriptions
  gate,            \* the task that holds subscriptionGate
  link,            \* RecoveringSyncBackplane: "backoff", "ready" or "up"
  pc,              \* the control state of each task
  recoverer,       \* the task within whose backplane call the recovery runs
  stage,           \* how far the recovery has come
  chosen,          \* the room (a set of at most one) it is subscribing
  rooms, waiting, asked, added   \* what its current stage has still to do

registryVars == <<peers, home>>
redisVars    == <<admitted, tracked>>
bridgeVars   == <<subscriptions, gate>>
recoveryVars == <<recoverer, stage, chosen, rooms, waiting, asked, added>>
vars == <<registryVars, redisVars, bridgeVars, link, pc, recoveryVars>>

-----------------------------------------------------------------------------
HandlerPC == {"new", "joining", "admitting", "subscribing", "gated",
              "announcing", "open", "leaving"}
LeavingPC == {"releasing", "unannouncing", "unsubscribing", "gone"}
Stages    == {"none", "rooms", "queued", "subscribing", "admissions", "presence",
              "done", "aborted"}

Present(c)  == c \in peers[home[c]]          \* rooms.Contains
ActiveRooms == {r \in Rooms : peers[r] # {}} \* rooms.GetRooms
Registered  == UNION {peers[r] : r \in Rooms}
Recovering(t) == recoverer = t

Goto(t, to) == pc' = [pc EXCEPT ![t] = to]
Leave(c)    == peers' = [peers EXCEPT ![home[c]] = @ \ {c}]

Init ==
  /\ peers = [r \in Rooms |-> {}]
  /\ home \in [Conns -> Rooms]
  /\ admitted = {} /\ tracked = {} /\ subscriptions = {} /\ gate = Nobody
  /\ link \in StartLinks
  /\ pc = [t \in Tasks |->
             IF t = Health THEN "idle"
             ELSE IF t[2] = "handler" THEN "new" ELSE "idle"]
  /\ recoverer = Nobody /\ stage = "none"
  /\ chosen = {} /\ rooms = {} /\ waiting = {} /\ asked = {} /\ added = {}

-----------------------------------------------------------------------------
(* Joining.                                                                *)

(* SyncRoomRegistry.TryJoin, under its lock: the limits of this process.    *)
HasPlace(r) ==
  /\ peers[r] # {} \/ Cardinality(ActiveRooms) < MaxRooms
  /\ Cardinality(peers[r]) < MaxPeersPerRoom

Join(c) ==
  /\ pc[Handler(c)] = "new"
  /\ IF HasPlace(home[c])
     THEN /\ peers' = [peers EXCEPT ![home[c]] = @ \cup {c}]
          /\ Goto(Handler(c), "joining")
     ELSE /\ Goto(Handler(c), "gone")
          /\ UNCHANGED peers
  /\ UNCHANGED <<home, redisVars, bridgeVars, link, recoveryVars>>

(* IsDistributed: without a connection to Redis the local join suffices.    *)
CheckDistributed(c) ==
  /\ pc[Handler(c)] = "joining"
  /\ Goto(Handler(c), IF link = "up" THEN "admitting" ELSE "subscribing")
  /\ UNCHANGED <<registryVars, redisVars, bridgeVars, link, recoveryVars>>

(* The answer of Redis; after a failure the local join counts.              *)
AdmissionAnswered(c) ==
  /\ pc[Handler(c)] = "admitting"
  /\ \/ /\ admitted' = admitted \cup {c}
        /\ Goto(Handler(c), "subscribing")
        /\ UNCHANGED peers
     \/ /\ OthersFillRooms
        /\ Leave(c)
        /\ Goto(Handler(c), "gone")
        /\ UNCHANGED admitted
     \/ /\ RedisMayFail
        /\ Goto(Handler(c), "subscribing")
        /\ UNCHANGED <<peers, admitted>>
  /\ UNCHANGED <<home, tracked, bridgeVars, link, recoveryVars>>

(* EnsureSubscribedAsync: waiting for the gate, and the look behind it.     *)
AcquireGate(c) ==
  /\ pc[Handler(c)] = "subscribing" /\ gate = Nobody
  /\ IF home[c] \in subscriptions
     THEN /\ Goto(Handler(c), "announcing")
          /\ UNCHANGED gate
     ELSE /\ Goto(Handler(c), "gated")
          /\ gate' = Handler(c)
  /\ UNCHANGED <<registryVars, redisVars, subscriptions, link, recoveryVars>>

(* The answer of SubscribeAsync, which fails at once during the back-off.   *)
SubscribeKeepingGate(c) ==          \* mutant: an early return keeps the gate
  /\ pc[Handler(c)] = "gated" /\ link = "up" /\ ~Recovering(Handler(c))
  /\ subscriptions' = subscriptions \cup {home[c]}
  /\ Goto(Handler(c), "announcing")
  /\ UNCHANGED <<gate, registryVars, redisVars, link, recoveryVars>>

SubscribeAnswered(c) ==
  /\ pc[Handler(c)] = "gated" /\ ~Recovering(Handler(c))
  /\ \/ /\ link = "up"
        /\ subscriptions' = subscriptions \cup {home[c]}
     \/ /\ link = "backoff" \/ RedisMayFail
        /\ UNCHANGED subscriptions
  /\ gate' = Nobody
  /\ Goto(Handler(c), "announcing")
  /\ UNCHANGED <<registryVars, redisVars, link, recoveryVars>>

(* Presence PeerJoinedAsync: the heartbeat's entry is made before Redis is   *)
(* called, so that a failure of Redis does not undo it.                     *)
Announce(c) ==
  /\ pc[Handler(c)] = "announcing" /\ ~Recovering(Handler(c))
  /\ \/ /\ link = "up"
        /\ tracked' = tracked \cup {c}
     \/ /\ link = "backoff"
        /\ UNCHANGED tracked
  /\ Goto(Handler(c), "open")
  /\ UNCHANGED <<registryVars, admitted, bridgeVars, link, recoveryVars>>

-----------------------------------------------------------------------------
(* Leaving.                                                                *)

(* The receive loop ends: closed, timed out, refused or removed.            *)
Close(c) ==
  /\ pc[Handler(c)] = "open" /\ ~Recovering(Handler(c))
  /\ Goto(Handler(c), "leaving")
  /\ UNCHANGED <<registryVars, redisVars, bridgeVars, link, recoveryVars>>

(* An abandoned recovery ends at its awaits: the second look at an          *)
(* admission, for which nothing is awaited, is finished first; the one at a *)
(* presence entry, which follows the answer of Redis, is not made any more. *)
StopRecovery(t) ==
  IF Recovering(t)
  THEN /\ stage = "presence" \/ added = {}
       /\ recoverer' = Nobody /\ stage' = "aborted" /\ chosen' = {}
       /\ rooms' = {} /\ waiting' = {} /\ asked' = {} /\ added' = {}
  ELSE UNCHANGED recoveryVars

(* RequestAborted cancels whatever the handler awaits.  Before the join is  *)
(* complete only the registry entry is taken back.                         *)
Abort(c) ==
  LET t == Handler(c) IN
  /\ RequestsMayAbort
  /\ \/ /\ pc[t] = "admitting"
        /\ Leave(c) /\ Goto(t, "gone")
     \/ /\ pc[t] \in {"subscribing", "gated", "announcing", "open"}
        /\ Goto(t, "leaving") /\ UNCHANGED peers
  /\ gate' = IF gate = t THEN Nobody ELSE gate
  /\ StopRecovery(t)
  /\ UNCHANGED <<home, redisVars, subscriptions, link>>

(* A broadcast fails to send to c: RemovePeerAsync takes it out of its room *)
(* and cleans up after it, its own handler notwithstanding.                 *)
RemovePeer(c) ==
  /\ c \in Unreachable /\ pc[Cleanup(c)] = "idle" /\ Present(c)
  /\ Leave(c)
  /\ Goto(Cleanup(c), "releasing")
  /\ UNCHANGED <<home, redisVars, bridgeVars, link, recoveryVars>>

(* PeerLeftAsync of the admissions: first the registry ...                  *)
LeaveForgotten(c) ==                \* mutant: the place is not given back
  /\ pc[Handler(c)] = "leaving"
  /\ Goto(Handler(c), "releasing")
  /\ UNCHANGED <<registryVars, redisVars, bridgeVars, link, recoveryVars>>

LeaveRoom(c) ==
  /\ pc[Handler(c)] = "leaving"
  /\ Leave(c)
  /\ Goto(Handler(c), "releasing")
  /\ UNCHANGED <<home, redisVars, bridgeVars, link, recoveryVars>>

(* ... then the admission, when there is one.  The backplane takes the call *)
(* for its presence tracker's PeerLeftAsync too: one method implements both. *)
ReleaseAdmission(t) ==
  /\ t \in ConnTasks /\ pc[t] = "releasing"
  /\ admitted' = admitted \ {t[1]}
  /\ tracked' = IF t[1] \in admitted THEN tracked \ {t[1]} ELSE tracked
  /\ Goto(t, "unannouncing")
  /\ UNCHANGED <<registryVars, bridgeVars, link, recoveryVars>>

(* Presence PeerLeftAsync.                                                 *)
Unannounce(t) ==
  /\ t \in ConnTasks /\ pc[t] = "unannouncing" /\ ~Recovering(t)
  /\ \/ /\ link = "up"
        /\ tracked' = tracked \ {t[1]}
     \/ /\ link = "backoff"
        /\ UNCHANGED tracked
  /\ Goto(t, "unsubscribing")
  /\ UNCHANGED <<registryVars, admitted, bridgeVars, link, recoveryVars>>

(* ReleaseIfRoomEmptyAsync: the registry is read under the gate.            *)
NobodyLooks(r) == TRUE              \* mutant: the room is not looked at again
RoomEmpty(r) == peers[r] = {}

ReleaseUnlessBusy(t) ==             \* mutant: a taken gate is not waited for
  /\ t \in ConnTasks /\ pc[t] = "unsubscribing"
  /\ subscriptions' = IF gate = Nobody /\ RoomEmpty(home[t[1]])
                      THEN subscriptions \ {home[t[1]]} ELSE subscriptions
  /\ Goto(t, "gone")
  /\ UNCHANGED <<registryVars, redisVars, gate, link, recoveryVars>>

ReleaseIfRoomEmpty(t) ==
  /\ t \in ConnTasks /\ pc[t] = "unsubscribing" /\ gate = Nobody
  /\ subscriptions' = IF RoomEmpty(home[t[1]])
                      THEN subscriptions \ {home[t[1]]} ELSE subscriptions
  /\ Goto(t, "gone")
  /\ UNCHANGED <<registryVars, redisVars, gate, link, recoveryVars>>

(* The cleanup of a removed peer has a time limit of its own, which ends it *)
(* at its first await: the admission is no longer held by then.             *)
CleanupTimesOut(c) ==
  /\ RedisMayFail
  /\ pc[Cleanup(c)] = "unannouncing"
  /\ ~Recovering(Cleanup(c))
  /\ Goto(Cleanup(c), "gone")
  /\ UNCHANGED <<registryVars, redisVars, bridgeVars, link, recoveryVars>>

-----------------------------------------------------------------------------
(* The recovery: RecoveringSyncBackplane and the handler of Program.cs.     *)

BackoffElapses ==
  /\ link = "backoff"
  /\ link' = "ready"
  /\ UNCHANGED <<registryVars, redisVars, bridgeVars, pc, recoveryVars>>

(* A request of /health; CheckHealthAsync reconnects like any other call.    *)
HealthCheck ==
  /\ pc[Health] = "idle" /\ link = "ready"
  /\ Goto(Health, "checking")
  /\ UNCHANGED <<registryVars, redisVars, bridgeVars, link, recoveryVars>>

HealthAnswered ==
  /\ pc[Health] = "checking" /\ link # "ready" /\ ~Recovering(Health)
  /\ Goto(Health, "idle")
  /\ UNCHANGED <<registryVars, redisVars, bridgeVars, link, recoveryVars>>

(* The first call of the backplane after the back-off (of an open handler:  *)
(* a publish) connects; when it succeeds it runs the recovered handler.     *)
CallsBackplane(t) ==
  pc[t] \in {"gated", "announcing", "open", "unannouncing", "checking"}

ConnectOnly(t) ==                   \* mutant: the recovered handler is not run
  /\ CallsBackplane(t) /\ link = "ready" /\ link' = "up"
  /\ recoverer' = Nobody /\ stage' = "done"
  /\ UNCHANGED <<chosen, rooms, waiting, asked, added>>
  /\ UNCHANGED <<registryVars, redisVars, bridgeVars, pc>>

ConnectRedis(t) ==
  /\ CallsBackplane(t) /\ link = "ready"
  /\ \/ /\ link' = "up"
        /\ recoverer' = t /\ stage' = "rooms" /\ rooms' = ActiveRooms
        /\ UNCHANGED <<chosen, waiting, asked, added>>
     \/ /\ RedisMayFail
        /\ link' = "backoff"
        /\ UNCHANGED recoveryVars
  /\ UNCHANGED <<registryVars, redisVars, bridgeVars, pc>>

(* EnsureActiveSubscriptionsAsync, one room after the other.  Whether the    *)
(* room has peers is asked before the gate is waited for, and not again.    *)
RecoverRoom(r) ==
  /\ stage = "rooms" /\ r \in rooms
  /\ rooms' = rooms \ {r}
  /\ IF peers[r] # {}
     THEN stage' = "queued" /\ chosen' = {r}
     ELSE UNCHANGED <<stage, chosen>>
  /\ UNCHANGED <<registryVars, redisVars, bridgeVars, link, pc,
                 recoverer, waiting, asked, added>>

(* The recovery's own EnsureSubscribedAsync: the gate, which may be taken by *)
(* the very caller of the recovery, and the look behind it ...              *)
RecoveryTakesGate ==
  /\ stage = "queued" /\ gate = Nobody
  /\ IF chosen \subseteq subscriptions
     THEN stage' = "rooms" /\ chosen' = {} /\ UNCHANGED gate
     ELSE stage' = "subscribing" /\ gate' = recoverer /\ UNCHANGED chosen
  /\ UNCHANGED <<registryVars, redisVars, subscriptions, link, pc,
                 recoverer, rooms, waiting, asked, added>>

(* ... and the answer of SubscribeAsync.                                    *)
RoomRecovered ==
  /\ stage = "subscribing"
  /\ \/ subscriptions' = subscriptions \cup chosen
     \/ RedisMayFail /\ UNCHANGED subscriptions
  /\ gate' = Nobody
  /\ stage' = "rooms" /\ chosen' = {}
  /\ UNCHANGED <<registryVars, redisVars, link, pc,
                 recoverer, rooms, waiting, asked, added>>

(* ReconcileActiveAdmissionsAsync.                                         *)
StartAdmissions ==
  /\ stage = "rooms" /\ rooms = {}
  /\ stage' = "admissions" /\ waiting' = Registered \ admitted
  /\ UNCHANGED <<registryVars, redisVars, bridgeVars, link, pc,
                 recoverer, chosen, rooms, asked, added>>

AskAdmission(c) ==
  /\ stage = "admissions" /\ c \in waiting
  /\ waiting' = waiting \ {c}
  /\ asked' = IF c \notin admitted /\ Present(c) THEN asked \cup {c} ELSE asked
  /\ UNCHANGED <<registryVars, redisVars, bridgeVars, link, pc,
                 recoverer, stage, chosen, rooms, added>>

AdmissionReconciled(c) ==
  /\ stage = "admissions" /\ c \in asked
  /\ asked' = asked \ {c}
  /\ \/ /\ c \notin admitted
        /\ admitted' = admitted \cup {c} /\ added' = added \cup {c}
     \/ /\ c \in admitted \/ OthersFillRooms \/ RedisMayFail
        /\ UNCHANGED <<admitted, added>>
  /\ UNCHANGED <<registryVars, tracked, bridgeVars, link, pc,
                 recoverer, stage, chosen, rooms, waiting>>

(* The connection may have left while Redis was asked.                      *)
RecheckNothing(c) ==                \* mutant: the second look is forgotten
  /\ stage = "admissions" /\ c \in added
  /\ added' = added \ {c}
  /\ UNCHANGED <<registryVars, redisVars, bridgeVars, link, pc,
                 recoverer, stage, chosen, rooms, waiting, asked>>

RecheckAdmission(c) ==
  /\ stage = "admissions" /\ c \in added
  /\ added' = added \ {c}
  /\ \/ Present(c) /\ UNCHANGED redisVars
     \/ /\ ~Present(c)
        /\ admitted' = admitted \ {c} /\ tracked' = tracked \ {c}
     \/ /\ ~Present(c) /\ (RedisMayFail \/ RequestsMayAbort)  \* cancelled
        /\ admitted' = admitted \ {c} /\ UNCHANGED tracked
  /\ UNCHANGED <<registryVars, bridgeVars, link, pc,
                 recoverer, stage, chosen, rooms, waiting, asked>>

(* ReconcileActivePresenceAsync, one room after the other.                  *)
StartPresence ==
  /\ stage = "admissions" /\ waiting = {} /\ asked = {} /\ added = {}
  /\ stage' = "presence" /\ rooms' = ActiveRooms
  /\ UNCHANGED <<registryVars, redisVars, bridgeVars, link, pc,
                 recoverer, chosen, waiting, asked, added>>

ReconcileRoom(r) ==
  /\ stage = "presence" /\ r \in rooms
  /\ waiting = {} /\ asked = {} /\ added = {}
  /\ rooms' = rooms \ {r} /\ waiting' = peers[r]
  /\ UNCHANGED <<registryVars, redisVars, bridgeVars, link, pc,
                 recoverer, stage, chosen, asked, added>>

AskPresence(c) ==
  /\ stage = "presence" /\ c \in waiting
  /\ waiting' = waiting \ {c}
  /\ asked' = IF Present(c) THEN asked \cup {c} ELSE asked
  /\ UNCHANGED <<registryVars, redisVars, bridgeVars, link, pc,
                 recoverer, stage, chosen, rooms, added>>

(* PeerJoinedAsync of RedisSyncBackplane: the heartbeat's entry is made      *)
(* first; the connection may have left, and taken its entry back, before.   *)
TrackPeer(c) ==
  /\ stage = "presence" /\ c \in asked
  /\ asked' = asked \ {c}
  /\ tracked' = tracked \cup {c} /\ added' = added \cup {c}
  /\ UNCHANGED <<registryVars, admitted, bridgeVars, link, pc,
                 recoverer, stage, chosen, rooms, waiting>>

(* Redis has answered, or failed: the second look.                          *)
RecheckPresence(c) ==
  /\ stage = "presence" /\ c \in added
  /\ added' = added \ {c}
  /\ tracked' = IF Present(c) THEN tracked ELSE tracked \ {c}
  /\ UNCHANGED <<registryVars, admitted, bridgeVars, link, pc,
                 recoverer, stage, chosen, rooms, waiting, asked>>

RecoveryDone ==
  /\ stage = "presence" /\ rooms = {}
  /\ waiting = {} /\ asked = {} /\ added = {}
  /\ stage' = "done" /\ recoverer' = Nobody
  /\ UNCHANGED <<registryVars, redisVars, bridgeVars, link, pc,
                 chosen, rooms, waiting, asked, added>>

(* The recovery runs within the time limit of the call that reconnected.    *)
(* While every call is answered in time only a wait for itself exceeds it:  *)
(* the recovery needs the gate that its own caller holds.                   *)
WaitsForItself == stage = "queued" /\ gate = recoverer

AfterAnyCall(t) ==                  \* mutant: a cleanup goes on like a handler
  CASE pc[t] = "gated" -> "announcing" [] t = Health -> "idle" [] OTHER -> "open"

AfterCall(t) ==
  CASE pc[t] = "gated"        -> "announcing"
    [] pc[t] = "announcing"   -> "open"
    [] pc[t] = "open"         -> "open"
    [] pc[t] = "checking"     -> "idle"
    [] pc[t] = "unannouncing" ->
         IF t[2] = "handler" THEN "unsubscribing" ELSE "gone"

RecoveryTimesOut(t) ==
  /\ Recovering(t) /\ (RedisMayFail \/ WaitsForItself)
  /\ StopRecovery(t)
  /\ gate' = IF gate = t THEN Nobody ELSE gate
  /\ Goto(t, AfterCall(t))
  /\ UNCHANGED <<registryVars, redisVars, subscriptions, link>>

RecoveryStep ==
  \/ \E r \in rooms : RecoverRoom(r) \/ ReconcileRoom(r)
  \/ RecoveryTakesGate
  \/ RoomRecovered
  \/ StartAdmissions
  \/ \E c \in waiting : AskAdmission(c) \/ AskPresence(c)
  \/ \E c \in asked : AdmissionReconciled(c) \/ TrackPeer(c)
  \/ \E c \in added : RecheckAdmission(c) \/ RecheckPresence(c)
  \/ StartPresence
  \/ RecoveryDone
  \/ \E t \in Tasks : RecoveryTimesOut(t)

-----------------------------------------------------------------------------
(* What a handler or a cleanup does of itself, and what it waits for.       *)
HandlerStep(c) ==
  \/ CheckDistributed(c)
  \/ AdmissionAnswered(c)
  \/ SubscribeAnswered(c)
  \/ Announce(c)
  \/ LeaveRoom(c)
  \/ AcquireGate(c)

LeaveStep(t) ==
  \/ ReleaseAdmission(t)
  \/ Unannounce(t)
  \/ ReleaseIfRoomEmpty(t)

TaskStep(t) ==
  \/ \E c \in Conns : t = Handler(c) /\ HandlerStep(c)
  \/ LeaveStep(t)

Next ==
  \/ \E c \in Conns : Join(c)
  \/ \E t \in ConnTasks : TaskStep(t)
  \/ \E c \in Conns : Close(c)
  \/ \E c \in Conns : Abort(c)
  \/ \E c \in Conns : RemovePeer(c)
  \/ \E c \in Conns : CleanupTimesOut(c)
  \/ BackoffElapses
  \/ HealthCheck
  \/ HealthAnswered
  \/ \E t \in Tasks : ConnectRedis(t)
  \/ RecoveryStep

Spec == Init /\ [][Next]_vars

(* Tasks that can run: a cleanup is started only for a peer that a         *)
(* broadcast could not reach.                                              *)
Runnable == {Handler(c) : c \in Conns} \cup {Cleanup(c) : c \in Unreachable}

(* Every call is answered or times out (it looks at the link once, so that  *)
(* a link going up and down does not hold it off), the back-off elapses,    *)
(* and the gate, a SemaphoreSlim, admits whoever waits for it.  Clients may *)
(* do nothing.                                                             *)
Fairness ==
  /\ \A t \in Runnable : SF_vars(TaskStep(t))
  /\ WF_vars(\E t \in Tasks : pc[t] # "open" /\ ConnectRedis(t))
  /\ WF_vars(BackoffElapses) /\ WF_vars(HealthAnswered) /\ WF_vars(RecoveryStep)

FairSpec == Spec /\ Fairness

-----------------------------------------------------------------------------
TypeOK ==
  /\ peers \in [Rooms -> SUBSET Conns] /\ home \in [Conns -> Rooms]
  /\ admitted \subseteq Conns /\ tracked \subseteq Conns
  /\ subscriptions \subseteq Rooms /\ gate \in Tasks \cup {Nobody}
  /\ link \in {"backoff", "ready", "up"}
  /\ \A c \in Conns : /\ pc[Handler(c)] \in HandlerPC \cup LeavingPC
                       /\ pc[Cleanup(c)] \in LeavingPC \cup {"idle"}
  /\ pc[Health] \in {"idle", "checking"} /\ DOMAIN pc = Tasks
  /\ recoverer \in Tasks \cup {Nobody} /\ stage \in Stages
  /\ chosen \subseteq Rooms /\ rooms \subseteq Rooms
  /\ waiting \subseteq Conns /\ asked \subseteq Conns /\ added \subseteq Conns

(* A connection that relays messages is one that still has its place in the *)
(* registry: its handler is in the receive loop and nobody removed it.      *)
Served == {c \in Conns : pc[Handler(c)] = "open" /\ Present(c)}

(* On a relay that reached Redis at its start, the room of every served     *)
(* connection is subscribed, however its joining overlaps with the last     *)
(* leaving of others (EnsureSubscribedAsync against ReleaseIfRoomEmptyAsync): *)
(* otherwise it would miss what other relays send.                         *)
StartedConnected == link = "up" /\ stage = "none"
ServedRoomsSubscribed ==
  StartedConnected => \A c \in Served : home[c] \in subscriptions

(* No subscription outlives its room while no recovery has run: when all    *)
(* that remains of the connections has come to rest, every subscribed room  *)
(* has a handler that is still in its receive loop and will release it.  (A *)
(* recovery may subscribe a room whose last peer has just left.)            *)
AtRest ==
  /\ recoverer = Nobody
  /\ \A t \in ConnTasks : pc[t] \in {"new", "idle", "open", "gone"}
SubscriptionsInUse ==
  AtRest /\ stage = "none" =>
    \A r \in subscriptions :
       \E c \in Conns : home[c] = r /\ pc[Handler(c)] = "open"

(* A connection that is gone is not kept alive for ever in Redis: when its  *)
(* handler and its cleanup are done and the recovery is not looking at it,  *)
(* the admissions do not hold it, and the presence heartbeat does only when *)
(* a recovery was abandoned, between its two looks at the registry.         *)
Gone(c) ==
  /\ pc[Handler(c)] = "gone" /\ pc[Cleanup(c)] \in {"idle", "gone"}
  /\ c \notin asked \cup added
NoGhostMember ==
  \A c \in Conns :
    Gone(c) => c \notin admitted /\ (c \in tracked => stage = "aborted")

(* A recovery that ran to its end has caught up for everybody: each served  *)
(* connection, whether it joined before or while the recovery ran, is       *)
(* subscribed, admitted and tracked.                                       *)
RecoveryCatchesUp ==
  stage = "done" =>
    \A c \in Served : /\ home[c] \in subscriptions
                      /\ c \in admitted /\ c \in tracked

(* No connection that has gone keeps its place in the registry, whichever   *)
(* way it went - refused, aborted while joining, removed from outside,      *)
(* timed out: a place kept would be lost to the room for good.              *)
RegistryHoldsLiving ==
  \A c \in Conns : pc[Handler(c)] \in {"new", "gone"} => ~Present(c)

(* The gate is held exactly by the task that awaits an answer of Redis      *)
(* behind it - a handler for its own room, or whoever runs the recovery for *)
(* one of its rooms -, and by one task only: every way out of the call, of  *)
(* an abandoned recovery too, gives it back.                                *)
HoldsGate(t) ==
  pc[t] = "gated" \/ (Recovering(t) /\ stage = "subscribing")
GateExact == \A t \in Tasks : gate = t <=> HoldsGate(t)

(* The inductive invariant: beside the properties above, a connection that  *)
(* is past LeaveRoom has no place, and the recovery runs within a call that *)
(* found the link; it does not subscribe while its caller has the gate.     *)
PlaceGivenBack ==
  \A c \in Conns : pc[Handler(c)] \in LeavingPC => ~Present(c)
RecoveryWithinCall ==
  /\ recoverer = Nobody => stage \in {"none", "done", "aborted"}
  /\ recoverer # Nobody => /\ CallsBackplane(recoverer) /\ link = "up"
                           /\ pc[recoverer] = "gated" => stage # "subscribing"

IInv ==
  /\ TypeOK
  /\ RegistryHoldsLiving /\ PlaceGivenBack
  /\ GateExact /\ RecoveryWithinCall

(* "When recovery succeeds, active local rooms are resubscribed to the      *)
(* backplane": once Redis is connected and everything has come to rest, the *)
(* room of every served connection is subscribed.                          *)
ResubscribedAfterRecovery ==
  link = "up" /\ AtRest => \A c \in Served : home[c] \in subscriptions

(* Nobody waits for ever: every handler and every cleanup gets back to its  *)
(* receive loop or to its end, although the recovery can wait for a gate    *)
(* that its own caller holds.                                              *)
NobodyStuck ==
  \A t \in Runnable : []<>(pc[t] \in {"new", "idle", "open", "gone"})

=============================================================================
