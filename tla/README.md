# Verification of Markdown Memory Notes

TLA+ models of the synchronization and the browser storage of Markdown Memory
Notes, the TLC runs that
check them on small instances, and proofs that TLAPS checks for every value of
the constants. Paths below are relative to the repository (`src/` is its
root).

## The system

A note application for one user whose vault is a folder of Markdown files. The
web front end can pair browsers: each connects by a WebSocket to a *relay*
(`Notes.Sync`), joins the room of its pairing code, and the relay forwards
whatever one peer of the room writes to the others. Several relay processes
may serve the same rooms; they are joined by Redis (publish/subscribe, and
sorted sets of the present peers with an expiry). The relay keeps no message:
the outgoing queue of the client (`SyncClient.cs`) is all that stands between a
saved note and its loss.

| Component | State it keeps | Operations | What makes it correct |
|---|---|---|---|
| Client queue, `Notes.Web/Services/SyncClient.cs` | queued change per path, order, in-flight window with a timeout each, connection status, peer count, the due repair | connect, disconnect, save, delete, repair file; status, presence, ack, repair request from the socket; timeouts | queue and order agree; nothing leaves silently; window and room respected; everything is delivered, every due repair requested |
| JavaScript socket, `wwwroot/js/sync-client.js` | the current socket, reconnect and heartbeat timers, serial message queue | connect, send, disconnect, socket events, timers | only the current socket is heard; a lost one is always replaced |
| Connection handler, `Notes.Sync/Program.cs` | the control state of each connection | join, receive loop, leave, cleanup of a removed peer, recovered handler | whatever a connection acquired is given back on every path |
| Registry, `SyncRoomRegistry.cs` | peers of each room | TryJoin, Leave, reads | limits; no place is lost |
| Admission, `SyncAdmissionCoordinator.cs` | connections that Redis admitted | join, leave, reconcile | agrees with the registry, also when Redis fails and recovers |
| Presence, `SyncPresenceCoordinator.cs` | none of its own | track, count, broadcast, reconcile | the clients end up with the right count |
| Bridge, `SyncBackplaneBridge.cs` | subscription per room, a gate, receive gates | subscribe, release, publish, receive | a room is subscribed exactly while it has peers |
| Recovering backplane, `RecoveringSyncBackplane.cs` | the connection to Redis or the time of the next try | every backplane call, recovered handler | one recovery, which catches up for all |
| Redis backplane, `RedisSyncBackplane.cs` | members to keep alive, channel handlers | publish, subscribe, presence, admission script, heartbeat | members exist while their peer does |
| Broadcaster, `SyncBroadcaster.cs` | a send gate per peer | broadcast, send, remove, forget | one writer per socket; gates are freed |
| Subscription queue, `SyncBackplaneSubscription.cs` | bounded queue | enqueue, drain, dispose | order; drops are counted |
| Limits, `Sync*Limiter.cs`, `SyncRateLimit.cs`, `SyncBackplaneHealthCache.cs` | counters, windows | acquire, release, consume | exact at the boundary |
| Change application and repair, `Notes.Core/Sync` | the files of the vault | apply file, apply delete, manifest, changes for | no edit is lost without a conflict copy; replicas converge |
| Browser storage, `wwwroot/js/file-system-access.js`, `BrowserFileSystem.cs` | the open vault, the handles and entries in IndexedDB or a directory of the device | restore, open, create, switch a vault; read, write, delete, list files | a call works on the vault it was made for; nothing is lost by a reload or a refusal; both backends look the same |
| Vault list, `wwwroot/js/vault-store.js`, `VaultManager.cs`, `WebVaultSession.cs` | the vaults with their sync codes, the session's vault | list, save, delete, open | the list is what is stored |
| Notes page, `Pages/Notes.razor`, `VaultOpen.razor` | selected note, active vault, list | autosave, switch, add, connect, delete a vault, set a code | one vault open everywhere, its room joined, notes kept at home |
| The rest of the core, CLI, desktop, mobile | files of one user | | sequential |

They interact by calls (page → storage and vault list; page → client → JavaScript; handler → coordinators →
bridge → backplane), by callbacks (JavaScript → client; broadcaster → cleanup;
recovering backplane → recovered handler) and by messages (client ↔ relay ↔
Redis). The hard behaviour is at the awaits: the client's handlers interleave
at each, the relay's handlers run on threads of their own, Redis and the
network may fail between any two steps, and the recovery of Redis runs inside
whatever call happened to find it again. In the browser every storage call is
asynchronous and works on variables of the module that the next call may have
changed. `PROJECT.json` lists these hazards
line by line.

## Modules

| Module | Models |
|---|---|
| `SyncClient` | the client queue over the JavaScript socket |
| `SyncClientProofs` | theorems about `SyncClient` |
| `RelayRooms` | one relay process: connection handlers, registry, admission, subscriptions, presence entries, recovery |
| `RelayRoomsProofs` | theorems about `RelayRooms` |
| `SyncSocket` | the JavaScript socket: connections, reconnect timer, heartbeat, incoming queue |
| `SyncSocketProofs` | theorems about `SyncSocket` |
| `VaultFiles` | abstract: what the browser storage promises, atomic file calls on the open vault |
| `BrowserVault` | the asynchronous storage that implements it: changes of the vault, IndexedDB transactions, file calls |
| `BrowserVaultProofs` | theorems about `BrowserVault`, the refinement of `VaultFiles` among them |
| `VaultBackends` | the directory trees of the virtual and the native vault, in lock-step |
| `VaultBackendsProofs` | theorems about `VaultBackends` |
| `VaultSync` | one note of two replicas: saves, deletions, application of remote changes, repair |
| `VaultSyncProofs` | theorems about `VaultSync` |
| `VaultPage` | the vaults of the page: list, open vault, session, room |
| `VaultPageProofs` | theorems about `VaultPage` |
| `MCSyncClient`, `MCRelayRooms`, `MCBrowserVault`, `MCVaultBackends`, `MCVaultPage`, `MCVaultSync` | model values, symmetry and paths for TLC |

`SyncSocket` needs no MC module: its configuration gives the constants, and the
instance is small enough without symmetry. `SyncClient` takes the socket of `SyncSocket` as its environment
(open, closed, taken, refused, thrown), and `VaultPage` the storage of
`BrowserVault` (a vault opens or does not). `VaultSync` reduces the queue of
`SyncClient` to the change of one path and the relay to a wire that is cut when
the two lose each other.

### SyncClient

*State.* `pending` is `pendingByPath` (a set of messages, one per path),
`order` is `pendingOrder`; `slot` and `freeSlots` are the entries of the .NET
`Dictionary`, because `RebuildPendingOrder` enumerates it and a removed entry
is reused. `inFlight` and `timed` are `inFlightPathByMessageId` and
`inFlightTimeouts`; `late` holds the expiry tasks whose delay elapsed before
they were cancelled. `socket` and `wire` are the JavaScript socket and the
messages written on it. Message ids, random in the code, are a counter; the
contents of a change do not matter and are left out.

*Actions.* `Connect`, `Disconnect`, `SendOrQueue` (saving and deleting alike),
`TrySendRepairFile`, `StatusConnected`, `StatusLost`, `Presence`,
`Acknowledge` and `Expire` are the handlers up to their first await. What
follows is a task of its own: `AcquireGate`, `FlushSend`, `SendSucceeded` or
`SendFailed`, `FlushEnd` for a flush, then `RepairCheck`, `SendRepairRequest`
or `ManifestFails`, `RepairRequestSent`, `RepairDone` for the repair request.
Any task may run between two steps of another one. `OnMessage` runs on the task
`chain`, since the JavaScript queue of one connection delivers serially; a new
`Connect` starts a queue of its own (`NewChain`), and what the old one still
awaits goes on beside it, which is how two repair requests come to overlap.
`SocketTakes`, `SocketThrows` and
`SocketRefuses` are the three outcomes of the JavaScript `send`; when the
socket throws, the status callback runs before the send returns.

*Deliberately coarse.* All late expiry tasks of one id are one. `Disconnect` is
one step: between the JavaScript `disconnect`, which has closed the socket when
it returns, and the reset after its `await` (`SyncClient.cs:341`–`347`) the client
still believes itself connected, and a flush that sends meanwhile is refused, as
after `StatusLost` it is. A Blazor
WebAssembly page has a single thread, so some interleavings of the model need
the multi-threaded hosting the class, with its locks, is written for. The
receive handlers behind `receiveGate`, `DisposeAsync`, size validation, a
missing `RepairRequested` handler, the early return of the page's handler when
another vault is active (`Notes.razor:731`, for the client the same outcome as
`ManifestFails`) and the first `import` of the JavaScript
module are left out.

### RelayRooms

*State.* `peers` is the registry, `admitted` is `distributedAdmissions`,
`tracked` the members the Redis heartbeat keeps alive, `subscriptions` and
`gate` the table of the bridge and the holder of its `subscriptionGate`,
`link` whether Redis is connected ("up"), due to be tried ("ready") or not
("backoff"). `pc` has a control state for the handler and for the cleanup of
each connection and for the health check. `recoverer` is the task inside whose
call the recovery runs; `stage`, `rooms`, `chosen` (the room whose subscription
it waits for), `waiting`, `asked` and `added` are the recovery's own progress,
its parallel calls included.

*Actions* follow the handler: `Join`, `CheckDistributed`, `AdmissionAnswered`,
`AcquireGate`, `SubscribeAnswered`, `Announce`, then `Close`, `LeaveRoom`,
`ReleaseAdmission`, `Unannounce`, `ReleaseIfRoomEmpty`. `Abort` is
`RequestAborted` at any await, `RemovePeer` a broadcast that removes the peer
from outside, `CleanupTimesOut` the time limit of that cleanup. `ConnectRedis`
is the first call after the back-off; `RecoverRoom` (are there
peers?), `RecoveryTakesGate`, `RoomRecovered`, `StartAdmissions`,
`AskAdmission`, `AdmissionReconciled`, `RecheckAdmission`, `StartPresence`,
`ReconcileRoom`, `AskPresence` (is it there?), `TrackPeer`, `RecheckPresence`,
`RecoveryDone` are the
recovered handler, `RecoveryTimesOut` its end by the time limit of the call it
runs in. The recovery takes the gate like anybody else, waits for it when a
handler, its own caller included, has it, and gives it back when it is abandoned.

*Deliberately coarse.* Redis is its answers; the sorted sets, their expiry,
messages and presence counts belong to later modules. Once connected, the
relay stays connected (the Redis client library reconnects by itself and the
code keeps the object); single calls may still fail when `RedisMayFail`. A
subscription that completes after its time limit is not followed.

### SyncSocket

*State.* `connection` and `ws` are the module's variables, numbered by order of
creation; `wanted` is the flag `reconnect` of each connection, `timer` and
`heartbeat` say for whom the two timers run, `incoming` and `chain` are
`incomingMessages` and the links of `messageQueue` that have not settled,
`status` is the last status .NET was told.

*Actions.* JavaScript runs one callback at a time, and each is one action:
`Connect`, `Disconnect`, `SendThrows`; `SocketOpened`, `JoinThrows`,
`CloseEvent`, `Receive` (with `HandleIncomingOverflow`); `ReconnectFires`,
`HeartbeatThrows`; `Deliver`, `SkipStale`, `HandlerReturns`, `HandlerFails` for
a link of the chain. `NetworkLoses` is the environment. Sends and heartbeats
that are taken change nothing here.

*Deliberately coarse.* Delays have no length. The error event and the close
event that follows it in the same turn are one action.

### BrowserVault and VaultFiles

*State.* `cur` is `rootHandle`, `vaultName`, `vaultId`, `vaultMode`, always
assigned together; `page` the handle `BrowserFileSystem` got last; `handles`
and `active` the IndexedDB store "handles", `saves` its transactions not yet
committed, which IndexedDB runs in order; `files` what each root holds; `job`
what each task awaits.

*Actions* are the stretches between two awaits of `tryRestoreVault`,
`openVault`, `openVirtualVault` and of the file calls, on either backend, with
denied permissions, an aborted picker, refused transactions and `Reload` at any
point. Changes of the vault and file calls overlap each other as they like: the
page does start an autosave or apply a peer's change while `SwitchVaultAsync`
awaits the storage. That the handle is returned and stored by `SetCurrentVault`
is one step. The old id 'root' is left out. Entries under a native vault's id are
those a virtual vault of the same id would have. `refused` remembers that
IndexedDB has refused a change.

*Refinement.* `VaultFiles` promises calls that take effect at one instant, or
not at all, on the vault that is open when they are made or on the one that is
open at that instant, and that a write is never seen as a lost text.
`BrowserVault` implements it (`ImplementsVaultFiles`) with `open` mapped to the id
and the root of the module's vault and a call's stage to its control state,
without any condition. The second place is needed: a call that awaits the
database takes the id it finds afterwards (Divergences).

### VaultBackends

`entries` is the object store of a virtual vault, `tree` the directory of a
native one. Both get every call, so that `SameView` can compare what
`fileExists`, `directoryExists`, `readAllText` and `enumerateFiles` answer.
`clashed` remembers whether a name was wanted both for a file and for a
directory, from when on the two may differ: the virtual vault replaces the
entry, the native one refuses.

### VaultPage

*State.* `fs`, `session`, `active` are the three places that name the open
vault; `list` is `_vaults`, `stored` what `vault-store.js` holds; `room` is
`SyncClient.Room`, which a disconnection leaves as it is (`SyncClient.cs:339`),
and `socket` the room of the browser's connection; `note` is the vault of the
selected note, `saving` the one of the note that the timer's autosave is
writing; `job` the handler under way. `born`, `since`, `unlisted`, `overtaken` are
history: `since` says whether the page is not yet shown ("closed"), came to its
vault by a start or a switch ("entered"), by adding, connecting or deleting
("beside"), or whether a handler failed half way ("broken").

*Actions* are the stretches between two awaits of `SwitchVaultAsync`,
`AddLocalVaultAsync`, `ConnectNewVaultAsync`, `DeleteVaultAsync`,
`GenerateSyncCodeForModalAsync`, `ConnectSyncAsync`, `ReconnectSyncAsync` and
the start through `VaultOpen.razor`, with every failure: the session has already
assigned its vault when the files cannot be read (`SessionFails`), the notes
cannot be reloaded once the page has its active vault (`ReloadsNotes`), and the
failures that `ConnectVaultSyncIfActiveAsync` swallows, before and after the client
has taken the room (`ConnectFails`). `AutosaveBegins` and `AutosaveEnds` run beside
the handlers at any time. What a peer sends changes none of these variables:
`StaysHome` says of every state which vault it would reach.

*Deliberately coarse.* One handler at a time: the user waits for it. The autosave
a handler itself awaits is one step. A page that is mounted again over an open
session (`Notes.razor:257`) is left out, and so are the removal of notes, search
and view state. The reload at the end of `ConnectNewVaultAsync` (`Notes.razor:477`)
may fail, but nothing follows it.

### VaultSync

*State.* `disk` is the note's file at each replica, `open` whether the page has
it selected, `job` the autosave or deletion under way, `queued` the entry of
`pendingByPath`, `sees` is `CanSendNow`, `taken` the message `OnMessage` is
handling and how far it is. `wire` holds what was written and not yet handled.
A text is its writer and a number; since every save writes the time into the
note, two saves never give the same text and a hash stands for one. `had`
remembers in which order a file held its texts, `held` what the files held when
the replicas met, `refused` the conflict copies.

*Actions* are the stretches between two awaits of `AutosaveAsync`,
`DeleteNoteAsync` (`SaveBegins` to `DeleteSends`), `ApplyFileAsync` and
`ApplyDeleteAsync` (`Exists`, `Compare`, `Write`), of the repair request
(`BuildManifest`, `SendRepairRequest`) and its answer (`FindChanges`,
`TrySendRepairFile`). The user acts while a message is handled. `Part` cuts the
wires anywhere and may close tabs, which lose their queue; `Meet` is the
presence message that makes both send what they have queued and ask for a
repair.

*Deliberately coarse.* One path: limits on the files of a manifest or an answer
do not matter, and neither does the size of a message: a text that
`ValidateOutgoingMessageSize` refuses (`SyncClient.cs:620`) is never queued in the
code, so the run says nothing of notes above the limit. One save runs at a time,
although the autosave of the timer (`Notes.razor:592`) may still be at work when
selecting another note starts a second one. A conflict copy is a member of `refused`, not a file that is
itself synchronized. What the editor shows is left out, so a save is always a
new text; a file that is gone before it is read ends the handler, as the
exception does. The replicas lose and meet each other at the same moment.

## Runs

| Run | Instance | Shows |
|---|---|---|
| `client_safety` | 3 paths, 2 rooms, queue of 2, window of 1, 3 messages, 2 tasks, manifest may fail | `TypeOK`, `QueueConsistent`, `InFlightTracked`, `WindowRespected`, `SentToOwnRoom`, `NothingLostSilently` |
| `client_delivery` | 2 paths, queue of 2, window of 1, 2 messages, 2 tasks, fair | `RepairRequestedSinceAbsence`, `DeliveredWhenStable`, `RepairedWhenStable` |
| `client_manifest` | 1 path, manifest may fail | violation of `RepairRequestedSinceAbsence` |
| `relay_recovery` | 2 connections, 2 rooms, start with or without Redis, which answers then; sends fail | `ServedRoomsSubscribed`, `SubscriptionsInUse`, `RecoveryCatchesUp`, `NoGhostMember` |
| `relay_faulty` | 2 connections, 1 room; Redis fails, others fill the room, clients abort, sends fail, fair | `TypeOK`, `RegistryHoldsLiving`, `GateExact`, `NobodyStuck` |
| `relay_resubscribed` | 2 connections, degraded start, Redis answers after it | violation of `ResubscribedAfterRecovery` |
| `socket` | 2 connections, 3 faults, incoming queue of 2, 4 messages, fair | `TypeOK`, `NeverStranded`, `NoSocketLeaks`, `HeartbeatKept`, `ConnectedIsTrue`, `NeverOvercounted`, `ComesBack` |
| `vault` | 2 ids, 1 directory, 1 path, 3 tasks, 3 calls between reloads; IndexedDB refuses, changes and calls overlap | `TypeOK`, `ChangesAgree`, `ActiveRestorable`, `NeverEmptied`, `ImplementsVaultFiles` |
| `backends` | paths of up to 3 segments of 3 names, 4 files, 4 directories, 2 texts | `TypeOK`, `SameView`, `ListingComplete`, `NativeKeepsOthers` |
| `page` | 3 vaults, 2 codes, store may refuse | `TypeOK`, `PageAgrees`, `StaysHome`, `ListMatchesStore` |
| `page_deleted` | 2 vaults, 2 codes, store accepts | violation of `DisconnectedWithoutCode` |
| `sync` | 2 replicas, 3 events (saves, deletions, losses of each other), changes sent again | `AgreeAtRest`, `NeverOlder`, `RepairKeeps` |

*Bounds.* A queue of two with three paths already fills, drops and replaces; a
window of one already has a second change wait for it; three messages allow a
change, its replacement and a competitor. Delivery has two paths before a window
of one: while one change is in flight the other waits in the queue for the place,
which only the flush after an acknowledgement or an expiry can use, and one path
saved twice has its change replaced while it is in flight. Two connections in a room
suffice for the last leaver against a joiner; each
connection joins once, and as its identity is fresh in the code (a new Guid),
another attempt is another connection. Two tasks let a repair request of an old
connection overlap with the messages of a new one. The model values for paths,
rooms, tasks, connections, vaults and codes are interchangeable; symmetry is used for safety
only. Two socket connections give one to be replaced by another, and three
faults a loss during the back-off that follows a loss; four messages overflow
a queue of two whose first message is with .NET. Three overlapping changes let one
overtake two others; two vault ids and a directory give a virtual vault, a
native one and one to switch to. In `backends`, "notes" is a file and a directory,
"a.md" too, one path has an empty segment and one is deep, so that every kind of
clash happens. Three vaults let one be deleted while another is added; ids are
never used twice, so a run creates at most three, and nothing else bounds `page`.
Three events of two replicas are three saves that cross, a save lost in each
direction and the repair of both, or a repair interrupted by a second loss; a
change is sent again only while nothing waits at the peer, which still makes it
arrive twice.

*Deadlock* is checked for the client, which can always reconnect. It is not
for `RelayRooms`, `SyncSocket`, `BrowserVault` and `VaultSync`, whose instances
end when all connections have come and gone or the calls and events are used up.

*Fairness.* Of the client: a continuation whose await completed runs, the
`SemaphoreSlim` gate admits its waiters in turn (strong fairness of each
task), started delays elapse (of many, some one elapses again and again), and a
message that is in flight again and again is acknowledged at some time while it
is. The user, the socket and the
peers owe nothing; `DeliveredWhenStable` and `RepairedWhenStable` therefore
assume that the client stays connected with a peer. Of the relay: every call
is answered or times out, the back-off elapses, the gate admits whoever waits.
Clients may do nothing for ever, and an open connection need not publish.
Of the socket: a started timer fires, a connection attempt ends one way or the
other, a lost socket gets its close event; the faults are finitely many
(`MaxFaults`), since `ComesBack` speaks of the time after the last one.

### What the violations show

* `client_manifest`: `OnSyncRepairRequestedAsync` of the page swallows every
  exception, so that the retry the client promises
  (`PeerAppearanceRetriesRepairRequestWhenHandlerFails`) cannot happen in the
  application. In `client_delivery`, where building the manifest succeeds, the
  same property holds.
* `relay_resubscribed`: a subscription that finds Redis again runs the recovery
  while it holds the gate the recovery needs. It ends by the time limit, the
  recovery is not repeated, and rooms stay unsubscribed, contrary to
  `src/README.md:65`. When the recovery runs to its end it does catch up
  (`RecoveryCatchesUp`).
* `page_deleted`: `DeleteVaultAsync` (`Notes.razor:497`) names the next vault active
  and then asks `SwitchVaultAsync` for it, which returns at once because it is
  active. File system and session stay those of the deleted vault, and the browser
  stays in its room although the active vault has no code, contrary to
  `ConnectVaultSyncIfActiveDisconnectsWhenActiveVaultHasNoSyncCode`
  (`NotesSyncFeedbackTests.cs:81`). `PageAgrees` excludes an open vault that was
  deleted.

### Divergences without a run

What else was met while modelling, and which condition of a property or bound
of an instance keeps it out of the runs:

* `SyncClient.cs:820`: the order rebuilt after acknowledgements is that of
  reused dictionary entries, and a save into a full queue of three may drop a
  path that is not the oldest (`DropsOldestPath`, which
  `SendFileAsyncBoundsQueuedPathsByDroppingOldestPath` promises; it takes four
  paths and six messages).
* `SyncAdmissionCoordinator.cs:85`: a join refused by Redis after the last other
  peer has looked at the registry leaves the subscription of an empty room;
  `SubscriptionsInUse` holds without refusals and aborted joins.
* `SyncBackplaneBridge.cs:169`: the recovery asks whether a room has peers before it
  waits for the gate. The last one may leave meanwhile and find nothing to release;
  the recovery then subscribes an empty room, which nobody releases until somebody
  has joined and left it again. `SubscriptionsInUse` speaks of the time before any
  recovery.
* `SyncPresenceCoordinator.cs:133`: a recovery that is abandoned after it has entered
  a connection into the heartbeat that left meanwhile does not look again; the
  heartbeat keeps it present. `NoGhostMember` allows it for an abandoned recovery.
* `sync-client.js:263`: an overflow sets the counter to zero while links of the
  chain still wait, and the reconnected socket appends to that chain: it outgrows
  `maxIncomingMessages`. `sync-client.js:245`: a handler that fails reports
  "error" on a socket that stays open, and "connected" does not follow.
* `file-system-access.js:372`: an entry's key is made of `vaultId` after the
  database was opened, so a write during a change of the vault lands in the
  other vault. `WriteAllTextKeepsRelativeSyncPathsInsideCurrentVault`
  (`BrowserFileSystemTests.cs:10`) names the stronger promise, of a call that meets
  no change; `VaultFiles` promises what holds when it does.
* `file-system-access.js:107`: the module takes a vault before IndexedDB has, and
  keeps it when IndexedDB refuses; the next start restores the old one.
  `ChangesAgree` ends with the first refusal.
* `file-system-access.js:277`: deleting a file of a directory that does not
  exist is an error of the native vault, none of the virtual one.
* `Notes.razor:433`: `AddLocalVaultAsync` opens the new vault before it saves the
  selected note, whose text goes into the new vault under a path made of the old
  one's; the note stays selected, as after `ConnectNewVaultAsync`. `StaysHome`
  speaks of starts and switches only.
* `Notes.razor:417`: while a switch opens a vault, the old room is still joined,
  and a peer's change is applied to the new vault. `StaysHome` excludes the time from
  the opening to the connecting. When the reload at `Notes.razor:419` or the
  connecting (`Notes.razor:706`, `723`) fails, it stays that way until the next
  switch.
* `Notes.razor:605`: an autosave of the timer that is under way when a switch clears
  the selected note selects it again when its write returns, with another vault
  open. `StaysHome` does not speak of a page to which that happened (`overtaken`).
* `SyncRepairService.cs:83`: an answer names the requester's own text as its base,
  and both sides ask. Two replicas that differ after an absence exchange their
  texts and differ as before; `AgreeAtRest` speaks of replicas that have not lost
  each other. A deleted note is not remembered and comes back with the repair or
  with a save that crossed the deletion: it speaks of no deletions either.
* An answer that is still queued when the replicas lose each other is sent at
  their next meeting and may overwrite the only copy of a newer text, and so may
  a save during a repair, whose second read (`Notes.razor:609`) sends the peer's
  text and replaces the queued answer. `RepairKeeps` starts with empty queues and
  ends when a user acts.
* `Notes.razor:316`: a remote change reloads the list but not the editor. The next
  autosave writes the old text with the hash of the new file as its base, which
  the peer accepts: the peer's edit is gone without the conflict copy that
  `ApplyFileKeepsLocalAndSavesConflictWhenBaseHashDiffers`
  (`SyncChangeApplierTests.cs:38`) is about. The model has no editor.
* `SyncChangeApplier.cs:38`: what a user saves between the comparison and the write
  is overwritten. `AgreeAtRest` asks for agreement only.
* A deleted vault that was open is restored, and listed again, at the next start.

`NoGhostMember` holds while no request is aborted and no join refused: a cancelled
cleanup leaves what it has not yet taken back, an accepted limit of the code that the
run excludes. The room limit that the registry itself enforces does not fire in
`relay_faulty`, whose two connections fit; `PlacesGivenBack` covers it for every limit.

## Proofs

`SyncClientProofs` proves for every queue size, window, set of paths, rooms and
tasks, from `ConstantsAssumption` alone (finitely many paths, at least one path,
room and task, positive bounds):

| Theorem | States |
|---|---|
| `Invariance` | `Spec => []IInv` |
| `TypeCorrect`, `QueueSafe`, `InFlightSafe`, `WindowSafe`, `RoomSafe` | `TypeOK`, `QueueConsistent`, `InFlightTracked`, `WindowRespected`, `SentToOwnRoom` are invariants |
| `NoSilentLoss`, `RepairIsPolite` | the action properties `NothingLostSilently`, `RepairNeverDisplaces` |
| `NoAbsenceForgotten` | `RepairRequestedSinceAbsence`, if building the manifest succeeds |

*The argument.* None of the properties is inductive. The window is safe
because at most one flush is past the gate (`GateHeld`): it alone adds to
`inFlight`, and everything else only removes, so the room found before the
await of a send is still there after it. Nothing reaches another room because
the queue holds only messages of the current room (`QueuedHere`), which
`Connect` maintains by clearing it exactly when the room changes; ids are
fresh because all queued ones are below `nextId`. That the order is a
permutation of the queued paths needs the bound of the queue: a full queue has
a first path, and dropping that one makes room. `IInv` is the conjunction of
these with the properties; each is a section of the module with a lemma per
action, and `Invariance` combines them. Helper lemmas state what the operators
on the queue do (`EnqueuePath`, `ReplacePath`, `RemoveAcknowledged`,
`RemoveInFlight`) and how cardinalities change. `NoAbsenceForgotten` adds
`RepairTracked`: one task at a time is between the check and the end of a repair,
and unless an absence was marked meanwhile it can still send its request or has.
Its condition is needed: `client_manifest` violates the property without it.

`RelayRoomsProofs` proves for every set of connections and rooms and all limits,
from `RelayAssumption` (finite sets, positive limits, distinct names):

| Theorem | States |
|---|---|
| `Invariance` | `Spec => []IInv` |
| `TypeCorrect`, `PlacesGivenBack`, `GateGivenBack` | `TypeOK`, `RegistryHoldsLiving`, `GateExact` are invariants, whatever fails |
| `ServedSubscribed` | `ServedRoomsSubscribed`, if no call to Redis fails |
| `NoSubscriptionLeaks` | `SubscriptionsInUse`, until a recovery runs, if no join is refused by Redis or aborted |
| `NobodyHaunts` | `NoGhostMember`, if no join is refused by Redis or aborted |
| `CaughtUp` | `RecoveryCatchesUp`, if no call to Redis fails or is refused |

*The argument.* `IInv` adds two facts: a handler past `LeaveRoom` has no place
(`PlaceGivenBack`), so that it can end, and the recovery runs within a call of
its own task (`RecoveryWithinCall`), so that no task moves while it recovers
except by the end of that call, which gives the gate back. `HandlerStepKeeps`
and `CleanupStepKeeps` state once what a step must satisfy to keep it, and each
action is an instance. `ServedSubscribed` strengthens the property to handlers
that announce themselves (`JoinedSubscribed`): a release looks at the registry
under the gate and takes nothing from a room that has a peer.
`NoSubscriptionLeaks` shows that each subscription is answered for by a handler
that is still active: whoever finds its room occupied leaves it to a connection
that has a place, and that one passes through the release itself. Its two
conditions are needed (Divergences); that Redis answers, which `relay_recovery`
has, is not.

`NobodyHaunts` says who cannot be in Redis: a connection that has not joined, and
one whose handler is past the step that takes it out, which comes after every
way in (`Untracked`, `Unadmitted`). After that step the recovery may put it in
again, and looks again before it ends; abandoned, it still does for an admission,
and for an entry of the heartbeat it does not. `CaughtUp` says what the recovery owes to a
connection that keeps its place, from the moment its handler passes the step that
would have done it itself (`SubscribedOrDue`, `AdmittedOrDue`, `TrackedOrDue`);
`RemovedStaysOut` keeps a connection that a broadcast removed from coming back.
TLC violates either property as soon as one of its conditions is dropped.

`SyncSocketProofs` proves for every bound and queue size, from
`ConstantsAssumption`:

| Theorem | States |
|---|---|
| `Invariance` | `Spec => []IInv` |
| `TypeCorrect`, `ConnectionNeverStranded`, `SocketsNeverLeak`, `HeartbeatFollowsSocket`, `ConnectedStatusTrue`, `CounterNeverOver` | `TypeOK`, `NeverStranded`, `NoSocketLeaks`, `HeartbeatKept`, `ConnectedIsTrue`, `NeverOvercounted` are invariants |

*The argument.* The properties of the link support each other: that a wanted
connection has a timer or a live socket needs that the current socket is the
only attached one, and the heartbeat follows because every way to give a socket
up passes through `closeCurrentSocket` or its own close event. `Numbered` keeps
new objects fresh, and `BudgetKept`, that every socket beyond the connections
is paid for by a fault, shows that the bounds are never what stops a socket
from being opened. The counter is an invariant of its own.

`VaultPageProofs` proves for every set of vaults and codes, from
`ConstantsAssumption`:

| Theorem | States |
|---|---|
| `TypeCorrect`, `ListIsStored`, `PageAlwaysAgrees`, `NotesStayHome` | `TypeOK`, `ListMatchesStore`, `PageAgrees`, `StaysHome` are invariants |

*The argument.* The properties speak of the time between handlers;
`ListInv` and `Progress` say for each place within a handler what has been
changed by then: up to `Before` the old vault is open everywhere, from `Inside`
on file system and session have the new one, `Coding` only has a code that is
not yet joined, and before the page is shown there is nothing to disagree
(`Closed`). A switch must bring the page home also from a state that a
failure left behind, so its clauses hold whatever happened before. For the notes it
is enough that a switch leaves nothing selected and nothing being written
(`NotesHome`), which is why an overtaken autosave has to be excluded.

`BrowserVaultProofs` proves for every set of vaults, directories, paths, texts and
tasks and any number of calls, from `ConstantsAssumption` (no name is used for two
things):

| Theorem | States |
|---|---|
| `Invariance` | `Spec => []IInv` |
| `TypeCorrect`, `NotesNeverEmptied` | `TypeOK`, and the action property `NeverEmptied`, whatever fails or overlaps |
| `OverlappingChangesAgree` | `ChangesAgree`, which speaks of the time until IndexedDB refuses a change |
| `ActiveVaultRestorable` | `ActiveRestorable`, which holds beyond that if changes do not overlap |
| `ImplementsFiles` | the refinement `ImplementsVaultFiles`, whatever fails or overlaps |

*The argument.* The many actions are of five kinds: a change of the vault moves
on, asks for a save, has it done; a file call goes on; the page is loaded again.
`StepKinds` shows that once, and each invariant is then proved for the kinds.
`IInv` adds to the types that a task waits for one save at most (`SavesAwaited`),
that a change knows its vault by the time it needs it (`JobsKnow`), that a
virtual vault's files are under its own id (`OwnRoots`) and that a write has a
text. Overlapping changes agree because the last save asked for is always the one
of the module's vault (`Agreeing`); the vault to be restored has a handle because
its handle is stored, or will be by an earlier save, when a save names it
(`RestoreInv`). For the refinement a step of a change maps to opening another vault
or to a stutter, and of a call's steps exactly the one that commits maps to its
effect, on the root it was made with or on the id that the module has then, both of
which `VaultFiles` allows.

`VaultBackendsProofs` proves for every finite set of paths that has their prefixes,
every set of texts and every sequence of calls, from `ConstantsAssumption`:

| Theorem | States |
|---|---|
| `Invariance`, `TypeCorrect` | `Spec => []IInv`, `TypeOK` |
| `VaultsShowTheSame` | `SameView`: both backends answer alike until a name has been wanted for a file and for a directory |
| `ListingsComplete` | `ListingComplete`, with or without a clash |
| `OthersKept` | the action property `NativeKeepsOthers` |

*The argument.* What is in a native vault lies in directories (`TreeClosed`), and
until a clash both vaults keep the same at every path (`SameStores`). The answers
then agree because in a closed tree a path can be reached exactly if it is there.
The recursion of `enumerateFiles` is a recursive function over directories.
`WalkUnique` shows that its equation has one solution: of the directories where
two solutions differ take one with the fewest paths below it; they agree on its
children, so they agree there. `BelowSolves` shows that the set of files below a
directory is a solution, hence what the recursion returns. That the number of
paths is well-founded replaces an induction over data, which the provers lack.

`VaultSyncProofs` proves for any number of saves, deletions, losses and messages
sent again, from `ConstantsAssumption` (two replicas; the marks for no file, no base
and no change are none of the values they stand beside):

| Theorem | States |
|---|---|
| `Invariance` | `Spec => []IInv` |
| `ReplicasAgree` | `AgreeAtRest` |
| `NoFileGoesBack` | the action property `NeverOlder` |
| `RepairsKeepBoth` | `RepairKeeps` |

*The argument.* While the replicas stay connected and nobody deletes, `IInv` says
of the files' histories: a file holds the last of its texts (`Latest`) and never a
text twice (`NoReturn`), each writer's texts are numbered upwards (`Written`,
`OwnInOrder`), and no two texts were held by both files in opposite orders
(`SameOrder`). That is kept because a change names as its base a text its sender
had before it (`Grounded`) and is written only if the file held that base when they
were compared: what is about to be written is newer for its sender than all the
file has held, and only one replica is ever about to write (`WritesNews`,
`OneWrites`). A file with a text
the other never had is telling it, or the text was put aside (`Tells`); when
nothing is under way, either both files held the other's text, and one order for
both makes them equal, or one is a conflict copy. `NoFileGoesBack` is the order
again: an older text of the same writer would be one held before.
A repair has an invariant of its own, `RepairInv`. It names the two texts of the
meeting and orders the messages: presence, then request, then answers
(`InTurn`). Until a request is answered neither file changes (`Undisturbed`); then
the answer is queued, on the wire, being applied, written or put aside (`Answered`).
So a file is overwritten only when its own text has already left as an answer. The
history variable `had` is there for the first argument only, and no guard reads it.

*Model-checked only:* the liveness properties `DeliveredWhenStable`,
`RepairedWhenStable`, `NobodyStuck` and `ComesBack`, since `ENABLED` and fairness are
out of the prover's reach. Every invariant and every other action property of the
passing runs is proved.

## Not modelled

* The receive loop of the relay, presence counts and their order, publishing
  over Redis, its sorted sets with their expiry, late disposal of
  subscriptions, send gates: the hazards that have a note in `PROJECT.json`. Two
  relays with a Redis between them would be a model of its own, and the next one
  to write.
* The composition of clients with a relay: a change saved at one client reaches the
  vault of the other or remains queued. `VaultSync` has a wire in place of the
  relay, one note and two replicas.
* Limiters and the health cache, small counters under a lock, which unit tests
  reach.
* Protocol parsing, configuration, metrics, view code, text selection, the
  service worker (it only removes old caches) and file formats, which keep no
  state; the desktop, mobile and command-line front ends, which are sequential.
