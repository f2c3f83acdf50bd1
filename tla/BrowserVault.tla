---------------------------- MODULE BrowserVault ----------------------------
(***************************************************************************)
(* The browser's storage of file-system-access.js: which vault is open,    *)
(* what IndexedDB remembers of it, and the file operations on it.          *)
(*                                                                         *)
(* The exported functions are asynchronous and share the module's          *)
(* variables; an action is what one of them does between two awaits.  The  *)
(* variables rootHandle, vaultName, vaultId and vaultMode are always       *)
(* assigned together: "cur".  A virtual vault keeps its files in IndexedDB *)
(* under its id, a native one in a directory of the device; both are       *)
(* "roots".  Directories are left to VaultBackends: here a root holds      *)
(* files only.                                                             *)
(***************************************************************************)
EXTENDS Naturals, Sequences, FiniteSets

CONSTANTS
  Ids,             \* vault ids
  Dirs,            \* directories the picker can choose
  Paths, Texts,
  Tasks,           \* calls that can be under way at the same time
  None, Missing, Empty,
  HasPicker,       \* isNativeFileSystemAvailable()
  StorageMayFail,  \* IndexedDB may refuse a transaction
  ChangesApart,    \* the page never overlaps two changes of the vault
  MaxCalls         \* bound: calls between two reloads

ASSUME ConstantsAssumption ==
  /\ Ids \cap Dirs = {}
  /\ None \notin Ids \cup Dirs
  /\ Missing \notin Texts /\ Empty \notin Texts /\ Missing # Empty
  /\ HasPicker \in BOOLEAN /\ StorageMayFail \in BOOLEAN /\ ChangesApart \in BOOLEAN
  /\ MaxCalls \in Nat

VARIABLES
  cur,      \* the module's vault: its id and its root
  page,     \* BrowserFileSystem.cs: the vault of the last handle it got
  handles,  \* store "handles": the root saved for each id
  active,   \* store "handles": the record "active"
  files,    \* the files under each root
  job,      \* what each task awaits
  saves,    \* readwrite transactions on "handles" not yet committed, in order
  refused,  \* history: IndexedDB has refused a change
  calls     \* bound: calls since the last reload

vars == <<cur, page, handles, active, files, job, saves, refused, calls>>
storage == <<handles, active, saves>>

Roots == Ids \cup Dirs
NoVault == [id |-> None, root |-> None]
Idle == [pc |-> "idle"]
Changes == {"restoring", "ensuring", "asking", "picking", "looking", "saving", "ensuringOpened"}
Busy(t) == job[t] # Idle
Changing(t) == job[t].pc \in Changes

Init ==
  /\ cur = NoVault /\ page = NoVault
  /\ handles = [i \in Ids |-> None] /\ active = None
  /\ files = [r \in Roots |-> [p \in Paths |-> Missing]]
  /\ job = [t \in Tasks |-> Idle]
  /\ saves = <<>> /\ refused = FALSE /\ calls = 0

-----------------------------------------------------------------------------
Starts(t) ==
  /\ ~Busy(t)
  /\ calls < MaxCalls /\ calls' = calls + 1

StartsChange(t, pc, id) ==
  /\ Starts(t)
  /\ ChangesApart => \A u \in Tasks : ~Changing(u)
  /\ job' = [job EXCEPT ![t] = [pc |-> pc, id |-> id, root |-> None]]
  /\ UNCHANGED <<cur, page, storage, files, refused>>

Goes(t, pc) == job' = [job EXCEPT ![t].pc = pc]
Ends(t) == job' = [job EXCEPT ![t] = Idle]

(* The handle a change returns is currentVault(), evaluated at its end; no *)
(* task of the browser comes between that and SetCurrentVault.             *)
RequestedHandle(save) ==            \* mutant: the handle names what was asked for
  [id |-> save.id, root |-> handles'[save.id]]

ReturnedHandle(save) == cur

(* saveActiveVaultId (no root), saveHandle and saveVirtualVault; IndexedDB *)
(* runs such transactions in the order in which they are asked for.        *)
QueueSave(t, id, root) == saves' = Append(saves, [task |-> t, id |-> id, root |-> root])

-----------------------------------------------------------------------------
(* tryRestoreVault and switchVault: the vault asked for, or the active one. *)
Restore(t, id) == StartsChange(t, "restoring", id)

RestoreReads(t) ==
  LET id == IF job[t].id # None THEN job[t].id ELSE active
      root == IF id \in Ids THEN handles[id] ELSE None IN
  /\ job[t].pc = "restoring"
  /\ \/ /\ root \in Ids
        /\ cur' = [id |-> id, root |-> root]
        /\ Goes(t, "ensuring")
     \/ /\ root \in Dirs /\ HasPicker
        /\ job' = [job EXCEPT ![t] = [pc |-> "asking", id |-> id, root |-> root]]
        /\ UNCHANGED cur
     \/ /\ root = None \/ (root \in Dirs /\ ~HasPicker)
        /\ Ends(t)
        /\ UNCHANGED cur
  /\ UNCHANGED <<page, storage, files, refused, calls>>

RestoreFails(t) ==
  /\ job[t].pc \in {"restoring", "ensuring"}
  /\ StorageMayFail /\ refused' = TRUE /\ Ends(t)
  /\ UNCHANGED <<cur, page, storage, files, calls>>

RestoreUnawaited(t) ==              \* mutant: returns before the save is done
  /\ job[t].pc = "ensuring"
  /\ QueueSave(t, cur.id, None)
  /\ Ends(t) /\ page' = cur
  /\ UNCHANGED <<cur, handles, active, files, refused, calls>>

RestoreEnsured(t) ==
  /\ job[t].pc = "ensuring"
  /\ QueueSave(t, cur.id, None)
  /\ Goes(t, "saving")
  /\ UNCHANGED <<cur, page, handles, active, files, refused, calls>>

PermissionGranted(t) ==
  /\ job[t].pc = "asking"
  /\ cur' = [id |-> job[t].id, root |-> job[t].root]
  /\ QueueSave(t, job[t].id, None)
  /\ Goes(t, "saving")
  /\ UNCHANGED <<page, handles, active, files, refused, calls>>

PermissionDenied(t) ==
  /\ job[t].pc = "asking"
  /\ Ends(t)
  /\ UNCHANGED <<cur, page, storage, files, refused, calls>>

-----------------------------------------------------------------------------
(* openVault and createVirtualVault; id is the one given or a new one.     *)
OpenVault(t, id) ==
  StartsChange(t, IF HasPicker THEN "picking" ELSE "looking", id)

CreateVirtualVault(t, id) == StartsChange(t, "looking", id)

PickerChooses(t, dir) ==
  /\ job[t].pc = "picking"
  /\ cur' = [id |-> job[t].id, root |-> dir]
  /\ QueueSave(t, job[t].id, dir)
  /\ Goes(t, "saving")
  /\ UNCHANGED <<page, handles, active, files, refused, calls>>

PickerAborts(t) ==
  /\ job[t].pc = "picking"
  /\ Ends(t)
  /\ UNCHANGED <<cur, page, storage, files, refused, calls>>

OpensVirtual(t) ==
  /\ job[t].pc = "looking"
  /\ cur' = [id |-> job[t].id, root |-> job[t].id]
  /\ QueueSave(t, job[t].id, job[t].id)
  /\ Goes(t, "saving")
  /\ UNCHANGED <<page, handles, active, files, refused, calls>>

SaveActiveOnly ==                   \* mutant: the handle itself is not stored
  LET save == Head(saves) IN
  /\ saves # <<>> /\ saves' = Tail(saves)
  /\ active' = save.id /\ handles' = handles
  /\ IF save.root \in Ids
     THEN Goes(save.task, "ensuringOpened") /\ UNCHANGED page
     ELSE Ends(save.task) /\ page' = ReturnedHandle(save)
  /\ UNCHANGED <<cur, files, refused, calls>>

SaveCommits ==
  LET save == Head(saves) IN
  /\ saves # <<>> /\ saves' = Tail(saves)
  /\ active' = save.id
  /\ handles' = IF save.root = None THEN handles ELSE [handles EXCEPT ![save.id] = save.root]
  /\ IF save.root \in Ids
     THEN Goes(save.task, "ensuringOpened") /\ UNCHANGED page
     ELSE Ends(save.task) /\ page' = ReturnedHandle(save)
  /\ UNCHANGED <<cur, files, refused, calls>>

(* A failed save is swallowed, except in openVirtualVault.                 *)
SaveFails ==
  LET save == Head(saves) IN
  /\ saves # <<>> /\ saves' = Tail(saves)
  /\ StorageMayFail /\ refused' = TRUE /\ Ends(save.task)
  /\ page' = IF save.root \in Ids THEN page ELSE cur
  /\ UNCHANGED <<cur, handles, active, files, calls>>

OpenEnsured(t) ==
  /\ job[t].pc = "ensuringOpened"
  /\ Ends(t) /\ page' = cur
  /\ UNCHANGED <<cur, storage, files, refused, calls>>

OpenFails(t) ==
  /\ job[t].pc = "ensuringOpened"
  /\ StorageMayFail /\ refused' = TRUE /\ Ends(t)
  /\ UNCHANGED <<cur, page, storage, files, calls>>

-----------------------------------------------------------------------------
(* readAllText, writeAllText and deleteFile; "root" is the rootHandle that *)
(* a native call holds on to.                                              *)
FileCall(t, op, path, text) ==
  /\ page # NoVault
  /\ Starts(t)
  /\ job' = [job EXCEPT ![t] =
               [pc |-> IF cur.root \in Ids THEN "entry" ELSE "handle", op |-> op,
                root |-> cur.root, path |-> path, text |-> text]]
  /\ UNCHANGED <<cur, page, storage, files, refused>>

Takes(t, root) ==
  LET held == files[root][job[t].path] IN
  /\ files' = [files EXCEPT ![root][job[t].path] =
                 CASE job[t].op = "write" -> job[t].text
                   [] job[t].op = "delete" -> Missing
                   [] OTHER -> held]
  /\ job' = [job EXCEPT ![t].pc = "done",
                        ![t].text = IF job[t].op = "read" THEN held ELSE @]
  /\ UNCHANGED <<cur, page, storage, refused, calls>>

(* The key of an entry is made of vaultId after openDB() was awaited.      *)
EntryReplaced(t) ==                 \* mutant: a write deletes the entry, then puts it
  /\ job[t].pc = "entry"
  /\ IF job[t].op = "write" /\ files[cur.id][job[t].path] # Missing
     THEN /\ files' = [files EXCEPT ![cur.id][job[t].path] = Missing]
          /\ UNCHANGED <<cur, page, storage, job, refused, calls>>
     ELSE Takes(t, cur.id)

EntryTransaction(t) ==
  /\ job[t].pc = "entry"
  /\ Takes(t, cur.id)

EntryRefused(t) ==
  /\ job[t].pc = "entry"
  /\ StorageMayFail /\ Goes(t, "failed")
  /\ UNCHANGED <<cur, page, storage, files, refused, calls>>

(* getFileHandle(create) makes an empty file, close() replaces its text.   *)
NativeTruncates(t) ==               \* mutant: the file is emptied first
  /\ job[t].pc = "handle" /\ job[t].op = "write"
  /\ files' = [files EXCEPT ![job[t].root][job[t].path] = Empty]
  /\ Goes(t, "writable")
  /\ UNCHANGED <<cur, page, storage, refused, calls>>

NativeCreates(t) ==
  /\ job[t].pc = "handle" /\ job[t].op = "write"
  /\ files' = [files EXCEPT ![job[t].root][job[t].path] = IF @ = Missing THEN Empty ELSE @]
  /\ Goes(t, "writable")
  /\ UNCHANGED <<cur, page, storage, refused, calls>>

NativeTakes(t) ==
  /\ \/ job[t].pc = "writable" /\ files[job[t].root][job[t].path] # Missing
     \/ job[t].pc = "handle" /\ job[t].op # "write"
  /\ Takes(t, job[t].root)

(* The device may refuse at any await; a file that was deleted meanwhile   *)
(* cannot be written.                                                      *)
NativeRefuses(t) ==
  /\ job[t].pc \in {"handle", "writable"}
  /\ Goes(t, "failed")
  /\ UNCHANGED <<cur, page, storage, files, refused, calls>>

FileReturns(t) ==
  /\ job[t].pc \in {"done", "failed"}
  /\ Ends(t)
  /\ UNCHANGED <<cur, page, storage, files, refused, calls>>

(* The tab is closed or reloaded; what was committed stays.                *)
Reload ==
  /\ cur' = NoVault /\ page' = NoVault
  /\ job' = [t \in Tasks |-> Idle]
  /\ saves' = <<>> /\ calls' = 0
  /\ UNCHANGED <<handles, active, files, refused>>

-----------------------------------------------------------------------------
ChangeStep(t) ==
  \/ Restore(t, None) \/ RestoreReads(t) \/ RestoreFails(t) \/ RestoreEnsured(t)
  \/ PermissionGranted(t) \/ PermissionDenied(t) \/ PickerAborts(t) \/ OpensVirtual(t)
  \/ OpenEnsured(t) \/ OpenFails(t)
  \/ \E i \in Ids : Restore(t, i) \/ OpenVault(t, i) \/ CreateVirtualVault(t, i)
  \/ \E d \in Dirs : PickerChooses(t, d)

FileStep(t) ==
  \/ \E p \in Paths :
       \/ FileCall(t, "read", p, Empty) \/ FileCall(t, "delete", p, Empty)
       \/ \E x \in Texts : FileCall(t, "write", p, x)
  \/ EntryTransaction(t) \/ EntryRefused(t) \/ NativeCreates(t) \/ NativeTakes(t)
  \/ NativeRefuses(t) \/ FileReturns(t)

Next ==
  \/ \E t \in Tasks : ChangeStep(t) \/ FileStep(t)
  \/ SaveCommits \/ SaveFails \/ Reload

Spec == Init /\ [][Next]_vars

-----------------------------------------------------------------------------
Holdings == Texts \cup {Missing, Empty}
Handles == {NoVault} \cup [id : Ids, root : Roots]
ChangeJobs == [pc : Changes, id : Ids \cup {None}, root : Dirs \cup {None}]
FileJobs ==
  [pc : {"entry", "handle", "writable", "done", "failed"},
   op : {"read", "write", "delete"}, root : Roots, path : Paths, text : Holdings]

(* Every variable has its type; a saving task is in the queue of saves.    *)
TypeOK ==
  /\ cur \in Handles /\ page \in Handles
  /\ handles \in [Ids -> Roots \cup {None}] /\ active \in Ids \cup {None}
  /\ files \in [Roots -> [Paths -> Holdings]]
  /\ job \in [Tasks -> {Idle} \cup ChangeJobs \cup FileJobs]
  /\ saves \in Seq([task : Tasks, id : Ids, root : Roots \cup {None}])
  /\ \A t \in Tasks :
       (job[t].pc = "saving") <=> \E i \in DOMAIN saves : saves[i].task = t
  /\ refused \in BOOLEAN /\ calls \in 0..MaxCalls

(* However changes of the vault overlap (two clicks in the list, a restore *)
(* during an opening): once all have ended, and until IndexedDB refuses    *)
(* one, the page, the module and the vault that will be restored at the    *)
(* next start are the same one.                                            *)
ChangesAgree ==
  ~refused /\ (\A t \in Tasks : ~Changing(t)) =>
    /\ page = cur
    /\ cur # NoVault => active = cur.id

(* The vault that will be restored at the next start has its handle stored *)
(* beside it (saveHandle, saveVirtualVault, saveActiveVaultId): whatever   *)
(* overlaps until IndexedDB refuses a change, and whatever it refuses as   *)
(* long as the changes do not overlap.                                     *)
ActiveRestorable ==
  ~refused \/ ChangesApart => (active # None => handles[active] # None)

(* No step of any call takes the text of a note away and leaves the file   *)
(* empty: a reload between two awaits of a native write keeps the old text. *)
NeverEmptied ==
  [][\A r \in Roots, p \in Paths : files[r][p] \in Texts => files'[r][p] # Empty]_vars

(* Refinement: whatever overlaps, is refused or cut off by a reload, the   *)
(* asynchronous operations are those of VaultFiles.  A virtual vault's     *)
(* entry goes to the id that the module has when the database is open,     *)
(* which may by then be another vault's, native ones included.             *)
Stage(pc) == IF pc \in {"entry", "handle", "writable"} THEN "called" ELSE pc
AbstractCall(j) ==
  IF j = Idle \/ j.pc \in Changes
  THEN [stage |-> "idle"]
  ELSE [stage |-> Stage(j.pc), op |-> j.op, place |-> j.root, path |-> j.path,
        text |-> j.text]

Files == INSTANCE VaultFiles WITH
  Places <- Roots, open <- {cur.id, cur.root} \ {None},
  calls <- [t \in Tasks |-> AbstractCall(job[t])]

ImplementsVaultFiles == Files!Spec
=============================================================================
