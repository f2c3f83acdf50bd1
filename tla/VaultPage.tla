------------------------------ MODULE VaultPage ------------------------------
(***************************************************************************)
(* The vaults of the web application: the list of Notes.razor, its store   *)
(* in vault-store.js, the vault that is open, and the relay room that is   *)
(* joined for it.  The open vault is known in three places, which a        *)
(* handler assigns one after the other with awaits between: the browser's  *)
(* file system, the session and the page's _activeVaultId.                 *)
(*                                                                         *)
(* One handler of the page runs at a time, and an action is one stretch of *)
(* it between two awaits.  The autosave of the timer runs beside it.  What *)
(* peers send reaches the open vault at any moment and changes nothing of  *)
(* this.  The browser's storage is taken at its word here: its own         *)
(* interleavings are in BrowserVault.                                      *)
(***************************************************************************)
EXTENDS Naturals, FiniteSets

CONSTANTS
  Vaults,         \* vault ids
  Codes,          \* valid sync codes, which name rooms
  NoCode, Absent, \* a vault without a code, no entry for a vault
  None,           \* no vault
  StoreMayFail    \* whether the vault list's IndexedDB may refuse

ASSUME ConstantsAssumption ==
  /\ NoCode \notin Codes /\ Absent \notin Codes /\ NoCode # Absent
  /\ None \notin Vaults
  /\ StoreMayFail \in BOOLEAN

VARIABLES
  fs,         \* the vault the browser's file system works on
  remembered, \* the vault it would restore at the next start
  session,    \* WebVaultSession.CurrentVault
  active,     \* _activeVaultId
  list,       \* _vaults: the code of each vault in it
  stored,     \* what vault-store.js holds
  room,       \* SyncClient.Room, which outlives a disconnection
  socket,     \* the room of the browser's connection, if it has one
  note,       \* the vault that _selectedNote is a file of
  saving,     \* the vault of the note the timer's autosave is writing
  job,        \* the handler under way
  born,       \* history: vaults that have been created
  since,      \* history: how the page came to its vault
  unlisted,   \* history: the store has refused something since the last listing
  overtaken   \* history: the note was cleared while the timer's autosave wrote it

open == <<fs, remembered, born>>
link == <<room, socket>>
notes == <<note, saving, overtaken>>
vars == <<open, session, active, list, stored, link, notes, job, since, unlisted>>

Idle == [op |-> "none", at |-> "idle", vault |-> None, code |-> NoCode]
Listed(v) == v # None /\ list[v] # Absent
Refused == StoreMayFail

Init ==
  /\ fs = None /\ remembered = None /\ session = None /\ active = None
  /\ list = [v \in Vaults |-> Absent] /\ stored = list
  /\ room = NoCode /\ socket = NoCode
  /\ note = None /\ saving = None /\ job = Idle
  /\ born = {} /\ since = "closed" /\ unlisted = FALSE /\ overtaken = FALSE

-----------------------------------------------------------------------------
Starts(op, at, v, code) ==
  /\ job = Idle
  /\ job' = [op |-> op, at |-> at, vault |-> v, code |-> code]
Goes(at) == job' = [job EXCEPT !.at = at]
Ends == job' = Idle

Opens(v) == fs' = v /\ remembered' = v /\ born' = born \cup {v}

(* The page leaves its vault without what SwitchVaultAsync does for that.   *)
Leaves == since' = IF since = "broken" THEN since ELSE "beside"

(* _selectedNote = null.                                                   *)
Deselects == note' = None /\ overtaken' = (overtaken \/ saving # None) /\ UNCHANGED saving
Keeps == UNCHANGED notes

(* VaultOpen.razor gives way to the page.                                  *)
Shown == since # "closed"

CanSendForActiveVault == active # None /\ room # NoCode /\ list[active] = room

(* ListAsync: listVaults returns an empty list when IndexedDB refuses.     *)
ListVaults ==
  \/ list' = stored /\ unlisted' = FALSE
  \/ Refused /\ list' = [v \in Vaults |-> Absent] /\ unlisted' = TRUE

(* ConnectVaultSyncIfActiveAsync.  A disconnection closes the socket and   *)
(* leaves SyncClient its room.                                             *)
ConnectNeverLeaves(v, code) ==      \* mutant: a vault without a code keeps the socket
  IF v # active \/ code = NoCode THEN UNCHANGED link ELSE room' = code /\ socket' = code

ConnectVaultSyncIfActive(v, code) ==
  CASE v # active -> UNCHANGED link
    [] v = active /\ code = NoCode -> socket' = NoCode /\ UNCHANGED room
    [] OTHER -> room' = code /\ socket' = code

(* Its failures are swallowed: nothing was done, or the client has already *)
(* taken the new room when the browser refuses to connect.                 *)
ConnectSwallows(v, code) ==
  /\ v = active /\ (code # NoCode \/ room # NoCode)
  /\ \/ UNCHANGED link
     \/ code # NoCode /\ room' = code /\ socket' \in {socket, code}

(* AutosaveAsync writes to the open vault whatever vault the note's path   *)
(* names.  A path that is not one of the session's vault is refused.       *)
SaveThrows == note # None /\ CanSendForActiveVault /\ note # session

-----------------------------------------------------------------------------
(* VaultOpen.razor: the remembered vault is restored, or one is picked; a  *)
(* refusal leaves the page closed.                                         *)
OpenPage(v) ==
  /\ ~Shown
  /\ v = remembered \/ v \notin born
  /\ Starts("boot", "session", v, NoCode)
  /\ Opens(v)
  /\ UNCHANGED <<session, active, list, stored, link, notes, since, unlisted>>

(* SwitchVaultAsync.                                                       *)
Switch(v) ==
  /\ Shown /\ Listed(v) /\ v # active
  /\ Starts("switch", "save", v, list[v])
  /\ UNCHANGED <<open, session, active, list, stored, link, notes, since, unlisted>>

KeepNote ==                         \* mutant: the note stays selected
  /\ job.at = "save" /\ job.op = "switch"
  /\ Goes("open")
  /\ UNCHANGED <<open, session, active, list, stored, link, notes, since, unlisted>>

SwitchSaves ==
  /\ job.at = "save" /\ job.op = "switch"
  /\ IF SaveThrows THEN Ends /\ Keeps ELSE Goes("open") /\ Deselects
  /\ UNCHANGED <<open, session, active, list, stored, link, since, unlisted>>

SwitchOpens ==
  /\ job.at = "open"
  /\ \/ Opens(job.vault) /\ Goes("session")
     \/ Ends /\ UNCHANGED open      \* refused, aborted or failed
  /\ UNCHANGED <<session, active, list, stored, link, notes, since, unlisted>>

(* AddLocalVaultAsync: the picker opens the vault before the note is saved. *)
AddLocal(v) ==
  /\ Shown /\ v \notin born
  /\ Starts("add", "save", v, NoCode)
  /\ Opens(v) /\ Leaves
  /\ UNCHANGED <<session, active, list, stored, link, notes, unlisted>>

AddSaves ==
  /\ job.at = "save" /\ job.op = "add"
  /\ IF SaveThrows THEN Ends /\ since' = "broken" ELSE Goes("session") /\ UNCHANGED since
  /\ UNCHANGED <<open, session, active, list, stored, link, notes, unlisted>>

(* ConnectNewVaultAsync.                                                   *)
ConnectNew(v, code) ==
  /\ Shown /\ v \notin born
  /\ Starts("new", "session", v, code)
  /\ Opens(v) /\ Leaves
  /\ UNCHANGED <<session, active, list, stored, link, notes, unlisted>>

(* Session.OpenOrCreateAsync.  A directory that cannot be opened, or files *)
(* that cannot be read once the vault is assigned, end the handler with    *)
(* the vault half changed; at a start VaultOpen.razor stays.               *)
SessionOpens ==
  /\ job.at = "session"
  /\ session' = job.vault
  /\ Goes(CASE job.op = "switch" -> "activate" [] job.op = "new" -> "store" [] OTHER -> "enter")
  /\ UNCHANGED <<open, active, list, stored, link, notes, since, unlisted>>

SessionFails ==
  /\ job.at = "session"
  /\ session' \in {session, job.vault}
  /\ since' = IF job.op = "boot" THEN since ELSE "broken"
  /\ Ends
  /\ UNCHANGED <<open, active, list, stored, link, notes, unlisted>>

SwitchActivates ==
  /\ job.at = "activate"
  /\ active' = job.vault
  /\ Goes("reload")
  /\ UNCHANGED <<open, session, list, stored, link, notes, since, unlisted>>

(* ReloadNotesAsync, between the assignment of the active vault and its    *)
(* connection, reads every file and may fail.                              *)
ReloadsNotes ==
  /\ job.at = "reload"
  /\ \/ Goes("connect") /\ UNCHANGED since
     \/ Ends /\ since' = "broken"
  /\ UNCHANGED <<open, session, active, list, stored, link, notes, unlisted>>

(* EnsureVaultEntry: nobody awaits the entry's save, but it is asked for   *)
(* before the listing that follows.                                        *)
Enters ==
  /\ job.at = "enter"
  /\ active' = job.vault
  /\ list' = [list EXCEPT ![job.vault] = IF @ = Absent THEN NoCode ELSE @]
  /\ \/ stored' = IF list = list' THEN stored ELSE [stored EXCEPT ![job.vault] = NoCode]
     \/ Refused /\ UNCHANGED stored
  /\ Goes("list")
  /\ UNCHANGED <<open, session, link, notes, since, unlisted>>

ListsEntered ==
  /\ job.at = "list" /\ job.op \in {"boot", "add"}
  /\ ListVaults
  /\ IF list'[job.vault] = Absent
     THEN Ends /\ since' = "broken"
     ELSE /\ job' = [job EXCEPT !.at = "reload", !.code = list'[job.vault]]
          /\ UNCHANGED since
  /\ UNCHANGED <<open, session, active, stored, link, notes>>

Stores ==
  /\ job.at = "store"
  /\ \/ stored' = [stored EXCEPT ![job.vault] = job.code] /\ Goes("list") /\ UNCHANGED since
     \/ Refused /\ Ends /\ since' = "broken" /\ UNCHANGED stored
  /\ UNCHANGED <<open, session, active, list, link, notes, unlisted>>

ListsNew ==
  /\ job.at = "list" /\ job.op = "new"
  /\ ListVaults
  /\ active' = job.vault
  /\ since' = IF list'[job.vault] = Absent THEN "broken" ELSE since
  /\ Goes("connect")
  /\ UNCHANGED <<open, session, stored, link, notes>>

Connects ==
  /\ job.at = "connect"
  /\ ConnectVaultSyncIfActive(job.vault, job.code)
  /\ since' = IF job.op \in {"boot", "switch"} THEN "entered" ELSE since
  /\ Ends
  /\ UNCHANGED <<open, session, active, list, stored, notes, unlisted>>

ConnectFails ==
  /\ job.at = "connect"
  /\ ConnectSwallows(job.vault, job.code)
  /\ since' = "broken"
  /\ Ends
  /\ UNCHANGED <<open, session, active, list, stored, notes, unlisted>>

-----------------------------------------------------------------------------
(* DeleteVaultAsync.  For the next vault SwitchVaultAsync returns at once, *)
(* because _activeVaultId already names it.                                *)
Delete(v) ==
  /\ Shown /\ Listed(v)
  /\ Starts("delete", "erase", v, NoCode)
  /\ list' = [list EXCEPT ![v] = Absent]
  /\ UNCHANGED <<open, session, active, stored, link, notes, since, unlisted>>

ErasesFirst ==                      \* mutant: First() where there may be none
  /\ job.at = "erase"
  /\ stored' = [stored EXCEPT ![job.vault] = Absent]
  /\ active' = IF job.vault = active THEN list[job.vault] ELSE active
  /\ Ends
  /\ UNCHANGED <<open, session, list, link, notes, since, unlisted>>

Erases ==
  /\ job.at = "erase"
  /\ stored' = [stored EXCEPT ![job.vault] = Absent]
  /\ IF job.vault # active THEN UNCHANGED <<active, notes, since>>
     ELSE /\ IF \E v \in Vaults : Listed(v)
             THEN \E v \in Vaults : Listed(v) /\ active' = v
             ELSE active' = None
          /\ Deselects
          /\ Leaves
  /\ Ends
  /\ UNCHANGED <<open, session, list, link, unlisted>>

EraseRefused ==
  /\ job.at = "erase" /\ Refused
  /\ since' = "broken" /\ unlisted' = TRUE
  /\ Ends
  /\ UNCHANGED <<open, session, active, list, stored, link, notes>>

(* GenerateSyncCodeForModalAsync and ConnectSyncAsync, for a vault that    *)
(* has no code yet.                                                        *)
SetCode(v, code) ==
  /\ Shown /\ Listed(v) /\ list[v] = NoCode
  /\ Starts("code", "keep", v, code)
  /\ list' = [list EXCEPT ![v] = code]
  /\ UNCHANGED <<open, session, active, stored, link, notes, since, unlisted>>

KeepNothing ==                      \* mutant: the code is not stored
  /\ job.at = "keep"
  /\ Goes("connect")
  /\ UNCHANGED <<open, session, active, list, stored, link, notes, since, unlisted>>

KeepsCode ==
  /\ job.at = "keep"
  /\ stored' = [stored EXCEPT ![job.vault] = job.code]
  /\ Goes("connect")
  /\ UNCHANGED <<open, session, active, list, link, notes, since, unlisted>>

KeepRefused ==
  /\ job.at = "keep" /\ Refused
  /\ since' = "broken" /\ unlisted' = TRUE
  /\ Ends
  /\ UNCHANGED <<open, session, active, list, stored, link, notes>>

(* ReconnectSyncAsync.                                                     *)
Reconnect(v) ==
  /\ Shown /\ Listed(v) /\ list[v] # NoCode
  /\ Starts("reconnect", "connect", v, list[v])
  /\ UNCHANGED <<open, session, active, list, stored, link, notes, since, unlisted>>

-----------------------------------------------------------------------------
(* A note of the session is selected or created, which saves the one       *)
(* before.                                                                 *)
SelectNote ==
  /\ job = Idle /\ Shown
  /\ note' = IF SaveThrows THEN note ELSE session
  /\ UNCHANGED <<open, session, active, list, stored, link, saving, overtaken, job, since,
                 unlisted>>

(* The autosave timer fires, also while a handler awaits something; when   *)
(* the file is written the note is selected again, unless that failed.     *)
AutosaveBegins ==
  /\ note # None /\ saving = None
  /\ saving' = note
  /\ UNCHANGED <<open, session, active, list, stored, link, note, overtaken, job, since,
                 unlisted>>

AutosaveEnds ==
  /\ saving # None
  /\ note' \in {saving, note} /\ saving' = None
  /\ UNCHANGED <<open, session, active, list, stored, link, overtaken, job, since, unlisted>>

Reload ==
  /\ fs' = None /\ session' = None /\ active' = None
  /\ room' = NoCode /\ socket' = NoCode /\ job' = Idle
  /\ note' = None /\ saving' = None /\ overtaken' = FALSE
  /\ since' = "closed"
  /\ ListVaults
  /\ UNCHANGED <<remembered, born, stored>>

Next ==
  \/ \E v \in Vaults :
       \/ OpenPage(v) \/ Switch(v) \/ AddLocal(v) \/ Delete(v) \/ Reconnect(v)
       \/ \E c \in Codes : ConnectNew(v, c) \/ SetCode(v, c)
  \/ SwitchSaves \/ SwitchOpens \/ SwitchActivates \/ ReloadsNotes \/ AddSaves
  \/ SessionOpens \/ SessionFails \/ Enters \/ ListsEntered \/ Stores \/ ListsNew
  \/ Connects \/ ConnectFails
  \/ Erases \/ EraseRefused \/ KeepsCode \/ KeepRefused
  \/ SelectNote \/ AutosaveBegins \/ AutosaveEnds \/ Reload

Spec == Init /\ [][Next]_vars

-----------------------------------------------------------------------------
Lists == [Vaults -> Codes \cup {NoCode, Absent}]
MaybeVault == Vaults \cup {None}

(* Every variable has its type; the active vault in particular is a vault  *)
(* or none, also when the last one of the list has been deleted.           *)
TypeOK ==
  /\ fs \in MaybeVault /\ remembered \in MaybeVault /\ session \in MaybeVault
  /\ active \in MaybeVault /\ note \in MaybeVault /\ saving \in MaybeVault
  /\ list \in Lists /\ stored \in Lists
  /\ room \in Codes \cup {NoCode} /\ socket \in Codes \cup {NoCode}
  /\ born \subseteq Vaults
  /\ job \in [op : {"none", "boot", "switch", "add", "new", "delete", "code", "reconnect"},
              at : {"idle", "save", "open", "session", "activate", "reload", "enter", "list",
                    "store", "connect", "erase", "keep"},
              vault : MaybeVault, code : Codes \cup {NoCode}]
  /\ since \in {"closed", "entered", "beside", "broken"}
  /\ unlisted \in BOOLEAN /\ overtaken \in BOOLEAN

(* Between two handlers, whatever vaults were added, connected, switched   *)
(* to or given a code before, file system, session and page have the same  *)
(* vault open, and the browser is connected to the room of its code, which *)
(* SyncClient names too, or to none (ConnectVaultSyncIfActiveAsync);       *)
(* unless a handler failed half way, or the open vault was deleted from    *)
(* the list.                                                               *)
PageAgrees ==
  job = Idle /\ since \in {"entered", "beside"} /\ Listed(session) =>
    /\ fs = session /\ active = session
    /\ socket = list[active]
    /\ list[active] # NoCode => room = list[active]

(* Notes stay in their vault and its room while the page comes to its      *)
(* vaults by a start or by SwitchVaultAsync: whenever an autosave may      *)
(* write, the note is one of the open vault and its change goes to that    *)
(* vault's room, and whenever a peer's change may arrive it comes from the *)
(* room of the open vault.  Not claimed is what arrives between the        *)
(* opening of another vault and its connection, while a vault is being     *)
(* deleted, and what an autosave does that still wrote the note when the   *)
(* switch cleared it.                                                      *)
Changing == job.op = "switch" /\ job.at \in {"session", "activate", "reload", "connect"}

StaysHome ==
  since = "entered" =>
    /\ ~overtaken => \A n \in {note, saving} \ {None} :
         n = fs /\ (CanSendForActiveVault /\ n = session => list[n] = room)
    /\ socket # NoCode /\ ~Changing /\ job.op # "delete" => list[fs] = socket

(* Between two handlers the list shows what the store holds, codes and all,*)
(* until the store refuses something: no vault and no code is lost or      *)
(* comes back at the next start (VaultManager.cs, vault-store.js).         *)
ListMatchesStore == job = Idle /\ ~unlisted => list = stored

(* Between two handlers nobody is connected to a room while the active     *)
(* vault has no code, unless a handler failed half way:                    *)
(* NotesSyncFeedbackTests.cs expects that ConnectVaultSyncIfActiveAsync    *)
(* disconnects then.                                                       *)
DisconnectedWithoutCode ==
  job = Idle /\ since # "broken" /\ Listed(active) /\ list[active] = NoCode => socket = NoCode
=============================================================================
