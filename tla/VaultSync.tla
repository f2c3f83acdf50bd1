------------------------------ MODULE VaultSync ------------------------------
(***************************************************************************)
(* One note in the vaults of two replicas: what the page saves and         *)
(* deletes, how a change of the other is applied (SyncChangeApplier), and  *)
(* the repair after an absence (SyncRepairService).                        *)
(*                                                                         *)
(* A change names the content it was made from by a hash.  A save writes   *)
(* the time into the note, so contents are never equal by chance: the hash *)
(* is the content.  An action is what a handler does between two awaits.   *)
(* A replica handles one message after the other (the chain of             *)
(* sync-client.js) while its user saves and deletes.  The queue and the    *)
(* relay are reduced to one path and one peer; SyncClient and RelayRooms   *)
(* have their interleavings.                                               *)
(***************************************************************************)
EXTENDS Naturals, Sequences

CONSTANTS
  Replicas,    \* two browsers in one room
  Absent,      \* no content: there is no file
  Null,        \* no base hash
  Nothing,     \* no change in the queue
  MaxEvents,   \* bound: saves and deletions of both users, and losses of each other
  MaxWire      \* bound: messages under way when one is sent again

Texts == (Replicas \cup {Nothing}) \X Nat       \* a writer and a number

ASSUME ConstantsAssumption ==
  /\ \E r, o \in Replicas : r # o /\ Replicas = {r, o}
  /\ {Absent, Null} \cap Texts = {} /\ Absent # Null
  /\ Nothing \notin Replicas
  /\ Nothing \notin [text : Texts \cup {Absent}, base : Texts \cup {Null}, sent : BOOLEAN]
  /\ MaxEvents \in Nat /\ MaxWire \in Nat

VARIABLES
  disk,    \* the note's file
  open,    \* whether the note is selected in the page
  job,     \* the save or deletion under way
  queued,  \* pendingByPath: the change that is not acknowledged yet
  wire,    \* messages to a replica, up to the end of its incoming chain
  sees,    \* CanSendNow: connected, and the peer is there
  taken,   \* the message being handled
  up,      \* both are in the room
  had,     \* history: the texts the file has held, the oldest first
  refused, \* history: contents that arrived and were kept apart for a conflict
  held,    \* history: what the files held when the two met, until a user acts
  erased,  \* history: a user has deleted the note
  changes, \* bound: saves and deletions
  parts    \* bound: losses of each other

page == <<open, job>>
link == <<wire, sees, up, parts>>
history == <<had, held, erased, changes>>
vars == <<disk, page, queued, link, taken, refused, history>>

Other(r) == CHOOSE o \in Replicas : o # r
Original == <<Nothing, 0>>
Idle == [at |-> "idle"]
Hash(text) == IF text = Absent THEN Null ELSE text

Stores(r, text) ==
  /\ disk' = [disk EXCEPT ![r] = text]
  /\ had' = [had EXCEPT ![r] = Append(@, text)]

Init ==
  /\ disk = [r \in Replicas |-> Original]
  /\ open = [r \in Replicas |-> TRUE]
  /\ job = [r \in Replicas |-> Idle] /\ taken = job
  /\ queued = [r \in Replicas |-> Nothing]
  /\ wire = [r \in Replicas |-> <<>>]
  /\ sees = [r \in Replicas |-> TRUE] /\ up = TRUE
  /\ had = [r \in Replicas |-> <<Original>>]
  /\ refused = [r \in Replicas |-> {}]
  /\ held = {} /\ erased = FALSE
  /\ changes = 0 /\ parts = 0

-----------------------------------------------------------------------------
(* AutosaveAsync and DeleteNoteAsync: the hash of the file is read, the    *)
(* file is changed, and what it then holds is sent.                        *)
Queues(r, text, base) ==
  queued' = [queued EXCEPT ![r] = [text |-> text, base |-> base, sent |-> FALSE]]

TryReadContentHash(r, op) ==
  /\ job[r] = Idle /\ changes + parts < MaxEvents
  /\ job' = [job EXCEPT ![r] = [at |-> op, base |-> Hash(disk[r])]]
  /\ held' = {}
  /\ UNCHANGED <<disk, open, queued, link, taken, refused, had, erased, changes>>

SaveBegins(r) == open[r] /\ TryReadContentHash(r, "save")

DeleteBegins(r) == (open[r] \/ disk[r] # Absent) /\ TryReadContentHash(r, "delete")

Changes(r, text, at) ==
  /\ changes + parts < MaxEvents /\ changes' = changes + 1
  /\ Stores(r, text)
  /\ job' = [job EXCEPT ![r].at = at]
  /\ UNCHANGED <<open, queued, link, taken, refused, held>>

SaveWrites(r) ==
  /\ job[r].at = "save"
  /\ Changes(r, <<r, changes + 1>>, "saved")
  /\ UNCHANGED erased

DeleteErases(r) ==
  /\ job[r].at = "delete"
  /\ Changes(r, Absent, "deleted")
  /\ erased' = TRUE

SendsWithoutBase(r) ==              \* mutant: the hash that was read is not sent
  /\ job[r].at = "saved"
  /\ IF disk[r] = Absent THEN UNCHANGED queued ELSE Queues(r, disk[r], Null)
  /\ job' = [job EXCEPT ![r] = Idle]
  /\ UNCHANGED <<disk, open, link, taken, refused, history>>

(* The file is read once more; the reading fails if it is gone.            *)
SaveSends(r) ==
  /\ job[r].at = "saved"
  /\ IF disk[r] = Absent THEN UNCHANGED queued ELSE Queues(r, disk[r], job[r].base)
  /\ job' = [job EXCEPT ![r] = Idle]
  /\ UNCHANGED <<disk, open, link, taken, refused, history>>

DeleteSends(r) ==
  /\ job[r].at = "deleted"
  /\ Queues(r, Absent, job[r].base)
  /\ open' = [open EXCEPT ![r] = FALSE]
  /\ job' = [job EXCEPT ![r] = Idle]
  /\ UNCHANGED <<disk, link, taken, refused, history>>

SelectNote(r) ==
  /\ ~open[r] /\ job[r] = Idle /\ disk[r] # Absent
  /\ open' = [open EXCEPT ![r] = TRUE]
  /\ UNCHANGED <<disk, job, queued, link, taken, refused, history>>

-----------------------------------------------------------------------------
(* The queue: a change is sent while the peer is seen, acknowledged once   *)
(* the relay has passed it on, and sent again when that takes too long.    *)
Posts(r, m) == wire' = [wire EXCEPT ![Other(r)] = Append(@, m)]
Unsent(r) == queued[r] # Nothing /\ ~queued[r].sent
InFlight(r) == queued[r] # Nothing /\ queued[r].sent

Flush(r) ==
  /\ sees[r] /\ Unsent(r)
  /\ Posts(r, [kind |-> "change", text |-> queued[r].text, base |-> queued[r].base])
  /\ queued' = [queued EXCEPT ![r].sent = TRUE]
  /\ UNCHANGED <<disk, page, sees, up, parts, taken, refused, history>>

Acknowledged(r) ==
  /\ InFlight(r)
  /\ queued' = [queued EXCEPT ![r] = Nothing]
  /\ UNCHANGED <<disk, page, link, taken, refused, history>>

AckTimesOut(r) ==
  /\ InFlight(r) /\ Len(wire[Other(r)]) < MaxWire
  /\ queued' = [queued EXCEPT ![r].sent = FALSE]
  /\ UNCHANGED <<disk, page, link, taken, refused, history>>

(* The two lose each other, and with it some of what is under way.  The    *)
(* tabs in "closed" are closed meanwhile; only their files stay.           *)
Part ==
  /\ up /\ changes + parts < MaxEvents
  /\ up' = FALSE /\ parts' = parts + 1
  /\ sees' = [r \in Replicas |-> FALSE]
  /\ \E closed \in SUBSET Replicas,
        n \in [Replicas -> UNION {0..Len(wire[r]) : r \in Replicas}] :
       LET Rest(f, empty) == [r \in Replicas |-> IF r \in closed THEN empty ELSE f[r]] IN
       /\ \A r \in Replicas : n[r] <= Len(wire[r]) /\ (r \in closed => n[r] = 0)
       /\ wire' = [r \in Replicas |-> SubSeq(wire[r], 1, n[r])]
       /\ queued' = Rest([r \in Replicas |-> IF queued[r] = Nothing THEN Nothing
                                             ELSE [queued[r] EXCEPT !.sent = FALSE]], Nothing)
       /\ job' = Rest(job, Idle) /\ taken' = Rest(taken, Idle)
       /\ open' = Rest(open, FALSE)
  /\ UNCHANGED <<disk, refused, history>>

Settled ==
  \A r \in Replicas : /\ job[r] = Idle /\ taken[r] = Idle
                      /\ wire[r] = <<>> /\ queued[r] = Nothing

Meet ==
  /\ ~up
  /\ up' = TRUE
  /\ wire' = [r \in Replicas |-> Append(wire[r], [kind |-> "presence"])]
  /\ held' = IF Settled THEN {disk[r] : r \in Replicas} \ {Absent} ELSE {}
  /\ UNCHANGED <<disk, page, queued, sees, parts, taken, refused, had, erased, changes>>

-----------------------------------------------------------------------------
Handles(r, at) == taken' = [taken EXCEPT ![r].at = at]
Handled(r) == taken' = [taken EXCEPT ![r] = Idle]

(* OnMessage.                                                              *)
Receive(r) ==
  /\ taken[r] = Idle /\ wire[r] # <<>>
  /\ LET m == Head(wire[r]) IN
     \/ /\ m.kind = "change" /\ UNCHANGED sees
        /\ taken' = [taken EXCEPT ![r] = [at |-> "exists", text |-> m.text, base |-> m.base]]
     \/ /\ m.kind = "request" /\ UNCHANGED sees
        /\ taken' = [taken EXCEPT ![r] = [at |-> "find", text |-> m.text, base |-> Null]]
     \/ /\ m.kind = "presence" /\ sees' = [sees EXCEPT ![r] = up]
        /\ taken' = [taken EXCEPT ![r] = [at |-> "flush", text |-> Absent, base |-> Null]]
  /\ wire' = [wire EXCEPT ![r] = Tail(@)]
  /\ UNCHANGED <<disk, page, queued, up, parts, refused, history>>

(* ApplyFileAsync and ApplyDeleteAsync: does the file exist, may it be     *)
(* changed, change it.                                                     *)
Exists(r) ==
  /\ taken[r].at = "exists"
  /\ CASE disk[r] = Absent /\ taken[r].text = Absent -> Handled(r)
       [] disk[r] = Absent /\ taken[r].text # Absent -> Handles(r, "write")
       [] disk[r] # Absent /\ <<taken[r].text, taken[r].base>> = <<Absent, Null>> -> Handles(r, "write")
       [] OTHER -> Handles(r, "compare")
  /\ UNCHANGED <<disk, page, queued, link, refused, history>>

ReplacesAnything(r) == TRUE         \* mutant: the base hash is not looked at

MayReplace(r) == taken[r].base \in {Null, disk[r]}

Compare(r) ==
  /\ taken[r].at = "compare"
  /\ CASE disk[r] \in {Absent, taken[r].text} -> Handled(r) /\ UNCHANGED refused
       [] disk[r] \notin {Absent, taken[r].text} /\ MayReplace(r) ->
            Handles(r, "write") /\ UNCHANGED refused
       [] OTHER -> Handled(r) /\ refused' = [refused EXCEPT ![r] = @ \cup {taken[r].text}]
  /\ UNCHANGED <<disk, page, queued, link, history>>

Write(r) ==
  /\ taken[r].at = "write"
  /\ Stores(r, taken[r].text)
  /\ Handled(r)
  /\ UNCHANGED <<page, queued, link, refused, held, erased, changes>>

(* A peer has come: what is queued is sent, then a repair is requested.    *)
BuildManifest(r) ==
  /\ taken[r].at = "flush" /\ (sees[r] => ~Unsent(r))
  /\ taken' = [taken EXCEPT ![r].at = "ask", ![r].text = disk[r]]
  /\ UNCHANGED <<disk, page, queued, link, refused, history>>

AsksUnlessAsked(r) ==               \* mutant: a request that has come counts as one's own
  /\ taken[r].at = "ask"
  /\ IF sees[r] /\ \A i \in DOMAIN wire[r] : wire[r][i].kind # "request"
     THEN Posts(r, [kind |-> "request", text |-> taken[r].text])
     ELSE UNCHANGED wire
  /\ Handled(r)
  /\ UNCHANGED <<disk, page, queued, sees, up, parts, refused, history>>

SendRepairRequest(r) ==
  /\ taken[r].at = "ask"
  /\ IF sees[r] THEN Posts(r, [kind |-> "request", text |-> taken[r].text])
                ELSE UNCHANGED wire
  /\ Handled(r)
  /\ UNCHANGED <<disk, page, queued, sees, up, parts, refused, history>>

FindChanges(r) ==
  /\ taken[r].at = "find"
  /\ IF disk[r] \in {Absent, taken[r].text} THEN Handled(r)
     ELSE taken' = [taken EXCEPT ![r] =
                      [at |-> "answer", text |-> disk[r], base |-> Hash(@.text)]]
  /\ UNCHANGED <<disk, page, queued, link, refused, history>>

TrySendRepairFile(r) ==
  /\ taken[r].at = "answer"
  /\ IF queued[r] = Nothing THEN Queues(r, taken[r].text, taken[r].base) ELSE UNCHANGED queued
  /\ Handled(r)
  /\ UNCHANGED <<disk, page, link, refused, history>>

-----------------------------------------------------------------------------
Next ==
  \/ \E r \in Replicas :
       \/ SaveBegins(r) \/ SaveWrites(r) \/ SaveSends(r)
       \/ DeleteBegins(r) \/ DeleteErases(r) \/ DeleteSends(r) \/ SelectNote(r)
       \/ Flush(r) \/ Acknowledged(r) \/ AckTimesOut(r)
       \/ Receive(r) \/ Exists(r) \/ Compare(r) \/ Write(r)
       \/ BuildManifest(r) \/ SendRepairRequest(r)
       \/ FindChanges(r) \/ TrySendRepairFile(r)
  \/ Part \/ Meet

Spec == Init /\ [][Next]_vars

-----------------------------------------------------------------------------
(* While the two stay connected and nobody deletes, whatever crosses on    *)
(* the wire, arrives twice or is applied during a save: once all is quiet  *)
(* their files are the same, or one has put the other's text aside as a    *)
(* conflict copy (SyncChangeApplier.cs:17, Notes.razor:600).               *)
AgreeAtRest ==
  Settled /\ parts = 0 /\ ~erased =>
    \A r, o \in Replicas :
      disk[r] = disk[o] \/ disk[r] \in refused[o] \/ disk[o] \in refused[r]

(* While the two stay connected and nobody deletes, no file goes back from *)
(* a text to an older one of the same writer, although changes are sent    *)
(* again and a save may send what it has just received (SyncClient.cs:793, *)
(* Notes.razor:609).                                                       *)
Older(t, u) == t # Absent /\ u # Absent /\ t[1] = u[1] /\ t[2] < u[2]

NeverOlder ==
  [][parts = 0 /\ ~erased => \A r \in Replicas : ~Older(disk'[r], disk[r])]_vars

Kept(r) ==
  refused[r] \cup {disk[r]}
  \cup (IF queued[r] = Nothing THEN {} ELSE {queued[r].text})
  \cup (IF taken[r].at \in {"exists", "compare", "write", "answer"} THEN {taken[r].text} ELSE {})
  \cup {wire[r][i].text : i \in {j \in DOMAIN wire[r] : wire[r][j].kind = "change"}}

(* Two replicas that meet with different texts, each having lost what the  *)
(* other sent, overwrite each other's file by their repairs.  Until a user *)
(* touches the note both texts stay: in a file, a conflict copy, or on     *)
(* their way (SyncRepairService.cs:44).                                    *)
RepairKeeps == up => held \subseteq UNION {Kept(r) : r \in Replicas}
=============================================================================
