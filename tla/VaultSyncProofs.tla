-------------------------- MODULE VaultSyncProofs --------------------------
(***************************************************************************)
(* What VaultSync guarantees for any number of saves and of messages sent  *)
(* again.                                                                  *)
(***************************************************************************)
EXTENDS VaultSync, TLAPS

(* The state's types.                                                     *)
Contents == Texts \cup {Absent}
Bases == Texts \cup {Null}
Change == [kind : {"change"}, text : Contents, base : Bases]
Request == [kind : {"request"}, text : Contents]
Presence == [kind : {"presence"}]
Messages == Change \cup Request \cup Presence
Applying == {"exists", "compare", "write"}

Jobs == {Idle} \cup [at : {"save", "saved", "delete", "deleted"}, base : Bases]
Entries == {Nothing} \cup [text : Contents, base : Bases, sent : BOOLEAN]
Tasks == {Idle} \cup [at : Applying \cup {"flush", "ask", "find", "answer"},
                      text : Contents, base : Bases]

TypeOK ==
  /\ disk \in [Replicas -> Contents]
  /\ open \in [Replicas -> BOOLEAN]
  /\ job \in [Replicas -> Jobs]
  /\ queued \in [Replicas -> Entries]
  /\ wire \in [Replicas -> Seq(Messages)]
  /\ sees \in [Replicas -> BOOLEAN] /\ up \in BOOLEAN
  /\ taken \in [Replicas -> Tasks]
  /\ refused \in [Replicas -> SUBSET Contents]
  /\ had \in [Replicas -> Seq(Contents)] /\ held \subseteq Contents
  /\ erased \in BOOLEAN /\ changes \in Nat /\ parts \in Nat

-----------------------------------------------------------------------------
(* The order in which a file has held its texts.                           *)
Holds(s, x) == \E i \in DOMAIN s : s[i] = x
Before(s, x, y) == \E i, j \in DOMAIN s : i < j /\ s[i] = x /\ s[j] = y

(* While the two stay connected and nobody deletes: only changes are under *)
(* way, and each is made from a text its writer's file has held.           *)
Quiet == parts = 0 /\ ~erased

OnlyChanges ==
  /\ up
  /\ \A r \in Replicas :
       /\ disk[r] # Absent
       /\ job[r] # Idle =>
            job[r].at # "deleted" /\ job[r].base \in Texts /\ Holds(had[r], job[r].base)
       /\ taken[r] # Idle => taken[r].at \in Applying
       /\ \A i \in DOMAIN wire[r] : wire[r][i].kind = "change"

(* A file holds the last of its texts, and never a text twice; each text   *)
(* is somebody's, whose texts are numbered upwards; no two texts are held  *)
(* in both orders.                                                         *)
Latest == \A r \in Replicas :
  /\ Holds(had[r], disk[r])
  /\ \A x \in Texts : Holds(had[r], x) => x = disk[r] \/ Before(had[r], x, disk[r])

Written == \A r \in Replicas, x \in Contents : Holds(had[r], x) =>
  /\ x \in Texts /\ x[2] <= changes
  /\ x = Original \/ (x[1] \in Replicas /\ Holds(had[x[1]], x))

OwnInOrder == \A r \in Replicas, x, y \in Texts :
  x[1] = r /\ y[1] = r /\ Before(had[r], x, y) => x[2] < y[2]

NoReturn == \A r \in Replicas, x \in Texts : ~Before(had[r], x, x)

SameOrder == \A r, o \in Replicas, x, y \in Texts :
  r # o /\ Before(had[r], x, y) => ~Before(had[o], y, x)

(* A change names a text its sender had before it.                         *)
Follows(s, text, base) ==
  /\ text \in Texts /\ base \in Texts
  /\ Holds(s, text) /\ Holds(s, base)
  /\ (text = base \/ Before(s, base, text))

Grounded == \A r \in Replicas :
  /\ queued[r] # Nothing => Follows(had[r], queued[r].text, queued[r].base)
  /\ \A i \in DOMAIN wire[r] :
       Follows(had[Other(r)], wire[r][i].text, wire[r][i].base)
  /\ taken[r] # Idle => Follows(had[Other(r)], taken[r].text, taken[r].base)

(* What is about to be written is new to the file, and newer for the other *)
(* than anything the file has held; only one of the two is at that point.  *)
WritesNews == \A r \in Replicas : taken[r].at = "write" =>
  /\ ~Holds(had[r], taken[r].text)
  /\ \A y \in Texts : Holds(had[r], y) => ~Before(had[Other(r)], taken[r].text, y)

OneWrites == \A r \in Replicas : ~(taken[r].at = "write" /\ taken[Other(r)].at = "write")

(* A replica whose file holds what the other's never did is telling it.    *)
Delivered(r, text) ==
  \/ Unsent(r) /\ queued[r].text = text
  \/ \E i \in DOMAIN wire[Other(r)] : wire[Other(r)][i].kind = "change" /\ wire[Other(r)][i].text = text
  \/ taken[Other(r)].at \in Applying /\ taken[Other(r)].text = text
  \/ text \in refused[Other(r)]

Tells == \A r \in Replicas :
  job[r].at = "saved" \/ Delivered(r, disk[r]) \/ Holds(had[Other(r)], disk[r])

OrderInv == Latest /\ Written /\ OwnInOrder /\ NoReturn /\ SameOrder

QuietInv ==
  /\ OnlyChanges /\ OrderInv
  /\ Grounded /\ WritesNews /\ OneWrites /\ Tells

(* The inductive invariant of AgreeAtRest and NeverOlder.                  *)
IInv == TypeOK /\ (Quiet => QuietInv)

-----------------------------------------------------------------------------
(* A repair that no user disturbs, T being what the files held when the    *)
(* two met: each sees its peer, asks, and is answered, in this order.      *)
Has(s, kind) == \E i \in DOMAIN s : s[i].kind = kind

InTurn(s) == \A i, j \in DOMAIN s : i < j =>
  /\ s[j].kind # "presence"
  /\ s[j].kind = "request" => s[i].kind = "presence"

Carries(s, text) == \A i \in DOMAIN s :
  /\ s[i].kind \in {"change", "request"} => s[i].text = text
  /\ s[i].kind = "change" => text # Absent

(* The request that r owes for the presence message, and its answer.       *)
Asking(r) == Has(wire[r], "presence") \/ taken[r].at \in {"flush", "ask"}
Unanswered(r) ==
  Asking(r) \/ Has(wire[Other(r)], "request") \/ taken[Other(r)].at \in {"find", "answer"}

(* Everything under way carries one of the two texts of the meeting, in    *)
(* order.                                                                  *)
Originals(T, r) ==
  /\ job[r] = Idle /\ disk[r] \in {T[r], T[Other(r)]}
  /\ queued[r] # Nothing => queued[r].text = T[r] /\ T[r] # Absent
  /\ taken[r].at \in Applying => taken[r].text = T[Other(r)] /\ T[Other(r)] # Absent
  /\ taken[r].at = "compare" => disk[r] # Absent
  /\ taken[r].at \in {"ask", "answer"} => taken[r].text = T[r]
  /\ taken[r].at = "answer" => T[r] # Absent
  /\ taken[r].at = "find" => taken[r].text = T[Other(r)]
  /\ InTurn(wire[r]) /\ Carries(wire[r], T[Other(r)])

AsksOnce(r) ==
  /\ Has(wire[r], "presence") => taken[r] = Idle
  /\ taken[r].at \in {"flush", "ask"} => sees[r]
  /\ Asking(r) => /\ ~Has(wire[Other(r)], "request") /\ ~Has(wire[Other(r)], "change")
                  /\ taken[Other(r)].at \notin {"find", "answer"} /\ queued[r] = Nothing
  /\ taken[r].at \in {"find", "answer"} => ~Has(wire[r], "request")

(* Until its request is answered neither file changes; then the answer is  *)
(* on its way, written, or put aside.                                      *)
Undisturbed(T, r) ==
  Unanswered(r) =>
    /\ queued[Other(r)] = Nothing /\ ~Has(wire[r], "change")
    /\ taken[r].at \notin Applying /\ disk[r] = T[r]
    /\ taken[Other(r)].at \notin Applying /\ disk[Other(r)] = T[Other(r)]

Answered(T, r) ==
  \/ Unanswered(Other(r)) \/ T[r] \in {Absent, T[Other(r)]}
  \/ Unsent(r) \/ Has(wire[Other(r)], "change") \/ taken[Other(r)].at \in Applying
  \/ disk[Other(r)] = T[r] \/ T[r] \in refused[Other(r)]

Repairing(T) ==
  /\ held = {T[r] : r \in Replicas} \ {Absent}
  /\ \A r \in Replicas : Originals(T, r) /\ AsksOnce(r) /\ Undisturbed(T, r) /\ Answered(T, r)

(* The inductive invariant of RepairKeeps.                                 *)
RepairInv == up /\ held # {} => \E T \in [Replicas -> held \cup {Absent}] : Repairing(T)

-----------------------------------------------------------------------------
(* There are two replicas.                                                 *)
LEMMA OtherOne ==
  ASSUME NEW r \in Replicas
  PROVE  /\ Other(r) \in Replicas /\ Other(r) # r /\ Other(Other(r)) = r
         /\ \A o \in Replicas : o = r \/ o = Other(r)
<1>1. PICK a \in Replicas, b \in Replicas : a # b /\ Replicas = {a, b}
  BY ConstantsAssumption
<1>2. \A q \in Replicas : Other(q) \in Replicas /\ Other(q) # q
  <2> SUFFICES ASSUME NEW q \in Replicas PROVE Other(q) \in Replicas /\ Other(q) # q
    OBVIOUS
  <2>1. \E o \in Replicas : o # q
    BY <1>1
  <2>2. QED
    BY <2>1 DEF Other
<1>3. QED
  BY <1>1, <1>2

(* What the parts of the state are made of.                                *)
LEMMA Constructors ==
  /\ Idle \in Jobs /\ Idle \in Tasks /\ Nothing \in Entries
  /\ Original \in Contents /\ Absent \in Contents /\ Null \in Bases
  /\ \A text \in Contents : Hash(text) \in Bases
<1>1. Original \in Texts
  BY DEF Original, Texts
<1>2. QED
  BY <1>1 DEF Jobs, Tasks, Entries, Contents, Bases, Hash

LEMMA JobParts ==
  /\ \A at \in {"save", "saved", "delete", "deleted"}, base \in Bases :
       [at |-> at, base |-> base] \in Jobs
  /\ \A j \in Jobs : j = Idle \/ j \in [at : {"save", "saved", "delete", "deleted"}, base : Bases]
  /\ \A j \in Jobs, at \in {"saved", "deleted"} :
       j.at # "idle" => j.base \in Bases /\ [j EXCEPT !.at = at] \in Jobs
BY DEF Jobs, Idle

LEMMA EntryParts ==
  /\ \A text \in Contents, base \in Bases, sent \in BOOLEAN :
       [text |-> text, base |-> base, sent |-> sent] \in Entries
  /\ \A e \in Entries : e # Nothing =>
       /\ e \in [text : Contents, base : Bases, sent : BOOLEAN]
       /\ \A sent \in BOOLEAN : [e EXCEPT !.sent = sent] \in Entries
BY DEF Entries

LEMMA TaskParts ==
  /\ \A at \in Applying \cup {"flush", "ask", "find", "answer"}, text \in Contents, base \in Bases :
       [at |-> at, text |-> text, base |-> base] \in Tasks
  /\ \A t \in Tasks : t.at # "idle" =>
       /\ t \in [at : Applying \cup {"flush", "ask", "find", "answer"},
                 text : Contents, base : Bases]
       /\ \A at \in Applying \cup {"ask"}, text \in Contents :
            /\ [t EXCEPT !.at = at] \in Tasks
            /\ [t EXCEPT !.at = at, !.text = text] \in Tasks
<1>1. \A at \in Applying \cup {"flush", "ask", "find", "answer"}, text \in Contents, base \in Bases :
        [at |-> at, text |-> text, base |-> base] \in Tasks
  BY DEF Tasks
<1>2. ASSUME NEW t \in Tasks, t.at # "idle"
      PROVE  t \in [at : Applying \cup {"flush", "ask", "find", "answer"},
                    text : Contents, base : Bases]
  BY <1>2 DEF Tasks, Idle
<1>3. ASSUME NEW t \in Tasks, t.at # "idle",
             NEW at \in Applying \cup {"ask"}, NEW text \in Contents
      PROVE  [t EXCEPT !.at = at] \in Tasks /\ [t EXCEPT !.at = at, !.text = text] \in Tasks
  BY <1>2, <1>3 DEF Tasks
<1>4. QED
  BY <1>1, <1>2, <1>3

LEMMA MessageParts ==
  /\ \A text \in Contents, base \in Bases :
       [kind |-> "change", text |-> text, base |-> base] \in Messages
  /\ \A text \in Contents : [kind |-> "request", text |-> text] \in Messages
  /\ [kind |-> "presence"] \in Messages
  /\ \A m \in Messages :
       /\ m.kind \in {"change", "request", "presence"}
       /\ m.kind # "presence" => m.text \in Contents
       /\ m.kind = "change" => m.base \in Bases
BY DEF Messages, Change, Request, Presence

LEMMA TypeInit == Init => TypeOK
<1> SUFFICES ASSUME Init PROVE TypeOK
  OBVIOUS
<1>1. <<Original>> \in Seq(Contents) /\ <<>> \in Seq(Messages)
  BY Constructors
<1>2. had \in [Replicas -> Seq(Contents)] /\ wire \in [Replicas -> Seq(Messages)]
  BY <1>1 DEF Init
<1>3. QED
  BY <1>2, Constructors DEF Init, TypeOK

LEMMA StoreTypes ==
  ASSUME TypeOK, NEW r \in Replicas, NEW text \in Contents, Stores(r, text)
  PROVE  disk' \in [Replicas -> Contents] /\ had' \in [Replicas -> Seq(Contents)]
<1>1. Append(had[r], text) \in Seq(Contents)
  BY DEF TypeOK
<1>2. QED
  BY <1>1 DEF TypeOK, Stores

LEMMA PostTypes ==
  ASSUME TypeOK, NEW r \in Replicas, NEW m \in Messages, Posts(r, m)
  PROVE  wire' \in [Replicas -> Seq(Messages)]
<1>1. Other(r) \in Replicas
  BY OtherOne
<1>2. Append(wire[Other(r)], m) \in Seq(Messages)
  BY <1>1 DEF TypeOK
<1>3. QED
  BY <1>1, <1>2 DEF TypeOK, Posts

LEMMA QueueTypes ==
  ASSUME TypeOK, NEW r \in Replicas, NEW text \in Contents, NEW base \in Bases,
         Queues(r, text, base)
  PROVE  queued' \in [Replicas -> Entries]
BY EntryParts DEF TypeOK, Queues

LEMMA HandleTypes ==
  ASSUME TypeOK, NEW r \in Replicas
  PROVE  /\ Handled(r) => taken' \in [Replicas -> Tasks]
         /\ \A at \in Applying : taken[r].at # "idle" /\ Handles(r, at) =>
              taken' \in [Replicas -> Tasks]
<1>1. Handled(r) => taken' \in [Replicas -> Tasks]
  BY Constructors DEF TypeOK, Handled
<1>2. ASSUME NEW at \in Applying, taken[r].at # "idle", Handles(r, at)
      PROVE  taken' \in [Replicas -> Tasks]
  <2>1. [taken[r] EXCEPT !.at = at] \in Tasks
    BY <1>2, TaskParts DEF TypeOK
  <2>2. QED
    BY <1>2, <2>1 DEF TypeOK, Handles
<1>3. QED
  BY <1>1, <1>2

LEMMA TypeUserSteps ==
  ASSUME TypeOK, NEW r \in Replicas,
         \/ SaveBegins(r) \/ SaveWrites(r) \/ SaveSends(r)
         \/ DeleteBegins(r) \/ DeleteErases(r) \/ DeleteSends(r) \/ SelectNote(r)
  PROVE  TypeOK'
<1>1. CASE SaveBegins(r) \/ DeleteBegins(r)
  <2>1. Hash(disk[r]) \in Bases
    BY Constructors DEF TypeOK
  <2>2. \A op \in {"save", "delete"} : [at |-> op, base |-> Hash(disk[r])] \in Jobs
    BY <2>1, JobParts
  <2>3. PICK op \in {"save", "delete"} : TryReadContentHash(r, op)
    BY <1>1 DEF SaveBegins, DeleteBegins
  <2>4. job' = [job EXCEPT ![r] = [at |-> op, base |-> Hash(disk[r])]]
    BY <2>3 DEF TryReadContentHash
  <2>5. job' \in [Replicas -> Jobs]
    BY <2>2, <2>4 DEF TypeOK
  <2>6. QED
    BY <2>3, <2>5 DEF TryReadContentHash, DeleteBegins, TryReadContentHash, TypeOK, history, link
<1>2. CASE SaveWrites(r)
  <2>1. <<r, changes + 1>> \in Contents
    BY DEF TypeOK, Texts, Contents
  <2>2. Stores(r, <<r, changes + 1>>)
    BY <1>2 DEF SaveWrites, Changes
  <2>3. disk' \in [Replicas -> Contents] /\ had' \in [Replicas -> Seq(Contents)]
    BY <2>1, <2>2, StoreTypes
  <2>4. job' \in [Replicas -> Jobs]
    BY <1>2, JobParts DEF SaveWrites, Changes, TypeOK
  <2>5. QED
    BY <1>2, <2>3, <2>4 DEF SaveWrites, Changes, TypeOK, link
<1>3. CASE DeleteErases(r)
  <2>1. Stores(r, Absent) /\ Absent \in Contents
    BY <1>3 DEF DeleteErases, Changes, Contents
  <2>2. disk' \in [Replicas -> Contents] /\ had' \in [Replicas -> Seq(Contents)]
    BY <2>1, StoreTypes
  <2>3. job' \in [Replicas -> Jobs]
    BY <1>3, JobParts DEF DeleteErases, Changes, TypeOK
  <2>4. QED
    BY <1>3, <2>2, <2>3 DEF DeleteErases, Changes, TypeOK, link
<1>4. CASE SaveSends(r)
  <2>1. disk[r] \in Contents /\ job[r].base \in Bases
    BY <1>4, JobParts DEF SaveSends, TypeOK, Idle
  <2>2. queued' \in [Replicas -> Entries]
    BY <1>4, <2>1, QueueTypes DEF SaveSends, TypeOK
  <2>3. QED
    BY <1>4, <2>2, Constructors DEF SaveSends, TypeOK, history, link
<1>5. CASE DeleteSends(r)
  <2>1. Absent \in Contents /\ job[r].base \in Bases
    BY <1>5, JobParts, Constructors DEF DeleteSends, TypeOK, Idle
  <2>2. queued' \in [Replicas -> Entries]
    BY <1>5, <2>1, QueueTypes DEF DeleteSends
  <2>3. QED
    BY <1>5, <2>2, Constructors DEF DeleteSends, TypeOK, history, link
<1>6. CASE SelectNote(r)
  BY <1>6 DEF SelectNote, TypeOK, history, link
<1>7. QED
  BY <1>1, <1>2, <1>3, <1>4, <1>5, <1>6

LEMMA TypeQueueSteps ==
  ASSUME TypeOK, NEW r \in Replicas, Flush(r) \/ Acknowledged(r) \/ AckTimesOut(r)
  PROVE  TypeOK'
<1>1. queued[r] \in [text : Contents, base : Bases, sent : BOOLEAN]
  BY EntryParts DEF TypeOK, Flush, Acknowledged, AckTimesOut, Unsent, InFlight
<1>2. CASE Flush(r)
  <2> DEFINE m == [kind |-> "change", text |-> queued[r].text, base |-> queued[r].base]
  <2>1. m \in Messages /\ Posts(r, m)
    BY <1>1, <1>2, MessageParts DEF Flush
  <2>2. wire' \in [Replicas -> Seq(Messages)]
    BY <2>1, PostTypes
  <2>3. queued' \in [Replicas -> Entries]
    BY <1>1, <1>2, EntryParts DEF Flush, TypeOK, Unsent
  <2>4. QED
    BY <1>2, <2>2, <2>3 DEF Flush, TypeOK, page, history
<1>3. CASE Acknowledged(r) \/ AckTimesOut(r)
  <2>1. queued' \in [Replicas -> Entries]
    <3>1. [queued[r] EXCEPT !.sent = FALSE] \in Entries
      BY <1>1, EntryParts DEF TypeOK, Entries
    <3>2. queued' = [queued EXCEPT ![r] = Nothing]
          \/ queued' = [queued EXCEPT ![r] = [queued[r] EXCEPT !.sent = FALSE]]
      BY <1>3 DEF Acknowledged, AckTimesOut
    <3>3. QED
      BY <3>1, <3>2, Constructors DEF TypeOK
  <2>2. QED
    BY <1>3, <2>1 DEF Acknowledged, AckTimesOut, TypeOK, page, link, history
<1>4. QED
  BY <1>2, <1>3

LEMMA TypeReceive == ASSUME TypeOK, NEW r \in Replicas, Receive(r) PROVE TypeOK'
<1>1. Head(wire[r]) \in Messages /\ Tail(wire[r]) \in Seq(Messages)
  BY DEF Receive, TypeOK
<1>2. wire' \in [Replicas -> Seq(Messages)]
  BY <1>1 DEF Receive, TypeOK
<1> DEFINE m == Head(wire[r])
<1>3. PICK t \in Tasks : taken' = [taken EXCEPT ![r] = t]
  <2>1. CASE m.kind = "change"
    BY <1>1, <2>1, MessageParts, TaskParts DEF Receive, Applying
  <2>2. CASE m.kind = "request"
    BY <1>1, <2>2, MessageParts, TaskParts, Constructors DEF Receive
  <2>3. CASE m.kind = "presence"
    BY <1>1, <2>3, MessageParts, TaskParts, Constructors DEF Receive
  <2>4. QED
    BY <2>1, <2>2, <2>3 DEF Receive
<1>4. sees' \in [Replicas -> BOOLEAN]
  BY DEF Receive, TypeOK
<1>5. QED
  BY <1>2, <1>3, <1>4 DEF Receive, TypeOK, page, history

LEMMA TypeHandlingSteps ==
  ASSUME TypeOK, NEW r \in Replicas,
         \/ Exists(r) \/ Compare(r) \/ Write(r)
         \/ BuildManifest(r) \/ SendRepairRequest(r)
         \/ FindChanges(r) \/ TrySendRepairFile(r)
  PROVE  TypeOK'
<1>1. taken[r].at # "idle" =>
        taken[r] \in [at : Applying \cup {"flush", "ask", "find", "answer"}, text : Contents, base : Bases]
  BY TaskParts DEF TypeOK
<1>2. disk[r] \in Contents
  BY DEF TypeOK
<1>3. CASE Exists(r)
  <2>1. taken' \in [Replicas -> Tasks]
    BY <1>3, HandleTypes DEF Exists, Applying
  <2>2. QED
    BY <1>3, <2>1 DEF Exists, TypeOK, page, link, history
<1>4. CASE Compare(r)
  <2>1. taken' \in [Replicas -> Tasks]
    BY <1>4, HandleTypes DEF Compare, Applying
  <2>2. refused' \in [Replicas -> SUBSET Contents]
    BY <1>1, <1>4 DEF Compare, TypeOK
  <2>3. QED
    BY <1>4, <2>1, <2>2 DEF Compare, TypeOK, page, link, history
<1>5. CASE Write(r)
  <2>1. taken' \in [Replicas -> Tasks]
    BY <1>5, HandleTypes DEF Write
  <2>2. disk' \in [Replicas -> Contents] /\ had' \in [Replicas -> Seq(Contents)]
    BY <1>1, <1>5, StoreTypes DEF Write
  <2>3. QED
    BY <1>5, <2>1, <2>2 DEF Write, TypeOK, page, link
<1>6. CASE BuildManifest(r)
  <2>1. taken' \in [Replicas -> Tasks]
    BY <1>2, <1>6, TaskParts DEF BuildManifest, TypeOK
  <2>2. QED
    BY <1>6, <2>1 DEF BuildManifest, TypeOK, page, link, history
<1>7. CASE SendRepairRequest(r)
  <2>1. taken' \in [Replicas -> Tasks]
    BY <1>7, HandleTypes DEF SendRepairRequest
  <2>2. [kind |-> "request", text |-> taken[r].text] \in Messages
    BY <1>1, <1>7, MessageParts DEF SendRepairRequest
  <2>3. wire' \in [Replicas -> Seq(Messages)]
    BY <1>7, <2>2, PostTypes DEF SendRepairRequest, TypeOK
  <2>4. QED
    BY <1>7, <2>1, <2>3 DEF SendRepairRequest, TypeOK, page, history
<1>8. CASE FindChanges(r)
  <2>1. Hash(taken[r].text) \in Bases
    BY <1>1, <1>8, Constructors DEF FindChanges
  <2>2. taken' \in [Replicas -> Tasks]
    <3>1. [at |-> "answer", text |-> disk[r], base |-> Hash(taken[r].text)] \in Tasks
      BY <1>2, <2>1, TaskParts
    <3>2. taken' = [taken EXCEPT ![r] = [at |-> "answer", text |-> disk[r],
                                         base |-> Hash(taken[r].text)]]
          \/ Handled(r)
      BY <1>8 DEF FindChanges, TypeOK
    <3>3. QED
      BY <3>1, <3>2, HandleTypes DEF TypeOK
  <2>3. QED
    BY <1>8, <2>2 DEF FindChanges, TypeOK, page, link, history
<1>9. CASE TrySendRepairFile(r)
  <2>1. taken' \in [Replicas -> Tasks]
    BY <1>9, HandleTypes DEF TrySendRepairFile
  <2>2. queued' \in [Replicas -> Entries]
    BY <1>1, <1>9, QueueTypes DEF TrySendRepairFile, TypeOK
  <2>3. QED
    BY <1>9, <2>1, <2>2 DEF TrySendRepairFile, TypeOK, page, link, history
<1>10. QED
  BY <1>3, <1>4, <1>5, <1>6, <1>7, <1>8, <1>9

LEMMA TypePart == ASSUME TypeOK, Part PROVE TypeOK'
<1>1. PICK closed \in SUBSET Replicas,
           n \in [Replicas -> UNION {0..Len(wire[r]) : r \in Replicas}] :
        LET Rest(f, empty) == [r \in Replicas |-> IF r \in closed THEN empty ELSE f[r]] IN
        /\ \A r \in Replicas : n[r] <= Len(wire[r]) /\ (r \in closed => n[r] = 0)
        /\ wire' = [r \in Replicas |-> SubSeq(wire[r], 1, n[r])]
        /\ queued' = Rest([r \in Replicas |-> IF queued[r] = Nothing THEN Nothing
                                              ELSE [queued[r] EXCEPT !.sent = FALSE]], Nothing)
        /\ job' = Rest(job, Idle) /\ taken' = Rest(taken, Idle)
        /\ open' = Rest(open, FALSE)
  BY Zenon DEF Part
<1>2. wire' \in [Replicas -> Seq(Messages)]
  <2> SUFFICES ASSUME NEW r \in Replicas PROVE SubSeq(wire[r], 1, n[r]) \in Seq(Messages)
    BY <1>1
  <2>1. wire[r] \in Seq(Messages) /\ n[r] \in Nat /\ n[r] <= Len(wire[r])
    <3>1. n[r] \in UNION {0..Len(wire[q]) : q \in Replicas}
      OBVIOUS
    <3>2. \A q \in Replicas : 0..Len(wire[q]) \subseteq Nat
      OBVIOUS
    <3>3. QED
      BY <1>1, <3>1, <3>2 DEF TypeOK
  <2>2. QED
    BY <2>1
<1>3. queued' \in [Replicas -> Entries]
  <2> SUFFICES ASSUME NEW r \in Replicas, queued[r] # Nothing
               PROVE  [queued[r] EXCEPT !.sent = FALSE] \in Entries
    BY <1>1, Constructors
  <2>1. QED
    BY EntryParts DEF TypeOK
<1>4. job' \in [Replicas -> Jobs] /\ taken' \in [Replicas -> Tasks]
  BY <1>1, Constructors DEF TypeOK
<1>5. open' \in [Replicas -> BOOLEAN]
  BY <1>1 DEF TypeOK
<1>6. /\ up' \in BOOLEAN /\ parts' \in Nat /\ sees' \in [Replicas -> BOOLEAN]
      /\ UNCHANGED <<disk, refused, had, held, erased, changes>>
  <2>1. up' = FALSE /\ parts' = parts + 1 /\ sees' = [r \in Replicas |-> FALSE]
    BY Zenon DEF Part
  <2>2. UNCHANGED <<disk, refused, history>>
    BY Zenon DEF Part
  <2>3. UNCHANGED <<disk, refused, had, held, erased, changes>>
    BY <2>2 DEF history
  <2>4. up' \in BOOLEAN
    BY <2>1
  <2>5. parts' \in Nat /\ sees' \in [Replicas -> BOOLEAN]
    BY <2>1 DEF TypeOK
  <2>6. QED
    BY <2>3, <2>4, <2>5
<1>7. QED
  BY <1>2, <1>3, <1>4, <1>5, <1>6 DEF TypeOK

LEMMA TypeMeet == ASSUME TypeOK, Meet PROVE TypeOK'
<1>1. wire' \in [Replicas -> Seq(Messages)]
  <2> SUFFICES ASSUME NEW r \in Replicas
               PROVE  Append(wire[r], [kind |-> "presence"]) \in Seq(Messages)
    BY DEF Meet
  <2>1. [kind |-> "presence"] \in Messages
    BY MessageParts
  <2>2. QED
    BY <2>1 DEF TypeOK
<1>2. held' \subseteq Contents
  BY DEF Meet, TypeOK
<1>3. QED
  BY <1>1, <1>2 DEF Meet, TypeOK, page

LEMMA TypeStep == ASSUME TypeOK, [Next]_vars PROVE TypeOK'
<1>1. CASE UNCHANGED vars
  <2>1. UNCHANGED <<disk, open, job, queued, wire, sees, up, parts, taken, refused,
                    had, held, erased, changes>>
    BY <1>1 DEF vars, page, link, history
  <2>2. QED
    BY <2>1 DEF TypeOK
<1>2. CASE Next
  BY <1>2, TypeUserSteps, TypeQueueSteps, TypeReceive, TypeHandlingSteps, TypePart, TypeMeet DEF Next
<1>3. QED
  BY <1>1, <1>2

-----------------------------------------------------------------------------
(* What a file has held, and in which order.                               *)
LEMMA HoldsAppend ==
  ASSUME NEW S, NEW s \in Seq(S), NEW t \in S
  PROVE  /\ \A x : Holds(Append(s, t), x) <=> Holds(s, x) \/ x = t
         /\ \A x, y : Before(Append(s, t), x, y) <=> Before(s, x, y) \/ (Holds(s, x) /\ y = t)
<1> DEFINE u == Append(s, t)
<1>1. /\ DOMAIN u = 1..(Len(s) + 1) /\ DOMAIN s = 1..Len(s) /\ Len(s) \in Nat
      /\ u[Len(s) + 1] = t /\ \A i \in DOMAIN s : u[i] = s[i]
  OBVIOUS
<1>2. \A i \in DOMAIN u : i \in DOMAIN s \/ i = Len(s) + 1
  BY <1>1
<1>3. Len(s) + 1 \in DOMAIN u /\ \A i \in DOMAIN s : i \in DOMAIN u /\ i < Len(s) + 1
  BY <1>1
<1> HIDE DEF u
<1>4. \A x : Holds(u, x) <=> Holds(s, x) \/ x = t
  BY <1>1, <1>2, <1>3 DEF Holds
<1>5. ASSUME NEW x, NEW y, Before(u, x, y) PROVE Before(s, x, y) \/ (Holds(s, x) /\ y = t)
  <2>1. PICK i, j : i \in DOMAIN u /\ j \in DOMAIN u /\ i < j /\ u[i] = x /\ u[j] = y
    BY <1>5 DEF Before
  <2>2. i \in DOMAIN s
    BY <1>1, <1>2, <2>1
  <2>3. CASE j \in DOMAIN s
    BY <1>1, <2>1, <2>2, <2>3 DEF Before
  <2>4. CASE j = Len(s) + 1
    BY <1>1, <2>1, <2>2, <2>4 DEF Holds
  <2>5. QED
    BY <1>2, <2>1, <2>3, <2>4
<1>6. ASSUME NEW x, NEW y, Before(s, x, y) \/ (Holds(s, x) /\ y = t) PROVE Before(u, x, y)
  <2>1. CASE Before(s, x, y)
    BY <1>1, <1>3, <2>1 DEF Before
  <2>2. CASE Holds(s, x) /\ y = t
    BY <1>1, <1>3, <2>2 DEF Before, Holds
  <2>3. QED
    BY <1>6, <2>1, <2>2
<1>7. QED
  BY <1>4, <1>5, <1>6 DEF u

LEMMA BeforeHolds ==
  ASSUME NEW s, NEW x, NEW y, Before(s, x, y) PROVE Holds(s, x) /\ Holds(s, y)
BY DEF Before, Holds

LEMMA BeforeTransitive ==
  ASSUME NEW S, NEW s \in Seq(S), NEW x, NEW y, NEW z,
         Before(s, x, y), Before(s, y, z), ~Before(s, y, y)
  PROVE  Before(s, x, z)
<1>1. PICK i, j : i \in DOMAIN s /\ j \in DOMAIN s /\ i < j /\ s[i] = x /\ s[j] = y
  BY DEF Before
<1>2. PICK k, l : k \in DOMAIN s /\ l \in DOMAIN s /\ k < l /\ s[k] = y /\ s[l] = z
  BY DEF Before
<1>3. i \in Nat /\ j \in Nat /\ k \in Nat /\ l \in Nat
  BY <1>1, <1>2
<1>4. ~(j < k) /\ ~(k < j)
  BY <1>1, <1>2 DEF Before
<1>5. i < l
  BY <1>1, <1>2, <1>3, <1>4
<1>6. QED
  BY <1>1, <1>2, <1>5 DEF Before

LEMMA BeforeTotal ==
  ASSUME NEW S, NEW s \in Seq(S), NEW x, NEW y, Holds(s, x), Holds(s, y), x # y
  PROVE  Before(s, x, y) \/ Before(s, y, x)
<1>1. PICK i \in DOMAIN s : s[i] = x
  BY DEF Holds
<1>2. PICK j \in DOMAIN s : s[j] = y
  BY DEF Holds
<1>3. i \in Nat /\ j \in Nat /\ i # j
  BY <1>1, <1>2
<1>4. QED
  BY <1>1, <1>2, <1>3 DEF Before

(* Storing a text appends it to what the file has held.                    *)
LEMMA Stored ==
  ASSUME TypeOK, NEW r \in Replicas, NEW text \in Contents, Stores(r, text)
  PROVE  /\ disk'[r] = text /\ \A q \in Replicas : q # r => disk'[q] = disk[q] /\ had'[q] = had[q]
         /\ \A q \in Replicas : \A x : Holds(had'[q], x) <=> Holds(had[q], x) \/ (q = r /\ x = text)
         /\ \A q \in Replicas : \A x, y :
              Before(had'[q], x, y) <=>
                Before(had[q], x, y) \/ (q = r /\ Holds(had[r], x) /\ y = text)
<1>1. had[r] \in Seq(Contents)
  BY DEF TypeOK
<1>2. disk'[r] = text /\ had'[r] = Append(had[r], text)
  BY DEF Stores, TypeOK
<1>3. \A q \in Replicas : q # r => disk'[q] = disk[q] /\ had'[q] = had[q]
  BY DEF Stores, TypeOK
<1>4. /\ \A x : Holds(had'[r], x) <=> Holds(had[r], x) \/ x = text
      /\ \A x, y : Before(had'[r], x, y) <=> Before(had[r], x, y) \/ (Holds(had[r], x) /\ y = text)
  BY <1>1, <1>2, HoldsAppend
<1>5. QED
  BY <1>2, <1>3, <1>4

(* A text that the file has not held, and that the other file has not held *)
(* before one that this file has, keeps the order.                         *)
LEMMA StoreKeepsOrder ==
  ASSUME TypeOK, Latest, NoReturn, SameOrder,
         NEW r \in Replicas, NEW text \in Texts, Stores(r, text), ~Holds(had[r], text),
         \A y \in Texts : Holds(had[r], y) => ~Before(had[Other(r)], text, y)
  PROVE  Latest' /\ NoReturn' /\ SameOrder'
<1>1. text \in Contents
  BY DEF Contents
<1>2. /\ disk'[r] = text /\ \A q \in Replicas : q # r => disk'[q] = disk[q]
      /\ \A q \in Replicas : \A x : Holds(had'[q], x) <=> Holds(had[q], x) \/ (q = r /\ x = text)
      /\ \A q \in Replicas : \A x, y :
           Before(had'[q], x, y) <=>
             Before(had[q], x, y) \/ (q = r /\ Holds(had[r], x) /\ y = text)
  BY <1>1, Stored
<1>3. Latest'
  <2> SUFFICES ASSUME NEW q \in Replicas
               PROVE  /\ Holds(had'[q], disk'[q])
                      /\ \A x \in Texts : Holds(had'[q], x) => x = disk'[q] \/ Before(had'[q], x, disk'[q])
    BY DEF Latest
  <2>1. CASE q = r
    BY <1>2, <2>1 DEF Latest
  <2>2. CASE q # r
    BY <1>2, <2>2 DEF Latest
  <2>3. QED
    BY <2>1, <2>2
<1>4. NoReturn'
  BY <1>2 DEF NoReturn
<1>5. SameOrder'
  <2> SUFFICES ASSUME NEW q \in Replicas, NEW o \in Replicas, NEW x \in Texts, NEW y \in Texts,
                      q # o, Before(had'[q], x, y), Before(had'[o], y, x)
               PROVE  FALSE
    BY DEF SameOrder
  <2>1. CASE q # r /\ o # r
    BY <1>2, <2>1 DEF SameOrder
  <2>2. CASE q = r
    <3>1. o = Other(r) /\ o # r
      BY <2>2, OtherOne
    <3>2. Before(had[o], y, x)
      BY <1>2, <3>1
    <3>3. QED
      BY <1>2, <2>2, <3>1, <3>2 DEF SameOrder
  <2>3. CASE o = r
    <3>1. q = Other(r) /\ q # r
      BY <2>3, OtherOne
    <3>2. Before(had[q], x, y)
      BY <1>2, <3>1
    <3>3. QED
      BY <1>2, <2>3, <3>1, <3>2 DEF SameOrder
  <2>4. QED
    BY <2>1, <2>2, <2>3
<1>6. QED
  BY <1>3, <1>4, <1>5

-----------------------------------------------------------------------------
(* While the two stay connected and nobody deletes.                        *)
LEMMA QuietInit == Init => QuietInv
<1> SUFFICES ASSUME Init PROVE QuietInv
  OBVIOUS
<1>1. \A r \in Replicas : /\ disk[r] = Original /\ had[r] = <<Original>>
                          /\ job[r] = Idle /\ taken[r] = Idle
                          /\ queued[r] = Nothing /\ wire[r] = <<>>
  BY DEF Init
<1>2. \A x : Holds(<<Original>>, x) <=> x = Original
  BY DEF Holds
<1>3. \A x, y : ~Before(<<Original>>, x, y)
  BY DEF Before
<1>4. Original \in Texts /\ Original # Absent /\ Original[2] = 0
  BY ConstantsAssumption DEF Original, Texts
<1>5. \A r \in Replicas : taken[r].at = "idle"
  <2>1. Idle.at = "idle"
    BY DEF Idle
  <2>2. QED
    BY <1>1, <2>1
<1>6. OnlyChanges
  BY <1>1, <1>4 DEF OnlyChanges, Init
<1>7. OrderInv
  BY <1>1, <1>2, <1>3, <1>4 DEF OrderInv, Latest, Written, OwnInOrder, NoReturn, SameOrder, Init
<1>8. Grounded
  <2>1. DOMAIN <<>> = {}
    OBVIOUS
  <2>2. \A r \in Replicas : DOMAIN wire[r] = {}
    BY <1>1, <2>1
  <2>3. QED
    BY <1>1, <2>2 DEF Grounded
<1>9. WritesNews /\ OneWrites
  BY <1>5 DEF WritesNews, OneWrites
<1>10. Tells
  BY <1>1, <1>2, OtherOne DEF Tells
<1>11. QED
  BY <1>6, <1>7, <1>8, <1>9, <1>10 DEF QuietInv

LEMMA OrderKept ==
  ASSUME OrderInv, UNCHANGED <<disk, had, changes>> PROVE OrderInv'
BY DEF OrderInv, Latest, Written, OwnInOrder, NoReturn, SameOrder

LEMMA QuietBegins ==
  ASSUME TypeOK, QuietInv, NEW r \in Replicas, SaveBegins(r) \/ DeleteBegins(r)
  PROVE  QuietInv'
<1>1. /\ UNCHANGED <<disk, queued, wire, up, taken, refused, had, changes>>
      /\ job[r] = Idle /\ \A q \in Replicas : q # r => job'[q] = job[q]
      /\ job'[r].at \in {"save", "delete"} /\ job'[r].base = Hash(disk[r])
  BY DEF SaveBegins, DeleteBegins, TryReadContentHash, TypeOK, link
<1>2. disk[r] \in Texts /\ Hash(disk[r]) = disk[r] /\ Holds(had[r], disk[r])
  BY DEF QuietInv, OnlyChanges, OrderInv, Latest, TypeOK, Contents, Hash
<1>3. OnlyChanges'
  BY <1>1, <1>2 DEF QuietInv, OnlyChanges
<1>4. OrderInv'
  BY <1>1, OrderKept DEF QuietInv
<1>5. Grounded' /\ WritesNews' /\ OneWrites'
  BY <1>1 DEF QuietInv, Grounded, WritesNews, OneWrites
<1>6. Tells'
  BY <1>1 DEF QuietInv, Tells, Delivered, Unsent, Idle
<1>7. QED
  BY <1>3, <1>4, <1>5, <1>6 DEF QuietInv

LEMMA QuietSelect ==
  ASSUME TypeOK, QuietInv, NEW r \in Replicas, SelectNote(r) PROVE QuietInv'
<1>1. UNCHANGED <<disk, job, queued, wire, up, taken, refused, had, changes>>
  BY DEF SelectNote, link, history
<1>2. OrderInv'
  BY <1>1, OrderKept DEF QuietInv
<1>3. QED
  BY <1>1, <1>2 DEF QuietInv, OnlyChanges, Grounded, WritesNews, OneWrites, Tells, Delivered, Unsent

LEMMA QuietSaveWrites ==
  ASSUME TypeOK, QuietInv, NEW r \in Replicas, SaveWrites(r)
  PROVE  QuietInv'
<1> DEFINE new == <<r, changes + 1>>
<1>1. /\ UNCHANGED <<queued, wire, up, taken, refused>>
      /\ job[r].at = "save" /\ Stores(r, new) /\ changes \in Nat /\ changes' = changes + 1
      /\ job' = [job EXCEPT ![r].at = "saved"]
  BY DEF SaveWrites, Changes, TypeOK, link
<1>2. new \in Texts /\ new \in Contents /\ new # Absent /\ new[1] = r /\ new[2] = changes + 1
  BY <1>1, ConstantsAssumption DEF Texts, Contents
<1> HIDE DEF new
<1>3. \A q \in Replicas : ~Holds(had[q], new)
  BY <1>1, <1>2 DEF QuietInv, OrderInv, Written
<1>4. \A q \in Replicas : \A x : ~Before(had[q], new, x) /\ ~Before(had[q], x, new)
  BY <1>3, BeforeHolds
<1>5. /\ disk'[r] = new /\ \A q \in Replicas : q # r => disk'[q] = disk[q]
      /\ \A q \in Replicas : \A x : Holds(had'[q], x) <=> Holds(had[q], x) \/ (q = r /\ x = new)
      /\ \A q \in Replicas : \A x, y :
           Before(had'[q], x, y) <=> Before(had[q], x, y) \/ (q = r /\ Holds(had[r], x) /\ y = new)
  BY <1>1, <1>2, Stored
<1>6. Latest' /\ NoReturn' /\ SameOrder'
  BY <1>1, <1>2, <1>3, <1>4, OtherOne, StoreKeepsOrder DEF QuietInv, OrderInv
<1>7. Written'
  <2> SUFFICES ASSUME NEW q \in Replicas, NEW x \in Contents, Holds(had'[q], x)
               PROVE  /\ x \in Texts /\ x[2] <= changes'
                      /\ x = Original \/ (x[1] \in Replicas /\ Holds(had'[x[1]], x))
    BY DEF Written
  <2>1. CASE Holds(had[q], x)
    <3>1. /\ x \in Texts /\ x[2] <= changes
          /\ x = Original \/ (x[1] \in Replicas /\ Holds(had[x[1]], x))
      BY <2>1 DEF QuietInv, OrderInv, Written
    <3>2. x[2] \in Nat
      BY <3>1 DEF Texts
    <3>3. x[2] <= changes'
      BY <1>1, <3>1, <3>2
    <3>4. x[1] \in Replicas /\ Holds(had[x[1]], x) => Holds(had'[x[1]], x)
      BY <1>5
    <3>5. QED
      BY <3>1, <3>3, <3>4
  <2>2. CASE q = r /\ x = new
    BY <1>1, <1>2, <1>5, <2>2
  <2>3. QED
    BY <1>5, <2>1, <2>2
<1>8. OwnInOrder'
  <2> SUFFICES ASSUME NEW q \in Replicas, NEW x \in Texts, NEW y \in Texts,
                      x[1] = q, y[1] = q, Before(had'[q], x, y)
               PROVE  x[2] < y[2]
    BY DEF OwnInOrder
  <2>1. CASE Before(had[q], x, y)
    BY <2>1 DEF QuietInv, OrderInv, OwnInOrder
  <2>2. CASE q = r /\ Holds(had[r], x) /\ y = new
    <3>1. x[2] <= changes /\ x[2] \in Nat
      BY <2>2 DEF QuietInv, OrderInv, Written, Texts, Contents
    <3>2. QED
      BY <1>1, <1>2, <2>2, <3>1
  <2>3. QED
    BY <1>5, <2>1, <2>2
<1>9. OnlyChanges'
  <2>1. job[r] \in [at : {"save", "saved", "delete", "deleted"}, base : Bases] /\ job[r] # Idle
    BY <1>1, JobParts DEF TypeOK, Idle
  <2>2. /\ job'[r] # Idle /\ job'[r].at = "saved" /\ job'[r].base = job[r].base
        /\ \A q \in Replicas : q # r => job'[q] = job[q]
    BY <1>1, <2>1 DEF TypeOK, Idle
  <2>3. QED
    <3>1. ASSUME NEW q \in Replicas
          PROVE  /\ disk'[q] # Absent
                 /\ job'[q] # Idle => /\ job'[q].at # "deleted" /\ job'[q].base \in Texts
                                      /\ Holds(had'[q], job'[q].base)
      <4>1. /\ disk[q] # Absent
            /\ job[q] # Idle => /\ job[q].at # "deleted" /\ job[q].base \in Texts
                                /\ Holds(had[q], job[q].base)
        BY DEF QuietInv, OnlyChanges
      <4>2. CASE q = r
        BY <1>2, <1>5, <2>1, <2>2, <4>1, <4>2
      <4>3. CASE q # r
        BY <1>5, <2>2, <4>1, <4>3
      <4>4. QED
        BY <4>2, <4>3
    <3>2. QED
      BY <1>1, <3>1 DEF QuietInv, OnlyChanges
<1>10. Grounded'
  <2>1. \A q \in Replicas : \A text, base :
          Follows(had[q], text, base) => Follows(had'[q], text, base)
    BY <1>5 DEF Follows
  <2>2. \A q \in Replicas : Other(q) \in Replicas
    BY OtherOne
  <2>3. QED
    BY <1>1, <2>1, <2>2 DEF QuietInv, Grounded
<1>11. WritesNews'
  <2> SUFFICES ASSUME NEW q \in Replicas, taken[q].at = "write"
               PROVE  /\ ~Holds(had'[q], taken[q].text)
                      /\ \A y \in Texts : Holds(had'[q], y) => ~Before(had'[Other(q)], taken[q].text, y)
    BY <1>1 DEF WritesNews
  <2>1. Other(q) \in Replicas
    BY OtherOne
  <2>2. Holds(had[Other(q)], taken[q].text)
    BY DEF QuietInv, Grounded, Follows, Idle
  <2>3. taken[q].text # new
    BY <1>3, <2>1, <2>2
  <2>4. /\ ~Holds(had[q], taken[q].text)
        /\ \A y \in Texts : Holds(had[q], y) => ~Before(had[Other(q)], taken[q].text, y)
    BY DEF QuietInv, WritesNews
  <2>5. ~Holds(had'[q], taken[q].text)
    BY <1>5, <2>3, <2>4
  <2>6. ASSUME NEW y \in Texts, Holds(had'[q], y), Before(had'[Other(q)], taken[q].text, y)
        PROVE  FALSE
    <3>1. CASE Holds(had[q], y)
      BY <1>3, <1>5, <2>1, <2>4, <2>6, <3>1
    <3>2. CASE y = new /\ q = r
      <4>1. Other(q) # q
        BY OtherOne
      <4>2. Before(had[Other(q)], taken[q].text, y)
        BY <1>5, <2>1, <2>6, <3>2, <4>1
      <4>3. QED
        BY <1>4, <2>1, <3>2, <4>2
    <3>3. QED
      BY <1>5, <2>6, <3>1, <3>2
  <2>7. QED
    BY <2>5, <2>6
<1>12. OneWrites'
  BY <1>1 DEF QuietInv, OneWrites
<1>13. Tells'
  <2>1. job'[r].at = "saved" /\ \A q \in Replicas : q # r => job'[q] = job[q]
    BY <1>1, JobParts DEF TypeOK, Idle
  <2>2. ASSUME NEW q \in Replicas, q # r
        PROVE  job'[q].at = "saved" \/ Delivered(q, disk[q])' \/ Holds(had'[Other(q)], disk'[q])
    <3>1. Other(q) \in Replicas /\ disk'[q] = disk[q] /\ job'[q] = job[q]
      BY <1>5, <2>1, <2>2, OtherOne
    <3>2. CASE Delivered(q, disk[q])
      BY <1>1, <3>1, <3>2 DEF Delivered, Unsent
    <3>3. CASE job[q].at = "saved" \/ Holds(had[Other(q)], disk[q])
      BY <1>5, <3>1, <3>3
    <3>4. QED
      BY <3>2, <3>3 DEF QuietInv, Tells
  <2>3. QED
    BY <2>1, <2>2 DEF Tells
<1>14. QED
  BY <1>6, <1>7, <1>8, <1>9, <1>10, <1>11, <1>12, <1>13 DEF QuietInv, OrderInv

LEMMA QuietSaveSends ==
  ASSUME TypeOK, QuietInv, NEW r \in Replicas, SaveSends(r)
  PROVE  QuietInv'
<1>1. /\ UNCHANGED <<disk, wire, up, taken, refused, had, changes>>
      /\ job[r].at = "saved" /\ disk[r] # Absent
      /\ queued' = [queued EXCEPT ![r] =
                      [text |-> disk[r], base |-> job[r].base, sent |-> FALSE]]
      /\ job' = [job EXCEPT ![r] = Idle]
  BY DEF SaveSends, link, history, Queues, QuietInv, OnlyChanges
<1>2. /\ queued'[r].text = disk[r] /\ queued'[r].base = job[r].base /\ ~queued'[r].sent
      /\ \A q \in Replicas : q # r => queued'[q] = queued[q] /\ job'[q] = job[q]
      /\ job'[r] = Idle
  BY <1>1 DEF TypeOK
<1>3. Follows(had[r], disk[r], job[r].base)
  <2>1. disk[r] \in Texts /\ job[r].base \in Texts /\ Holds(had[r], job[r].base)
    BY <1>1 DEF QuietInv, OnlyChanges, TypeOK, Contents, Idle
  <2>2. QED
    BY <2>1 DEF QuietInv, OrderInv, Latest, Follows
<1>4. OnlyChanges'
  BY <1>1, <1>2 DEF QuietInv, OnlyChanges
<1>5. OrderInv'
  BY <1>1, OrderKept DEF QuietInv
<1>6. Grounded'
  BY <1>1, <1>2, <1>3 DEF QuietInv, Grounded
<1>7. WritesNews' /\ OneWrites'
  BY <1>1 DEF QuietInv, WritesNews, OneWrites
<1>8. Tells'
  <2>1. queued'[r] # Nothing
    <3>1. queued'[r] \in [text : Contents, base : Bases, sent : BOOLEAN]
      BY <1>1, JobParts DEF TypeOK, Idle
    <3>2. QED
      BY <3>1, ConstantsAssumption DEF Contents, Bases
  <2>2. QED
    BY <1>1, <1>2, <2>1 DEF QuietInv, Tells, Delivered, Unsent
<1>9. QED
  BY <1>4, <1>5, <1>6, <1>7, <1>8 DEF QuietInv

LEMMA QuietFlush ==
  ASSUME TypeOK, QuietInv, NEW r \in Replicas, Flush(r)
  PROVE  QuietInv'
<1> DEFINE m == [kind |-> "change", text |-> queued[r].text, base |-> queued[r].base]
           o == Other(r)
<1>1. /\ UNCHANGED <<disk, job, up, taken, refused, had, changes>>
      /\ queued[r] # Nothing /\ ~queued[r].sent
      /\ wire' = [wire EXCEPT ![o] = Append(@, m)]
      /\ queued' = [queued EXCEPT ![r].sent = TRUE]
  BY DEF Flush, page, history, Posts, Unsent
<1>2. o \in Replicas /\ o # r /\ Other(o) = r /\ \A q \in Replicas : q = r \/ q = o
  BY OtherOne
<1>3. /\ wire'[r] = wire[r] /\ wire'[o] = Append(wire[o], m)
      /\ DOMAIN wire'[o] = DOMAIN wire[o] \cup {Len(wire[o]) + 1}
      /\ \A i \in DOMAIN wire[o] : wire'[o][i] = wire[o][i]
      /\ wire'[o][Len(wire[o]) + 1] = m
  <2>1. wire[o] \in Seq(Messages)
    BY <1>2 DEF TypeOK
  <2>2. wire'[r] = wire[r] /\ wire'[o] = Append(wire[o], m)
    BY <1>1, <1>2 DEF TypeOK
  <2>3. QED
    BY <2>1, <2>2
<1>4. /\ m.kind = "change" /\ m.text = queued[r].text /\ m.base = queued[r].base
      /\ Follows(had[r], queued[r].text, queued[r].base)
  BY <1>1 DEF QuietInv, Grounded
<1>5. /\ queued'[r].text = queued[r].text /\ queued'[r].base = queued[r].base
      /\ queued'[o] = queued[o]
  <2>1. queued[r] \in [text : Contents, base : Bases, sent : BOOLEAN]
    BY <1>1, EntryParts DEF TypeOK
  <2>2. QED
    BY <1>1, <1>2, <2>1 DEF TypeOK
<1> HIDE DEF m, o
<1>6. OnlyChanges'
  BY <1>1, <1>2, <1>3, <1>4 DEF QuietInv, OnlyChanges
<1>7. OrderInv'
  BY <1>1, OrderKept DEF QuietInv
<1>8. Grounded'
  <2>1. ASSUME NEW q \in Replicas
        PROVE  queued'[q] # Nothing => Follows(had[q], queued'[q].text, queued'[q].base)
    BY <1>2, <1>4, <1>5 DEF QuietInv, Grounded
  <2>2. ASSUME NEW q \in Replicas, NEW i \in DOMAIN wire'[q]
        PROVE  Follows(had[Other(q)], wire'[q][i].text, wire'[q][i].base)
    BY <1>2, <1>3, <1>4, <2>2 DEF QuietInv, Grounded
  <2>3. QED
    BY <1>1, <2>1, <2>2 DEF QuietInv, Grounded
<1>9. WritesNews' /\ OneWrites'
  BY <1>1 DEF QuietInv, WritesNews, OneWrites
<1>10. Tells'
  <2> SUFFICES ASSUME NEW q \in Replicas, job[q].at # "saved", ~Holds(had[Other(q)], disk[q])
               PROVE  Delivered(q, disk[q])'
    BY <1>1 DEF Tells
  <2>1. Delivered(q, disk[q])
    BY DEF QuietInv, Tells
  <2>2. CASE q = r
    <3>1. CASE Unsent(r) /\ queued[r].text = disk[r]
      BY <1>1, <1>3, <1>4, <2>2, <3>1 DEF Delivered, o
    <3>2. CASE \E i \in DOMAIN wire[o] : wire[o][i].kind = "change" /\ wire[o][i].text = disk[r]
      BY <1>1, <1>3, <2>2, <3>2 DEF Delivered, o
    <3>3. CASE \/ taken[o].at \in Applying /\ taken[o].text = disk[r]
               \/ disk[r] \in refused[o]
      BY <1>1, <2>2, <3>3 DEF Delivered, o
    <3>4. QED
      BY <2>1, <2>2, <3>1, <3>2, <3>3 DEF Delivered, o
  <2>3. CASE q = o
    BY <1>1, <1>2, <1>3, <1>5, <2>1, <2>3 DEF Delivered, Unsent
  <2>4. QED
    BY <1>2, <2>2, <2>3
<1>11. QED
  BY <1>6, <1>7, <1>8, <1>9, <1>10 DEF QuietInv

LEMMA QuietAcknowledged ==
  ASSUME TypeOK, QuietInv, NEW r \in Replicas, Acknowledged(r) \/ AckTimesOut(r)
  PROVE  QuietInv'
<1>1. /\ UNCHANGED <<disk, job, wire, up, taken, refused, had, changes>>
      /\ queued[r] # Nothing /\ queued[r].sent
      /\ \A q \in Replicas : q # r => queued'[q] = queued[q]
  BY DEF Acknowledged, AckTimesOut, InFlight, page, link, history, TypeOK
<1>2. \/ queued'[r] = Nothing
      \/ queued'[r].text = queued[r].text /\ queued'[r].base = queued[r].base
  <2>1. queued[r] \in [text : Contents, base : Bases, sent : BOOLEAN]
    BY <1>1, EntryParts DEF TypeOK
  <2>2. CASE Acknowledged(r)
    BY <2>2 DEF Acknowledged, TypeOK
  <2>3. CASE AckTimesOut(r)
    BY <2>1, <2>3 DEF AckTimesOut, TypeOK
  <2>4. QED
    BY <2>2, <2>3
<1>3. OnlyChanges'
  BY <1>1 DEF QuietInv, OnlyChanges
<1>4. OrderInv'
  BY <1>1, OrderKept DEF QuietInv
<1>5. Grounded'
  BY <1>1, <1>2 DEF QuietInv, Grounded
<1>6. WritesNews' /\ OneWrites'
  BY <1>1 DEF QuietInv, WritesNews, OneWrites
<1>7. Tells'
  <2>1. ~Unsent(r) /\ \A q \in Replicas : q # r => (Unsent(q)' <=> Unsent(q))
    BY <1>1 DEF Unsent
  <2>2. QED
    BY <1>1, <2>1 DEF QuietInv, Tells, Delivered
<1>8. QED
  BY <1>3, <1>4, <1>5, <1>6, <1>7 DEF QuietInv

LEMMA QuietReceive ==
  ASSUME TypeOK, QuietInv, NEW r \in Replicas, Receive(r)
  PROVE  QuietInv'
<1> DEFINE m == Head(wire[r])
<1>1. /\ taken[r] = Idle /\ wire[r] \in Seq(Messages) /\ wire[r] # <<>>
      /\ wire' = [wire EXCEPT ![r] = Tail(@)]
      /\ UNCHANGED <<disk, job, queued, up, refused, had, changes>>
  BY DEF Receive, TypeOK, page, history
<1>2. /\ wire'[r] = Tail(wire[r]) /\ \A q \in Replicas : q # r => wire'[q] = wire[q]
      /\ 1 \in DOMAIN wire[r] /\ m = wire[r][1]
      /\ \A i \in DOMAIN wire'[r] : i + 1 \in DOMAIN wire[r] /\ wire'[r][i] = wire[r][i + 1]
      /\ \A i \in DOMAIN wire[r] : i = 1 \/ (i - 1 \in DOMAIN wire'[r] /\ wire'[r][i - 1] = wire[r][i])
  <2>1. wire'[r] = Tail(wire[r]) /\ \A q \in Replicas : q # r => wire'[q] = wire[q]
    BY <1>1 DEF TypeOK
  <2>2. /\ Len(wire[r]) \in Nat /\ Len(wire[r]) > 0 /\ DOMAIN wire[r] = 1..Len(wire[r])
        /\ DOMAIN Tail(wire[r]) = 1..(Len(wire[r]) - 1)
        /\ \A i \in 1..(Len(wire[r]) - 1) : Tail(wire[r])[i] = wire[r][i + 1]
        /\ Head(wire[r]) = wire[r][1]
    BY <1>1
  <2>3. QED
    BY <2>1, <2>2
<1>3. m.kind = "change" /\ Follows(had[Other(r)], m.text, m.base)
  BY <1>2 DEF QuietInv, OnlyChanges, Grounded
<1>4. /\ taken' = [taken EXCEPT ![r] = [at |-> "exists", text |-> m.text, base |-> m.base]]
  BY <1>3 DEF Receive
<1>5. /\ taken'[r].at = "exists" /\ taken'[r].text = m.text /\ taken'[r].base = m.base
      /\ \A q \in Replicas : q # r => taken'[q] = taken[q]
  BY <1>4 DEF TypeOK
<1> HIDE DEF m
<1>6. OnlyChanges'
  BY <1>1, <1>2, <1>5 DEF QuietInv, OnlyChanges, Applying
<1>7. OrderInv'
  BY <1>1, OrderKept DEF QuietInv
<1>8. Grounded'
  <2>1. ASSUME NEW q \in Replicas, NEW i \in DOMAIN wire'[q]
        PROVE  Follows(had[Other(q)], wire'[q][i].text, wire'[q][i].base)
    <3>1. CASE q = r
      <4>1. i + 1 \in DOMAIN wire[r] /\ wire'[r][i] = wire[r][i + 1]
        BY <1>2, <2>1, <3>1
      <4>2. QED
        BY <3>1, <4>1 DEF QuietInv, Grounded
    <3>2. CASE q # r
      BY <1>2, <2>1, <3>2 DEF QuietInv, Grounded
    <3>3. QED
      BY <3>1, <3>2
  <2>2. QED
    BY <1>1, <1>3, <1>5, <2>1 DEF QuietInv, Grounded
<1>9. WritesNews' /\ OneWrites'
  BY <1>1, <1>5, OtherOne DEF QuietInv, WritesNews, OneWrites
<1>10. Tells'
  <2> SUFFICES ASSUME NEW q \in Replicas, job[q].at # "saved", ~Holds(had[Other(q)], disk[q])
               PROVE  Delivered(q, disk[q])'
    BY <1>1 DEF Tells
  <2> DEFINE o == Other(q)
  <2>1. o \in Replicas /\ Delivered(q, disk[q])
    BY OtherOne DEF QuietInv, Tells
  <2>2. CASE Unsent(q) /\ queued[q].text = disk[q]
    BY <1>1, <2>2 DEF Delivered, Unsent
  <2>3. ASSUME NEW i \in DOMAIN wire[o], wire[o][i].kind = "change", wire[o][i].text = disk[q]
        PROVE  Delivered(q, disk[q])'
    <3>1. CASE o = r /\ i = 1
      BY <1>1, <1>2, <1>5, <2>3, <3>1 DEF Delivered, Applying
    <3>2. CASE o = r /\ i # 1
      <4>1. i - 1 \in DOMAIN wire'[o] /\ wire'[o][i - 1] = wire[o][i]
        BY <1>2, <2>3, <3>2
      <4>2. QED
        BY <1>1, <2>3, <4>1 DEF Delivered
    <3>3. CASE o # r
      BY <1>1, <1>2, <2>1, <2>3, <3>3 DEF Delivered
    <3>4. QED
      BY <3>1, <3>2, <3>3
  <2>4. CASE taken[o].at \in Applying /\ taken[o].text = disk[q]
    <3>1. o # r
      BY <1>1, <2>4 DEF Applying, Idle
    <3>2. QED
      BY <1>1, <1>5, <2>1, <2>4, <3>1 DEF Delivered
  <2>5. CASE disk[q] \in refused[o]
    BY <1>1, <2>5 DEF Delivered
  <2>6. QED
    BY <2>1, <2>2, <2>3, <2>4, <2>5 DEF Delivered
<1>11. QED
  BY <1>6, <1>7, <1>8, <1>9, <1>10 DEF QuietInv

(* The message at hand is looked at: it is put aside for good when its     *)
(* text is known or has been refused.                                      *)
LEMMA QuietLooks ==
  ASSUME TypeOK, QuietInv, NEW r \in Replicas,
         UNCHANGED <<disk, job, queued, wire, up, had, changes>>,
         \A q \in Replicas : refused[q] \subseteq refused'[q],
         taken[r].at \in Applying, \A q \in Replicas : q # r => taken'[q] = taken[q],
         \/ /\ taken'[r].at \in Applying
            /\ taken'[r].text = taken[r].text /\ taken'[r].base = taken[r].base
         \/ /\ taken'[r] = Idle
            /\ Holds(had[r], taken[r].text) \/ taken[r].text \in refused'[r],
         WritesNews', OneWrites'
  PROVE  QuietInv'
<1>0. taken[r] # Idle /\ Idle.at \notin Applying
  BY DEF Idle, Applying
<1>1. OnlyChanges'
  BY DEF QuietInv, OnlyChanges
<1>2. OrderInv'
  BY OrderKept DEF QuietInv
<1>3. Grounded'
  BY <1>0 DEF QuietInv, Grounded
<1>4. Tells'
  <2> SUFFICES ASSUME NEW q \in Replicas, job[q].at # "saved", ~Holds(had[Other(q)], disk[q])
               PROVE  Delivered(q, disk[q])'
    BY DEF Tells
  <2> DEFINE o == Other(q)
  <2>1. o \in Replicas /\ Delivered(q, disk[q])
    BY OtherOne DEF QuietInv, Tells
  <2>2. CASE Unsent(q) /\ queued[q].text = disk[q]
    BY <2>2 DEF Delivered, Unsent
  <2>3. CASE \E i \in DOMAIN wire[o] : wire[o][i].kind = "change" /\ wire[o][i].text = disk[q]
    BY <2>3 DEF Delivered
  <2>4. CASE taken[o].at \in Applying /\ taken[o].text = disk[q]
    BY <2>1, <2>4 DEF Delivered
  <2>5. CASE disk[q] \in refused[o]
    BY <2>1, <2>5 DEF Delivered
  <2>6. QED
    BY <2>1, <2>2, <2>3, <2>4, <2>5 DEF Delivered
<1>5. QED
  BY <1>1, <1>2, <1>3, <1>4 DEF QuietInv

LEMMA QuietExists ==
  ASSUME TypeOK, QuietInv, NEW r \in Replicas, Exists(r)
  PROVE  QuietInv'
<1>1. /\ UNCHANGED <<disk, job, queued, wire, up, refused, had, changes>>
      /\ taken[r].at = "exists"
  BY DEF Exists, page, link, history
<1>2. taken[r].text \in Texts /\ disk[r] # Absent
  BY <1>1 DEF QuietInv, Grounded, Follows, OnlyChanges, Idle
<1>3. Handles(r, "compare")
  <2>1. taken[r].text # Absent
    BY <1>2, ConstantsAssumption
  <2>2. QED
    BY <1>1, <1>2, <2>1 DEF Exists
<1>4. /\ taken'[r].at = "compare"
      /\ taken'[r].text = taken[r].text /\ taken'[r].base = taken[r].base
      /\ \A q \in Replicas : q # r => taken'[q] = taken[q]
  <2>1. taken[r] \in [at : Applying \cup {"flush", "ask", "find", "answer"},
                      text : Contents, base : Bases]
    BY <1>1, TaskParts DEF TypeOK
  <2>2. QED
    BY <1>3, <2>1 DEF Handles, TypeOK
<1>5. WritesNews' /\ OneWrites'
  BY <1>1, <1>4, OtherOne DEF QuietInv, WritesNews, OneWrites
<1>6. QED
  BY <1>1, <1>4, <1>5, QuietLooks DEF Applying

(* A text that replaces the one it was made from is new to the file; and   *)
(* while one is being written the other replica's cannot replace what it   *)
(* was made from.                                                          *)
LEMMA ReplacesWithNew ==
  ASSUME TypeOK, QuietInv, NEW r \in Replicas,
         taken[r].at = "compare", taken[r].base = disk[r], taken[r].text # disk[r]
  PROVE  /\ ~Holds(had[r], taken[r].text)
         /\ \A y \in Texts : Holds(had[r], y) => ~Before(had[Other(r)], taken[r].text, y)
         /\ taken[Other(r)].at # "write"
<1> DEFINE x == taken[r].text
           o == Other(r)
<1>1. o \in Replicas /\ o # r /\ Other(o) = r
  BY OtherOne
<1>2. /\ x \in Texts /\ disk[r] \in Texts
      /\ Holds(had[o], x) /\ Before(had[o], disk[r], x)
  BY DEF QuietInv, Grounded, Follows, Idle
<1>3. had[o] \in Seq(Contents) /\ had[r] \in Seq(Contents)
  BY <1>1 DEF TypeOK
<1> HIDE DEF x, o
<1>4. ~Holds(had[r], x)
  <2>1. Holds(had[r], x) => Before(had[r], x, disk[r])
    BY <1>2 DEF QuietInv, OrderInv, Latest, x
  <2>2. QED
    BY <1>1, <1>2, <2>1 DEF QuietInv, OrderInv, SameOrder
<1>5. ASSUME NEW y \in Texts, Holds(had[r], y), Before(had[o], x, y) PROVE FALSE
  <2>1. ~Before(had[o], x, x) /\ ~Before(had[o], disk[r], disk[r])
    BY <1>1, <1>2 DEF QuietInv, OrderInv, NoReturn
  <2>2. Before(had[o], disk[r], y)
    BY <1>2, <1>3, <1>5, <2>1, BeforeTransitive
  <2>3. y # disk[r]
    BY <2>1, <2>2
  <2>4. Before(had[r], y, disk[r])
    BY <1>5, <2>3 DEF QuietInv, OrderInv, Latest
  <2>5. QED
    BY <1>1, <1>2, <2>2, <2>4 DEF QuietInv, OrderInv, SameOrder
<1>6. ASSUME taken[o].at = "write" PROVE FALSE
  <2> DEFINE w == taken[o].text
  <2>1. /\ ~Holds(had[o], w)
        /\ \A y \in Texts : Holds(had[o], y) => ~Before(had[r], w, y)
    BY <1>1, <1>6 DEF QuietInv, WritesNews
  <2>2. Holds(had[r], w) /\ w \in Texts
    BY <1>1, <1>6 DEF QuietInv, Grounded, Follows, Idle
  <2>3. Holds(had[o], disk[r])
    BY <1>2, BeforeHolds
  <2>4. w = disk[r] \/ Before(had[r], w, disk[r])
    BY <2>2 DEF QuietInv, OrderInv, Latest
  <2>5. QED
    BY <1>2, <2>1, <2>3, <2>4
<1>7. QED
  BY <1>4, <1>5, <1>6 DEF x, o

LEMMA QuietCompare ==
  ASSUME TypeOK, QuietInv, NEW r \in Replicas, Compare(r)
  PROVE  QuietInv'
<1>1. /\ UNCHANGED <<disk, job, queued, wire, up, had, changes>>
      /\ taken[r].at = "compare"
  BY DEF Compare, page, link, history
<1>2. /\ taken[r].base \in Texts /\ taken[r].base # Null /\ disk[r] # Absent
      /\ Holds(had[r], disk[r])
  BY <1>1, ConstantsAssumption
     DEF QuietInv, Grounded, Follows, OnlyChanges, OrderInv, Latest, Idle
<1>3. taken[r] \in [at : Applying \cup {"flush", "ask", "find", "answer"},
                    text : Contents, base : Bases]
  BY <1>1, TaskParts DEF TypeOK
<1>4. CASE Handled(r)
  <2>1. taken'[r] = Idle /\ \A q \in Replicas : q # r => taken'[q] = taken[q]
    BY <1>4 DEF Handled, TypeOK
  <2>2. /\ \A q \in Replicas : refused[q] \subseteq refused'[q]
        /\ taken[r].text = disk[r] \/ taken[r].text \in refused'[r]
    <3>1. CASE disk[r] \in {Absent, taken[r].text}
      BY <1>1, <1>2, <3>1 DEF Compare
    <3>2. CASE refused' = [refused EXCEPT ![r] = @ \cup {taken[r].text}]
      BY <3>2 DEF TypeOK
    <3>3. CASE Handles(r, "write")
      <4>1. taken'[r].at = "write"
        BY <1>3, <3>3 DEF Handles, TypeOK
      <4>2. QED
        BY <2>1, <4>1 DEF Idle
    <3>4. QED
      BY <1>1, <3>1, <3>2, <3>3 DEF Compare
  <2>3. WritesNews' /\ OneWrites'
    BY <1>1, <2>1, OtherOne DEF QuietInv, WritesNews, OneWrites, Idle
  <2>4. QED
    BY <1>1, <1>2, <2>1, <2>2, <2>3, QuietLooks DEF Applying
<1>5. CASE Handles(r, "write") /\ ~Handled(r)
  <2>1. disk[r] # taken[r].text /\ MayReplace(r) /\ refused' = refused
    BY <1>1, <1>5 DEF Compare
  <2>2. taken[r].base = disk[r]
    BY <1>2, <2>1 DEF MayReplace
  <2>3. /\ taken'[r].at = "write"
        /\ taken'[r].text = taken[r].text /\ taken'[r].base = taken[r].base
        /\ \A q \in Replicas : q # r => taken'[q] = taken[q]
    BY <1>3, <1>5 DEF Handles, TypeOK
  <2>4. /\ ~Holds(had[r], taken[r].text)
        /\ \A y \in Texts : Holds(had[r], y) => ~Before(had[Other(r)], taken[r].text, y)
        /\ taken[Other(r)].at # "write"
    BY <1>1, <2>1, <2>2, ReplacesWithNew
  <2>5. WritesNews'
    BY <1>1, <2>3, <2>4 DEF QuietInv, WritesNews
  <2>6. OneWrites'
    BY <2>3, <2>4, OtherOne DEF OneWrites
  <2>7. QED
    BY <1>1, <2>1, <2>3, <2>5, <2>6, QuietLooks DEF Applying
<1>6. QED
  BY <1>4, <1>5 DEF Compare

LEMMA QuietWrite ==
  ASSUME TypeOK, QuietInv, NEW r \in Replicas, Write(r)
  PROVE  QuietInv'
<1> DEFINE x == taken[r].text
           o == Other(r)
<1>1. /\ UNCHANGED <<job, queued, wire, up, refused, changes>>
      /\ taken[r].at = "write" /\ Stores(r, x)
      /\ taken' = [taken EXCEPT ![r] = Idle]
  BY DEF Write, Handled, page, link
<1>2. o \in Replicas /\ o # r /\ Other(o) = r /\ \A q \in Replicas : q = r \/ q = o
  BY OtherOne
<1>3. x \in Texts /\ Holds(had[o], x)
  BY <1>1 DEF QuietInv, Grounded, Follows, Idle
<1>4. /\ ~Holds(had[r], x)
      /\ \A y \in Texts : Holds(had[r], y) => ~Before(had[o], x, y)
      /\ taken[o].at # "write"
  BY <1>1 DEF QuietInv, WritesNews, OneWrites
<1>5. x # Absent /\ x \in Contents
  BY <1>3, ConstantsAssumption DEF Contents
<1>6. taken'[r] = Idle /\ taken'[o] = taken[o]
  BY <1>1, <1>2 DEF TypeOK
<1> HIDE DEF x, o
<1>7. /\ disk'[r] = x /\ disk'[o] = disk[o] /\ had'[o] = had[o]
      /\ \A q \in Replicas : \A y : Holds(had'[q], y) <=> Holds(had[q], y) \/ (q = r /\ y = x)
      /\ \A q \in Replicas : \A y, z :
           Before(had'[q], y, z) <=> Before(had[q], y, z) \/ (q = r /\ Holds(had[r], y) /\ z = x)
  BY <1>1, <1>2, <1>5, Stored
<1>8. Latest' /\ NoReturn' /\ SameOrder'
  BY <1>1, <1>3, <1>4, StoreKeepsOrder DEF QuietInv, OrderInv, o
<1>9. /\ x[2] <= changes
      /\ x = Original \/ (x[1] \in Replicas /\ Holds(had[x[1]], x))
  BY <1>2, <1>3, <1>5 DEF QuietInv, OrderInv, Written
<1>10. Written'
  <2> SUFFICES ASSUME NEW q \in Replicas, NEW y \in Contents, Holds(had'[q], y)
               PROVE  /\ y \in Texts /\ y[2] <= changes
                      /\ y = Original \/ (y[1] \in Replicas /\ Holds(had'[y[1]], y))
    BY <1>1 DEF Written
  <2>1. CASE Holds(had[q], y)
    <3>1. /\ y \in Texts /\ y[2] <= changes
          /\ y = Original \/ (y[1] \in Replicas /\ Holds(had[y[1]], y))
      BY <2>1 DEF QuietInv, OrderInv, Written
    <3>2. y[1] \in Replicas /\ Holds(had[y[1]], y) => Holds(had'[y[1]], y)
      BY <1>7
    <3>3. QED
      BY <3>1, <3>2
  <2>2. CASE y = x
    <3>1. x[1] \in Replicas /\ Holds(had[x[1]], x) => Holds(had'[x[1]], x)
      BY <1>7
    <3>2. QED
      BY <1>3, <1>9, <2>2, <3>1
  <2>3. QED
    BY <1>7, <2>1, <2>2
<1>11. OwnInOrder'
  <2> SUFFICES ASSUME NEW q \in Replicas, NEW y \in Texts, NEW z \in Texts,
                      y[1] = q, z[1] = q, Before(had'[q], y, z)
               PROVE  y[2] < z[2]
    BY DEF OwnInOrder
  <2>1. CASE Before(had[q], y, z)
    BY <2>1 DEF QuietInv, OrderInv, OwnInOrder
  <2>2. CASE q = r /\ z = x
    <3>1. x # Original
      BY <2>2, ConstantsAssumption DEF Original
    <3>2. QED
      BY <1>4, <1>9, <2>2, <3>1
  <2>3. QED
    BY <1>7, <2>1, <2>2
<1>12. OnlyChanges'
  BY <1>1, <1>2, <1>5, <1>6, <1>7 DEF QuietInv, OnlyChanges
<1>13. Grounded'
  <2>1. \A q \in Replicas : \A text, base :
          Follows(had[q], text, base) => Follows(had'[q], text, base)
    BY <1>7 DEF Follows
  <2>2. \A q \in Replicas : Other(q) \in Replicas
    BY OtherOne
  <2>3. \A q \in Replicas : taken'[q] # Idle => taken'[q] = taken[q]
    BY <1>2, <1>6
  <2>4. QED
    BY <1>1, <2>1, <2>2, <2>3 DEF QuietInv, Grounded
<1>14. WritesNews' /\ OneWrites'
  BY <1>2, <1>4, <1>6 DEF WritesNews, OneWrites, Idle
<1>15. Tells'
  <2>1. Holds(had'[o], disk'[r])
    BY <1>3, <1>7
  <2>2. job'[o].at = "saved" \/ Delivered(o, disk[o])' \/ Holds(had'[r], disk'[o])
    <3>1. CASE job[o].at = "saved" \/ Holds(had[r], disk[o])
      BY <1>1, <1>7, <3>1
    <3>2. CASE taken[r].at \in Applying /\ x = disk[o]
      BY <1>7, <3>2
    <3>3. CASE \/ Unsent(o) /\ queued[o].text = disk[o]
               \/ \E i \in DOMAIN wire[r] : wire[r][i].kind = "change" /\ wire[r][i].text = disk[o]
               \/ disk[o] \in refused[r]
      BY <1>1, <1>2, <1>7, <3>3 DEF Delivered, Unsent
    <3>4. QED
      BY <1>2, <3>1, <3>2, <3>3 DEF QuietInv, Tells, Delivered, x
  <2>3. ASSUME NEW q \in Replicas
        PROVE  job'[q].at = "saved" \/ Delivered(q, disk[q])' \/ Holds(had'[Other(q)], disk'[q])
    <3>1. CASE q = r
      BY <2>1, <3>1 DEF o
    <3>2. CASE q = o
      BY <1>2, <1>7, <2>2, <3>2
    <3>3. QED
      BY <1>2, <3>1, <3>2
  <2>4. QED
    BY <2>3 DEF Tells
<1>16. QED
  BY <1>8, <1>10, <1>11, <1>12, <1>13, <1>14, <1>15 DEF QuietInv, OrderInv

LEMMA QuietStep ==
  ASSUME TypeOK, Quiet => QuietInv, [Next]_vars PROVE Quiet' => QuietInv'
<1> SUFFICES ASSUME Quiet' PROVE QuietInv'
  OBVIOUS
<1>1. CASE UNCHANGED vars
  <2>1. UNCHANGED <<disk, job, queued, wire, up, parts, taken, refused, had, erased, changes>>
    BY <1>1 DEF vars, page, link, history
  <2>2. Quiet
    BY <2>1 DEF Quiet
  <2>3. OrderInv'
    BY <2>1, <2>2, OrderKept DEF QuietInv
  <2>4. QED
    BY <2>1, <2>2, <2>3
       DEF QuietInv, OnlyChanges, Grounded, WritesNews, OneWrites, Tells, Delivered, Unsent
<1>2. CASE Part
  <2>1. parts' = parts + 1
    BY <1>2, Zenon DEF Part
  <2>2. QED
    BY <2>1 DEF Quiet, TypeOK
<1>3. CASE Meet
  <2>1. Quiet /\ ~up
    BY <1>3 DEF Quiet, Meet
  <2>2. QED
    BY <2>1 DEF QuietInv, OnlyChanges
<1>4. ASSUME NEW r \in Replicas,
             \/ SaveBegins(r) \/ SaveWrites(r) \/ SaveSends(r)
             \/ DeleteBegins(r) \/ DeleteErases(r) \/ DeleteSends(r) \/ SelectNote(r)
      PROVE  QuietInv'
  <2>1. CASE DeleteErases(r)
    BY <2>1 DEF DeleteErases, Quiet
  <2>2. CASE DeleteSends(r)
    <3>1. Quiet /\ job[r].at = "deleted"
      BY <2>2 DEF DeleteSends, Quiet, history, link
    <3>2. QED
      BY <3>1 DEF QuietInv, OnlyChanges, Idle
  <2>3. CASE SaveBegins(r) \/ DeleteBegins(r)
    <3>1. Quiet
      BY <2>3 DEF SaveBegins, DeleteBegins, TryReadContentHash, Quiet, link
    <3>2. QED
      BY <2>3, <3>1, QuietBegins
  <2>4. CASE SaveWrites(r)
    <3>1. Quiet
      BY <2>4 DEF SaveWrites, Changes, Quiet, link
    <3>2. QED
      BY <2>4, <3>1, QuietSaveWrites
  <2>5. CASE SaveSends(r)
    <3>1. Quiet
      BY <2>5 DEF SaveSends, Quiet, link, history
    <3>2. QED
      BY <2>5, <3>1, QuietSaveSends
  <2>6. CASE SelectNote(r)
    <3>1. Quiet
      BY <2>6 DEF SelectNote, Quiet, link, history
    <3>2. QED
      BY <2>6, <3>1, QuietSelect
  <2>7. QED
    BY <1>4, <2>1, <2>2, <2>3, <2>4, <2>5, <2>6
<1>5. ASSUME NEW r \in Replicas,
             \/ Flush(r) \/ Acknowledged(r) \/ AckTimesOut(r)
             \/ Receive(r) \/ Exists(r) \/ Compare(r) \/ Write(r)
      PROVE  QuietInv'
  <2>1. Quiet
    BY <1>5 DEF Flush, Acknowledged, AckTimesOut, Receive, Exists, Compare, Write, Quiet, link, history
  <2>2. QED
    BY <1>5, <2>1, QuietFlush, QuietAcknowledged, QuietReceive, QuietExists, QuietCompare, QuietWrite
<1>6. ASSUME NEW r \in Replicas,
             \/ BuildManifest(r) \/ SendRepairRequest(r)
             \/ FindChanges(r) \/ TrySendRepairFile(r)
      PROVE  QuietInv'
  <2>1. Quiet
    BY <1>6 DEF BuildManifest, SendRepairRequest, FindChanges, TrySendRepairFile, Quiet, link, history
  <2>2. taken[r].at \in {"flush", "ask", "find", "answer"}
    BY <1>6 DEF BuildManifest, SendRepairRequest, FindChanges, TrySendRepairFile
  <2>3. QED
    BY <2>1, <2>2 DEF QuietInv, OnlyChanges, Applying, Idle
<1>7. QED
  BY <1>1, <1>2, <1>3, <1>4, <1>5, <1>6 DEF Next

(* While the two stay connected and nobody deletes, both files go through  *)
(* the texts in one order, and who is ahead is telling the other (IInv).   *)
THEOREM Invariance == Spec => []IInv
<1>1. Init => IInv
  BY TypeInit, QuietInit DEF IInv
<1>2. IInv /\ [Next]_vars => IInv'
  BY TypeStep, QuietStep DEF IInv
<1>3. QED
  BY <1>1, <1>2, PTL DEF Spec

(* Without losses and deletions, whatever crosses on the wire, arrives     *)
(* twice or is applied during a save: once all is quiet the files agree,   *)
(* or one of the two has put the other's text aside (AgreeAtRest).         *)
THEOREM ReplicasAgree == Spec => []AgreeAtRest
<1>1. IInv => AgreeAtRest
  <2> SUFFICES ASSUME IInv, Settled, parts = 0, ~erased,
                      NEW r \in Replicas, NEW o \in Replicas
               PROVE  disk[r] = disk[o] \/ disk[r] \in refused[o] \/ disk[o] \in refused[r]
    BY DEF AgreeAtRest
  <2>1. TypeOK /\ QuietInv
    BY DEF IInv, Quiet
  <2>2. CASE o = r
    BY <2>2
  <2>3. CASE o = Other(r)
    <3>1. Other(o) = r /\ o # r
      BY <2>3, OtherOne
    <3>2. \A q \in Replicas :
            /\ job[q].at # "saved" /\ ~Unsent(q)
            /\ DOMAIN wire[q] = {} /\ taken[q].at \notin Applying
      <4>1. Idle.at = "idle" /\ DOMAIN <<>> = {}
        BY DEF Idle
      <4>2. QED
        BY <4>1 DEF Settled, Unsent, Applying
    <3>3. \A q \in Replicas : disk[q] \in refused[Other(q)] \/ Holds(had[Other(q)], disk[q])
      <4>1. \A q \in Replicas : Other(q) \in Replicas
        BY OtherOne
      <4>2. QED
        BY <2>1, <3>2, <4>1 DEF QuietInv, Tells, Delivered
    <3>4. disk[r] \in Texts /\ disk[o] \in Texts
      BY <2>1 DEF QuietInv, OnlyChanges, TypeOK, Contents
    <3>5. CASE Holds(had[o], disk[r]) /\ Holds(had[r], disk[o]) /\ disk[r] # disk[o]
      <4>1. Before(had[o], disk[r], disk[o]) /\ Before(had[r], disk[o], disk[r])
        BY <2>1, <3>4, <3>5 DEF QuietInv, OrderInv, Latest
      <4>2. QED
        BY <2>1, <3>1, <3>4, <4>1 DEF QuietInv, OrderInv, SameOrder
    <3>6. QED
      BY <2>3, <3>1, <3>3, <3>5
  <2>4. QED
    BY <2>2, <2>3, OtherOne
<1>2. QED
  BY <1>1, Invariance, PTL

(* Without losses and deletions no file goes back from a text to an older  *)
(* one of the same writer (NeverOlder).                                    *)
LEMMA StepNeverOlder ==
  ASSUME TypeOK, Quiet => QuietInv, Next, Quiet, NEW r \in Replicas
  PROVE  ~Older(disk'[r], disk[r])
<1> SUFFICES ASSUME Older(disk'[r], disk[r]) PROVE FALSE
  OBVIOUS
<1>1. /\ disk'[r] # Absent /\ disk[r] \in Texts /\ disk[r][2] \in Nat
      /\ disk'[r][1] = disk[r][1] /\ disk'[r][2] < disk[r][2]
  BY DEF Older, TypeOK, Contents, Texts
<1>2. disk'[r] # disk[r]
  BY <1>1
<1>3. Holds(had[r], disk[r]) /\ disk[r] \in Contents
  BY <1>1 DEF QuietInv, OrderInv, Latest, Contents
<1>4. /\ disk[r][2] <= changes
      /\ disk[r] = Original \/ (disk[r][1] \in Replicas /\ Holds(had[disk[r][1]], disk[r]))
  BY <1>3 DEF QuietInv, OrderInv, Written
<1>5. ASSUME NEW q \in Replicas, NEW text \in Contents, Stores(q, text)
      PROVE  q = r /\ text = disk'[r]
  BY <1>2, <1>5, Stored
<1>6. CASE SaveWrites(r)
  <2>1. disk'[r] = <<r, changes + 1>>
    BY <1>6 DEF SaveWrites, Changes, Stores, TypeOK
  <2>2. changes \in Nat
    BY DEF TypeOK
  <2>3. QED
    BY <1>1, <1>4, <2>1, <2>2
<1>7. CASE Write(r)
  <2> DEFINE x == taken[r].text
             o == Other(r)
  <2>1. taken[r].at = "write" /\ disk'[r] = x
    BY <1>7 DEF Write, Stores, TypeOK
  <2>2. x \in Texts /\ Holds(had[o], x) /\ x \in Contents
    BY <2>1 DEF QuietInv, Grounded, Follows, Idle, Contents
  <2>3. /\ ~Holds(had[r], x)
        /\ \A y \in Texts : Holds(had[r], y) => ~Before(had[o], x, y)
    BY <2>1 DEF QuietInv, WritesNews
  <2>4. o \in Replicas /\ \A q \in Replicas : q = r \/ q = o
    BY OtherOne
  <2> HIDE DEF x, o
  <2>5. x = Original \/ (x[1] \in Replicas /\ Holds(had[x[1]], x))
    BY <2>2, <2>4 DEF QuietInv, OrderInv, Written
  <2>6. x # Original /\ disk[r] # Original
    <3>1. Original[2] = 0 /\ Original[1] = Nothing
      BY DEF Original
    <3>2. x[2] \in Nat
      BY <2>2 DEF Texts
    <3>3. disk[r] # Original
      BY <1>1, <2>1, <3>1, <3>2
    <3>4. QED
      BY <1>1, <1>4, <2>1, <3>1, <3>3, ConstantsAssumption
  <2>7. x[1] = o
    BY <2>3, <2>4, <2>5, <2>6
  <2>8. Holds(had[o], disk[r])
    BY <1>1, <1>4, <2>1, <2>6, <2>7
  <2>9. Before(had[o], disk[r], x)
    <3>1. had[o] \in Seq(Contents)
      BY <2>4 DEF TypeOK
    <3>2. QED
      BY <1>1, <1>2, <1>3, <2>1, <2>2, <2>3, <2>8, <3>1, BeforeTotal
  <2>10. disk[r][2] < x[2]
    BY <1>1, <2>1, <2>2, <2>4, <2>7, <2>9 DEF QuietInv, OrderInv, OwnInOrder
  <2>11. x[2] \in Nat
    BY <2>2 DEF Texts
  <2>12. QED
    BY <1>1, <2>1, <2>10, <2>11
<1>8. UNCHANGED disk \/ \E q \in Replicas : SaveWrites(q) \/ DeleteErases(q) \/ Write(q)
  <2>1. CASE Part
    BY <2>1, Zenon DEF Part
  <2>2. CASE Meet
    BY <2>2 DEF Meet
  <2>3. ASSUME NEW q \in Replicas,
               \/ SaveBegins(q) \/ SaveSends(q) \/ DeleteBegins(q) \/ DeleteSends(q) \/ SelectNote(q)
               \/ Flush(q) \/ Acknowledged(q) \/ AckTimesOut(q) \/ Receive(q) \/ Exists(q)
               \/ Compare(q) \/ BuildManifest(q) \/ SendRepairRequest(q)
               \/ FindChanges(q) \/ TrySendRepairFile(q)
        PROVE  UNCHANGED disk
    BY <2>3 DEF SaveBegins, SaveSends, DeleteBegins, DeleteSends, SelectNote, TryReadContentHash,
                Flush, Acknowledged, AckTimesOut, Receive, Exists, Compare, BuildManifest,
                SendRepairRequest, FindChanges, TrySendRepairFile
  <2>4. QED
    BY <2>1, <2>2, <2>3 DEF Next
<1>9. ASSUME NEW q \in Replicas, SaveWrites(q) \/ DeleteErases(q) \/ Write(q) PROVE FALSE
  <2>1. CASE q = r
    <3>1. ~DeleteErases(r)
      BY <1>1 DEF DeleteErases, Changes, Stores, TypeOK
    <3>2. QED
      BY <1>6, <1>7, <1>9, <2>1, <3>1
  <2>2. CASE q # r
    <3>1. disk'[r] = disk[r]
      BY <1>9, <2>2 DEF SaveWrites, DeleteErases, Write, Changes, Stores, TypeOK
    <3>2. QED
      BY <1>2, <3>1
  <2>3. QED
    BY <2>1, <2>2
<1>10. QED
  BY <1>2, <1>8, <1>9

(* Without losses and deletions no step takes a file back to an older text *)
(* of the same writer (NeverOlder).                                        *)
THEOREM NoFileGoesBack == Spec => NeverOlder
<1>1. IInv /\ [Next]_vars =>
        [parts = 0 /\ ~erased => \A r \in Replicas : ~Older(disk'[r], disk[r])]_vars
  BY StepNeverOlder DEF IInv, Quiet
<1>2. QED
  BY <1>1, Invariance, PTL DEF Spec, NeverOlder

-----------------------------------------------------------------------------
(* Messages join a wire at its end and leave it at its head.               *)
LEMMA AppendKinds ==
  ASSUME NEW s \in Seq(Messages), NEW m \in Messages, NEW text,
         InTurn(s), Carries(s, text),
         m.kind = "change" => m.text = text /\ text # Absent,
         m.kind = "request" => m.text = text /\ ~Has(s, "change") /\ ~Has(s, "request"),
         m.kind # "presence"
  PROVE  /\ \A kind : Has(Append(s, m), kind) <=> Has(s, kind) \/ m.kind = kind
         /\ InTurn(Append(s, m)) /\ Carries(Append(s, m), text)
<1> DEFINE u == Append(s, m)
<1>1. /\ DOMAIN u = 1..(Len(s) + 1) /\ DOMAIN s = 1..Len(s) /\ Len(s) \in Nat
      /\ u[Len(s) + 1] = m /\ \A i \in DOMAIN s : u[i] = s[i] /\ s[i] \in Messages
  OBVIOUS
<1>2. /\ \A i \in DOMAIN u : i \in DOMAIN s \/ i = Len(s) + 1
      /\ \A i \in DOMAIN s : i \in DOMAIN u /\ i < Len(s) + 1
      /\ Len(s) + 1 \in DOMAIN u
  BY <1>1
<1> HIDE DEF u
<1>3. \A kind : Has(u, kind) <=> Has(s, kind) \/ m.kind = kind
  BY <1>1, <1>2 DEF Has
<1>4. InTurn(u)
  <2> SUFFICES ASSUME NEW i \in DOMAIN u, NEW j \in DOMAIN u, i < j
               PROVE  /\ u[j].kind # "presence"
                      /\ u[j].kind = "request" => u[i].kind = "presence"
    BY DEF InTurn
  <2>1. i \in DOMAIN s
    BY <1>1, <1>2
  <2>2. CASE j \in DOMAIN s
    BY <1>1, <2>1, <2>2 DEF InTurn
  <2>3. CASE j = Len(s) + 1
    BY <1>1, <2>1, <2>3, MessageParts DEF Has
  <2>4. QED
    BY <1>2, <2>2, <2>3
<1>5. Carries(u, text)
  BY <1>1, <1>2 DEF Carries
<1>6. QED
  BY <1>3, <1>4, <1>5 DEF u

LEMMA TailKinds ==
  ASSUME NEW s \in Seq(Messages), s # <<>>, NEW text, InTurn(s), Carries(s, text)
  PROVE  /\ Head(s) \in Messages
         /\ \A kind : Has(s, kind) <=> Has(Tail(s), kind) \/ Head(s).kind = kind
         /\ ~Has(Tail(s), "presence")
         /\ Has(Tail(s), "request") => Head(s).kind = "presence"
         /\ Head(s).kind # "presence" => Head(s).text = text
         /\ Head(s).kind = "change" => text # Absent
         /\ InTurn(Tail(s)) /\ Carries(Tail(s), text)
<1> DEFINE u == Tail(s)
<1>1. /\ DOMAIN u = 1..(Len(s) - 1) /\ DOMAIN s = 1..Len(s) /\ Len(s) \in Nat /\ Len(s) > 0
      /\ Head(s) = s[1] /\ s[1] \in Messages
      /\ \A i \in 1..(Len(s) - 1) : u[i] = s[i + 1]
  OBVIOUS
<1>2. /\ 1 \in DOMAIN s
      /\ \A i \in DOMAIN u : i \in Nat /\ i + 1 \in DOMAIN s /\ 1 < i + 1 /\ u[i] = s[i + 1]
      /\ \A i \in DOMAIN s : i = 1 \/ (i - 1 \in DOMAIN u /\ u[i - 1] = s[i])
  BY <1>1
<1> HIDE DEF u
<1>3. ASSUME NEW kind PROVE Has(s, kind) <=> Has(u, kind) \/ s[1].kind = kind
  <2>1. ASSUME Has(s, kind) PROVE Has(u, kind) \/ s[1].kind = kind
    BY <1>2, <2>1 DEF Has
  <2>2. ASSUME Has(u, kind) PROVE Has(s, kind)
    BY <1>2, <2>2 DEF Has
  <2>3. s[1].kind = kind => Has(s, kind)
    BY <1>2 DEF Has
  <2>4. QED
    BY <2>1, <2>2, <2>3
<1>4. ~Has(u, "presence") /\ (Has(u, "request") => s[1].kind = "presence")
  BY <1>2 DEF Has, InTurn
<1>5. InTurn(u)
  <2> SUFFICES ASSUME NEW i \in DOMAIN u, NEW j \in DOMAIN u, i < j
               PROVE  /\ u[j].kind # "presence"
                      /\ u[j].kind = "request" => u[i].kind = "presence"
    BY DEF InTurn
  <2>1. i + 1 < j + 1
    BY <1>2
  <2>2. QED
    BY <1>2, <2>1 DEF InTurn
<1>6. Carries(u, text)
  BY <1>2 DEF Carries
<1>7. /\ s[1].kind # "presence" => s[1].text = text
      /\ s[1].kind = "change" => text # Absent
  BY <1>1, <1>2, MessageParts DEF Carries
<1>8. QED
  BY <1>1, <1>3, <1>4, <1>5, <1>6, <1>7 DEF u

(* Both replicas' parts together.                                          *)
LEMMA BothRepair ==
  ASSUME NEW T, NEW r \in Replicas, held' = held, Repairing(T),
         Originals(T, r)' /\ AsksOnce(r)' /\ Undisturbed(T, r)' /\ Answered(T, r)',
         Originals(T, Other(r))' /\ AsksOnce(Other(r))'
           /\ Undisturbed(T, Other(r))' /\ Answered(T, Other(r))'
  PROVE  Repairing(T)'
<1>1. ASSUME NEW q \in Replicas
      PROVE  Originals(T, q)' /\ AsksOnce(q)' /\ Undisturbed(T, q)' /\ Answered(T, q)'
  <2>1. CASE q = r
    BY <2>1
  <2>2. CASE q = Other(r)
    BY <2>2
  <2>3. QED
    BY <2>1, <2>2, OtherOne
<1>2. QED
  BY <1>1 DEF Repairing

LEMMA RepairFlush ==
  ASSUME TypeOK, NEW T, Repairing(T), NEW r \in Replicas, Flush(r)
  PROVE  Repairing(T)'
<1> DEFINE o == Other(r)
           m == [kind |-> "change", text |-> queued[r].text, base |-> queued[r].base]
<1>1. o \in Replicas /\ o # r /\ Other(o) = r /\ Other(r) = o
  BY OtherOne
<1>2. /\ UNCHANGED <<disk, job, sees, taken, refused, held>>
      /\ Unsent(r) /\ queued[r] # Nothing
      /\ wire'[r] = wire[r] /\ wire'[o] = Append(wire[o], m) /\ wire[o] \in Seq(Messages)
      /\ queued' = [queued EXCEPT ![r].sent = TRUE]
  BY <1>1 DEF Flush, Posts, Unsent, page, history, TypeOK
<1>3. m \in Messages /\ m.kind = "change" /\ m.text = queued[r].text
  BY <1>2, EntryParts, MessageParts DEF TypeOK
<1>4. queued'[o] = queued[o] /\ queued'[r].text = queued[r].text
  <2>1. queued[r] \in [text : Contents, base : Bases, sent : BOOLEAN]
    BY <1>2, EntryParts DEF TypeOK
  <2>2. QED
    BY <1>1, <1>2, <2>1 DEF TypeOK
<1>5. /\ Originals(T, r) /\ AsksOnce(r) /\ Undisturbed(T, r) /\ Answered(T, r)
      /\ Originals(T, o) /\ AsksOnce(o) /\ Undisturbed(T, o) /\ Answered(T, o)
  BY <1>1 DEF Repairing
<1> HIDE DEF m, o
<1>6. /\ \A kind : Has(wire'[o], kind) <=> Has(wire[o], kind) \/ kind = "change"
      /\ InTurn(wire'[o]) /\ Carries(wire'[o], T[r])
  BY <1>1, <1>2, <1>3, <1>5, AppendKinds DEF Originals
<1>7. /\ Has(wire'[o], "change")
      /\ Has(wire'[o], "presence") <=> Has(wire[o], "presence")
      /\ Has(wire'[o], "request") <=> Has(wire[o], "request")
  BY <1>6
<1>8. Unsent(o)' <=> Unsent(o)
  BY <1>4 DEF Unsent
<1>9. Originals(T, r)' /\ AsksOnce(r)' /\ Undisturbed(T, r)' /\ Answered(T, r)'
  BY <1>1, <1>2, <1>4, <1>5, <1>7
     DEF Originals, AsksOnce, Asking, Unanswered, Undisturbed, Answered
<1>10. Originals(T, o)' /\ AsksOnce(o)' /\ Undisturbed(T, o)' /\ Answered(T, o)'
  BY <1>1, <1>2, <1>4, <1>5, <1>6, <1>7, <1>8
     DEF Originals, AsksOnce, Asking, Unanswered, Undisturbed, Answered
<1>11. QED
  BY <1>1, <1>2, <1>9, <1>10, BothRepair DEF o

LEMMA RepairAcknowledged ==
  ASSUME TypeOK, NEW T, Repairing(T), NEW r \in Replicas, Acknowledged(r) \/ AckTimesOut(r)
  PROVE  Repairing(T)'
<1> DEFINE o == Other(r)
<1>1. o \in Replicas /\ o # r /\ Other(o) = r /\ Other(r) = o
  BY OtherOne
<1>2. /\ UNCHANGED <<disk, job, wire, sees, taken, refused, held>>
      /\ queued[r] # Nothing /\ ~Unsent(r) /\ queued'[o] = queued[o]
  BY <1>1 DEF Acknowledged, AckTimesOut, InFlight, Unsent, page, link, history, TypeOK
<1>3. queued'[r] = Nothing \/ queued'[r].text = queued[r].text
  <2>1. queued[r] \in [text : Contents, base : Bases, sent : BOOLEAN]
    BY <1>2, EntryParts DEF TypeOK
  <2>2. CASE Acknowledged(r)
    BY <2>2 DEF Acknowledged, TypeOK
  <2>3. CASE AckTimesOut(r)
    BY <2>1, <2>3 DEF AckTimesOut, TypeOK
  <2>4. QED
    BY <2>2, <2>3
<1>4. /\ Originals(T, r) /\ AsksOnce(r) /\ Undisturbed(T, r) /\ Answered(T, r)
      /\ Originals(T, o) /\ AsksOnce(o) /\ Undisturbed(T, o) /\ Answered(T, o)
  BY <1>1 DEF Repairing
<1>5. Unsent(o)' <=> Unsent(o)
  BY <1>2 DEF Unsent
<1> HIDE DEF o
<1>6. Originals(T, r)' /\ AsksOnce(r)' /\ Undisturbed(T, r)' /\ Answered(T, r)'
  BY <1>1, <1>2, <1>3, <1>4
     DEF Originals, AsksOnce, Asking, Unanswered, Undisturbed, Answered
<1>7. Originals(T, o)' /\ AsksOnce(o)' /\ Undisturbed(T, o)' /\ Answered(T, o)'
  BY <1>1, <1>2, <1>3, <1>4, <1>5
     DEF Originals, AsksOnce, Asking, Unanswered, Undisturbed, Answered
<1>8. QED
  BY <1>1, <1>2, <1>6, <1>7, BothRepair DEF o

LEMMA RepairReceive ==
  ASSUME TypeOK, up, NEW T, Repairing(T), NEW r \in Replicas, Receive(r)
  PROVE  Repairing(T)'
<1> DEFINE o == Other(r)
           m == Head(wire[r])
<1>1. o \in Replicas /\ o # r /\ Other(o) = r /\ Other(r) = o
  BY OtherOne
<1>2. /\ UNCHANGED <<disk, job, queued, refused, held>>
      /\ taken[r] = Idle /\ wire[r] \in Seq(Messages) /\ wire[r] # <<>>
      /\ wire'[r] = Tail(wire[r]) /\ wire'[o] = wire[o]
      /\ taken'[o] = taken[o] /\ sees'[o] = sees[o]
  BY <1>1 DEF Receive, page, history, TypeOK
<1>3. /\ Originals(T, r) /\ AsksOnce(r) /\ Undisturbed(T, r) /\ Answered(T, r)
      /\ Originals(T, o) /\ AsksOnce(o) /\ Undisturbed(T, o) /\ Answered(T, o)
  BY <1>1 DEF Repairing
<1>4. /\ \A kind : Has(wire[r], kind) <=> Has(wire'[r], kind) \/ m.kind = kind
      /\ ~Has(wire'[r], "presence")
      /\ Has(wire'[r], "request") => m.kind = "presence"
      /\ m.kind # "presence" => m.text = T[o]
      /\ m.kind = "change" => T[o] # Absent
      /\ InTurn(wire'[r]) /\ Carries(wire'[r], T[o])
  BY <1>1, <1>2, <1>3, TailKinds DEF Originals
<1>5. taken[r].at = "idle" /\ (Unsent(r)' <=> Unsent(r)) /\ (Unsent(o)' <=> Unsent(o))
  BY <1>2 DEF Idle, Unsent
<1>6. CASE m.kind = "change"
  <2>1. /\ taken'[r] = [at |-> "exists", text |-> m.text, base |-> m.base]
        /\ sees'[r] = sees[r]
    BY <1>6 DEF Receive, TypeOK
  <2>2. taken'[r].at = "exists" /\ taken'[r].text = T[o] /\ taken'[r] # Idle
    BY <1>4, <1>6, <2>1 DEF Idle
  <2>3. /\ Has(wire[r], "change") /\ ~Has(wire[r], "presence") /\ ~Has(wire[r], "request")
        /\ ~Has(wire'[r], "request") /\ ~Has(wire'[r], "presence")
    BY <1>4, <1>6
  <2> HIDE DEF m, o
  <2>4. ~Unanswered(r) /\ ~Unanswered(o)
    BY <1>1, <1>3, <1>5, <2>3 DEF Undisturbed, Unanswered, AsksOnce
  <2>5. ~Unanswered(r)' /\ ~Unanswered(o)'
    BY <1>1, <1>2, <2>2, <2>3, <2>4 DEF Unanswered, Asking
  <2>6. Originals(T, r)' /\ Originals(T, o)'
    <3>1. Originals(T, o)'
      BY <1>1, <1>2, <1>3 DEF Originals
    <3>2. /\ T[o] # Absent
          /\ taken'[r].at \notin {"compare", "ask", "answer", "find"}
      BY <1>4, <1>6, <2>2 DEF m
    <3>3. Originals(T, r)'
      BY <1>1, <1>2, <1>3, <1>4, <2>2, <3>2 DEF Originals
    <3>4. QED
      BY <3>1, <3>3
  <2>7. AsksOnce(r)' /\ AsksOnce(o)'
    BY <1>1, <1>2, <1>3, <2>1, <2>2, <2>3, <2>4 DEF AsksOnce, Asking, Unanswered
  <2>8. Undisturbed(T, r)' /\ Undisturbed(T, o)'
    BY <2>5 DEF Undisturbed
  <2>9. Answered(T, r)' /\ Answered(T, o)'
    BY <1>1, <1>2, <1>3, <1>5, <2>2, <2>4 DEF Answered, Applying
  <2>10. QED
    BY <1>1, <1>2, <2>6, <2>7, <2>8, <2>9, BothRepair DEF o
<1>7. CASE m.kind = "request"
  <2>1. /\ taken'[r] = [at |-> "find", text |-> m.text, base |-> Null]
        /\ sees'[r] = sees[r]
    BY <1>7 DEF Receive, TypeOK
  <2>2. taken'[r].at = "find" /\ taken'[r].text = T[o] /\ taken'[r] # Idle
    BY <1>4, <1>7, <2>1 DEF Idle
  <2>3. /\ Has(wire[r], "request") /\ ~Has(wire[r], "presence")
        /\ ~Has(wire'[r], "request") /\ ~Has(wire'[r], "presence")
        /\ (Has(wire'[r], "change") <=> Has(wire[r], "change"))
    BY <1>4, <1>7
  <2> HIDE DEF m, o
  <2>4. Originals(T, r)' /\ AsksOnce(r)' /\ Undisturbed(T, r)' /\ Answered(T, r)'
    BY <1>1, <1>2, <1>3, <1>4, <1>5, <2>1, <2>2, <2>3
       DEF Originals, AsksOnce, Asking, Unanswered, Undisturbed, Answered, Applying
  <2>5. Originals(T, o)' /\ AsksOnce(o)' /\ Undisturbed(T, o)' /\ Answered(T, o)'
    BY <1>1, <1>2, <1>3, <1>4, <1>5, <2>1, <2>2, <2>3
       DEF Originals, AsksOnce, Asking, Unanswered, Undisturbed, Answered, Applying
  <2>6. QED
    BY <1>1, <1>2, <2>4, <2>5, BothRepair DEF o
<1>8. CASE m.kind = "presence"
  <2>1. /\ taken'[r] = [at |-> "flush", text |-> Absent, base |-> Null]
        /\ sees'[r]
    BY <1>8 DEF Receive, TypeOK
  <2>2. taken'[r].at = "flush" /\ taken'[r] # Idle
    BY <2>1 DEF Idle
  <2>3. /\ Has(wire[r], "presence") /\ ~Has(wire'[r], "presence")
        /\ (Has(wire'[r], "change") <=> Has(wire[r], "change"))
        /\ (Has(wire'[r], "request") <=> Has(wire[r], "request"))
    BY <1>4, <1>8
  <2> HIDE DEF m, o
  <2>4. Originals(T, r)' /\ AsksOnce(r)' /\ Undisturbed(T, r)' /\ Answered(T, r)'
    BY <1>1, <1>2, <1>3, <1>4, <1>5, <2>1, <2>2, <2>3
       DEF Originals, AsksOnce, Asking, Unanswered, Undisturbed, Answered, Applying
  <2>5. Originals(T, o)' /\ AsksOnce(o)' /\ Undisturbed(T, o)' /\ Answered(T, o)'
    BY <1>1, <1>2, <1>3, <1>4, <1>5, <2>1, <2>2, <2>3
       DEF Originals, AsksOnce, Asking, Unanswered, Undisturbed, Answered, Applying
  <2>6. QED
    BY <1>1, <1>2, <2>4, <2>5, BothRepair DEF o
<1>9. QED
  BY <1>6, <1>7, <1>8 DEF Receive

(* A change is looked at: it goes on to be compared or written, or it is   *)
(* done with, its text being in the file or put aside.                     *)
LEMMA RepairLooks ==
  ASSUME TypeOK, NEW T, Repairing(T), NEW r \in Replicas,
         UNCHANGED <<disk, job, queued, wire, sees, held>>,
         \A q \in Replicas : refused[q] \subseteq refused'[q],
         taken[r].at \in Applying, \A q \in Replicas : q # r => taken'[q] = taken[q],
         \/ /\ taken'[r].at \in {"compare", "write"} /\ taken'[r].text = taken[r].text
            /\ taken'[r].at = "compare" => disk[r] # Absent
         \/ /\ taken'[r] = Idle
            /\ disk[r] = taken[r].text \/ taken[r].text \in refused'[r]
  PROVE  Repairing(T)'
<1> DEFINE o == Other(r)
<1>1. o \in Replicas /\ o # r /\ Other(o) = r /\ Other(r) = o
  BY OtherOne
<1>2. /\ Originals(T, r) /\ AsksOnce(r) /\ Undisturbed(T, r) /\ Answered(T, r)
      /\ Originals(T, o) /\ AsksOnce(o) /\ Undisturbed(T, o) /\ Answered(T, o)
  BY <1>1 DEF Repairing
<1>3. taken'[o] = taken[o] /\ (Unsent(r)' <=> Unsent(r)) /\ (Unsent(o)' <=> Unsent(o))
  BY <1>1 DEF Unsent
<1>4. Idle.at = "idle" /\ {"compare", "write"} \subseteq Applying
  BY DEF Idle, Applying
<1> HIDE DEF o
<1>5. ~Unanswered(r) /\ ~Unanswered(o)
  BY <1>1, <1>2 DEF Undisturbed
<1>6. taken[r].text = T[o] /\ T[o] # Absent
  BY <1>1, <1>2 DEF Originals
<1>7. taken'[r].at \in {"idle", "compare", "write"} /\ taken[r] # Idle
  BY <1>4 DEF Applying
<1>8. ~Unanswered(r)' /\ ~Unanswered(o)'
  BY <1>1, <1>3, <1>5, <1>7 DEF Unanswered, Asking
<1>9. Originals(T, r)' /\ Originals(T, o)'
  BY <1>1, <1>2, <1>3, <1>4, <1>6, <1>7 DEF Originals, Applying
<1>10. AsksOnce(r)' /\ AsksOnce(o)'
  BY <1>1, <1>2, <1>3, <1>5, <1>7 DEF AsksOnce, Asking, Unanswered
<1>11. Undisturbed(T, r)' /\ Undisturbed(T, o)'
  BY <1>8 DEF Undisturbed
<1>12. Answered(T, r)' /\ Answered(T, o)'
  BY <1>1, <1>2, <1>3, <1>4, <1>5, <1>6 DEF Answered
<1>13. QED
  BY <1>1, <1>9, <1>10, <1>11, <1>12, BothRepair DEF o

LEMMA RepairExistsCompare ==
  ASSUME TypeOK, NEW T, Repairing(T), NEW r \in Replicas, Exists(r) \/ Compare(r)
  PROVE  Repairing(T)'
<1>1. /\ UNCHANGED <<disk, job, queued, wire, sees, held>>
      /\ taken[r].at \in {"exists", "compare"}
  BY DEF Exists, Compare, page, link, history
<1>2. taken[r] \in [at : Applying \cup {"flush", "ask", "find", "answer"},
                    text : Contents, base : Bases]
  BY <1>1, TaskParts DEF TypeOK
<1>3. taken[r].text # Absent /\ (taken[r].at = "compare" => disk[r] # Absent)
  BY <1>1, OtherOne DEF Repairing, Originals, Applying
<1>4. ASSUME NEW at \in {"compare", "write"}, Handles(r, at)
      PROVE  /\ taken'[r].at = at /\ taken'[r].text = taken[r].text
             /\ \A q \in Replicas : q # r => taken'[q] = taken[q]
  BY <1>2, <1>4 DEF Handles, TypeOK
<1>5. Handled(r) => taken'[r] = Idle /\ \A q \in Replicas : q # r => taken'[q] = taken[q]
  BY DEF Handled, TypeOK
<1>6. CASE Exists(r)
  <2>1. refused' = refused /\ \/ Handles(r, "write")
                              \/ Handles(r, "compare") /\ disk[r] # Absent
    BY <1>3, <1>6 DEF Exists
  <2>2. \/ /\ taken'[r].at \in {"compare", "write"} /\ taken'[r].text = taken[r].text
           /\ taken'[r].at = "compare" => disk[r] # Absent
        \/ taken'[r] = Idle /\ disk[r] = taken[r].text
    BY <1>4, <2>1
  <2>3. \A q \in Replicas : q # r => taken'[q] = taken[q]
    BY <1>4, <2>1
  <2>4. taken[r].at \in Applying
    BY <1>1 DEF Applying
  <2>5. QED
    BY <1>1, <2>1, <2>2, <2>3, <2>4, RepairLooks
<1>7. CASE Compare(r)
  <2>1. \A q \in Replicas : refused[q] \subseteq refused'[q]
    <3>1. \/ refused' = refused
          \/ refused' = [refused EXCEPT ![r] = @ \cup {taken[r].text}]
      BY <1>7 DEF Compare
    <3>2. QED
      BY <3>1 DEF TypeOK
  <2>2. \/ Handles(r, "write")
        \/ Handled(r) /\ (disk[r] = taken[r].text \/ taken[r].text \in refused'[r])
    <3>1. taken[r].at = "compare"
      BY <1>7 DEF Compare
    <3>2. CASE disk[r] \in {Absent, taken[r].text}
      BY <1>3, <1>7, <3>1, <3>2 DEF Compare
    <3>3. CASE disk[r] \notin {Absent, taken[r].text} /\ ~MayReplace(r)
      BY <1>7, <3>3 DEF Compare, TypeOK
    <3>4. CASE disk[r] \notin {Absent, taken[r].text} /\ MayReplace(r)
      BY <1>7, <3>4 DEF Compare
    <3>5. QED
      BY <3>2, <3>3, <3>4
  <2>3. \/ /\ taken'[r].at \in {"compare", "write"} /\ taken'[r].text = taken[r].text
           /\ taken'[r].at = "compare" => disk[r] # Absent
        \/ /\ taken'[r] = Idle
           /\ disk[r] = taken[r].text \/ taken[r].text \in refused'[r]
    BY <1>4, <1>5, <2>2
  <2>4. \A q \in Replicas : q # r => taken'[q] = taken[q]
    BY <1>4, <1>5, <2>2
  <2>5. taken[r].at \in Applying
    BY <1>1 DEF Applying
  <2>6. QED
    BY <1>1, <2>1, <2>3, <2>4, <2>5, RepairLooks
<1>8. QED
  BY <1>6, <1>7

LEMMA RepairWrite ==
  ASSUME TypeOK, NEW T, Repairing(T), NEW r \in Replicas, Write(r)
  PROVE  Repairing(T)'
<1> DEFINE o == Other(r)
<1>1. o \in Replicas /\ o # r /\ Other(o) = r /\ Other(r) = o
  BY OtherOne
<1>2. /\ Originals(T, r) /\ AsksOnce(r) /\ Undisturbed(T, r) /\ Answered(T, r)
      /\ Originals(T, o) /\ AsksOnce(o) /\ Undisturbed(T, o) /\ Answered(T, o)
  BY <1>1 DEF Repairing
<1>3. /\ UNCHANGED <<job, queued, wire, sees, refused, held>>
      /\ taken[r].at = "write" /\ disk'[r] = taken[r].text /\ disk'[o] = disk[o]
      /\ taken'[r] = Idle /\ taken'[o] = taken[o]
  BY <1>1 DEF Write, Handled, Stores, page, link, TypeOK
<1>4. (Unsent(r)' <=> Unsent(r)) /\ (Unsent(o)' <=> Unsent(o)) /\ Idle.at = "idle"
  BY <1>3 DEF Unsent, Idle
<1> HIDE DEF o
<1>5. taken[r].at \in Applying /\ taken[r].text = T[o] /\ T[o] # Absent /\ taken[r] # Idle
  BY <1>1, <1>2, <1>3 DEF Originals, Applying, Idle
<1>6. ~Unanswered(r) /\ ~Unanswered(o)
  BY <1>1, <1>2, <1>5 DEF Undisturbed
<1>7. ~Unanswered(r)' /\ ~Unanswered(o)'
  BY <1>1, <1>3, <1>4, <1>6 DEF Unanswered, Asking
<1>8. Originals(T, r)' /\ Originals(T, o)'
  <2>1. Originals(T, o)'
    BY <1>1, <1>2, <1>3 DEF Originals
  <2>2. taken'[r].at = "idle" /\ taken'[r].at \notin Applying /\ disk'[r] = T[o]
    BY <1>3, <1>4, <1>5 DEF Applying
  <2>3. Originals(T, r)'
    BY <1>1, <1>2, <1>3, <2>2 DEF Originals
  <2>4. QED
    BY <2>1, <2>3
<1>9. AsksOnce(r)' /\ AsksOnce(o)'
  BY <1>1, <1>2, <1>3, <1>4, <1>6 DEF AsksOnce, Asking, Unanswered
<1>10. Undisturbed(T, r)' /\ Undisturbed(T, o)'
  BY <1>7 DEF Undisturbed
<1>11. Answered(T, r)' /\ Answered(T, o)'
  BY <1>1, <1>2, <1>3, <1>4, <1>5, <1>6 DEF Answered
<1>12. QED
  BY <1>1, <1>3, <1>8, <1>9, <1>10, <1>11, BothRepair DEF o

LEMMA RepairBuildManifest ==
  ASSUME TypeOK, NEW T, Repairing(T), NEW r \in Replicas, BuildManifest(r)
  PROVE  Repairing(T)'
<1> DEFINE o == Other(r)
<1>1. o \in Replicas /\ o # r /\ Other(o) = r /\ Other(r) = o
  BY OtherOne
<1>2. /\ Originals(T, r) /\ AsksOnce(r) /\ Undisturbed(T, r) /\ Answered(T, r)
      /\ Originals(T, o) /\ AsksOnce(o) /\ Undisturbed(T, o) /\ Answered(T, o)
  BY <1>1 DEF Repairing
<1>3. /\ UNCHANGED <<disk, job, queued, wire, sees, refused, held>>
      /\ taken[r].at = "flush" /\ taken'[o] = taken[o]
      /\ taken' = [taken EXCEPT ![r].at = "ask", ![r].text = disk[r]]
  BY <1>1 DEF BuildManifest, page, link, history, TypeOK
<1>4. taken'[r].at = "ask" /\ taken'[r].text = disk[r] /\ taken[r] # Idle
  <2>1. taken[r] \in [at : Applying \cup {"flush", "ask", "find", "answer"},
                      text : Contents, base : Bases]
    BY <1>3, TaskParts DEF TypeOK
  <2>2. QED
    BY <1>3, <2>1 DEF TypeOK, Idle
<1>5. (Unsent(r)' <=> Unsent(r)) /\ (Unsent(o)' <=> Unsent(o))
  BY <1>3 DEF Unsent
<1>6. {"flush", "ask", "find", "answer", "idle"} \cap Applying = {}
  BY DEF Applying
<1> HIDE DEF o
<1>7. disk[r] = T[r]
  BY <1>2, <1>3 DEF Undisturbed, Unanswered, Asking
<1>8. (Asking(r)' <=> Asking(r)) /\ (Asking(o)' <=> Asking(o))
  BY <1>3, <1>4 DEF Asking
<1>9. (Unanswered(r)' <=> Unanswered(r)) /\ (Unanswered(o)' <=> Unanswered(o))
  BY <1>1, <1>3, <1>4, <1>8 DEF Unanswered
<1>10. Originals(T, r)' /\ Originals(T, o)'
  BY <1>1, <1>2, <1>3, <1>4, <1>6, <1>7 DEF Originals
<1>11. AsksOnce(r)' /\ AsksOnce(o)'
  BY <1>1, <1>2, <1>3, <1>4, <1>8 DEF AsksOnce
<1>12. Undisturbed(T, r)' /\ Undisturbed(T, o)'
  BY <1>1, <1>2, <1>3, <1>4, <1>6, <1>9 DEF Undisturbed
<1>13. Answered(T, r)' /\ Answered(T, o)'
  BY <1>1, <1>2, <1>3, <1>4, <1>5, <1>6, <1>9 DEF Answered
<1>14. QED
  BY <1>1, <1>3, <1>10, <1>11, <1>12, <1>13, BothRepair DEF o

LEMMA RepairSendRequest ==
  ASSUME TypeOK, NEW T, Repairing(T), NEW r \in Replicas, SendRepairRequest(r)
  PROVE  Repairing(T)'
<1> DEFINE o == Other(r)
           m == [kind |-> "request", text |-> taken[r].text]
<1>1. o \in Replicas /\ o # r /\ Other(o) = r /\ Other(r) = o
  BY OtherOne
<1>2. /\ Originals(T, r) /\ AsksOnce(r) /\ Undisturbed(T, r) /\ Answered(T, r)
      /\ Originals(T, o) /\ AsksOnce(o) /\ Undisturbed(T, o) /\ Answered(T, o)
  BY <1>1 DEF Repairing
<1>3. taken[r].at = "ask" /\ Asking(r) /\ sees[r] /\ taken[r] # Idle
  BY <1>2 DEF SendRepairRequest, Asking, AsksOnce, Idle
<1>4. /\ UNCHANGED <<disk, job, queued, sees, refused, held>>
      /\ wire'[r] = wire[r] /\ wire'[o] = Append(wire[o], m) /\ wire[o] \in Seq(Messages)
      /\ taken'[r] = Idle /\ taken'[o] = taken[o]
  BY <1>1, <1>3 DEF SendRepairRequest, Handled, Posts, page, history, TypeOK
<1>5. m \in Messages /\ m.kind = "request" /\ m.text = T[r]
  <2>1. taken[r] \in [at : Applying \cup {"flush", "ask", "find", "answer"},
                      text : Contents, base : Bases]
    BY <1>3, TaskParts DEF TypeOK
  <2>2. taken[r].text \in Contents
    BY <2>1
  <2>3. m \in Messages
    BY <2>2, MessageParts
  <2>4. QED
    BY <1>2, <1>3, <2>3 DEF Originals
<1>6. (Unsent(r)' <=> Unsent(r)) /\ (Unsent(o)' <=> Unsent(o)) /\ taken'[r].at = "idle"
  BY <1>4 DEF Unsent, Idle
<1>7. {"flush", "ask", "find", "answer", "idle"} \cap Applying = {}
  BY DEF Applying
<1> HIDE DEF m, o
<1>8. ~Has(wire[o], "change") /\ ~Has(wire[o], "request") /\ ~Has(wire[r], "presence")
  BY <1>1, <1>2, <1>3 DEF AsksOnce
<1>9. /\ \A kind : Has(wire'[o], kind) <=> Has(wire[o], kind) \/ kind = "request"
      /\ InTurn(wire'[o]) /\ Carries(wire'[o], T[r])
  BY <1>1, <1>2, <1>4, <1>5, <1>8, AppendKinds DEF Originals
<1>10. /\ Has(wire'[o], "request") /\ ~Has(wire'[o], "change")
       /\ Has(wire'[o], "presence") <=> Has(wire[o], "presence")
  BY <1>8, <1>9
<1>11. ~Asking(r)' /\ (Asking(o)' <=> Asking(o))
  BY <1>4, <1>6, <1>8, <1>10 DEF Asking
<1>12. /\ Unanswered(r) /\ Unanswered(r)' /\ (Unanswered(o)' <=> Unanswered(o))
  BY <1>1, <1>3, <1>4, <1>6, <1>10, <1>11 DEF Unanswered
<1>13. Originals(T, r)' /\ Originals(T, o)'
  BY <1>1, <1>2, <1>4, <1>6, <1>7, <1>9 DEF Originals
<1>14. AsksOnce(r)' /\ AsksOnce(o)'
  BY <1>1, <1>2, <1>3, <1>4, <1>6, <1>8, <1>10, <1>11 DEF AsksOnce
<1>15. Undisturbed(T, r)' /\ Undisturbed(T, o)'
  BY <1>1, <1>2, <1>4, <1>6, <1>7, <1>10, <1>12 DEF Undisturbed
<1>16. Answered(T, r)' /\ Answered(T, o)'
  BY <1>1, <1>2, <1>3, <1>4, <1>6, <1>7, <1>8, <1>10, <1>12 DEF Answered
<1>17. QED
  BY <1>1, <1>4, <1>13, <1>14, <1>15, <1>16, BothRepair DEF o

LEMMA RepairFindChanges ==
  ASSUME TypeOK, NEW T, Repairing(T), NEW r \in Replicas, FindChanges(r)
  PROVE  Repairing(T)'
<1> DEFINE o == Other(r)
<1>1. o \in Replicas /\ o # r /\ Other(o) = r /\ Other(r) = o
  BY OtherOne
<1>2. /\ Originals(T, r) /\ AsksOnce(r) /\ Undisturbed(T, r) /\ Answered(T, r)
      /\ Originals(T, o) /\ AsksOnce(o) /\ Undisturbed(T, o) /\ Answered(T, o)
  BY <1>1 DEF Repairing
<1>3. /\ UNCHANGED <<disk, job, queued, wire, sees, refused, held>>
      /\ taken[r].at = "find" /\ taken'[o] = taken[o] /\ taken[r] # Idle
  BY <1>1 DEF FindChanges, Handled, page, link, history, TypeOK, Idle
<1>4. (Unsent(r)' <=> Unsent(r)) /\ (Unsent(o)' <=> Unsent(o))
  BY <1>3 DEF Unsent
<1>5. {"flush", "ask", "find", "answer", "idle"} \cap Applying = {}
  BY DEF Applying
<1> HIDE DEF o
<1>6. Unanswered(o) /\ disk[r] = T[r] /\ taken[r].text = T[o] /\ queued[r] = Nothing
  BY <1>1, <1>2, <1>3 DEF Undisturbed, Unanswered, Originals
<1>7. \/ taken'[r] = Idle /\ T[r] \in {Absent, T[o]}
      \/ taken'[r].at = "answer" /\ taken'[r].text = T[r] /\ T[r] # Absent
  <2>1. CASE disk[r] \in {Absent, taken[r].text}
    BY <1>6, <2>1 DEF FindChanges, Handled, TypeOK
  <2>2. CASE disk[r] \notin {Absent, taken[r].text}
    BY <1>6, <2>2 DEF FindChanges, TypeOK
  <2>3. QED
    BY <2>1, <2>2
<1>8. taken'[r].at \in {"idle", "answer"} /\ (taken'[r].at = "idle" => T[r] \in {Absent, T[o]})
  BY <1>7 DEF Idle
<1>9. ~Asking(o) /\ ~Asking(o)' /\ ~Asking(r) /\ ~Asking(r)' /\ ~Has(wire[r], "request")
  BY <1>1, <1>2, <1>3, <1>8 DEF Asking, AsksOnce
<1>10. /\ Unanswered(r)' <=> Unanswered(r)
       /\ Unanswered(o)' <=> taken'[r].at = "answer"
  BY <1>1, <1>3, <1>8, <1>9 DEF Unanswered
<1>11. Originals(T, r)' /\ Originals(T, o)'
  <2>1. Originals(T, o)'
    BY <1>1, <1>2, <1>3 DEF Originals
  <2>2. taken'[r].at \notin Applying \cup {"compare", "ask", "find"}
    BY <1>5, <1>8
  <2>3. taken'[r].at = "answer" => taken'[r].text = T[r] /\ T[r] # Absent
    BY <1>7 DEF Idle
  <2>4. Originals(T, r)'
    BY <1>1, <1>2, <1>3, <2>2, <2>3 DEF Originals
  <2>5. QED
    BY <2>1, <2>4
<1>12. AsksOnce(r)' /\ AsksOnce(o)'
  BY <1>1, <1>2, <1>3, <1>8, <1>9 DEF AsksOnce, Asking
<1>13. Undisturbed(T, r)' /\ Undisturbed(T, o)'
  BY <1>1, <1>2, <1>3, <1>5, <1>6, <1>8, <1>10 DEF Undisturbed
<1>14. Answered(T, r)' /\ Answered(T, o)'
  BY <1>1, <1>2, <1>3, <1>4, <1>5, <1>6, <1>8, <1>10 DEF Answered
<1>15. QED
  BY <1>1, <1>3, <1>11, <1>12, <1>13, <1>14, BothRepair DEF o

LEMMA RepairTrySend ==
  ASSUME TypeOK, NEW T, Repairing(T), NEW r \in Replicas, TrySendRepairFile(r)
  PROVE  Repairing(T)'
<1> DEFINE o == Other(r)
<1>1. o \in Replicas /\ o # r /\ Other(o) = r /\ Other(r) = o
  BY OtherOne
<1>2. /\ Originals(T, r) /\ AsksOnce(r) /\ Undisturbed(T, r) /\ Answered(T, r)
      /\ Originals(T, o) /\ AsksOnce(o) /\ Undisturbed(T, o) /\ Answered(T, o)
  BY <1>1 DEF Repairing
<1>3. /\ UNCHANGED <<disk, job, wire, sees, refused, held>>
      /\ taken[r].at = "answer" /\ taken'[r] = Idle /\ taken'[o] = taken[o] /\ taken[r] # Idle
  BY <1>1 DEF TrySendRepairFile, Handled, page, link, history, TypeOK, Idle
<1>4. taken'[r].at = "idle"
  BY <1>3 DEF Idle
<1>5. {"flush", "ask", "find", "answer", "idle"} \cap Applying = {}
  BY DEF Applying
<1> HIDE DEF o
<1>6. Unanswered(o) /\ disk[r] = T[r] /\ taken[r].text = T[r] /\ T[r] # Absent /\ queued[r] = Nothing
  BY <1>1, <1>2, <1>3 DEF Undisturbed, Unanswered, Originals
<1>7. Unsent(r)' /\ queued'[r].text = T[r] /\ queued'[o] = queued[o]
  <2>1. taken[r] \in [at : Applying \cup {"flush", "ask", "find", "answer"},
                      text : Contents, base : Bases]
    BY <1>3, TaskParts DEF TypeOK
  <2>2. /\ queued'[r] = [text |-> taken[r].text, base |-> taken[r].base, sent |-> FALSE]
        /\ queued'[o] = queued[o]
    BY <1>1, <1>6 DEF TrySendRepairFile, Queues, TypeOK
  <2>3. queued'[r] # Nothing
    <3>1. taken[r].text \in Contents /\ taken[r].base \in Bases
      BY <2>1
    <3>2. queued'[r] \in [text : Contents, base : Bases, sent : BOOLEAN]
      BY <2>2, <3>1
    <3>3. QED
      BY <3>2, ConstantsAssumption DEF Contents, Bases
  <2>4. QED
    BY <1>6, <2>2, <2>3 DEF Unsent
<1>8. Unsent(o)' <=> Unsent(o)
  BY <1>7 DEF Unsent
<1>9. ~Asking(o) /\ ~Asking(o)' /\ ~Asking(r) /\ ~Asking(r)' /\ ~Has(wire[r], "request")
  BY <1>1, <1>2, <1>3, <1>4 DEF Asking, AsksOnce
<1>10. (Unanswered(r)' <=> Unanswered(r)) /\ ~Unanswered(o)'
  BY <1>1, <1>3, <1>4, <1>9 DEF Unanswered
<1>11. Originals(T, r)' /\ Originals(T, o)'
  BY <1>1, <1>2, <1>3, <1>4, <1>5, <1>6, <1>7 DEF Originals
<1>12. AsksOnce(r)' /\ AsksOnce(o)'
  BY <1>1, <1>2, <1>3, <1>4, <1>7, <1>9 DEF AsksOnce, Asking
<1>13. Undisturbed(T, r)' /\ Undisturbed(T, o)'
  BY <1>1, <1>2, <1>3, <1>4, <1>5, <1>7, <1>10 DEF Undisturbed
<1>14. Answered(T, r)' /\ Answered(T, o)'
  BY <1>1, <1>2, <1>3, <1>4, <1>5, <1>7, <1>8, <1>10 DEF Answered
<1>15. QED
  BY <1>1, <1>3, <1>11, <1>12, <1>13, <1>14, BothRepair DEF o

(* What a repair does not see.                                             *)
LEMMA RepairUntouched ==
  ASSUME NEW T, Repairing(T), UNCHANGED <<disk, job, queued, wire, sees, taken, refused, held>>
  PROVE  Repairing(T)'
<1> SUFFICES ASSUME NEW r \in Replicas
             PROVE  Originals(T, r)' /\ AsksOnce(r)' /\ Undisturbed(T, r)' /\ Answered(T, r)'
  BY DEF Repairing
<1>1. Originals(T, r) /\ AsksOnce(r) /\ Undisturbed(T, r) /\ Answered(T, r)
  BY DEF Repairing
<1>2. Other(r) \in Replicas /\ Other(Other(r)) = r
  BY OtherOne
<1>3. Unsent(r)' <=> Unsent(r)
  BY DEF Unsent
<1>4. (Unanswered(r)' <=> Unanswered(r)) /\ (Unanswered(Other(r))' <=> Unanswered(Other(r)))
  BY <1>2 DEF Unanswered, Asking
<1>5. Originals(T, r)' /\ AsksOnce(r)'
  BY <1>1 DEF Originals, AsksOnce, Asking
<1>6. Undisturbed(T, r)' /\ Answered(T, r)'
  BY <1>1, <1>3, <1>4 DEF Undisturbed, Answered
<1>7. QED
  BY <1>5, <1>6

(* While a repair goes on no user has anything under way.                  *)
LEMMA RepairOfOne ==
  ASSUME TypeOK, up, NEW T, Repairing(T), NEW r \in Replicas,
         \/ SaveWrites(r) \/ SaveSends(r) \/ DeleteErases(r) \/ DeleteSends(r) \/ SelectNote(r)
         \/ Flush(r) \/ Acknowledged(r) \/ AckTimesOut(r)
         \/ Receive(r) \/ Exists(r) \/ Compare(r) \/ Write(r)
         \/ BuildManifest(r) \/ SendRepairRequest(r) \/ FindChanges(r) \/ TrySendRepairFile(r)
  PROVE  Repairing(T)'
<1>1. job[r].at = "idle"
  BY DEF Repairing, Originals, Idle
<1>2. ~SaveWrites(r) /\ ~SaveSends(r) /\ ~DeleteErases(r) /\ ~DeleteSends(r)
  BY <1>1 DEF SaveWrites, SaveSends, DeleteErases, DeleteSends
<1>3. CASE SelectNote(r)
  <2>1. UNCHANGED <<disk, job, queued, wire, sees, taken, refused, held>>
    BY <1>3 DEF SelectNote, link, history
  <2>2. QED
    BY <2>1, RepairUntouched
<1>4. CASE Flush(r) \/ Acknowledged(r) \/ AckTimesOut(r) \/ Receive(r)
  BY <1>4, RepairFlush, RepairAcknowledged, RepairReceive
<1>5. CASE Exists(r) \/ Compare(r) \/ Write(r)
  BY <1>5, RepairExistsCompare, RepairWrite
<1>6. CASE BuildManifest(r) \/ SendRepairRequest(r) \/ FindChanges(r) \/ TrySendRepairFile(r)
  BY <1>6, RepairBuildManifest, RepairSendRequest, RepairFindChanges, RepairTrySend
<1>7. QED
  BY <1>2, <1>3, <1>4, <1>5, <1>6

(* A repair starts when the two meet with nothing left under way.          *)
LEMMA RepairMeets ==
  ASSUME TypeOK, Meet, held' # {}
  PROVE  \E T \in [Replicas -> held' \cup {Absent}] : Repairing(T)'
<1> DEFINE m == [kind |-> "presence"]
<1>. PICK T : T = [r \in Replicas |-> disk[r]]
  OBVIOUS
<1>1. /\ UNCHANGED <<disk, job, queued, sees, taken, refused>>
      /\ Settled /\ held' = {disk[r] : r \in Replicas} \ {Absent}
      /\ wire' = [r \in Replicas |-> Append(wire[r], m)]
  BY DEF Meet, page
<1>2. ASSUME NEW r \in Replicas
      PROVE  /\ job'[r] = Idle /\ taken'[r] = Idle /\ queued'[r] = Nothing
             /\ wire'[r] = <<m>> /\ T[r] = disk'[r] /\ taken'[r].at = "idle"
  <2>1. wire'[r] = <<m>>
    <3>1. wire[r] = <<>> /\ wire'[r] = Append(wire[r], m)
      BY <1>1 DEF Settled
    <3>2. Append(<<>>, m) = <<m>>
      OBVIOUS
    <3>3. QED
      BY <3>1, <3>2
  <2>2. job'[r] = Idle /\ taken'[r] = Idle /\ queued'[r] = Nothing /\ T[r] = disk'[r]
    BY <1>1 DEF Settled
  <2>3. QED
    BY <2>1, <2>2 DEF Idle
<1>3. T \in [Replicas -> held' \cup {Absent}]
  BY <1>1
<1>4. held' = {T[r] : r \in Replicas} \ {Absent}
  BY <1>1
<1>5. ASSUME NEW r \in Replicas
      PROVE  /\ DOMAIN wire'[r] = {1} /\ wire'[r][1].kind = "presence"
             /\ Has(wire'[r], "presence")
             /\ ~Has(wire'[r], "change") /\ ~Has(wire'[r], "request")
  <2>1. DOMAIN wire'[r] = {1} /\ wire'[r][1] = m
    BY <1>2
  <2>2. wire'[r][1].kind = "presence"
    BY <2>1
  <2>3. QED
    BY <2>1, <2>2 DEF Has
<1>6. ASSUME NEW r \in Replicas, NEW text
      PROVE  InTurn(wire'[r]) /\ Carries(wire'[r], text)
  BY <1>5 DEF InTurn, Carries
<1>7. ASSUME NEW r \in Replicas
      PROVE  Originals(T, r)' /\ AsksOnce(r)' /\ Undisturbed(T, r)' /\ Answered(T, r)'
  <2>1. Other(r) \in Replicas /\ Other(Other(r)) = r
    BY OtherOne
  <2>. Idle.at = "idle" /\ "idle" \notin Applying
    BY DEF Idle, Applying
  <2>2. Originals(T, r)'
    <3>1. /\ job'[r] = Idle /\ disk'[r] = T[r] /\ queued'[r] = Nothing
          /\ taken'[r].at = "idle" /\ InTurn(wire'[r]) /\ Carries(wire'[r], T[Other(r)])
      BY <1>2, <1>6
    <3>2. QED
      BY <3>1 DEF Originals
  <2>3. AsksOnce(r)'
    BY <1>2, <1>5, <2>1 DEF AsksOnce, Asking
  <2>4. Undisturbed(T, r)'
    <3>1. /\ queued'[Other(r)] = Nothing /\ ~Has(wire'[r], "change")
          /\ taken'[r].at = "idle" /\ taken'[Other(r)].at = "idle"
          /\ disk'[r] = T[r] /\ disk'[Other(r)] = T[Other(r)]
      BY <1>2, <1>5, <2>1
    <3>2. QED
      BY <3>1 DEF Undisturbed
  <2>5. Answered(T, r)'
    BY <1>5, <2>1 DEF Answered, Unanswered, Asking
  <2>6. QED
    BY <2>2, <2>3, <2>4, <2>5
<1>8. Repairing(T)'
  BY <1>4, <1>7 DEF Repairing
<1>9. QED
  BY <1>3, <1>8

LEMMA RepairStep ==
  ASSUME TypeOK, RepairInv, [Next]_vars
  PROVE  RepairInv'
<1> SUFFICES ASSUME up', held' # {}
             PROVE  \E T \in [Replicas -> held' \cup {Absent}] : Repairing(T)'
  BY DEF RepairInv
<1>1. ASSUME UNCHANGED <<up, held>>, \A T : Repairing(T) => Repairing(T)'
      PROVE  \E T \in [Replicas -> held' \cup {Absent}] : Repairing(T)'
  BY <1>1 DEF RepairInv
<1>2. CASE UNCHANGED vars
  <2>1. UNCHANGED <<up, held>> /\ UNCHANGED <<disk, job, queued, wire, sees, taken, refused, held>>
    BY <1>2 DEF vars, page, link, history
  <2>2. QED
    BY <1>1, <2>1, RepairUntouched
<1>3. CASE Part
  <2>1. up' = FALSE
    BY <1>3, Zenon DEF Part
  <2>2. QED
    BY <2>1
<1>4. CASE Meet
  BY <1>4, RepairMeets
<1>5. ASSUME NEW r \in Replicas, SaveBegins(r) \/ DeleteBegins(r)
      PROVE  FALSE
  BY <1>5 DEF SaveBegins, DeleteBegins, TryReadContentHash
<1>6. ASSUME NEW r \in Replicas,
             \/ SaveWrites(r) \/ SaveSends(r) \/ DeleteErases(r) \/ DeleteSends(r) \/ SelectNote(r)
             \/ Flush(r) \/ Acknowledged(r) \/ AckTimesOut(r)
             \/ Receive(r) \/ Exists(r) \/ Compare(r) \/ Write(r)
             \/ BuildManifest(r) \/ SendRepairRequest(r) \/ FindChanges(r) \/ TrySendRepairFile(r)
      PROVE  \E T \in [Replicas -> held' \cup {Absent}] : Repairing(T)'
  <2>1. UNCHANGED <<up, held>>
    <3>1. CASE SaveWrites(r) \/ SaveSends(r) \/ DeleteErases(r) \/ DeleteSends(r) \/ SelectNote(r)
      BY <3>1 DEF SaveWrites, SaveSends, DeleteErases, DeleteSends, SelectNote, Changes,
                  link, history
    <3>2. CASE \/ Flush(r) \/ Acknowledged(r) \/ AckTimesOut(r) \/ Receive(r)
      BY <3>2 DEF Flush, Acknowledged, AckTimesOut, Receive, link, history
    <3>3. CASE Exists(r) \/ Compare(r) \/ Write(r) \/ BuildManifest(r)
      BY <3>3 DEF Exists, Compare, Write, BuildManifest, link, history
    <3>4. CASE SendRepairRequest(r) \/ FindChanges(r) \/ TrySendRepairFile(r)
      BY <3>4 DEF SendRepairRequest, FindChanges, TrySendRepairFile, link, history
    <3>5. QED
      BY <1>6, <3>1, <3>2, <3>3, <3>4
  <2>2. QED
    BY <1>1, <1>6, <2>1, RepairOfOne
<1>7. QED
  BY <1>2, <1>3, <1>4, <1>5, <1>6 DEF Next

(* Whatever text a file held when the two met is still somewhere: its own  *)
(* replica has it until it has answered, and then the other does, or the   *)
(* answer is on its way.                                                   *)
LEMMA RepairHoldsOn ==
  ASSUME TypeOK, RepairInv
  PROVE  RepairKeeps
<1> SUFFICES ASSUME up, NEW text \in held
             PROVE  \E q \in Replicas : text \in Kept(q)
  BY DEF RepairKeeps
<1>1. PICK T \in [Replicas -> held \cup {Absent}] : Repairing(T)
  BY DEF RepairInv
<1>2. PICK r \in Replicas : text = T[r] /\ T[r] # Absent
  BY <1>1 DEF Repairing
<1> DEFINE o == Other(r)
<1>3. o \in Replicas /\ Other(o) = r /\ o # r
  BY OtherOne
<1>4. /\ Originals(T, r) /\ Undisturbed(T, o) /\ Answered(T, r)
      /\ Originals(T, o)
  BY <1>1, <1>3 DEF Repairing
<1> HIDE DEF o
<1>5. CASE disk[r] = text \/ disk[o] = text
  BY <1>3, <1>5 DEF Kept
<1>6. CASE Unanswered(o)
  BY <1>2, <1>3, <1>4, <1>5, <1>6 DEF Undisturbed
<1>7. CASE T[r] = T[o]
  BY <1>2, <1>3, <1>4, <1>5, <1>7 DEF Originals, o
<1>8. CASE Unsent(r)
  BY <1>2, <1>4, <1>8 DEF Unsent, Originals, Kept
<1>9. CASE Has(wire[o], "change")
  <2>1. PICK i \in DOMAIN wire[o] : wire[o][i].kind = "change"
    BY <1>9 DEF Has
  <2>2. wire[o][i].text = text
    BY <1>2, <1>3, <1>4, <2>1 DEF Originals, Carries
  <2>3. QED
    BY <1>3, <2>1, <2>2 DEF Kept
<1>10. CASE taken[o].at \in Applying
  BY <1>2, <1>3, <1>4, <1>10 DEF Originals, Applying, Kept
<1>11. CASE T[r] \in refused[o]
  BY <1>2, <1>3, <1>11 DEF Kept
<1>12. QED
  BY <1>2, <1>4, <1>5, <1>6, <1>7, <1>8, <1>9, <1>10, <1>11 DEF Answered, o

(* The texts with which two replicas meet again outlast the repair, for    *)
(* any number of users' steps and losses before and after it.              *)
THEOREM RepairsKeepBoth == Spec => []RepairKeeps
<1>1. Init => TypeOK /\ RepairInv
  BY TypeInit DEF Init, RepairInv
<1>2. TypeOK /\ RepairInv /\ [Next]_vars => TypeOK' /\ RepairInv'
  BY TypeStep, RepairStep
<1>3. TypeOK /\ RepairInv => RepairKeeps
  BY RepairHoldsOn
<1>4. QED
  BY <1>1, <1>2, <1>3, PTL DEF Spec
=============================================================================
