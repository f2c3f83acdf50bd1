------------------------ MODULE BrowserVaultProofs ------------------------
(* Proofs about BrowserVault for every set of vaults, directories, paths,    *)
(* texts and tasks, and every number of calls.                               *)
EXTENDS BrowserVault, TLAPS

-----------------------------------------------------------------------------
(* What the variables say of each other.                                    *)
Rooted == {"ensuring", "saving", "ensuringOpened"}   \* cur is assigned
OfFile == {"entry", "handle", "writable", "done", "failed"}
Jobs == {Idle} \cup ChangeJobs \cup FileJobs
Saves == [task : Tasks, id : Ids, root : Roots \cup {None}]

(* A task waits for at most one save, and it does while it is "saving".     *)
SavesAwaited ==
  /\ \A t \in Tasks : job[t].pc = "saving" <=> \E i \in DOMAIN saves : saves[i].task = t
  /\ \A i, k \in DOMAIN saves : saves[i].task = saves[k].task => i = k

(* A change knows its vault by the time it needs it; the page has a vault    *)
(* only if the module has one.                                              *)
JobsKnow ==
  /\ page # NoVault => cur # NoVault
  /\ \A t \in Tasks :
       /\ job[t].pc \in Rooted \cup OfFile => cur # NoVault
       /\ job[t].pc \in {"asking", "picking", "looking"} => job[t].id \in Ids
       /\ job[t].pc = "asking" => job[t].root \in Dirs /\ handles[job[t].id] # None

(* A virtual vault keeps its files under its own id.                        *)
OwnRoots ==
  /\ cur.root \in Ids => cur.root = cur.id
  /\ \A i \in Ids : handles[i] \in Ids => handles[i] = i
  /\ \A k \in DOMAIN saves : saves[k].root \in Ids => saves[k].root = saves[k].id

(* A write has a text.                                                      *)
WritesText == \A t \in Tasks :
  job[t].pc \in {"entry", "handle", "writable"} /\ job[t].op = "write" => job[t].text \in Texts

IInv == TypeOK /\ SavesAwaited /\ JobsKnow /\ OwnRoots /\ WritesText

-----------------------------------------------------------------------------
(* The kinds of steps: what all the actions of a kind do, for a task t whose *)
(* job becomes j.                                                           *)

(* A change starts, goes on or ends without touching the store.             *)
Moves(t, j) ==
  /\ j \in {Idle} \cup ChangeJobs
  /\ job' = [job EXCEPT ![t] = j]
  /\ \/ /\ job[t] = Idle
        /\ ChangesApart => \A u \in Tasks : ~Changing(u)
     \/ Changing(t)
  /\ job[t].pc # "saving"
  /\ refused' \in BOOLEAN /\ (refused => refused')
  /\ job[t].pc = "ensuring" => refused'
  /\ j.pc \in {"idle", "restoring", "ensuring", "asking", "picking", "looking"}
  /\ j.pc \in {"asking", "picking", "looking"} => j.id \in Ids
  /\ j.pc = "asking" => j.root \in Dirs /\ handles[j.id] = j.root
  /\ \/ j.pc # "ensuring" /\ UNCHANGED cur
     \/ /\ j.pc = "ensuring"
        /\ \E i \in Ids : handles[i] \in Ids /\ cur' = [id |-> i, root |-> handles[i]]
  /\ \/ UNCHANGED page /\ (job[t].pc = "ensuringOpened" => refused')
     \/ job[t].pc = "ensuringOpened" /\ page' = cur
  /\ calls' \in 0..MaxCalls
  /\ UNCHANGED <<storage, files>>

(* A change asks for a save of the module's vault and waits for it.         *)
Saving(t, j, root) ==
  /\ j \in ChangeJobs /\ j.pc = "saving"
  /\ job' = [job EXCEPT ![t] = j]
  /\ Changing(t) /\ job[t].pc # "saving"
  /\ cur' \in [id : Ids, root : Roots]
  /\ cur'.root \in Ids => cur'.root = cur'.id
  /\ root \in {None, cur'.root}
  /\ root = None => handles[cur'.id] # None \/ (job[t].pc = "ensuring" /\ UNCHANGED cur)
  /\ QueueSave(t, cur'.id, root)
  /\ UNCHANGED <<page, handles, active, files, refused, calls>>

(* The first save is through, or given up.                                  *)
Saved(j) ==
  /\ saves # <<>> /\ saves' = Tail(saves)
  /\ j \in {Idle} \cup ChangeJobs /\ j.pc \in {"idle", "ensuringOpened"}
  /\ job' = [job EXCEPT ![Head(saves).task] = j]
  /\ page' \in {page, cur} /\ (j.pc = "idle" => page' = cur \/ refused')
  /\ refused' \in BOOLEAN /\ (refused => refused')
  /\ \/ /\ active' = Head(saves).id
        /\ handles' = IF Head(saves).root = None THEN handles
                      ELSE [handles EXCEPT ![Head(saves).id] = Head(saves).root]
     \/ refused' /\ j = Idle /\ UNCHANGED <<handles, active>>
  /\ UNCHANGED <<cur, files, calls>>

(* A file call begins, goes on or returns.                                  *)
Calling(t, j) ==
  /\ j \in {Idle} \cup FileJobs
  /\ job' = [job EXCEPT ![t] = j]
  /\ \/ /\ job[t] = Idle /\ page # NoVault
        /\ j.root = cur.root
     \/ /\ job[t].pc \in OfFile
        /\ j = Idle \/ (j.pc # "entry" /\ j.root = job[t].root)
  /\ j.pc \in {"entry", "handle", "writable"} /\ j.op = "write" => j.text \in Texts
  /\ files' \in [Roots -> [Paths -> Holdings]]
  /\ calls' \in 0..MaxCalls
  /\ UNCHANGED <<cur, page, storage, refused>>

-----------------------------------------------------------------------------
(* The jobs: what Goes, Ends and Takes leave of a task's record.            *)
LEMMA JobKinds ==
  ASSUME TypeOK, NEW t \in Tasks
  PROVE  /\ job[t] \in Jobs
         /\ Changing(t) => job[t] \in ChangeJobs
         /\ job[t].pc \in OfFile => job[t] \in FileJobs
         /\ ~Busy(t) <=> job[t].pc = "idle"
         /\ job[t].pc \in {"idle"} \cup Changes \cup OfFile
BY DEF TypeOK, Jobs, Changing, Changes, ChangeJobs, FileJobs, OfFile, Idle, Busy

LEMMA ChangeGoes ==
  ASSUME TypeOK, NEW t \in Tasks, Changing(t), NEW pc \in Changes, Goes(t, pc)
  PROVE  \E j \in ChangeJobs :
           /\ j.pc = pc /\ j.id = job[t].id /\ j.root = job[t].root
           /\ job' = [job EXCEPT ![t] = j]
<1>1. job[t] \in ChangeJobs
  BY JobKinds
<1>2. [job[t] EXCEPT !.pc = pc] \in ChangeJobs
  BY <1>1 DEF ChangeJobs
<1>3. job' = [job EXCEPT ![t] = [job[t] EXCEPT !.pc = pc]]
  BY DEF Goes
<1>4. QED
  BY <1>1, <1>2, <1>3 DEF ChangeJobs

LEMMA FileGoes ==
  ASSUME TypeOK, NEW t \in Tasks, job[t].pc \in OfFile, NEW pc \in OfFile, Goes(t, pc)
  PROVE  \E j \in FileJobs :
           /\ j.pc = pc /\ j.op = job[t].op /\ j.root = job[t].root
           /\ j.path = job[t].path /\ j.text = job[t].text
           /\ job' = [job EXCEPT ![t] = j]
<1>1. job[t] \in FileJobs
  BY JobKinds
<1>2. [job[t] EXCEPT !.pc = pc] \in FileJobs
  BY <1>1 DEF FileJobs, OfFile
<1>3. job' = [job EXCEPT ![t] = [job[t] EXCEPT !.pc = pc]]
  BY DEF Goes
<1>4. QED
  BY <1>1, <1>2, <1>3 DEF FileJobs

(* What a call leaves at its path (Takes).                                  *)
Left(t, root) ==
  CASE job[t].op = "write" -> job[t].text
    [] job[t].op = "delete" -> Missing
    [] OTHER -> files[root][job[t].path]

LEMMA TakesEffect ==
  ASSUME TypeOK, NEW t \in Tasks, job[t].pc \in OfFile, NEW r \in Roots, Takes(t, r)
  PROVE  /\ Left(t, r) \in Holdings
         /\ files' = [files EXCEPT ![r][job[t].path] = Left(t, r)]
         /\ files' \in [Roots -> [Paths -> Holdings]]
         /\ \E j \in FileJobs :
              /\ j.pc = "done" /\ j.op = job[t].op /\ j.root = job[t].root
              /\ j.path = job[t].path
              /\ j.text = IF job[t].op = "read" THEN files[r][job[t].path] ELSE job[t].text
              /\ job' = [job EXCEPT ![t] = j]
<1> DEFINE text == IF job[t].op = "read" THEN files[r][job[t].path] ELSE job[t].text
           j == [job[t] EXCEPT !.pc = "done", !.text = text]
<1>1. job[t] \in FileJobs
  BY JobKinds
<1>2. files \in [Roots -> [Paths -> Holdings]]
  BY DEF TypeOK
<1>3. /\ job[t].path \in Paths /\ job[t].text \in Holdings
      /\ job[t].op \in {"read", "write", "delete"}
  BY <1>1 DEF FileJobs
<1>4. Left(t, r) \in Holdings /\ text \in Holdings
  BY <1>2, <1>3 DEF Left, Holdings
<1>5. files' = [files EXCEPT ![r][job[t].path] = Left(t, r)]
  BY DEF Takes, Left
<1>6. files' \in [Roots -> [Paths -> Holdings]]
  BY <1>2, <1>3, <1>4, <1>5
<1>7. j \in FileJobs
  BY <1>1, <1>4 DEF FileJobs
<1>8. job' = [job EXCEPT ![t] = j]
  BY DEF Takes
<1>9. j.pc = "done" /\ j.op = job[t].op /\ j.root = job[t].root
      /\ j.path = job[t].path /\ j.text = text
  BY <1>1 DEF FileJobs
<1>10. QED
  BY <1>4, <1>5, <1>6, <1>7, <1>8, <1>9

(* The queue of saves: a step that leaves it alone, QueueSave, a commit.    *)
LEMMA SavesKept ==
  ASSUME TypeOK, SavesAwaited, NEW t \in Tasks, NEW j \in Jobs,
         job' = [job EXCEPT ![t] = j], saves' = saves,
         job[t].pc # "saving", j.pc # "saving"
  PROVE  SavesAwaited'
<1>1. \A u \in Tasks : job'[u] = IF u = t THEN j ELSE job[u]
  BY DEF TypeOK
<1>2. QED
  BY <1>1 DEF SavesAwaited

LEMMA SaveQueued ==
  ASSUME TypeOK, SavesAwaited, NEW t \in Tasks, NEW j \in Jobs,
         job' = [job EXCEPT ![t] = j], job[t].pc # "saving", j.pc = "saving",
         NEW id \in Ids, NEW root \in Roots \cup {None}, QueueSave(t, id, root)
  PROVE  /\ SavesAwaited'
         /\ saves' \in Seq(Saves)
         /\ Len(saves') = Len(saves) + 1
         /\ \A i \in DOMAIN saves : i \in DOMAIN saves' /\ saves'[i] = saves[i]
         /\ saves'[Len(saves) + 1] = [task |-> t, id |-> id, root |-> root]
         /\ DOMAIN saves' = DOMAIN saves \cup {Len(saves) + 1}
<1> DEFINE s == [task |-> t, id |-> id, root |-> root]
<1>1. \A u \in Tasks : job'[u] = IF u = t THEN j ELSE job[u]
  BY DEF TypeOK
<1>2. saves \in Seq(Saves) /\ s \in Saves /\ saves' = Append(saves, s)
  BY DEF TypeOK, QueueSave, Saves
<1>3. /\ saves' \in Seq(Saves) /\ Len(saves') = Len(saves) + 1
      /\ DOMAIN saves = 1..Len(saves) /\ Len(saves) \in Nat
      /\ DOMAIN saves' = 1..Len(saves) + 1
      /\ \A i \in 1..Len(saves) : saves'[i] = saves[i]
      /\ saves'[Len(saves) + 1] = s
  BY <1>2
<1>4. DOMAIN saves' = DOMAIN saves \cup {Len(saves) + 1} /\ Len(saves) + 1 \notin DOMAIN saves
  BY <1>3
<1>5. saves'[Len(saves) + 1].task = t
  BY <1>3
<1> HIDE DEF s
<1>6. SavesAwaited'
  BY <1>1, <1>3, <1>4, <1>5 DEF SavesAwaited
<1>7. QED
  BY <1>3, <1>4, <1>6 DEF s

LEMMA SaveTaken ==
  ASSUME TypeOK, SavesAwaited, saves # <<>>, saves' = Tail(saves), NEW j \in Jobs,
         job' = [job EXCEPT ![Head(saves).task] = j], j.pc # "saving"
  PROVE  /\ SavesAwaited'
         /\ saves' \in Seq(Saves)
         /\ Head(saves) = saves[1] /\ Head(saves) \in Saves /\ 1 \in DOMAIN saves
         /\ Len(saves) >= 1 /\ Len(saves') = Len(saves) - 1
         /\ \A i \in DOMAIN saves' : i + 1 \in DOMAIN saves /\ saves'[i] = saves[i + 1]
         /\ job[Head(saves).task].pc = "saving"
<1>1. saves \in Seq(Saves)
  BY DEF TypeOK, Saves
<1>2. /\ Head(saves) = saves[1] /\ Head(saves) \in Saves /\ 1 \in DOMAIN saves
      /\ Len(saves) >= 1 /\ Len(saves') = Len(saves) - 1
      /\ saves' \in Seq(Saves)
      /\ DOMAIN saves = 1..Len(saves) /\ Len(saves) \in Nat
      /\ DOMAIN saves' = 1..(Len(saves) - 1)
      /\ \A i \in 1..(Len(saves) - 1) : saves'[i] = saves[i + 1]
  BY <1>1
<1>3. Head(saves).task \in Tasks
  BY <1>2 DEF Saves
<1>4. \A u \in Tasks : job'[u] = IF u = Head(saves).task THEN j ELSE job[u]
  BY <1>3 DEF TypeOK
<1>5. \A i \in DOMAIN saves : i = 1 \/ (i - 1 \in DOMAIN saves' /\ saves'[i - 1] = saves[i])
  BY <1>2
<1>6. \A i \in DOMAIN saves' : i + 1 \in DOMAIN saves /\ saves'[i] = saves[i + 1] /\ i + 1 # 1
  BY <1>2
<1>7. \A i, k \in DOMAIN saves' : saves'[i].task = saves'[k].task => i = k
  <2> SUFFICES ASSUME NEW i \in DOMAIN saves', NEW k \in DOMAIN saves',
                      saves'[i].task = saves'[k].task
               PROVE  i = k
    OBVIOUS
  <2>1. i + 1 = k + 1
    BY <1>6 DEF SavesAwaited
  <2>2. QED
    BY <1>2, <2>1
<1>8. \A u \in Tasks : job'[u].pc = "saving" <=> \E i \in DOMAIN saves' : saves'[i].task = u
  <2> SUFFICES ASSUME NEW u \in Tasks
               PROVE  job'[u].pc = "saving" <=> \E i \in DOMAIN saves' : saves'[i].task = u
    OBVIOUS
  <2>1. CASE u = Head(saves).task
    <3>1. \A i \in DOMAIN saves' : saves'[i].task # u
      BY <1>2, <1>6, <2>1 DEF SavesAwaited
    <3>2. QED
      BY <1>4, <2>1, <3>1
  <2>2. CASE u # Head(saves).task
    <3>1. job'[u] = job[u]
      BY <1>4, <2>2
    <3>2. (\E i \in DOMAIN saves : saves[i].task = u) <=> (\E i \in DOMAIN saves' : saves'[i].task = u)
      <4>1. ASSUME NEW i \in DOMAIN saves, saves[i].task = u
            PROVE  \E k \in DOMAIN saves' : saves'[k].task = u
        BY <1>2, <1>5, <2>2, <4>1
      <4>2. ASSUME NEW i \in DOMAIN saves', saves'[i].task = u
            PROVE  \E k \in DOMAIN saves : saves[k].task = u
        BY <1>6, <4>2
      <4>3. QED
        BY <4>1, <4>2
    <3>3. QED
      BY <3>1, <3>2 DEF SavesAwaited
  <2>3. QED
    BY <2>1, <2>2
<1>9. job[Head(saves).task].pc = "saving"
  BY <1>2, <1>3 DEF SavesAwaited
<1>10. QED
  BY <1>2, <1>6, <1>7, <1>8, <1>9 DEF SavesAwaited

-----------------------------------------------------------------------------
(* IInv, one lemma per action.                                              *)
LEMMA InitIInv == Init => IInv
<1> SUFFICES ASSUME Init PROVE IInv
  OBVIOUS
<1>1. SavesAwaited /\ JobsKnow /\ OwnRoots /\ WritesText
  BY ConstantsAssumption
  DEF Init, SavesAwaited, JobsKnow, OwnRoots, WritesText, Idle, Rooted, OfFile, NoVault, Roots
<1>2. refused \in BOOLEAN
  BY DEF Init
<1>3. TypeOK
  BY <1>1, <1>2, ConstantsAssumption DEF Init, TypeOK, SavesAwaited, Idle, Handles, Holdings, NoVault
<1>4. QED
  BY <1>1, <1>3 DEF IInv

LEMMA StutterIInv == ASSUME IInv, UNCHANGED vars PROVE IInv'
BY DEF IInv, vars, TypeOK, SavesAwaited, JobsKnow, OwnRoots, WritesText, Changing

LEMMA MovesIInv ==
  ASSUME IInv, NEW t \in Tasks, NEW j, Moves(t, j) PROVE IInv'
<1> USE DEF IInv
<1>0. /\ cur' \in [id : Ids, root : Roots] \/ UNCHANGED cur
      /\ cur'.root \in Ids => cur'.root = cur'.id
  BY DEF Moves, OwnRoots, Roots
<1>1. \A u \in Tasks : job'[u] = IF u = t THEN j ELSE job[u]
  BY DEF TypeOK, Moves
<1>2. j \in Jobs /\ j.pc \in {"idle"} \cup Changes
  BY DEF Jobs, ChangeJobs, Idle, Moves
<1>3. SavesAwaited'
  BY <1>2, SavesKept DEF storage, Moves
<1>4. TypeOK'
  BY <1>0, <1>2, <1>3 DEF TypeOK, SavesAwaited, Jobs, Handles, storage, Moves
<1>5. cur # NoVault => cur' # NoVault
  BY <1>0, ConstantsAssumption DEF NoVault
<1>6. JobsKnow'
  BY <1>0, <1>1, <1>2, <1>5, ConstantsAssumption
  DEF JobsKnow, storage, Changes, OfFile, Rooted, Moves, NoVault
<1>7. OwnRoots'
  BY <1>0 DEF OwnRoots, storage, Moves
<1>8. WritesText'
  BY <1>1, <1>2 DEF WritesText, Changes
<1>9. QED
  BY <1>3, <1>4, <1>6, <1>7, <1>8

LEMMA SavingQueues ==
  ASSUME IInv, NEW t \in Tasks, NEW j, NEW root, Saving(t, j, root)
  PROVE  /\ SavesAwaited' /\ saves' \in Seq(Saves)
         /\ DOMAIN saves = 1..Len(saves) /\ Len(saves) \in Nat
         /\ Len(saves') = Len(saves) + 1
         /\ \A i \in DOMAIN saves : i \in DOMAIN saves' /\ saves'[i] = saves[i]
         /\ saves'[Len(saves) + 1] = [task |-> t, id |-> cur'.id, root |-> root]
         /\ DOMAIN saves' = DOMAIN saves \cup {Len(saves) + 1}
<1>1. /\ cur'.id \in Ids /\ root \in Roots \cup {None} /\ j \in Jobs
      /\ j.pc = "saving" /\ job[t].pc # "saving" /\ job' = [job EXCEPT ![t] = j]
      /\ QueueSave(t, cur'.id, root)
  BY DEF Saving, Jobs
<1>2. saves \in Seq(Saves)
  BY DEF IInv, TypeOK, Saves
<1>3. DOMAIN saves = 1..Len(saves) /\ Len(saves) \in Nat
  BY <1>2
<1>4. /\ SavesAwaited' /\ saves' \in Seq(Saves) /\ Len(saves') = Len(saves) + 1
      /\ \A i \in DOMAIN saves : i \in DOMAIN saves' /\ saves'[i] = saves[i]
      /\ saves'[Len(saves) + 1] = [task |-> t, id |-> cur'.id, root |-> root]
      /\ DOMAIN saves' = DOMAIN saves \cup {Len(saves) + 1}
  BY <1>1, SaveQueued DEF IInv
<1>5. QED
  BY <1>3, <1>4

LEMMA SavingIInv ==
  ASSUME IInv, NEW t \in Tasks, NEW j, NEW root, Saving(t, j, root) PROVE IInv'
<1> DEFINE id == cur'.id
<1> USE DEF IInv
<1>0. /\ id \in Ids /\ root \in Roots \cup {None} /\ (root \in Ids => root = id)
      /\ cur' # NoVault
  BY ConstantsAssumption DEF Saving, NoVault
<1>1. \A u \in Tasks : job'[u] = IF u = t THEN j ELSE job[u]
  BY DEF TypeOK, Saving
<1>2. j \in Jobs
  BY DEF Jobs, Saving
<1>3. /\ SavesAwaited' /\ saves' \in Seq(Saves)
      /\ \A i \in DOMAIN saves : i \in DOMAIN saves' /\ saves'[i] = saves[i]
      /\ saves'[Len(saves) + 1] = [task |-> t, id |-> id, root |-> root]
      /\ DOMAIN saves' = DOMAIN saves \cup {Len(saves) + 1}
  BY SavingQueues
<1>4. TypeOK'
  BY <1>2, <1>3 DEF TypeOK, SavesAwaited, Jobs, Handles, Saves, Saving
<1>6. JobsKnow'
  BY <1>0, <1>1 DEF JobsKnow, Saving
<1>7. OwnRoots'
  BY <1>0, <1>3 DEF OwnRoots, Saving
<1>8. WritesText'
  BY <1>1 DEF WritesText, Saving
<1>9. QED
  BY <1>3, <1>4, <1>6, <1>7, <1>8

LEMMA SavedIInv == ASSUME IInv, NEW j, Saved(j) PROVE IInv'
<1> USE DEF IInv
<1> DEFINE save == Head(saves)
<1>1. j \in Jobs /\ j.pc # "saving"
  BY DEF Jobs, Saved
<1>2. /\ SavesAwaited' /\ saves' \in Seq(Saves) /\ save = saves[1] /\ save \in Saves
      /\ \A i \in DOMAIN saves' : i + 1 \in DOMAIN saves /\ saves'[i] = saves[i + 1]
      /\ 1 \in DOMAIN saves /\ job[save.task].pc = "saving"
  BY <1>1, SaveTaken DEF Saved
<1>3. save.task \in Tasks /\ save.id \in Ids /\ save.root \in Roots \cup {None}
  BY <1>2 DEF Saves
<1>4. \A u \in Tasks : job'[u] = IF u = save.task THEN j ELSE job[u]
  BY <1>3 DEF TypeOK, Saved
<1>5. /\ handles' \in [Ids -> Roots \cup {None}]
      /\ \A i \in Ids : handles[i] # None => handles'[i] # None
      /\ \A i \in Ids : handles'[i] \in {handles[i]} \/ (i = save.id /\ handles'[i] = save.root)
  BY <1>3 DEF TypeOK, Saved
<1>6. TypeOK'
  BY <1>1, <1>2, <1>3, <1>5 DEF TypeOK, SavesAwaited, Jobs, Handles, Saves, Saved
<1>7. cur # NoVault
  BY <1>2, <1>3 DEF JobsKnow, Rooted
<1>8. JobsKnow'
  <2>1. \A u \in Tasks : job'[u].pc = "asking" =>
          job'[u].root \in Dirs /\ handles'[job'[u].id] # None
    BY <1>4, <1>5 DEF JobsKnow, Saved
  <2>2. QED
    BY <1>4, <1>7, <2>1 DEF JobsKnow, Saved
<1>9. OwnRoots'
  <2>1. save.root \in Ids => save.root = save.id
    BY <1>2 DEF OwnRoots
  <2>2. \A i \in Ids : handles'[i] \in Ids => handles'[i] = i
    BY <1>5, <2>1 DEF OwnRoots
  <2>3. QED
    BY <1>2, <2>2 DEF OwnRoots, Saved
<1>10. WritesText'
  BY <1>4 DEF WritesText, Saved
<1>11. QED
  BY <1>2, <1>6, <1>8, <1>9, <1>10

LEMMA CallingIInv ==
  ASSUME IInv, NEW t \in Tasks, NEW j, Calling(t, j) PROVE IInv'
<1> USE DEF IInv
<1>1. \A u \in Tasks : job'[u] = IF u = t THEN j ELSE job[u]
  BY DEF TypeOK, Calling
<1>2. /\ j \in Jobs /\ j.pc \in {"idle"} \cup OfFile
      /\ j.pc # "saving" /\ job[t].pc # "saving"
  BY DEF Jobs, FileJobs, Idle, OfFile, Calling
<1>3. SavesAwaited'
  BY <1>2, SavesKept DEF storage, Calling
<1>4. TypeOK'
  BY <1>2, <1>3 DEF TypeOK, SavesAwaited, Jobs, storage, Calling
<1>5. JobsKnow'
  BY <1>1, <1>2 DEF JobsKnow, storage, OfFile, Rooted, Calling
<1>6. OwnRoots'
  BY DEF OwnRoots, storage, Calling
<1>7. WritesText'
  BY <1>1, <1>2 DEF WritesText, Calling
<1>8. QED
  BY <1>3, <1>4, <1>5, <1>6, <1>7

LEMMA ReloadIInv == ASSUME IInv, Reload PROVE IInv'
<1> USE DEF IInv
<1>1. \A u \in Tasks : job'[u] = Idle
  BY DEF Reload
<1>2. saves' = <<>> /\ DOMAIN saves' = {}
  BY DEF Reload
<1>3. SavesAwaited'
  BY <1>1, <1>2 DEF SavesAwaited, Idle
<1>4. TypeOK'
  BY <1>2, <1>3, ConstantsAssumption DEF TypeOK, SavesAwaited, Reload, Handles
<1>5. JobsKnow' /\ WritesText'
  BY <1>1 DEF JobsKnow, WritesText, Idle, Rooted, OfFile, Reload
<1>6. OwnRoots'
  BY <1>2, ConstantsAssumption DEF OwnRoots, Reload, NoVault
<1>7. QED
  BY <1>3, <1>4, <1>5, <1>6

-----------------------------------------------------------------------------
(* Every action is of one of the kinds.                                     *)
LEMMA StartsChangeMoves ==
  ASSUME IInv, NEW t \in Tasks, NEW pc \in {"restoring", "picking", "looking"},
         NEW id \in Ids \cup {None}, pc # "restoring" => id \in Ids, StartsChange(t, pc, id)
  PROVE  \E j : Moves(t, j)
<1> DEFINE j == [pc |-> pc, id |-> id, root |-> None]
<1>1. j \in ChangeJobs
  BY DEF ChangeJobs, Changes
<1>2. /\ calls' \in 0..MaxCalls /\ job[t] = Idle
      /\ refused' \in BOOLEAN /\ (refused => refused')
  BY ConstantsAssumption DEF StartsChange, Starts, IInv, TypeOK, Busy
<1>3. Moves(t, j)
  BY <1>1, <1>2 DEF Moves, StartsChange, Idle
<1>4. QED
  BY <1>3

LEMMA RestoreReadsMoves ==
  ASSUME IInv, NEW t \in Tasks, RestoreReads(t) PROVE \E j : Moves(t, j)
<1> DEFINE id == IF job[t].id # None THEN job[t].id ELSE active
           root == IF id \in Ids THEN handles[id] ELSE None
<1>1. Changing(t) /\ job[t] \in ChangeJobs /\ job[t].pc = "restoring"
  BY JobKinds DEF RestoreReads, Changing, Changes, IInv
<1>2. /\ calls \in 0..MaxCalls /\ root \in Roots \cup {None} /\ id \in Ids \cup {None}
      /\ refused' \in BOOLEAN /\ (refused => refused')
  BY <1>1 DEF IInv, TypeOK, ChangeJobs, RestoreReads
<1>3. CASE root \in Ids /\ cur' = [id |-> id, root |-> root] /\ Goes(t, "ensuring")
  <2>1. PICK j \in ChangeJobs : j.pc = "ensuring" /\ job' = [job EXCEPT ![t] = j]
    BY <1>1, <1>3, ChangeGoes DEF IInv, Changes
  <2>2. id \in Ids /\ handles[id] = root
    BY <1>3, ConstantsAssumption
  <2>3. Moves(t, j)
    BY <1>1, <1>2, <1>3, <2>1, <2>2 DEF Moves, RestoreReads
  <2>4. QED
    BY <2>3
<1>4. CASE /\ root \in Dirs
           /\ job' = [job EXCEPT ![t] = [pc |-> "asking", id |-> id, root |-> root]]
           /\ UNCHANGED cur
  <2> DEFINE j == [pc |-> "asking", id |-> id, root |-> root]
  <2>1. id \in Ids /\ handles[id] = root
    BY <1>4, ConstantsAssumption
  <2>2. j \in ChangeJobs
    BY <1>4, <2>1 DEF ChangeJobs, Changes
  <2>3. Moves(t, j)
    BY <1>1, <1>2, <1>4, <2>1, <2>2 DEF Moves, RestoreReads
  <2>4. QED
    BY <2>3
<1>5. CASE Ends(t) /\ UNCHANGED cur
  <2>1. Moves(t, Idle)
    BY <1>1, <1>2, <1>5 DEF Moves, RestoreReads, Ends, Idle
  <2>2. QED
    BY <2>1
<1>6. QED
  BY <1>3, <1>4, <1>5 DEF RestoreReads

(* The changes that end without a save.                                     *)
LEMMA EndsMoves ==
  ASSUME IInv, NEW t \in Tasks,
         RestoreFails(t) \/ PermissionDenied(t) \/ PickerAborts(t) \/ OpenEnsured(t) \/ OpenFails(t)
  PROVE  Moves(t, Idle)
<1>1. /\ Changing(t) /\ Ends(t) /\ UNCHANGED <<cur, storage, files, calls>>
      /\ refused' \in {refused, TRUE}
  BY DEF RestoreFails, PermissionDenied, PickerAborts, OpenEnsured, OpenFails, Changing, Changes
<1>2. /\ job[t].pc # "saving"
      /\ job[t].pc = "ensuring" => refused'
      /\ \/ UNCHANGED page /\ (job[t].pc = "ensuringOpened" => refused')
         \/ job[t].pc = "ensuringOpened" /\ page' = cur
  BY DEF RestoreFails, PermissionDenied, PickerAborts, OpenEnsured, OpenFails
<1>3. calls \in 0..MaxCalls /\ refused \in BOOLEAN
  BY DEF IInv, TypeOK
<1>4. QED
  BY <1>1, <1>2, <1>3 DEF Moves, Ends, Idle

LEMMA AsksForSave ==
  ASSUME IInv, NEW t \in Tasks,
         \/ RestoreEnsured(t) \/ PermissionGranted(t) \/ OpensVirtual(t)
         \/ \E d \in Dirs : PickerChooses(t, d)
  PROVE  \E j, root : Saving(t, j, root)
<1>1. /\ Changing(t) /\ job[t].pc # "saving" /\ job[t] \in ChangeJobs
      /\ Goes(t, "saving") /\ UNCHANGED <<page, handles, active, files, refused, calls>>
  BY JobKinds
  DEF RestoreEnsured, PermissionGranted, OpensVirtual, PickerChooses, Changing, Changes, IInv
<1>2. PICK j \in ChangeJobs : j.pc = "saving" /\ job' = [job EXCEPT ![t] = j]
  BY <1>1, ChangeGoes DEF IInv, Changes
<1>3. CASE RestoreEnsured(t)
  <2>1. cur \in [id : Ids, root : Roots]
    BY <1>3 DEF IInv, TypeOK, JobsKnow, RestoreEnsured, Rooted, Handles
  <2>2. Saving(t, j, None)
    BY <1>1, <1>2, <1>3, <2>1 DEF Saving, RestoreEnsured, IInv, OwnRoots
  <2>3. QED
    BY <2>2
<1>4. CASE PermissionGranted(t)
  <2>1. job[t].id \in Ids /\ job[t].root \in Dirs /\ handles[job[t].id] # None
    BY <1>4 DEF IInv, JobsKnow, PermissionGranted
  <2>2. Saving(t, j, None)
    BY <1>1, <1>2, <1>4, <2>1, ConstantsAssumption DEF Saving, PermissionGranted, Roots
  <2>3. QED
    BY <2>2
<1>5. CASE OpensVirtual(t)
  <2>1. job[t].id \in Ids
    BY <1>5 DEF IInv, JobsKnow, OpensVirtual
  <2>2. Saving(t, j, job[t].id)
    BY <1>1, <1>2, <1>5, <2>1, ConstantsAssumption DEF Saving, OpensVirtual, Roots
  <2>3. QED
    BY <2>2
<1>6. CASE \E d \in Dirs : PickerChooses(t, d)
  <2>1. PICK d \in Dirs : PickerChooses(t, d)
    BY <1>6
  <2>2. job[t].id \in Ids
    BY <2>1 DEF IInv, JobsKnow, PickerChooses
  <2>3. Saving(t, j, d)
    BY <1>1, <1>2, <2>1, <2>2, ConstantsAssumption DEF Saving, PickerChooses, Roots
  <2>4. QED
    BY <2>3
<1>7. QED
  BY <1>3, <1>4, <1>5, <1>6

LEMMA SaveEnds ==
  ASSUME IInv, SaveCommits \/ SaveFails PROVE \E j : Saved(j)
<1> DEFINE save == Head(saves)
<1>1. saves # <<>> /\ saves \in Seq(Saves)
  BY DEF IInv, TypeOK, Saves, SaveCommits, SaveFails
<1>2. save = saves[1] /\ 1 \in DOMAIN saves /\ save \in Saves
  BY <1>1
<1>3. save.task \in Tasks /\ job[save.task].pc = "saving"
  BY <1>2 DEF IInv, SavesAwaited, Saves
<1>0. refused' \in BOOLEAN /\ (refused => refused')
  BY DEF IInv, TypeOK, SaveCommits, SaveFails
<1>4. CASE SaveCommits /\ save.root \in Ids
  <2>1. PICK j \in ChangeJobs :
          j.pc = "ensuringOpened" /\ job' = [job EXCEPT ![save.task] = j]
    BY <1>3, <1>4, ChangeGoes DEF IInv, Changes, SaveCommits, Changing
  <2>2. Saved(j)
    BY <1>0, <1>4, <2>1 DEF Saved, SaveCommits
  <2>3. QED
    BY <2>2
<1>5. CASE SaveCommits /\ save.root \notin Ids
  <2>1. Saved(Idle)
    BY <1>0, <1>5 DEF Saved, SaveCommits, Ends, Idle, ReturnedHandle
  <2>2. QED
    BY <2>1
<1>6. CASE SaveFails
  <2>1. Saved(Idle)
    BY <1>0, <1>6 DEF Saved, SaveFails, Ends, Idle
  <2>2. QED
    BY <2>1
<1>7. QED
  BY <1>4, <1>5, <1>6

(* A file call holds on to the vault the module has.                        *)
LEMMA FileCallCalls ==
  ASSUME IInv, NEW t \in Tasks, NEW op \in {"read", "write", "delete"}, NEW path \in Paths,
         NEW text \in Texts \cup {Empty}, op = "write" => text \in Texts,
         FileCall(t, op, path, text)
  PROVE  \E j : Calling(t, j)
<1> DEFINE j == [pc |-> IF cur.root \in Ids THEN "entry" ELSE "handle", op |-> op,
                 root |-> cur.root, path |-> path, text |-> text]
<1>1. cur.root \in Roots
  BY DEF FileCall, IInv, TypeOK, JobsKnow, Handles
<1>2. j \in FileJobs
  BY <1>1 DEF FileJobs, Holdings
<1>3. job[t] = Idle /\ calls' \in 0..MaxCalls /\ files \in [Roots -> [Paths -> Holdings]]
  BY ConstantsAssumption DEF FileCall, Starts, IInv, TypeOK, Busy
<1>4. Calling(t, j)
  BY <1>2, <1>3 DEF Calling, FileCall
<1>5. QED
  BY <1>4

(* The step in which a call takes effect.                                   *)
LEMMA TakesCalls ==
  ASSUME IInv, NEW t \in Tasks, job[t].pc \in OfFile, NEW r \in Roots, Takes(t, r)
  PROVE  \E j : Calling(t, j)
<1>1. PICK j \in FileJobs :
        /\ j.pc = "done" /\ j.root = job[t].root
        /\ job' = [job EXCEPT ![t] = j]
  BY TakesEffect DEF IInv
<1>2. files' \in [Roots -> [Paths -> Holdings]] /\ calls \in 0..MaxCalls
  BY TakesEffect DEF IInv, TypeOK
<1>3. Calling(t, j)
  BY <1>1, <1>2 DEF Calling, Takes, OfFile
<1>4. QED
  BY <1>3

(* Where it takes effect: under the module's vault or in the directory.     *)
LEMMA TakesSomewhere ==
  ASSUME IInv, NEW t \in Tasks, EntryTransaction(t) \/ NativeTakes(t)
  PROVE  \E r \in Roots : job[t].pc \in {"entry", "handle", "writable"} /\ Takes(t, r)
<1>1. CASE EntryTransaction(t)
  <2>1. cur.id \in Roots
    BY <1>1 DEF EntryTransaction, IInv, TypeOK, JobsKnow, OfFile, Handles, Roots
  <2>2. QED
    BY <1>1, <2>1 DEF EntryTransaction
<1>2. CASE NativeTakes(t)
  <2>1. job[t].root \in Roots
    BY <1>2, JobKinds DEF NativeTakes, IInv, OfFile, FileJobs
  <2>2. QED
    BY <1>2, <2>1 DEF NativeTakes
<1>3. QED
  BY <1>1, <1>2

LEMMA FileEntryCalls ==
  ASSUME IInv, NEW t \in Tasks,
         \/ EntryTransaction(t) \/ EntryRefused(t) \/ NativeCreates(t) \/ NativeTakes(t)
         \/ NativeRefuses(t) \/ FileReturns(t)
  PROVE  \E j : Calling(t, j)
<1>0. files \in [Roots -> [Paths -> Holdings]] /\ calls \in 0..MaxCalls
  BY DEF IInv, TypeOK
<1>1. CASE EntryTransaction(t) \/ NativeTakes(t)
  BY <1>1, TakesSomewhere, TakesCalls DEF OfFile
<1>2. CASE EntryRefused(t) \/ NativeRefuses(t)
  <2>1. job[t].pc \in OfFile /\ Goes(t, "failed") /\ UNCHANGED <<cur, page, storage, files, refused, calls>>
    BY <1>2 DEF EntryRefused, NativeRefuses, OfFile
  <2>2. PICK j \in FileJobs :
          /\ j.pc = "failed" /\ j.root = job[t].root
          /\ job' = [job EXCEPT ![t] = j]
    BY <2>1, FileGoes DEF IInv, OfFile
  <2>3. Calling(t, j)
    BY <1>0, <2>1, <2>2 DEF Calling
  <2>4. QED
    BY <2>3
<1>3. CASE NativeCreates(t)
  <2>1. job[t].pc \in OfFile /\ Goes(t, "writable") /\ UNCHANGED <<cur, page, storage, refused, calls>>
    BY <1>3 DEF NativeCreates, OfFile
  <2>2. PICK j \in FileJobs :
          /\ j.pc = "writable" /\ j.root = job[t].root
          /\ j.op = job[t].op /\ j.text = job[t].text
          /\ job' = [job EXCEPT ![t] = j]
    BY <2>1, FileGoes DEF IInv, OfFile
  <2>3. files' \in [Roots -> [Paths -> Holdings]]
    BY <1>0, <1>3 DEF NativeCreates, Holdings
  <2>4. j.op = "write" => j.text \in Texts
    BY <1>3, <2>2 DEF IInv, WritesText, NativeCreates
  <2>5. Calling(t, j)
    BY <1>0, <2>1, <2>2, <2>3, <2>4 DEF Calling
  <2>6. QED
    BY <2>5
<1>4. CASE FileReturns(t)
  <2>1. Calling(t, Idle)
    BY <1>0, <1>4 DEF Calling, FileReturns, Ends, Idle, OfFile
  <2>2. QED
    BY <2>1
<1>5. QED
  BY <1>1, <1>2, <1>3, <1>4

(* The next-state relation by kinds.                                        *)
LEMMA ChangeKinds ==
  ASSUME IInv, Next
  PROVE  \/ \E t \in Tasks : \E j : Moves(t, j)
         \/ \E t \in Tasks : \E j, root : Saving(t, j, root)
         \/ \E j : Saved(j)
         \/ \E t \in Tasks : FileStep(t)
         \/ Reload
<1>1. CASE \E t \in Tasks : ChangeStep(t)
  <2>1. PICK t \in Tasks : ChangeStep(t)
    BY <1>1
  <2>2. CASE Restore(t, None) \/ \E i \in Ids : Restore(t, i) \/ OpenVault(t, i) \/ CreateVirtualVault(t, i)
    BY <2>2, StartsChangeMoves DEF Restore, OpenVault, CreateVirtualVault
  <2>3. CASE RestoreReads(t)
    BY <2>3, RestoreReadsMoves
  <2>4. CASE RestoreFails(t) \/ PermissionDenied(t) \/ PickerAborts(t) \/ OpenEnsured(t) \/ OpenFails(t)
    BY <2>4, EndsMoves
  <2>5. CASE \/ RestoreEnsured(t) \/ PermissionGranted(t) \/ OpensVirtual(t)
             \/ \E d \in Dirs : PickerChooses(t, d)
    BY <2>5, AsksForSave
  <2>6. QED
    BY <2>1, <2>2, <2>3, <2>4, <2>5 DEF ChangeStep
<1>2. CASE SaveCommits \/ SaveFails
  BY <1>2, SaveEnds
<1>3. QED
  BY <1>1, <1>2 DEF Next

LEMMA StepKinds ==
  ASSUME IInv, Next
  PROVE  \/ \E t \in Tasks : \E j : Moves(t, j)
         \/ \E t \in Tasks : \E j, root : Saving(t, j, root)
         \/ \E j : Saved(j)
         \/ \E t \in Tasks : \E j : Calling(t, j)
         \/ Reload
<1>1. ASSUME NEW t \in Tasks, FileStep(t) PROVE \E j : Calling(t, j)
  <2>1. CASE \E p \in Paths :
               \/ FileCall(t, "read", p, Empty) \/ FileCall(t, "delete", p, Empty)
               \/ \E x \in Texts : FileCall(t, "write", p, x)
    BY <2>1, FileCallCalls
  <2>2. CASE \/ EntryTransaction(t) \/ EntryRefused(t) \/ NativeCreates(t) \/ NativeTakes(t)
             \/ NativeRefuses(t) \/ FileReturns(t)
    BY <2>2, FileEntryCalls
  <2>3. QED
    BY <1>1, <2>1, <2>2 DEF FileStep
<1>2. QED
  BY <1>1, ChangeKinds

LEMMA NextIInv == ASSUME IInv, [Next]_vars PROVE IInv'
<1>1. CASE Next
  BY <1>1, StepKinds, MovesIInv, SavingIInv, SavedIInv, CallingIInv, ReloadIInv
<1>2. QED
  BY <1>1, StutterIInv

THEOREM Invariance == Spec => []IInv
<1>1. QED
  BY InitIInv, NextIInv, PTL DEF Spec

(* Type correctness of the browser's storage.                               *)
THEOREM TypeCorrect == Spec => []TypeOK
<1>1. IInv => TypeOK
  BY DEF IInv
<1>2. QED
  BY <1>1, Invariance, PTL

-----------------------------------------------------------------------------
(* Nothing empties a note: a virtual vault's entry is replaced in one        *)
(* transaction, a native file is made empty only where there was none and    *)
(* gets the text of the write when it is closed.                            *)
LEMMA TakesNeverEmpties ==
  ASSUME IInv, NEW t \in Tasks, job[t].pc \in {"entry", "handle", "writable"},
         NEW root \in Roots, Takes(t, root), NEW r \in Roots, NEW p \in Paths, files[r][p] \in Texts
  PROVE  files'[r][p] # Empty
<1>1. job[t] \in FileJobs /\ files \in [Roots -> [Paths -> Holdings]]
  BY JobKinds DEF IInv, TypeOK, OfFile
<1>2. /\ job[t].path \in Paths
      /\ files' = [files EXCEPT ![root][job[t].path] = Left(t, root)]
  BY <1>1, TakesEffect DEF IInv, OfFile, FileJobs
<1>3. files'[r][p] = IF r = root /\ p = job[t].path THEN Left(t, root) ELSE files[r][p]
  BY <1>1, <1>2
<1>4. CASE r = root /\ p = job[t].path
  <2>1. job[t].op = "write" => job[t].text \in Texts
    BY DEF IInv, WritesText
  <2>2. Left(t, root) # Empty
    BY <1>4, <2>1, ConstantsAssumption DEF Left
  <2>3. QED
    BY <1>3, <1>4, <2>2
<1>5. QED
  BY <1>3, <1>4, ConstantsAssumption

LEMMA StepNeverEmpties ==
  ASSUME IInv, [Next]_vars, NEW r \in Roots, NEW p \in Paths, files[r][p] \in Texts
  PROVE  files'[r][p] # Empty
<1>1. CASE UNCHANGED files
  BY <1>1, ConstantsAssumption
<1>2. ASSUME NEW t \in Tasks, EntryTransaction(t) \/ NativeTakes(t)
      PROVE  files'[r][p] # Empty
  BY <1>2, TakesSomewhere, TakesNeverEmpties
<1>3. ASSUME NEW t \in Tasks, NativeCreates(t)
      PROVE  files'[r][p] # Empty
  <2>1. files \in [Roots -> [Paths -> Holdings]]
    BY DEF IInv, TypeOK
  <2>2. QED
    BY <1>3, <2>1, ConstantsAssumption DEF NativeCreates
<1>4. QED
  <2>1. Next => \/ UNCHANGED files
                \/ \E t \in Tasks : EntryTransaction(t) \/ NativeTakes(t) \/ NativeCreates(t)
    BY DEF Next, ChangeStep, FileStep, Restore, OpenVault, CreateVirtualVault, StartsChange,
           RestoreReads, RestoreFails, RestoreEnsured, PermissionGranted, PermissionDenied,
           PickerAborts, PickerChooses, OpensVirtual, OpenEnsured, OpenFails, FileCall,
           EntryRefused, NativeRefuses, FileReturns, SaveCommits, SaveFails, Reload
  <2>2. QED
    BY <1>1, <1>2, <1>3, <2>1 DEF vars

(* A reload between two awaits of a write finds the old text or the new one. *)
THEOREM NotesNeverEmptied == Spec => NeverEmptied
<1>1. IInv /\ [Next]_vars =>
        [\A r \in Roots, p \in Paths : files[r][p] \in Texts => files'[r][p] # Empty]_vars
  BY StepNeverEmpties
<1>2. QED
  BY <1>1, Invariance, PTL DEF Spec, NeverEmptied

-----------------------------------------------------------------------------
(* Changes that overlap, until IndexedDB refuses one: as long as the page and  *)
(* the module differ some change is not over, and it will give the page the  *)
(* module's vault; the last save asked for is the one of that vault.         *)
Agreed ==
  /\ page # cur => \E t \in Tasks : job[t].pc \in Rooted
  /\ cur # NoVault =>
       \/ \E t \in Tasks : job[t].pc = "ensuring"
       \/ saves # <<>> /\ saves[Len(saves)].id = cur.id
       \/ saves = <<>> /\ active = cur.id

Agreeing == ~refused => Agreed

LEMMA MovesAgreeing ==
  ASSUME IInv, Agreed, ~refused', NEW t \in Tasks, NEW j, Moves(t, j) PROVE Agreed'
<1>1. /\ \A u \in Tasks : job'[u] = IF u = t THEN j ELSE job[u]
      /\ job[t].pc # "ensuring" /\ job[t].pc # "saving" /\ UNCHANGED <<saves, active>>
  BY DEF Moves, IInv, TypeOK, storage
<1>2. CASE j.pc = "ensuring"
  BY <1>1, <1>2 DEF Agreed, Rooted
<1>3. CASE j.pc # "ensuring"
  <2>1. UNCHANGED cur
    BY <1>3 DEF Moves
  <2>2. cur # NoVault => \/ \E u \in Tasks : job'[u].pc = "ensuring"
                         \/ saves' # <<>> /\ saves'[Len(saves')].id = cur'.id
                         \/ saves' = <<>> /\ active' = cur'.id
    BY <1>1, <2>1 DEF Agreed
  <2>3. page' # cur' => \E u \in Tasks : job'[u].pc \in Rooted
    <3>1. CASE job[t].pc = "ensuringOpened"
      BY <2>1, <3>1 DEF Moves
    <3>2. CASE job[t].pc # "ensuringOpened"
      BY <1>1, <2>1, <3>2 DEF Agreed, Rooted, Moves
    <3>3. QED
      BY <3>1, <3>2
  <2>4. QED
    BY <2>1, <2>2, <2>3 DEF Agreed
<1>4. QED
  BY <1>2, <1>3

LEMMA SavingAgreeing ==
  ASSUME IInv, NEW t \in Tasks, NEW j, NEW root, Saving(t, j, root) PROVE Agreed'
<1>1. job'[t].pc = "saving"
  BY DEF Saving, IInv, TypeOK
<1>2. saves \in Seq(Saves) /\ [task |-> t, id |-> cur'.id, root |-> root] \in Saves
  BY DEF Saving, IInv, TypeOK, Saves
<1>3. saves' # <<>> /\ saves'[Len(saves')].id = cur'.id
  BY <1>2 DEF Saving, QueueSave
<1>4. QED
  BY <1>1, <1>3 DEF Agreed, Rooted

LEMMA SavedAgreeing ==
  ASSUME IInv, Agreed, ~refused', NEW j, Saved(j) PROVE Agreed'
<1>1. /\ saves \in Seq(Saves) /\ Head(saves).task \in Tasks
      /\ job[Head(saves).task].pc = "saving" /\ Head(saves) = saves[1] /\ Len(saves) >= 1
      /\ Len(saves') = Len(saves) - 1 /\ saves' \in Seq(Saves)
      /\ \A i \in DOMAIN saves' : saves'[i] = saves[i + 1]
  BY SaveTaken DEF Saved, IInv, Jobs, TypeOK, Saves, Idle
<1>2. \A u \in Tasks : job'[u] = IF u = Head(saves).task THEN j ELSE job[u]
  BY <1>1 DEF Saved, IInv, TypeOK
<1>3. page' # cur' => \E u \in Tasks : job'[u].pc \in Rooted
  BY <1>1, <1>2 DEF Saved, Rooted
<1>4. ASSUME NEW u \in Tasks, job[u].pc = "ensuring" PROVE job'[u].pc = "ensuring"
  BY <1>1, <1>2, <1>4
<1>5. ASSUME saves[Len(saves)].id = cur.id
      PROVE  \/ saves' # <<>> /\ saves'[Len(saves')].id = cur.id
             \/ saves' = <<>> /\ active' = cur.id
  <2>1. CASE Len(saves) = 1
    BY <1>1, <1>5, <2>1 DEF Saved
  <2>2. CASE Len(saves) # 1
    <3>1. Len(saves') \in DOMAIN saves' /\ saves' # <<>>
      BY <1>1, <2>2
    <3>2. saves'[Len(saves')] = saves[Len(saves)]
      BY <1>1, <3>1
    <3>3. QED
      BY <1>5, <3>1, <3>2
  <2>3. QED
    BY <2>1, <2>2
<1>6. QED
  BY <1>3, <1>4, <1>5 DEF Agreed, Saved

LEMMA CallingAgreeing ==
  ASSUME IInv, Agreed, NEW t \in Tasks, NEW j, Calling(t, j) PROVE Agreed'
<1>1. /\ \A u \in Tasks : job'[u] = IF u = t THEN j ELSE job[u]
      /\ job[t].pc \notin Rooted /\ UNCHANGED <<cur, page, saves, active>>
  BY DEF Calling, IInv, TypeOK, storage, OfFile, Rooted, Idle
<1>2. QED
  BY <1>1 DEF Agreed, Rooted

LEMMA NextAgreeing ==
  ASSUME IInv, Agreeing, [Next]_vars PROVE Agreeing'
<1> SUFFICES ASSUME ~refused' PROVE Agreed'
  BY DEF Agreeing
<1>1. CASE Reload
  BY <1>1 DEF Reload, Agreed
<1>2. CASE UNCHANGED vars
  BY <1>2 DEF vars, Agreeing, Agreed
<1>3. ASSUME NEW t \in Tasks, NEW j, Moves(t, j) PROVE Agreed'
  <2>1. ~refused
    BY <1>3 DEF Moves
  <2>2. QED
    BY <1>3, <2>1, MovesAgreeing DEF Agreeing
<1>4. ASSUME NEW j, Saved(j) PROVE Agreed'
  <2>1. ~refused
    BY <1>4 DEF Saved
  <2>2. QED
    BY <1>4, <2>1, SavedAgreeing DEF Agreeing
<1>5. ASSUME NEW t \in Tasks, NEW j, Calling(t, j) PROVE Agreed'
  <2>1. ~refused
    BY <1>5 DEF Calling
  <2>2. QED
    BY <1>5, <2>1, CallingAgreeing DEF Agreeing
<1>6. QED
  BY <1>1, <1>2, <1>3, <1>4, <1>5, StepKinds, SavingAgreeing

(* A save that is asked for has a task that waits for it.                   *)
LEMMA AtRestAgree == ASSUME IInv, Agreeing PROVE ChangesAgree
<1> SUFFICES ASSUME ~refused, \A t \in Tasks : ~Changing(t)
             PROVE  page = cur /\ (cur # NoVault => active = cur.id)
  BY DEF ChangesAgree
<1>1. \A t \in Tasks : job[t].pc \notin Rooted
  BY DEF Changing, Changes, Rooted
<1>2. saves = <<>>
  <2> SUFFICES ASSUME saves # <<>> PROVE FALSE
    OBVIOUS
  <2>1. saves \in Seq(Saves)
    BY DEF IInv, TypeOK, Saves
  <2>2. 1 \in DOMAIN saves /\ saves[1] \in Saves
    BY <2>1
  <2>3. saves[1].task \in Tasks
    BY <2>2 DEF Saves
  <2>4. QED
    BY <1>1, <2>2, <2>3 DEF IInv, SavesAwaited, Rooted
<1>3. QED
  BY <1>1, <1>2 DEF Agreeing, Agreed, Rooted

(* However openVault, switchVault and tryRestoreVault overlap, they end with  *)
(* one vault, in the module, on the page and to be restored at next start,    *)
(* until IndexedDB refuses one of them.                                      *)
THEOREM OverlappingChangesAgree == Spec => []ChangesAgree
<1>1. Init => Agreeing
  BY DEF Init, Agreeing, Agreed
<1>2. IInv /\ Agreeing /\ [Next]_vars => Agreeing'
  BY NextAgreeing
<1>3. IInv /\ Agreeing => ChangesAgree
  BY AtRestAgree
<1>4. QED
  BY <1>1, <1>2, <1>3, Invariance, PTL DEF Spec

-----------------------------------------------------------------------------
(* The vault to be restored has a handle. It is in the store, or a save that  *)
(* is asked for earlier brings it.                                          *)
Restorable(stored, queue, id, n) ==
  stored[id] # None \/ \E k \in 1..n : queue[k].id = id /\ queue[k].root # None

OneChange == \A t, u \in Tasks : Changing(t) /\ Changing(u) => t = u

HandleStored == active # None => handles[active] # None

RestoreInv ==
  /\ HandleStored
  /\ \A i \in DOMAIN saves : saves[i].root = None => Restorable(handles, saves, saves[i].id, i - 1)
  /\ (\E t \in Tasks : job[t].pc = "ensuring") => Restorable(handles, saves, cur.id, Len(saves))

LEMMA MovesOneChange ==
  ASSUME IInv, OneChange, ChangesApart, NEW t \in Tasks, NEW j, Moves(t, j)
  PROVE  OneChange'
<1>1. \A u \in Tasks : job'[u] = IF u = t THEN j ELSE job[u]
  BY DEF Moves, IInv, TypeOK
<1>2. \A u \in Tasks : u # t => (Changing(u)' <=> Changing(u))
  BY <1>1 DEF Changing
<1>3. (\A u \in Tasks : ~Changing(u)) \/ Changing(t)
  BY DEF Moves
<1>4. QED
  BY <1>2, <1>3 DEF OneChange

LEMMA NextOneChange ==
  ASSUME IInv, OneChange, ChangesApart, [Next]_vars PROVE OneChange'
<1>1. ASSUME NEW t \in Tasks, NEW j, NEW root, Saving(t, j, root) PROVE OneChange'
  BY <1>1 DEF Saving, IInv, TypeOK, OneChange, Changing
<1>2. ASSUME NEW j, Saved(j) PROVE OneChange'
  <2>1. Head(saves).task \in Tasks /\ job[Head(saves).task].pc = "saving"
    BY <1>2, SaveTaken DEF Saved, IInv, Jobs, Saves, Idle
  <2>2. Changing(Head(saves).task)
    BY <2>1 DEF Changing, Changes
  <2>3. QED
    BY <1>2, <2>1, <2>2 DEF Saved, IInv, TypeOK, OneChange, Changing
<1>3. ASSUME NEW t \in Tasks, NEW j, Calling(t, j) PROVE OneChange'
  <2>1. j.pc \notin Changes
    BY <1>3 DEF Calling, Idle, FileJobs, Changes
  <2>2. QED
    BY <1>3, <2>1 DEF Calling, IInv, TypeOK, OneChange, Changing
<1>4. CASE Reload
  BY <1>4 DEF Reload, OneChange, Changing, Changes, Idle
<1>5. CASE UNCHANGED vars
  BY <1>5 DEF vars, OneChange, Changing
<1>6. QED
  BY <1>1, <1>2, <1>3, <1>4, <1>5, StepKinds, MovesOneChange

LEMMA MovesRestore ==
  ASSUME IInv, RestoreInv, NEW t \in Tasks, NEW j, Moves(t, j) PROVE RestoreInv'
<1>1. \A u \in Tasks : job'[u] = IF u = t THEN j ELSE job[u]
  BY DEF Moves, IInv, TypeOK
<1>2. UNCHANGED <<handles, active, saves>>
  BY DEF Moves, storage
<1>3. HandleStored'
  BY <1>2 DEF RestoreInv, HandleStored
<1>4. \A i \in DOMAIN saves' : saves'[i].root = None => Restorable(handles', saves', saves'[i].id, i - 1)
  BY <1>2 DEF RestoreInv, Restorable
<1>5. (\E u \in Tasks : job'[u].pc = "ensuring") => Restorable(handles', saves', cur'.id, Len(saves'))
  <2>1. CASE j.pc = "ensuring"
    BY <1>2, <2>1, ConstantsAssumption DEF Moves, Restorable
  <2>2. CASE j.pc # "ensuring"
    BY <1>1, <1>2, <2>2 DEF Moves, RestoreInv, Restorable
  <2>3. QED
    BY <2>1, <2>2
<1>6. QED
  BY <1>3, <1>4, <1>5 DEF RestoreInv

LEMMA SavingRestore ==
  ASSUME IInv, RestoreInv, NEW t \in Tasks, NEW j, NEW root, Saving(t, j, root) PROVE RestoreInv'
<1> DEFINE n == Len(saves)
<1>1. j \in Jobs /\ cur'.id \in Ids /\ root \in Roots \cup {None}
  BY DEF Saving, Jobs
<1>2. /\ Len(saves') = n + 1 /\ DOMAIN saves' = DOMAIN saves \cup {n + 1}
      /\ \A i \in DOMAIN saves : saves'[i] = saves[i]
      /\ saves'[n + 1] = [task |-> t, id |-> cur'.id, root |-> root]
      /\ saves'[n + 1].id = cur'.id /\ saves'[n + 1].root = root
      /\ n \in Nat /\ DOMAIN saves = 1..n
  <2>1. /\ Len(saves') = n + 1 /\ DOMAIN saves' = DOMAIN saves \cup {n + 1}
        /\ \A i \in DOMAIN saves : saves'[i] = saves[i]
        /\ saves'[n + 1] = [task |-> t, id |-> cur'.id, root |-> root]
        /\ n \in Nat /\ DOMAIN saves = 1..n
    BY SavingQueues
  <2>2. QED
    BY <2>1
<1>3. \A u \in Tasks : job'[u] = IF u = t THEN j ELSE job[u]
  BY DEF Saving, IInv, TypeOK
<1>4. UNCHANGED <<handles, active>>
  BY DEF Saving
<1>5. ASSUME NEW id, NEW k \in 0..n, Restorable(handles, saves, id, k) PROVE Restorable(handles', saves', id, k)
  BY <1>2, <1>4, <1>5 DEF Restorable
<1>6. root = None => Restorable(handles, saves, cur'.id, n)
  BY DEF Saving, RestoreInv, Restorable
<1>7. \A i \in DOMAIN saves' : saves'[i].root = None => Restorable(handles', saves', saves'[i].id, i - 1)
  <2> SUFFICES ASSUME NEW i \in DOMAIN saves', saves'[i].root = None
               PROVE  Restorable(handles', saves', saves'[i].id, i - 1)
    OBVIOUS
  <2>1. CASE i = n + 1
    BY <1>2, <1>5, <1>6, <2>1
  <2>2. CASE i \in DOMAIN saves
    <3>1. saves'[i] = saves[i] /\ i - 1 \in 0..n
      BY <1>2, <2>2
    <3>2. Restorable(handles, saves, saves[i].id, i - 1)
      BY <2>2, <3>1 DEF RestoreInv
    <3>3. QED
      BY <1>5, <3>1, <3>2
  <2>3. QED
    BY <1>2, <2>1, <2>2
<1>8. (\E u \in Tasks : job'[u].pc = "ensuring") => Restorable(handles', saves', cur'.id, Len(saves'))
  <2>1. CASE root # None
    BY <1>2, <2>1 DEF Restorable
  <2>2. CASE root = None
    <3>1. Restorable(handles', saves', cur'.id, n)
      BY <1>2, <1>5, <1>6, <2>2
    <3>2. QED
      BY <1>2, <3>1 DEF Restorable
  <2>3. QED
    BY <2>1, <2>2
<1>9. HandleStored'
  BY <1>4 DEF RestoreInv, HandleStored
<1>10. QED
  BY <1>7, <1>8, <1>9 DEF RestoreInv

(* A commit that is the first of several moves the others up.               *)
LEMMA SaveCommitsRestore ==
  ASSUME IInv, RestoreInv, NEW j, Saved(j),
         active' = Head(saves).id,
         handles' = IF Head(saves).root = None THEN handles
                    ELSE [handles EXCEPT ![Head(saves).id] = Head(saves).root]
  PROVE  RestoreInv'
<1> DEFINE save == Head(saves)
<1>1. /\ saves \in Seq(Saves) /\ save = saves[1] /\ save \in Saves /\ 1 \in DOMAIN saves
      /\ Len(saves) \in Nat /\ Len(saves) >= 1 /\ Len(saves') = Len(saves) - 1
      /\ DOMAIN saves' = 1..(Len(saves) - 1) /\ DOMAIN saves = 1..Len(saves)
      /\ \A i \in DOMAIN saves' : i + 1 \in DOMAIN saves /\ saves'[i] = saves[i + 1]
  <2>1. saves \in Seq(Saves)
    BY DEF IInv, TypeOK, Saves
  <2>2. /\ save = saves[1] /\ save \in Saves /\ 1 \in DOMAIN saves
        /\ Len(saves) >= 1 /\ Len(saves') = Len(saves) - 1 /\ saves' \in Seq(Saves)
        /\ \A i \in DOMAIN saves' : i + 1 \in DOMAIN saves /\ saves'[i] = saves[i + 1]
    BY SaveTaken DEF Saved, IInv, Jobs, Idle
  <2>3. QED
    BY <2>1, <2>2
<1>2. save.id \in Ids /\ save.root \in Roots \cup {None} /\ save.task \in Tasks
  BY <1>1 DEF Saves
<1>3. /\ \A i \in Ids : handles[i] # None => handles'[i] # None
      /\ save.root # None => handles'[save.id] # None
  BY <1>2 DEF IInv, TypeOK
<1>4. ASSUME NEW id \in Ids, NEW n \in DOMAIN saves, Restorable(handles, saves, id, n)
      PROVE  Restorable(handles', saves', id, n - 1)
  <2>1. CASE handles[id] # None
    BY <1>3, <2>1 DEF Restorable
  <2>2. CASE \E k \in 1..n : saves[k].id = id /\ saves[k].root # None
    <3>1. PICK k \in 1..n : saves[k].id = id /\ saves[k].root # None
      BY <2>2
    <3>2. CASE k = 1
      BY <1>1, <1>3, <3>1, <3>2 DEF Restorable
    <3>3. CASE k # 1
      <4>1. k - 1 \in 1..(n - 1) /\ k - 1 \in DOMAIN saves' /\ (k - 1) + 1 = k
        BY <1>1, <3>3
      <4>2. saves'[k - 1] = saves[k]
        BY <1>1, <4>1
      <4>3. QED
        BY <3>1, <4>1, <4>2 DEF Restorable
    <3>4. QED
      BY <3>2, <3>3
  <2>3. QED
    BY <1>4, <2>1, <2>2 DEF Restorable
<1>5. HandleStored'
  <2>1. save.root = None => handles[save.id] # None
    <3>1. save.root = None => Restorable(handles, saves, save.id, 0)
      BY <1>1 DEF RestoreInv
    <3>2. QED
      BY <3>1 DEF Restorable
  <2>2. QED
    BY <1>2, <1>3, <2>1 DEF HandleStored
<1>6. \A i \in DOMAIN saves' :
        saves'[i].root = None => Restorable(handles', saves', saves'[i].id, i - 1)
  <2> SUFFICES ASSUME NEW i \in DOMAIN saves', saves'[i].root = None
               PROVE  Restorable(handles', saves', saves'[i].id, i - 1)
    OBVIOUS
  <2>1. i \in DOMAIN saves /\ i + 1 \in DOMAIN saves /\ saves'[i] = saves[i + 1] /\ (i + 1) - 1 = i
    BY <1>1
  <2>2. Restorable(handles, saves, saves[i + 1].id, i)
    BY <2>1 DEF RestoreInv
  <2>3. saves[i + 1] \in Saves
    BY <1>1, <2>1
  <2>4. saves[i + 1].id \in Ids
    BY <2>3 DEF Saves
  <2>5. QED
    BY <1>4, <2>1, <2>2, <2>4
<1>7. (\E u \in Tasks : job'[u].pc = "ensuring") => Restorable(handles', saves', cur'.id, Len(saves'))
  <2> SUFFICES ASSUME NEW u \in Tasks, job'[u].pc = "ensuring"
               PROVE  Restorable(handles', saves', cur'.id, Len(saves'))
    OBVIOUS
  <2>1. job[u].pc = "ensuring"
    BY <1>2 DEF Saved, IInv, TypeOK
  <2>2. cur.id \in Ids /\ cur' = cur
    BY <2>1 DEF IInv, TypeOK, JobsKnow, Rooted, Handles, Saved
  <2>3. Restorable(handles, saves, cur.id, Len(saves)) /\ Len(saves) \in DOMAIN saves
    BY <1>1, <2>1 DEF RestoreInv
  <2>4. QED
    BY <1>1, <1>4, <2>2, <2>3
<1>8. QED
  BY <1>5, <1>6, <1>7 DEF RestoreInv

(* If a save is refused while no other change is under way, nothing waits    *)
(* for it.                                                                  *)
LEMMA SaveFailsRestore ==
  ASSUME IInv, RestoreInv, OneChange, NEW j, Saved(j), j = Idle, UNCHANGED <<handles, active>>
  PROVE  RestoreInv'
<1> DEFINE s == Head(saves).task
<1>1. saves \in Seq(Saves) /\ saves # <<>> /\ saves' = Tail(saves)
  BY DEF IInv, TypeOK, Saves, Saved
<1>2. s \in Tasks /\ job[s].pc = "saving"
  BY SaveTaken DEF Saved, IInv, Jobs, Saves, Idle
<1>3. Changing(s)
  BY <1>2 DEF Changing, Changes
<1>4. Len(saves) = 1
  <2> SUFFICES ASSUME Len(saves) # 1 PROVE FALSE
    OBVIOUS
  <2>0. Len(saves) \in Nat /\ Len(saves) # 0 /\ DOMAIN saves = 1..Len(saves)
    BY <1>1
  <2>1. /\ 1 \in DOMAIN saves /\ 2 \in DOMAIN saves
        /\ saves[1] \in Saves /\ saves[2] \in Saves
    BY <1>1, <2>0
  <2>2. job[saves[1].task].pc = "saving" /\ job[saves[2].task].pc = "saving"
        /\ saves[1].task \in Tasks /\ saves[2].task \in Tasks
    BY <2>1 DEF IInv, SavesAwaited, Saves
  <2>3. saves[1].task = saves[2].task
    BY <2>2 DEF OneChange, Changing, Changes
  <2>4. QED
    BY <2>1, <2>3 DEF IInv, SavesAwaited
<1>5. saves' = <<>> /\ DOMAIN saves' = {}
  BY <1>1, <1>4
<1>6. \A u \in Tasks : job'[u].pc # "ensuring"
  BY <1>2, <1>3 DEF Saved, IInv, TypeOK, OneChange, Changing, Changes, Idle
<1>7. QED
  BY <1>5, <1>6 DEF RestoreInv, HandleStored

LEMMA NextRestore ==
  ASSUME IInv, RestoreInv, refused' => OneChange, [Next]_vars PROVE RestoreInv'
<1>1. ASSUME NEW j, Saved(j) PROVE RestoreInv'
  BY <1>1, SaveCommitsRestore, SaveFailsRestore DEF Saved
<1>2. ASSUME NEW t \in Tasks, NEW j, Calling(t, j) PROVE RestoreInv'
  <2>1. \A u \in Tasks : job'[u].pc = "ensuring" => job[u].pc = "ensuring"
    BY <1>2 DEF Calling, IInv, TypeOK, Idle, FileJobs
  <2>2. UNCHANGED <<cur, handles, active, saves>>
    BY <1>2 DEF Calling, storage
  <2>3. QED
    BY <2>1, <2>2 DEF RestoreInv, HandleStored
<1>3. CASE Reload
  <2>1. DOMAIN saves' = {} /\ \A u \in Tasks : job'[u].pc # "ensuring"
    BY <1>3 DEF Reload, Idle
  <2>2. QED
    BY <1>3, <2>1 DEF Reload, RestoreInv, HandleStored
<1>4. CASE UNCHANGED vars
  BY <1>4 DEF vars, storage, RestoreInv, HandleStored
<1>5. QED
  BY <1>1, <1>2, <1>3, <1>4, StepKinds, MovesRestore, SavingRestore

(* saveActiveVaultId never makes a vault the active one whose handle is not   *)
(* stored: until IndexedDB refuses a save, or at all if changes are apart.   *)
THEOREM ActiveVaultRestorable == Spec => []ActiveRestorable
<1> DEFINE Safe == ~refused \/ ChangesApart => RestoreInv
           Inv == IInv /\ Safe /\ (ChangesApart => OneChange)
<1>1. Init => Inv
  <2>1. Init => RestoreInv /\ OneChange
    BY DEF Init, RestoreInv, HandleStored, OneChange, Changing, Changes, Idle
  <2>2. QED
    BY <2>1, InitIInv
<1>2. Inv /\ [Next]_vars => Inv'
  <2> SUFFICES ASSUME Inv, [Next]_vars PROVE Inv'
    OBVIOUS
  <2>1. IInv' /\ (ChangesApart => OneChange')
    BY NextIInv, NextOneChange
  <2>2. refused => refused'
    BY StepKinds DEF Moves, Saving, Saved, Calling, Reload, vars
  <2>3. Safe'
    BY <2>2, NextRestore
  <2>4. QED
    BY <2>1, <2>3
<1>3. Inv => ActiveRestorable
  BY DEF RestoreInv, HandleStored, ActiveRestorable
<1>4. QED
  BY <1>1, <1>2, <1>3, PTL DEF Spec

-----------------------------------------------------------------------------
(* The refinement of VaultFiles. A step of a change leaves every file call     *)
(* as it is.                                                                *)
Opened == {cur.id, cur.root} \ {None}

SameCalls == \A u \in Tasks :
  job'[u] = job[u] \/ (job[u].pc \notin OfFile /\ job'[u].pc \notin OfFile)

LEMMA ChangeKeepsCalls ==
  ASSUME IInv,
         \/ \E t \in Tasks : \E j : Moves(t, j)
         \/ \E t \in Tasks : \E j, root : Saving(t, j, root)
         \/ \E j : Saved(j)
  PROVE  SameCalls /\ UNCHANGED files
<1>1. ASSUME NEW t \in Tasks, NEW j, Moves(t, j) PROVE SameCalls /\ UNCHANGED files
  <2>1. job[t].pc \notin OfFile /\ j.pc \notin OfFile
    BY <1>1 DEF Moves, Changing, Changes, Idle, OfFile
  <2>2. QED
    BY <1>1, <2>1 DEF Moves, SameCalls, IInv, TypeOK
<1>2. ASSUME NEW t \in Tasks, NEW j, NEW root, Saving(t, j, root) PROVE SameCalls /\ UNCHANGED files
  <2>1. job[t].pc \notin OfFile /\ j.pc \notin OfFile
    BY <1>2 DEF Saving, Changing, Changes, OfFile
  <2>2. QED
    BY <1>2, <2>1 DEF Saving, SameCalls, IInv, TypeOK
<1>3. ASSUME NEW j, Saved(j) PROVE SameCalls /\ UNCHANGED files
  <2>1. Head(saves).task \in Tasks /\ job[Head(saves).task].pc = "saving"
    BY <1>3, SaveTaken DEF Saved, IInv, Jobs, Saves, Idle
  <2>2. job[Head(saves).task].pc \notin OfFile /\ j.pc \notin OfFile
    BY <1>3, <2>1 DEF Saved, OfFile
  <2>3. QED
    BY <1>3, <2>1, <2>2 DEF Saved, SameCalls, IInv, TypeOK
<1>4. QED
  BY <1>1, <1>2, <1>3

(* The call VaultFiles sees in a task's record.                             *)
LEMMA AbstractCalls ==
  ASSUME NEW j \in Jobs
  PROVE  /\ j.pc \notin OfFile => AbstractCall(j) = [stage |-> "idle"]
         /\ j.pc \in OfFile =>
              AbstractCall(j) = [stage |-> Stage(j.pc), op |-> j.op, place |-> j.root,
                                 path |-> j.path, text |-> j.text]
BY DEF Jobs, AbstractCall, Changes, OfFile, Idle, ChangeJobs, FileJobs

LEMMA InitFiles == Init => Files!Init
<1> SUFFICES ASSUME Init PROVE Files!Init
  OBVIOUS
<1>1. \A t \in Tasks : AbstractCall(job[t]) = [stage |-> "idle"]
  BY DEF Init, AbstractCall
<1>2. QED
  BY <1>1 DEF Init, Files!Init, Files!Idle, NoVault

(* A change is seen when the module gets its vault.                         *)
LEMMA ChangeFiles ==
  ASSUME IInv, IInv', SameCalls, UNCHANGED files
  PROVE  [Files!Next]_Files!vars
<1>1. \A t \in Tasks : AbstractCall(job[t]) = AbstractCall(job'[t])
  <2> SUFFICES ASSUME NEW t \in Tasks PROVE AbstractCall(job[t]) = AbstractCall(job'[t])
    OBVIOUS
  <2>1. job[t] \in Jobs /\ job'[t] \in Jobs
    BY DEF IInv, TypeOK, Jobs
  <2>2. QED
    BY <2>1, AbstractCalls DEF SameCalls
<1>2. [t \in Tasks |-> AbstractCall(job[t])] = [t \in Tasks |-> AbstractCall(job'[t])]
  BY <1>1
<1>3. {cur'.id, cur'.root} \ {None} \in SUBSET Roots
  BY DEF IInv, TypeOK, Handles, Roots, NoVault
<1>4. Files!OpenVault({cur'.id, cur'.root} \ {None})
  BY <1>2 DEF Files!OpenVault
<1>5. QED
  BY <1>3, <1>4 DEF Files!Next

LEMMA AbstractStep ==
  ASSUME IInv, NEW t \in Tasks, NEW j, job' = [job EXCEPT ![t] = j]
  PROVE  [u \in Tasks |-> AbstractCall(job'[u])] =
         [[u \in Tasks |-> AbstractCall(job[u])] EXCEPT ![t] = AbstractCall(j)]
<1> DEFINE F == [u \in Tasks |-> AbstractCall(job[u])]
           G == [u \in Tasks |-> AbstractCall(job'[u])]
<1>1. job'[t] = j /\ \A u \in Tasks : u # t => job'[u] = job[u]
  BY DEF IInv, TypeOK
<1>2. G[t] = AbstractCall(j) /\ \A u \in Tasks : u # t => G[u] = F[u]
  BY <1>1
<1>3. F = [u \in Tasks |-> F[u]] /\ G = [u \in Tasks |-> G[u]]
  OBVIOUS
<1> HIDE DEF F, G
<1>4. G = [F EXCEPT ![t] = AbstractCall(j)]
  BY <1>2, <1>3
<1>5. QED
  BY <1>4 DEF F, G

LEMMA CallFiles ==
  ASSUME IInv, NEW t \in Tasks, NEW op \in {"read", "write", "delete"}, NEW path \in Paths,
         NEW text \in Texts \cup {Empty}, FileCall(t, op, path, text)
  PROVE  Files!Next
<1> DEFINE j == [pc |-> IF cur.root \in Ids THEN "entry" ELSE "handle", op |-> op,
                 root |-> cur.root, path |-> path, text |-> text]
<1>1. cur.root \in Roots
  BY DEF FileCall, IInv, TypeOK, JobsKnow, Handles
<1>2. j \in FileJobs /\ j.pc \in OfFile
  BY <1>1 DEF FileJobs, Holdings, OfFile
<1>3. AbstractCall(j) = [stage |-> "called", op |-> op, place |-> cur.root, path |-> path, text |-> text]
  BY <1>2, AbstractCalls DEF Jobs, Stage
<1>4. job[t] = Idle /\ AbstractCall(job[t]) = [stage |-> "idle"]
  BY DEF FileCall, Starts, Busy, AbstractCall
<1>5. job' = [job EXCEPT ![t] = j]
  BY DEF FileCall
<1>6. cur.root \in {cur.id, cur.root} \ {None}
  BY <1>1, ConstantsAssumption DEF Roots
<1> HIDE DEF j
<1>7. [u \in Tasks |-> AbstractCall(job'[u])] =
      [[u \in Tasks |-> AbstractCall(job[u])] EXCEPT ![t] = AbstractCall(j)]
  BY <1>5, AbstractStep
<1>8. [u \in Tasks |-> AbstractCall(job[u])][t] = [stage |-> "idle"]
  BY <1>4
<1>9. UNCHANGED <<files, cur>>
  BY DEF FileCall
<1>10. Files!Call(t, op, path, text)
  BY <1>3, <1>6, <1>7, <1>8, <1>9 DEF Files!Call, Files!Idle
<1>11. text \in Files!Holdings
  BY DEF Files!Holdings
<1>12. QED
  BY <1>10, <1>11 DEF Files!Next

LEMMA TakesFiles ==
  ASSUME IInv, NEW t \in Tasks, job[t].pc \in {"entry", "handle", "writable"}, NEW r \in Roots,
         r \in Opened \cup {job[t].root}, Takes(t, r)
  PROVE  Files!TakeEffect(t, r)
<1> DEFINE F == [u \in Tasks |-> AbstractCall(job[u])]
           op == job[t].op
           path == job[t].path
           place == job[t].root
           text == job[t].text
           new == IF op = "read" THEN files[r][path] ELSE text
<1>1. PICK j \in FileJobs :
        /\ j.pc = "done" /\ j.op = op /\ j.root = place /\ j.path = path /\ j.text = new
        /\ job' = [job EXCEPT ![t] = j]
  BY TakesEffect DEF IInv, OfFile
<1>2. AbstractCall(job[t]) = [stage |-> "called", op |-> op, place |-> place, path |-> path, text |-> text]
  BY JobKinds, AbstractCalls DEF IInv, OfFile, Stage
<1>3. AbstractCall(j) = [stage |-> "done", op |-> op, place |-> place, path |-> path, text |-> new]
  BY <1>1, AbstractCalls DEF Jobs, OfFile, Stage
<1>4. [u \in Tasks |-> AbstractCall(job'[u])] = [F EXCEPT ![t] = AbstractCall(j)]
  BY <1>1, AbstractStep
<1>5. /\ F[t] = [stage |-> "called", op |-> op, place |-> place, path |-> path, text |-> text]
      /\ F = [u \in Tasks |-> F[u]]
  BY <1>2
<1>6. files' = [files EXCEPT ![r][path] =
                  CASE op = "write" -> text [] op = "delete" -> Missing [] OTHER -> files[r][path]]
  BY DEF Takes
<1>7. UNCHANGED cur
  BY DEF Takes
<1> HIDE DEF F, op, place, path, text, new
<1>8. [u \in Tasks |-> AbstractCall(job'[u])] = [F EXCEPT ![t].stage = "done", ![t].text = new]
  <2> DEFINE done == [stage |-> "done", op |-> op, place |-> place, path |-> path, text |-> text]
             A == [F EXCEPT ![t].stage = "done"]
  <2>1. [F[t] EXCEPT !.stage = "done"] = done /\ [done EXCEPT !.text = new] = AbstractCall(j)
    BY <1>3, <1>5
  <2> HIDE DEF done
  <2>2. A = [u \in Tasks |-> IF u = t THEN done ELSE F[u]]
    BY <1>5, <2>1
  <2> HIDE DEF A
  <2>3. [A EXCEPT ![t].text = new] = [u \in Tasks |-> IF u = t THEN AbstractCall(j) ELSE F[u]]
    BY <2>1, <2>2
  <2>4. [F EXCEPT ![t] = AbstractCall(j)] = [u \in Tasks |-> IF u = t THEN AbstractCall(j) ELSE F[u]]
    BY <1>5
  <2>5. QED
    BY <1>4, <2>3, <2>4 DEF A
<1>9. F[t].stage = "called" /\ F[t].op = op /\ F[t].place = place /\ F[t].path = path /\ F[t].text = text
  BY <1>5
<1>10. [u \in Tasks |-> AbstractCall(job'[u])] =
         [F EXCEPT ![t].stage = "done",
                   ![t].text = IF F[t].op = "read" THEN files[r][F[t].path] ELSE F[t].text]
  BY <1>8, <1>9 DEF new
<1>11. files' = [files EXCEPT ![r][F[t].path] =
                   CASE F[t].op = "write" -> F[t].text
                     [] F[t].op = "delete" -> Missing
                     [] OTHER -> files[r][F[t].path]]
  BY <1>6, <1>9
<1>12. r \in ({cur.id, cur.root} \ {None}) \cup {F[t].place}
  BY <1>9 DEF Opened, place
<1>13. QED
  BY <1>7, <1>9, <1>10, <1>11, <1>12 DEF Files!TakeEffect, F

(* A refusal, a return, and the appearance of an empty file.                *)
LEMMA FailsFiles ==
  ASSUME IInv, NEW t \in Tasks, job[t].pc \in {"entry", "handle", "writable"},
         Goes(t, "failed"), UNCHANGED <<cur, files>>
  PROVE  Files!Fail(t)
<1> DEFINE F == [u \in Tasks |-> AbstractCall(job[u])]
           op == job[t].op
           place == job[t].root
           path == job[t].path
           text == job[t].text
<1>1. PICK j \in FileJobs :
        /\ j.pc = "failed" /\ j.op = op /\ j.root = place /\ j.path = path /\ j.text = text
        /\ job' = [job EXCEPT ![t] = j]
  BY FileGoes DEF IInv, OfFile
<1>2. AbstractCall(job[t]) = [stage |-> "called", op |-> op, place |-> place, path |-> path, text |-> text]
  BY JobKinds, AbstractCalls DEF IInv, OfFile, Stage
<1>3. AbstractCall(j) = [stage |-> "failed", op |-> op, place |-> place, path |-> path, text |-> text]
  BY <1>1, AbstractCalls DEF Jobs, OfFile, Stage
<1>4. [u \in Tasks |-> AbstractCall(job'[u])] = [F EXCEPT ![t] = AbstractCall(j)]
  BY <1>1, AbstractStep
<1>5. /\ F[t] = [stage |-> "called", op |-> op, place |-> place, path |-> path, text |-> text]
      /\ F = [u \in Tasks |-> F[u]]
  BY <1>2
<1> HIDE DEF F, op, place, path, text
<1>6. [F[t] EXCEPT !.stage = "failed"] = AbstractCall(j)
  BY <1>3, <1>5
<1>7. [u \in Tasks |-> AbstractCall(job'[u])] = [F EXCEPT ![t].stage = "failed"]
  BY <1>4, <1>6
<1>8. F[t].stage = "called"
  BY <1>5
<1>9. QED
  BY <1>7, <1>8 DEF Files!Fail, F

LEMMA ReturnFiles ==
  ASSUME IInv, NEW t \in Tasks, FileReturns(t) PROVE Files!Return(t)
<1>1. job' = [job EXCEPT ![t] = Idle] /\ UNCHANGED <<files, cur>>
  BY DEF FileReturns, Ends
<1>2. AbstractCall(Idle) = [stage |-> "idle"]
  BY DEF AbstractCall
<1>3. AbstractCall(job[t]).stage \in {"done", "failed"}
  BY JobKinds, AbstractCalls DEF IInv, OfFile, Stage, FileReturns
<1>4. [u \in Tasks |-> AbstractCall(job'[u])] =
      [[u \in Tasks |-> AbstractCall(job[u])] EXCEPT ![t] = AbstractCall(Idle)]
  BY <1>1, AbstractStep
<1>5. QED
  BY <1>1, <1>2, <1>3, <1>4 DEF Files!Return, Files!Idle

LEMMA CreatesFiles ==
  ASSUME IInv, NEW t \in Tasks, NativeCreates(t)
  PROVE  Files!Appear(t) \/ UNCHANGED Files!vars
<1> DEFINE F == [u \in Tasks |-> AbstractCall(job[u])]
           call == AbstractCall(job[t])
<1>1. PICK j \in FileJobs :
        /\ j.pc = "writable" /\ j.op = job[t].op /\ j.root = job[t].root
        /\ j.path = job[t].path /\ j.text = job[t].text
        /\ job' = [job EXCEPT ![t] = j]
  BY FileGoes DEF IInv, OfFile, NativeCreates
<1>2. job[t] \in FileJobs /\ job[t].root \in Roots /\ job[t].path \in Paths
  BY JobKinds DEF IInv, OfFile, NativeCreates, FileJobs
<1>3. call = [stage |-> "called", op |-> "write", place |-> job[t].root,
              path |-> job[t].path, text |-> job[t].text]
  BY <1>2, AbstractCalls DEF Jobs, OfFile, Stage, NativeCreates
<1>4. AbstractCall(j) = call
  BY <1>1, <1>3, AbstractCalls DEF Jobs, OfFile, Stage, NativeCreates
<1>5. [u \in Tasks |-> AbstractCall(job'[u])] = F
  <2>1. [u \in Tasks |-> AbstractCall(job'[u])] = [F EXCEPT ![t] = AbstractCall(j)]
    BY <1>1, AbstractStep
  <2>2. F = [u \in Tasks |-> F[u]] /\ F[t] = call
    OBVIOUS
  <2> HIDE DEF F, call
  <2>3. QED
    BY <1>4, <2>1, <2>2
<1>6. UNCHANGED cur /\ files \in [Roots -> [Paths -> Holdings]]
  BY DEF NativeCreates, IInv, TypeOK
<1>7. CASE files[job[t].root][job[t].path] = Missing
  <2>1. files' = [files EXCEPT ![job[t].root][job[t].path] = Empty]
    BY <1>7 DEF NativeCreates
  <2>2. F[t] = call
    OBVIOUS
  <2>3. /\ F[t].stage = "called" /\ F[t].op = "write"
        /\ F[t].place = job[t].root /\ F[t].path = job[t].path
    BY <1>3, <2>2
  <2>4. Files!Appear(t)
    BY <1>5, <1>6, <1>7, <2>1, <2>3 DEF Files!Appear
  <2>5. QED
    BY <2>4
<1>8. CASE files[job[t].root][job[t].path] # Missing
  <2>1. files' = files
    BY <1>2, <1>6, <1>8 DEF NativeCreates
  <2>2. QED
    BY <1>5, <1>6, <2>1 DEF Files!vars
<1>9. QED
  BY <1>7, <1>8

LEMMA FileStepFiles ==
  ASSUME IInv, NEW t \in Tasks, FileStep(t)
  PROVE  [Files!Next]_Files!vars
<1>2. CASE \E p \in Paths :
             \/ FileCall(t, "read", p, Empty) \/ FileCall(t, "delete", p, Empty)
             \/ \E x \in Texts : FileCall(t, "write", p, x)
  BY <1>2, CallFiles
<1>3. CASE EntryTransaction(t)
  <2>1. cur.id \in Opened /\ cur.id \in Roots
    BY <1>3, ConstantsAssumption
    DEF EntryTransaction, IInv, TypeOK, JobsKnow, OfFile, Handles, Roots, Opened
  <2>2. Files!TakeEffect(t, cur.id)
    BY <1>3, <2>1, TakesFiles DEF EntryTransaction
  <2>3. QED
    BY <2>1, <2>2 DEF Files!Next
<1>4. CASE NativeTakes(t)
  <2>1. job[t].root \in Roots /\ job[t].pc \in {"handle", "writable"}
    BY <1>4, JobKinds DEF NativeTakes, IInv, OfFile, FileJobs
  <2>2. Files!TakeEffect(t, job[t].root)
    BY <1>4, <2>1, TakesFiles DEF NativeTakes
  <2>3. QED
    BY <2>1, <2>2 DEF Files!Next
<1>5. CASE EntryRefused(t) \/ NativeRefuses(t)
  <2>1. Files!Fail(t)
    BY <1>5, FailsFiles DEF EntryRefused, NativeRefuses
  <2>2. QED
    BY <2>1 DEF Files!Next
<1>6. CASE NativeCreates(t)
  <2>1. Files!Appear(t) \/ UNCHANGED Files!vars
    BY <1>6, CreatesFiles
  <2>2. QED
    BY <2>1 DEF Files!Next
<1>7. CASE FileReturns(t)
  BY <1>7, ReturnFiles DEF Files!Next
<1>8. QED
  BY <1>2, <1>3, <1>4, <1>5, <1>6, <1>7 DEF FileStep

LEMMA ReloadFiles == ASSUME Reload PROVE Files!Next
<1>1. \A t \in Tasks : AbstractCall(job'[t]) = [stage |-> "idle"]
  BY DEF Reload, AbstractCall
<1>2. Files!Reload
  BY <1>1 DEF Reload, Files!Reload, Files!Idle, NoVault
<1>3. QED
  BY <1>2 DEF Files!Next

(* Every step that is not a file call's is seen as the opening of a vault,    *)
(* the reload of the page or not at all.                                    *)
LEMMA NextFiles ==
  ASSUME IInv, IInv', [Next]_vars
  PROVE  [Files!Next]_Files!vars
<1>1. CASE Reload
  BY <1>1, ReloadFiles
<1>2. CASE UNCHANGED vars
  BY <1>2 DEF vars, Files!vars
<1>3. CASE \E t \in Tasks : FileStep(t)
  BY <1>3, FileStepFiles
<1>4. CASE Next /\ ~Reload /\ ~\E t \in Tasks : FileStep(t)
  BY <1>4, ChangeKinds, ChangeKeepsCalls, ChangeFiles
<1>5. QED
  BY <1>1, <1>2, <1>3, <1>4

(* Whatever overlaps, is refused or cut off by a reload, the asynchronous     *)
(* operations implement those of VaultFiles: a call takes effect at once or  *)
(* not at all, and on the vault it was made in or on the one open then.      *)
THEOREM ImplementsFiles == Spec => ImplementsVaultFiles
<1>1. IInv /\ IInv' /\ [Next]_vars => [Files!Next]_Files!vars
  BY NextFiles
<1>2. QED
  BY <1>1, Invariance, InitFiles, PTL DEF Spec, ImplementsVaultFiles, Files!Spec
=============================================================================
