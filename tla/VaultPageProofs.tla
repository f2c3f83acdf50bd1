--------------------------- MODULE VaultPageProofs ---------------------------
(***************************************************************************)
(* Theorems about VaultPage: between two handlers the page, the session,   *)
(* the file system and the connection agree; notes stay in their vault; the list *)
(* is what is stored.  The inductive invariants say of each place in a     *)
(* handler how far the change of the vault has got there.                  *)
(***************************************************************************)
EXTENDS VaultPage, TLAPS

USE ConstantsAssumption

(* Type correctness, by one step for each action.  The vault of a handler  *)
(* under way is a vault.                                                   *)
TypeInv == TypeOK /\ (job.at # "idle" => job.vault \in Vaults)

LEMMA TypeInit == Init => TypeInv
<1> USE DEF Init, TypeInv, TypeOK, Lists, MaybeVault, Idle
<1> SUFFICES ASSUME Init PROVE TypeInv
  OBVIOUS
<1>1. list \in Lists /\ stored \in Lists
  OBVIOUS
<1>2. job.at = "idle" /\ job.vault = None
  OBVIOUS
<1> QED BY <1>1, <1>2

(* The listing after a vault was entered ends the handler, or it goes on   *)
(* with the code that was listed.                                          *)
LEMMA ListedOrEnded ==
  TypeInv /\ ListsEntered =>
    \/ job' = Idle /\ since' = "broken"
    \/ /\ since' = since /\ job'.at = "reload" /\ job'.op = job.op
       /\ job'.vault = job.vault /\ job'.code = list'[job.vault]
<1> SUFFICES ASSUME TypeInv, ListsEntered
             PROVE  \/ job' = Idle /\ since' = "broken"
                    \/ /\ since' = since /\ job'.at = "reload" /\ job'.op = job.op
                       /\ job'.vault = job.vault /\ job'.code = list'[job.vault]
  OBVIOUS
<1>1. CASE list'[job.vault] = Absent
  BY <1>1 DEF ListsEntered, Ends
<1>2. CASE list'[job.vault] # Absent
  <2>1. /\ since' = since
        /\ job' = [job EXCEPT !.at = "reload", !.code = list'[job.vault]]
    BY <1>2 DEF ListsEntered
  <2> QED BY <2>1 DEF TypeInv, TypeOK
<1> QED BY <1>1, <1>2

LEMMA DeselectsType == TypeInv /\ Deselects => overtaken' \in BOOLEAN
BY Zenon DEF Deselects

LEMMA TypeStep == TypeInv /\ [Next]_vars => TypeInv'
<1> SUFFICES ASSUME TypeInv, [Next]_vars PROVE TypeInv'
  OBVIOUS
<1> USE DEF TypeInv, TypeOK, Lists, MaybeVault, Idle, open, link, notes, vars
<1>1. ASSUME NEW v \in Vaults, OpenPage(v) PROVE TypeInv'
  BY <1>1 DEF OpenPage, Starts, Shown, Opens
<1>2. ASSUME NEW v \in Vaults, Switch(v) PROVE TypeInv'
  BY <1>2 DEF Switch, Starts, Shown, Listed
<1>3. ASSUME NEW v \in Vaults, AddLocal(v) PROVE TypeInv'
  BY <1>3 DEF AddLocal, Starts, Shown, Opens, Leaves
<1>4. ASSUME NEW v \in Vaults, Delete(v) PROVE TypeInv'
  BY <1>4 DEF Delete, Starts, Shown, Listed
<1>5. ASSUME NEW v \in Vaults, Reconnect(v) PROVE TypeInv'
  BY <1>5 DEF Reconnect, Starts, Shown, Listed
<1>6. ASSUME NEW v \in Vaults, NEW c \in Codes, ConnectNew(v, c) PROVE TypeInv'
  BY <1>6 DEF ConnectNew, Starts, Shown, Opens, Leaves
<1>7. ASSUME NEW v \in Vaults, NEW c \in Codes, SetCode(v, c) PROVE TypeInv'
  BY <1>7 DEF SetCode, Starts, Shown, Listed
<1>8. ASSUME SwitchSaves PROVE TypeInv'
  <2>1. /\ job.at = "save"
        /\ UNCHANGED <<open, session, active, list, stored, link, since, unlisted>>
    BY <1>8 DEF SwitchSaves
  <2>2. CASE Ends /\ Keeps
    BY <2>1, <2>2 DEF Ends, Keeps
  <2>3. CASE Goes("open") /\ Deselects
    <3>1. overtaken' \in BOOLEAN
      BY <2>3, DeselectsType
    <3> QED BY <2>1, <2>3, <3>1 DEF Goes, Deselects
  <2> QED BY <1>8, <2>2, <2>3 DEF SwitchSaves
<1>9. ASSUME SwitchOpens PROVE TypeInv'
  <2>1. job.vault \in Vaults /\ born' \subseteq Vaults
    BY <1>9 DEF SwitchOpens, Opens
  <2>2. CASE Opens(job.vault) /\ Goes("session")
    BY <1>9, <2>1, <2>2 DEF SwitchOpens, Opens, Goes
  <2>3. CASE Ends /\ UNCHANGED open
    BY <1>9, <2>3 DEF SwitchOpens, Ends
  <2> QED BY <1>9, <2>2, <2>3 DEF SwitchOpens
<1>10. ASSUME SwitchActivates PROVE TypeInv'
  BY <1>10 DEF SwitchActivates, Goes
<1>11. ASSUME AddSaves PROVE TypeInv'
  BY <1>11 DEF AddSaves, SaveThrows, Deselects, Keeps, Ends, Goes
<1>12. ASSUME SessionOpens PROVE TypeInv'
  BY <1>12 DEF SessionOpens, Goes
<1>13. ASSUME SessionFails PROVE TypeInv'
  BY <1>13 DEF SessionFails, Ends
<1>14. ASSUME Enters PROVE TypeInv'
  BY <1>14 DEF Enters, Goes
<1>15. ASSUME ListsEntered PROVE TypeInv'
  <2>1. job.vault \in Vaults /\ list' \in Lists /\ unlisted' \in BOOLEAN
    BY <1>15 DEF ListsEntered, ListVaults
  <2>2. CASE list'[job.vault] = Absent
    BY <1>15, <2>1, <2>2 DEF ListsEntered, Ends
  <2>3. CASE list'[job.vault] # Absent
    <3>1. list'[job.vault] \in Codes \cup {NoCode}
      BY <2>1, <2>3
    <3>2. /\ job' = [job EXCEPT !.at = "reload", !.code = list'[job.vault]]
          /\ UNCHANGED <<open, session, active, stored, link, notes, since>>
      BY <1>15, <2>3 DEF ListsEntered
    <3>3. /\ job' \in [op : {"none", "boot", "switch", "add", "new", "delete", "code", "reconnect"},
                       at : {"idle", "save", "open", "session", "activate", "reload", "enter",
                             "list", "store", "connect", "erase", "keep"},
                       vault : MaybeVault, code : Codes \cup {NoCode}]
          /\ job'.vault = job.vault
      BY <3>1, <3>2
    <3> QED BY <2>1, <3>2, <3>3, <1>15
  <2> QED BY <2>2, <2>3
<1>16. ASSUME Stores PROVE TypeInv'
  BY <1>16 DEF Stores, Goes, Ends
<1>17. ASSUME ListsNew PROVE TypeInv'
  <2>1. /\ job.vault \in Vaults /\ list' \in Lists /\ unlisted' \in BOOLEAN
        /\ since' \in {"broken", since}
    BY <1>17 DEF ListsNew, ListVaults
  <2> QED BY <2>1, <1>17 DEF ListsNew, Goes
<1>18. ASSUME Connects PROVE TypeInv'
  BY <1>18 DEF Connects, ConnectVaultSyncIfActive, Ends
<1>19. ASSUME Erases PROVE TypeInv'
  <2>1. /\ job' = Idle /\ stored' \in Lists
        /\ UNCHANGED <<open, session, list, link, unlisted>>
    BY <1>19 DEF Erases, Ends
  <2>2. CASE job.vault # active
    BY <1>19, <2>1, <2>2 DEF Erases
  <2>3. CASE job.vault = active
    <3>1. Deselects /\ Leaves /\ active' \in MaybeVault
      BY <1>19, <2>3 DEF Erases
    <3>2. overtaken' \in BOOLEAN
      BY <3>1, DeselectsType
    <3> QED BY <2>1, <3>1, <3>2 DEF Deselects, Leaves
  <2> QED BY <2>2, <2>3
<1>20. ASSUME EraseRefused PROVE TypeInv'
  BY <1>20 DEF EraseRefused, Ends
<1>21. ASSUME KeepsCode PROVE TypeInv'
  BY <1>21 DEF KeepsCode, Goes
<1>22. ASSUME KeepRefused PROVE TypeInv'
  BY <1>22 DEF KeepRefused, Ends
<1>23. ASSUME SelectNote PROVE TypeInv'
  BY <1>23 DEF SelectNote, Shown, SaveThrows
<1>24. ASSUME AutosaveBegins PROVE TypeInv'
  BY <1>24 DEF AutosaveBegins
<1>25. ASSUME AutosaveEnds PROVE TypeInv'
  BY <1>25 DEF AutosaveEnds
<1>26. ASSUME ReloadsNotes PROVE TypeInv'
  BY <1>26 DEF ReloadsNotes, Goes, Ends
<1>27. ASSUME Reload PROVE TypeInv'
  BY <1>27 DEF Reload, ListVaults
<1>28. ASSUME ConnectFails PROVE TypeInv'
  BY <1>28 DEF ConnectFails, ConnectSwallows, Ends
<1>29. ASSUME UNCHANGED vars PROVE TypeInv'
  BY <1>29
<1> QED BY <1>1, <1>2, <1>3, <1>4, <1>5, <1>6, <1>7, <1>8, <1>9, <1>10, <1>11, <1>12,
     <1>13, <1>14, <1>15, <1>16, <1>17, <1>18, <1>19, <1>20, <1>21, <1>22, <1>23, <1>24,
     <1>25, <1>26, <1>27, <1>28, <1>29 DEF Next

(* Every variable of the page keeps its type, whatever fails: the active   *)
(* vault is one of the vaults or none.                                     *)
THEOREM TypeCorrect == Spec => []TypeOK
<1>1. TypeInv => TypeOK
  BY DEF TypeInv
<1> QED BY <1>1, TypeInit, TypeStep, PTL DEF Spec

-----------------------------------------------------------------------------
(* While a handler is between changing the list and storing the change,    *)
(* list and store differ at its vault only.                                *)
ListInv ==
  /\ ~unlisted => \A v \in Vaults :
       \/ v = job.vault /\ job.at \in {"keep", "erase", "list"}
       \/ list[v] = stored[v]
  /\ job.at = "keep" => list[job.vault] = job.code
  /\ job.at = "erase" => list[job.vault] = Absent
  /\ job.at = "idle" => job = Idle

LEMMA ListInit == Init => ListInv
BY DEF Init, ListInv, Idle

LEMMA ListStep == TypeInv /\ TypeInv' /\ ListInv /\ [Next]_vars => ListInv'
<1> SUFFICES ASSUME TypeInv, TypeInv', ListInv, [Next]_vars PROVE ListInv'
  OBVIOUS
<1> USE DEF ListInv, TypeInv, TypeOK, Lists, MaybeVault, Idle, open, link, notes, vars
<1>1. ASSUME NEW v \in Vaults, OpenPage(v) PROVE ListInv'
  BY <1>1 DEF OpenPage, Starts, Shown, Opens
<1>2. ASSUME NEW v \in Vaults, Switch(v) PROVE ListInv'
  BY <1>2 DEF Switch, Starts, Shown, Listed
<1>3. ASSUME NEW v \in Vaults, AddLocal(v) PROVE ListInv'
  BY <1>3 DEF AddLocal, Starts, Shown, Opens, Leaves
<1>4. ASSUME NEW v \in Vaults, Delete(v) PROVE ListInv'
  BY <1>4 DEF Delete, Starts, Shown, Listed
<1>5. ASSUME NEW v \in Vaults, Reconnect(v) PROVE ListInv'
  BY <1>5 DEF Reconnect, Starts, Shown, Listed
<1>6. ASSUME NEW v \in Vaults, NEW c \in Codes, ConnectNew(v, c) PROVE ListInv'
  BY <1>6 DEF ConnectNew, Starts, Shown, Opens, Leaves
<1>7. ASSUME NEW v \in Vaults, NEW c \in Codes, SetCode(v, c) PROVE ListInv'
  BY <1>7 DEF SetCode, Starts, Shown, Listed
<1>8. ASSUME SwitchSaves PROVE ListInv'
  BY <1>8 DEF SwitchSaves, SaveThrows, Deselects, Keeps, Ends, Goes
<1>9. ASSUME SwitchOpens PROVE ListInv'
  BY <1>9 DEF SwitchOpens, Opens, Goes, Ends
<1>10. ASSUME SwitchActivates PROVE ListInv'
  BY <1>10 DEF SwitchActivates, Goes
<1>11. ASSUME AddSaves PROVE ListInv'
  BY <1>11 DEF AddSaves, SaveThrows, Deselects, Keeps, Ends, Goes
<1>12. ASSUME SessionOpens PROVE ListInv'
  <2>1. /\ job'.at \in {"activate", "store", "enter"} /\ job'.vault = job.vault
        /\ UNCHANGED <<list, stored, unlisted>>
    <3>1. CASE job.op = "switch"
      BY <1>12, <3>1 DEF SessionOpens, Goes
    <3>2. CASE job.op = "new"
      BY <1>12, <3>2 DEF SessionOpens, Goes
    <3>3. CASE job.op \notin {"switch", "new"}
      BY <1>12, <3>3 DEF SessionOpens, Goes
    <3> QED BY <3>1, <3>2, <3>3
  <2>2. job.at = "session"
    BY <1>12 DEF SessionOpens
  <2> QED BY <2>1, <2>2
<1>13. ASSUME SessionFails PROVE ListInv'
  BY <1>13 DEF SessionFails, Ends
<1>14. ASSUME Enters PROVE ListInv'
  BY <1>14 DEF Enters, Goes
<1>15. ASSUME ListsEntered PROVE ListInv'
  <2>1. /\ job'.at \in {"idle", "reload"}
        /\ job'.at = "idle" => job' = Idle
        /\ UNCHANGED stored
    BY <1>15, ListedOrEnded DEF ListsEntered
  <2>2. ~unlisted' => list' = stored
    BY <1>15 DEF ListsEntered, ListVaults
  <2> QED BY <2>1, <2>2
<1>16. ASSUME Stores PROVE ListInv'
  BY <1>16 DEF Stores, Goes, Ends
<1>17. ASSUME ListsNew PROVE ListInv'
  BY <1>17 DEF ListsNew, ListVaults, Goes
<1>18. ASSUME Connects PROVE ListInv'
  BY <1>18 DEF Connects, ConnectVaultSyncIfActive, Ends
<1>19. ASSUME Erases PROVE ListInv'
  BY <1>19 DEF Erases, Deselects, Leaves, Ends, Listed
<1>20. ASSUME EraseRefused PROVE ListInv'
  BY <1>20 DEF EraseRefused, Ends
<1>21. ASSUME KeepsCode PROVE ListInv'
  BY <1>21 DEF KeepsCode, Goes
<1>22. ASSUME KeepRefused PROVE ListInv'
  BY <1>22 DEF KeepRefused, Ends
<1>23. ASSUME SelectNote PROVE ListInv'
  BY <1>23 DEF SelectNote, Shown, SaveThrows
<1>24. ASSUME AutosaveBegins PROVE ListInv'
  BY <1>24 DEF AutosaveBegins
<1>25. ASSUME AutosaveEnds PROVE ListInv'
  BY <1>25 DEF AutosaveEnds
<1>26. ASSUME ReloadsNotes PROVE ListInv'
  BY <1>26 DEF ReloadsNotes, Goes, Ends
<1>27. ASSUME Reload PROVE ListInv'
  BY <1>27 DEF Reload, ListVaults
<1>28. ASSUME ConnectFails PROVE ListInv'
  BY <1>28 DEF ConnectFails, ConnectSwallows, Ends
<1>29. ASSUME UNCHANGED vars PROVE ListInv'
  BY <1>29
<1> QED BY <1>1, <1>2, <1>3, <1>4, <1>5, <1>6, <1>7, <1>8, <1>9, <1>10, <1>11, <1>12,
     <1>13, <1>14, <1>15, <1>16, <1>17, <1>18, <1>19, <1>20, <1>21, <1>22, <1>23, <1>24,
     <1>25, <1>26, <1>27, <1>28, <1>29 DEF Next

(* Between two handlers the list is what vault-store.js holds, until the   *)
(* store refuses something.                                                *)
THEOREM ListIsStored == Spec => []ListMatchesStore
<1>1. TypeInv /\ ListInv => ListMatchesStore
  <2> SUFFICES ASSUME TypeInv, ListInv, job = Idle, ~unlisted PROVE list = stored
    BY DEF ListMatchesStore
  <2>1. \A v \in Vaults : list[v] = stored[v]
    BY DEF ListInv, Idle
  <2> QED BY <2>1 DEF TypeInv, TypeOK, Lists
<1> QED BY <1>1, TypeInit, TypeStep, ListInit, ListStep, PTL DEF Spec

-----------------------------------------------------------------------------
(* The vault is open everywhere, and the browser is connected to its room. *)
Settled == since \in {"entered", "beside"}
Home == fs = session /\ active = session
Linked == socket = list[session] /\ (list[session] # NoCode => room = list[session])

AtHome == Listed(session) \/ since = "entered" => Home
NotesHome == since = "entered" /\ ~overtaken => note \in {None, fs} /\ saving \in {None, fs}

(* Where a handler has not yet begun to change the vault.                  *)
Before == job.at \in {"idle", "open", "erase"} \/ (job.op = "switch" /\ job.at = "save")

(* Where a handler only changes a code, or connects again.                 *)
Coding == job.at = "keep" \/ (job.at = "connect" /\ job.op \in {"code", "reconnect"})

(* Where the session has the new vault.                                    *)
Inside == \/ job.at \in {"activate", "reload", "enter", "list", "store"}
          \/ job.at = "connect" /\ job.op \in {"boot", "switch", "add", "new"}

JobShape ==
  /\ job.at = "idle" => job = Idle
  /\ job.at = "keep" => job.op = "code"
  /\ job.at = "erase" => job.op = "delete"
  /\ job.at = "open" => job.op = "switch"
  /\ job.at = "save" => job.op \in {"switch", "add"}
  /\ job.at = "session" => job.op \in {"boot", "switch", "add", "new"}
  /\ job.at = "activate" => job.op = "switch"
  /\ job.at = "reload" => job.op \in {"boot", "switch", "add"}
  /\ job.at = "enter" => job.op \in {"boot", "add"}
  /\ job.at = "list" => job.op \in {"boot", "add", "new"}
  /\ job.at = "store" => job.op = "new"
  /\ job.at = "connect" => job.op \in {"boot", "switch", "add", "new", "code", "reconnect"}
  /\ job.op = "delete" => job.at = "erase"
  /\ job.op \in {"add", "new"} => since \in {"beside", "broken"}
  /\ job.op = "boot" => since = "closed"

(* Before the page is shown nothing is selected and no room is joined.     *)
Closed ==
  since = "closed" =>
    /\ job.op \in {"none", "boot"}
    /\ note = None /\ saving = None /\ room = NoCode /\ socket = NoCode

(* How far each handler has got; a switch must bring the page home also    *)
(* when something was broken before.                                       *)
Progress ==
  /\ Settled /\ (Before \/ Coding) => AtHome /\ NotesHome
  /\ since = "entered" /\ (Before \/ Coding) /\ (job.op = "delete" => job.vault # session)
       => Listed(session)
  /\ Settled /\ Before /\ Listed(session) => Linked
  /\ Settled /\ Coding /\ Listed(session) =>
       Linked \/ (job.op = "code" /\ job.vault = session /\ socket = NoCode)
  /\ Coding => list[job.vault] = job.code
  /\ job.at = "erase" => list[job.vault] = Absent
  /\ job.at = "session" \/ Inside \/ (job.op = "add" /\ job.at = "save") => fs = job.vault
  /\ Inside => session = job.vault
  /\ job.at \in {"reload", "connect"} /\ Inside => active = job.vault
  /\ job.at = "list" /\ job.op # "new" => active = job.vault
  /\ job.op = "switch" /\ job.at # "save" /\ ~overtaken => note = None /\ saving = None
  /\ job.op = "switch" => list[job.vault] = job.code
  /\ job.op \in {"boot", "add"} /\ job.at \in {"reload", "connect"} =>
       list[job.vault] = job.code
  /\ job.op = "new" /\ job.at = "list" => stored[job.vault] = job.code
  /\ job.op = "new" /\ job.at = "connect" /\ since # "broken" => list[job.vault] = job.code

PageInv == JobShape /\ Closed /\ Progress

LEMMA PageInit == Init => PageInv
BY DEF Init, PageInv, JobShape, Progress, Closed, Settled, Before, Coding, Inside, AtHome, Home,
   NotesHome, Linked, Listed, Idle

LEMMA PageStep == TypeInv /\ TypeInv' /\ PageInv /\ [Next]_vars => PageInv'
<1> SUFFICES ASSUME TypeInv, TypeInv', PageInv, [Next]_vars PROVE PageInv'
  OBVIOUS
<1> USE DEF PageInv, JobShape, Closed, Progress, Settled, Before, Coding, Inside,
     AtHome, Home, NotesHome, Linked, Listed, TypeInv, TypeOK, Lists, MaybeVault, Idle, open,
     link, notes, vars
<1>1. ASSUME NEW v \in Vaults, OpenPage(v) PROVE PageInv'
  BY <1>1 DEF OpenPage, Starts, Shown, Opens
<1>2. ASSUME NEW v \in Vaults, Switch(v) PROVE PageInv'
  BY <1>2 DEF Switch, Starts, Shown
<1>3. ASSUME NEW v \in Vaults, AddLocal(v) PROVE PageInv'
  BY <1>3 DEF AddLocal, Starts, Shown, Opens, Leaves
<1>4. ASSUME NEW v \in Vaults, Delete(v) PROVE PageInv'
  BY <1>4 DEF Delete, Starts, Shown
<1>5. ASSUME NEW v \in Vaults, Reconnect(v) PROVE PageInv'
  BY <1>5 DEF Reconnect, Starts, Shown
<1>6. ASSUME NEW v \in Vaults, NEW c \in Codes, ConnectNew(v, c) PROVE PageInv'
  BY <1>6 DEF ConnectNew, Starts, Shown, Opens, Leaves
<1>7. ASSUME NEW v \in Vaults, NEW c \in Codes, SetCode(v, c) PROVE PageInv'
  BY <1>7 DEF SetCode, Starts, Shown
<1>8. ASSUME SwitchSaves PROVE PageInv'
  BY <1>8 DEF SwitchSaves, SaveThrows, Deselects, Keeps, Ends, Goes
<1>9. ASSUME SwitchOpens PROVE PageInv'
  BY <1>9 DEF SwitchOpens, Opens, Goes, Ends
<1>10. ASSUME SwitchActivates PROVE PageInv'
  BY <1>10 DEF SwitchActivates, Goes
<1>11. ASSUME AddSaves PROVE PageInv'
  BY <1>11 DEF AddSaves, SaveThrows, Deselects, Keeps, Ends, Goes
<1>12. ASSUME SessionOpens PROVE PageInv'
  BY <1>12 DEF SessionOpens, Goes
<1>13. ASSUME SessionFails PROVE PageInv'
  <2>1. /\ job' = Idle
        /\ UNCHANGED <<open, active, list, stored, link, notes, unlisted>>
    BY <1>13 DEF SessionFails, Ends
  <2>2. CASE job.op = "boot"
    <3>1. UNCHANGED since
      BY <1>13, <2>2 DEF SessionFails
    <3> QED BY <2>1, <2>2, <3>1, <1>13 DEF SessionFails
  <2>3. CASE job.op # "boot"
    <3>1. since' = "broken"
      BY <1>13, <2>3 DEF SessionFails
    <3> QED BY <2>1, <3>1
  <2> QED BY <2>2, <2>3
<1>14. ASSUME Enters PROVE PageInv'
  BY <1>14 DEF Enters, Goes
<1>15. ASSUME ListsEntered PROVE PageInv'
  <2> USE ListedOrEnded
  <2>1. /\ job.at = "list" /\ job.op \in {"boot", "add"}
        /\ UNCHANGED <<open, session, active, stored, link, notes>>
    BY <1>15 DEF ListsEntered
  <2>2. CASE job' = Idle /\ since' = "broken"
    BY <2>1, <2>2
  <2>3. CASE /\ since' = since /\ job'.at = "reload" /\ job'.op = job.op
             /\ job'.vault = job.vault /\ job'.code = list'[job.vault]
    <3>1. JobShape'
      BY <2>1, <2>3
    <3>2. Progress'
      BY <2>1, <2>3
    <3>3. Closed'
      BY <2>1, <2>3
    <3> QED BY <3>1, <3>2, <3>3
  <2> QED BY <1>15, <2>2, <2>3
<1>16. ASSUME Stores PROVE PageInv'
  BY <1>16 DEF Stores, Goes, Ends
<1>17. ASSUME ListsNew PROVE PageInv'
  BY <1>17 DEF ListsNew, ListVaults, Goes
<1>18. ASSUME Connects PROVE PageInv'
  <2>1. /\ job.at = "connect" /\ job' = Idle
        /\ UNCHANGED <<open, session, active, list, stored, notes, unlisted>>
        /\ ConnectVaultSyncIfActive(job.vault, job.code)
    BY <1>18 DEF Connects, Ends
  <2>2. CASE job.op \in {"boot", "switch"}
    <3>1. since' = "entered" /\ active = job.vault /\ list[job.vault] = job.code
      BY <1>18, <2>1, <2>2 DEF Connects
    <3>2. Linked'
      BY <2>1, <2>2, <3>1 DEF ConnectVaultSyncIfActive
    <3> QED BY <2>1, <2>2, <3>1, <3>2
  <2>3. CASE job.op \in {"add", "new"}
    <3>1. since' = since /\ active = job.vault
      BY <1>18, <2>1, <2>3 DEF Connects
    <3>2. since # "broken" => Linked'
      BY <2>1, <2>3, <3>1 DEF ConnectVaultSyncIfActive
    <3> QED BY <2>1, <2>3, <3>1, <3>2
  <2>4. CASE job.op \in {"code", "reconnect"}
    <3>1. since' = since /\ list[job.vault] = job.code
      BY <1>18, <2>1, <2>4 DEF Connects
    <3>2. Settled /\ Listed(session) => Linked'
      BY <2>1, <2>4, <3>1 DEF ConnectVaultSyncIfActive
    <3> QED BY <2>1, <2>4, <3>1, <3>2
  <2> QED BY <2>1, <2>2, <2>3, <2>4
<1>19. ASSUME Erases PROVE PageInv'
  BY <1>19 DEF Erases, Deselects, Leaves, Ends
<1>20. ASSUME EraseRefused PROVE PageInv'
  BY <1>20 DEF EraseRefused, Ends
<1>21. ASSUME KeepsCode PROVE PageInv'
  BY <1>21 DEF KeepsCode, Goes
<1>22. ASSUME KeepRefused PROVE PageInv'
  BY <1>22 DEF KeepRefused, Ends
<1>23. ASSUME SelectNote PROVE PageInv'
  BY <1>23 DEF SelectNote, Shown, SaveThrows
<1>24. ASSUME AutosaveBegins PROVE PageInv'
  BY <1>24 DEF AutosaveBegins
<1>25. ASSUME AutosaveEnds PROVE PageInv'
  BY <1>25 DEF AutosaveEnds
<1>26. ASSUME ReloadsNotes PROVE PageInv'
  BY <1>26 DEF ReloadsNotes, Goes, Ends
<1>27. ASSUME Reload PROVE PageInv'
  BY <1>27 DEF Reload, ListVaults
<1>28. ASSUME ConnectFails PROVE PageInv'
  BY <1>28 DEF ConnectFails, ConnectSwallows, Ends
<1>29. ASSUME UNCHANGED vars PROVE PageInv'
  BY <1>29
<1> QED BY <1>1, <1>2, <1>3, <1>4, <1>5, <1>6, <1>7, <1>8, <1>9, <1>10, <1>11, <1>12,
     <1>13, <1>14, <1>15, <1>16, <1>17, <1>18, <1>19, <1>20, <1>21, <1>22, <1>23, <1>24,
     <1>25, <1>26, <1>27, <1>28, <1>29 DEF Next

LEMMA PageInvariance == Spec => [](TypeInv /\ PageInv)
BY TypeInit, TypeStep, PageInit, PageStep, PTL DEF Spec

(* Between two handlers file system, session and page have the same vault  *)
(* open, and the browser is connected to the room of its code or to none,  *)
(* for every set of vaults and codes, unless a handler failed half way or  *)
(* the vault was deleted.                                                  *)
THEOREM PageAlwaysAgrees == Spec => []PageAgrees
<1>1. TypeInv /\ PageInv => PageAgrees
  BY DEF PageAgrees, PageInv, Progress, Settled, Before, AtHome, Home, Linked, Listed, Idle
<1> QED BY <1>1, PageInvariance, PTL

(* While the page comes to its vaults by a start or a switch, an autosave  *)
(* writes and sends only to the vault of its note, and a peer's change     *)
(* comes from the room of the open vault, outside the window of a switch,  *)
(* a deletion and an autosave that the switch has overtaken.               *)
THEOREM NotesStayHome == Spec => []StaysHome
<1>1. TypeInv /\ PageInv => StaysHome
  <2> SUFFICES ASSUME TypeInv, PageInv, since = "entered"
               PROVE  /\ ~overtaken => \A n \in {note, saving} \ {None} :
                           n = fs /\ (CanSendForActiveVault /\ n = session => list[n] = room)
                      /\ socket # NoCode /\ ~Changing /\ job.op # "delete" => list[fs] = socket
    BY DEF StaysHome
  <2> USE DEF PageInv, JobShape, Progress, Settled, Before, Coding, AtHome, Home, NotesHome,
       Linked, Listed, Changing
  <2>1. job.op \notin {"add", "new", "boot"}
    OBVIOUS
  <2>2. CASE Before \/ Coding
    <3>1. ~overtaken => \A n \in {note, saving} \ {None} :
            n = fs /\ (CanSendForActiveVault /\ n = session => list[n] = room)
      BY <2>2 DEF CanSendForActiveVault
    <3>2. ASSUME socket # NoCode, job.op # "delete" PROVE list[fs] = socket
      BY <2>2, <3>2
    <3> QED BY <3>1, <3>2
  <2>3. CASE ~(Before \/ Coding)
    <3>1. Changing /\ job.op = "switch" /\ job.at # "save"
      BY <2>1, <2>3 DEF TypeInv, TypeOK, Idle
    <3> QED BY <3>1
  <2> QED BY <2>2, <2>3
<1> QED BY <1>1, PageInvariance, PTL
=============================================================================
