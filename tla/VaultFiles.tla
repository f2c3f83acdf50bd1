----------------------------- MODULE VaultFiles -----------------------------
(***************************************************************************)
(* What the browser's storage promises to the pages, also while the vault  *)
(* is being changed: a call takes effect at one instant or not at all, on  *)
(* the vault that is open when it is made or on the one that is open at    *)
(* that instant, and what has taken effect outlives the page.  A new file  *)
(* may be seen empty before its text is there.                             *)
(***************************************************************************)
CONSTANTS
  Places,   \* where files are kept: a virtual vault's entries or a directory
  Paths,
  Texts,
  Tasks,    \* tasks of the page that may call at the same time
  Missing,  \* no such file
  Empty     \* a file without text

VARIABLES
  files,    \* what each place holds
  open,     \* the places of the open vault: its entries, or its directory too
  calls     \* the call each task is making

vars == <<files, open, calls>>

Idle == [stage |-> "idle"]
Holdings == Texts \cup {Missing, Empty}

Init ==
  /\ files = [p \in Places |-> [f \in Paths |-> Missing]]
  /\ open = {}
  /\ calls = [t \in Tasks |-> Idle]

OpenVault(P) ==
  /\ open' = P
  /\ UNCHANGED <<files, calls>>

Call(t, op, f, x) ==
  /\ calls[t] = Idle
  /\ \E p \in open :
       calls' = [calls EXCEPT ![t] =
                   [stage |-> "called", op |-> op, place |-> p, path |-> f, text |-> x]]
  /\ UNCHANGED <<files, open>>

Appear(t) ==
  /\ calls[t].stage = "called" /\ calls[t].op = "write"
  /\ files[calls[t].place][calls[t].path] = Missing
  /\ files' = [files EXCEPT ![calls[t].place][calls[t].path] = Empty]
  /\ UNCHANGED <<open, calls>>

TakeEffect(t, p) ==
  LET call == calls[t]
      held == files[p][call.path] IN
  /\ call.stage = "called" /\ p \in open \cup {call.place}
  /\ files' = [files EXCEPT ![p][call.path] =
                 CASE call.op = "write" -> call.text
                   [] call.op = "delete" -> Missing
                   [] OTHER -> held]
  /\ calls' = [calls EXCEPT ![t].stage = "done",
                            ![t].text = IF call.op = "read" THEN held ELSE @]
  /\ UNCHANGED open

Fail(t) ==
  /\ calls[t].stage = "called"
  /\ calls' = [calls EXCEPT ![t].stage = "failed"]
  /\ UNCHANGED <<files, open>>

Return(t) ==
  /\ calls[t].stage \in {"done", "failed"}
  /\ calls' = [calls EXCEPT ![t] = Idle]
  /\ UNCHANGED <<files, open>>

Reload ==
  /\ open' = {}
  /\ calls' = [t \in Tasks |-> Idle]
  /\ UNCHANGED files

Next ==
  \/ \E P \in SUBSET Places : OpenVault(P)
  \/ \E t \in Tasks :
       \/ \E f \in Paths, x \in Holdings, op \in {"write", "delete", "read"} : Call(t, op, f, x)
       \/ \E p \in Places : TakeEffect(t, p)
       \/ Appear(t) \/ Fail(t) \/ Return(t)
  \/ Reload

Spec == Init /\ [][Next]_vars
=============================================================================
