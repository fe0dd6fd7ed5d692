------------------------------ MODULE AtomicBatch ------------------------------
(***************************************************************************)
(* What the transaction tool promises (run_transaction of                  *)
(* src/src/workflows.rs): a batch of writes lands whole or leaves the      *)
(* outline as it was, unless something it declares it cannot undo went     *)
(* wrong on the way.  A batch that creates may besides leave nodes nobody  *)
(* asked for: the client posts a create again when its reply is lost, and  *)
(* a batch neither sees the first copy nor undoes it.                      *)
(***************************************************************************)
CONSTANT Trees

VARIABLES
  committed,  \* the outline, as it was and as the batch leaves it
  goal,       \* the outline with every operation of the batch carried out
  creates,    \* the batch has a create
  extra,      \* copies of created nodes are left
  status

vars == <<committed, goal, creates, extra, status>>

Init ==
  /\ committed \in Trees /\ goal \in Trees
  /\ creates \in BOOLEAN /\ extra = FALSE
  /\ status = "open"

Commit ==
  /\ status = "open"
  /\ status' = "applied" /\ committed' = goal
  /\ extra' \in {FALSE, creates}
  /\ UNCHANGED <<goal, creates>>

Abort ==
  /\ status = "open"
  /\ status' = "rolledBack"
  /\ extra' \in {FALSE, creates}
  /\ UNCHANGED <<committed, goal, creates>>

Break ==
  /\ status = "open"
  /\ status' = "broken" /\ committed' \in Trees
  /\ extra' \in {FALSE, creates}
  /\ UNCHANGED <<goal, creates>>

Next == Commit \/ Abort \/ Break

Spec == Init /\ [][Next]_vars
=============================================================================
