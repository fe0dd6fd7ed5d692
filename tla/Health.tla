------------------------------- MODULE Health -------------------------------
(* The operation log (utils/op_log.rs) and the warning that create_node draws  *)
(* from it (server/mod.rs). Concurrent calls enter it as they finish.          *)
EXTENDS Naturals, Sequences, SequencesExt, FiniteSetsExt

CONSTANTS
  Names,       \* tools other than create_node
  Capacity,    \* of the ring
  Window,      \* how long a failure is warned of
  LastTick     \* bound: the end of the clock

VARIABLES
  log,      \* the ring, oldest first
  clock,
  latest    \* history: the last finish of each tool

healthVars == <<log, clock, latest>>

ASSUME HealthBounds == Capacity \in Nat \ {0} /\ Window \in Nat /\ LastTick \in Nat
ASSUME NamesAssumption == "create_node" \notin Names

Named == Names \cup {"create_node"}
Never == [ok |-> TRUE, at |-> 0, ever |-> FALSE]

HealthInit ==
  /\ log = <<>> /\ clock = 0
  /\ latest = [t \in Named |-> Never]

-----------------------------------------------------------------------------

\* OpLog::append
Appended(e) == Append(IF Len(log) = Capacity THEN Tail(log) ELSE log, e)

\* An error is a failure, and so is a result flagged is_error: an insertion that
\* stopped half way, a transaction rolled back.
Committed(outcome) == outcome = "ok"

Finish(tool, outcome) ==
  /\ log' = Appended([tool |-> tool, ok |-> Committed(outcome), at |-> clock])
  /\ latest' = [latest EXCEPT ![tool] = [ok |-> outcome = "ok", at |-> clock, ever |-> TRUE]]
  /\ UNCHANGED clock

Pass ==
  /\ clock < LastTick
  /\ clock' = clock + 1
  /\ UNCHANGED <<log, latest>>

HealthNext ==
  \/ \E tool \in Named, outcome \in {"ok", "flagged", "error"} : Finish(tool, outcome)
  \/ Pass

HealthSpec == HealthInit /\ [][HealthNext]_healthVars

-----------------------------------------------------------------------------
(* What is read from the log.                                                  *)

Failures == {i \in DOMAIN log : ~log[i].ok}

\* Mutant: the newest failure, whatever came after it.
NewestFailure == IF Failures = {} THEN {} ELSE {log[Max(Failures)]}
\* last_unrecovered_failure: the newest failure, unless its tool has succeeded since.
Unrecovered ==
  LET newest == Max(Failures)
      since == {i \in DOMAIN log : i > newest /\ log[i].tool = log[newest].tool /\ log[i].ok}
  IN IF Failures = {} \/ since # {} THEN {} ELSE {log[newest]}

\* degraded_warning_if_recent_failure
Warning == {e \in Unrecovered : clock - e.at <= Window /\ e.tool # "create_node"}

-----------------------------------------------------------------------------
(* Properties.                                                                 *)

\* A warning names a tool whose last finished call did not commit, within the
\* window; and the newest call of all, when it is such a call of another tool than
\* create_node, is warned of. The ring never hides the one nor forges the other.
WarningStands ==
  /\ \A e \in Warning :
       /\ latest[e.tool].ever /\ ~latest[e.tool].ok
       /\ latest[e.tool].at = e.at /\ clock - e.at <= Window
  /\ \A tool \in Names :
       /\ latest[tool].ever /\ ~latest[tool].ok /\ clock - latest[tool].at <= Window
       /\ log # <<>> /\ Last(log).tool = tool
       => \E e \in Warning : e.tool = tool
=============================================================================
