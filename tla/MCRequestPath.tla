--------------------------- MODULE MCRequestPath ---------------------------
(* A guarded call with a deadline beside one with neither.                  *)
EXTENDS RequestPath, TLC

CONSTANTS reader, mover, Unbounded, Bare

MCTasks == {reader, mover}
MCGuarded == {reader}
MCBudget == reader :> 3 @@ mover :> Unbounded
MCHints == {0, 2}
\* At the halved rate the bucket is full again when this window closes, as it is
\* by default after 4 seconds (20 tokens, 10 per second, halved).
LongWindow == {4}
=============================================================================
