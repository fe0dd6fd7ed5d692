-------------------------------- MODULE Reach ---------------------------------
(* What is reached from some nodes of a graph.                                 *)
EXTENDS Integers, FiniteSets

\* next: node |-> the nodes one step further. No chain is longer than the nodes
\* are many.
Reached(next, from) ==
  LET upTo[k \in 0..Cardinality(DOMAIN next)] ==
        IF k = 0 THEN from
        ELSE LET near == upTo[k - 1] IN near \cup UNION {next[m] : m \in near}
  IN upTo[Cardinality(DOMAIN next)]
=============================================================================
