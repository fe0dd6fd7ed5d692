---------------------------- MODULE MCListingCache ----------------------------
(* A node at the top and one below it, or not there yet: every kind of write, *)
(* by two handlers at once.                                                   *)
EXTENDS ListingCache, TLC

CONSTANTS a, c, r1, w1, w2

MCNodes == {a, c}
Pair == a :> Root @@ c :> a

Handled(kinds) == {[kind |-> k, handled |-> TRUE] : k \in kinds}
Bare(kinds) == {[kind |-> k, handled |-> FALSE] : k \in kinds}
\* Deletes and moves by the handlers that drop listings before and after them;
\* creates and edits by the workflows that leave it to the request funnel.
Everything == Handled({"move", "delete"}) \cup Bare({"create", "edit"})
=============================================================================
