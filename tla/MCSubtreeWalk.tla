---------------------------- MODULE MCSubtreeWalk ----------------------------
(* Trees of six nodes: two branches of different depth; one whose first level *)
(* has a single parent; and one whose first level has more branches than are  *)
(* fetched at once.                                                           *)
EXTENDS SubtreeWalk, TLC

CONSTANTS root, a, b, c, d, e, f

MCNodes == {a, b, c, d, e, f}
Wide == root :> <<a, b>> @@ a :> <<c, d>> @@ b :> <<e>> @@ e :> <<f>>
        @@ [n \in {c, d, f} |-> <<>>]
Narrow == root :> <<a>> @@ a :> <<b, c>> @@ b :> <<d>> @@ c :> <<e, f>>
          @@ [n \in {d, e, f} |-> <<>>]
Bushy == root :> <<a, b, c>> @@ a :> <<d>> @@ b :> <<e>> @@ c :> <<f>>
         @@ [n \in {d, e, f} |-> <<>>]
MCTrees == {Wide, Narrow, Bushy}
=============================================================================
