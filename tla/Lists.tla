-------------------------------- MODULE Lists ---------------------------------
(* What SelectSeq does, with a set for its test and the recursion in sight,    *)
(* and a stable sort, as sort_by is.                                           *)
EXTENDS Integers, Sequences

\* The elements of s that are in T, in their order.
Keep(s, T) ==
  LET kept[i \in 0..Len(s)] ==
        IF i = 0 THEN <<>>
        ELSE IF s[i] \in T THEN Append(kept[i - 1], s[i]) ELSE kept[i - 1]
  IN kept[Len(s)]

\* s by key, the elements of one key in the order they had.
SortedBy(s, key) ==
  LET sorted[i \in 0..Len(s)] ==
        IF i = 0 THEN <<>>
        ELSE LET upTo == {x \in DOMAIN key : key[x] <= key[s[i]]}
             IN Keep(sorted[i - 1], upTo) \o <<s[i]>> \o Keep(sorted[i - 1], DOMAIN key \ upTo)
  IN sorted[Len(s)]
=============================================================================
