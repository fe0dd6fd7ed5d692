----------------------------- MODULE MCIndexStore -----------------------------
(* Two processes around one index file.                                     *)
EXTENDS IndexStore, TLC

CONSTANTS n1, n2, srv, cli

MCProcs == {srv, cli}
MCClis == {cli}
\* One node is enough where entries do not interact; two where a save can keep
\* one and lose the other.
OneNode == {n1}
TwoNodes == {n1, n2}
NoneExcluded == {}
\* Both processes run the same binary.
SameSchema == srv :> 1 @@ cli :> 1
\* One of them was left running across an upgrade.
OldAndNew == srv :> 1 @@ cli :> 2
=============================================================================
