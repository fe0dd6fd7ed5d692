------------------------------ MODULE Ancestry ------------------------------
(* What the program computes from parent ids: the paths and scopes of the name *)
(* index, the subtrees kept out of its file (utils/name_index.rs), the paths   *)
(* of a walk (node_paths.rs) and its export (subtree.rs). The index holds the  *)
(* parent each node had when it was last read, so it may disagree with the     *)
(* outline, lack a node, and even hold a cycle.                                *)
EXTENDS Integers, FiniteSets, Sequences, SequencesExt, FiniteSetsExt, Lists, Reach

CONSTANTS
  Points,     \* the nodes
  Base,       \* the parent of a top-level node
  Away,       \* of a node that the index does not hold
  Tokens,     \* the nodes named by WORKFLOWY_INDEX_EXCLUDE_SUBTREES
  HopCap      \* how far the index follows parents (32 in the code)

VARIABLES
  above,    \* node -> its parent upstream
  noted     \* node -> its parent in the index, or Away

ancestryVars == <<above, noted>>

ASSUME AncestryConstants ==
  /\ IsFiniteSet(Points) /\ Base \notin Points /\ Away \notin Points /\ Base # Away
  /\ Tokens \subseteq Points /\ HopCap \in Nat

-----------------------------------------------------------------------------
(* Chains. A record is a function to Points \cup {Base, Away}.                 *)

Held(f) == {n \in Points : f[n] # Away}
\* What lies above a node, as far as f tells: parents of parents. The last of
\* them may not be held; in a cycle a node is above itself.
Up(f, n) == Reached([m \in Points |-> {f[m]} \cap Points], {f[n]} \cap Points)

\* NameIndex::path_of: at most HopCap + 1 entries, and no other guard.
IndexPath(f, n) ==
  LET Climb[k \in 0 .. HopCap] ==
        IF k = 0 THEN <<n>>
        ELSE LET below == Climb[k - 1]
                 p == f[Last(below)]
             IN IF Len(below) = k /\ p \in Held(f) THEN Append(below, p) ELSE below
  IN IF n \in Held(f) THEN Reverse(Climb[HopCap]) ELSE <<>>

\* Mutant: the entries of the path.
IsOnPath(f, n, a) == Contains(IndexPath(f, n), a)
\* NameIndex::is_descendant_of: the parents of at most HopCap + 1 entries.
IsDescendantOf(f, n, a) ==
  LET path == IndexPath(f, n)
  IN \E i \in DOMAIN path : f[path[i]] = a

\* build_node_path_with_map: up to a node that is absent or was seen.
NodePath(f, n) ==
  LET Climb[k \in 0 .. Cardinality(Points)] ==
        IF k = 0 THEN <<>>
        ELSE LET below == Climb[k - 1]
                 p == IF below = <<>> THEN n ELSE f[Last(below)]
             IN IF p \in Held(f) /\ ~Contains(below, p) THEN Append(below, p) ELSE below
  IN Reverse(Climb[Cardinality(Points)])

(* excluded_ids: down from the nodes that match a token or name one as their   *)
(* parent, over nodes not yet taken.                                           *)

\* Mutant: down from the nodes that match a token.
SeedsThemselves(f) == Held(f) \cap Tokens
Seeds(f) == {n \in Held(f) : n \in Tokens \/ f[n] \in Tokens}

ExcludedIds(f) == Reached([m \in Points |-> {n \in Held(f) : f[n] = m}], Seeds(f))

(* The lines of an export: a node of the walk and its depth, a node before its *)
(* children, siblings in the order of the walk. No tree is deeper than the     *)
(* nodes are many.                                                             *)
Lines(f, walk, root) ==
  LET below[room \in 0 .. Cardinality(Points)] ==
        [n \in Points |->
           IF room = 0 THEN <<>>
           ELSE LET kids == Keep(walk, {m \in Points : f[m] = n})
                IN <<[node |-> n, depth |-> Cardinality(Points) - room]>>
                   \o FlattenSeq([i \in DOMAIN kids |-> below[room - 1][kids[i]]])]
  IN below[Cardinality(Points)][root]

-----------------------------------------------------------------------------
(* The outline and the index.                                                  *)

AncestryInit ==
  /\ above = [n \in Points |-> Base]
  /\ noted = [n \in Points |-> Away]

\* Anyone moves a node, not under itself.
Rehang(n, p) ==
  /\ p # n /\ (p \in Points => n \notin Up(above, p))
  /\ above' = [above EXCEPT ![n] = p]
  /\ UNCHANGED noted

\* ingest of one node; a redundant one changes nothing, whatever the parent.
Note(n) ==
  /\ noted' = [noted EXCEPT ![n] = above[n]]
  /\ UNCHANGED above

\* invalidate_node
Unnote(n) ==
  /\ noted' = [noted EXCEPT ![n] = Away]
  /\ UNCHANGED above

AncestryNext == \E n \in Points : \/ \E p \in Points \cup {Base} : Rehang(n, p)
                                  \/ Note(n)
                                  \/ Unnote(n)

AncestrySpec == AncestryInit /\ [][AncestryNext]_ancestryVars

AncestryTypeOK ==
  /\ above \in [Points -> Points \cup {Base}]
  /\ noted \in [Points -> Points \cup {Base, Away}]

-----------------------------------------------------------------------------
(* Properties.                                                                 *)

\* Every node of the index on whose recorded chain an excluded root lies, though
\* the root itself be absent or the chain a cycle, is kept out of the file, and no
\* other is.
ExclusionFollowsChains ==
  ExcludedIds(noted) = {n \in Held(noted) : ({n} \cup Up(noted, n)) \cap Tokens # {}}

\* An export has one line for each node of the walk, and a line's parent is the
\* last one before it of less depth.
ExportKeepsTree(root) ==
  LET nodes == {n \in Points : root \in {n} \cup Up(above, n)}
      lines == Lines(above, SetToSeq(nodes), root)
  IN /\ Len(lines) = Cardinality(nodes)
     /\ \A i \in 2 .. Len(lines) :
          LET before == {j \in 1 .. i - 1 : lines[j].depth < lines[i].depth}
          IN lines[Max(before)].node = above[lines[i].node]

\* What is computed from one set of parents agrees. Where no cycle is noted, a path
\* of the index is the path of a walk of the same nodes, up to the cap; the scope
\* filter accepts nothing that is not above, and up to the cap all that is. A walk's
\* path names nothing twice. An export keeps the tree.
PathsAgree ==
  /\ \A n \in Held(noted) :
       LET path == IndexPath(noted, n)
           whole == NodePath(noted, n)
           up == Up(noted, n)
           scopes == {a \in Points : IsDescendantOf(noted, n, a)}
       IN /\ IsInjective(whole)
          /\ (\A m \in {n} \cup up : m \notin Up(noted, m))
               => IsSuffix(path, whole) /\ (Len(path) <= HopCap => path = whole)
          /\ scopes \subseteq up
          /\ Len(path) <= HopCap => scopes = up
  /\ \A root \in Points : ExportKeepsTree(root)
=============================================================================
