----------------------------- MODULE SubtreeWalk -----------------------------
(* One walk over a subtree (api/client.rs): level by level, a few child        *)
(* listings in flight at a time, branches that failed retried in waves, and    *)
(* ended early by the node cap, a deadline or a cancel. Each fetch goes down   *)
(* the request path and comes back with the children, an abort or an error.    *)
EXTENDS Integers, Sequences, FiniteSets, SequencesExt, Lists

CONSTANTS
  Nodes, Root,     \* Root: the node asked for, or the workspace
  Trees,           \* trees to walk: [Nodes \cup {Root} -> sequences of children]
  Entries,         \* "node": Root is a node and part of the answer; "top": not
  MaxDepth,
  Limits,          \* node caps to walk with
  Width,           \* fetches in flight (FetchControls::concurrency)
  Patience,        \* the values FetchControls.patient may have
  Aborts           \* what may end the walk: subset of {"cancelled", "timeout"}

ASSUME WalkAssumption ==
  /\ Root \notin Nodes
  /\ Trees \subseteq [Nodes \cup {Root} -> Seq(Nodes)]
  /\ Entries \subseteq {"node", "top"} /\ Patience \subseteq BOOLEAN
  /\ Aborts \subseteq {"cancelled", "timeout"}
  /\ MaxDepth \in Nat /\ Limits \subseteq Nat \ {0} /\ Width \in Nat \ {0}

\* A node has one parent_id, and is listed once.
ASSUME TreesAreTrees ==
  \A t \in Trees : \A p, q \in Nodes \cup {Root} :
    \A i \in DOMAIN t[p], j \in DOMAIN t[q] : t[p][i] = t[q][j] => p = q /\ i = j

VARIABLES
  tree, entry, patient, limit,  \* the input
  raised,      \* the aborts that have occurred
  pc,
  depth, level, out,     \* of fetch_descendants
  todo,        \* branches not answered yet; the first Width of them in flight
  arrived,     \* next_level, in order of completion
  failedNow,   \* level_skipped; while a wave runs, what failed in it
  before,      \* how many branches the wave in progress was given; 0: none yet
  skipped,     \* skipped_branches
  reason, anchor, reported   \* the outcome; reported: its skipped_branches

input == <<tree, entry, patient, limit>>
outcome == <<reason, anchor, reported>>
vars == <<input, raised, pc, depth, level, out, todo, arrived, failedNow, before,
          skipped, outcome>>

NoAnchor == "none"
Reasons == {"complete", "node_limit", "timeout", "cancelled", "skipped_branches",
            "error"}

\* FetchControls::status looks at the cancel before the deadline.
Status == IF "cancelled" \in raised THEN {"cancelled"}
          ELSE IF "timeout" \in raised THEN {"timeout"} ELSE {}

ParentOf(t, n) == CHOOSE p \in DOMAIN t : n \in ToSet(t[p])
AnchorOf(n) == IF ParentOf(tree, n) = Root /\ entry = "top" THEN NoAnchor
               ELSE ParentOf(tree, n)
Take(s, n) == SubSeq(s, 1, IF n < Len(s) THEN n ELSE Len(s))
InFlight == ToSet(Take(todo, Width))
Without(s, x) == Keep(s, Nodes \ {x})

\* Mutant: sibling blocks stay in completion order.
CompletionOrder(next, parents) == next
\* order_level_by_parent: a stable sort by the parent's place in its level.
OrderLevel(next, parents) ==
  IF Len(parents) < 2 THEN next
  ELSE FlattenSeq([i \in 1..Len(parents) |->
         Keep(next, {n \in Nodes : ParentOf(tree, n) = parents[i]})])

-----------------------------------------------------------------------------
Init ==
  /\ tree \in Trees /\ entry \in Entries /\ patient \in Patience /\ limit \in Limits
  /\ raised = {} /\ pc = "start"
  /\ depth = 0 /\ level = <<>> /\ out = <<>>
  /\ todo = <<>> /\ arrived = <<>> /\ failedNow = <<>> /\ before = 0
  /\ skipped = <<>>
  /\ reason = "complete" /\ anchor = NoAnchor /\ reported = {}

\* A cancel_all, or the deadline passes.
Raise(a) ==
  /\ a \in Aborts \ raised
  /\ raised' = raised \cup {a}
  /\ UNCHANGED <<input, pc, depth, level, out, todo, arrived, failedNow, before,
                 skipped, outcome>>

\* TruncationOutcome::stopped, with_skipped.
\* Mutant: dropped branches do not make a walk partial.
FoldForgotten(r, dropped) == r
Folded(r, dropped) == IF r = "complete" /\ dropped # <<>> THEN "skipped_branches" ELSE r

End(r, a, dropped) ==
  /\ pc' = "done"
  /\ reason' = Folded(r, dropped)
  /\ anchor' = IF r = "complete" /\ dropped # <<>> THEN dropped[1] ELSE a
  /\ reported' = ToSet(dropped)

-----------------------------------------------------------------------------
(* get_subtree_with_controls: the root and its children.                     *)

RootAnchor == IF entry = "node" THEN Root ELSE NoAnchor

Start ==
  /\ pc = "start"
  /\ IF Status # {} THEN \E r \in Status : End(r, RootAnchor, <<>>)
     ELSE pc' = (IF entry = "node" THEN "root" ELSE "children") /\ UNCHANGED outcome
  /\ UNCHANGED <<input, raised, depth, level, out, todo, arrived, failedNow, before,
                 skipped>>

RootRead ==
  /\ pc = "root"
  /\ \/ /\ out' = <<Root>>
        /\ IF limit <= 1 THEN End("node_limit", Root, <<>>)
           ELSE pc' = "rooted" /\ UNCHANGED outcome
     \/ End("error", NoAnchor, <<>>) /\ UNCHANGED out
  /\ UNCHANGED <<input, raised, depth, level, todo, arrived, failedNow, before, skipped>>

\* An abort while the root or its children are read, or found in between.
StopAtRoot ==
  /\ pc \in {"root", "rooted", "children"}
  /\ \E r \in raised : End(r, RootAnchor, <<>>)
  /\ UNCHANGED <<input, raised, depth, level, out, todo, arrived, failedNow, before,
                 skipped>>

CheckedRoot ==
  /\ pc = "rooted" /\ Status = {}
  /\ pc' = "children"
  /\ UNCHANGED <<input, raised, depth, level, out, todo, arrived, failedNow, before,
                 skipped, outcome>>

RootChildren ==
  /\ pc = "children"
  /\ \/ pc' = "level" /\ level' = tree[Root] /\ UNCHANGED outcome
     \/ End("error", NoAnchor, <<>>) /\ UNCHANGED level
  /\ UNCHANGED <<input, raised, depth, out, todo, arrived, failedNow, before, skipped>>

-----------------------------------------------------------------------------
(* fetch_descendants                                                         *)

Descending == depth < MaxDepth /\ level # <<>>

\* The level joins the answer; at the cap, or after an abort, the walk ends
\* without what earlier levels skipped.
Accumulate ==
  /\ pc = "level" /\ Descending
  /\ out' = out \o Take(level, limit - Len(out))
  /\ IF Len(out) + Len(level) > limit
     THEN /\ End("node_limit", AnchorOf(level[limit - Len(out) + 1]), <<>>)
          /\ UNCHANGED todo
     ELSE IF Status # {}
     THEN /\ \E r \in Status : End(r, AnchorOf(level[1]), <<>>)
          /\ UNCHANGED todo
     ELSE pc' = "fetch" /\ todo' = level /\ UNCHANGED outcome
  /\ arrived' = <<>> /\ failedNow' = <<>>
  /\ UNCHANGED <<input, raised, depth, level, before, skipped>>

\* The walk stops in the middle of a level. anchors: what it may name.
StopMidLevel(r, anchors, next, failed) ==
  /\ out' = out \o Take(OrderLevel(next, level), limit - Len(out))
  /\ \E a \in IF anchors = {} THEN {level[1]} ELSE anchors :
       End(r, a, skipped \o failed)

\* After an answer: the cap, then an abort.
GoOn(id, next, failed) ==
  LET left == Without(todo, id) IN
  /\ IF Len(out) + Len(next) >= limit
     THEN StopMidLevel("node_limit", ToSet(left), next, failed)
     ELSE IF Status # {}
     THEN \E r \in Status : StopMidLevel(r, ToSet(left), next, failed)
     ELSE pc' = "fetch" /\ UNCHANGED <<out, outcome>>
  /\ todo' = left
  /\ arrived' = next /\ failedNow' = failed
  /\ UNCHANGED <<input, raised, depth, level, before, skipped>>

Arrive(id) == pc = "fetch" /\ id \in InFlight /\ GoOn(id, arrived \o tree[id], failedNow)
Fail(id) == pc = "fetch" /\ id \in InFlight /\ GoOn(id, arrived, Append(failedNow, id))

FetchAborted(id) ==
  /\ pc = "fetch" /\ id \in InFlight
  /\ \E r \in raised : StopMidLevel(r, {id}, arrived, failedNow)
  /\ UNCHANGED <<input, raised, depth, level, todo, arrived, failedNow, before, skipped>>

\* Every branch answered: recover the failed ones, or descend.
LevelFetched ==
  /\ pc = "fetch" /\ todo = <<>>
  /\ IF failedNow # <<>>
     THEN pc' = "wave" /\ before' = 0 /\ UNCHANGED <<level, depth>>
     ELSE /\ pc' = "level" /\ depth' = depth + 1
          /\ level' = OrderLevel(arrived, level)
          /\ UNCHANGED before
  /\ UNCHANGED <<input, raised, out, todo, arrived, failedNow, skipped, outcome>>

-----------------------------------------------------------------------------
(* recover_skipped_branches, retry_skipped_branches                          *)

\* An aborted walk, and one whose deadline the open window outlasts, retry nothing.
WaveSkipped ==
  /\ pc = "wave" /\ (Status # {} \/ "timeout" \in Aborts)
  /\ pc' = "waveFetch"
  /\ UNCHANGED <<input, raised, depth, level, out, todo, arrived, failedNow, before,
                 skipped, outcome>>

\* An open window is slept out; the sleep heeds neither cancel nor deadline.
WaveWaits ==
  /\ pc = "wave" /\ Status = {}
  /\ pc' = "waveSleep"
  /\ UNCHANGED <<input, raised, depth, level, out, todo, arrived, failedNow, before,
                 skipped, outcome>>

WaveStarts ==
  /\ pc = "waveSleep" \/ (pc = "wave" /\ Status = {})
  /\ pc' = "waveFetch"
  /\ IF Status # {} THEN UNCHANGED <<todo, failedNow>>
     ELSE todo' = failedNow /\ failedNow' = <<>>
  /\ UNCHANGED <<input, raised, depth, level, out, arrived, before, skipped, outcome>>

\* Any error, an abort included, leaves the branch among the failed.
WaveAnswer(id) ==
  /\ pc = "waveFetch" /\ id \in InFlight
  /\ todo' = Without(todo, id)
  /\ \/ arrived' = arrived \o tree[id] /\ UNCHANGED failedNow
     \/ failedNow' = Append(failedNow, id) /\ UNCHANGED arrived
  /\ UNCHANGED <<input, raised, pc, depth, level, out, before, skipped, outcome>>

\* Mutant: a patient walk retries as long as anything is missing.
TirelessWave == failedNow # <<>> /\ patient /\ Status = {}
\* A patient walk goes on while its waves recover something; of the first wave,
\* the one every walk makes, that is not asked.
AnotherWave ==
  /\ failedNow # <<>> /\ patient /\ Status = {}
  /\ before = 0 \/ Len(failedNow) < before

\* Mutant: what the earlier levels skipped is overwritten.
OnlyLastSkipped == failedNow
SkippedSoFar == skipped \o failedNow

WaveEnds ==
  /\ pc = "waveFetch" /\ todo = <<>>
  /\ IF AnotherWave
     THEN /\ pc' = "wave" /\ before' = Len(failedNow)
          /\ UNCHANGED <<depth, level, arrived, failedNow, skipped>>
     ELSE /\ pc' = "level" /\ depth' = depth + 1
          /\ level' = OrderLevel(arrived, level)
          /\ skipped' = SkippedSoFar
          /\ arrived' = <<>> /\ failedNow' = <<>> /\ before' = 0
  /\ UNCHANGED <<input, raised, out, todo, outcome>>

\* The last level is not fetched below; it may not fit.
Finish ==
  /\ pc = "level" /\ ~Descending
  /\ out' = out \o Take(level, limit - Len(out))
  /\ IF Len(out) + Len(level) > limit
     THEN End("node_limit", AnchorOf(level[limit - Len(out) + 1]), skipped)
     ELSE End("complete", NoAnchor, skipped)
  /\ UNCHANGED <<input, raised, depth, level, todo, arrived, failedNow, before, skipped>>

-----------------------------------------------------------------------------
WalkStep ==
  \/ Start \/ RootRead \/ StopAtRoot \/ CheckedRoot \/ RootChildren
  \/ Accumulate \/ LevelFetched \/ Finish
  \/ \E id \in Nodes : Arrive(id) \/ Fail(id) \/ FetchAborted(id) \/ WaveAnswer(id)
  \/ WaveSkipped \/ WaveWaits \/ WaveStarts \/ WaveEnds

Done == pc = "done" /\ UNCHANGED vars
Next == WalkStep \/ (\E a \in Aborts : pc # "done" /\ Raise(a)) \/ Done

Spec == Init /\ [][Next]_vars
FairSpec == Spec /\ WF_vars(WalkStep)

-----------------------------------------------------------------------------
(* The answer a walk should give: breadth first, each level in the order of  *)
(* its parents and their children.                                           *)

\* The children of the nodes of a level, in the order of the level.
NextLevel(t, above) == FlattenSeq([i \in 1..Len(above) |-> t[above[i]]])
LevelsOf(t) ==
  LET below[d \in 0..MaxDepth] ==
        IF d = 0 THEN t[Root] ELSE NextLevel(t, below[d - 1])
  IN below
\* The first n levels, with the entry itself when it is a node.
FirstLevels(t, e, n) ==
  (IF e = "node" THEN <<Root>> ELSE <<>>) \o FlattenSeq([d \in 1..n |-> LevelsOf(t)[d - 1]])
Whole == FirstLevels(tree, entry, MaxDepth + 1)

\* The nodes below a set of nodes: the least set with the children of both.
ChildrenOf(t, S) == UNION {ToSet(t[n]) : n \in S}
Below(t, S) == {n \in Nodes : \A C \in SUBSET Nodes : ChildrenOf(t, S \cup C) \subseteq C => n \in C}

(* Every variable has its type. *)
TypeOK ==
  /\ tree \in Trees /\ entry \in Entries /\ patient \in Patience /\ limit \in Limits
  /\ raised \subseteq Aborts
  /\ pc \in {"start", "root", "rooted", "children", "level", "fetch", "wave",
             "waveSleep", "waveFetch", "done"}
  /\ depth \in 0..MaxDepth
  /\ {level, todo, arrived, failedNow, skipped} \subseteq Seq(Nodes)
  /\ out \in Seq(Nodes \cup {Root}) /\ Len(out) <= limit
  /\ before \in Nat
  /\ reason \in Reasons /\ anchor \in Nodes \cup {Root, NoAnchor}
  /\ reported \subseteq Nodes

(* A walk that says it is complete has brought every node within its depth    *)
(* exactly once, whatever failed and was recovered on the way                 *)
(* (fetch_descendants, with_skipped).                                         *)
CompleteIsWhole == pc = "done" /\ reason = "complete" => out = Whole

(* A walk that reached its end with branches missing lacks exactly the nodes  *)
(* below the branches it names, so that walking these again makes it whole    *)
(* (recover_skipped_branches, SubtreeFetch::skipped_branches).                *)
SkippedAccountsForAll ==
  pc = "done" /\ reason = "skipped_branches" =>
    ToSet(Whole) \ ToSet(out) = Below(tree, reported) \cap ToSet(Whole)

(* However a walk ends, what it returns stands in document order and holds no *)
(* node twice, though listings arrive in any order and branches late          *)
(* (order_level_by_parent).                                                   *)
DocumentOrder ==
  LET place(n) == CHOOSE i \in DOMAIN Whole : Whole[i] = n
  IN pc = "done" =>
       /\ ToSet(out) \subseteq ToSet(Whole)
       /\ \A i, j \in DOMAIN out : i < j => place(out[i]) < place(out[j])

(* Every walk ends, a patient one too, whatever branches keep failing         *)
(* (recover_skipped_branches).                                                *)
WalkEnds == <>(pc = "done")

=============================================================================
