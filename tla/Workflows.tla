------------------------------ MODULE Workflows ------------------------------
(* The multi-call workflows of workflows.rs other than the transaction:       *)
(* insert_content, reorder_nodes, the deep copy under duplicate and template,  *)
(* apply_bulk_op and create_mirror. One workflow runs against an outline       *)
(* that another client changes too; each of its calls may fail, land without   *)
(* an answer, or land twice because its first reply was lost, and it may be    *)
(* cancelled or run out of time before, between and during its calls.          *)
EXTENDS Integers, SequencesExt, Lists, Reach

CONSTANTS
  Old,        \* nodes there from the start
  Top,        \* the workspace root
  Foreign,    \* what the other client creates
  NoNode,
  Kids0,      \* node |-> its children, in display order
  Marked0,    \* nodes that carry a canonical_of marker
  Jobs,       \* the workflows under study, with their arguments
  MaxLines, MaxNodes,   \* MAX_INSERT_CONTENT_LINES, MAX_REORDER_NODES
  MaxForeign  \* bound on what the other client does

ASSUME NodeAssumption ==
  /\ IsFiniteSet(Old) /\ Marked0 \subseteq Old
  /\ {Top, Foreign, NoNode} \cap Old = {} /\ Top # Foreign
  /\ \A n \in Old \cup {Top, Foreign, NoNode} : n \notin Nat
\* Every node is listed once at most, and none is below itself.
ASSUME TreeAssumption ==
  /\ Kids0 \in [Old \cup {Top, Foreign} -> Seq(Old)] /\ Kids0[Foreign] = <<>>
  /\ \A p, q \in DOMAIN Kids0 : \A i \in DOMAIN Kids0[p], j \in DOMAIN Kids0[q] :
       Kids0[p][i] = Kids0[q][j] => p = q /\ i = j
  /\ \A p \in DOMAIN Kids0 : \A n \in Range(Kids0[p]) :
       p \notin Reached([m \in DOMAIN Kids0 |-> Range(Kids0[m])], {n})
ASSUME JobAssumption == \A j \in Jobs :
  \/ j.kind = "insert" /\ j.parent \in Old \cup {Top} /\ j.lines \in Seq(Nat)
  \/ j.kind = "reorder" /\ j.parent \in Old \cup {Top} /\ j.ids \in Seq(Old)
  \/ j.kind = "copy" /\ j.source \in Old /\ j.target \in Old \cup {Top} /\ j.whole \in BOOLEAN
  \/ j.kind = "bulk" /\ j.ids \in Seq(Old)
  \/ j.kind = "mirror" /\ j.canonical \in Old /\ j.target \in Old \cup {Top}
ASSUME BoundAssumption == MaxLines \in Nat /\ MaxNodes \in Nat /\ MaxForeign \in Nat

VARIABLES
  job,        \* the workflow that runs
  kids,       \* upstream: node |-> its children, in display order
  labels,     \* upstream: node |-> its markers and tags
  made,       \* upstream: what this workflow created; ids count from 1
  cancelled, late,     \* the signals of its WorkflowContext
  run,        \* its locals, and in the end its report
  foreign     \* how often the other client acted

vars == <<job, kids, labels, made, cancelled, late, run, foreign>>
outline == <<kids, labels, made>>
context == <<job, cancelled, late, foreign>>

New == DOMAIN made
Nodes == Old \cup {Foreign} \cup New
Parents(n) == {p \in DOMAIN kids : n \in Range(kids[p])}
\* The node and what is below it.
Under(n) == Reached([m \in DOMAIN kids |-> Range(kids[m])], {n})
There(n) == n = Top \/ n \in Under(Top)

\* i: the line, entry or node at work. stack: the parents of insert. queue, at,
\* seen: of copy. entries: what became of each node of a list. read: of mirror.
Fresh == [pc |-> "start", i |-> 1, stack |-> <<>>, queue |-> <<>>,
          copyOf |-> <<>>, seen |-> <<>>, entries |-> <<>>, read |-> {},
          count |-> 0, last |-> NoNode, stopped |-> 0, verdict |-> "none"]

Is(kind, pc) == job.kind = kind /\ run.pc = pc
Return(r, verdict) == run' = [r EXCEPT !.pc = "done", !.verdict = verdict]

-----------------------------------------------------------------------------
(* One call of the client. It succeeds, or fails with or without effect; an   *)
(* attempt whose reply is lost may have landed before the one that succeeds.  *)

Landed(lost, ok) == lost + IF ok THEN 1 ELSE 0

\* A create without a priority lands at the head of its siblings; with one, after
\* those with a lower one, wherever the others are.
Spots(parent, ranked) ==
  IF ranked THEN {k \in 1..Len(kids[parent]) + 1 :
                    \A i \in k..Len(kids[parent]) : kids[parent][i] \notin New}
  ELSE {1}

\* The answer names the copy that was answered.
Created(lost, ok) == IF ok THEN Len(made) + Landed(lost, ok) ELSE NoNode
Create(parent, from, ranked, lost, ok) ==
  /\ Landed(lost, ok) > 0 => There(parent)
  /\ LET n == Landed(lost, ok)
         ids == [i \in 1..n |-> Len(made) + i]
     IN
        /\ made' = made \o [i \in 1..n |-> [from |-> from, told |-> ok /\ i = n]]
        /\ IF n = 0 THEN UNCHANGED <<kids, labels>>
           ELSE /\ \E k \in Spots(parent, ranked) :
                     kids' = [m \in DOMAIN kids \cup Range(ids) |->
                       CASE m = parent -> SubSeq(kids[parent], 1, k-1) \o
                              (IF ranked THEN ids ELSE Reverse(ids)) \o
                              SubSeq(kids[parent], k, Len(kids[parent]))
                         [] m \in Range(ids) -> <<>>
                         [] OTHER -> kids[m]]
                /\ labels' = [m \in DOMAIN labels \cup Range(ids) |->
                       IF m \in Range(ids) THEN {} ELSE labels[m]]

Without(n) == [p \in DOMAIN kids |-> Keep(kids[p], Nodes \ {n})]

\* move_node: to position 0, in its place if it is there already.
Move(n, parent, landed, ok) ==
  /\ ok => landed
  /\ landed => There(n) /\ There(parent) /\ parent \notin Under(n)
  /\ kids' = IF landed THEN [Without(n) EXCEPT ![parent] = <<n>> \o @] ELSE kids
  /\ UNCHANGED <<labels, made>>

Delete(n, landed, ok) ==
  /\ ok => landed
  /\ landed => There(n)
  /\ kids' = IF landed THEN Without(n) ELSE kids
  /\ UNCHANGED <<labels, made>>

\* The whole text is written, from what was read before.
Edit(n, to, landed, ok) ==
  /\ ok => landed
  /\ landed => There(n)
  /\ labels' = IF landed THEN [labels EXCEPT ![n] = to] ELSE labels
  /\ UNCHANGED <<kids, made>>

-----------------------------------------------------------------------------
Init ==
  /\ job \in Jobs
  /\ kids = Kids0
  /\ labels = [n \in Old \cup {Foreign} |-> IF n \in Marked0 THEN {"canonical_of"} ELSE {}]
  /\ made = <<>>
  /\ cancelled = FALSE /\ late = FALSE
  /\ run = Fresh
  /\ foreign = 0

\* cancel_all, or the deadline.
Stop ==
  /\ run.pc # "done"
  /\ \/ cancelled' = TRUE /\ UNCHANGED late
     \/ late' = TRUE /\ UNCHANGED cancelled
  /\ UNCHANGED <<job, outline, run, foreign>>

\* The other client creates, deletes, or adds to a text.
OtherClient ==
  /\ run.pc # "done" /\ foreign < MaxForeign
  /\ foreign' = foreign + 1
  /\ \/ /\ Parents(Foreign) = {}
        /\ \E p \in {q \in DOMAIN kids : q # Foreign /\ There(q)}, k \in {1, 2} :
             /\ k <= Len(kids[p]) + 1
             /\ kids' = [kids EXCEPT ![p] = InsertAt(@, k, Foreign)]
        /\ UNCHANGED labels
     \/ /\ \E n \in Under(Top) \ {Top} : kids' = Without(n)
        /\ UNCHANGED labels
     \/ /\ \E n \in Under(Top) \ {Top} : labels' = [labels EXCEPT ![n] = @ \cup {"theirs"}]
        /\ UNCHANGED kids
  /\ UNCHANGED <<job, made, cancelled, late, run>>

Reason == IF cancelled THEN "cancelled" ELSE "timeout"

-----------------------------------------------------------------------------
(* insert_content_via_indented. job.lines holds the indent of each line.      *)

InsertStart ==
  /\ Is("insert", "start")
  /\ IF job.lines = <<>> THEN Return(run, "complete")
     ELSE IF Len(job.lines) > MaxLines THEN Return(run, "invalid")
     ELSE run' = [run EXCEPT !.pc = "loop", !.stack = <<job.parent>>]
  /\ UNCHANGED <<outline, context>>

\* The checks before a line: a cancel names no line, a timeout names this one.
InsertStops ==
  /\ Is("insert", "loop") /\ (cancelled \/ late)
  /\ Return([run EXCEPT !.stopped = IF cancelled THEN 0 ELSE run.i], Reason)
  /\ UNCHANGED <<outline, context>>

Lesser(a, b) == IF a <= b THEN a ELSE b

\* Mutant: deeper levels stay on the stack.
StackKept(level, id) ==
  IF level < Len(run.stack) THEN [run.stack EXCEPT ![level + 1] = id]
  ELSE Append(run.stack, id)
StackWith(level, id) == Append(SubSeq(run.stack, 1, level), id)

Ranked == TRUE

\* A line: its indent is clamped to one below the line before.
InsertLine(lost, ok) ==
  /\ Is("insert", "loop") /\ ~cancelled /\ ~late
  /\ LET indent == Lesser(job.lines[run.i], Len(run.stack) - 1)
         id == Created(lost, ok)
         r == [run EXCEPT !.i = @ + 1, !.count = @ + 1, !.last = id,
                          !.stack = StackWith(indent + 1, id)]
     IN /\ Create(run.stack[indent + 1], run.i, Ranked, lost, ok)
        /\ IF ok
           THEN /\ IF run.i = Len(job.lines) THEN Return(r, "complete") ELSE run' = r
                /\ UNCHANGED context
           ELSE \* An abort during the call, or seen when its error came, goes first.
                /\ \E c, l \in BOOLEAN :
                     /\ cancelled' = c /\ late' = l
                     /\ Return([run EXCEPT !.stopped = run.i],
                               IF c THEN "cancelled" ELSE IF l THEN "timeout" ELSE "error")
                /\ UNCHANGED <<job, foreign>>

-----------------------------------------------------------------------------
(* reorder_nodes_via_priority: the list from its end, each to position 0.     *)

ReorderStart ==
  /\ Is("reorder", "start")
  /\ IF \/ job.ids = <<>> \/ Len(job.ids) > MaxNodes
        \/ ~IsInjective(job.ids) \/ job.parent \in Range(job.ids)
     THEN Return(run, "invalid")
     ELSE run' = [run EXCEPT !.pc = "loop", !.i = Len(job.ids),
                             !.entries = [i \in DOMAIN job.ids |-> "skipped"]]
  /\ UNCHANGED <<outline, context>>

ReorderStops ==
  /\ Is("reorder", "loop") /\ (cancelled \/ late)
  /\ Return(run, Reason)
  /\ UNCHANGED <<outline, context>>

\* Mutant: the list from its beginning.
FromStart(i) == job.ids[Len(job.ids) + 1 - i]
Entry(i) == job.ids[i]

\* A failed move is noted, and the loop goes on.
ReorderNext(landed, ok) ==
  /\ Is("reorder", "loop") /\ ~cancelled /\ ~late
  /\ Move(Entry(run.i), job.parent, landed, ok)
  /\ LET r == [run EXCEPT !.i = @ - 1, !.entries[run.i] = IF ok THEN "ok" ELSE "error"]
     IN IF run.i = 1 THEN Return(r, "complete") ELSE run' = r
  /\ UNCHANGED context

-----------------------------------------------------------------------------
(* deep_copy_subtree, for duplicate_subtree and instantiate_template.         *)

\* The walk fails, is cut, or sees the outline as it is.
CopyWalk ==
  /\ Is("copy", "start")
  /\ \/ Return(run, "error")
     \/ /\ There(job.source)
        /\ run' = [run EXCEPT !.pc = "root", !.seen =
             [n \in Under(job.source) |-> IF job.whole THEN kids[n] ELSE <<>>]]
  /\ UNCHANGED <<outline, context>>

Copied(r, n, id) ==
  [r EXCEPT !.copyOf = [m \in DOMAIN @ \cup {n} |-> IF m = n THEN id ELSE @[m]],
            !.queue = @ \o r.seen[n], !.count = @ + 1]
CopyProceeds(r) == IF r.queue = <<>> THEN Return(r, "complete") ELSE run' = r

CopyRoot(lost, ok) ==
  /\ Is("copy", "root")
  /\ Create(job.target, job.source, FALSE, lost, ok)
  /\ IF ok THEN CopyProceeds([Copied(run, job.source, Created(lost, ok)) EXCEPT !.pc = "loop"])
     ELSE Return(run, "error")
  /\ UNCHANGED context

CopyStops ==
  /\ Is("copy", "loop") /\ (cancelled \/ late)
  /\ Return(run, "error")
  /\ UNCHANGED <<outline, context>>

ParentSeen(n) == CHOOSE p \in DOMAIN run.seen : n \in Range(run.seen[p])
\* Mutant: every copy goes under the new root.
FlatParent(n) == run.copyOf[job.source]
CopyParent(n) == run.copyOf[ParentSeen(n)]

CopyNext(lost, ok) ==
  /\ Is("copy", "loop") /\ ~cancelled /\ ~late
  /\ LET n == Head(run.queue)
     IN /\ Create(CopyParent(n), n, FALSE, lost, ok)
        /\ IF ok THEN CopyProceeds(Copied([run EXCEPT !.queue = Tail(@)], n, Created(lost, ok)))
           ELSE Return(run, "error")
  /\ UNCHANGED context

-----------------------------------------------------------------------------
(* apply_bulk_op, on nodes a walk of the handler returned. It looks at no     *)
(* signal. A tag edit writes the name that walk saw.                          *)

BulkStart ==
  /\ Is("bulk", "start")
  /\ IF job.op \in {"add_tag", "remove_tag"} /\ ~job.tag THEN Return(run, "invalid")
     ELSE IF job.ids = <<>> THEN Return(run, "complete")
     ELSE run' = [run EXCEPT !.pc = "loop", !.seen = labels,
                             !.entries = [i \in DOMAIN job.ids |-> "skipped"]]
  /\ UNCHANGED <<outline, context>>

BulkWrite(n, landed, ok) ==
  CASE job.op = "delete" -> Delete(n, landed, ok)
    [] job.op = "complete" -> Edit(n, labels[n] \cup {"done"}, landed, ok)
    [] job.op = "uncomplete" -> Edit(n, labels[n] \ {"done"}, landed, ok)
    [] job.op = "add_tag" /\ "tag" \in run.seen[n] ->
         landed /\ ok /\ UNCHANGED outline     \* nothing to write counts as done
    [] job.op = "add_tag" -> Edit(n, run.seen[n] \cup {"tag"}, landed, ok)
    [] job.op = "remove_tag" -> Edit(n, run.seen[n] \ {"tag"}, landed, ok)

\* A node that fails is left out of the count.
BulkNext(landed, ok) ==
  /\ Is("bulk", "loop")
  /\ BulkWrite(job.ids[run.i], landed, ok)
  /\ LET r == [run EXCEPT !.i = @ + 1, !.count = IF ok THEN @ + 1 ELSE @,
                          !.entries[run.i] = IF ok THEN "ok" ELSE "error"]
     IN IF run.i = Len(job.ids) THEN Return(r, "complete") ELSE run' = r
  /\ UNCHANGED context

-----------------------------------------------------------------------------
(* create_mirror_via_convention.                                             *)

MirrorRead ==
  /\ Is("mirror", "start")
  /\ IF job.target = job.canonical THEN Return(run, "invalid")
     ELSE \/ Return(run, "error")
          \/ /\ There(job.canonical)
             /\ run' = [run EXCEPT !.pc = "create", !.read = labels[job.canonical]]
  /\ UNCHANGED <<outline, context>>

\* Mutant: what was asked for is reported.
StatusAsAsked(r, annotated) == IF job.pillar THEN "OK" ELSE "ORPHAN"
Status(r, annotated) == IF "canonical_of" \in r.read \/ annotated THEN "OK" ELSE "ORPHAN"

MirrorCreate(lost, ok) ==
  /\ Is("mirror", "create")
  /\ Create(job.target, job.canonical, FALSE, lost, ok)
  /\ LET r == [run EXCEPT !.last = Created(lost, ok)]
     IN IF ~ok THEN Return(run, "error")
        ELSE IF job.pillar /\ "canonical_of" \notin run.read
             THEN run' = [r EXCEPT !.pc = "annotate"]
             ELSE Return(r, Status(r, FALSE))
  /\ UNCHANGED context

\* A failed annotation leaves the mirror where it is.
MirrorAnnotate(landed, ok) ==
  /\ Is("mirror", "annotate")
  /\ Edit(job.canonical, run.read \cup {"canonical_of"}, landed, ok)
  /\ Return(run, Status(run, ok))
  /\ UNCHANGED context

-----------------------------------------------------------------------------
LocalStep == InsertStart \/ InsertStops \/ ReorderStart \/ ReorderStops
             \/ CopyWalk \/ CopyStops \/ BulkStart \/ MirrorRead
CreateStep == \E lost \in 0..1, ok \in BOOLEAN :
  InsertLine(lost, ok) \/ CopyRoot(lost, ok) \/ CopyNext(lost, ok) \/ MirrorCreate(lost, ok)
WriteStep == \E landed, ok \in BOOLEAN :
  ReorderNext(landed, ok) \/ BulkNext(landed, ok) \/ MirrorAnnotate(landed, ok)
Finished == run.pc = "done" /\ UNCHANGED vars

Next == LocalStep \/ CreateStep \/ WriteStep \/ Stop \/ OtherClient \/ Finished

Spec == Init /\ [][Next]_vars
-----------------------------------------------------------------------------
(* What is checked.                                                          *)

Told == {x \in New : made[x].told}
Of(n) == {x \in Told : made[x].from = n}
\* Two children of one node, in display order.
Precedes(x, y) == \E p \in DOMAIN kids : \E k, l \in DOMAIN kids[p] :
                    k < l /\ kids[p][k] = x /\ kids[p][l] = y

\* The variables keep their shape: every node is in one place at most, the
\* outline has no cycle, a report counts what was answered.
TypeOK ==
  /\ cancelled \in BOOLEAN /\ late \in BOOLEAN /\ foreign \in 0..MaxForeign
  /\ DOMAIN kids = Nodes \cup {Top} /\ DOMAIN labels = Nodes
  /\ \A p \in DOMAIN kids : IsInjective(kids[p])
  /\ \A n \in Nodes : Cardinality(Parents(n)) <= 1 /\ Parents(n) \cap Under(n) = {}
  /\ job.kind \in {"insert", "copy"} => run.count = Cardinality(Told)
  /\ run.last # NoNode => run.last \in Told

\* The level a payload means for its lines, and the line each is below; 0: none.
Level == LET level[i \in 1..Len(job.lines)] ==
               IF i = 1 THEN 0 ELSE Lesser(job.lines[i], level[i-1] + 1)
         IN level
LineAbove(i) == Max({0} \cup {j \in 1..i-1 : Level[j] = Level[i] - 1})

\* insert_content: at any moment the lines that were answered are the first ones
\* of the payload, each once, in its place (unless the other client removed it),
\* and siblings are displayed in the payload's order, whatever else landed.
InsertBuildsPayload ==
  job.kind = "insert" =>
    /\ \A i \in DOMAIN job.lines : Cardinality(Of(i)) = IF i <= run.count THEN 1 ELSE 0
    /\ \A x \in Told :
         LET above == LineAbove(made[x].from)
         IN Parents(x) \subseteq IF above = 0 THEN {job.parent} ELSE Of(above)
    /\ \A x, y \in Told : Precedes(x, y) => made[x].from < made[y].from

\* duplicate_node, create_from_template: a copy has a node for every node seen and
\* no other, each below the copy of the node it was below; what was written when
\* the copy fails is connected to its root.
CopyBuildsSource ==
  job.kind = "copy" =>
    /\ \A n \in DOMAIN run.seen : Cardinality(Of(n)) <= 1
    /\ \A x \in Told : Parents(x) \subseteq
         IF made[x].from = job.source THEN {job.target}
         ELSE UNION {Of(p) : p \in {q \in DOMAIN run.seen : made[x].from \in Range(run.seen[q])}}
    /\ run.verdict = "complete" =>
         /\ \A n \in DOMAIN run.seen : job.whole \/ n = job.source => Of(n) # {}
         /\ {made[x].from : x \in Told} \subseteq DOMAIN run.seen

\* reorder_nodes: the moves that were answered leave their nodes in the order that
\* was asked for, before every sibling that was not listed, and those keep their
\* order, whatever failed, was skipped, or was moved without an answer.
ReorderPlacesInOrder ==
  job.kind = "reorder" /\ run.pc = "done" =>
    \A i, j \in DOMAIN run.entries :
      /\ run.entries[i] = "ok" /\ run.entries[j] = "ok" /\ i < j =>
           ~Precedes(job.ids[j], job.ids[i])
      /\ run.entries[i] = "ok" =>
           \A n \in Old \ Range(job.ids) : ~Precedes(n, job.ids[i])
      /\ \A m, n \in Old \ Range(job.ids) :
           Precedes(m, n) => \E p \in DOMAIN Kids0 : \E k, l \in DOMAIN Kids0[p] :
             k < l /\ Kids0[p][k] = m /\ Kids0[p][l] = n

\* create_mirror: a mirror is reported as complete only if its canonical carries
\* the marker the audit looks for.
MirrorStatusIsTrue ==
  run.verdict = "OK" => "canonical_of" \in labels[job.canonical]

=============================================================================
