------------------------------ MODULE Transaction ------------------------------
(***************************************************************************)
(* run_transaction, apply_txn_step and run_txn_inverse of                  *)
(* src/src/workflows.rs: operations applied one by one, each remembering   *)
(* how to undo itself, and the inverses replayed last-in first-out when    *)
(* one fails.  Every API call is a step of its own: it can fail cleanly,   *)
(* fail after it took effect (the reply was lost), or be refused by the    *)
(* client itself inside an open rate-limit window; between any two calls   *)
(* the handler can be dropped by its budget or by cancel_all.              *)
(*                                                                         *)
(* The client posts a call again when its reply is lost.  That changes     *)
(* nothing but for a create, which may land once per attempt: the node     *)
(* whose id is answered is the one its operation names, and the others are *)
(* copies nobody has the id of, counted by the place they hang below.      *)
(*                                                                         *)
(* Sibling order (priority) and upstream's choice of ids are not modelled. *)
(* A delete's expect_name is compared before its call: a mismatch is a     *)
(* Fail.  A call takes effect, if ever, before its last attempt is over.   *)
(***************************************************************************)
EXTENDS Naturals, Sequences

CONSTANTS
  Nodes,
  Top,       \* the workspace root
  Names,
  Notes,
  NoNote,    \* a node without a description
  Untouched, \* a field an edit does not touch
  Unread,    \* the read before a write failed
  Tree0,     \* the outline before the transaction
  Attempts,  \* times the client posts a call, the first included
  Programs   \* the operation lists under study

Absent == [live |-> FALSE]
NodeStates ==
  [live : {TRUE}, name : Names, note : Notes \cup {NoNote}, parent : Nodes \cup {Top}, done : BOOLEAN]
Trees == [Nodes -> NodeStates \cup {Absent}]
Places == Nodes \cup {Top}

Ops ==
  [kind : {"create"}, node : Nodes, name : Names, note : Notes \cup {NoNote}, parent : Nodes \cup {Top}]
  \cup [kind : {"edit"}, node : Nodes, name : Names \cup {Untouched}, note : Notes \cup {Untouched}]
  \cup [kind : {"delete"}, node : Nodes]
  \cup [kind : {"move"}, node : Nodes, parent : Nodes]
  \cup [kind : {"complete"}, node : Nodes, done : BOOLEAN]
  \cup [kind : {"malformed"}]  \* unknown kind, or a required field missing

ASSUME FieldAssumption ==
  /\ NoNote \notin Notes /\ Top \notin Nodes /\ Unread \notin NodeStates
  /\ Untouched \notin Names \cup Notes /\ Untouched \notin Nodes /\ Untouched \notin BOOLEAN
\* Every node of an outline hangs below another, or at the top.
Rooted(t) ==
  \A n \in Nodes : t[n].live => t[n].parent = Top \/ (t[n].parent \in Nodes /\ t[t[n].parent].live)
ASSUME TreeAssumption == Tree0 \in Trees /\ Rooted(Tree0)
ASSUME AttemptsAssumption == Attempts \in Nat \ {0}
ASSUME ProgramAssumption == Programs \subseteq Seq(Ops) /\ \A p \in Programs : p # <<>>

\* One API call that writes.
Calls ==
  [do : {"create"}, node : Nodes, arg : NodeStates]
  \cup [do : {"name"}, node : Nodes, arg : Names]
  \cup [do : {"note"}, node : Nodes, arg : Notes]
  \cup [do : {"parent"}, node : Nodes, arg : Nodes]
  \cup [do : {"done"}, node : Nodes, arg : BOOLEAN]
  \cup [do : {"delete"}, node : Nodes, arg : {Untouched}]

VARIABLES
  tree,     \* the outline upstream
  copies,   \* how many copies of creates hang below each place
  ops,      \* the operation list
  pos,      \* the operation at hand
  phase,    \* "next", "writing", "rolling", "undoing" or "over"
  read,     \* what the read before the write found
  todo,     \* the calls left of the operation, or of the inverse, at hand
  stack,    \* inverses of the operations applied so far: [node, calls]
  window,   \* the client is inside a retry_after window
  outcome,  \* "open", "applied", "rolledBack" or "dropped"
  damaged   \* history: nodes something irreversible happened to

vars == <<tree, copies, ops, pos, phase, read, todo, stack, window, outcome, damaged>>

Inverses == [node : Nodes, calls : Seq(Calls)]

TypeOK ==
  /\ tree \in Trees
  /\ copies \in [Places -> Nat]
  /\ ops \in Programs
  /\ pos \in 1 .. Len(ops) + 1
  /\ phase \in {"next", "writing", "rolling", "undoing", "over"}
  /\ read \in NodeStates \cup {Absent, Unread}
  /\ todo \in Seq(Calls)
  /\ stack \in Seq(Inverses)
  /\ window \in BOOLEAN
  /\ outcome \in {"open", "applied", "rolledBack", "dropped"}
  /\ damaged \subseteq Nodes

Init ==
  /\ tree = Tree0
  /\ copies = [q \in Places |-> 0]
  /\ ops \in Programs
  /\ pos = 1
  /\ phase = "next"
  /\ read = Unread
  /\ todo = <<>>
  /\ stack = <<>>
  /\ window \in BOOLEAN
  /\ outcome = "open"
  /\ damaged = {}

-----------------------------------------------------------------------------
(* Upstream.                                                               *)

Exists(t, n) == n = Top \/ (n \in Nodes /\ t[n].live)

\* n and everything below it.
Subtree(t, n) ==
  {m \in Nodes : \A S \in SUBSET Nodes :
     n \in S /\ (\A c \in Nodes : t[c].live /\ t[c].parent \in S => c \in S) => m \in S}

Possible(t, c) ==
  CASE c.do = "create" -> ~Exists(t, c.node) /\ Exists(t, c.arg.parent)
    [] c.do = "parent" -> Exists(t, c.node) /\ Exists(t, c.arg) /\ c.arg \notin Subtree(t, c.node)
    [] OTHER           -> Exists(t, c.node)

Done(t, c) ==
  CASE c.do = "create" -> [t EXCEPT ![c.node] = c.arg]
    [] c.do = "name"   -> [t EXCEPT ![c.node].name = c.arg]
    [] c.do = "note"   -> [t EXCEPT ![c.node].note = c.arg]
    [] c.do = "parent" -> [t EXCEPT ![c.node].parent = c.arg]
    [] c.do = "done"   -> [t EXCEPT ![c.node].done = c.arg]
    [] c.do = "delete" -> [m \in Nodes |-> IF m \in Subtree(t, c.node) THEN Absent ELSE t[m]]

\* What a call does to the copies below each place when it lands k times over.
Copied(t, c, k) ==
  CASE c.do = "create" -> [copies EXCEPT ![c.arg.parent] = @ + k]
    [] c.do = "delete" -> [q \in Places |-> IF q \in Subtree(t, c.node) THEN 0 ELSE copies[q]]
    [] OTHER           -> copies

\* A call takes effect, on some of its attempts more than once.
Lands(c) ==
  /\ ~window /\ Possible(tree, c)
  /\ tree' = Done(tree, c)
  /\ \E k \in 0 .. Attempts - 1 : copies' = Copied(tree, c, k)

-----------------------------------------------------------------------------
(* What an operation calls, and what undoes it.                            *)

Write(n, field, value) ==
  IF value = Untouched THEN <<>> ELSE <<[do |-> field, node |-> n, arg |-> value]>>

\* edit_node writes the name first and the description in a second call.
OpCalls(op) ==
  CASE op.kind = "create" ->
         <<[do |-> "create", node |-> op.node,
            arg |-> [live |-> TRUE, name |-> op.name, note |-> op.note,
                     parent |-> op.parent, done |-> FALSE]]>>
    [] op.kind = "edit"     -> Write(op.node, "name", op.name) \o Write(op.node, "note", op.note)
    [] op.kind = "delete"   -> <<[do |-> "delete", node |-> op.node, arg |-> Untouched]>>
    [] op.kind = "move"     -> Write(op.node, "parent", op.parent)
    [] op.kind = "complete" -> Write(op.node, "done", op.done)
    [] op.kind = "malformed" -> <<>>

Malformed(op) ==
  op.kind = "malformed" \/ (op.kind = "edit" /\ op.name = Untouched /\ op.note = Untouched)

ReadsFirst(op) == op.kind \in {"edit", "move", "complete"}

\* A description that was absent is not written back; a node whose parent was
\* the root, or could not be read, is not moved back.
UndoCalls(op, prev) ==
  CASE op.kind = "create" -> <<[do |-> "delete", node |-> op.node, arg |-> Untouched]>>
    [] op.kind = "edit" ->
         Write(op.node, "name", prev.name)
         \o (IF prev.note = NoNote THEN <<>> ELSE Write(op.node, "note", prev.note))
    [] op.kind = "move" ->
         IF prev = Unread THEN <<>>
         ELSE IF prev.parent = Top THEN <<>> ELSE Write(op.node, "parent", prev.parent)
    [] op.kind = "complete" -> Write(op.node, "done", prev.done)

Invertible(op, prev) ==
  op.kind \in {"create", "move"} \/ (op.kind \in {"edit", "complete"} /\ prev # Unread)

\* The nodes an operation applied with that knowledge leaves beyond undoing.
BeyondUndo(op, prev) ==
  CASE op.kind = "delete" -> Subtree(tree, op.node)
    [] op.kind = "create" -> {}
    [] op.kind = "edit" ->
         IF prev = Unread \/ (prev.note = NoNote /\ op.note # Untouched) THEN {op.node} ELSE {}
    [] op.kind = "move" ->
         IF prev = Unread \/ prev.parent = Top THEN {op.node} ELSE {}
    [] op.kind = "complete" -> IF prev = Unread THEN {op.node} ELSE {}

-----------------------------------------------------------------------------
(* run_transaction.                                                        *)

Op == ops[pos]

Commit ==
  /\ phase = "next" /\ pos > Len(ops)
  /\ phase' = "over" /\ outcome' = "applied"
  /\ UNCHANGED <<tree, copies, pos, read, todo, stack, window, damaged, ops>>

\* The operation is refused before any call.
Reject ==
  /\ phase = "next" /\ pos <= Len(ops) /\ Malformed(Op)
  /\ phase' = "rolling"
  /\ UNCHANGED <<tree, copies, pos, read, todo, stack, window, outcome, damaged, ops>>

\* The read before an edit, move or completion; it fails inside the window,
\* for a node that is not there, or by itself.
Read ==
  /\ phase = "next" /\ pos <= Len(ops) /\ ~Malformed(Op)
  /\ \/ ~ReadsFirst(Op) /\ read' = Unread
     \/ ReadsFirst(Op) /\ ~window /\ Exists(tree, Op.node) /\ read' = tree[Op.node]
     \/ ReadsFirst(Op) /\ read' = Unread
  /\ todo' = OpCalls(Op)
  /\ phase' = "writing"
  /\ UNCHANGED <<tree, copies, pos, stack, window, outcome, damaged, ops>>

\* A call of the operation is answered; after the last one its inverse is kept.
Land ==
  /\ phase = "writing"
  /\ Lands(Head(todo))
  /\ todo' = Tail(todo)
  /\ IF Len(todo) = 1
       THEN /\ phase' = "next"
            /\ pos' = pos + 1
            /\ stack' = IF Invertible(Op, read)
                          THEN Append(stack, [node |-> Op.node, calls |-> UndoCalls(Op, read)])
                          ELSE stack
            /\ damaged' = damaged \cup BeyondUndo(Op, read)
       ELSE UNCHANGED <<phase, pos, stack, damaged>>
  /\ UNCHANGED <<read, window, outcome, ops>>

\* The operation fails: nothing undoes a first call that landed, nor a call
\* that took effect unseen.
Fail ==
  /\ phase = "writing"
  /\ \/ /\ UNCHANGED <<tree, copies>>
        /\ damaged' = IF Len(todo) < Len(OpCalls(Op)) THEN damaged \cup {Op.node} ELSE damaged
     \/ /\ Lands(Head(todo))
        /\ damaged' = damaged \cup (IF Op.kind = "delete" THEN Subtree(tree, Op.node) ELSE {Op.node})
  /\ window' \in {window, TRUE}
  /\ phase' = "rolling" /\ todo' = <<>>
  /\ UNCHANGED <<pos, read, stack, outcome, ops>>

Newest == stack[Len(stack)]

\* Mutant: inverses replayed first-in first-out.
UndoOldest ==
  /\ phase = "rolling" /\ stack # <<>>
  /\ todo' = Head(stack).calls
  /\ phase' = IF Head(stack).calls = <<>> THEN "rolling" ELSE "undoing"
  /\ stack' = Tail(stack)
  /\ UNCHANGED <<tree, copies, pos, read, window, outcome, damaged, ops>>

\* Mutant: an inverse is replayed and not removed.
UndoUnpopped ==
  /\ phase = "rolling" /\ stack # <<>>
  /\ todo' = Newest.calls
  /\ phase' = IF Newest.calls = <<>> THEN "rolling" ELSE "undoing"
  /\ UNCHANGED <<tree, copies, pos, read, stack, window, outcome, damaged, ops>>

\* The newest inverse is popped.
Undo ==
  /\ phase = "rolling" /\ stack # <<>>
  /\ todo' = Newest.calls
  /\ phase' = IF Newest.calls = <<>> THEN "rolling" ELSE "undoing"
  /\ stack' = SubSeq(stack, 1, Len(stack) - 1)
  /\ UNCHANGED <<tree, copies, pos, read, window, outcome, damaged, ops>>

UndoLand ==
  /\ phase = "undoing"
  /\ Lands(Head(todo))
  /\ todo' = Tail(todo)
  /\ phase' = IF Len(todo) = 1 THEN "rolling" ELSE "undoing"
  /\ UNCHANGED <<pos, read, stack, window, outcome, damaged, ops>>

\* Mutant: the rollback stops at the first inverse that fails.
UndoGivesUp ==
  /\ phase = "undoing"
  /\ damaged' = damaged \cup {Head(todo).node}
  /\ phase' = "rolling" /\ todo' = <<>> /\ stack' = <<>>
  /\ UNCHANGED <<tree, copies, pos, read, window, outcome, ops>>

\* An inverse that fails is logged; the next one is tried.
UndoFail ==
  /\ phase = "undoing"
  /\ UNCHANGED <<tree, copies>> \/ Lands(Head(todo))
  /\ damaged' = damaged \cup {Head(todo).node}
  /\ window' \in {window, TRUE}
  /\ phase' = "rolling" /\ todo' = <<>>
  /\ UNCHANGED <<pos, read, stack, outcome, ops>>

RolledBack ==
  /\ phase = "rolling" /\ stack = <<>>
  /\ phase' = "over" /\ outcome' = "rolledBack"
  /\ UNCHANGED <<tree, copies, pos, read, todo, stack, window, damaged, ops>>

\* run_handler's budget or cancel_all drops the future at a call.
Drop ==
  /\ phase # "over"
  /\ phase' = "over" /\ outcome' = "dropped"
  /\ UNCHANGED <<tree, copies, pos, read, todo, stack, window, damaged, ops>>

\* Another task of the process meets a 429; a window runs out.
WindowTurns ==
  /\ window' = ~window
  /\ UNCHANGED <<tree, copies, ops, pos, phase, read, todo, stack, outcome, damaged>>

Step == Commit \/ Reject \/ Read \/ Land \/ Fail \/ Undo \/ UndoLand \/ UndoFail \/ RolledBack
Next == Step \/ Drop \/ WindowTurns

Spec == Init /\ [][Next]_vars /\ WF_vars(Step)

-----------------------------------------------------------------------------
Replay(t, calls) ==
  LET after[k \in 0 .. Len(calls)] == IF k = 0 THEN t ELSE Done(after[k - 1], calls[k])
  IN  after[Len(calls)]

\* The outline with every operation carried out.
Goal ==
  LET after[k \in 0 .. Len(ops)] == IF k = 0 THEN Tree0 ELSE Replay(after[k - 1], OpCalls(ops[k]))
  IN  after[Len(ops)]

\* Where the creates among the first n operations put their nodes.
Creates(n) == {ops[k].parent : k \in {j \in 1 .. Len(ops) : j <= n /\ ops[j].kind = "create"}}

Batch == INSTANCE AtomicBatch WITH
  committed <- IF outcome = "open" THEN Tree0 ELSE tree,
  goal      <- Goal,
  creates   <- Creates(Len(ops)) # {},
  extra     <- outcome # "open" /\ \E q \in Places : copies[q] > 0,
  status    <- IF outcome = "dropped" \/ (outcome = "rolledBack" /\ damaged # {})
               THEN "broken" ELSE outcome

(* Nothing irreversible happened: a transaction is all or nothing, however *)
(* often its operations touch the same nodes and wherever it fails.  Only  *)
(* one that creates can leave more: copies of what it created.             *)
ImplementsBatch == Batch!Spec

(* What cannot be undone stays where it happened: after a rollback a node  *)
(* is as before unless something irreversible befell it or a node it was   *)
(* under, and no copy of a created node is left but below a place that     *)
(* stands and that a create tried so far was for.                          *)
DamageIsContained ==
  outcome = "rolledBack" =>
    /\ \A n \in Nodes :
         (\A m \in damaged : n \notin Subtree(Tree0, m)) => tree[n] = Tree0[n]
    /\ \A q \in Places : copies[q] > 0 => Exists(tree, q) /\ q \in Creates(pos)

(* Every transaction ends: no failure leaves it between its phases.        *)
Terminates == <>(phase = "over")

-----------------------------------------------------------------------------

(* Claim of the specification: of the operations, only a delete cannot be  *)
(* rolled back.  No node that existed is gone unless a delete asked for it.*)
OnlyRequestedDeletes ==
  outcome = "rolledBack" /\ (\A k \in 1 .. Len(ops) : ops[k].kind # "delete") =>
    \A n \in Nodes : Tree0[n].live => tree[n].live
=============================================================================
