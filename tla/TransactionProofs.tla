-------------------------- MODULE TransactionProofs --------------------------
(***************************************************************************)
(* Proofs about the transaction, for every outline and every list of       *)
(* operations: types, that damage is contained, and the refinement.        *)
(***************************************************************************)
EXTENDS Transaction, ListFacts, SequenceTheorems, TLAPS

-----------------------------------------------------------------------------
(* Types.                                                                  *)

LEMMA Nodewise ==
  ASSUME NEW t \in Trees, NEW n \in Nodes
  PROVE  /\ t[n] \in NodeStates \/ t[n] = Absent
         /\ t[n].live <=> t[n] \in NodeStates
         /\ ~t[n].live <=> t[n] = Absent
         /\ n # Top
<1>1. t[n] \in NodeStates \cup {Absent}
  BY DEF Trees
<1>2. Absent.live = FALSE
  BY DEF Absent
<1>3. ASSUME NEW r \in NodeStates PROVE r.live = TRUE
  BY DEF NodeStates
<1> QED
  BY <1>1, <1>2, <1>3, FieldAssumption

LEMMA DoneTyped ==
  ASSUME NEW t \in Trees, NEW c \in Calls, Possible(t, c)
  PROVE  Done(t, c) \in Trees /\ c.node \in Nodes
<1>0. c.node \in Nodes
  BY DEF Calls
<1>1. CASE c.do = "create"
  <2>1. c.arg \in NodeStates
    BY <1>1 DEF Calls
  <2> QED
    BY <1>0, <1>1, <2>1 DEF Done, Trees
<1>2. CASE c.do = "delete"
  <2>1. Done(t, c) = [m \in Nodes |-> IF m \in Subtree(t, c.node) THEN Absent ELSE t[m]]
    BY <1>2 DEF Done
  <2> QED
    BY <1>0, <2>1 DEF Trees
<1>3. CASE c.do \in {"name", "note", "parent", "done"}
  <2>1. t[c.node] \in NodeStates
    BY <1>0, <1>3, Nodewise DEF Possible, Exists
  <2> DEFINE r == t[c.node]
  <2>2. CASE c.do = "name"
    <3>1. c.arg \in Names
      BY <2>2 DEF Calls
    <3>2. [r EXCEPT !.name = c.arg] \in NodeStates
      BY <2>1, <3>1 DEF NodeStates
    <3>3. Done(t, c) = [t EXCEPT ![c.node] = [r EXCEPT !.name = c.arg]]
      BY <2>2 DEF Done
    <3> QED
      BY <1>0, <3>2, <3>3 DEF Trees
  <2>3. CASE c.do = "note"
    <3>1. c.arg \in Notes
      BY <2>3 DEF Calls
    <3>2. [r EXCEPT !.note = c.arg] \in NodeStates
      BY <2>1, <3>1 DEF NodeStates
    <3>3. Done(t, c) = [t EXCEPT ![c.node] = [r EXCEPT !.note = c.arg]]
      BY <2>3 DEF Done
    <3> QED
      BY <1>0, <3>2, <3>3 DEF Trees
  <2>4. CASE c.do = "parent"
    <3>1. c.arg \in Nodes
      BY <2>4 DEF Calls
    <3>2. [r EXCEPT !.parent = c.arg] \in NodeStates
      BY <2>1, <3>1 DEF NodeStates
    <3>3. Done(t, c) = [t EXCEPT ![c.node] = [r EXCEPT !.parent = c.arg]]
      BY <2>4 DEF Done
    <3> QED
      BY <1>0, <3>2, <3>3 DEF Trees
  <2>5. CASE c.do = "done"
    <3>1. c.arg \in BOOLEAN
      BY <2>5 DEF Calls
    <3>2. [r EXCEPT !.done = c.arg] \in NodeStates
      BY <2>1, <3>1 DEF NodeStates
    <3>3. Done(t, c) = [t EXCEPT ![c.node] = [r EXCEPT !.done = c.arg]]
      BY <2>5 DEF Done
    <3> QED
      BY <1>0, <3>2, <3>3 DEF Trees
  <2> QED
    BY <1>3, <2>2, <2>3, <2>4, <2>5
<1> QED
  BY <1>0, <1>1, <1>2, <1>3 DEF Calls

Fields == {"name", "note", "parent", "done"}
Creation(op) ==
  [do |-> "create", node |-> op.node,
   arg |-> [live |-> TRUE, name |-> op.name, note |-> op.note, parent |-> op.parent,
            done |-> FALSE]]
Deletion(n) == [do |-> "delete", node |-> n, arg |-> Untouched]
Call(n, field, value) == [do |-> field, node |-> n, arg |-> value]

LEMMA WriteIs ==
  ASSUME NEW n, NEW f, NEW v
  PROVE  /\ v = Untouched => Write(n, f, v) = <<>>
         /\ v # Untouched => Write(n, f, v) = <<Call(n, f, v)>>
BY DEF Write, Call

LEMMA Joined ==
  ASSUME NEW c, NEW d
  PROVE  /\ <<>> \o <<d>> = <<d>> /\ <<c>> \o <<>> = <<c>> /\ <<c>> \o <<d>> = <<c, d>>
<1> DEFINE S == {c, d}
<1>1. <<c>> \in Seq(S) /\ <<d>> \in Seq(S) /\ <<c, d>> \in Seq(S)
  OBVIOUS
<1>2. /\ Len(<<c>>) = 1 /\ Len(<<d>>) = 1 /\ Len(<<c, d>>) = 2
      /\ <<c>>[1] = c /\ <<d>>[1] = d /\ <<c, d>>[1] = c /\ <<c, d>>[2] = d
  OBVIOUS
<1> HIDE DEF S
<1>3. <<c>> \o <<d>> = <<c, d>>
  <2> DEFINE q == <<c>> \o <<d>>
  <2>1. /\ q \in Seq(S) /\ Len(q) = 2
        /\ \A i \in 1..2 : q[i] = IF i <= 1 THEN <<c>>[i] ELSE <<d>>[i - 1]
    BY <1>1, <1>2, ConcatProperties
  <2> HIDE DEF q
  <2>2. q[1] = c /\ q[2] = d
    BY <1>2, <2>1
  <2>3. \A i \in 1..Len(q) : q[i] = <<c, d>>[i]
    BY <1>2, <2>1, <2>2
  <2>4. q = <<c, d>>
    BY <1>1, <1>2, <2>1, <2>3, SeqEqual
  <2> QED
    BY <2>4 DEF q
<1> QED
  BY <1>1, <1>3, ConcatEmptySeq

\* The calls of an operation, by its kind.
Shaped(op) ==
  /\ op.node \in Nodes
  /\ op.kind \in {"create", "edit", "delete", "move", "complete"}
  /\ op.kind = "create" => OpCalls(op) = <<Creation(op)>> /\ Creation(op) \in Calls
  /\ op.kind = "delete" => OpCalls(op) = <<Deletion(op.node)>>
  /\ op.kind = "move" => /\ OpCalls(op) = <<Call(op.node, "parent", op.parent)>>
                         /\ op.parent \in Nodes
  /\ op.kind = "complete" => /\ OpCalls(op) = <<Call(op.node, "done", op.done)>>
                             /\ op.done \in BOOLEAN
  /\ op.kind = "edit" =>
       /\ op.name \in Names \cup {Untouched} /\ op.note \in Notes \cup {Untouched}
       /\ op.name # Untouched \/ op.note # Untouched
       /\ op.note = Untouched => OpCalls(op) = <<Call(op.node, "name", op.name)>>
       /\ op.name = Untouched => OpCalls(op) = <<Call(op.node, "note", op.note)>>
       /\ op.name # Untouched /\ op.note # Untouched =>
            OpCalls(op) = <<Call(op.node, "name", op.name), Call(op.node, "note", op.note)>>

LEMMA OpCallsAre ==
  ASSUME NEW op \in Ops, ~Malformed(op)
  PROVE  Shaped(op)
<1>1. op.node \in Nodes /\ op.kind \in {"create", "edit", "delete", "move", "complete"}
  BY DEF Ops, Malformed
<1>2. CASE op.kind = "create"
  <2>1. OpCalls(op) = <<Creation(op)>>
    BY <1>2 DEF OpCalls, Creation
  <2>2. Creation(op) \in Calls
    BY <1>2 DEF Creation, Calls, NodeStates, Ops
  <2> QED
    BY <1>1, <1>2, <2>1, <2>2 DEF Shaped
<1>3. CASE op.kind = "delete"
  BY <1>1, <1>3 DEF OpCalls, Deletion, Shaped
<1>4. CASE op.kind = "move"
  <2>1. op.parent \in Nodes
    BY <1>4 DEF Ops
  <2>2. OpCalls(op) = Write(op.node, "parent", op.parent) /\ op.parent # Untouched
    BY <1>4, <2>1, FieldAssumption DEF OpCalls
  <2> QED
    BY <1>1, <1>4, <2>1, <2>2, WriteIs DEF Shaped
<1>5. CASE op.kind = "complete"
  <2>1. op.done \in BOOLEAN
    BY <1>5 DEF Ops
  <2>2. OpCalls(op) = Write(op.node, "done", op.done) /\ op.done # Untouched
    BY <1>5, <2>1, FieldAssumption DEF OpCalls
  <2> QED
    BY <1>1, <1>5, <2>1, <2>2, WriteIs DEF Shaped
<1>6. CASE op.kind = "edit"
  <2>1. /\ op.name \in Names \cup {Untouched} /\ op.note \in Notes \cup {Untouched}
        /\ op.name # Untouched \/ op.note # Untouched
    BY <1>6 DEF Ops, Malformed
  <2>2. OpCalls(op) = Write(op.node, "name", op.name) \o Write(op.node, "note", op.note)
    BY <1>6 DEF OpCalls
  <2>3. CASE op.note = Untouched
    <3>1. Write(op.node, "name", op.name) = <<Call(op.node, "name", op.name)>>
      BY <2>1, <2>3, WriteIs
    <3>2. Write(op.node, "note", op.note) = <<>>
      BY <2>1, <2>3, WriteIs
    <3>3. OpCalls(op) = <<Call(op.node, "name", op.name)>>
      BY <2>2, <3>1, <3>2, Joined
    <3> QED
      BY <1>1, <1>6, <2>1, <2>3, <3>3 DEF Shaped
  <2>4. CASE op.name = Untouched
    <3>1. Write(op.node, "name", op.name) = <<>>
      BY <2>1, <2>4, WriteIs
    <3>2. Write(op.node, "note", op.note) = <<Call(op.node, "note", op.note)>>
      BY <2>1, <2>4, WriteIs
    <3>3. OpCalls(op) = <<Call(op.node, "note", op.note)>>
      BY <2>2, <3>1, <3>2, Joined
    <3> QED
      BY <1>1, <1>6, <2>1, <2>4, <3>3 DEF Shaped
  <2>5. CASE op.name # Untouched /\ op.note # Untouched
    <3>1. Write(op.node, "name", op.name) = <<Call(op.node, "name", op.name)>>
      BY <2>1, <2>5, WriteIs
    <3>2. Write(op.node, "note", op.note) = <<Call(op.node, "note", op.note)>>
      BY <2>1, <2>5, WriteIs
    <3>3. OpCalls(op) = <<Call(op.node, "name", op.name), Call(op.node, "note", op.note)>>
      BY <2>2, <3>1, <3>2, Joined
    <3> QED
      BY <1>1, <1>6, <2>1, <2>5, <3>3 DEF Shaped
  <2> QED
    BY <2>3, <2>4, <2>5
<1> QED
  BY <1>1, <1>2, <1>3, <1>4, <1>5, <1>6

LEMMA CallTyped ==
  ASSUME NEW n \in Nodes
  PROVE  /\ Deletion(n) \in Calls
         /\ \A v \in Names : Call(n, "name", v) \in Calls
         /\ \A v \in Notes : Call(n, "note", v) \in Calls
         /\ \A v \in Nodes : Call(n, "parent", v) \in Calls
         /\ \A v \in BOOLEAN : Call(n, "done", v) \in Calls
BY DEF Deletion, Call, Calls

LEMMA OpCallsTyped ==
  ASSUME NEW op \in Ops, ~Malformed(op)
  PROVE  OpCalls(op) \in Seq(Calls) /\ OpCalls(op) # <<>>
<1>0. Shaped(op) /\ op.node \in Nodes
  BY OpCallsAre DEF Shaped
<1>1. CASE op.kind = "create"
  <2>1. OpCalls(op) = <<Creation(op)>> /\ Creation(op) \in Calls
    BY <1>0, <1>1 DEF Shaped
  <2> QED
    BY <2>1
<1>2. CASE op.kind = "delete"
  <2>1. OpCalls(op) = <<Deletion(op.node)>> /\ Deletion(op.node) \in Calls
    BY <1>0, <1>2, CallTyped DEF Shaped
  <2> QED
    BY <2>1
<1>3. CASE op.kind = "move"
  <2>1. OpCalls(op) = <<Call(op.node, "parent", op.parent)>> /\ op.parent \in Nodes
    BY <1>0, <1>3 DEF Shaped
  <2>2. Call(op.node, "parent", op.parent) \in Calls
    BY <1>0, <2>1, CallTyped
  <2> QED
    BY <2>1, <2>2
<1>4. CASE op.kind = "complete"
  <2>1. OpCalls(op) = <<Call(op.node, "done", op.done)>> /\ op.done \in BOOLEAN
    BY <1>0, <1>4 DEF Shaped
  <2>2. Call(op.node, "done", op.done) \in Calls
    BY <1>0, <2>1, CallTyped
  <2> QED
    BY <2>1, <2>2
<1>5. CASE op.kind = "edit"
  <2> DEFINE N == Call(op.node, "name", op.name)
             M == Call(op.node, "note", op.note)
  <2>1. /\ op.name # Untouched => N \in Calls
        /\ op.note # Untouched => M \in Calls
    BY <1>0, <1>5, CallTyped DEF Shaped
  <2>2. \/ op.name # Untouched /\ OpCalls(op) = <<N>>
        \/ op.note # Untouched /\ OpCalls(op) = <<M>>
        \/ op.name # Untouched /\ op.note # Untouched /\ OpCalls(op) = <<N, M>>
    BY <1>0, <1>5 DEF Shaped
  <2> HIDE DEF N, M
  <2>3. CASE op.name # Untouched /\ OpCalls(op) = <<N>>
    BY <2>1, <2>3
  <2>4. CASE op.note # Untouched /\ OpCalls(op) = <<M>>
    BY <2>1, <2>4
  <2>5. CASE op.name # Untouched /\ op.note # Untouched /\ OpCalls(op) = <<N, M>>
    BY <2>1, <2>5
  <2> QED
    BY <2>2, <2>3, <2>4, <2>5
<1> QED
  BY <1>0, <1>1, <1>2, <1>3, <1>4, <1>5 DEF Shaped

\* What undoes an operation, by its kind.
Undone(op, prev, calls) ==
  /\ op.kind \in {"create", "edit", "move", "complete"}
  /\ op.kind = "create" => calls = <<Deletion(op.node)>>
  /\ op.kind = "edit" =>
       /\ prev \in NodeStates
       /\ prev.note = NoNote => calls = <<Call(op.node, "name", prev.name)>>
       /\ prev.note # NoNote =>
            calls = <<Call(op.node, "name", prev.name), Call(op.node, "note", prev.note)>>
  /\ op.kind = "move" =>
       /\ prev = Unread \/ prev.parent = Top => calls = <<>>
       /\ prev # Unread /\ prev.parent # Top =>
            prev \in NodeStates /\ calls = <<Call(op.node, "parent", prev.parent)>>
  /\ op.kind = "complete" =>
       prev \in NodeStates /\ calls = <<Call(op.node, "done", prev.done)>>

LEMMA UndoCallsAre ==
  ASSUME NEW op \in Ops, ~Malformed(op), NEW prev \in NodeStates \cup {Unread},
         Invertible(op, prev)
  PROVE  Undone(op, prev, UndoCalls(op, prev)) /\ op.node \in Nodes
<1>0. op.node \in Nodes /\ op.kind \in {"create", "edit", "move", "complete"}
  BY DEF Ops, Malformed, Invertible
<1>1. ASSUME prev \in NodeStates
      PROVE  /\ prev.name \in Names /\ prev.note \in Notes \cup {NoNote}
             /\ prev.parent \in Nodes \cup {Top} /\ prev.done \in BOOLEAN
  BY <1>1 DEF NodeStates
<1>2. CASE op.kind = "create"
  BY <1>0, <1>2 DEF Undone, UndoCalls, Deletion
<1>3. CASE op.kind = "edit"
  <2>1. prev \in NodeStates
    BY <1>3 DEF Invertible
  <2>2. Write(op.node, "name", prev.name) = <<Call(op.node, "name", prev.name)>>
    BY <1>1, <2>1, WriteIs, FieldAssumption
  <2>3. CASE prev.note = NoNote
    <3>1. UndoCalls(op, prev) = Write(op.node, "name", prev.name) \o <<>>
      BY <1>3, <2>3 DEF UndoCalls
    <3>2. UndoCalls(op, prev) = <<Call(op.node, "name", prev.name)>>
      BY <2>2, <3>1, Joined
    <3> QED
      BY <1>0, <1>3, <2>1, <2>3, <3>2 DEF Undone
  <2>4. CASE prev.note # NoNote
    <3>1. UndoCalls(op, prev)
            = Write(op.node, "name", prev.name) \o Write(op.node, "note", prev.note)
      BY <1>3, <2>4 DEF UndoCalls
    <3>2. prev.note # Untouched
      BY <1>1, <2>1, <2>4, FieldAssumption
    <3>3. Write(op.node, "note", prev.note) = <<Call(op.node, "note", prev.note)>>
      BY <3>2, WriteIs
    <3>4. UndoCalls(op, prev)
            = <<Call(op.node, "name", prev.name), Call(op.node, "note", prev.note)>>
      BY <2>2, <3>1, <3>3, Joined
    <3> QED
      BY <1>0, <1>3, <2>1, <2>4, <3>4 DEF Undone
  <2> QED
    BY <2>3, <2>4
<1>4. CASE op.kind = "move"
  <2>1. CASE prev = Unread \/ prev.parent = Top
    BY <1>0, <1>4, <2>1 DEF Undone, UndoCalls
  <2>2. CASE prev # Unread /\ prev.parent # Top
    <3>1. prev \in NodeStates /\ prev.parent # Untouched
      BY <1>1, <2>2, FieldAssumption
    <3>2. UndoCalls(op, prev) = Write(op.node, "parent", prev.parent)
      BY <1>4, <2>2 DEF UndoCalls
    <3>3. UndoCalls(op, prev) = <<Call(op.node, "parent", prev.parent)>>
      BY <3>1, <3>2, WriteIs
    <3> QED
      BY <1>0, <1>4, <2>2, <3>1, <3>3 DEF Undone
  <2> QED
    BY <2>1, <2>2
<1>5. CASE op.kind = "complete"
  <2>1. prev \in NodeStates
    BY <1>5 DEF Invertible
  <2>2. UndoCalls(op, prev) = Write(op.node, "done", prev.done)
    BY <1>5 DEF UndoCalls
  <2>3. UndoCalls(op, prev) = <<Call(op.node, "done", prev.done)>>
    BY <1>1, <2>1, <2>2, WriteIs, FieldAssumption
  <2> QED
    BY <1>0, <1>5, <2>1, <2>3 DEF Undone
<1> QED
  BY <1>0, <1>2, <1>3, <1>4, <1>5

\* The calls of an inverse are about its node, and are what they may be.
Inverts(n, calls) ==
  /\ n \in Nodes /\ calls \in Seq(Calls)
  /\ \A j \in DOMAIN calls : calls[j].node = n
  /\ calls = <<Deletion(n)>> \/ \A j \in DOMAIN calls : calls[j].do \in Fields

LEMMA UndoCallsTyped ==
  ASSUME NEW op \in Ops, NEW prev \in NodeStates \cup {Unread}, NEW calls,
         op.node \in Nodes, Undone(op, prev, calls)
  PROVE  Inverts(op.node, calls)
<1> DEFINE n == op.node
<1>1. ASSUME prev \in NodeStates
      PROVE  /\ prev.name \in Names /\ prev.note \in Notes \cup {NoNote}
             /\ prev.parent \in Nodes \cup {Top} /\ prev.done \in BOOLEAN
  BY <1>1 DEF NodeStates
<1>2. ASSUME NEW c \in Calls, c.node = n, c.do \in Fields, calls = <<c>>
      PROVE  Inverts(n, calls)
  BY <1>2 DEF Inverts
<1>3. ASSUME NEW f, NEW v PROVE Call(n, f, v).node = n /\ Call(n, f, v).do = f
  BY DEF Call
<1>4. CASE op.kind = "create"
  <2>1. calls = <<Deletion(n)>> /\ Deletion(n) \in Calls /\ Deletion(n).node = n
    BY <1>4, CallTyped DEF Undone, Deletion
  <2> HIDE DEF n
  <2> QED
    BY <2>1 DEF Inverts, n
<1>5. CASE op.kind = "edit"
  <2> DEFINE N == Call(n, "name", prev.name)
             M == Call(n, "note", prev.note)
  <2>1. prev \in NodeStates /\ N \in Calls /\ N.node = n /\ N.do \in Fields
    BY <1>1, <1>3, <1>5, CallTyped DEF Undone, Fields
  <2>2. CASE prev.note = NoNote
    <3>1. calls = <<N>>
      BY <1>5, <2>2 DEF Undone
    <3> QED
      BY <1>2, <2>1, <3>1
  <2>3. CASE prev.note # NoNote
    <3>1. calls = <<N, M>>
      BY <1>5, <2>3 DEF Undone
    <3>2. M \in Calls /\ M.node = n /\ M.do \in Fields
      BY <1>1, <1>3, <2>1, <2>3, CallTyped DEF Fields
    <3> HIDE DEF N, M
    <3>3. calls \in Seq(Calls) /\ DOMAIN calls = 1..2 /\ calls[1] = N /\ calls[2] = M
      BY <2>1, <3>1, <3>2
    <3>4. \A j \in DOMAIN calls : calls[j] = N \/ calls[j] = M
      BY <3>3
    <3> QED
      BY <2>1, <3>2, <3>3, <3>4 DEF Inverts
  <2> QED
    BY <2>2, <2>3
<1>6. CASE op.kind = "move"
  <2>1. CASE prev = Unread \/ prev.parent = Top
    <3>1. calls = <<>>
      BY <1>6, <2>1 DEF Undone
    <3>2. DOMAIN calls = {} /\ calls \in Seq(Calls)
      BY <3>1
    <3> QED
      BY <3>2 DEF Inverts
  <2>2. CASE prev # Unread /\ prev.parent # Top
    <3>1. prev.parent \in Nodes /\ calls = <<Call(n, "parent", prev.parent)>>
      BY <1>1, <1>6, <2>2 DEF Undone
    <3>2. Call(n, "parent", prev.parent) \in Calls
      BY <3>1, CallTyped
    <3> QED
      BY <1>2, <1>3, <3>1, <3>2 DEF Fields
  <2> QED
    BY <2>1, <2>2
<1>7. CASE op.kind = "complete"
  <2>1. prev \in NodeStates /\ calls = <<Call(n, "done", prev.done)>>
    BY <1>7 DEF Undone
  <2>2. Call(n, "done", prev.done) \in Calls
    BY <1>1, <2>1, CallTyped
  <2> QED
    BY <1>2, <1>3, <2>1, <2>2 DEF Fields
<1> QED
  BY <1>4, <1>5, <1>6, <1>7 DEF Undone

-----------------------------------------------------------------------------
(* Where a transaction is.                                                 *)

\* The calls left of the operation at hand: all, or an edit's second.
Underway ==
  \/ todo = OpCalls(Op)
  \/ /\ Op.kind = "edit" /\ Op.name # Untouched /\ Op.note # Untouched
     /\ todo = <<Call(Op.node, "note", Op.note)>>

TInv ==
  /\ TypeOK
  /\ read \in NodeStates \cup {Unread}
  /\ phase = "writing" => pos <= Len(ops) /\ ~Malformed(Op) /\ Underway
  /\ phase = "undoing" => todo # <<>>
  /\ outcome = "open" <=> phase # "over"

LEMMA OpTyped ==
  ASSUME TypeOK, pos <= Len(ops)
  PROVE  Op \in Ops
<1>1. ops \in Seq(Ops) /\ pos \in 1 .. Len(ops) + 1
  BY ProgramAssumption DEF TypeOK
<1>2. Len(ops) \in Nat
  BY <1>1, LenProperties
<1>3. pos \in 1 .. Len(ops)
  BY <1>1, <1>2
<1> QED
  BY <1>1, <1>3, ElementOfSeq DEF Op

LEMMA HeadTyped ==
  ASSUME NEW s \in Seq(Calls), s # <<>>
  PROVE  /\ Head(s) \in Calls /\ Tail(s) \in Seq(Calls) /\ Len(s) \in Nat \ {0}
         /\ Len(s) # 1 => Tail(s) # <<>>
         /\ Head(s) = s[1] /\ 1 \in DOMAIN s
         /\ DOMAIN Tail(s) = 1 .. Len(s) - 1
         /\ \A j \in DOMAIN Tail(s) : j + 1 \in DOMAIN s /\ Tail(s)[j] = s[j + 1]
<1>1. /\ Head(s) \in Calls /\ Tail(s) \in Seq(Calls) /\ Head(s) = s[1]
      /\ Len(Tail(s)) = Len(s) - 1
      /\ \A i \in 1 .. Len(s) - 1 : Tail(s)[i] = s[i + 1]
  BY HeadTailProperties
<1>2. Len(s) \in Nat \ {0} /\ DOMAIN s = 1 .. Len(s) /\ DOMAIN Tail(s) = 1 .. Len(s) - 1
  BY <1>1, EmptySeq, LenProperties
<1>3. Len(s) # 1 => Len(Tail(s)) # 0
  BY <1>1, <1>2
<1>4. Len(s) # 1 => Tail(s) # <<>>
  BY <1>3, EmptySeq
<1> QED
  BY <1>1, <1>2, <1>4

\* The call at hand in an operation.

LEMMA AtHand ==
  ASSUME TInv, phase = "writing"
  PROVE  /\ Op \in Ops /\ ~Malformed(Op) /\ Shaped(Op) /\ Op.node \in Nodes
         /\ todo \in Seq(Calls) /\ todo # <<>> /\ Head(todo) \in Calls
         /\ \/ Len(todo) = 1
            \/ /\ Op.kind = "edit" /\ Op.name # Untouched /\ Op.note # Untouched
               /\ todo = OpCalls(Op) /\ Len(todo) = 2
               /\ Head(todo) = Call(Op.node, "name", Op.name)
               /\ Tail(todo) = <<Call(Op.node, "note", Op.note)>>
<1>1. Op \in Ops /\ ~Malformed(Op) /\ Underway /\ todo \in Seq(Calls)
  BY OpTyped DEF TInv, TypeOK
<1>2. Shaped(Op) /\ Op.node \in Nodes
  BY <1>1, OpCallsAre DEF Shaped
<1>3. todo # <<>>
  <2>1. CASE todo = OpCalls(Op)
    BY <1>1, <2>1, OpCallsTyped
  <2>2. CASE todo = <<Call(Op.node, "note", Op.note)>>
    BY <2>2
  <2> QED
    BY <1>1, <2>1, <2>2 DEF Underway
<1>4. ASSUME NEW c, todo = <<c>> PROVE Len(todo) = 1
  BY <1>4
<1>5. CASE todo = OpCalls(Op)
  <2>1. CASE Op.kind = "edit" /\ Op.name # Untouched /\ Op.note # Untouched
    <3> DEFINE N == Call(Op.node, "name", Op.name)
               M == Call(Op.node, "note", Op.note)
    <3>1. todo = <<N, M>>
      BY <1>2, <1>5, <2>1 DEF Shaped
    <3> HIDE DEF N, M
    <3>2. Len(todo) = 2 /\ Head(todo) = N /\ Tail(todo) = <<M>>
      BY <3>1
    <3> QED
      BY <1>1, <1>2, <1>3, <1>5, <2>1, <3>2, HeadTyped DEF N, M
  <2>2. CASE ~(Op.kind = "edit" /\ Op.name # Untouched /\ Op.note # Untouched)
    <3>1. \E c : todo = <<c>>
      BY <1>2, <1>5, <2>2 DEF Shaped
    <3> QED
      BY <1>1, <1>2, <1>3, <1>4, <3>1, HeadTyped
  <2> QED
    BY <2>1, <2>2
<1>6. CASE todo # OpCalls(Op)
  BY <1>1, <1>2, <1>3, <1>4, <1>6, HeadTyped DEF Underway
<1> QED
  BY <1>5, <1>6

LEMMA DamageTyped ==
  ASSUME TInv, phase = "writing"
  PROVE  BeyondUndo(Op, read) \subseteq Nodes /\ Subtree(tree, Op.node) \subseteq Nodes
<1>1. Subtree(tree, Op.node) \subseteq Nodes
  BY DEF Subtree
<1>2. Op.node \in Nodes /\ Op.kind \in {"create", "edit", "delete", "move", "complete"}
  BY AtHand DEF Shaped
<1>3. BeyondUndo(Op, read) \in {{}, {Op.node}, Subtree(tree, Op.node)}
  BY <1>2 DEF BeyondUndo
<1> QED
  BY <1>1, <1>2, <1>3

LEMMA TInit == Init => TInv
<1> SUFFICES ASSUME Init PROVE TInv
  OBVIOUS
<1>1. ops \in Seq(Ops) /\ ops # <<>>
  BY ProgramAssumption DEF Init
<1>2. Len(ops) \in Nat \ {0}
  BY <1>1, EmptySeq
<1>3. pos \in 1 .. Len(ops) + 1
  BY <1>2 DEF Init
<1>4. todo \in Seq(Calls) /\ stack \in Seq(Inverses) /\ copies \in [Places -> Nat]
  BY DEF Init
<1> QED
  BY <1>3, <1>4, TreeAssumption DEF Init, TInv, TypeOK

LEMMA ReadTyped ==
  ASSUME TInv, Read
  PROVE  TInv'
<1>1. pos <= Len(ops) /\ ~Malformed(Op) /\ Op \in Ops
  BY OpTyped DEF Read, TInv
<1>2. read' \in NodeStates \cup {Unread}
  <2>1. CASE read' = Unread
    BY <2>1
  <2>2. CASE ReadsFirst(Op) /\ Exists(tree, Op.node) /\ read' = tree[Op.node]
    <3>1. Op.node \in Nodes
      BY <1>1 DEF Ops, Malformed
    <3>2. tree[Op.node].live
      BY <2>2, <3>1, FieldAssumption DEF Exists
    <3> QED
      BY <2>2, <3>1, <3>2, Nodewise DEF TInv, TypeOK
  <2> QED
    BY <2>1, <2>2 DEF Read
<1>3. todo' = OpCalls(Op) /\ todo' \in Seq(Calls) /\ Op' = Op
  BY <1>1, OpCallsTyped DEF Read, Op
<1> QED
  BY <1>1, <1>2, <1>3 DEF Read, TInv, TypeOK, Underway

LEMMA CopiesTyped ==
  ASSUME TypeOK, NEW c \in Calls, Lands(c)
  PROVE  copies' \in [Places -> Nat]
<1>1. PICK k \in 0 .. Attempts - 1 : copies' = Copied(tree, c, k)
  BY DEF Lands
<1>2. k \in Nat /\ copies \in [Places -> Nat]
  BY AttemptsAssumption DEF TypeOK
<1>3. CASE c.do = "create"
  <2>1. copies' = [copies EXCEPT ![c.arg.parent] = @ + k]
    BY <1>1, <1>3 DEF Copied
  <2>2. c.arg.parent \in Places
    BY <1>3 DEF Calls, NodeStates, Places
  <2>3. copies[c.arg.parent] + k \in Nat
    BY <1>2, <2>2
  <2> QED
    BY <1>2, <2>1, <2>2, <2>3
<1>4. CASE c.do = "delete"
  <2>1. copies' = [q \in Places |-> IF q \in Subtree(tree, c.node) THEN 0 ELSE copies[q]]
    BY <1>1, <1>4 DEF Copied
  <2> QED
    BY <1>2, <2>1
<1>5. CASE c.do # "create" /\ c.do # "delete"
  BY <1>1, <1>2, <1>5 DEF Copied
<1> QED
  BY <1>3, <1>4, <1>5

LEMMA LandTyped ==
  ASSUME TInv, Land
  PROVE  TInv'
<1> DEFINE c == Head(todo)
<1>1. phase = "writing" /\ Possible(tree, c) /\ tree' = Done(tree, c) /\ todo' = Tail(todo)
  BY DEF Land, Lands
<1>2. /\ Op \in Ops /\ ~Malformed(Op) /\ Op.node \in Nodes /\ todo \in Seq(Calls)
      /\ todo # <<>> /\ c \in Calls
  BY <1>1, AtHand
<1>3. tree \in Trees /\ tree' \in Trees
  BY <1>1, <1>2, DoneTyped DEF TInv, TypeOK
<1>4. todo' \in Seq(Calls) /\ copies' \in [Places -> Nat]
  BY <1>1, <1>2, HeadTyped, CopiesTyped DEF Land, TInv
<1>5. CASE Len(todo) = 1
  <2>1. pos' = pos + 1 /\ pos' \in 1 .. Len(ops) + 1
    <3>1. pos <= Len(ops) /\ pos \in 1 .. Len(ops) + 1 /\ pos' = pos + 1
      BY <1>1, <1>5 DEF Land, TInv, TypeOK
    <3>2. Len(ops) \in Nat
      BY ProgramAssumption, LenProperties DEF TInv, TypeOK
    <3> QED
      BY <3>1, <3>2
  <2>2. stack' \in Seq(Inverses)
    <3>1. CASE Invertible(Op, read)
      <4> DEFINE calls == UndoCalls(Op, read)
      <4>1. Inverts(Op.node, calls)
        BY <1>2, <3>1, UndoCallsAre, UndoCallsTyped DEF TInv
      <4>2. [node |-> Op.node, calls |-> calls] \in Inverses
        BY <1>2, <4>1 DEF Inverts, Inverses
      <4>3. stack' = Append(stack, [node |-> Op.node, calls |-> calls])
        BY <1>1, <1>5, <3>1 DEF Land
      <4> HIDE DEF calls
      <4> QED
        BY <4>2, <4>3, AppendProperties DEF TInv, TypeOK
    <3>2. CASE ~Invertible(Op, read)
      BY <1>5, <3>2 DEF Land, TInv, TypeOK
    <3> QED
      BY <3>1, <3>2
  <2>3. damaged' \subseteq Nodes
    BY <1>1, <1>5, DamageTyped DEF Land, TInv, TypeOK
  <2>4. phase' = "next" /\ UNCHANGED <<read, window, outcome, ops>>
    BY <1>5 DEF Land
  <2> QED
    BY <1>1, <1>3, <1>4, <2>1, <2>2, <2>3, <2>4 DEF TInv, TypeOK
<1>6. CASE Len(todo) # 1
  <2>1. UNCHANGED <<phase, pos, stack, damaged, read, window, outcome, ops>>
    BY <1>6 DEF Land
  <2>2. /\ Op.kind = "edit" /\ Op.name # Untouched /\ Op.note # Untouched
        /\ todo' = <<Call(Op.node, "note", Op.note)>>
    BY <1>1, <1>6, AtHand
  <2>3. Op' = Op
    BY <2>1 DEF Op
  <2> QED
    BY <1>1, <1>2, <1>3, <1>4, <2>1, <2>2, <2>3 DEF TInv, TypeOK, Underway
<1> QED
  BY <1>5, <1>6

LEMMA FailTyped ==
  ASSUME TInv, Fail
  PROVE  TInv'
<1>1. /\ Head(todo) \in Calls /\ Op.node \in Nodes /\ Subtree(tree, Op.node) \subseteq Nodes
  BY AtHand, DamageTyped DEF Fail
<1>2. tree' \in Trees /\ copies' \in [Places -> Nat] /\ damaged' \subseteq Nodes
  <2>1. CASE UNCHANGED <<tree, copies>> /\ damaged' \in {damaged, damaged \cup {Op.node}}
    BY <1>1, <2>1 DEF TInv, TypeOK
  <2>2. CASE /\ Lands(Head(todo))
             /\ damaged' = damaged \cup
                  (IF Op.kind = "delete" THEN Subtree(tree, Op.node) ELSE {Op.node})
    <3>1. Possible(tree, Head(todo)) /\ tree' = Done(tree, Head(todo))
      BY <2>2 DEF Lands
    <3>2. copies' \in [Places -> Nat]
      BY <1>1, <2>2, CopiesTyped DEF TInv
    <3> QED
      BY <1>1, <2>2, <3>1, <3>2, DoneTyped DEF TInv, TypeOK
  <2> QED
    BY <2>1, <2>2 DEF Fail
<1>3. todo' \in Seq(Calls)
  BY EmptySeq DEF Fail
<1>4. window' \in BOOLEAN
  BY DEF Fail, TInv, TypeOK
<1>5. phase' = "rolling" /\ phase = "writing" /\ UNCHANGED <<pos, read, stack, outcome, ops>>
  BY DEF Fail
<1> QED
  BY <1>2, <1>3, <1>4, <1>5 DEF TInv, TypeOK

LEMMA UndoTyped ==
  ASSUME TInv, Undo
  PROVE  /\ TInv' /\ Newest \in Inverses /\ Newest = stack[Len(stack)]
         /\ Len(stack) \in Nat \ {0} /\ Len(stack') = Len(stack) - 1
         /\ \A i \in 1 .. Len(stack) - 1 : stack'[i] = stack[i]
<1>1. stack \in Seq(Inverses) /\ stack # <<>> /\ stack' = SubSeq(stack, 1, Len(stack) - 1)
  BY DEF Undo, TInv, TypeOK
<1>2. Len(stack) \in Nat \ {0}
  BY <1>1, EmptySeq
<1>3. Newest \in Inverses /\ Newest = stack[Len(stack)]
  BY <1>1, <1>2, ElementOfSeq DEF Newest
<1>4. /\ stack' \in Seq(Inverses) /\ Len(stack') = Len(stack) - 1
      /\ \A i \in 1 .. Len(stack) - 1 : stack'[i] = stack[i]
  <2> DEFINE k == Len(stack) - 1
  <2>1. k \in Nat /\ k + 1 = Len(stack) /\ 1 \in 1 .. k + 1 /\ k \in 0 .. Len(stack)
    BY <1>2
  <2>2. /\ SubSeq(stack, 1, k) \in Seq(Inverses) /\ Len(SubSeq(stack, 1, k)) = k
        /\ \A i \in 1 .. k : SubSeq(stack, 1, k)[i] = stack[i]
    BY <1>1, <2>1, SubSeqProperties
  <2> QED
    BY <1>1, <2>2
<1>5. Newest.calls \in Seq(Calls)
  BY <1>3 DEF Inverses
<1>6. TInv'
  BY <1>4, <1>5 DEF Undo, TInv, TypeOK
<1> QED
  BY <1>2, <1>3, <1>4, <1>6

LEMMA UndoingTyped ==
  ASSUME TInv, UndoLand \/ UndoFail
  PROVE  TInv'
<1>1. /\ todo \in Seq(Calls) /\ todo # <<>> /\ Head(todo) \in Calls /\ Head(todo).node \in Nodes
  BY HeadTyped DEF UndoLand, UndoFail, TInv, TypeOK, Calls
<1>2. tree' \in Trees
  BY <1>1, DoneTyped DEF UndoLand, UndoFail, TInv, TypeOK, Lands
<1>0. copies' \in [Places -> Nat]
  <2>1. CASE Lands(Head(todo))
    BY <1>1, <2>1, CopiesTyped DEF TInv
  <2>2. CASE UNCHANGED <<tree, copies>>
    BY <2>2 DEF TInv, TypeOK
  <2> QED
    BY <2>1, <2>2 DEF UndoLand, UndoFail
<1>3. Tail(todo) \in Seq(Calls) /\ (Len(todo) # 1 => Tail(todo) # <<>>)
  BY <1>1, HeadTyped
<1>4. CASE UndoLand
  <2>1. phase' \in {"rolling", "undoing"} /\ (phase' = "undoing" => todo' # <<>>)
    BY <1>3, <1>4 DEF UndoLand
  <2>2. todo' \in Seq(Calls) /\ UNCHANGED <<pos, read, stack, window, outcome, damaged, ops>>
    BY <1>3, <1>4 DEF UndoLand
  <2>3. phase = "undoing"
    BY <1>4 DEF UndoLand
  <2> QED
    BY <1>0, <1>2, <2>1, <2>2, <2>3 DEF TInv, TypeOK
<1>5. CASE UndoFail
  <2>1. todo' \in Seq(Calls)
    BY <1>5 DEF UndoFail
  <2> QED
    BY <1>0, <1>1, <1>2, <1>5, <2>1 DEF UndoFail, TInv, TypeOK
<1> QED
  BY <1>4, <1>5

LEMMA TNext == TInv /\ [Next]_vars => TInv'
<1> SUFFICES ASSUME TInv, [Next]_vars PROVE TInv'
  OBVIOUS
<1>1. CASE Commit \/ Reject \/ RolledBack \/ Drop
  <2>1. /\ UNCHANGED <<tree, copies, pos, read, todo, stack, window, damaged, ops>>
        /\ phase # "over"
        /\ \/ phase' = "over" /\ outcome' \in {"applied", "rolledBack", "dropped"}
           \/ phase' = "rolling" /\ outcome' = outcome
    BY <1>1 DEF Commit, Reject, RolledBack, Drop
  <2> QED
    BY <2>1 DEF TInv, TypeOK
<1>2. CASE Read
  BY <1>2, ReadTyped
<1>3. CASE Land
  BY <1>3, LandTyped
<1>4. CASE Fail
  BY <1>4, FailTyped
<1>5. CASE Undo
  BY <1>5, UndoTyped
<1>6. CASE UndoLand \/ UndoFail
  BY <1>6, UndoingTyped
<1>7. CASE WindowTurns \/ UNCHANGED vars
  BY <1>7 DEF WindowTurns, vars, TInv, TypeOK, Underway, Op
<1> QED
  BY <1>1, <1>2, <1>3, <1>4, <1>5, <1>6, <1>7 DEF Next, Step

(* Every variable of a transaction keeps its type.                         *)
THEOREM TypeCorrect == Spec => []TypeOK
<1>1. TInv => TypeOK
  BY DEF TInv
<1> QED
  BY <1>1, TInit, TNext, PTL DEF Spec

-----------------------------------------------------------------------------
(* Subtrees.                                                               *)

LEMMA SubtreeRoot ==
  ASSUME NEW t, NEW n \in Nodes
  PROVE  n \in Subtree(t, n)
BY DEF Subtree

LEMMA SubtreeClosed ==
  ASSUME NEW t, NEW n \in Nodes, NEW c \in Nodes, t[c].live, t[c].parent \in Subtree(t, n)
  PROVE  c \in Subtree(t, n)
BY DEF Subtree

LEMMA SubtreeLeast ==
  ASSUME NEW t, NEW n \in Nodes, NEW S \in SUBSET Nodes, n \in S,
         \A c \in Nodes : t[c].live /\ t[c].parent \in S => c \in S
  PROVE  Subtree(t, n) \subseteq S
BY DEF Subtree

LEMMA SubtreeOfSubtree ==
  ASSUME NEW t, NEW n \in Nodes, NEW m \in Subtree(t, n)
  PROVE  Subtree(t, m) \subseteq Subtree(t, n)
<1>1. m \in Nodes /\ Subtree(t, n) \in SUBSET Nodes
  BY DEF Subtree
<1>2. \A c \in Nodes : t[c].live /\ t[c].parent \in Subtree(t, n) => c \in Subtree(t, n)
  BY SubtreeClosed
<1> QED
  BY <1>1, <1>2, SubtreeLeast

-----------------------------------------------------------------------------
(* What a rollback restores. The zone is what was, before the transaction, *)
(* at or below a damaged node. All of the rest is about nodes outside it.  *)
(* Ghosts: h[j] is the outline before the operation whose inverse is       *)
(* stack[j], the last of them the one at hand or the one that failed.      *)

Zone == {n \in Nodes : \E m \in damaged : n \in Subtree(Tree0, m)}
Closed(Z) == Z \subseteq Nodes /\ \A m \in Z : Subtree(Tree0, m) \subseteq Z

\* Where a field is not what it was, one of the calls writes it back.
FieldBack(calls, f, now, old) ==
  /\ \A j \in DOMAIN calls : calls[j].do = f => calls[j].arg = old
  /\ now = old \/ \E j \in DOMAIN calls : calls[j].do = f
Restores(calls, n, now, old) ==
  \/ calls = <<Deletion(n)>> /\ old = Absent
  \/ /\ now \in NodeStates /\ old \in NodeStates
     /\ \A j \in DOMAIN calls : calls[j].do \in Fields
     /\ FieldBack(calls, "name", now.name, old.name)
     /\ FieldBack(calls, "note", now.note, old.note)
     /\ FieldBack(calls, "parent", now.parent, old.parent)
     /\ FieldBack(calls, "done", now.done, old.done)

\* A node that is created has nothing below it yet.
Childless(u, t, Z) == \A x \in Nodes \ Z : t[x].live => t[x].parent # u
Undoes(e, old, new, Z) ==
  /\ Inverts(e.node, e.calls)
  /\ e.calls = <<>> => e.node \in Z
  /\ \A n \in Nodes \ Z : n # e.node => new[n] = old[n]
  /\ e.node \notin Z => Restores(e.calls, e.node, new[e.node], old[e.node])
  /\ e.calls = <<Deletion(e.node)>> => Childless(e.node, old, Z)

Chain(h, s, Z) ==
  /\ s \in Seq(Inverses) /\ h \in [1 .. Len(s) + 1 -> Trees]
  /\ \A j \in 1 .. Len(s) + 1, n \in Nodes \ Z :
       (\A i \in 1 .. j - 1 : s[i].node # n) => h[j][n] = Tree0[n]
  /\ \A j \in 1 .. Len(s) : Undoes(s[j], h[j], h[j + 1], Z)

StackNodes(s) == {s[j].node : j \in DOMAIN s}
\* It went with a node created above it; its own inverse is still to fail.
Lost(n, t, P) == \E m \in P : n \in Subtree(Tree0, m) /\ ~t[m].live

LEMMA ZoneGrows ==
  ASSUME TInv, TInv', damaged \subseteq damaged'
  PROVE  /\ Zone \subseteq Zone' /\ Closed(Zone) /\ Closed(Zone')
         /\ \A m \in damaged' : m \in Zone' /\ Subtree(Tree0, m) \subseteq Zone'
<1>1. damaged \subseteq Nodes /\ damaged' \subseteq Nodes
  BY DEF TInv, TypeOK
<1>2. \A m \in Nodes : Subtree(Tree0, m) \subseteq Nodes
  BY DEF Subtree
<1>3. Zone \subseteq Zone'
  BY DEF Zone
<1>4. Closed(Zone) /\ Closed(Zone')
  BY <1>1, <1>2, SubtreeOfSubtree DEF Zone, Closed
<1>5. \A m \in damaged' : m \in Zone' /\ Subtree(Tree0, m) \subseteq Zone'
  BY <1>1, <1>2, SubtreeRoot DEF Zone
<1> QED
  BY <1>3, <1>4, <1>5

LEMMA ChainGrows ==
  ASSUME NEW h, NEW s, NEW Z, NEW Y, Chain(h, s, Z), Z \subseteq Y
  PROVE  Chain(h, s, Y)
<1>1. ASSUME NEW j \in 1 .. Len(s) PROVE Undoes(s[j], h[j], h[j + 1], Y)
  <2>1. Undoes(s[j], h[j], h[j + 1], Z)
    BY DEF Chain
  <2> QED
    BY <2>1 DEF Undoes, Childless
<1> QED
  BY <1>1 DEF Chain

LEMMA ChainPush ==
  ASSUME NEW h, NEW s, NEW Z, Chain(h, s, Z), NEW e \in Inverses, NEW t \in Trees,
         Undoes(e, h[Len(s) + 1], t, Z)
  PROVE  \E g : Chain(g, Append(s, e), Z) /\ g[Len(Append(s, e)) + 1] = t
<1> DEFINE r == Append(s, e)
           k == Len(s)
           g == [j \in 1 .. k + 2 |-> IF j = k + 2 THEN t ELSE h[j]]
<1>1. /\ s \in Seq(Inverses) /\ k \in Nat /\ r \in Seq(Inverses) /\ Len(r) = k + 1
      /\ r[k + 1] = e /\ \A j \in 1 .. k : r[j] = s[j]
  BY AppendProperties, LenProperties DEF Chain
<1>2. g \in [1 .. k + 2 -> Trees] /\ g[k + 2] = t /\ \A j \in 1 .. k + 1 : g[j] = h[j]
  BY <1>1 DEF Chain
<1> HIDE DEF g, r, k
<1>3. ASSUME NEW j \in 1 .. k + 2, NEW n \in Nodes \ Z, \A i \in 1 .. j - 1 : r[i].node # n
      PROVE  g[j][n] = Tree0[n]
  <2>1. ASSUME NEW l \in 1 .. k + 1, \A i \in 1 .. l - 1 : r[i].node # n
        PROVE  h[l][n] = Tree0[n]
    <3>1. \A i \in 1 .. l - 1 : i \in 1 .. k /\ s[i].node # n
      BY <1>1, <2>1
    <3> QED
      BY <3>1 DEF Chain, k
  <2>2. CASE j # k + 2
    BY <1>1, <1>2, <1>3, <2>1, <2>2
  <2>3. CASE j = k + 2
    <3>1. \A i \in 1 .. k : i \in 1 .. j - 1
      BY <1>1, <2>3
    <3>2. h[k + 1][n] = Tree0[n]
      <4>1. \A i \in 1 .. (k + 1) - 1 : r[i].node # n
        BY <1>1, <1>3, <2>3
      <4> QED
        BY <1>1, <2>1, <4>1
    <3>3. e.node # n
      BY <1>1, <1>3, <2>3
    <3>4. t[n] = h[k + 1][n]
      BY <3>3 DEF Undoes, k
    <3> QED
      BY <1>2, <2>3, <3>2, <3>4
  <2> QED
    BY <2>2, <2>3
<1>4. ASSUME NEW j \in 1 .. k + 1 PROVE Undoes(r[j], g[j], g[j + 1], Z)
  <2>1. CASE j = k + 1
    <3>1. r[j] = e /\ g[j] = h[k + 1] /\ g[j + 1] = t
      BY <1>1, <1>2, <2>1
    <3> QED
      BY <3>1 DEF k
  <2>2. CASE j # k + 1
    <3>1. j \in 1 .. k /\ j \in 1 .. k + 1 /\ j + 1 \in 1 .. k + 1
      BY <1>1, <2>2
    <3>2. r[j] = s[j] /\ g[j] = h[j] /\ g[j + 1] = h[j + 1]
      BY <1>1, <1>2, <3>1
    <3> QED
      BY <3>1, <3>2 DEF Chain, k
  <2> QED
    BY <2>1, <2>2
<1>5. Chain(g, r, Z) /\ g[Len(r) + 1] = t
  <2>1. Len(r) + 1 = k + 2
    BY <1>1
  <2> QED
    BY <1>1, <1>2, <1>3, <1>4, <2>1 DEF Chain
<1> QED
  BY <1>5 DEF r

LEMMA ChainPop ==
  ASSUME NEW h, NEW s, NEW r, NEW Z, Chain(h, s, Z), r \in Seq(Inverses),
         Len(s) \in Nat \ {0}, Len(r) = Len(s) - 1, \A i \in 1 .. Len(s) - 1 : r[i] = s[i]
  PROVE  \E g : Chain(g, r, Z) /\ g[Len(r) + 1] = h[Len(s)]
<1> DEFINE k == Len(r)
           g == [j \in 1 .. k + 1 |-> h[j]]
<1>1. k \in Nat /\ Len(s) = k + 1 /\ \A j \in 1 .. k : r[j] = s[j]
  OBVIOUS
<1>2. g \in [1 .. k + 1 -> Trees] /\ \A j \in 1 .. k + 1 : g[j] = h[j]
  BY <1>1 DEF Chain
<1> HIDE DEF g
<1>3. ASSUME NEW j \in 1 .. k + 1, NEW n \in Nodes \ Z, \A i \in 1 .. j - 1 : r[i].node # n
      PROVE  g[j][n] = Tree0[n]
  <2>1. \A i \in 1 .. j - 1 : s[i].node # n
    BY <1>1, <1>3
  <2>2. j \in 1 .. Len(s) + 1
    BY <1>1
  <2> QED
    BY <1>2, <2>1, <2>2 DEF Chain
<1>4. ASSUME NEW j \in 1 .. k PROVE Undoes(r[j], g[j], g[j + 1], Z)
  <2>1. /\ j \in 1 .. Len(s) /\ j \in 1 .. k + 1 /\ j + 1 \in 1 .. k + 1
        /\ r[j] = s[j] /\ g[j] = h[j] /\ g[j + 1] = h[j + 1]
    BY <1>1, <1>2
  <2> QED
    BY <2>1 DEF Chain
<1>5. g[k + 1] = h[Len(s)]
  BY <1>1, <1>2
<1> QED
  BY <1>2, <1>3, <1>4, <1>5 DEF Chain

-----------------------------------------------------------------------------
(* The way forward.                                                        *)

Agrees(b) == \A n \in Nodes \ Zone : tree[n] = b[n]

\* Calls of the operation at hand have landed, or not yet.
Begun(b) ==
  /\ \A n \in Nodes \ Zone : n # Op.node => tree[n] = b[n]
  /\ Op.node \notin Zone =>
       /\ read = Unread \/ read = b[Op.node]
       /\ \/ todo = OpCalls(Op) /\ tree[Op.node] = b[Op.node]
          \/ /\ Op.kind = "edit" /\ Op.name # Untouched /\ Op.note # Untouched
             /\ todo = <<Call(Op.node, "note", Op.note)>>
             /\ tree[Op.node] \in NodeStates /\ b[Op.node] \in NodeStates
             /\ tree[Op.node].note = b[Op.node].note
             /\ tree[Op.node].parent = b[Op.node].parent
             /\ tree[Op.node].done = b[Op.node].done

Behind(b) == \A n \in Nodes \ Zone : tree[n] = b[n] \/ Lost(n, tree, StackNodes(stack))

Undoing(b, u) ==
  /\ Inverts(u, todo)
  /\ \A n \in Nodes \ Zone :
       \/ Lost(n, tree, StackNodes(stack) \cup {u})
       \/ n = u /\ Restores(todo, u, tree[u], b[u])
       \/ n # u /\ tree[n] = b[n]
  /\ todo = <<Deletion(u)>> => Childless(u, b, Zone)

CInv ==
  /\ phase \in {"next", "writing"} => Rooted(tree)
  /\ phase = "next" => \E h : Chain(h, stack, Zone) /\ Agrees(h[Len(stack) + 1])
  /\ phase = "writing" => \E h : Chain(h, stack, Zone) /\ Begun(h[Len(stack) + 1])
  /\ phase = "rolling" => \E h : Chain(h, stack, Zone) /\ Behind(h[Len(stack) + 1])
  /\ phase = "undoing" => \E h, u : Chain(h, stack, Zone) /\ Undoing(h[Len(stack) + 1], u)
  /\ outcome = "rolledBack" => Agrees(Tree0)

LEMMA RootedKept ==
  ASSUME NEW t \in Trees, Rooted(t), NEW c \in Calls, Possible(t, c)
  PROVE  Rooted(Done(t, c))
<1> DEFINE s == Done(t, c)
           u == c.node
<1>0. u \in Nodes
  BY DEF Calls
<1>1. CASE c.do = "create"
  <2>1. s = [t EXCEPT ![u] = c.arg] /\ c.arg \in NodeStates /\ Exists(t, c.arg.parent)
    BY <1>1 DEF Done, Calls, Possible
  <2>2. s[u] = c.arg /\ c.arg.live /\ \A m \in Nodes : m # u => s[m] = t[m]
    BY <1>0, <2>1 DEF Trees, NodeStates
  <2>3. ~t[u].live
    BY <1>0, <1>1 DEF Possible, Exists
  <2> HIDE DEF s, u
  <2>4. \A m \in Nodes : t[m].live => s[m].live
    BY <2>2, <2>3
  <2> QED
    BY <1>0, <2>1, <2>2, <2>4 DEF Rooted, Exists, s, u
<1>2. CASE c.do = "delete"
  <2>1. \A m \in Nodes : s[m] = IF m \in Subtree(t, u) THEN Absent ELSE t[m]
    BY <1>2 DEF Done
  <2>2. \A m \in Nodes : s[m].live => t[m].live /\ s[m] = t[m] /\ m \notin Subtree(t, u)
    BY <2>1 DEF Absent
  <2> HIDE DEF s, u
  <2>3. ASSUME NEW m \in Nodes, s[m].live, s[m].parent # Top
        PROVE  s[m].parent \in Nodes /\ s[s[m].parent].live
    <3>1. t[m].live /\ s[m] = t[m] /\ m \notin Subtree(t, u)
      BY <2>2, <2>3
    <3>2. t[m].parent \in Nodes /\ t[t[m].parent].live
      BY <2>3, <3>1 DEF Rooted
    <3>3. t[m].parent \notin Subtree(t, u)
      BY <1>0, <3>1, SubtreeClosed
    <3> QED
      BY <2>1, <3>1, <3>2, <3>3
  <2> QED
    BY <2>3 DEF Rooted, s, u
<1>3. CASE c.do \in {"name", "note", "done"}
  <2>1. t[u] \in NodeStates /\ t[u].live
    BY <1>0, <1>3, Nodewise DEF Possible, Exists
  <2>2. s[u].live = t[u].live /\ s[u].parent = t[u].parent
    BY <1>0, <1>3, <2>1 DEF Done, Trees, NodeStates
  <2>3. \A m \in Nodes : m # u => s[m] = t[m]
    BY <1>0, <1>3 DEF Done, Trees
  <2> HIDE DEF s, u
  <2> QED
    BY <2>2, <2>3 DEF Rooted, s, u
<1>4. CASE c.do = "parent"
  <2>1. t[u] \in NodeStates /\ t[u].live /\ c.arg \in Nodes /\ t[c.arg].live
    <3>1. c.arg \in Nodes /\ Exists(t, u) /\ Exists(t, c.arg)
      BY <1>4 DEF Possible, Calls
    <3> QED
      BY <1>0, <3>1, Nodewise DEF Exists
  <2>2. s[u].live = t[u].live /\ s[u].parent = c.arg
    BY <1>0, <1>4, <2>1 DEF Done, Trees, NodeStates
  <2>3. \A m \in Nodes : m # u => s[m] = t[m]
    BY <1>0, <1>4 DEF Done, Trees
  <2> HIDE DEF s, u
  <2> QED
    BY <2>1, <2>2, <2>3 DEF Rooted, s, u
<1> QED
  BY <1>1, <1>2, <1>3, <1>4 DEF Calls

\* A call changes its node, a deletion what is below it too.

LEMMA Effect ==
  ASSUME NEW t \in Trees, NEW c \in Calls
  PROVE  \A n \in Nodes : \/ Done(t, c)[n] = t[n]
                          \/ n = c.node
                          \/ c.do = "delete" /\ n \in Subtree(t, c.node)
<1>1. CASE c.do = "delete"
  BY <1>1 DEF Done
<1>2. CASE c.do # "delete"
  BY <1>2 DEF Done, Trees, Calls
<1> QED
  BY <1>1, <1>2

LEMMA CInit == Init => CInv
<1> SUFFICES ASSUME Init PROVE CInv
  OBVIOUS
<1>1. stack = <<>> /\ damaged = {} /\ tree = Tree0 /\ phase = "next" /\ outcome = "open"
  BY DEF Init
<1>2. Len(stack) = 0 /\ stack \in Seq(Inverses)
  BY <1>1
<1> DEFINE h == [j \in 1 .. 1 |-> Tree0]
<1>3. h \in [1 .. 1 -> Trees] /\ \A j \in 1 .. 1 : h[j] = Tree0
  BY TreeAssumption
<1> HIDE DEF h
<1>4. Chain(h, stack, Zone) /\ h[Len(stack) + 1] = tree
  BY <1>1, <1>2, <1>3 DEF Chain
<1> QED
  BY <1>1, <1>4, TreeAssumption DEF CInv, Agrees

LEMMA CRead ==
  ASSUME TInv, CInv, Read
  PROVE  CInv'
<1>1. PICK h : Chain(h, stack, Zone) /\ Agrees(h[Len(stack) + 1])
  BY DEF CInv, Read
<1> DEFINE b == h[Len(stack) + 1]
<1>2. /\ phase = "next" /\ phase' = "writing" /\ todo' = OpCalls(Op) /\ Op' = Op
      /\ read' = Unread \/ read' = tree[Op.node]
      /\ UNCHANGED <<tree, stack, damaged, outcome>>
  BY DEF Read, Op
<1>3. Op.node \in Nodes
  <2>1. pos <= Len(ops) /\ ~Malformed(Op) /\ Op \in Ops
    BY OpTyped DEF Read, TInv
  <2> QED
    BY <2>1 DEF Ops, Malformed
<1>4. Zone' = Zone
  BY <1>2 DEF Zone
<1> HIDE DEF b
<1>5. Agrees(b)
  BY <1>1 DEF b
<1>6. Begun(b)'
  BY <1>2, <1>3, <1>4, <1>5 DEF Begun, Agrees, b
<1>7. Chain(h, stack, Zone)' /\ Rooted(tree)'
  BY <1>1, <1>2, <1>4 DEF CInv
<1> QED
  BY <1>2, <1>6, <1>7 DEF CInv, TInv, b

-----------------------------------------------------------------------------
(* An operation lands.                                                     *)

\* A call that writes a field changes that field of its node.

LEMMA FieldWritten ==
  ASSUME NEW t \in Trees, NEW c \in Calls, c.do \in Fields, Possible(t, c)
  PROVE  /\ c.node \in Nodes /\ t[c.node] \in NodeStates /\ Done(t, c)[c.node] \in NodeStates
         /\ Done(t, c)[c.node].name = IF c.do = "name" THEN c.arg ELSE t[c.node].name
         /\ Done(t, c)[c.node].note = IF c.do = "note" THEN c.arg ELSE t[c.node].note
         /\ Done(t, c)[c.node].parent = IF c.do = "parent" THEN c.arg ELSE t[c.node].parent
         /\ Done(t, c)[c.node].done = IF c.do = "done" THEN c.arg ELSE t[c.node].done
         /\ \A m \in Nodes : m # c.node => Done(t, c)[m] = t[m]
<1> DEFINE u == c.node
           r == t[u]
           s == Done(t, c)
<1>1. u \in Nodes /\ u # Top
  BY FieldAssumption DEF Calls
<1>2. r \in NodeStates
  BY <1>1, Nodewise DEF Possible, Exists, Fields
<1>3. \A m \in Nodes : m # u => s[m] = t[m]
  BY <1>1, Effect DEF Fields
<1>4. s[u] = CASE c.do = "name"   -> [r EXCEPT !.name = c.arg]
               [] c.do = "note"   -> [r EXCEPT !.note = c.arg]
               [] c.do = "parent" -> [r EXCEPT !.parent = c.arg]
               [] c.do = "done"   -> [r EXCEPT !.done = c.arg]
  BY <1>1 DEF Done, Trees, Fields
<1>5. s \in Trees
  BY DoneTyped
<1>6. s[u] \in NodeStates
  <2>1. s[u].live = r.live
    BY <1>2, <1>4 DEF Fields, NodeStates
  <2> QED
    BY <1>1, <1>2, <1>5, <2>1, Nodewise
<1> HIDE DEF s
<1>7. /\ s[u].name = IF c.do = "name" THEN c.arg ELSE r.name
      /\ s[u].note = IF c.do = "note" THEN c.arg ELSE r.note
      /\ s[u].parent = IF c.do = "parent" THEN c.arg ELSE r.parent
      /\ s[u].done = IF c.do = "done" THEN c.arg ELSE r.done
  BY <1>2, <1>4 DEF Fields, NodeStates
<1> QED
  BY <1>1, <1>2, <1>3, <1>6, <1>7 DEF s

\* After its last call: what undoes the operation, where anything can.

LEMMA InverseRestores ==
  ASSUME NEW op \in Ops, NEW prev \in NodeStates \cup {Unread}, NEW calls,
         Shaped(op), Undone(op, prev, calls),
         NEW old, NEW now \in NodeStates, prev = Unread \/ prev = old,
         op.kind = "create" => old = Absent,
         op.kind # "create" =>
           /\ old \in NodeStates /\ prev # Unread
           /\ op.kind = "edit" =>
                /\ now.parent = old.parent /\ now.done = old.done
                /\ op.note = Untouched \/ old.note # NoNote
                /\ op.note = Untouched => now.note = old.note
           /\ op.kind = "move" =>
                /\ now.name = old.name /\ now.note = old.note /\ now.done = old.done
                /\ old.parent # Top
           /\ op.kind = "complete" =>
                now.name = old.name /\ now.note = old.note /\ now.parent = old.parent
  PROVE  Restores(calls, op.node, now, old)
<1> DEFINE n == op.node
<1>0. \A f, v : Call(n, f, v).do = f /\ Call(n, f, v).arg = v
  BY DEF Call
<1>1. CASE op.kind = "create"
  BY <1>1 DEF Undone, Restores
<1>2. CASE op.kind = "edit"
  <2> DEFINE N == Call(n, "name", prev.name)
             M == Call(n, "note", prev.note)
  <2>1. prev = old /\ N.do = "name" /\ N.arg = old.name /\ M.do = "note" /\ M.arg = old.note
    BY <1>0, <1>2
  <2>2. CASE prev.note = NoNote
    <3>1. calls = <<N>> /\ now.note = old.note
      BY <1>2, <2>1, <2>2 DEF Undone
    <3> HIDE DEF N, M
    <3>2. DOMAIN calls = {1} /\ calls[1] = N
      BY <3>1
    <3> QED
      BY <1>2, <2>1, <3>1, <3>2 DEF Restores, FieldBack, Fields
  <2>3. CASE prev.note # NoNote
    <3>1. calls = <<N, M>>
      BY <1>2, <2>1, <2>3 DEF Undone
    <3> HIDE DEF N, M
    <3>2. DOMAIN calls = {1, 2} /\ calls[1] = N /\ calls[2] = M
      BY <3>1
    <3> QED
      BY <1>2, <2>1, <3>2 DEF Restores, FieldBack, Fields
  <2> QED
    BY <2>2, <2>3
<1>3. CASE op.kind \in {"move", "complete"}
  <2> DEFINE f == IF op.kind = "move" THEN "parent" ELSE "done"
             v == IF op.kind = "move" THEN old.parent ELSE old.done
             c == Call(n, f, v)
  <2>1. calls = <<c>>
    BY <1>3 DEF Undone
  <2>2. c.do = f /\ c.arg = v
    BY <1>0
  <2> HIDE DEF c
  <2>3. DOMAIN calls = {1} /\ calls[1] = c
    BY <2>1
  <2> QED
    BY <1>3, <2>2, <2>3 DEF Restores, FieldBack, Fields
<1> QED
  BY <1>1, <1>2, <1>3 DEF Undone

LEMMA OnlyCreates ==
  ASSUME NEW op, NEW prev, NEW calls, NEW n, Undone(op, prev, calls), calls = <<Deletion(n)>>
  PROVE  op.kind = "create"
<1>1. calls # <<>> /\ calls[1].do = "delete"
  BY DEF Deletion
<1>2. ASSUME NEW f \in Fields, NEW v, NEW m, calls[1] = Call(m, f, v) PROVE FALSE
  BY <1>1, <1>2 DEF Call, Fields
<1>3. ASSUME NEW c, NEW d, calls = <<c>> \/ calls = <<c, d>> PROVE calls[1] = c
  BY <1>3
<1>4. CASE op.kind = "edit"
  <2> DEFINE N == Call(op.node, "name", prev.name)
             M == Call(op.node, "note", prev.note)
  <2>1. calls = <<N>> \/ calls = <<N, M>>
    BY <1>4 DEF Undone
  <2>2. calls[1] = N
    BY <1>3, <2>1
  <2> QED
    BY <1>2, <2>2 DEF Fields
<1>5. CASE op.kind = "move"
  <2>1. calls = <<Call(op.node, "parent", prev.parent)>>
    BY <1>1, <1>5 DEF Undone
  <2> QED
    BY <1>2, <1>3, <2>1 DEF Fields
<1>6. CASE op.kind = "complete"
  <2>1. calls = <<Call(op.node, "done", prev.done)>>
    BY <1>6 DEF Undone
  <2> QED
    BY <1>2, <1>3, <2>1 DEF Fields
<1> QED
  BY <1>4, <1>5, <1>6 DEF Undone

\* The last call of the operation at hand.

LEMMA LastCall ==
  ASSUME TInv, phase = "writing", Len(todo) = 1
  PROVE  LET c == Head(todo)
             u == Op.node
         IN  /\ c.node = u /\ (c.do = "delete" <=> Op.kind = "delete")
             /\ \/ Op.kind = "create" /\ c = Creation(Op)
                \/ Op.kind = "delete" /\ c = Deletion(u)
                \/ Op.kind = "move" /\ c = Call(u, "parent", Op.parent)
                \/ Op.kind = "complete" /\ c = Call(u, "done", Op.done)
                \/ Op.kind = "edit" /\ \/ c = Call(u, "name", Op.name) /\ Op.note = Untouched
                                       \/ c = Call(u, "note", Op.note) /\ Op.note # Untouched
<1> DEFINE c == Head(todo)
           u == Op.node
<1>1. /\ Op \in Ops /\ Shaped(Op) /\ u \in Nodes /\ todo # <<>>
  BY AtHand
<1>2. ASSUME NEW d, todo = <<d>> PROVE c = d
  BY <1>2
<1>3. \/ todo = OpCalls(Op)
      \/ /\ Op.kind = "edit" /\ Op.note # Untouched /\ todo = <<Call(u, "note", Op.note)>>
  BY DEF TInv, Underway
<1>4. CASE Op.kind = "edit"
  <2>1. \/ todo = <<Call(u, "name", Op.name)>> /\ Op.note = Untouched
        \/ todo = <<Call(u, "note", Op.note)>> /\ Op.note # Untouched
    <3>1. CASE Op.name # Untouched /\ Op.note # Untouched /\ todo = OpCalls(Op)
      <4> DEFINE N == Call(u, "name", Op.name)
                 M == Call(u, "note", Op.note)
      <4>1. todo = <<N, M>>
        BY <1>1, <1>4, <3>1 DEF Shaped
      <4> HIDE DEF N, M
      <4>2. Len(todo) = 2
        BY <4>1
      <4> QED
        BY <4>2
    <3>2. CASE ~(Op.name # Untouched /\ Op.note # Untouched /\ todo = OpCalls(Op))
      BY <1>1, <1>3, <1>4, <3>2 DEF Shaped
    <3> QED
      BY <3>1, <3>2
  <2>2. \/ c = Call(u, "name", Op.name) /\ Op.note = Untouched
        \/ c = Call(u, "note", Op.note) /\ Op.note # Untouched
    BY <1>2, <2>1
  <2> QED
    BY <1>4, <2>2 DEF Call
<1>5. CASE Op.kind # "edit"
  <2>1. todo = OpCalls(Op)
    BY <1>3, <1>5
  <2>2. \/ Op.kind = "create" /\ todo = <<Creation(Op)>>
        \/ Op.kind = "delete" /\ todo = <<Deletion(u)>>
        \/ Op.kind = "move" /\ todo = <<Call(u, "parent", Op.parent)>>
        \/ Op.kind = "complete" /\ todo = <<Call(u, "done", Op.done)>>
    BY <1>1, <1>5, <2>1 DEF Shaped
  <2>3. \/ Op.kind = "create" /\ c = Creation(Op)
        \/ Op.kind = "delete" /\ c = Deletion(u)
        \/ Op.kind = "move" /\ c = Call(u, "parent", Op.parent)
        \/ Op.kind = "complete" /\ c = Call(u, "done", Op.done)
    BY <1>2, <2>2
  <2> QED
    BY <2>3 DEF Creation, Deletion, Call
<1> QED
  BY <1>4, <1>5

LEMMA LastLand ==
  ASSUME TInv, TInv', CInv, Land, Len(todo) = 1
  PROVE  CInv'
<1>1. PICK h : Chain(h, stack, Zone) /\ Begun(h[Len(stack) + 1])
  BY DEF CInv, Land
<1> DEFINE b == h[Len(stack) + 1]
           u == Op.node
           c == Head(todo)
           Z == Zone'
<1>2. /\ phase = "writing" /\ phase' = "next" /\ Possible(tree, c) /\ tree' = Done(tree, c)
      /\ damaged' = damaged \cup BeyondUndo(Op, read) /\ outcome' = outcome
  BY DEF Land, Lands
<1>3. /\ Op \in Ops /\ ~Malformed(Op) /\ Shaped(Op) /\ u \in Nodes
      /\ todo \in Seq(Calls) /\ todo # <<>> /\ c \in Calls
  BY <1>2, AtHand
<1>4. tree \in Trees /\ tree' \in Trees /\ read \in NodeStates \cup {Unread}
  BY DEF TInv, TypeOK
<1>5. Len(stack) \in Nat /\ b \in Trees
  <2>1. stack \in Seq(Inverses) /\ h \in [1 .. Len(stack) + 1 -> Trees]
    BY <1>1 DEF Chain
  <2>2. Len(stack) \in Nat /\ Len(stack) + 1 \in 1 .. Len(stack) + 1
    BY <2>1, LenProperties
  <2> QED
    BY <2>1, <2>2
<1>6. /\ Zone \subseteq Z /\ Closed(Z)
      /\ \A m \in damaged' : m \in Z /\ Subtree(Tree0, m) \subseteq Z
  BY <1>2, ZoneGrows
<1>7. Chain(h, stack, Z) /\ Rooted(tree')
  BY <1>1, <1>2, <1>3, <1>4, <1>6, ChainGrows, RootedKept DEF CInv
<1>8. /\ c.node = u /\ (c.do = "delete" <=> Op.kind = "delete")
      /\ \/ Op.kind = "create" /\ c = Creation(Op)
         \/ Op.kind = "delete" /\ c = Deletion(u)
         \/ Op.kind = "move" /\ c = Call(u, "parent", Op.parent)
         \/ Op.kind = "complete" /\ c = Call(u, "done", Op.done)
         \/ Op.kind = "edit" /\ \/ c = Call(u, "name", Op.name) /\ Op.note = Untouched
                                \/ c = Call(u, "note", Op.note) /\ Op.note # Untouched
  BY <1>2, LastCall
<1> HIDE DEF b, c, u, Z
<1>9. ASSUME NEW n \in Nodes \ Z, n # u PROVE tree'[n] = b[n]
  <2>1. n \notin Zone /\ tree[n] = b[n]
    BY <1>1, <1>6, <1>9 DEF Begun, b, u
  <2>2. CASE c.do = "delete" /\ n \in Subtree(tree, u)
    <3>1. n \in damaged'
      BY <1>2, <1>8, <2>2 DEF BeyondUndo, u
    <3> QED
      BY <1>6, <3>1
  <2>3. CASE ~(c.do = "delete" /\ n \in Subtree(tree, u))
    BY <1>2, <1>3, <1>4, <1>8, <1>9, <2>1, <2>3, Effect
  <2> QED
    BY <2>2, <2>3
<1> DEFINE calls == UndoCalls(Op, read)
<1>10. ASSUME u \notin Z
       PROVE  Invertible(Op, read) /\ calls # <<>> /\ Restores(calls, u, tree'[u], b[u])
  <2>1. u \notin damaged' /\ u \notin BeyondUndo(Op, read)
    BY <1>2, <1>6, <1>10
  <2>2. Op.kind # "delete"
    BY <1>3, <2>1, SubtreeRoot DEF BeyondUndo, u
  <2>3. /\ Op.kind \in {"edit", "move", "complete"} => read # Unread
        /\ Op.kind = "edit" => read.note # NoNote \/ Op.note = Untouched
        /\ Op.kind = "move" => read.parent # Top
    BY <2>1 DEF BeyondUndo, u
  <2>4. Op.kind \in {"create", "edit", "move", "complete"}
    BY <1>3, <2>2 DEF Shaped
  <2>5. Invertible(Op, read)
    BY <2>3, <2>4 DEF Invertible
  <2>6. Undone(Op, read, calls)
    BY <1>3, <1>4, <2>5, UndoCallsAre
  <2>7. calls # <<>>
    BY <2>3, <2>6 DEF Undone
  <2>8. /\ read = Unread \/ read = b[u]
        /\ \/ todo = OpCalls(Op) /\ tree[u] = b[u]
           \/ /\ Op.kind = "edit" /\ Op.note # Untouched
              /\ tree[u].note = b[u].note /\ tree[u].parent = b[u].parent
              /\ tree[u].done = b[u].done
    BY <1>1, <1>6, <1>10 DEF Begun, b, u
  <2>9. CASE Op.kind = "create"
    <3>1. c = Creation(Op) /\ tree[u] = Absent
      <4>1. c = Creation(Op)
        BY <1>8, <2>9
      <4>2. ~Exists(tree, c.node)
        BY <1>2, <4>1 DEF Possible, Creation
      <4> QED
        BY <1>3, <1>4, <1>8, <4>1, <4>2, Nodewise DEF Exists
    <3>2. b[u] = Absent
      BY <2>8, <2>9, <3>1
    <3> QED
      BY <2>5, <2>6, <2>7, <2>9, <3>2 DEF Undone, Restores, u
  <2>10. CASE Op.kind # "create"
    <3>1. c.do \in Fields
      BY <1>8, <2>2, <2>10 DEF Call, Fields
    <3>2. /\ tree'[u] \in NodeStates
          /\ tree'[u].name = IF c.do = "name" THEN c.arg ELSE tree[u].name
          /\ tree'[u].note = IF c.do = "note" THEN c.arg ELSE tree[u].note
          /\ tree'[u].parent = IF c.do = "parent" THEN c.arg ELSE tree[u].parent
          /\ tree'[u].done = IF c.do = "done" THEN c.arg ELSE tree[u].done
      BY <1>2, <1>3, <1>4, <1>8, <3>1, FieldWritten
    <3>3. read # Unread /\ read = b[u] /\ b[u] \in NodeStates
      BY <1>4, <2>3, <2>4, <2>8, <2>10
    <3>4. c.do = CASE Op.kind = "move" -> "parent" [] Op.kind = "complete" -> "done"
                   [] Op.kind = "edit" -> IF Op.note = Untouched THEN "name" ELSE "note"
      BY <1>8, <2>4, <2>10 DEF Call
    <3>5. CASE Op.kind = "edit"
      <4>1. tree'[u].parent = b[u].parent /\ tree'[u].done = b[u].done
        BY <2>8, <3>2, <3>4, <3>5
      <4>2. Op.note = Untouched => tree'[u].note = b[u].note
        BY <2>8, <3>2, <3>4, <3>5
      <4> QED
        BY <1>3, <1>4, <2>3, <2>5, <2>6, <2>7, <3>2, <3>3, <3>5, <4>1, <4>2, InverseRestores DEF u
    <3>6. CASE Op.kind = "move"
      <4>1. /\ tree'[u].name = b[u].name /\ tree'[u].note = b[u].note
            /\ tree'[u].done = b[u].done
        BY <2>8, <3>2, <3>4, <3>6
      <4> QED
        BY <1>3, <1>4, <2>3, <2>5, <2>6, <2>7, <3>2, <3>3, <3>6, <4>1, InverseRestores DEF u
    <3>7. CASE Op.kind = "complete"
      <4>1. /\ tree'[u].name = b[u].name /\ tree'[u].note = b[u].note
            /\ tree'[u].parent = b[u].parent
        BY <2>8, <3>2, <3>4, <3>7
      <4> QED
        BY <1>3, <1>4, <2>3, <2>5, <2>6, <2>7, <3>2, <3>3, <3>7, <4>1, InverseRestores DEF u
    <3> QED
      BY <2>4, <2>10, <3>5, <3>6, <3>7
  <2> QED
    BY <2>9, <2>10
<1>11. CASE Invertible(Op, read)
  <2> DEFINE e == [node |-> u, calls |-> calls]
  <2>1. Undone(Op, read, calls) /\ Inverts(u, calls)
    BY <1>3, <1>4, <1>11, UndoCallsAre, UndoCallsTyped DEF u
  <2>2. ASSUME calls = <<Deletion(u)>> PROVE Childless(u, b, Z)
    <3>1. Op.kind = "create"
      BY <2>1, <2>2, OnlyCreates
    <3>2. c = Creation(Op) /\ ~tree[u].live
      <4>1. c = Creation(Op)
        BY <1>8, <3>1
      <4>2. ~Exists(tree, c.node)
        BY <1>2, <4>1 DEF Possible, Creation
      <4> QED
        BY <1>3, <1>8, <4>1, <4>2 DEF Exists
    <3>3. ASSUME NEW x \in Nodes \ Z, b[x].live PROVE b[x].parent # u
      <4>1. tree[x] = b[x]
        <5>1. x \notin Zone
          BY <1>6, <3>3
        <5>2. CASE x # u
          BY <1>1, <5>1, <5>2 DEF Begun, b, u
        <5>3. CASE x = u
          <6>1. Op.kind # "edit"
            BY <3>1
          <6> QED
            BY <1>1, <5>1, <5>3, <6>1 DEF Begun, b, u
        <5> QED
          BY <5>2, <5>3
      <4>2. Rooted(tree)
        BY <1>2 DEF CInv
      <4>3. u # Top
        BY <1>3, FieldAssumption DEF u
      <4> QED
        BY <3>2, <3>3, <4>1, <4>2, <4>3 DEF Rooted
    <3> QED
      BY <3>3 DEF Childless
  <2>3. e \in Inverses /\ e.node = u /\ e.calls = calls
    BY <2>1 DEF Inverts, Inverses
  <2>4. stack' = Append(stack, e)
    BY <1>11 DEF Land, u
  <2> HIDE DEF e, calls
  <2>5. Undoes(e, b, tree', Z)
    BY <1>9, <1>10, <2>1, <2>2, <2>3 DEF Undoes
  <2>6. \E g : Chain(g, stack', Z) /\ g[Len(stack') + 1] = tree'
    BY <1>4, <1>7, <2>3, <2>4, <2>5, ChainPush DEF b
  <2>7. PICK g : Chain(g, stack', Z) /\ g[Len(stack') + 1] = tree'
    BY <2>6
  <2>8. Chain(g, stack, Zone)' /\ Agrees(g[Len(stack) + 1])'
    BY <2>7 DEF Agrees, Z
  <2> QED
    BY <1>2, <1>7, <2>8 DEF CInv, TInv
<1>12. CASE ~Invertible(Op, read)
  <2>1. stack' = stack
    BY <1>12 DEF Land
  <2>2. u \in Z
    BY <1>10, <1>12
  <2>3. Agrees(b)'
    BY <1>9, <2>1, <2>2 DEF Agrees, Z, b
  <2> QED
    BY <1>2, <1>7, <2>1, <2>3 DEF CInv, TInv, b, Z
<1> QED
  BY <1>11, <1>12

\* An edit's first call lands.
LEMMA FirstLand ==
  ASSUME TInv, TInv', CInv, Land, Len(todo) # 1
  PROVE  CInv'
<1>1. PICK h, b : Chain(h, stack, Zone) /\ b = h[Len(stack) + 1] /\ Begun(b)
  BY DEF CInv, Land
<1> DEFINE u == Op.node
           c == Head(todo)
<1>2. /\ phase = "writing" /\ Possible(tree, c) /\ tree' = Done(tree, c) /\ todo' = Tail(todo)
      /\ UNCHANGED <<phase, pos, stack, damaged, read, outcome, ops>>
  BY DEF Land, Lands
<1>3. /\ u \in Nodes /\ c \in Calls /\ Len(todo) = 2
      /\ Op.kind = "edit" /\ Op.name # Untouched /\ Op.note # Untouched
      /\ c = Call(u, "name", Op.name) /\ Tail(todo) = <<Call(u, "note", Op.note)>>
  BY <1>2, AtHand
<1>4. c.node = u /\ c.do = "name" /\ c.do \in Fields
  BY <1>3 DEF Call, Fields
<1>5. tree \in Trees
  BY DEF TInv, TypeOK
<1>6. Zone' = Zone /\ Op' = Op
  BY <1>2 DEF Zone, Op
<1>7. Rooted(tree')
  BY <1>2, <1>3, <1>5, RootedKept DEF CInv
<1>8. /\ tree[u] \in NodeStates /\ tree'[u] \in NodeStates
      /\ tree'[u].note = tree[u].note /\ tree'[u].parent = tree[u].parent
      /\ tree'[u].done = tree[u].done
      /\ \A m \in Nodes : m # u => tree'[m] = tree[m]
  BY <1>2, <1>3, <1>4, <1>5, FieldWritten
<1>9. u \notin Zone => tree[u] = b[u] /\ (read = Unread \/ read = b[u])
  <2>1. ASSUME NEW d, todo = <<d>> PROVE FALSE
    BY <1>3, <2>1
  <2> QED
    BY <1>1, <2>1 DEF Begun
<1> HIDE DEF c
<1>10. Begun(b)'
  BY <1>1, <1>2, <1>3, <1>6, <1>8, <1>9 DEF Begun
<1>11. Chain(h, stack', Zone') /\ b = h[Len(stack') + 1]
  BY <1>1, <1>2, <1>6
<1> QED
  BY <1>2, <1>7, <1>10, <1>11 DEF CInv, TInv

LEMMA CFail ==
  ASSUME TInv, TInv', CInv, Fail
  PROVE  CInv'
<1>1. PICK h, b : Chain(h, stack, Zone) /\ b = h[Len(stack) + 1] /\ Begun(b)
  BY DEF CInv, Fail
<1> DEFINE u == Op.node
           c == Head(todo)
<1>2. /\ phase = "writing" /\ phase' = "rolling" /\ UNCHANGED <<stack, outcome>>
      /\ damaged \subseteq damaged'
  BY DEF Fail
<1>3. /\ u \in Nodes /\ c \in Calls /\ c.node = u /\ (c.do = "delete" <=> Op.kind = "delete")
  <2>1. CASE Len(todo) = 1
    BY <1>2, <2>1, AtHand, LastCall
  <2>2. CASE Len(todo) # 1
    BY <1>2, <2>2, AtHand DEF Call
  <2> QED
    BY <2>1, <2>2
<1>4. tree \in Trees
  BY DEF TInv, TypeOK
<1>5. Zone \subseteq Zone' /\ \A m \in damaged' : m \in Zone'
  BY <1>2, ZoneGrows
<1>6. ASSUME NEW n \in Nodes \ Zone' PROVE tree'[n] = b[n]
  <2>0. n \notin Zone /\ n \notin damaged'
    BY <1>5, <1>6
  <2>1. CASE tree' = tree /\ damaged' =
               IF Len(todo) < Len(OpCalls(Op)) THEN damaged \cup {u} ELSE damaged
    <3>1. CASE n # u
      BY <1>1, <2>0, <2>1, <3>1 DEF Begun
    <3>2. CASE n = u
      <4>1. ~(Len(todo) < Len(OpCalls(Op)))
        BY <2>0, <2>1, <3>2
      <4>2. ASSUME Op.kind = "edit", Op.name # Untouched, Op.note # Untouched,
                   todo = <<Call(u, "note", Op.note)>>
            PROVE  FALSE
        <5> DEFINE N == Call(u, "name", Op.name)
                   M == Call(u, "note", Op.note)
        <5>1. OpCalls(Op) = <<N, M>> /\ todo = <<M>>
          BY <1>2, <4>2, AtHand DEF Shaped
        <5> HIDE DEF N, M
        <5>2. Len(OpCalls(Op)) = 2 /\ Len(todo) = 1
          BY <5>1
        <5> QED
          BY <4>1, <5>2
      <4> QED
        BY <1>1, <2>0, <2>1, <3>2, <4>2 DEF Begun
    <3> QED
      BY <3>1, <3>2
  <2>2. CASE /\ tree' = Done(tree, c)
             /\ damaged' = damaged \cup
                  (IF Op.kind = "delete" THEN Subtree(tree, u) ELSE {u})
    <3>1. n # u
      BY <1>3, <2>0, <2>2, SubtreeRoot
    <3>2. ~(c.do = "delete" /\ n \in Subtree(tree, c.node))
      BY <1>3, <2>0, <2>2
    <3>3. tree'[n] = tree[n]
      BY <1>3, <1>4, <2>2, <3>1, <3>2, Effect
    <3> QED
      BY <1>1, <2>0, <3>1, <3>3 DEF Begun
  <2> QED
    BY <2>1, <2>2 DEF Fail, Lands
<1>7. Behind(b)'
  BY <1>6 DEF Behind
<1>8. Chain(h, stack', Zone') /\ b = h[Len(stack') + 1]
  BY <1>1, <1>2, <1>5, ChainGrows
<1> QED
  BY <1>2, <1>7, <1>8 DEF CInv, TInv

-----------------------------------------------------------------------------
(* The way back.                                                           *)

LEMMA StackNodesTyped ==
  ASSUME TInv
  PROVE  /\ DOMAIN stack = 1 .. Len(stack) /\ Len(stack) \in Nat
         /\ StackNodes(stack) \subseteq Nodes
<1>1. stack \in Seq(Inverses)
  BY DEF TInv, TypeOK
<1>2. DOMAIN stack = 1 .. Len(stack) /\ Len(stack) \in Nat
  BY <1>1, LenProperties
<1>3. \A j \in DOMAIN stack : stack[j] \in Inverses
  BY <1>1, <1>2, ElementOfSeq
<1> QED
  BY <1>2, <1>3 DEF StackNodes, Inverses

\* What goes when a created node is deleted: nodes of the zone, and nodes

\* whose own inverses are still to fail.
LEMMA DeletionReaches ==
  ASSUME TInv, NEW h, NEW b, NEW Z, Chain(h, stack, Z), b = h[Len(stack) + 1], Closed(Z),
         NEW u \in Nodes, Childless(u, b, Z),
         \A n \in Nodes \ Z : n = u \/ tree[n] = b[n] \/ Lost(n, tree, StackNodes(stack)),
         NEW t \in Trees, \A m \in Nodes : t[m] = IF m \in Subtree(tree, u) THEN Absent ELSE tree[m]
  PROVE  /\ \A n \in Nodes \ Z : n = u \/ t[n] = b[n] \/ Lost(n, t, StackNodes(stack))
         /\ \A n : Lost(n, tree, StackNodes(stack)) => Lost(n, t, StackNodes(stack))
<1> DEFINE P == StackNodes(stack)
           S == {x \in Subtree(tree, u) : x = u \/ x \in Z \/ Lost(x, t, P)}
<1>1. P \subseteq Nodes /\ DOMAIN stack = 1 .. Len(stack) /\ Len(stack) \in Nat
  BY StackNodesTyped
<1>2. \A m \in Nodes : m \in Subtree(tree, u) => ~t[m].live
  BY DEF Absent
<1>3. \A m \in Nodes : ~tree[m].live => ~t[m].live
  BY <1>2
<1>4. \A n : Lost(n, tree, P) => Lost(n, t, P)
  BY <1>1, <1>3 DEF Lost
<1> HIDE DEF P
<1>5. ASSUME NEW c \in Nodes, tree[c].live, tree[c].parent \in S
      PROVE  c \in S
  <2> DEFINE q == tree[c].parent
  <2>1. c \in Subtree(tree, u) /\ ~t[c].live
    BY <1>2, <1>5, SubtreeClosed
  <2>2. CASE c \in P
    <3>1. Lost(c, t, P)
      BY <2>1, <2>2, SubtreeRoot DEF Lost
    <3> QED
      BY <2>1, <3>1
  <2>3. CASE c \notin P /\ c \notin Z /\ c # u /\ ~Lost(c, t, P)
    <3>1. tree[c] = b[c]
      BY <1>4, <2>3 DEF P
    <3>2. b[c] = Tree0[c]
      <4>1. \A i \in 1 .. (Len(stack) + 1) - 1 : stack[i].node # c
        BY <1>1, <2>3 DEF P, StackNodes
      <4>2. Len(stack) + 1 \in 1 .. Len(stack) + 1
        BY <1>1
      <4> QED
        BY <2>3, <4>1, <4>2 DEF Chain
    <3>3. Tree0[c].live /\ Tree0[c].parent = q /\ q \in Nodes
      BY <1>5, <3>1, <3>2 DEF Subtree
    <3>4. CASE q = u
      BY <1>5, <2>3, <3>1, <3>4 DEF Childless
    <3>5. CASE q \in Z
      <4>1. c \in Subtree(Tree0, q)
        BY <3>3, SubtreeRoot, SubtreeClosed
      <4> QED
        BY <2>3, <3>5, <4>1 DEF Closed
    <3>6. CASE Lost(q, t, P)
      <4>1. PICK m \in P : q \in Subtree(Tree0, m) /\ ~t[m].live
        BY <3>6 DEF Lost
      <4>2. c \in Subtree(Tree0, m)
        BY <1>1, <3>3, <4>1, SubtreeClosed DEF P
      <4> QED
        BY <2>3, <4>1, <4>2 DEF Lost
    <3> QED
      BY <1>5, <3>4, <3>5, <3>6
  <2> QED
    BY <2>1, <2>2, <2>3
<1>6. Subtree(tree, u) \subseteq S
  <2>1. S \subseteq Nodes /\ u \in S
    BY SubtreeRoot DEF Subtree
  <2> HIDE DEF S
  <2> QED
    BY <1>5, <2>1, SubtreeLeast
<1>7. ASSUME NEW n \in Nodes \ Z PROVE n = u \/ t[n] = b[n] \/ Lost(n, t, P)
  BY <1>4, <1>6, <1>7 DEF P
<1> QED
  BY <1>4, <1>7 DEF P

LEMMA CUndo ==
  ASSUME TInv, TInv', CInv, Undo
  PROVE  CInv'
<1>1. PICK h, b : Chain(h, stack, Zone) /\ b = h[Len(stack) + 1] /\ Behind(b)
  BY DEF CInv, Undo
<1> DEFINE e == Newest
           k == Len(stack)
<1>2. /\ phase' = IF e.calls = <<>> THEN "rolling" ELSE "undoing"
      /\ todo' = e.calls /\ UNCHANGED <<tree, damaged, outcome>>
  BY DEF Undo
<1>3. /\ e = stack[k] /\ k \in Nat \ {0} /\ Len(stack') = k - 1
      /\ \A i \in 1 .. k - 1 : stack'[i] = stack[i]
  BY UndoTyped
<1>4. stack' \in Seq(Inverses) /\ DOMAIN stack = 1 .. k /\ DOMAIN stack' = 1 .. k - 1
  <2>1. stack' \in Seq(Inverses)
    BY DEF TInv, TypeOK
  <2>2. DOMAIN stack' = 1 .. Len(stack')
    BY <2>1, LenProperties
  <2> QED
    BY <1>3, <2>1, <2>2, StackNodesTyped
<1>5. Zone' = Zone /\ Closed(Zone)
  BY <1>2, ZoneGrows DEF Zone
<1> HIDE DEF e, k
<1>6. Undoes(e, h[k], b, Zone)
  <2>1. k \in 1 .. Len(stack)
    BY <1>3 DEF k
  <2> QED
    BY <1>1, <1>3, <2>1 DEF Chain, k
<1>7. \E g : Chain(g, stack', Zone) /\ g[Len(stack') + 1] = h[k]
  BY <1>1, <1>3, <1>4, ChainPop DEF k
<1>8. PICK g, a : Chain(g, stack', Zone) /\ a = g[Len(stack') + 1] /\ a = h[k]
  BY <1>7
<1>9. StackNodes(stack) \subseteq StackNodes(stack') \cup {e.node}
  BY <1>3, <1>4 DEF StackNodes
<1>10. ASSUME NEW n \in Nodes \ Zone
       PROVE  tree[n] = b[n] \/ Lost(n, tree, StackNodes(stack') \cup {e.node})
  BY <1>1, <1>9 DEF Behind, Lost
<1>11. \A n \in Nodes \ Zone : n # e.node => b[n] = a[n]
  BY <1>6, <1>8 DEF Undoes
<1>12. CASE e.calls = <<>>
  <2>1. e.node \in Zone
    BY <1>6, <1>12 DEF Undoes
  <2>2. ASSUME NEW n \in Nodes \ Zone
        PROVE  tree[n] = a[n] \/ Lost(n, tree, StackNodes(stack'))
    <3>1. n # e.node /\ n \notin Subtree(Tree0, e.node)
      BY <1>5, <2>1 DEF Closed
    <3>2. Lost(n, tree, StackNodes(stack') \cup {e.node}) => Lost(n, tree, StackNodes(stack'))
      BY <3>1 DEF Lost
    <3> QED
      BY <1>10, <1>11, <3>1, <3>2
  <2>3. Behind(a)'
    BY <1>2, <1>5, <2>2 DEF Behind
  <2> QED
    BY <1>2, <1>5, <1>8, <1>12, <2>3 DEF CInv, TInv
<1>13. CASE e.calls # <<>>
  <2>1. Inverts(e.node, e.calls) /\ (e.calls = <<Deletion(e.node)>> => Childless(e.node, a, Zone))
    BY <1>6, <1>8 DEF Undoes
  <2>2. e.node \notin Zone => Restores(e.calls, e.node, b[e.node], a[e.node])
    BY <1>6, <1>8 DEF Undoes
  <2>3. ASSUME NEW n \in Nodes \ Zone
        PROVE  \/ Lost(n, tree, StackNodes(stack') \cup {e.node})
               \/ n = e.node /\ Restores(e.calls, e.node, tree[e.node], a[e.node])
               \/ n # e.node /\ tree[n] = a[n]
    BY <1>10, <1>11, <2>2
  <2>4. PICK u : u = e.node
    OBVIOUS
  <2>5. Undoing(a, u)'
    <3>1. /\ Inverts(u, todo') /\ (todo' = <<Deletion(u)>> => Childless(u, a, Zone'))
          /\ \A n \in Nodes \ Zone' :
               \/ Lost(n, tree', StackNodes(stack') \cup {u})
               \/ n = u /\ Restores(todo', u, tree'[u], a[u])
               \/ n # u /\ tree'[n] = a[n]
      BY <1>2, <1>5, <2>1, <2>3, <2>4
    <3> QED
      BY <3>1 DEF Undoing
  <2> QED
    BY <1>2, <1>5, <1>8, <1>13, <2>5 DEF CInv, TInv
<1> QED
  BY <1>12, <1>13

\* One call of an inverse lands: the others still write back what is left.

LEMMA FieldBackOn ==
  ASSUME NEW s \in Seq(Calls), s # <<>>, NEW f, NEW now, NEW later, NEW old,
         FieldBack(s, f, now, old), later = IF Head(s).do = f THEN Head(s).arg ELSE now
  PROVE  FieldBack(Tail(s), f, later, old)
<1>1. /\ Head(s) = s[1] /\ 1 \in DOMAIN s /\ DOMAIN s = 1 .. Len(s) /\ Len(s) \in Nat
      /\ DOMAIN Tail(s) = 1 .. Len(s) - 1
      /\ \A j \in DOMAIN Tail(s) : j + 1 \in DOMAIN s /\ Tail(s)[j] = s[j + 1]
  BY HeadTyped, LenProperties
<1>2. \A j \in DOMAIN Tail(s) : Tail(s)[j].do = f => Tail(s)[j].arg = old
  BY <1>1 DEF FieldBack
<1>3. CASE Head(s).do = f
  BY <1>1, <1>2, <1>3 DEF FieldBack
<1>4. CASE Head(s).do # f /\ now # old
  <2>1. PICK j \in DOMAIN s : s[j].do = f
    BY <1>4 DEF FieldBack
  <2>2. j - 1 \in DOMAIN Tail(s) /\ Tail(s)[j - 1] = s[j]
    <3>1. j # 1 /\ j \in 1 .. Len(s)
      BY <1>1, <1>4, <2>1
    <3>2. j - 1 \in 1 .. Len(s) - 1 /\ (j - 1) + 1 = j
      BY <1>1, <3>1
    <3> QED
      BY <1>1, <3>2
  <2> QED
    BY <1>2, <2>1, <2>2 DEF FieldBack
<1>5. CASE Head(s).do # f /\ now = old
  BY <1>2, <1>5 DEF FieldBack
<1> QED
  BY <1>3, <1>4, <1>5

LEMMA RestoresOn ==
  ASSUME NEW t \in Trees, NEW u, NEW s, NEW old, Inverts(u, s), s # <<>>, s # <<Deletion(u)>>,
         Possible(t, Head(s)), Restores(s, u, t[u], old)
  PROVE  /\ Inverts(u, Tail(s)) /\ Restores(Tail(s), u, Done(t, Head(s))[u], old)
         /\ Tail(s) = <<>> => Done(t, Head(s))[u] = old
<1> DEFINE c == Head(s)
           now == Done(t, c)[u]
<1>1. /\ s \in Seq(Calls) /\ c \in Calls /\ c = s[1] /\ Tail(s) \in Seq(Calls)
      /\ 1 \in DOMAIN s
      /\ \A j \in DOMAIN Tail(s) : j + 1 \in DOMAIN s /\ Tail(s)[j] = s[j + 1]
  BY HeadTyped DEF Inverts
<1>2. c.node = u /\ c.do \in Fields /\ u \in Nodes
  BY <1>1 DEF Inverts
<1>3. Inverts(u, Tail(s)) /\ \A j \in DOMAIN Tail(s) : Tail(s)[j].do \in Fields
  BY <1>1 DEF Inverts
<1>4. /\ now \in NodeStates
      /\ now.name = IF c.do = "name" THEN c.arg ELSE t[u].name
      /\ now.note = IF c.do = "note" THEN c.arg ELSE t[u].note
      /\ now.parent = IF c.do = "parent" THEN c.arg ELSE t[u].parent
      /\ now.done = IF c.do = "done" THEN c.arg ELSE t[u].done
  BY <1>1, <1>2, FieldWritten
<1>5. /\ old \in NodeStates
      /\ FieldBack(s, "name", t[u].name, old.name)
      /\ FieldBack(s, "note", t[u].note, old.note)
      /\ FieldBack(s, "parent", t[u].parent, old.parent)
      /\ FieldBack(s, "done", t[u].done, old.done)
  BY DEF Restores
<1> HIDE DEF now, c
<1>6. FieldBack(Tail(s), "name", now.name, old.name)
  BY <1>1, <1>4, <1>5, FieldBackOn DEF c
<1>7. FieldBack(Tail(s), "note", now.note, old.note)
  BY <1>1, <1>4, <1>5, FieldBackOn DEF c
<1>8. FieldBack(Tail(s), "parent", now.parent, old.parent)
  BY <1>1, <1>4, <1>5, FieldBackOn DEF c
<1>9. FieldBack(Tail(s), "done", now.done, old.done)
  BY <1>1, <1>4, <1>5, FieldBackOn DEF c
<1>10. Restores(Tail(s), u, now, old)
  BY <1>3, <1>4, <1>5, <1>6, <1>7, <1>8, <1>9 DEF Restores
<1>11. ASSUME Tail(s) = <<>> PROVE now = old
  <2>1. DOMAIN Tail(s) = {}
    BY <1>11
  <2>2. now.name = old.name /\ now.note = old.note /\ now.parent = old.parent /\ now.done = old.done
    BY <1>6, <1>7, <1>8, <1>9, <2>1 DEF FieldBack
  <2>3. ASSUME NEW r \in NodeStates
        PROVE  r = [live |-> TRUE, name |-> r.name, note |-> r.note, parent |-> r.parent,
                    done |-> r.done]
    BY <2>3 DEF NodeStates
  <2>4. /\ now = [live |-> TRUE, name |-> now.name, note |-> now.note, parent |-> now.parent,
                  done |-> now.done]
        /\ old = [live |-> TRUE, name |-> old.name, note |-> old.note, parent |-> old.parent,
                  done |-> old.done]
    BY <1>4, <1>5, <2>3
  <2> QED
    BY <2>2, <2>4
<1> QED
  BY <1>3, <1>10, <1>11 DEF now, c

\* The call at hand in an inverse.

LEMMA UndoAtHand ==
  ASSUME TInv, phase = "undoing", NEW u, Inverts(u, todo)
  PROVE  /\ u \in Nodes /\ tree \in Trees /\ todo \in Seq(Calls) /\ todo # <<>>
         /\ Head(todo) \in Calls /\ Head(todo).node = u
         /\ \/ todo = <<Deletion(u)>> /\ Head(todo) = Deletion(u) /\ Len(todo) = 1
            \/ todo # <<Deletion(u)>> /\ Head(todo).do \in Fields
         /\ Possible(tree, Head(todo)) => tree[u].live
<1>1. /\ u \in Nodes /\ tree \in Trees /\ todo \in Seq(Calls) /\ todo # <<>> /\ u # Top
  BY FieldAssumption DEF Inverts, TInv, TypeOK
<1>2. /\ Head(todo) \in Calls /\ Head(todo).node = u
      /\ todo # <<Deletion(u)>> => Head(todo).do \in Fields
  BY <1>1, HeadTyped DEF Inverts
<1>3. todo = <<Deletion(u)>> => Head(todo) = Deletion(u) /\ Len(todo) = 1
  <2> DEFINE d == Deletion(u)
  <2> HIDE DEF d
  <2>1. todo = <<d>> => Head(todo) = d /\ Len(todo) = 1
    OBVIOUS
  <2> QED
    BY <2>1 DEF d
<1>4. Head(todo).do # "create"
  BY <1>2, <1>3 DEF Deletion, Fields
<1>5. Possible(tree, Head(todo)) => tree[u].live
  BY <1>1, <1>2, <1>4 DEF Possible, Exists
<1> QED
  BY <1>1, <1>2, <1>3, <1>5

LEMMA CUndoLand ==
  ASSUME TInv, TInv', CInv, UndoLand
  PROVE  CInv'
<1>1. PICK h, b, u : Chain(h, stack, Zone) /\ b = h[Len(stack) + 1] /\ Undoing(b, u)
  BY DEF CInv, UndoLand
<1> DEFINE c == Head(todo)
           P == StackNodes(stack)
<1>2. /\ phase = "undoing" /\ Possible(tree, c) /\ tree' = Done(tree, c) /\ todo' = Tail(todo)
      /\ phase' = IF Len(todo) = 1 THEN "rolling" ELSE "undoing"
      /\ UNCHANGED <<stack, outcome, damaged>>
  BY DEF UndoLand, Lands
<1>3. Inverts(u, todo)
  BY <1>1 DEF Undoing
<1>4. /\ u \in Nodes /\ tree \in Trees /\ todo \in Seq(Calls) /\ todo # <<>>
      /\ c \in Calls /\ c.node = u /\ tree[u].live
      /\ \/ todo = <<Deletion(u)>> /\ c = Deletion(u) /\ Len(todo) = 1
         \/ todo # <<Deletion(u)>> /\ c.do \in Fields
  BY <1>2, <1>3, UndoAtHand
<1>5. Zone' = Zone /\ Closed(Zone)
  BY <1>2, ZoneGrows DEF Zone
<1>6. P \subseteq Nodes
  BY StackNodesTyped
<1> HIDE DEF c
<1>7. \A n : Lost(n, tree, P \cup {u}) => Lost(n, tree, P)
  BY <1>4 DEF Lost
<1>8. Chain(h, stack', Zone') /\ b = h[Len(stack') + 1]
  BY <1>1, <1>2, <1>5
<1>9. CASE todo = <<Deletion(u)>>
  <2>1. /\ tree' \in Trees
        /\ \A m \in Nodes : tree'[m] = IF m \in Subtree(tree, u) THEN Absent ELSE tree[m]
    <3>1. c.do = "delete" /\ tree' \in Trees
      BY <1>2, <1>4, <1>9, DoneTyped DEF Deletion
    <3> QED
      BY <1>2, <1>4, <3>1 DEF Done
  <2>2. /\ Childless(u, b, Zone)
        /\ \A n \in Nodes \ Zone : n = u \/ tree[n] = b[n] \/ Lost(n, tree, P)
    BY <1>1, <1>7, <1>9 DEF Undoing
  <2>3. /\ \A n \in Nodes \ Zone : n = u \/ tree'[n] = b[n] \/ Lost(n, tree', P)
        /\ \A n : Lost(n, tree, P) => Lost(n, tree', P)
    BY <1>1, <1>4, <1>5, <2>1, <2>2, DeletionReaches
  <2>4. u \notin Zone => tree'[u] = b[u] \/ Lost(u, tree', P)
    <3>1. CASE u \notin Zone /\ Restores(todo, u, tree[u], b[u])
      <4>1. 1 \in DOMAIN todo /\ todo[1].do = "delete"
        BY <1>4, <1>9, HeadTyped DEF Deletion
      <4>2. b[u] = Absent
        BY <3>1, <4>1 DEF Restores, Fields
      <4> QED
        BY <1>4, <2>1, <4>2, SubtreeRoot
    <3> QED
      BY <1>1, <1>4, <1>7, <2>3, <3>1 DEF Undoing
  <2>5. Behind(b)'
    BY <1>2, <1>5, <2>3, <2>4 DEF Behind, P
  <2>6. phase' = "rolling"
    BY <1>2, <1>4, <1>9
  <2> QED
    BY <1>2, <1>8, <2>5, <2>6 DEF CInv, TInv
<1>10. CASE todo # <<Deletion(u)>>
  <2>1. /\ tree[u] \in NodeStates /\ tree'[u] \in NodeStates
        /\ \A m \in Nodes : m # u => tree'[m] = tree[m]
    BY <1>2, <1>4, <1>10, FieldWritten
  <2>2. \A m \in Nodes : tree[m].live <=> tree'[m].live
    BY <2>1 DEF NodeStates
  <2>3. \A n : Lost(n, tree, P) => Lost(n, tree', P)
    BY <1>6, <2>2 DEF Lost
  <2>4. ASSUME NEW n \in Nodes \ Zone
        PROVE  \/ Lost(n, tree', P)
               \/ n = u /\ Restores(todo, u, tree[u], b[u])
               \/ n # u /\ tree'[n] = b[n]
    BY <1>1, <1>7, <2>1, <2>3 DEF Undoing
  <2>5. Restores(todo, u, tree[u], b[u]) =>
          /\ Inverts(u, todo') /\ Restores(todo', u, tree'[u], b[u])
          /\ todo' = <<>> => tree'[u] = b[u]
    BY <1>2, <1>3, <1>4, <1>10, RestoresOn DEF c
  <2>6. CASE Len(todo) = 1
    <3>1. todo' = <<>>
      <4>1. todo' \in Seq(Calls) /\ Len(todo') = 0
        BY <1>2, <1>4, <2>6, HeadTailProperties
      <4> QED
        BY <4>1, EmptySeq
    <3>2. Behind(b)'
      BY <1>2, <1>5, <2>4, <2>5, <3>1 DEF Behind, P
    <3> QED
      BY <1>2, <1>8, <2>6, <3>2 DEF CInv, TInv
  <2>7. CASE Len(todo) # 1
    <3>1. Inverts(u, todo') /\ todo' # <<Deletion(u)>>
      <4>1. /\ todo' \in Seq(Calls) /\ todo' # <<>>
            /\ \A j \in DOMAIN todo' : j + 1 \in DOMAIN todo /\ todo'[j] = todo[j + 1]
        BY <1>2, <1>4, <2>7, HeadTyped
      <4>2. \A j \in DOMAIN todo' : todo'[j].node = u /\ todo'[j].do \in Fields
        BY <1>3, <1>10, <4>1 DEF Inverts
      <4>3. Inverts(u, todo') /\ 1 \in DOMAIN todo'
        BY <1>4, <4>1, <4>2, HeadTyped DEF Inverts
      <4>4. todo' = <<Deletion(u)>> => todo'[1].do = "delete"
        BY DEF Deletion
      <4> QED
        BY <4>2, <4>3, <4>4 DEF Fields
    <3>2. \A n \in Nodes \ Zone :
            \/ Lost(n, tree', P \cup {u})
            \/ n = u /\ Restores(todo', u, tree'[u], b[u])
            \/ n # u /\ tree'[n] = b[n]
      BY <2>4, <2>5 DEF Lost
    <3>3. Undoing(b, u)'
      BY <1>2, <1>5, <3>1, <3>2 DEF Undoing, P
    <3> QED
      BY <1>2, <1>8, <2>7, <3>3 DEF CInv, TInv
  <2> QED
    BY <2>6, <2>7
<1> QED
  BY <1>9, <1>10

LEMMA CUndoFail ==
  ASSUME TInv, TInv', CInv, UndoFail
  PROVE  CInv'
<1>1. PICK h, b, u : Chain(h, stack, Zone) /\ b = h[Len(stack) + 1] /\ Undoing(b, u)
  BY DEF CInv, UndoFail
<1> DEFINE c == Head(todo)
           P == StackNodes(stack)
           Z == Zone'
<1>2. /\ phase = "undoing" /\ phase' = "rolling" /\ damaged' = damaged \cup {c.node}
      /\ tree' = tree \/ (Possible(tree, c) /\ tree' = Done(tree, c))
      /\ UNCHANGED <<stack, outcome>>
  BY DEF UndoFail, Lands
<1>3. Inverts(u, todo)
  BY <1>1 DEF Undoing
<1>4. /\ u \in Nodes /\ tree \in Trees /\ c \in Calls /\ c.node = u
      /\ \/ todo = <<Deletion(u)>> /\ c = Deletion(u)
         \/ todo # <<Deletion(u)>> /\ c.do \in Fields
  BY <1>2, <1>3, UndoAtHand
<1>5. /\ Zone \subseteq Z /\ Closed(Z) /\ u \in Z /\ Subtree(Tree0, u) \subseteq Z
  <2>1. damaged \subseteq damaged' /\ u \in damaged'
    BY <1>2, <1>4
  <2> QED
    BY <2>1, ZoneGrows
<1>6. P \subseteq Nodes
  BY StackNodesTyped
<1> HIDE DEF c, Z
<1>7. ASSUME NEW n \in Nodes \ Z PROVE n # u /\ (tree[n] = b[n] \/ Lost(n, tree, P))
  <2>1. n \notin Zone /\ n # u /\ n \notin Subtree(Tree0, u)
    BY <1>5, <1>7
  <2>2. Lost(n, tree, P \cup {u}) => Lost(n, tree, P)
    BY <2>1 DEF Lost
  <2> QED
    BY <1>1, <2>1, <2>2 DEF Undoing
<1>8. Chain(h, stack, Z)
  BY <1>1, <1>5, ChainGrows
<1>9. ASSUME NEW n \in Nodes \ Z PROVE tree'[n] = b[n] \/ Lost(n, tree', P)
  <2>1. CASE tree' = tree
    BY <1>7, <1>9, <2>1
  <2>2. CASE Possible(tree, c) /\ tree' = Done(tree, c) /\ c.do \in Fields
    <3>1. /\ tree[u] \in NodeStates /\ tree'[u] \in NodeStates
          /\ \A m \in Nodes : m # u => tree'[m] = tree[m]
      BY <1>4, <2>2, FieldWritten
    <3>2. \A m \in Nodes : tree[m].live <=> tree'[m].live
      BY <3>1 DEF NodeStates
    <3>3. Lost(n, tree, P) => Lost(n, tree', P)
      BY <1>6, <3>2 DEF Lost
    <3> QED
      BY <1>7, <1>9, <3>1, <3>3
  <2>3. CASE Possible(tree, c) /\ tree' = Done(tree, c) /\ todo = <<Deletion(u)>>
    <3>1. /\ tree' \in Trees
          /\ \A m \in Nodes : tree'[m] = IF m \in Subtree(tree, u) THEN Absent ELSE tree[m]
      <4>1. c.do = "delete" /\ tree' \in Trees
        BY <1>4, <2>3, DoneTyped DEF Deletion
      <4> QED
        BY <1>4, <2>3, <4>1 DEF Done
    <3>2. Childless(u, b, Z)
      <4>1. Childless(u, b, Zone)
        BY <1>1, <2>3 DEF Undoing
      <4> QED
        BY <1>5, <4>1 DEF Childless
    <3>3. \A m \in Nodes \ Z : m = u \/ tree'[m] = b[m] \/ Lost(m, tree', P)
      BY <1>1, <1>4, <1>5, <1>7, <1>8, <3>1, <3>2, DeletionReaches
    <3> QED
      BY <1>7, <1>9, <3>3
  <2> QED
    BY <1>2, <1>4, <2>1, <2>2, <2>3
<1>10. Behind(b)'
  BY <1>2, <1>9 DEF Behind, P, Z
<1>11. Chain(h, stack', Zone') /\ b = h[Len(stack') + 1]
  BY <1>1, <1>2, <1>8 DEF Z
<1> QED
  BY <1>2, <1>10, <1>11 DEF CInv, TInv

LEMMA CRolledBack ==
  ASSUME TInv, TInv', CInv, RolledBack
  PROVE  CInv'
<1>1. PICK h : Chain(h, stack, Zone) /\ Behind(h[Len(stack) + 1])
  BY DEF CInv, RolledBack
<1>2. /\ stack = <<>> /\ phase' = "over" /\ UNCHANGED <<tree, damaged>>
  BY DEF RolledBack
<1>3. Len(stack) = 0 /\ DOMAIN stack = {}
  BY <1>2
<1>4. Zone' = Zone
  BY <1>2 DEF Zone
<1>5. ASSUME NEW n \in Nodes \ Zone PROVE tree[n] = Tree0[n]
  <2>1. h[1][n] = Tree0[n]
    BY <1>1, <1>3 DEF Chain
  <2>2. ~Lost(n, tree, StackNodes(stack))
    BY <1>3 DEF Lost, StackNodes
  <2> QED
    BY <1>1, <1>3, <2>1, <2>2 DEF Behind
<1>6. Agrees(Tree0)'
  BY <1>2, <1>4, <1>5 DEF Agrees
<1> QED
  BY <1>2, <1>6 DEF CInv

\* An operation that is refused leaves nothing to undo but what came before.

LEMMA CReject ==
  ASSUME TInv, TInv', CInv, Reject
  PROVE  CInv'
<1>1. PICK h, b : Chain(h, stack, Zone) /\ b = h[Len(stack) + 1] /\ Agrees(b)
  BY DEF CInv, Reject
<1>2. phase = "next" /\ phase' = "rolling" /\ UNCHANGED <<tree, stack, damaged, outcome>>
  BY DEF Reject
<1>3. Zone' = Zone
  BY <1>2 DEF Zone
<1>4. Behind(b)'
  BY <1>1, <1>2, <1>3 DEF Behind, Agrees
<1>5. Chain(h, stack', Zone') /\ b = h[Len(stack') + 1]
  BY <1>1, <1>2, <1>3
<1> QED
  BY <1>2, <1>4, <1>5 DEF CInv, TInv

LEMMA CNext == TInv /\ TInv' /\ CInv /\ [Next]_vars => CInv'
<1> SUFFICES ASSUME TInv, TInv', CInv, [Next]_vars PROVE CInv'
  OBVIOUS
<1>1. CASE Commit \/ Drop
  <2>1. phase' = "over" /\ outcome' \in {"applied", "dropped"}
    BY <1>1 DEF Commit, Drop
  <2> QED
    BY <2>1 DEF CInv
<1>2. CASE Land
  BY <1>2, FirstLand, LastLand
<1>3. CASE WindowTurns \/ UNCHANGED vars
  <2>1. UNCHANGED <<tree, ops, pos, phase, read, todo, stack, outcome, damaged>>
    BY <1>3 DEF WindowTurns, vars
  <2>2. Zone' = Zone /\ Op' = Op
    BY <2>1 DEF Zone, Op
  <2>3. ASSUME NEW b, NEW u
        PROVE  /\ Agrees(b) => Agrees(b)'
               /\ Behind(b) => Behind(b)'
               /\ Begun(b) => Begun(b)'
               /\ Undoing(b, u) => Undoing(b, u)'
    <3>1. (Agrees(b) => Agrees(b)') /\ (Behind(b) => Behind(b)')
      BY <2>1, <2>2 DEF Agrees, Behind
    <3>2. Begun(b) => Begun(b)'
      BY <2>1, <2>2 DEF Begun
    <3>3. Undoing(b, u) => Undoing(b, u)'
      BY <2>1, <2>2 DEF Undoing
    <3> QED
      BY <3>1, <3>2, <3>3
  <2>4. Rooted(tree)' <=> Rooted(tree)
    BY <2>1
  <2>5. CASE phase = "next"
    <3>1. PICK h, b : Chain(h, stack, Zone) /\ b = h[Len(stack) + 1] /\ Agrees(b)
      BY <2>5 DEF CInv
    <3>2. Chain(h, stack', Zone') /\ b = h[Len(stack') + 1] /\ Agrees(b)'
      BY <2>1, <2>2, <2>3, <3>1
    <3> QED
      BY <2>1, <2>4, <2>5, <3>2 DEF CInv, TInv
  <2>6. CASE phase = "writing"
    <3>1. PICK h, b : Chain(h, stack, Zone) /\ b = h[Len(stack) + 1] /\ Begun(b)
      BY <2>6 DEF CInv
    <3>2. Chain(h, stack', Zone') /\ b = h[Len(stack') + 1] /\ Begun(b)'
      BY <2>1, <2>2, <2>3, <3>1
    <3> QED
      BY <2>1, <2>4, <2>6, <3>2 DEF CInv, TInv
  <2>7. CASE phase = "rolling"
    <3>1. PICK h, b : Chain(h, stack, Zone) /\ b = h[Len(stack) + 1] /\ Behind(b)
      BY <2>7 DEF CInv
    <3>2. Chain(h, stack', Zone') /\ b = h[Len(stack') + 1] /\ Behind(b)'
      BY <2>1, <2>2, <2>3, <3>1
    <3> QED
      BY <2>1, <2>7, <3>2 DEF CInv, TInv
  <2>8. CASE phase = "undoing"
    <3>1. PICK h, b, u : Chain(h, stack, Zone) /\ b = h[Len(stack) + 1] /\ Undoing(b, u)
      BY <2>8 DEF CInv
    <3>2. Chain(h, stack', Zone') /\ b = h[Len(stack') + 1] /\ Undoing(b, u)'
      BY <2>1, <2>2, <2>3, <3>1
    <3> QED
      BY <2>1, <2>8, <3>2 DEF CInv, TInv
  <2>9. CASE phase = "over"
    <3>1. outcome = "rolledBack" => Agrees(Tree0)'
      BY <2>3 DEF CInv
    <3> QED
      BY <2>1, <2>9, <3>1 DEF CInv
  <2> QED
    BY <2>5, <2>6, <2>7, <2>8, <2>9 DEF TInv, TypeOK
<1>4. CASE Reject \/ Read \/ Fail \/ Undo \/ UndoLand \/ UndoFail \/ RolledBack
  BY <1>4, CReject, CRead, CFail, CUndo, CUndoLand, CUndoFail, CRolledBack
<1> QED
  BY <1>1, <1>2, <1>3, <1>4 DEF Next, Step

-----------------------------------------------------------------------------
(* The copies of creates.                                                  *)

\* A copy hangs below a place that stands and that a create was for.
Standing == \A q \in Places : copies[q] > 0 => Exists(tree, q) /\ q \in Creates(pos)

\* A place stands through every call but a deletion from above it.
LEMMA StandsThrough ==
  ASSUME NEW t \in Trees, NEW c \in Calls, Possible(t, c), NEW q \in Places, Exists(t, q),
         c.do = "delete" => q \notin Subtree(t, c.node)
  PROVE  Exists(Done(t, c), q)
<1>1. CASE q = Top
  BY <1>1 DEF Exists
<1>2. CASE q \in Nodes /\ q # c.node
  <2>1. Done(t, c)[q] = t[q]
    BY <1>2, Effect
  <2> QED
    BY <1>2, <2>1, FieldAssumption DEF Exists
<1>3. CASE q \in Nodes /\ q = c.node
  <2>1. t[q].live
    BY <1>3, FieldAssumption DEF Exists
  <2>2. c.do # "create" /\ c.do # "delete"
    BY <1>3, SubtreeRoot DEF Possible
  <2>3. Done(t, c)[q].live
    <3> DEFINE r == t[q]
    <3>1. r \in NodeStates /\ q \in DOMAIN t
      BY <1>3, <2>1, Nodewise DEF Trees
    <3>2. r.live /\ {"live", "name", "note", "parent", "done"} = DOMAIN r
      BY <3>1 DEF NodeStates
    <3>3. \/ Done(t, c)[q] = [r EXCEPT !.name = c.arg]
          \/ Done(t, c)[q] = [r EXCEPT !.note = c.arg]
          \/ Done(t, c)[q] = [r EXCEPT !.parent = c.arg]
          \/ Done(t, c)[q] = [r EXCEPT !.done = c.arg]
      <4>1. c.do \in {"name", "note", "parent", "done"}
        BY <2>2 DEF Calls
      <4> QED
        BY <1>3, <3>1, <4>1 DEF Done
    <3> HIDE DEF r
    <3> QED
      BY <3>2, <3>3
  <2> QED
    BY <1>3, <2>1, <2>3 DEF Exists
<1> QED
  BY <1>1, <1>2, <1>3 DEF Places

LEMMA LandingStands ==
  ASSUME TypeOK, Standing, NEW c \in Calls, Lands(c),
         c.do = "create" => c.arg.parent \in Creates(pos)
  PROVE  \A q \in Places : copies'[q] > 0 => Exists(tree', q) /\ q \in Creates(pos)
<1>1. PICK k \in 0 .. Attempts - 1 : copies' = Copied(tree, c, k)
  BY DEF Lands
<1>2. Possible(tree, c) /\ tree' = Done(tree, c) /\ tree \in Trees /\ copies \in [Places -> Nat]
  BY DEF Lands, TypeOK
<1> SUFFICES ASSUME NEW q \in Places, copies'[q] > 0
             PROVE  Exists(tree', q) /\ q \in Creates(pos)
  OBVIOUS
<1>3. CASE c.do = "create" /\ q = c.arg.parent
  <2>1. Exists(tree, q)
    BY <1>2, <1>3 DEF Possible
  <2> QED
    BY <1>2, <1>3, <2>1, StandsThrough
<1>4. CASE ~(c.do = "create" /\ q = c.arg.parent)
  <2>1. copies'[q] = copies[q] /\ (c.do = "delete" => q \notin Subtree(tree, c.node))
    <3>1. CASE c.do = "create"
      <4>1. copies' = [copies EXCEPT ![c.arg.parent] = @ + k] /\ q # c.arg.parent
        BY <1>1, <1>4, <3>1 DEF Copied
      <4> QED
        BY <1>2, <3>1, <4>1
    <3>2. CASE c.do = "delete"
      <4>1. copies' = [r \in Places |-> IF r \in Subtree(tree, c.node) THEN 0 ELSE copies[r]]
        BY <1>1, <3>2 DEF Copied
      <4> QED
        BY <4>1
    <3>3. CASE c.do # "create" /\ c.do # "delete"
      BY <1>1, <3>3 DEF Copied
    <3> QED
      BY <3>1, <3>2, <3>3
  <2>2. Exists(tree, q) /\ q \in Creates(pos)
    BY <2>1 DEF Standing
  <2> QED
    BY <1>2, <2>1, <2>2, StandsThrough
<1> QED
  BY <1>3, <1>4

LEMMA SInit == Init => Standing
BY DEF Init, Standing

LEMMA SNext == TInv /\ TInv' /\ CInv /\ Standing /\ [Next]_vars => Standing'
<1> SUFFICES ASSUME TInv, TInv', CInv, Standing, [Next]_vars PROVE Standing'
  OBVIOUS
<1>1. ops' = ops /\ (pos' = pos \/ pos' = pos + 1) /\ pos \in Nat
  <2>1. pos \in 1 .. Len(ops) + 1 /\ Len(ops) \in Nat
    BY ProgramAssumption, LenProperties DEF TInv, TypeOK
  <2>2. ops' = ops /\ (pos' = pos \/ pos' = pos + 1)
    BY DEF Next, Step, Commit, Reject, Read, Land, Fail, Undo, UndoLand, UndoFail, RolledBack,
           Drop, WindowTurns, vars
  <2> QED
    BY <2>1, <2>2
<1>2. Creates(pos) \subseteq Creates(pos)'
  <2>1. \A j \in Nat : j <= pos => j <= pos'
    BY <1>1
  <2>2. \A j \in 1 .. Len(ops) : j \in Nat
    BY ProgramAssumption, LenProperties DEF TInv, TypeOK
  <2> QED
    BY <1>1, <2>1, <2>2 DEF Creates
<1>3. ASSUME NEW c \in Calls, Lands(c), c.do = "create" => c.arg.parent \in Creates(pos)
      PROVE  Standing'
  <2>1. \A q \in Places : copies'[q] > 0 => Exists(tree', q) /\ q \in Creates(pos)
    BY <1>3, LandingStands DEF TInv
  <2>2. ASSUME NEW q \in Places, copies'[q] > 0 PROVE Exists(tree', q) /\ q \in Creates(pos)'
    BY <1>2, <2>1, <2>2
  <2> QED
    BY <2>2 DEF Standing
<1>4. ASSUME UNCHANGED <<tree, copies>> PROVE Standing'
  <2>1. ASSUME NEW q \in Places, copies'[q] > 0 PROVE Exists(tree', q) /\ q \in Creates(pos)'
    BY <1>2, <1>4, <2>1 DEF Standing
  <2> QED
    BY <2>1 DEF Standing
<1>5. ASSUME phase = "writing", Lands(Head(todo)) PROVE Standing'
  <2> DEFINE c == Head(todo)
  <2>1. /\ c \in Calls /\ Op = ops[pos]
        /\ c.do = "create" => Op.kind = "create" /\ c.arg.parent = Op.parent
    <3>1. CASE Len(todo) = 1
      <4>1. c.do = "create" => Op.kind = "create" /\ c = Creation(Op)
        BY <1>5, <3>1, LastCall DEF Deletion, Call
      <4>2. Creation(Op).arg.parent = Op.parent
        BY DEF Creation
      <4> QED
        BY <1>5, <4>1, <4>2, AtHand DEF Op
    <3>2. CASE Len(todo) # 1
      BY <1>5, <3>2, AtHand DEF Call, Op
    <3> QED
      BY <3>1, <3>2
  <2>2. pos \in 1 .. Len(ops) /\ pos <= pos
    <3>1. pos \in 1 .. Len(ops) + 1 /\ Len(ops) \in Nat /\ pos <= Len(ops)
      BY <1>5, ProgramAssumption, LenProperties DEF TInv, TypeOK
    <3> QED
      BY <3>1
  <2>3. c.do = "create" => c.arg.parent \in Creates(pos)
    BY <2>1, <2>2 DEF Creates
  <2> QED
    BY <1>3, <1>5, <2>1, <2>3
<1>6. ASSUME phase = "undoing", Lands(Head(todo)) PROVE Standing'
  <2>1. PICK u : Inverts(u, todo)
    BY <1>6 DEF CInv, Undoing
  <2>2. Head(todo) \in Calls /\ Head(todo).do # "create"
    BY <1>6, <2>1, UndoAtHand DEF Deletion, Fields
  <2> QED
    BY <1>3, <1>6, <2>2
<1>7. CASE Commit \/ Reject \/ Read \/ Undo \/ RolledBack \/ Drop \/ WindowTurns \/ UNCHANGED vars
  <2>1. UNCHANGED <<tree, copies>>
    BY <1>7 DEF Commit, Reject, Read, Undo, RolledBack, Drop, WindowTurns, vars
  <2> QED
    BY <1>4, <2>1
<1>8. CASE Land \/ Fail
  BY <1>4, <1>5, <1>8 DEF Land, Fail
<1>9. CASE UndoLand \/ UndoFail
  BY <1>4, <1>6, <1>9 DEF UndoLand, UndoFail
<1> QED
  BY <1>7, <1>8, <1>9 DEF Next, Step

(* After a rollback a node is as it was before the transaction, unless     *)
(* something irreversible befell it or a node it was under; a create that  *)
(* landed twice has left its copies below places that stand and that a     *)
(* create was for, and nowhere else (run_txn_inverse, request_cancellable).*)
THEOREM DamageStaysContained == Spec => []DamageIsContained
<1>1. CInv /\ Standing => DamageIsContained
  BY DEF CInv, Agrees, Zone, Standing, DamageIsContained
<1> QED
  BY <1>1, TInit, TNext, CInit, CNext, SInit, SNext, PTL DEF Spec

(* The half of the refinement that is about failing: where nothing         *)
(* irreversible happened, a rollback leaves every node a name is known of  *)
(* as it was, and copies of creates nowhere but below the workspace root   *)
(* and nodes that were there before; none at all if no create was tried.   *)
Restored ==
  outcome = "rolledBack" /\ damaged = {} =>
    /\ tree = Tree0
    /\ \A q \in Places : copies[q] > 0 => Exists(Tree0, q) /\ q \in Creates(pos)

THEOREM RollbackRestores == Spec => []Restored
<1>1. ASSUME TInv, CInv, Standing PROVE Restored
  <2> SUFFICES ASSUME outcome = "rolledBack", damaged = {} PROVE tree = Tree0
    BY <1>1 DEF Restored, Standing
  <2>1. Zone = {}
    BY DEF Zone
  <2>2. \A n \in Nodes : tree[n] = Tree0[n]
    BY <1>1, <2>1 DEF CInv, Agrees
  <2>3. tree \in Trees /\ Tree0 \in Trees
    BY <1>1, TreeAssumption DEF TInv, TypeOK
  <2> QED
    BY <2>2, <2>3 DEF Trees
<1> QED
  BY <1>1, TInit, TNext, CInit, CNext, SInit, SNext, PTL DEF Spec

-----------------------------------------------------------------------------
(* The refinement.                                                         *)

\* A call carried out leaves an outline, possible or not.
LEMMA DoneStays ==
  ASSUME NEW t \in Trees, NEW c \in Calls
  PROVE  Done(t, c) \in Trees
<1>0. c.node \in Nodes
  BY DEF Calls
<1>1. CASE Possible(t, c)
  BY <1>1, DoneTyped
<1>2. CASE c.do = "create"
  <2>1. c.arg \in NodeStates
    BY <1>2 DEF Calls
  <2> QED
    BY <1>0, <1>2, <2>1 DEF Done, Trees
<1>3. CASE c.do = "delete"
  <2>1. Done(t, c) = [m \in Nodes |-> IF m \in Subtree(t, c.node) THEN Absent ELSE t[m]]
    BY <1>3 DEF Done
  <2> QED
    BY <1>0, <2>1 DEF Trees
<1>4. CASE c.do \in Fields /\ ~t[c.node].live
  <2> DEFINE r == t[c.node]
  <2>1. r = Absent
    BY <1>0, <1>4, Nodewise
  <2>2. \A v : /\ [Absent EXCEPT !.name = v] = Absent /\ [Absent EXCEPT !.note = v] = Absent
               /\ [Absent EXCEPT !.parent = v] = Absent /\ [Absent EXCEPT !.done = v] = Absent
    BY DEF Absent
  <2>3. Done(t, c) = [t EXCEPT ![c.node] = Absent]
    <3>1. \/ Done(t, c) = [t EXCEPT ![c.node] = [r EXCEPT !.name = c.arg]]
          \/ Done(t, c) = [t EXCEPT ![c.node] = [r EXCEPT !.note = c.arg]]
          \/ Done(t, c) = [t EXCEPT ![c.node] = [r EXCEPT !.parent = c.arg]]
          \/ Done(t, c) = [t EXCEPT ![c.node] = [r EXCEPT !.done = c.arg]]
      BY <1>4 DEF Done, Fields
    <3> HIDE DEF r
    <3> QED
      BY <2>1, <2>2, <3>1
  <2> QED
    BY <1>0, <2>3 DEF Trees
<1>5. CASE c.do \in {"name", "note", "done"} /\ t[c.node].live
  <2>1. Possible(t, c)
    BY <1>0, <1>5 DEF Possible, Exists
  <2> QED
    BY <2>1, DoneTyped
<1>6. CASE c.do = "parent" /\ t[c.node].live
  <2> DEFINE r == t[c.node]
  <2>1. r \in NodeStates /\ c.arg \in Nodes
    BY <1>0, <1>6, Nodewise DEF Calls
  <2>2. [r EXCEPT !.parent = c.arg] \in NodeStates
    BY <2>1 DEF NodeStates
  <2>3. Done(t, c) = [t EXCEPT ![c.node] = [r EXCEPT !.parent = c.arg]]
    BY <1>6 DEF Done
  <2> QED
    BY <1>0, <2>2, <2>3 DEF Trees
<1>7. c.do \in {"create", "delete"} \cup Fields
  BY DEF Calls, Fields
<1> QED
  BY <1>2, <1>3, <1>4, <1>5, <1>6, <1>7 DEF Fields

\* f is the recursion of Replay.
Replaying(f, t, calls) == f[0] = t /\ \A k \in 1..Len(calls) : f[k] = Done(f[k - 1], calls[k])

LEMMA ReplayUnfolds ==
  ASSUME NEW t \in Trees, NEW calls \in Seq(Calls)
  PROVE  \E f \in [0..Len(calls) -> Trees] :
           Replaying(f, t, calls) /\ Replay(t, calls) = f[Len(calls)]
<1> DEFINE n == Len(calls)
           Rec(u) == [k \in 0..n |-> IF k = 0 THEN t ELSE Done(u[k - 1], calls[k])]
           after == CHOOSE u : u = Rec(u)
           g == [p \in Nat \X Trees |-> IF p[1] \in 1..n THEN Done(p[2], calls[p[1]]) ELSE p[2]]
<1>0. n \in Nat /\ \A k \in 1..n : calls[k] \in Calls
  BY LenProperties, ElementOfSeq
<1> HIDE DEF n
<1>1. g \in [Nat \X Trees -> Trees]
  <2>1. ASSUME NEW p \in Nat \X Trees
        PROVE  (IF p[1] \in 1..n THEN Done(p[2], calls[p[1]]) ELSE p[2]) \in Trees
    <3>1. p[2] \in Trees
      OBVIOUS
    <3> QED
      BY <1>0, <3>1, DoneStays
  <2> QED
    BY <2>1
<1>2. PICK h : Obeys(h, Trees, t, g, n)
  <2> HIDE DEF g
  <2> QED
    BY <1>0, <1>1, RecursionExists
<1>3. h = Rec(h)
  <2>1. ASSUME NEW k \in 0..n PROVE h[k] = IF k = 0 THEN t ELSE Done(h[k - 1], calls[k])
    <3>1. CASE k = 0
      BY <1>2, <3>1 DEF Obeys
    <3>2. CASE k # 0
      <4>1. k \in 1..n /\ k - 1 \in 0..n /\ k \in Nat
        BY <1>0, <3>2
      <4>2. h[k] = g[<<k, h[k - 1]>>] /\ h[k - 1] \in Trees
        BY <1>2, <4>1 DEF Obeys
      <4>3. <<k, h[k - 1]>> \in Nat \X Trees /\ <<k, h[k - 1]>>[1] = k /\ <<k, h[k - 1]>>[2] = h[k - 1]
        BY <4>1, <4>2
      <4> QED
        BY <3>2, <4>1, <4>2, <4>3
    <3> QED
      BY <3>1, <3>2
  <2> QED
    BY <1>2, <2>1 DEF Obeys
<1>4. after = Rec(after)
  <2> HIDE DEF Rec
  <2> QED
    BY <1>3
<1>5. Replay(t, calls) = after[n]
  BY Zenon DEF Replay, n
<1> HIDE DEF after
<1>6. after[0] = t /\ \A k \in 1..n : after[k] = Done(after[k - 1], calls[k])
  <2> DEFINE d == Rec(after)
  <2>1. d[0] = t /\ \A k \in 1..n : d[k] = Done(after[k - 1], calls[k])
    BY <1>0
  <2> HIDE DEF d
  <2>2. after = d
    BY <1>4 DEF d
  <2> QED
    BY <2>1, <2>2
<1> DEFINE T == {k \in Nat : after[k] \in Trees}
<1>7. 0 \in T
  BY <1>6
<1>8. ASSUME NEW i \in 0..(n - 1), i \in T PROVE i + 1 \in T
  <2>1. i + 1 \in 1..n /\ (i + 1) - 1 = i
    BY <1>0
  <2>2. after[i + 1] = Done(after[i], calls[i + 1]) /\ calls[i + 1] \in Calls
    BY <1>0, <1>6, <2>1
  <2> QED
    BY <1>8, <2>1, <2>2, DoneStays
<1>9. \A k \in 0..n : k \in T
  <2> HIDE DEF T
  <2> QED
    BY <1>0, <1>7, <1>8, Inductive
<1> DEFINE e == [k \in 0..n |-> after[k]]
<1>10. e \in [0..n -> Trees]
  BY <1>9
<1>11. Replaying(e, t, calls)
  <2>1. e[0] = t
    BY <1>0, <1>6
  <2>2. ASSUME NEW k \in 1..n PROVE e[k] = Done(e[k - 1], calls[k])
    <3>1. k \in 0..n /\ k - 1 \in 0..n
      BY <1>0
    <3>2. e[k] = after[k] /\ e[k - 1] = after[k - 1]
      BY <3>1
    <3> QED
      BY <1>6, <3>2
  <2> HIDE DEF e
  <2> QED
    BY <2>1, <2>2 DEF Replaying, n
<1>12. Replay(t, calls) = e[n]
  BY <1>0, <1>5
<1> QED
  BY <1>10, <1>11, <1>12 DEF n

LEMMA ReplayIn ==
  ASSUME NEW t \in Trees, NEW calls \in Seq(Calls)
  PROVE  Replay(t, calls) \in Trees
BY ReplayUnfolds, LenProperties

LEMMA ReplayNone == ASSUME NEW t \in Trees PROVE Replay(t, <<>>) = t
<1>1. <<>> \in Seq(Calls) /\ Len(<<>>) = 0
  OBVIOUS
<1>2. PICK f : Replaying(f, t, <<>>) /\ Replay(t, <<>>) = f[Len(<<>>)]
  BY <1>1, ReplayUnfolds
<1> QED
  BY <1>1, <1>2 DEF Replaying

\* The first call, then the others.
LEMMA ReplayHead ==
  ASSUME NEW t \in Trees, NEW calls \in Seq(Calls), calls # <<>>
  PROVE  Replay(t, calls) = Replay(Done(t, Head(calls)), Tail(calls))
<1> DEFINE n == Len(calls)
           c == Head(calls)
           rest == Tail(calls)
<1>1. /\ c \in Calls /\ rest \in Seq(Calls) /\ n \in Nat \ {0} /\ c = calls[1]
      /\ DOMAIN rest = 1..n - 1 /\ \A j \in 1..n - 1 : rest[j] = calls[j + 1]
  BY HeadTyped
<1>2. Len(rest) = n - 1
  BY HeadTailProperties
<1> HIDE DEF c, rest
<1>3. PICK f : Replaying(f, t, calls) /\ Replay(t, calls) = f[n]
  BY ReplayUnfolds
<1>4. Done(t, c) \in Trees
  BY <1>1, DoneStays
<1>5. PICK h : Replaying(h, Done(t, c), rest) /\ Replay(Done(t, c), rest) = h[n - 1]
  BY <1>1, <1>2, <1>4, ReplayUnfolds
<1>6. f[0] = t /\ \A k \in 1..n : f[k] = Done(f[k - 1], calls[k])
  BY <1>3 DEF Replaying
<1>7. h[0] = Done(t, c) /\ \A k \in 1..(n - 1) : h[k] = Done(h[k - 1], rest[k])
  BY <1>2, <1>5 DEF Replaying
<1> HIDE DEF n
<1> DEFINE T == {k \in Nat : h[k] = f[k + 1]}
<1>8. 0 \in T
  <2>1. 1 \in 1..n /\ 1 - 1 = 0 /\ 0 + 1 = 1
    BY <1>1
  <2>2. f[1] = Done(f[1 - 1], calls[1])
    BY <1>6, <2>1
  <2> QED
    BY <1>1, <1>6, <1>7, <2>1, <2>2
<1>9. ASSUME NEW i \in 0..((n - 1) - 1), i \in T PROVE i + 1 \in T
  <2>1. /\ i + 1 \in 1..(n - 1) /\ (i + 1) + 1 \in 1..n /\ (i + 1) - 1 = i
        /\ ((i + 1) + 1) - 1 = i + 1 /\ i + 1 \in Nat
    BY <1>1
  <2>2. h[i + 1] = Done(h[i], rest[i + 1]) /\ f[(i + 1) + 1] = Done(f[i + 1], calls[(i + 1) + 1])
    BY <1>6, <1>7, <2>1
  <2>3. rest[i + 1] = calls[(i + 1) + 1] /\ h[i] = f[i + 1]
    BY <1>1, <1>9, <2>1
  <2> QED
    BY <2>1, <2>2, <2>3
<1>10. n - 1 \in T
  <2> HIDE DEF T
  <2>1. n - 1 \in Nat /\ n - 1 \in 0..(n - 1)
    BY <1>1
  <2>2. \A k \in 0..(n - 1) : k \in T
    BY <1>8, <1>9, <2>1, Inductive
  <2> QED
    BY <2>1, <2>2
<1>11. (n - 1) + 1 = n
  BY <1>1
<1> QED
  BY <1>3, <1>5, <1>10, <1>11 DEF c, rest

LEMMA AnyCallsTyped ==
  ASSUME NEW op \in Ops
  PROVE  OpCalls(op) \in Seq(Calls)
<1>1. CASE ~Malformed(op)
  BY <1>1, OpCallsTyped
<1>2. CASE op.kind = "malformed"
  BY <1>2 DEF OpCalls
<1>3. CASE op.kind = "edit" /\ op.name = Untouched /\ op.note = Untouched
  <2>1. OpCalls(op) = Write(op.node, "name", op.name) \o Write(op.node, "note", op.note)
    BY <1>3 DEF OpCalls
  <2>2. OpCalls(op) = <<>>
    BY <1>3, <2>1 DEF Write
  <2> QED
    BY <2>2
<1> QED
  BY <1>1, <1>2, <1>3 DEF Malformed

\* The outline as the operations leave it, one after another.
Progress(h, list) ==
  /\ h \in [0..Len(list) -> Trees] /\ h[0] = Tree0
  /\ \A k \in 1..Len(list) : h[k] = Replay(h[k - 1], OpCalls(list[k]))

GoalOf(list) ==
  LET after[k \in 0 .. Len(list)] == IF k = 0 THEN Tree0 ELSE Replay(after[k - 1], OpCalls(list[k]))
  IN  after[Len(list)]

LEMMA GoalUnfolds ==
  ASSUME NEW list \in Seq(Ops)
  PROVE  \E h : Progress(h, list) /\ GoalOf(list) = h[Len(list)]
<1> DEFINE n == Len(list)
           Rec(u) == [k \in 0..n |-> IF k = 0 THEN Tree0 ELSE Replay(u[k - 1], OpCalls(list[k]))]
           after == CHOOSE u : u = Rec(u)
           g == [p \in Nat \X Trees |-> IF p[1] \in 1..n THEN Replay(p[2], OpCalls(list[p[1]])) ELSE p[2]]
<1>0. n \in Nat /\ Tree0 \in Trees /\ \A k \in 1..n : OpCalls(list[k]) \in Seq(Calls)
  BY LenProperties, ElementOfSeq, AnyCallsTyped, TreeAssumption
<1> HIDE DEF n
<1>1. g \in [Nat \X Trees -> Trees]
  <2>1. ASSUME NEW p \in Nat \X Trees
        PROVE  (IF p[1] \in 1..n THEN Replay(p[2], OpCalls(list[p[1]])) ELSE p[2]) \in Trees
    <3>1. p[2] \in Trees
      OBVIOUS
    <3> QED
      BY <1>0, <3>1, ReplayIn
  <2> QED
    BY <2>1
<1>2. PICK h : Obeys(h, Trees, Tree0, g, n)
  <2> HIDE DEF g
  <2> QED
    BY <1>0, <1>1, RecursionExists
<1>3. h = Rec(h)
  <2>1. ASSUME NEW k \in 0..n PROVE h[k] = IF k = 0 THEN Tree0 ELSE Replay(h[k - 1], OpCalls(list[k]))
    <3>1. CASE k = 0
      BY <1>2, <3>1 DEF Obeys
    <3>2. CASE k # 0
      <4>1. k \in 1..n /\ k - 1 \in 0..n /\ k \in Nat
        BY <1>0, <3>2
      <4>2. h[k] = g[<<k, h[k - 1]>>] /\ h[k - 1] \in Trees
        BY <1>2, <4>1 DEF Obeys
      <4>3. <<k, h[k - 1]>> \in Nat \X Trees /\ <<k, h[k - 1]>>[1] = k /\ <<k, h[k - 1]>>[2] = h[k - 1]
        BY <4>1, <4>2
      <4> QED
        BY <3>2, <4>1, <4>2, <4>3
    <3> QED
      BY <3>1, <3>2
  <2> QED
    BY <1>2, <2>1 DEF Obeys
<1>4. after = Rec(after)
  <2> HIDE DEF Rec
  <2> QED
    BY <1>3
<1>5. GoalOf(list) = after[n]
  BY Zenon DEF GoalOf, n
<1> HIDE DEF after
<1>6. after[0] = Tree0 /\ \A k \in 1..n : after[k] = Replay(after[k - 1], OpCalls(list[k]))
  <2> DEFINE d == Rec(after)
  <2>1. d[0] = Tree0 /\ \A k \in 1..n : d[k] = Replay(after[k - 1], OpCalls(list[k]))
    BY <1>0
  <2> HIDE DEF d
  <2>2. after = d
    BY <1>4 DEF d
  <2> QED
    BY <2>1, <2>2
<1> DEFINE T == {k \in Nat : after[k] \in Trees}
<1>7. 0 \in T
  BY <1>0, <1>6
<1>8. ASSUME NEW i \in 0..(n - 1), i \in T PROVE i + 1 \in T
  <2>1. i + 1 \in 1..n /\ (i + 1) - 1 = i
    BY <1>0
  <2>2. after[i + 1] = Replay(after[i], OpCalls(list[i + 1])) /\ OpCalls(list[i + 1]) \in Seq(Calls)
    BY <1>0, <1>6, <2>1
  <2> QED
    BY <1>8, <2>1, <2>2, ReplayIn
<1>9. \A k \in 0..n : k \in T
  <2> HIDE DEF T
  <2> QED
    BY <1>0, <1>7, <1>8, Inductive
<1> DEFINE e == [k \in 0..n |-> after[k]]
<1>10. e \in [0..n -> Trees]
  BY <1>9
<1>11. e[0] = Tree0
  BY <1>0, <1>6
<1>12. ASSUME NEW k \in 1..n PROVE e[k] = Replay(e[k - 1], OpCalls(list[k]))
  <2>1. k \in 0..n /\ k - 1 \in 0..n
    BY <1>0
  <2>2. e[k] = after[k] /\ e[k - 1] = after[k - 1]
    BY <2>1
  <2> QED
    BY <1>6, <2>2
<1>13. GoalOf(list) = e[n]
  BY <1>0, <1>5
<1> HIDE DEF e
<1> QED
  BY <1>10, <1>11, <1>12, <1>13 DEF Progress, n

\* Between operations the outline is as those behind left it; within one, what is
\* left of it leads there.
OnTheWay(h) ==
  /\ phase = "next" => tree = h[pos - 1]
  /\ phase = "writing" => Replay(tree, todo) = h[pos]
  /\ outcome = "applied" => tree = h[Len(ops)]

GInv == \E h : Progress(h, ops) /\ Goal = h[Len(ops)] /\ OnTheWay(h)

LEMMA GInit == Init => GInv
<1> SUFFICES ASSUME Init PROVE GInv
  OBVIOUS
<1>1. PICK list : list = ops
  OBVIOUS
<1>2. list \in Seq(Ops)
  BY <1>1, ProgramAssumption DEF Init
<1>3. PICK h : Progress(h, list) /\ GoalOf(list) = h[Len(list)]
  BY <1>2, GoalUnfolds
<1>4. Goal = GoalOf(ops)
  BY Zenon DEF Goal, GoalOf
<1>5. Progress(h, ops) /\ Goal = h[Len(ops)]
  BY <1>1, <1>3, <1>4
<1>6. OnTheWay(h)
  BY <1>3 DEF OnTheWay, Init, Progress
<1> QED
  BY <1>5, <1>6 DEF GInv

LEMMA GNext == TInv /\ TInv' /\ GInv /\ [Next]_vars => GInv'
<1> SUFFICES ASSUME TInv, TInv', GInv, [Next]_vars PROVE GInv'
  OBVIOUS
<1>1. PICK h : Progress(h, ops) /\ Goal = h[Len(ops)] /\ OnTheWay(h)
  BY DEF GInv
<1>2. ops' = ops
  BY DEF Next, Step, Commit, Reject, Read, Land, Fail, Undo, UndoLand, UndoFail, RolledBack,
         Drop, WindowTurns, vars
<1>3. Progress(h, ops)' /\ Goal' = h[Len(ops')]
  <2>1. Goal' = Goal
    BY <1>2 DEF Goal
  <2> QED
    BY <1>1, <1>2, <2>1
<1> SUFFICES OnTheWay(h)'
  BY <1>3 DEF GInv
<1>4. tree \in Trees /\ todo \in Seq(Calls) /\ pos \in 1..Len(ops) + 1 /\ ops \in Seq(Ops) /\ Len(ops) \in Nat
  BY ProgramAssumption, LenProperties DEF TInv, TypeOK
<1>5. CASE UNCHANGED <<tree, pos, phase, todo, outcome>>
  BY <1>1, <1>2, <1>5 DEF OnTheWay
<1>6. CASE Commit
  <2>1. phase = "next" /\ pos > Len(ops) /\ phase' = "over" /\ tree' = tree
    BY <1>6 DEF Commit
  <2>2. pos - 1 = Len(ops)
    BY <1>4, <2>1
  <2>3. tree = h[Len(ops)]
    BY <1>1, <2>1, <2>2 DEF OnTheWay
  <2> QED
    BY <1>2, <2>1, <2>3 DEF OnTheWay
<1>7. CASE Read
  <2>1. /\ phase = "next" /\ pos <= Len(ops) /\ todo' = OpCalls(Op) /\ phase' = "writing"
        /\ UNCHANGED <<tree, pos, outcome>> /\ outcome # "applied"
    BY <1>7 DEF Read, TInv
  <2>2. pos \in 1..Len(ops)
    BY <1>4, <2>1
  <2>3. h[pos] = Replay(h[pos - 1], OpCalls(ops[pos]))
    BY <1>1, <2>2 DEF Progress
  <2>4. tree = h[pos - 1]
    BY <1>1, <2>1 DEF OnTheWay
  <2>5. Replay(tree', todo') = h[pos']
    BY <2>1, <2>3, <2>4 DEF Op
  <2> QED
    BY <2>1, <2>5 DEF OnTheWay
<1>8. CASE Land
  <2>1. /\ phase = "writing" /\ tree' = Done(tree, Head(todo)) /\ todo' = Tail(todo)
        /\ outcome' = outcome /\ outcome # "applied"
    BY <1>8 DEF Land, TInv, Lands
  <2>2. todo # <<>>
    BY <2>1, AtHand
  <2>3. Replay(tree, todo) = h[pos]
    BY <1>1, <2>1 DEF OnTheWay
  <2>4. PICK t, s : t = tree /\ s = todo
    OBVIOUS
  <2>5. Replay(t, s) = Replay(Done(t, Head(s)), Tail(s))
    BY <1>4, <2>2, <2>4, ReplayHead
  <2>6. Replay(tree', todo') = h[pos]
    BY <2>1, <2>3, <2>4, <2>5
  <2>7. CASE Len(todo) = 1
    <3>1. phase' = "next" /\ pos' = pos + 1
      BY <1>8, <2>7 DEF Land
    <3>2. Tail(s) = <<>>
      <4>1. Tail(s) \in Seq(Calls) /\ Len(Tail(s)) = 0
        BY <1>4, <2>2, <2>4, <2>7, HeadTailProperties
      <4> QED
        BY <4>1, EmptySeq
    <3>3. Done(t, Head(s)) \in Trees
      BY <1>4, <2>2, <2>4, HeadTyped, DoneStays
    <3>4. Replay(Done(t, Head(s)), <<>>) = Done(t, Head(s))
      BY <3>3, ReplayNone
    <3>5. tree' = h[pos]
      BY <2>1, <2>4, <2>6, <3>2, <3>4
    <3>6. pos' - 1 = pos
      BY <1>4, <3>1
    <3> QED
      BY <2>1, <3>1, <3>5, <3>6 DEF OnTheWay
  <2>8. CASE Len(todo) # 1
    <3>1. phase' = phase /\ pos' = pos
      BY <1>8, <2>8 DEF Land
    <3> QED
      BY <2>1, <2>6, <3>1 DEF OnTheWay
  <2> QED
    BY <2>7, <2>8
<1>9. CASE Reject \/ Fail \/ Undo \/ UndoLand \/ UndoFail \/ RolledBack \/ Drop
  <2>1. phase' \in {"rolling", "undoing", "over"} /\ outcome' # "applied"
    BY <1>9 DEF Reject, Fail, Undo, UndoLand, UndoFail, RolledBack, Drop, TInv
  <2> QED
    BY <2>1 DEF OnTheWay
<1> QED
  BY <1>5, <1>6, <1>7, <1>8, <1>9 DEF Next, Step, WindowTurns, vars

LEMMA BatchInit == Init /\ GInv => Batch!Init
<1> SUFFICES ASSUME Init, GInv PROVE Batch!Init
  OBVIOUS
<1>1. Goal \in Trees
  <2>1. PICK h : Progress(h, ops) /\ Goal = h[Len(ops)]
    BY DEF GInv
  <2>2. Len(ops) \in Nat
    BY ProgramAssumption, LenProperties DEF Init
  <2>3. Len(ops) \in 0..Len(ops)
    BY <2>2
  <2> QED
    BY <2>1, <2>3 DEF Progress
<1>2. ~(\E q \in Places : copies[q] > 0)
  BY DEF Init
<1> QED
  BY <1>1, <1>2, TreeAssumption DEF Init, Batch!Init

LEMMA BatchNext ==
  TInv /\ TInv' /\ CInv' /\ Standing' /\ GInv /\ [Next]_vars => [Batch!Next]_Batch!vars
<1> SUFFICES ASSUME TInv, TInv', CInv', Standing', GInv, [Next]_vars PROVE [Batch!Next]_Batch!vars
  OBVIOUS
<1>1. ops' = ops
  BY DEF Next, Step, Commit, Reject, Read, Land, Fail, Undo, UndoLand, UndoFail, RolledBack,
         Drop, WindowTurns, vars
<1>2. Goal' = Goal /\ Creates(Len(ops))' = Creates(Len(ops))
  BY <1>1 DEF Goal, Creates
<1> DEFINE Extra == outcome # "open" /\ \E q \in Places : copies[q] > 0
           Creating == Creates(Len(ops)) # {}
<1>0. Extra' \in {FALSE, Creating} /\ (outcome = "open" => ~Extra)
  <2>1. ASSUME NEW q \in Places, copies'[q] > 0 PROVE Creates(Len(ops)) # {}
    <3>1. q \in Creates(pos)'
      BY <2>1 DEF Standing
    <3>2. \E j \in 1 .. Len(ops) : ops[j].kind = "create"
      BY <1>1, <3>1 DEF Creates
    <3>3. \A j \in 1 .. Len(ops) : j <= Len(ops)
      BY ProgramAssumption, LenProperties DEF TInv, TypeOK
    <3> QED
      BY <3>2, <3>3 DEF Creates
  <2> QED
    BY <2>1
<1>3. tree' \in Trees
  BY DEF TInv, TypeOK
<1>4. CASE outcome' = outcome /\ outcome = "open"
  BY <1>2, <1>4, Zenon DEF Batch!vars
<1>5. CASE UNCHANGED <<tree, copies, outcome, damaged>>
  BY <1>2, <1>5 DEF Batch!vars
<1>6. CASE Commit
  <2>1. phase = "next" /\ pos > Len(ops) /\ outcome = "open" /\ outcome' = "applied" /\ tree' = tree
    BY <1>6 DEF Commit, TInv
  <2>2. pos - 1 = Len(ops)
    <3>1. pos \in 1..Len(ops) + 1 /\ Len(ops) \in Nat
      BY ProgramAssumption, LenProperties DEF TInv, TypeOK
    <3> QED
      BY <2>1, <3>1
  <2>3. tree = Goal
    BY <2>1, <2>2 DEF GInv, OnTheWay
  <2>4. Batch!Commit
    BY <1>0, <1>2, <2>1, <2>3 DEF Batch!Commit
  <2> QED
    BY <2>4 DEF Batch!Next
<1>7. CASE RolledBack
  <2>1. /\ outcome = "open" /\ outcome' = "rolledBack" /\ damaged' = damaged /\ tree' = tree
        /\ phase' = "over"
    BY <1>7 DEF RolledBack, TInv
  <2>2. CASE damaged = {}
    <3>1. tree' = Tree0
      <4>1. Agrees(Tree0)'
        BY <2>1 DEF CInv
      <4>2. Zone' = {}
        BY <2>1, <2>2 DEF Zone
      <4>3. \A n \in Nodes : tree'[n] = Tree0[n]
        BY <4>1, <4>2 DEF Agrees
      <4> QED
        BY <1>3, <4>3, TreeAssumption DEF Trees
    <3>2. Batch!Abort
      BY <1>0, <1>2, <2>1, <2>2, <3>1 DEF Batch!Abort
    <3> QED
      BY <3>2 DEF Batch!Next
  <2>3. CASE damaged # {}
    <3>1. Batch!Break
      BY <1>0, <1>2, <1>3, <2>1, <2>3 DEF Batch!Break
    <3> QED
      BY <3>1 DEF Batch!Next
  <2> QED
    BY <2>2, <2>3
<1>8. CASE Drop
  <2>1. outcome = "open" /\ outcome' = "dropped"
    BY <1>8 DEF Drop, TInv
  <2>2. Batch!Break
    BY <1>0, <1>2, <1>3, <2>1 DEF Batch!Break
  <2> QED
    BY <2>2 DEF Batch!Next
<1>9. CASE Reject \/ Read \/ Land \/ Fail \/ Undo \/ UndoLand \/ UndoFail
  <2>1. outcome' = outcome /\ outcome = "open"
    BY <1>9 DEF Reject, Read, Land, Fail, Undo, UndoLand, UndoFail, TInv
  <2> QED
    BY <1>4, <2>1
<1> QED
  BY <1>5, <1>6, <1>7, <1>8, <1>9 DEF Next, Step, WindowTurns, vars

(* A transaction is all or nothing: it applies every operation of its list,  *)
(* or leaves the outline as it was, unless it was dropped or something that  *)
(* cannot be undone befell it (run_transaction).                             *)
THEOREM TransactionIsAtomic == Spec => ImplementsBatch
<1> USE DEF ImplementsBatch
<1> QED
  BY TInit, TNext, CInit, CNext, SInit, SNext, GInit, GNext, BatchInit, BatchNext, PTL
  DEF Spec, Batch!Spec
=============================================================================
