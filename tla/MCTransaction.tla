---------------------------- MODULE MCTransaction ----------------------------
(* a and b exist, b under a; p is what a create makes.                      *)
EXTENDS Transaction, TLC

CONSTANTS a, b, p

MCNodes == {a, b, p}
MCNames == {"x", "y"}
MCNotes == {"u", "v"}
Live(parent, note) ==
  [live |-> TRUE, name |-> "x", note |-> note, parent |-> parent, done |-> FALSE]
MCTree0 == a :> Live(Top, NoNote) @@ b :> Live(a, "u") @@ p :> Absent

Create == [kind |-> "create", node |-> p, name |-> "y", note |-> NoNote, parent |-> a]
Edit(n, name, note) == [kind |-> "edit", node |-> n, name |-> name, note |-> note]
Move(n, to) == [kind |-> "move", node |-> n, parent |-> to]
Complete == [kind |-> "complete", node |-> b, done |-> TRUE]
Bad == [kind |-> "malformed"]

Menu == {Create, [Create EXCEPT !.parent = Top], [Create EXCEPT !.parent = b],
         Edit(b, "y", Untouched), Edit(b, "y", "v"), Edit(a, Untouched, "v"), Move(b, p), Move(a, p),
         Complete, [kind |-> "delete", node |-> b], Bad}

\* Every list of up to three operations from the menu.
MCPrograms == UNION {[1 .. k -> Menu] : k \in 1 .. 3}
IntoNew == {<<[Create EXCEPT !.parent = Top], Move(a, p), Bad>>}
=============================================================================
