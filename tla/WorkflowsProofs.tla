---------------------------- MODULE WorkflowsProofs ----------------------------
(***************************************************************************)
(* Proofs about the workflows: what an insert builds, what a reorder       *)
(* leaves, what a copy copies and what a mirror reports, for every outline *)
(* and whatever the other client does.                                     *)
(***************************************************************************)
EXTENDS Workflows, ListFacts

-----------------------------------------------------------------------------
(* The calls of the client.                                                *)

Froms == Old \cup {Foreign} \cup Nat
Shape ==
  /\ made \in Seq([from : Froms, told : BOOLEAN])
  /\ kids \in [Nodes \cup {Top} -> Seq(Nodes)]
  /\ DOMAIN labels = Nodes

\* New nodes follow those there are; the last of them is told, if any is.
MadeGrows(from, n, ok) ==
  /\ made' \in Seq([from : Froms, told : BOOLEAN])
  /\ New = 1..Len(made) /\ Len(made) \in Nat
  /\ New' = 1..(Len(made) + n)
  /\ \A x \in New : made'[x] = made[x]
  /\ \A x \in New' \ New : made'[x].from = from /\ (made'[x].told <=> ok /\ x = Len(made) + n)

LEMMA MadeStep ==
  ASSUME made \in Seq([from : Froms, told : BOOLEAN]), NEW from \in Froms, NEW n \in Nat,
         NEW ok \in BOOLEAN,
         made' = made \o [i \in 1..n |-> [from |-> from, told |-> ok /\ i = n]]
  PROVE  MadeGrows(from, n, ok)
<1> DEFINE M == [from : Froms, told : BOOLEAN]
           t == [i \in 1..n |-> [from |-> from, told |-> ok /\ i = n]]
           m == Len(made)
<1>1. ASSUME NEW i \in 1..n PROVE [from |-> from, told |-> ok /\ i = n] \in M
  <2> DEFINE b == ok /\ i = n
  <2>1. b \in BOOLEAN
    BY Zenon
  <2> HIDE DEF b
  <2>2. [from |-> from, told |-> b] \in M
    BY <2>1
  <2> QED
    BY <2>2, Zenon DEF b
<1> HIDE DEF M
<1>2. t \in Seq(M) /\ Len(t) = n
  <2>1. t \in [1..n -> M]
    BY <1>1
  <2>2. DOMAIN t = 1..n
    OBVIOUS
  <2> HIDE DEF t
  <2> QED
    BY <2>1, <2>2
<1>3. \A i \in 1..n : t[i].from = from /\ (t[i].told <=> ok /\ i = n)
  OBVIOUS
<1> HIDE DEF t
<1>4. m \in Nat /\ DOMAIN made = 1..m /\ made \in Seq(M)
  BY LenProperties DEF M
<1>5. /\ made' \in Seq(M) /\ Len(made') = m + n /\ DOMAIN made' = 1..Len(made')
      /\ \A i \in 1..(m + n) : made'[i] = IF i <= m THEN made[i] ELSE t[i - m]
  <2> DEFINE c == made \o t
  <2>1. made' = c
    BY DEF t
  <2>2. /\ c \in Seq(M) /\ Len(c) = m + n
        /\ \A i \in 1..(m + n) : c[i] = IF i <= m THEN made[i] ELSE t[i - m]
    BY <1>2, <1>4, ConcatProperties
  <2>3. DOMAIN c = 1..Len(c)
    BY <2>2, LenProperties
  <2> HIDE DEF c
  <2> QED
    BY <2>1, <2>2, <2>3
<1> HIDE DEF m
<1>6. \A x \in 1..m : made'[x] = made[x]
  BY <1>4, <1>5
<1>7. ASSUME NEW x \in 1..(m + n), x \notin 1..m
      PROVE  made'[x].from = from /\ (made'[x].told <=> ok /\ x = m + n)
  <2>1. x - m \in 1..n /\ made'[x] = t[x - m] /\ (x - m = n <=> x = m + n)
    BY <1>4, <1>5, <1>7
  <2> QED
    BY <1>3, <2>1
<1> QED
  BY <1>4, <1>5, <1>6, <1>7 DEF MadeGrows, New, M, m

\* New nodes are among the children of one node, and have none.
KidsGrow(parent, n) ==
  /\ kids' \in [Nodes' \cup {Top} -> Seq(Nodes')] /\ DOMAIN labels' = Nodes'
  /\ \A p \in (Nodes \cup {Top}) \ {parent} : kids'[p] = kids[p]
  /\ \A x \in New' \ New : kids'[x] = <<>>
  /\ n > 0 => parent \in Nodes \cup {Top} /\ ToSet(kids'[parent]) = ToSet(kids[parent]) \cup (New' \ New)
  /\ n = 0 => kids' = kids
  /\ \A m \in Nodes : labels'[m] = labels[m]
\* They are after those there are.
InTurn(parent) ==
  \A x, y \in New' : Ahead(kids'[parent], x, y) => Ahead(kids[parent], x, y) \/ x < y

Edges == [m \in DOMAIN kids |-> Range(kids[m])]

LEMMA EdgesTyped ==
  ASSUME Shape
  PROVE  /\ DOMAIN Edges = Nodes \cup {Top} /\ IsFiniteSet(Nodes \cup {Top})
         /\ \A m \in Nodes \cup {Top} : Edges[m] = ToSet(kids[m]) /\ Edges[m] \subseteq Nodes
<1>1. DOMAIN kids = Nodes \cup {Top} /\ \A m \in Nodes \cup {Top} : kids[m] \in Seq(Nodes)
  BY DEF Shape
<1>2. \A m \in Nodes \cup {Top} : Edges[m] = ToSet(kids[m])
  BY <1>1 DEF Edges, Range, ToSet
<1>3. \A m \in Nodes \cup {Top} : ToSet(kids[m]) \subseteq Nodes
  BY <1>1, InRange
<1>4. IsFiniteSet(New)
  <2>1. New = 1..Len(made) /\ Len(made) \in Nat
    BY LenProperties DEF New, Shape
  <2> QED
    BY <2>1, FS_Interval
<1>5. IsFiniteSet(Old \cup {Foreign})
  BY NodeAssumption, FS_AddElement
<1>6. IsFiniteSet(Nodes)
  BY <1>4, <1>5, FS_Union DEF Nodes
<1>7. IsFiniteSet(Nodes \cup {Top})
  BY <1>6, FS_AddElement
<1> QED
  BY <1>1, <1>2, <1>3, <1>7 DEF Edges

LEMMA UnderIn ==
  ASSUME Shape, NEW n \in Nodes \cup {Top}
  PROVE  n \in Under(n) /\ Under(n) \subseteq Nodes \cup {Top}
<1>1. {n} \in SUBSET (Nodes \cup {Top}) /\ \A m \in Nodes \cup {Top} : Edges[m] \subseteq Nodes \cup {Top}
  BY EdgesTyped
<1>2. {n} \subseteq Reached(Edges, {n}) /\ Reached(Edges, {n}) \subseteq Nodes \cup {Top}
  BY <1>1, EdgesTyped, ReachedClosed
<1> QED
  BY <1>2 DEF Under, Edges

LEMMA ThereIn ==
  ASSUME Shape, NEW n, There(n)
  PROVE  n \in Nodes \cup {Top}
BY UnderIn DEF There

LEMMA CreateGrows ==
  ASSUME Shape, NEW parent, NEW from \in Froms, NEW ranked, NEW lost \in 0..1, NEW ok \in BOOLEAN,
         Create(parent, from, ranked, lost, ok)
  PROVE  /\ Landed(lost, ok) \in Nat /\ (ok => Landed(lost, ok) > 0)
         /\ MadeGrows(from, Landed(lost, ok), ok) /\ KidsGrow(parent, Landed(lost, ok))
         /\ Landed(lost, ok) > 0 => parent \in Nodes \cup {Top} /\ (ranked => InTurn(parent))
<1> DEFINE n == Landed(lost, ok)
           L == Len(made)
           ids == [i \in 1..n |-> L + i]
           m == IF ranked THEN ids ELSE Reverse(ids)
           N == Nodes \cup {Top}
<1>1. n \in Nat /\ (ok => n > 0)
  BY DEF Landed
<1>2. made' = made \o [i \in 1..n |-> [from |-> from, told |-> ok /\ i = n]]
  BY Zenon DEF Create
<1>3. n = 0 => UNCHANGED <<kids, labels>>
  BY Zenon DEF Create
<1>4. n # 0 => \E k \in Spots(parent, ranked) :
        kids' = [q \in DOMAIN kids \cup Range(ids) |->
                   CASE q = parent -> SubSeq(kids[parent], 1, k-1) \o m \o
                                      SubSeq(kids[parent], k, Len(kids[parent]))
                     [] q \in Range(ids) -> <<>>
                     [] OTHER -> kids[q]]
  BY Zenon DEF Create
<1>5. n # 0 => labels' = [q \in DOMAIN labels \cup Range(ids) |->
                            IF q \in Range(ids) THEN {} ELSE labels[q]]
  BY Zenon DEF Create
<1>6. n # 0 => There(parent)
  BY <1>1 DEF Create
<1> HIDE DEF n
<1>7. MadeGrows(from, n, ok)
  BY <1>1, <1>2, MadeStep DEF Shape
<1>8. L \in Nat /\ New = 1..L /\ New' = 1..(L + n)
  BY <1>7 DEF MadeGrows
<1> HIDE DEF L
<1>9. ids \in Seq(New') /\ DOMAIN ids = 1..n /\ \A i \in 1..n : ids[i] = L + i
  <2>1. \A i \in 1..n : L + i \in New'
    BY <1>1, <1>8
  <2> HIDE DEF L
  <2> QED
    BY <1>1, <2>1
<1>10. ToSet(ids) = New' \ New /\ Range(ids) = New' \ New
  <2>1. ASSUME NEW x \in New' \ New PROVE x - L \in 1..n /\ ids[x - L] = x
    BY <1>1, <1>8, <1>9
  <2>2. \A i \in 1..n : ids[i] \in New' \ New
    BY <1>1, <1>8, <1>9
  <2> HIDE DEF ids
  <2>3. ToSet(ids) = New' \ New
    BY <1>9, <2>1, <2>2 DEF ToSet
  <2> QED
    BY <2>3 DEF Range, ToSet
<1>11. m \in Seq(New') /\ ToSet(m) = New' \ New
  <2> HIDE DEF ids
  <2> QED
    BY <1>9, <1>10, Reversed
<1>12. Nodes \subseteq Nodes' /\ New' \subseteq Nodes' /\ Nodes' \ Nodes = New' \ New
       /\ (New' \ New) \cap N = {} /\ Nodes \cap New' \subseteq New
  BY <1>1, <1>8, NodeAssumption DEF Nodes
<1>13. CASE n = 0
  <2>1. UNCHANGED <<kids, labels>> /\ New' = New /\ Nodes' = Nodes
    BY <1>3, <1>8, <1>12, <1>13 DEF Nodes
  <2>2. KidsGrow(parent, n)
    BY <1>13, <2>1 DEF KidsGrow, Shape
  <2> QED
    BY <1>1, <1>7, <1>13, <2>2 DEF n
<1>14. CASE n # 0
  <2> DEFINE s == kids[parent]
  <2>1. parent \in N
    BY <1>6, <1>14, ThereIn
  <2>2. DOMAIN kids = N /\ DOMAIN labels = Nodes /\ s \in Seq(Nodes)
        /\ \A q \in N : kids[q] \in Seq(Nodes)
    BY <2>1 DEF Shape
  <2>3. Len(s) \in Nat /\ s \in Seq(Nodes') /\ m \in Seq(Nodes') /\ ToSet(s) \subseteq Nodes
        /\ \A q \in N : kids[q] \in Seq(Nodes')
    BY <1>11, <1>12, <2>2, SeqWidens, LenProperties, InRange
  <2> HIDE DEF ids, m
  <2>4. PICK k \in Spots(parent, ranked) :
          kids' = [q \in DOMAIN kids \cup Range(ids) |->
                     CASE q = parent -> SubSeq(kids[parent], 1, k-1) \o m \o
                                        SubSeq(kids[parent], k, Len(kids[parent]))
                       [] q \in Range(ids) -> <<>>
                       [] OTHER -> kids[q]]
    BY <1>4, <1>14 DEF m, ids
  <2>5. k \in 1..(Len(s) + 1) /\ (ranked => \A i \in k..Len(s) : s[i] \notin New)
    BY <2>3 DEF Spots
  <2> DEFINE r == Splice(s, k, m)
  <2>6. r \in Seq(Nodes') /\ ToSet(r) = ToSet(s) \cup (New' \ New)
    BY <1>11, <2>3, <2>5, Spliced
  <2>7. kids' = [q \in N \cup (New' \ New) |->
                   CASE q = parent -> r [] q \in New' \ New -> <<>> [] OTHER -> kids[q]]
    BY <1>10, <2>2, <2>4 DEF Splice
  <2> HIDE DEF r
  <2>8. /\ kids'[parent] = r /\ DOMAIN kids' = Nodes' \cup {Top}
        /\ \A q \in New' \ New : kids'[q] = <<>>
        /\ \A q \in N \ {parent} : kids'[q] = kids[q]
    BY <1>12, <2>1, <2>7
  <2>9. kids' \in [Nodes' \cup {Top} -> Seq(Nodes')]
    <3>1. ASSUME NEW q \in Nodes' \cup {Top} PROVE kids'[q] \in Seq(Nodes')
      <4>1. q \in N \/ q \in New' \ New
        BY <1>12
      <4>2. <<>> \in Seq(Nodes')
        BY EmptySeq
      <4> QED
        BY <2>3, <2>6, <2>8, <4>1, <4>2
    <3>2. N \cup (New' \ New) = Nodes' \cup {Top}
      BY <1>12
    <3>3. kids' = [q \in Nodes' \cup {Top} |-> kids'[q]]
      BY <2>7, <3>2
    <3> QED
      BY <3>1, <3>3
  <2>10. DOMAIN labels' = Nodes' /\ \A q \in Nodes : labels'[q] = labels[q]
    BY <1>5, <1>10, <1>12, <1>14, <2>2
  <2>11. KidsGrow(parent, n)
    BY <1>14, <2>1, <2>6, <2>8, <2>9, <2>10 DEF KidsGrow
  <2>12. ASSUME ranked, NEW x \in New', NEW y \in New', Ahead(r, x, y)
         PROVE  Ahead(s, x, y) \/ x < y
    <3>1. \/ Ahead(s, x, y) \/ Ahead(m, x, y)
          \/ x \in ToSet(s) /\ y \in ToSet(m)
          \/ x \in ToSet(m) /\ \E i \in k..Len(s) : s[i] = y
      BY <2>3, <2>5, <2>12, AheadSpliced DEF r
    <3>2. CASE Ahead(m, x, y)
      <4>1. m = ids
        BY <2>12 DEF m
      <4>2. PICK i \in 1..n, j \in 1..n : i < j /\ L + i = x /\ L + j = y
        BY <1>9, <3>2, <4>1 DEF Ahead
      <4> HIDE DEF L
      <4> QED
        BY <1>8, <4>2
    <3>3. CASE x \in ToSet(s) /\ y \in ToSet(m)
      <4>1. x \in 1..L /\ y \in 1..(L + n) /\ y \notin 1..L
        BY <1>8, <1>11, <1>12, <2>3, <3>3
      <4> HIDE DEF L
      <4> QED
        BY <1>8, <4>1
    <3>4. CASE \E i \in k..Len(s) : s[i] = y
      <4>1. PICK i \in k..Len(s) : s[i] = y
        BY <3>4
      <4>2. i \in 1..Len(s)
        BY <2>3, <2>5
      <4>3. y \in Nodes /\ y \notin New
        BY <2>2, <2>5, <2>12, <4>1, <4>2, ElementOfSeq
      <4> QED
        BY <1>12, <4>3
    <3> QED
      BY <3>1, <3>2, <3>3, <3>4
  <2>13. ranked => InTurn(parent)
    BY <2>8, <2>12 DEF InTurn
  <2> QED
    BY <1>1, <1>7, <2>1, <2>11, <2>13 DEF n
<1> QED
  BY <1>13, <1>14

\* No child is found where it was not, or ahead of one it was not ahead of,
\* but those in T.
Thins(T) ==
  /\ kids' \in [Nodes \cup {Top} -> Seq(Nodes)]
  /\ \A p \in Nodes \cup {Top} :
       /\ ToSet(kids'[p]) \subseteq ToSet(kids[p]) \cup T
       /\ \A x, y : Ahead(kids'[p], x, y) => Ahead(kids[p], x, y) \/ x \in T \/ y \in T

LEMMA WithoutThins ==
  ASSUME Shape, NEW n
  PROVE  /\ Without(n) \in [Nodes \cup {Top} -> Seq(Nodes)]
         /\ \A p \in Nodes \cup {Top} :
              /\ ToSet(Without(n)[p]) = ToSet(kids[p]) \ {n}
              /\ \A x, y : Ahead(Without(n)[p], x, y) => Ahead(kids[p], x, y) /\ x # n /\ y # n
              /\ Distinct(kids[p]) => Distinct(Without(n)[p])
<1> DEFINE N == Nodes \cup {Top}
<1>1. DOMAIN kids = N /\ \A p \in N : kids[p] \in Seq(Nodes)
  BY DEF Shape
<1> HIDE DEF N
<1>2. Without(n) = [p \in N |-> Keep(kids[p], Nodes \ {n})]
  BY <1>1 DEF Without
<1>3. ASSUME NEW p \in N
      PROVE  /\ Keep(kids[p], Nodes \ {n}) \in Seq(Nodes)
             /\ ToSet(Keep(kids[p], Nodes \ {n})) = ToSet(kids[p]) \ {n}
             /\ \A x, y : Ahead(Keep(kids[p], Nodes \ {n}), x, y) =>
                            Ahead(kids[p], x, y) /\ x # n /\ y # n
             /\ Distinct(kids[p]) => Distinct(Keep(kids[p], Nodes \ {n}))
  <2> DEFINE s == kids[p]
  <2>1. s \in Seq(Nodes)
    BY <1>1
  <2>2. ToSet(s) \subseteq Nodes
    BY <2>1, InRange
  <2> HIDE DEF s
  <2>3. Keep(s, Nodes \ {n}) \in Seq(Nodes)
    BY <2>1, KeepIn
  <2>4. ToSet(Keep(s, Nodes \ {n})) = ToSet(s) \ {n}
    BY <2>1, <2>2, RangeKeep
  <2>5. \A x, y : Ahead(Keep(s, Nodes \ {n}), x, y) => Ahead(s, x, y) /\ x # n /\ y # n
    BY <2>1, AheadKept
  <2>6. Distinct(s) => Distinct(Keep(s, Nodes \ {n}))
    BY <2>1, DistinctKept
  <2> QED
    BY <2>3, <2>4, <2>5, <2>6 DEF s
<1> QED
  BY <1>2, <1>3 DEF N

LEMMA InsertThins ==
  ASSUME Shape, NEW q \in Nodes \cup {Top}, NEW n \in Nodes, NEW k \in 1..(Len(kids[q]) + 1),
         kids' = [kids EXCEPT ![q] = InsertAt(@, k, n)]
  PROVE  /\ Thins({n}) /\ ToSet(kids'[q]) = ToSet(kids[q]) \cup {n}
         /\ \A p \in (Nodes \cup {Top}) \ {q} : kids'[p] = kids[p]
         /\ n \notin ToSet(kids[q]) /\ Distinct(kids[q]) => Distinct(kids'[q])
<1> DEFINE N == Nodes \cup {Top}
           s == kids[q]
           m == <<n>>
           r == Splice(s, k, m)
<1>1. DOMAIN kids = N /\ s \in Seq(Nodes) /\ \A p \in N : kids[p] \in Seq(Nodes)
  BY DEF Shape
<1>2. m \in Seq(Nodes) /\ ToSet(m) = {n} /\ Distinct(m)
  BY DEF ToSet, Distinct
<1>3. kids' = [kids EXCEPT ![q] = r]
  BY DEF Splice, InsertAt
<1> HIDE DEF m
<1>4. r \in Seq(Nodes) /\ ToSet(r) = ToSet(s) \cup {n}
  BY <1>1, <1>2, Spliced
<1>5. ASSUME NEW x, NEW y, Ahead(r, x, y) PROVE Ahead(s, x, y) \/ x = n \/ y = n
  <2>0. k \in 1..(Len(s) + 1) /\ Ahead(Splice(s, k, m), x, y)
    BY <1>5
  <2> HIDE DEF s
  <2>1. \/ Ahead(s, x, y) \/ Ahead(m, x, y)
        \/ x \in ToSet(s) /\ y \in ToSet(m)
        \/ x \in ToSet(m) /\ \E i \in k..Len(s) : s[i] = y
    BY <1>1, <1>2, <2>0, AheadSpliced
  <2>2. Ahead(m, x, y) => x \in ToSet(m)
    BY <1>2, AheadHas
  <2> QED
    BY <1>2, <2>1, <2>2
<1>6. n \notin ToSet(s) /\ Distinct(s) => Distinct(r)
  BY <1>1, <1>2, DistinctSpliced
<1>0. kids \in [N -> Seq(Nodes)] /\ q \in N
  BY DEF Shape
<1> HIDE DEF r, s, N
<1>7. kids' \in [N -> Seq(Nodes)] /\ kids'[q] = r /\ \A p \in N \ {q} : kids'[p] = kids[p]
  BY <1>0, <1>3, <1>4
<1>8. Thins({n})
  <2> SUFFICES ASSUME NEW p \in N
               PROVE  /\ ToSet(kids'[p]) \subseteq ToSet(kids[p]) \cup {n}
                      /\ \A x, y : Ahead(kids'[p], x, y) =>
                                     Ahead(kids[p], x, y) \/ x \in {n} \/ y \in {n}
    BY <1>7, Zenon DEF Thins, N
  <2>1. CASE p = q
    BY <1>4, <1>5, <1>7, <2>1 DEF s
  <2>2. CASE p # q
    BY <1>7, <2>2
  <2> QED
    BY <2>1, <2>2
<1> QED
  BY <1>4, <1>6, <1>7, <1>8 DEF N, s

LEMMA OtherThins ==
  ASSUME Shape, OtherClient
  PROVE  /\ Thins({Foreign}) /\ Shape'
         /\ UNCHANGED <<job, made, cancelled, late, run>>
         /\ \A m \in Nodes : labels[m] \subseteq labels'[m]
<1>1. UNCHANGED <<job, made, cancelled, late, run>> /\ New' = New /\ Nodes' = Nodes
  BY DEF OtherClient, New, Nodes
<1>2. /\ kids \in [Nodes \cup {Top} -> Seq(Nodes)] /\ DOMAIN labels = Nodes
      /\ made \in Seq([from : Froms, told : BOOLEAN])
  BY DEF Shape
<1>3. ASSUME NEW q \in DOMAIN kids, NEW k \in {1, 2}, k <= Len(kids[q]) + 1,
             kids' = [kids EXCEPT ![q] = InsertAt(@, k, Foreign)]
      PROVE  Thins({Foreign})
  <2>1. Foreign \in Nodes /\ q \in Nodes \cup {Top} /\ Len(kids[q]) \in Nat
    BY <1>2, LenProperties DEF Nodes
  <2>2. k \in 1..(Len(kids[q]) + 1)
    BY <1>3, <2>1
  <2> QED
    BY <1>3, <2>1, <2>2, InsertThins
<1>4. ASSUME NEW n, kids' = Without(n) PROVE Thins({Foreign})
  <2>1. PICK w : w = Without(n)
    OBVIOUS
  <2>2. /\ w \in [Nodes \cup {Top} -> Seq(Nodes)]
        /\ \A p \in Nodes \cup {Top} :
             /\ ToSet(w[p]) = ToSet(kids[p]) \ {n}
             /\ \A x, y : Ahead(w[p], x, y) => Ahead(kids[p], x, y)
    BY <2>1, WithoutThins
  <2>3. kids' = w
    BY <1>4, <2>1
  <2> QED
    BY <2>2, <2>3 DEF Thins
<1>5. kids' = kids => Thins({Foreign})
  BY <1>2 DEF Thins
<1>6. Thins({Foreign})
  BY <1>3, <1>4, <1>5 DEF OtherClient
<1>7. DOMAIN labels' = Nodes /\ \A m \in Nodes : labels[m] \subseteq labels'[m]
  <2>1. labels' = labels \/ \E n \in Under(Top) \ {Top} : labels' = [labels EXCEPT ![n] = @ \cup {"theirs"}]
    BY DEF OtherClient
  <2> QED
    BY <1>2, <2>1
<1>8. Shape'
  BY <1>1, <1>2, <1>6, <1>7 DEF Shape, Thins
<1> QED
  BY <1>1, <1>6, <1>7, <1>8

-----------------------------------------------------------------------------
(* Which steps a workflow takes.                                           *)

\* The locals are those of Fresh.
Locals(r) == DOMAIN r = {"pc", "i", "stack", "queue", "copyOf", "seen", "entries", "read",
                         "count", "last", "stopped", "verdict"}

InsertSteps == InsertStart \/ InsertStops \/ \E lost \in 0..1, ok \in BOOLEAN : InsertLine(lost, ok)
ReorderSteps ==
  ReorderStart \/ ReorderStops \/ \E landed, ok \in BOOLEAN : ReorderNext(landed, ok)
CopySteps ==
  CopyWalk \/ CopyStops \/ \E lost \in 0..1, ok \in BOOLEAN : CopyRoot(lost, ok) \/ CopyNext(lost, ok)
BulkSteps == BulkStart \/ \E landed, ok \in BOOLEAN : BulkNext(landed, ok)
MirrorSteps ==
  \/ MirrorRead \/ \E lost \in 0..1, ok \in BOOLEAN : MirrorCreate(lost, ok)
  \/ \E landed, ok \in BOOLEAN : MirrorAnnotate(landed, ok)

LEMMA Steps ==
  [Next]_vars => \/ job.kind = "insert" /\ InsertSteps
                 \/ job.kind = "reorder" /\ ReorderSteps
                 \/ job.kind = "copy" /\ CopySteps
                 \/ job.kind = "bulk" /\ BulkSteps
                 \/ job.kind = "mirror" /\ MirrorSteps
                 \/ Stop \/ OtherClient \/ UNCHANGED vars
<1> SUFFICES ASSUME [Next]_vars
             PROVE  \/ job.kind = "insert" /\ InsertSteps
                    \/ job.kind = "reorder" /\ ReorderSteps
                    \/ job.kind = "copy" /\ CopySteps
                    \/ job.kind = "bulk" /\ BulkSteps
                    \/ job.kind = "mirror" /\ MirrorSteps
                    \/ Stop \/ OtherClient \/ UNCHANGED vars
  OBVIOUS
<1>1. /\ InsertStart \/ InsertStops => job.kind = "insert"
      /\ \A lost \in 0..1, ok \in BOOLEAN : InsertLine(lost, ok) => job.kind = "insert"
  BY Zenon DEF InsertStart, InsertStops, InsertLine, Is
<1>2. /\ ReorderStart \/ ReorderStops => job.kind = "reorder"
      /\ \A landed, ok \in BOOLEAN : ReorderNext(landed, ok) => job.kind = "reorder"
  BY Zenon DEF ReorderStart, ReorderStops, ReorderNext, Is
<1>3. /\ CopyWalk \/ CopyStops => job.kind = "copy"
      /\ \A lost \in 0..1, ok \in BOOLEAN : CopyRoot(lost, ok) \/ CopyNext(lost, ok) => job.kind = "copy"
  BY Zenon DEF CopyWalk, CopyStops, CopyRoot, CopyNext, Is
<1>4. /\ BulkStart => job.kind = "bulk"
      /\ \A landed, ok \in BOOLEAN : BulkNext(landed, ok) => job.kind = "bulk"
  BY Zenon DEF BulkStart, BulkNext, Is
<1>5. /\ MirrorRead => job.kind = "mirror"
      /\ \A lost \in 0..1, ok \in BOOLEAN : MirrorCreate(lost, ok) => job.kind = "mirror"
      /\ \A landed, ok \in BOOLEAN : MirrorAnnotate(landed, ok) => job.kind = "mirror"
  BY Zenon DEF MirrorRead, MirrorCreate, MirrorAnnotate, Is
<1>6. CASE LocalStep
  BY <1>1, <1>2, <1>3, <1>4, <1>5, <1>6, Zenon
     DEF LocalStep, InsertSteps, ReorderSteps, CopySteps, BulkSteps, MirrorSteps
<1>7. CASE CreateStep
  BY <1>1, <1>3, <1>5, <1>7, Zenon DEF CreateStep, InsertSteps, CopySteps, MirrorSteps
<1>8. CASE WriteStep
  BY <1>2, <1>4, <1>5, <1>8, Zenon DEF WriteStep, ReorderSteps, BulkSteps, MirrorSteps
<1> QED
  BY <1>6, <1>7, <1>8, Zenon DEF Next, Finished

LEMMA Returned ==
  ASSUME NEW r, Locals(r), NEW verdict, Return(r, verdict)
  PROVE  /\ Locals(run') /\ run'.pc = "done" /\ run'.verdict = verdict
         /\ run'.i = r.i /\ run'.stack = r.stack /\ run'.queue = r.queue /\ run'.copyOf = r.copyOf
         /\ run'.seen = r.seen /\ run'.entries = r.entries /\ run'.read = r.read
         /\ run'.count = r.count /\ run'.last = r.last /\ run'.stopped = r.stopped
BY DEF Return, Locals

LEMMA JobStays == [Next]_vars => job' = job
<1> SUFFICES ASSUME [Next]_vars PROVE job' = job
  OBVIOUS
<1>1. CASE InsertSteps
  BY <1>1 DEF InsertSteps, InsertStart, InsertStops, InsertLine, context
<1>2. CASE ReorderSteps
  BY <1>2 DEF ReorderSteps, ReorderStart, ReorderStops, ReorderNext, context
<1>3. CASE CopySteps
  BY <1>3 DEF CopySteps, CopyWalk, CopyRoot, CopyStops, CopyNext, context
<1>4. CASE BulkSteps
  BY <1>4 DEF BulkSteps, BulkStart, BulkNext, context
<1>5. CASE MirrorSteps
  BY <1>5 DEF MirrorSteps, MirrorRead, MirrorCreate, MirrorAnnotate, context
<1>6. CASE Stop \/ OtherClient \/ UNCHANGED vars
  BY <1>6 DEF Stop, OtherClient, vars
<1> QED
  BY <1>1, <1>2, <1>3, <1>4, <1>5, <1>6, Steps

-----------------------------------------------------------------------------
(* create_mirror.                                                          *)

MirrorInv ==
  /\ job \in Jobs /\ Locals(run)
  /\ job.kind # "mirror" => run.verdict # "OK"
  /\ job.kind = "mirror" =>
       /\ Shape
       /\ run.pc # "done" => run.verdict = "none"
       /\ "canonical_of" \in run.read => "canonical_of" \in labels[job.canonical]
       /\ MirrorStatusIsTrue

LEMMA InitShape == Init => Shape
<1> SUFFICES ASSUME Init PROVE Shape
  OBVIOUS
<1>1. New = {} /\ Nodes = Old \cup {Foreign} /\ made \in Seq([from : Froms, told : BOOLEAN])
  BY DEF Init, New, Nodes
<1>2. Kids0 \in [Old \cup {Top, Foreign} -> Seq(Old)] /\ \A p \in Old \cup {Top, Foreign} : Kids0[p] \in Seq(Nodes)
  <2>1. \A p \in Old \cup {Top, Foreign} : Kids0[p] \in Seq(Old)
    BY TreeAssumption
  <2> QED
    BY <1>1, <2>1, SeqWidens, TreeAssumption
<1>3. Nodes \cup {Top} = Old \cup {Top, Foreign}
  BY <1>1
<1>4. Kids0 \in [Nodes \cup {Top} -> Seq(Nodes)]
  BY <1>2, <1>3
<1> QED
  BY <1>1, <1>4 DEF Init, Shape

LEMMA MirrorInit == Init => MirrorInv
<1> SUFFICES ASSUME Init PROVE MirrorInv
  OBVIOUS
<1>1. Locals(run)
  BY DEF Init, Locals, Fresh
<1>2. run.pc = "start" /\ run.verdict = "none" /\ run.read = {} /\ job \in Jobs
  BY DEF Init, Fresh
<1> QED
  BY <1>1, <1>2, InitShape DEF MirrorInv, MirrorStatusIsTrue

LEMMA CreateShape ==
  ASSUME Shape, NEW parent, NEW from \in Froms, NEW ranked, NEW lost \in 0..1, NEW ok \in BOOLEAN,
         Create(parent, from, ranked, lost, ok)
  PROVE  Shape' /\ \A m \in Nodes : labels'[m] = labels[m]
<1>1. MadeGrows(from, Landed(lost, ok), ok) /\ KidsGrow(parent, Landed(lost, ok))
  BY CreateGrows
<1> QED
  BY <1>1 DEF Shape, MadeGrows, KidsGrow

\* No other workflow ends with the verdict of a mirror.
LEMMA OthersLeaveMirror ==
  ASSUME Locals(run), run.verdict # "OK", job.kind # "mirror", [Next]_vars
  PROVE  job' = job /\ Locals(run') /\ run'.verdict # "OK"
<1> DEFINE Tame == Locals(run') /\ run'.verdict # "OK"
<1>1. ASSUME NEW r, Locals(r), NEW v, Return(r, v), v # "OK" PROVE Tame
  BY <1>1, Returned
<1>2. Reason # "OK"
  BY DEF Reason
<1>3. CASE InsertSteps
  <2>1. CASE InsertStart
    <3>1. \/ Return(run, "complete") \/ Return(run, "invalid")
          \/ run' = [run EXCEPT !.pc = "loop", !.stack = <<job.parent>>]
      BY <2>1, Zenon DEF InsertStart
    <3>2. run' = [run EXCEPT !.pc = "loop", !.stack = <<job.parent>>] => Tame
      BY DEF Locals
    <3> QED
      BY <1>1, <2>1, <3>1, <3>2 DEF InsertStart, context
  <2>2. CASE InsertStops
    <3> DEFINE r == [run EXCEPT !.stopped = IF cancelled THEN 0 ELSE run.i]
    <3>1. Locals(r)
      BY DEF Locals
    <3>2. Return(r, Reason)
      BY <2>2, Zenon DEF InsertStops
    <3>3. job' = job
      BY <2>2 DEF InsertStops, context
    <3> HIDE DEF r
    <3> QED
      BY <1>1, <1>2, <3>1, <3>2, <3>3
  <2>3. ASSUME NEW lost \in 0..1, NEW ok \in BOOLEAN, InsertLine(lost, ok)
        PROVE  job' = job /\ Tame
    <3> DEFINE indent == Lesser(job.lines[run.i], Len(run.stack) - 1)
               id == Created(lost, ok)
               r == [run EXCEPT !.i = @ + 1, !.count = @ + 1, !.last = id,
                                !.stack = StackWith(indent + 1, id)]
               e == [run EXCEPT !.stopped = run.i]
    <3>1. Locals(r) /\ r.verdict # "OK" /\ Locals(e)
      BY DEF Locals
    <3>2. job' = job
      BY <2>3 DEF InsertLine, context
    <3>3. \/ Return(r, "complete") \/ run' = r
          \/ \E v \in {"cancelled", "timeout", "error"} : Return(e, v)
      BY <2>3, Zenon DEF InsertLine
    <3> HIDE DEF r, e
    <3> QED
      BY <1>1, <3>1, <3>2, <3>3
  <2> QED
    BY <1>3, <2>1, <2>2, <2>3 DEF InsertSteps
<1>4. CASE ReorderSteps
  <2>1. CASE ReorderStart
    <3> DEFINE r == [run EXCEPT !.pc = "loop", !.i = Len(job.ids),
                                !.entries = [i \in DOMAIN job.ids |-> "skipped"]]
    <3>1. Locals(r) /\ r.verdict # "OK"
      BY DEF Locals
    <3>2. (Return(run, "invalid") \/ run' = r)
      BY <2>1, Zenon DEF ReorderStart
    <3>3. job' = job
      BY <2>1 DEF ReorderStart, context
    <3> HIDE DEF r
    <3> QED
      BY <1>1, <3>1, <3>2, <3>3
  <2>2. CASE ReorderStops
    BY <1>1, <1>2, <2>2 DEF ReorderStops, context
  <2>3. ASSUME NEW landed \in BOOLEAN, NEW ok \in BOOLEAN, ReorderNext(landed, ok)
        PROVE  job' = job /\ Tame
    <3> DEFINE r == [run EXCEPT !.i = @ - 1, !.entries[run.i] = IF ok THEN "ok" ELSE "error"]
    <3>1. Locals(r) /\ r.verdict # "OK"
      BY DEF Locals
    <3>2. (Return(r, "complete") \/ run' = r)
      BY <2>3, Zenon DEF ReorderNext
    <3>3. job' = job
      BY <2>3 DEF ReorderNext, context
    <3> HIDE DEF r
    <3> QED
      BY <1>1, <3>1, <3>2, <3>3
  <2> QED
    BY <1>4, <2>1, <2>2, <2>3 DEF ReorderSteps
<1>5. CASE CopySteps
  <2>0. ASSUME NEW r, Locals(r), r.verdict # "OK", CopyProceeds(r) PROVE Tame
    BY <1>1, <2>0 DEF CopyProceeds
  <2>1. CASE CopyWalk
    <3> DEFINE r == [run EXCEPT !.pc = "root", !.seen =
                       [n \in Under(job.source) |-> IF job.whole THEN kids[n] ELSE <<>>]]
    <3>1. Locals(r) /\ r.verdict # "OK"
      BY DEF Locals
    <3>2. (Return(run, "error") \/ run' = r)
      BY <2>1, Zenon DEF CopyWalk
    <3>3. job' = job
      BY <2>1 DEF CopyWalk, context
    <3> HIDE DEF r
    <3> QED
      BY <1>1, <3>1, <3>2, <3>3
  <2>2. CASE CopyStops
    BY <1>1, <2>2 DEF CopyStops, context
  <2>3. ASSUME NEW lost \in 0..1, NEW ok \in BOOLEAN, CopyRoot(lost, ok)
        PROVE  job' = job /\ Tame
    <3> DEFINE r == [Copied(run, job.source, Created(lost, ok)) EXCEPT !.pc = "loop"]
    <3>1. Locals(r) /\ r.verdict # "OK"
      BY DEF Locals, Copied
    <3>2. CopyProceeds(r) \/ Return(run, "error")
      BY <2>3, Zenon DEF CopyRoot
    <3>3. job' = job
      BY <2>3 DEF CopyRoot, context
    <3> HIDE DEF r
    <3> QED
      BY <1>1, <2>0, <3>1, <3>2, <3>3
  <2>4. ASSUME NEW lost \in 0..1, NEW ok \in BOOLEAN, CopyNext(lost, ok)
        PROVE  job' = job /\ Tame
    <3> DEFINE r == Copied([run EXCEPT !.queue = Tail(@)], Head(run.queue), Created(lost, ok))
    <3>1. Locals(r) /\ r.verdict # "OK"
      BY DEF Locals, Copied
    <3>2. CopyProceeds(r) \/ Return(run, "error")
      BY <2>4, Zenon DEF CopyNext
    <3>3. job' = job
      BY <2>4 DEF CopyNext, context
    <3> HIDE DEF r
    <3> QED
      BY <1>1, <2>0, <3>1, <3>2, <3>3
  <2> QED
    BY <1>5, <2>1, <2>2, <2>3, <2>4 DEF CopySteps
<1>6. CASE BulkSteps
  <2>1. CASE BulkStart
    <3> DEFINE r == [run EXCEPT !.pc = "loop", !.seen = labels,
                                !.entries = [i \in DOMAIN job.ids |-> "skipped"]]
    <3>1. Locals(r) /\ r.verdict # "OK"
      BY DEF Locals
    <3>3. job' = job
      BY <2>1 DEF BulkStart, context
    <3>2. Return(run, "invalid") \/ Return(run, "complete") \/ run' = r
      BY <2>1, Zenon DEF BulkStart
    <3> HIDE DEF r
    <3> QED
      BY <1>1, <3>1, <3>2, <3>3
  <2>2. ASSUME NEW landed \in BOOLEAN, NEW ok \in BOOLEAN, BulkNext(landed, ok)
        PROVE  job' = job /\ Tame
    <3> DEFINE r == [run EXCEPT !.i = @ + 1, !.count = IF ok THEN @ + 1 ELSE @,
                                !.entries[run.i] = IF ok THEN "ok" ELSE "error"]
    <3>1. Locals(r) /\ r.verdict # "OK"
      BY DEF Locals
    <3>3. job' = job
      BY <2>2 DEF BulkNext, context
    <3>2. Return(r, "complete") \/ run' = r
      BY <2>2, Zenon DEF BulkNext
    <3> HIDE DEF r
    <3> QED
      BY <1>1, <3>1, <3>2, <3>3
  <2> QED
    BY <1>6, <2>1, <2>2 DEF BulkSteps
<1>7. CASE Stop \/ OtherClient \/ UNCHANGED vars
  BY <1>7 DEF Stop, OtherClient, vars
<1> QED
  BY <1>3, <1>4, <1>5, <1>6, <1>7, Steps

\* The canonical of the job is one of the nodes there are.
LEMMA CanonicalThere ==
  ASSUME job \in Jobs, job.kind = "mirror"
  PROVE  job.canonical \in Nodes /\ job.canonical \in Froms
BY JobAssumption DEF Nodes, Froms

LEMMA MirrorReadStep ==
  ASSUME MirrorInv, job.kind = "mirror", MirrorRead
  PROVE  MirrorInv'
<1>1. Locals(run) /\ Shape /\ job \in Jobs /\ run.pc = "start" /\ run.verdict = "none"
      /\ ("canonical_of" \in run.read => "canonical_of" \in labels[job.canonical])
  BY DEF MirrorInv, MirrorRead, Is
<1>2. job' = job /\ UNCHANGED <<kids, labels, made>>
  BY DEF MirrorRead, outline, context
<1>3. Shape'
  BY <1>1, <1>2 DEF Shape, Nodes, New
<1>4. CASE Return(run, "invalid") \/ Return(run, "error")
  <2>1. Locals(run') /\ run'.pc = "done" /\ run'.verdict # "OK" /\ run'.read = run.read
    BY <1>1, <1>4, Returned
  <2> QED
    BY <1>1, <1>2, <1>3, <2>1 DEF MirrorInv, MirrorStatusIsTrue
<1>5. CASE run' = [run EXCEPT !.pc = "create", !.read = labels[job.canonical]]
  <2>1. Locals(run') /\ run'.pc = "create" /\ run'.verdict = "none" /\ run'.read = labels[job.canonical]
    BY <1>1, <1>5 DEF Locals
  <2> QED
    BY <1>1, <1>2, <1>3, <2>1 DEF MirrorInv, MirrorStatusIsTrue
<1> QED
  BY <1>4, <1>5 DEF MirrorRead

LEMMA MirrorCreateStep ==
  ASSUME MirrorInv, job.kind = "mirror", NEW lost \in 0..1, NEW ok \in BOOLEAN, MirrorCreate(lost, ok)
  PROVE  MirrorInv'
<1> DEFINE r == [run EXCEPT !.last = Created(lost, ok)]
<1>1. Locals(run) /\ Shape /\ job \in Jobs /\ run.pc = "create" /\ run.verdict = "none"
      /\ ("canonical_of" \in run.read => "canonical_of" \in labels[job.canonical])
  BY DEF MirrorInv, MirrorCreate, Is
<1>2. job' = job /\ Create(job.target, job.canonical, FALSE, lost, ok)
  BY DEF MirrorCreate, context
<1>3. Shape' /\ labels'[job.canonical] = labels[job.canonical]
  BY <1>1, <1>2, CreateShape, CanonicalThere
<1>4. Locals(r) /\ r.read = run.read /\ r.verdict = "none"
  BY <1>1 DEF Locals
<1>5. \/ Return(run, "error") \/ run' = [r EXCEPT !.pc = "annotate"] \/ Return(r, Status(r, FALSE))
  BY Zenon DEF MirrorCreate
<1> HIDE DEF r
<1>6. CASE Return(run, "error")
  <2>1. Locals(run') /\ run'.pc = "done" /\ run'.verdict # "OK" /\ run'.read = run.read
    BY <1>1, <1>6, Returned
  <2> QED
    BY <1>1, <1>2, <1>3, <2>1 DEF MirrorInv, MirrorStatusIsTrue
<1>7. CASE run' = [r EXCEPT !.pc = "annotate"]
  <2>1. Locals(run') /\ run'.pc = "annotate" /\ run'.verdict = "none" /\ run'.read = run.read
    BY <1>4, <1>7 DEF Locals
  <2> QED
    BY <1>1, <1>2, <1>3, <2>1 DEF MirrorInv, MirrorStatusIsTrue
<1>8. CASE Return(r, Status(r, FALSE))
  <2>1. Locals(run') /\ run'.pc = "done" /\ run'.verdict = Status(r, FALSE) /\ run'.read = run.read
    BY <1>4, <1>8, Returned
  <2>2. run'.verdict = "OK" => "canonical_of" \in run.read
    BY <1>4, <2>1 DEF Status
  <2> QED
    BY <1>1, <1>2, <1>3, <2>1, <2>2 DEF MirrorInv, MirrorStatusIsTrue
<1> QED
  BY <1>5, <1>6, <1>7, <1>8

LEMMA MirrorAnnotateStep ==
  ASSUME MirrorInv, job.kind = "mirror", NEW landed \in BOOLEAN, NEW ok \in BOOLEAN,
         MirrorAnnotate(landed, ok)
  PROVE  MirrorInv'
<1> DEFINE to == run.read \cup {"canonical_of"}
<1>1. Locals(run) /\ Shape /\ job \in Jobs /\ run.verdict = "none"
      /\ ("canonical_of" \in run.read => "canonical_of" \in labels[job.canonical])
  BY DEF MirrorInv, MirrorAnnotate, Is
<1>2. job' = job /\ UNCHANGED <<kids, made>>
  BY DEF MirrorAnnotate, Edit, context
<1>3. (ok => landed) /\ labels' = IF landed THEN [labels EXCEPT ![job.canonical] = to] ELSE labels
  BY DEF MirrorAnnotate, Edit
<1>4. job.canonical \in DOMAIN labels /\ DOMAIN labels = Nodes
  BY <1>1, CanonicalThere DEF Shape
<1>5. Shape'
  <2>1. DOMAIN labels' = Nodes
    BY <1>3, <1>4
  <2> QED
    BY <1>1, <1>2, <2>1 DEF Shape, Nodes, New
<1>6. /\ "canonical_of" \in labels[job.canonical] => "canonical_of" \in labels'[job.canonical]
      /\ landed => "canonical_of" \in labels'[job.canonical]
  BY <1>3, <1>4
<1>7. Locals(run') /\ run'.pc = "done" /\ run'.verdict = Status(run, ok) /\ run'.read = run.read
  <2>1. Return(run, Status(run, ok))
    BY Zenon DEF MirrorAnnotate
  <2> QED
    BY <1>1, <2>1, Returned
<1>8. run'.verdict = "OK" => "canonical_of" \in run.read \/ ok
  BY <1>7 DEF Status
<1> HIDE DEF to
<1> QED
  BY <1>1, <1>2, <1>3, <1>5, <1>6, <1>7, <1>8 DEF MirrorInv, MirrorStatusIsTrue

LEMMA MirrorStep == MirrorInv /\ [Next]_vars => MirrorInv'
<1> SUFFICES ASSUME MirrorInv, [Next]_vars PROVE MirrorInv'
  OBVIOUS
<1>1. job \in Jobs /\ Locals(run)
  BY DEF MirrorInv
<1>2. CASE job.kind # "mirror"
  BY <1>1, <1>2, OthersLeaveMirror DEF MirrorInv
<1>3. CASE job.kind = "mirror" /\ MirrorSteps
  BY <1>3, MirrorReadStep, MirrorCreateStep, MirrorAnnotateStep DEF MirrorSteps
<1>4. CASE job.kind = "mirror" /\ OtherClient
  <2>1. Shape' /\ job' = job /\ run' = run /\ labels[job.canonical] \subseteq labels'[job.canonical]
    BY <1>1, <1>4, OtherThins, CanonicalThere DEF MirrorInv
  <2> QED
    BY <1>1, <1>4, <2>1 DEF MirrorInv, MirrorStatusIsTrue
<1>5. CASE job.kind = "mirror" /\ (Stop \/ UNCHANGED vars)
  <2>1. UNCHANGED <<job, kids, labels, made, run>>
    BY <1>5 DEF Stop, vars, outline
  <2>2. Shape => Shape'
    BY <2>1 DEF Shape, Nodes, New
  <2> QED
    BY <2>1, <2>2 DEF MirrorInv, MirrorStatusIsTrue
<1> QED
  BY <1>2, <1>3, <1>4, <1>5, Steps

\* create_mirror: a mirror is reported as complete only if its canonical carries
\* the marker the audit looks for, whatever was lost or failed.
THEOREM MirrorStatusAlwaysTrue == Spec => []MirrorStatusIsTrue
<1>1. MirrorInv => MirrorStatusIsTrue
  BY DEF MirrorInv, MirrorStatusIsTrue
<1> QED
  BY <1>1, MirrorInit, MirrorStep, PTL DEF Spec

-----------------------------------------------------------------------------
(* reorder_nodes.                                                          *)

Listed == Range(job.ids)
Before0(m, n) == \E p \in DOMAIN Kids0 : Ahead(Kids0[p], m, n)

\* Nodes that are not listed keep their order.
OrderKept == \A m, n \in Old \ Listed : Precedes(m, n) => Before0(m, n)
\* A node whose move was answered is behind no later one, and no unlisted one.
PlacedSoFar ==
  \A i \in DOMAIN run.entries : run.entries[i] = "ok" =>
    /\ \A j \in DOMAIN run.entries :
         i < j /\ run.entries[j] = "ok" => ~Precedes(job.ids[j], job.ids[i])
    /\ \A n \in Old \ Listed : ~Precedes(n, job.ids[i])
\* What is left to do is done from the end of the list.
ToDo ==
  /\ run.pc = "start" => run.entries = <<>>
  /\ run.pc = "loop" =>
       /\ run.i \in DOMAIN job.ids /\ DOMAIN run.entries = DOMAIN job.ids
       /\ \A i, j \in DOMAIN job.ids : job.ids[i] = job.ids[j] => i = j
       /\ \A j \in DOMAIN job.ids : j <= run.i => run.entries[j] = "skipped"
  /\ DOMAIN run.entries \subseteq DOMAIN job.ids

ReorderInv ==
  /\ job \in Jobs
  /\ job.kind = "reorder" => Locals(run) /\ Shape /\ made = <<>> /\ OrderKept /\ PlacedSoFar /\ ToDo

LEMMA PrecedesAhead == \A x, y : Precedes(x, y) <=> \E p \in DOMAIN kids : Ahead(kids[p], x, y)
BY DEF Precedes, Ahead

LEMMA ReorderTyped ==
  ASSUME job \in Jobs, job.kind = "reorder"
  PROVE  job.ids \in Seq(Old) /\ DOMAIN job.ids = 1..Len(job.ids) /\ Len(job.ids) \in Nat
         /\ job.parent \in Nodes \cup {Top} /\ Listed \subseteq Nodes /\ Old \subseteq Nodes
         /\ \A i \in DOMAIN job.ids : job.ids[i] \in Listed /\ job.ids[i] \in Old
<1>1. job.ids \in Seq(Old) /\ job.parent \in Old \cup {Top} /\ Old \subseteq Nodes
  BY JobAssumption DEF Nodes
<1>2. DOMAIN job.ids = 1..Len(job.ids) /\ Len(job.ids) \in Nat
  BY <1>1, LenProperties
<1>3. \A i \in DOMAIN job.ids : job.ids[i] \in Old
  BY <1>1, <1>2, ElementOfSeq
<1> QED
  BY <1>1, <1>2, <1>3 DEF Listed, Range

LEMMA ReorderInit == Init => ReorderInv
<1> SUFFICES ASSUME Init PROVE ReorderInv
  OBVIOUS
<1>1. Locals(run) /\ run.pc = "start" /\ run.entries = <<>> /\ job \in Jobs /\ made = <<>> /\ kids = Kids0
  BY DEF Init, Fresh, Locals
<1>2. DOMAIN run.entries = {}
  BY <1>1
<1>3. OrderKept
  BY <1>1, PrecedesAhead DEF OrderKept, Before0
<1>4. PlacedSoFar /\ ToDo
  BY <1>1, <1>2 DEF PlacedSoFar, ToDo
<1> QED
  BY <1>1, <1>3, <1>4, InitShape DEF ReorderInv

\* A step that changes the outline by thinning it, and nothing else of note.
LEMMA ReorderThins ==
  ASSUME ReorderInv, job.kind = "reorder", Shape', Thins({Foreign}), UNCHANGED <<job, made, run>>
  PROVE  ReorderInv'
<1>1. job \in Jobs /\ Locals(run) /\ Shape /\ made = <<>> /\ OrderKept /\ PlacedSoFar /\ ToDo
  BY DEF ReorderInv
<1>2. \A x, y \in Old : Precedes(x, y)' => Precedes(x, y)
  <2>1. ASSUME NEW x \in Old, NEW y \in Old, NEW q \in Nodes \cup {Top}, Ahead(kids'[q], x, y)
        PROVE  Ahead(kids[q], x, y)
    <3>1. x # Foreign /\ y # Foreign
      BY NodeAssumption
    <3>2. Ahead(kids[q], x, y) \/ x \in {Foreign} \/ y \in {Foreign}
      BY <2>1 DEF Thins
    <3> QED
      BY <3>1, <3>2
  <2>2. DOMAIN kids = Nodes \cup {Top} /\ DOMAIN kids' = Nodes \cup {Top}
    BY <1>1 DEF Shape, Thins
  <2>3. \A x, y : Precedes(x, y)' <=> \E p \in DOMAIN kids' : Ahead(kids'[p], x, y)
    BY DEF Precedes, Ahead
  <2> QED
    BY <2>1, <2>2, <2>3, PrecedesAhead
<1>3. \A i \in DOMAIN job.ids : job.ids[i] \in Old
  BY <1>1, ReorderTyped
<1>4. OrderKept' /\ PlacedSoFar' /\ ToDo'
  BY <1>1, <1>2, <1>3 DEF OrderKept, PlacedSoFar, ToDo, Before0, Listed
<1> QED
  BY <1>1, <1>4 DEF ReorderInv

\* A node that is moved is ahead of its new siblings, and behind none.
LEMMA MoveLeads ==
  ASSUME Shape, NEW n \in Nodes, NEW parent \in Nodes \cup {Top},
         kids' = [Without(n) EXCEPT ![parent] = <<n>> \o @]
  PROVE  /\ kids' \in [Nodes \cup {Top} -> Seq(Nodes)]
         /\ \A p \in Nodes \cup {Top} : \A x, y :
              Ahead(kids'[p], x, y) => y # n /\ (x = n \/ Ahead(kids[p], x, y))
<1> DEFINE N == Nodes \cup {Top}
           w == Without(n)
           h == <<n>>
           r == h \o w[parent]
<1>1. /\ w \in [N -> Seq(Nodes)] /\ parent \in N
      /\ \A p \in N : ToSet(w[p]) = ToSet(kids[p]) \ {n}
      /\ \A p \in N : \A x, y : Ahead(w[p], x, y) => Ahead(kids[p], x, y) /\ x # n /\ y # n
  BY WithoutThins
<1>2. kids' = [w EXCEPT ![parent] = r]
  OBVIOUS
<1>3. h \in Seq(Nodes) /\ ToSet(h) = {n} /\ \A x, y : ~Ahead(h, x, y)
  BY DEF ToSet, Ahead
<1> HIDE DEF N, w, h
<1>4. r \in Seq(Nodes)
  BY <1>1, <1>3, ConcatProperties
<1>5. ASSUME NEW x, NEW y, Ahead(r, x, y) PROVE y # n /\ (x = n \/ Ahead(w[parent], x, y))
  <2>1. w[parent] \in Seq(Nodes)
    BY <1>1
  <2>2. Ahead(h, x, y) \/ Ahead(w[parent], x, y) \/ (x \in ToSet(h) /\ y \in ToSet(w[parent]))
    BY <1>3, <1>5, <2>1, AheadJoined
  <2> QED
    BY <1>1, <1>3, <2>2
<1> HIDE DEF r
<1>6. kids' \in [N -> Seq(Nodes)] /\ kids'[parent] = r /\ \A p \in N \ {parent} : kids'[p] = w[p]
  BY <1>1, <1>2, <1>4
<1>7. ASSUME NEW p \in N, NEW x, NEW y, Ahead(kids'[p], x, y)
      PROVE  y # n /\ (x = n \/ Ahead(kids[p], x, y))
  <2>1. CASE p = parent
    BY <1>1, <1>5, <1>6, <1>7, <2>1
  <2>2. CASE p # parent
    BY <1>1, <1>6, <1>7, <2>2
  <2> QED
    BY <2>1, <2>2
<1> QED
  BY <1>6, <1>7 DEF N

LEMMA ReorderStartStep ==
  ASSUME ReorderInv, job.kind = "reorder", ReorderStart
  PROVE  ReorderInv'
<1> DEFINE r == [run EXCEPT !.pc = "loop", !.i = Len(job.ids),
                            !.entries = [i \in DOMAIN job.ids |-> "skipped"]]
<1>1. job \in Jobs /\ Locals(run) /\ Shape /\ made = <<>> /\ OrderKept /\ ToDo /\ run.entries = <<>>
  BY DEF ReorderInv, ReorderStart, Is, ToDo
<1>2. UNCHANGED <<job, kids, labels, made>>
  BY DEF ReorderStart, outline, context
<1>3. Shape' /\ OrderKept'
  BY <1>1, <1>2 DEF Shape, Nodes, New, OrderKept, Before0, Listed, Precedes
<1>4. CASE Return(run, "invalid")
  <2>1. Locals(run') /\ run'.pc = "done" /\ run'.entries = <<>>
    BY <1>1, <1>4, Returned
  <2>2. PlacedSoFar' /\ ToDo'
    BY <2>1 DEF PlacedSoFar, ToDo
  <2> QED
    BY <1>1, <1>2, <1>3, <2>1, <2>2 DEF ReorderInv
<1>5. CASE run' = r /\ job.ids # <<>> /\ IsInjective(job.ids)
  <2>1. Locals(run') /\ run'.pc = "loop" /\ run'.i = Len(job.ids)
        /\ run'.entries = [i \in DOMAIN job.ids |-> "skipped"]
    BY <1>1, <1>5 DEF Locals
  <2>2. DOMAIN job.ids = 1..Len(job.ids) /\ Len(job.ids) \in Nat /\ Len(job.ids) # 0
    <3>1. job.ids \in Seq(Old)
      BY <1>1, ReorderTyped
    <3>2. Len(job.ids) \in Nat \ {0}
      BY <1>5, <3>1, EmptySeq
    <3> QED
      BY <1>1, <3>2, ReorderTyped
  <2>3. Len(job.ids) \in DOMAIN job.ids
    BY <2>2
  <2>4. \A i, j \in DOMAIN job.ids : job.ids[i] = job.ids[j] => i = j
    BY <1>5 DEF IsInjective
  <2>5. PlacedSoFar' /\ ToDo'
    BY <1>2, <2>1, <2>3, <2>4 DEF PlacedSoFar, ToDo
  <2> QED
    BY <1>1, <1>2, <1>3, <2>1, <2>5 DEF ReorderInv
<1>6. Return(run, "invalid") \/ (run' = r /\ job.ids # <<>> /\ IsInjective(job.ids))
  BY Zenon DEF ReorderStart
<1> QED
  BY <1>4, <1>5, <1>6

LEMMA ReorderStopsStep ==
  ASSUME ReorderInv, job.kind = "reorder", ReorderStops
  PROVE  ReorderInv'
<1>1. job \in Jobs /\ Locals(run) /\ Shape /\ made = <<>> /\ OrderKept /\ PlacedSoFar /\ ToDo
  BY DEF ReorderInv
<1>2. UNCHANGED <<job, kids, labels, made>> /\ Return(run, Reason)
  BY DEF ReorderStops, outline, context
<1>3. Shape' /\ OrderKept'
  BY <1>1, <1>2 DEF Shape, Nodes, New, OrderKept, Before0, Listed, Precedes
<1>4. Locals(run') /\ run'.pc = "done" /\ run'.entries = run.entries
  BY <1>1, <1>2, Returned
<1>5. PlacedSoFar' /\ ToDo'
  BY <1>1, <1>2, <1>4 DEF PlacedSoFar, ToDo, Listed, Precedes
<1> QED
  BY <1>1, <1>2, <1>3, <1>4, <1>5 DEF ReorderInv

LEMMA ReorderNextStep ==
  ASSUME ReorderInv, job.kind = "reorder", NEW landed \in BOOLEAN, NEW ok \in BOOLEAN,
         ReorderNext(landed, ok)
  PROVE  ReorderInv'
<1> DEFINE k == run.i
           n == Entry(run.i)
           r == [run EXCEPT !.i = @ - 1, !.entries[run.i] = IF ok THEN "ok" ELSE "error"]
<1>1. /\ job \in Jobs /\ Locals(run) /\ Shape /\ made = <<>> /\ OrderKept /\ PlacedSoFar
      /\ k \in DOMAIN job.ids /\ DOMAIN run.entries = DOMAIN job.ids
      /\ \A i, j \in DOMAIN job.ids : job.ids[i] = job.ids[j] => i = j
      /\ \A j \in DOMAIN job.ids : j <= k => run.entries[j] = "skipped"
      /\ run.pc = "loop"
  BY DEF ReorderInv, ReorderNext, Is, ToDo
<1>2. /\ DOMAIN job.ids = 1..Len(job.ids) /\ Len(job.ids) \in Nat /\ k \in Nat
      /\ \A i \in DOMAIN job.ids : job.ids[i] \in Listed /\ job.ids[i] \in Old
      /\ n = job.ids[k] /\ n \in Nodes /\ n \in Old /\ n \in Listed /\ job.parent \in Nodes \cup {Top}
  BY <1>1, ReorderTyped DEF Entry
<1>3. job' = job /\ UNCHANGED <<labels, made>> /\ (ok => landed)
      /\ kids' = IF landed THEN [Without(n) EXCEPT ![job.parent] = <<n>> \o @] ELSE kids
  BY DEF ReorderNext, Move, context
<1>4. IF run.i = 1 THEN Return(r, "complete") ELSE run' = r
  BY Zenon DEF ReorderNext
<1> HIDE DEF n
\* What the move leaves.
<1> DEFINE After(x, y) == \E p \in DOMAIN kids' : Ahead(kids'[p], x, y)
<1>0. \A x, y : Precedes(x, y)' <=> After(x, y)
  BY DEF Precedes, Ahead
<1>5. /\ kids' \in [Nodes \cup {Top} -> Seq(Nodes)]
      /\ \A x, y : After(x, y) => (x = n /\ landed) \/ Precedes(x, y)
      /\ landed => \A x : ~After(x, n)
  <2>1. CASE landed
    <3>1. /\ kids' \in [Nodes \cup {Top} -> Seq(Nodes)]
          /\ \A p \in Nodes \cup {Top} : \A x, y :
               Ahead(kids'[p], x, y) => y # n /\ (x = n \/ Ahead(kids[p], x, y))
      BY <1>1, <1>2, <1>3, <2>1, MoveLeads
    <3>2. DOMAIN kids' = Nodes \cup {Top} /\ DOMAIN kids = Nodes \cup {Top}
      BY <1>1, <3>1 DEF Shape
    <3>3. ASSUME NEW x, NEW y, NEW p \in DOMAIN kids', Ahead(kids'[p], x, y)
          PROVE  y # n /\ (x = n \/ Precedes(x, y))
      BY <3>1, <3>2, <3>3, PrecedesAhead
    <3> QED
      BY <2>1, <3>1, <3>3
  <2>2. CASE ~landed
    <3>1. kids' = kids
      BY <1>3, <2>2
    <3> QED
      BY <1>1, <2>2, <3>1, PrecedesAhead DEF Shape
  <2> QED
    BY <2>1, <2>2
<1> HIDE DEF After
<1>6. Shape' /\ made' = <<>>
  BY <1>1, <1>3, <1>5 DEF Shape, Nodes, New
<1>7. OrderKept'
  <2>1. \A m, q \in Old \ Listed : After(m, q) => Before0(m, q)
    BY <1>1, <1>2, <1>5 DEF OrderKept
  <2> QED
    BY <1>3, <1>0, <2>1 DEF OrderKept, Before0, Listed
<1> DEFINE e == [run.entries EXCEPT ![k] = IF ok THEN "ok" ELSE "error"]
<1>8. Locals(run') /\ run'.entries = e /\ run'.pc \in {"loop", "done"}
      /\ (run'.pc = "loop" => run'.i = k - 1 /\ k # 1)
  <2>1. Locals(r) /\ r.entries = e /\ r.i = k - 1 /\ r.pc = "loop" /\ run.i = k
    BY <1>1 DEF Locals
  <2> HIDE DEF r, e, k
  <2>2. Return(r, "complete") => Locals(run') /\ run'.entries = e /\ run'.pc = "done"
    BY <2>1, Returned
  <2> QED
    BY <1>4, <2>1, <2>2
<1>9. DOMAIN e = DOMAIN job.ids /\ e[k] = (IF ok THEN "ok" ELSE "error")
      /\ \A j \in DOMAIN job.ids : j # k => e[j] = run.entries[j]
  BY <1>1
<1> HIDE DEF e, r
<1>10. ASSUME NEW i \in DOMAIN job.ids, e[i] = "ok"
       PROVE  /\ \A j \in DOMAIN job.ids : i < j /\ e[j] = "ok" => ~After(job.ids[j], job.ids[i])
              /\ \A m \in Old \ Listed : ~After(m, job.ids[i])
  <2>1. CASE i = k
    <3>1. ok /\ landed
      BY <1>3, <1>9, <1>10, <2>1
    <3> QED
      BY <1>2, <1>3, <1>5, <2>1, <3>1
  <2>2. CASE i # k
    <3>1. run.entries[i] = "ok" /\ i > k
      BY <1>1, <1>2, <1>9, <1>10, <2>2
    <3>2. \A m \in Old \ Listed : m # n
      BY <1>2
    <3>3. \A j \in DOMAIN job.ids : i < j => job.ids[j] # n
      BY <1>1, <1>2, <3>1
    <3>4. \A j \in DOMAIN job.ids : i < j /\ e[j] = "ok" => run.entries[j] = "ok"
      BY <1>2, <1>9, <3>1
    <3>5. /\ \A j \in DOMAIN job.ids :
               i < j /\ run.entries[j] = "ok" => ~Precedes(job.ids[j], job.ids[i])
          /\ \A m \in Old \ Listed : ~Precedes(m, job.ids[i])
      BY <1>1, <3>1 DEF PlacedSoFar
    <3> QED
      BY <1>3, <1>5, <3>2, <3>3, <3>4, <3>5
  <2> QED
    BY <2>1, <2>2
<1>11. PlacedSoFar'
  BY <1>3, <1>8, <1>9, <1>10, <1>0 DEF PlacedSoFar, Listed
<1>12. ToDo'
  <2>1. run'.pc = "loop" => k - 1 \in DOMAIN job.ids /\ \A j \in DOMAIN job.ids : j <= k - 1 => e[j] = "skipped"
    BY <1>1, <1>2, <1>8, <1>9
  <2> QED
    BY <1>1, <1>3, <1>8, <1>9, <2>1 DEF ToDo
<1> QED
  BY <1>1, <1>3, <1>6, <1>7, <1>8, <1>11, <1>12 DEF ReorderInv

LEMMA ReorderStep == ReorderInv /\ [Next]_vars => ReorderInv'
<1> SUFFICES ASSUME ReorderInv, [Next]_vars PROVE ReorderInv'
  OBVIOUS
<1>1. job \in Jobs
  BY DEF ReorderInv
<1>2. job' = job
  BY JobStays
<1>3. CASE job.kind = "reorder" /\ ReorderSteps
  BY <1>3, ReorderStartStep, ReorderStopsStep, ReorderNextStep DEF ReorderSteps
<1>4. CASE job.kind = "reorder" /\ OtherClient
  <2>1. Thins({Foreign}) /\ Shape' /\ UNCHANGED <<job, made, run>>
    BY <1>4, OtherThins DEF ReorderInv
  <2> QED
    BY <1>4, <2>1, ReorderThins
<1>5. CASE job.kind = "reorder" /\ (Stop \/ UNCHANGED vars)
  <2>1. UNCHANGED <<job, kids, labels, made, run>>
    BY <1>5 DEF Stop, vars, outline
  <2>2. Shape
    BY <1>5 DEF ReorderInv
  <2>3. Shape' /\ Thins({Foreign})
    BY <2>1, <2>2 DEF Shape, Nodes, New, Thins
  <2> QED
    BY <1>5, <2>1, <2>3, ReorderThins
<1> QED
  BY <1>1, <1>2, <1>3, <1>4, <1>5, Steps DEF ReorderInv

\* reorder_nodes: the moves that were answered leave their nodes in the order
\* that was asked for, ahead of every sibling that was not listed, and those keep
\* their order, whatever failed, was skipped, or was moved without an answer.
THEOREM ReorderAlwaysPlaces == Spec => []ReorderPlacesInOrder
<1>1. ReorderInv => ReorderPlacesInOrder
  <2> SUFFICES ASSUME ReorderInv, job.kind = "reorder",
                      NEW i \in DOMAIN run.entries, NEW j \in DOMAIN run.entries
               PROVE  /\ run.entries[i] = "ok" /\ run.entries[j] = "ok" /\ i < j =>
                           ~Precedes(job.ids[j], job.ids[i])
                      /\ run.entries[i] = "ok" =>
                           \A n \in Old \ Range(job.ids) : ~Precedes(n, job.ids[i])
                      /\ \A m, n \in Old \ Range(job.ids) :
                           Precedes(m, n) => \E p \in DOMAIN Kids0 : \E k, l \in DOMAIN Kids0[p] :
                             k < l /\ Kids0[p][k] = m /\ Kids0[p][l] = n
    BY Zenon DEF ReorderPlacesInOrder
  <2>1. OrderKept /\ PlacedSoFar
    BY DEF ReorderInv
  <2>2. \A m, n \in Old \ Range(job.ids) : Precedes(m, n) => Before0(m, n)
    BY <2>1 DEF OrderKept, Listed
  <2>3. \A m, n : Before0(m, n) => \E p \in DOMAIN Kids0 : \E k, l \in DOMAIN Kids0[p] :
                                     k < l /\ Kids0[p][k] = m /\ Kids0[p][l] = n
    BY DEF Before0, Ahead
  <2> QED
    BY <2>1, <2>2, <2>3 DEF PlacedSoFar, Listed
<1> QED
  BY <1>1, ReorderInit, ReorderStep, PTL DEF Spec

-----------------------------------------------------------------------------
(* insert_content: the levels of a payload.                                *)

Lines == job.lines
LevelOf(f, i) == IF i = 1 THEN 0 ELSE Lesser(Lines[i], f[i - 1] + 1)

LEMMA LinesTyped ==
  ASSUME job \in Jobs, job.kind = "insert"
  PROVE  /\ Lines \in Seq(Nat) /\ Len(Lines) \in Nat /\ DOMAIN Lines = 1..Len(Lines)
         /\ \A i \in 1..Len(Lines) : Lines[i] \in Nat
         /\ job.parent \in Old \cup {Top}
<1>1. Lines \in Seq(Nat) /\ job.parent \in Old \cup {Top}
  BY JobAssumption DEF Lines
<1> QED
  BY <1>1, LenProperties, ElementOfSeq

LEMMA LevelExists ==
  ASSUME job \in Jobs, job.kind = "insert"
  PROVE  \E f : f = [i \in 1..Len(Lines) |-> LevelOf(f, i)]
<1> DEFINE n == Len(Lines)
           g == [p \in Nat \X Nat |->
                   IF p[1] = 1 THEN 0 ELSE IF p[1] \in 1..n THEN Lesser(Lines[p[1]], p[2] + 1) ELSE 0]
<1>1. n \in Nat /\ \A i \in 1..n : Lines[i] \in Nat
  BY LinesTyped
<1>2. g \in [Nat \X Nat -> Nat]
  <2>1. ASSUME NEW p \in Nat \X Nat
        PROVE  (IF p[1] = 1 THEN 0 ELSE IF p[1] \in 1..n THEN Lesser(Lines[p[1]], p[2] + 1) ELSE 0) \in Nat
    <3>1. p[1] \in Nat /\ p[2] \in Nat
      OBVIOUS
    <3> HIDE DEF n
    <3> QED
      BY <1>1, <3>1 DEF Lesser
  <2> QED
    BY <2>1
<1>3. PICK f : Obeys(f, Nat, 0, g, n)
  <2> HIDE DEF g, n
  <2> QED
    BY <1>1, <1>2, RecursionExists
<1>4. f \in [0..n -> Nat] /\ \A i \in 1..n : f[i] = g[<<i, f[i - 1]>>]
  BY <1>3 DEF Obeys
<1> DEFINE h == [i \in 1..n |-> f[i]]
<1>5. ASSUME NEW i \in 1..n PROVE f[i] = LevelOf(h, i)
  <2> DEFINE p == <<i, f[i - 1]>>
  <2>1. i \in Nat /\ i - 1 \in 0..n /\ (i # 1 => i - 1 \in 1..n)
    BY <1>1
  <2>2. p \in Nat \X Nat /\ p[1] = i /\ p[2] = f[i - 1]
    BY <2>1, <1>4
  <2>3. f[i] = g[p]
    BY <1>4
  <2>4. i # 1 => h[i - 1] = f[i - 1]
    BY <2>1
  <2> HIDE DEF p, h
  <2>5. g[p] = IF p[1] = 1 THEN 0 ELSE IF p[1] \in 1..n THEN Lesser(Lines[p[1]], p[2] + 1) ELSE 0
    BY <2>2
  <2> HIDE DEF g
  <2> QED
    BY <2>2, <2>3, <2>4, <2>5 DEF LevelOf
<1>6. h = [i \in 1..n |-> LevelOf(h, i)]
  <2>1. \A i \in 1..n : f[i] = LevelOf(h, i)
    BY <1>5
  <2>2. \A i \in 1..n : h[i] = f[i]
    OBVIOUS
  <2>3. h = [i \in 1..n |-> h[i]]
    OBVIOUS
  <2> HIDE DEF h
  <2> QED
    BY <2>1, <2>2, <2>3
<1> QED
  BY <1>6

LEMMA LevelUnfolds ==
  ASSUME job \in Jobs, job.kind = "insert"
  PROVE  \A i \in 1..Len(Lines) :
           Level[i] \in Nat /\ Level[i] = IF i = 1 THEN 0 ELSE Lesser(Lines[i], Level[i - 1] + 1)
<1> DEFINE n == Len(Lines)
<1>1. n \in Nat /\ \A i \in 1..n : Lines[i] \in Nat
  BY LinesTyped
<1>2. Level = CHOOSE f : f = [i \in 1..n |-> LevelOf(f, i)]
  BY DEF Level, LevelOf, Lines
<1>3. Level = [i \in 1..n |-> LevelOf(Level, i)]
  BY <1>2, LevelExists
<1> HIDE DEF n
<1>4. \A i \in 1..n : Level[i] = IF i = 1 THEN 0 ELSE Lesser(Lines[i], Level[i - 1] + 1)
  <2>1. \A i \in 1..n : Level[i] = LevelOf(Level, i)
    BY <1>3
  <2> QED
    BY <2>1 DEF LevelOf
<1> DEFINE T == {k \in 0..n : k = 0 \/ Level[k] \in Nat}
<1>5. 0 \in T
  BY <1>1
<1>6. ASSUME NEW k \in 0..(n - 1), k \in T PROVE k + 1 \in T
  <2>1. k + 1 \in 1..n /\ k + 1 \in 0..n /\ (k + 1) - 1 = k
    BY <1>1
  <2>2. Level[k + 1] = IF k + 1 = 1 THEN 0 ELSE Lesser(Lines[k + 1], Level[k] + 1)
    BY <1>4, <2>1
  <2> QED
    BY <1>1, <1>6, <2>1, <2>2 DEF Lesser
<1>7. \A i \in 0..n : i \in T
  <2> HIDE DEF T
  <2> QED
    BY <1>1, <1>5, <1>6, Inductive
<1>8. \A i \in 1..n : Level[i] \in Nat
  BY <1>1, <1>7
<1> QED
  BY <1>4, <1>8 DEF n

\* The line above a line is the last one of the level before.
LEMMA AboveIs ==
  ASSUME job \in Jobs, job.kind = "insert", NEW i \in 1..Len(Lines), NEW j \in 1..(i - 1),
         Level[j] = Level[i] - 1, \A m \in (j + 1)..(i - 1) : Level[m] > Level[j]
  PROVE  LineAbove(i) = j
<1> DEFINE S == {0} \cup {m \in 1..i-1 : Level[m] = Level[i] - 1}
<1>1. i \in Nat /\ j \in Nat /\ Len(Lines) \in Nat /\ \A m \in 1..i : Level[m] \in Nat
  BY LinesTyped, LevelUnfolds
<1>2. j \in S
  OBVIOUS
<1>3. ASSUME NEW m \in S PROVE m \in Int /\ j >= m
  <2>1. m = 0 \/ (m \in 1..(i - 1) /\ Level[m] = Level[j])
    OBVIOUS
  <2>2. m \in 1..(i - 1) /\ m > j => m \in (j + 1)..(i - 1) /\ Level[m] \in Nat /\ Level[j] \in Nat
    BY <1>1
  <2> QED
    BY <1>1, <2>1, <2>2
<1>4. LineAbove(i) = CHOOSE x \in S : \A y \in S : x >= y
  BY DEF LineAbove, Max
<1> HIDE DEF S
<1>5. \A x \in S : (\A y \in S : x >= y) => x = j
  BY <1>1, <1>2, <1>3
<1> QED
  BY <1>2, <1>3, <1>4, <1>5

LEMMA AboveNone ==
  ASSUME job \in Jobs, job.kind = "insert", NEW i \in 1..Len(Lines), Level[i] = 0
  PROVE  LineAbove(i) = 0
<1> DEFINE S == {0} \cup {m \in 1..i-1 : Level[m] = Level[i] - 1}
<1>1. i \in Nat /\ Len(Lines) \in Nat /\ \A m \in 1..i : Level[m] \in Nat
  BY LinesTyped, LevelUnfolds
<1>2. \A m \in 1..(i - 1) : Level[m] # Level[i] - 1
  BY <1>1
<1>3. S = {0}
  BY <1>2
<1>4. LineAbove(i) = CHOOSE x \in {0} : \A y \in {0} : x >= y
  BY <1>3, Zenon DEF LineAbove, Max
<1> QED
  BY <1>4

\* A line is written below the parent of the job or below the line above it.
BelowLine(i, p) == IF LineAbove(i) = 0 THEN p = job.parent ELSE p \in Of(LineAbove(i))

Progress ==
  /\ run.pc \in {"start", "loop", "done"} /\ run.count \in 0..Len(Lines)
  /\ run.pc # "done" => run.i = run.count + 1
  /\ run.pc = "start" => run.count = 0
  /\ run.pc = "loop" => run.i \in 1..Len(Lines)

\* What was created comes from the lines in their turn. A line that was answered
\* is done with; one that was not may have landed.
LinesInTurn ==
  /\ \A x \in New :
       /\ made[x].from \in 1..Len(Lines) /\ made[x].from <= run.count + 1
       /\ made[x].told \/ run.pc # "done" => made[x].from <= run.count
  /\ \A x, y \in New : x < y =>
       made[x].from <= made[y].from /\ (made[x].told => made[x].from < made[y].from)
  /\ \A i \in 1..run.count : Of(i) # {}

KidsInTurn == \A p \in Nodes \cup {Top} : \A x, y \in New : Ahead(kids[p], x, y) => x < y
LinesPlaced == \A i \in 1..Len(Lines), p \in Nodes \cup {Top} :
  \A x \in Of(i) : x \in ToSet(kids[p]) => BelowLine(i, p)

\* s[k] is the last line before i at level k - 2, with deeper lines after it only.
StackBuilt(s, i) ==
  /\ s \in Seq(Nodes \cup {Top})
  /\ Len(s) = IF i = 1 THEN 1 ELSE Level[i - 1] + 2
  /\ s[1] = job.parent
  /\ \A k \in 2..Len(s) : \E j \in 1..(i - 1) :
       Level[j] = k - 2 /\ s[k] \in Of(j) /\ \A m \in (j + 1)..(i - 1) : Level[m] > k - 2

InsertInv ==
  /\ job \in Jobs
  /\ job.kind = "insert" =>
       /\ Locals(run) /\ Shape /\ Progress /\ LinesInTurn /\ KidsInTurn /\ LinesPlaced
       /\ run.pc = "loop" => StackBuilt(run.stack, run.i)

LEMMA LevelsStay ==
  ASSUME job' = job
  PROVE  Level' = Level /\ \A i : LineAbove(i)' = LineAbove(i)
<1>1. Level' = Level
  BY DEF Level
<1>2. \A i : LineAbove(i)' = LineAbove(i)
  BY <1>1 DEF LineAbove
<1> QED
  BY <1>1, <1>2

\* What was answered for a line stays so.
LEMMA OfGrows ==
  ASSUME Shape, NEW from \in Froms, NEW n \in Nat, NEW ok \in BOOLEAN, MadeGrows(from, n, ok)
  PROVE  /\ New \subseteq New' /\ Nodes \subseteq Nodes' /\ \A j : Of(j) \subseteq Of(j)'
         /\ ok /\ n > 0 => Len(made) + n \in Of(from)'
         /\ \A x \in Told' : x \in Told \/ (ok /\ n > 0 /\ x = Len(made) + n /\ made'[x].from = from)
<1>1. /\ New = 1..Len(made) /\ Len(made) \in Nat /\ New' = 1..(Len(made) + n)
      /\ \A x \in New : made'[x] = made[x]
      /\ \A x \in New' \ New : made'[x].from = from /\ (made'[x].told <=> ok /\ x = Len(made) + n)
  BY DEF MadeGrows
<1> DEFINE m == Len(made)
<1>2. m \in Nat
  BY <1>1
<1> HIDE DEF m
<1>3. New \subseteq New' /\ (n > 0 => m + n \in New' \ New)
  BY <1>1, <1>2 DEF m
<1>4. Nodes \subseteq Nodes'
  BY <1>3 DEF Nodes
<1>5. \A j : Of(j) \subseteq Of(j)'
  BY <1>1, <1>3 DEF Of, Told
<1>6. ok /\ n > 0 => m + n \in Of(from)'
  BY <1>1, <1>3 DEF Of, Told, m
<1>7. \A x \in Told' : x \in Told \/ (ok /\ n > 0 /\ x = m + n /\ made'[x].from = from)
  <2> SUFFICES ASSUME NEW x \in New', made'[x].told, x \notin New
               PROVE  ok /\ n > 0 /\ x = m + n /\ made'[x].from = from
    BY <1>1, <1>3 DEF Told
  <2>1. n > 0
    BY <1>1
  <2> QED
    BY <1>1, <2>1 DEF m
<1> QED
  BY <1>3, <1>4, <1>5, <1>6, <1>7 DEF m

LEMMA BelowStays ==
  ASSUME job' = job, \A j : Of(j) \subseteq Of(j)', NEW i, NEW p, BelowLine(i, p)
  PROVE  BelowLine(i, p)'
<1>1. LineAbove(i)' = LineAbove(i) /\ Of(LineAbove(i)) \subseteq Of(LineAbove(i))'
  <2>1. LineAbove(i)' = LineAbove(i)
    BY LevelsStay
  <2>2. PICK k : k = LineAbove(i)
    OBVIOUS
  <2>3. Of(k) \subseteq Of(k)'
    OBVIOUS
  <2> QED
    BY <2>1, <2>2, <2>3 DEF Of
<1> QED
  BY <1>1 DEF BelowLine

LEMMA StackStays ==
  ASSUME job' = job, Nodes \subseteq Nodes', \A j : Of(j) \subseteq Of(j)',
         NEW s, NEW i, StackBuilt(s, i), s = run'.stack, i = run'.i
  PROVE  StackBuilt(run.stack, run.i)'
<1>1. Level' = Level
  BY LevelsStay
<1>2. s \in Seq(Nodes' \cup {Top})
  <2>1. s \in Seq(Nodes \cup {Top})
    BY DEF StackBuilt
  <2> QED
    BY <2>1, SeqWidens
<1> QED
  BY <1>1, <1>2 DEF StackBuilt

LEMMA InsertInit == Init => InsertInv
<1> SUFFICES ASSUME Init, job.kind = "insert" PROVE InsertInv
  BY DEF Init, InsertInv
<1>1. Locals(run)
  BY DEF Init, Locals, Fresh
<1>2. run.pc = "start" /\ run.i = 1 /\ run.count = 0 /\ job \in Jobs /\ New = {}
  BY DEF Init, Fresh, New
<1>3. Len(Lines) \in Nat
  BY <1>2, LinesTyped
<1>4. Progress
  BY <1>2, <1>3 DEF Progress
<1>5. LinesInTurn /\ KidsInTurn /\ LinesPlaced
  BY <1>2, <1>3 DEF LinesInTurn, KidsInTurn, LinesPlaced, Of, Told
<1> QED
  BY <1>1, <1>2, <1>4, <1>5, InitShape DEF InsertInv

\* Whatever the other client does, and when the insert ends without a call.
LEMMA InsertThinsOut ==
  ASSUME InsertInv, job.kind = "insert", job' = job, made' = made, Shape', Thins({Foreign}),
         Locals(run'), Progress', run'.count = run.count, run'.pc # "done" => run.pc # "done",
         run'.pc = "loop" => StackBuilt(run.stack, run.i)'
  PROVE  InsertInv'
<1>1. Shape /\ LinesInTurn /\ KidsInTurn /\ LinesPlaced
  BY DEF InsertInv
<1>2. New' = New /\ Nodes' = Nodes /\ Told' = Told /\ \A j : Of(j)' = Of(j)
  BY DEF New, Nodes, Told, Of
<1>3. LinesInTurn'
  <2>1. Lines' = Lines
    BY DEF Lines
  <2> QED
    BY <1>1, <1>2, <2>1 DEF LinesInTurn
<1>4. New \subseteq Nat /\ Foreign \notin New
  <2>1. New = 1..Len(made)
    BY <1>1, LenProperties DEF Shape, New
  <2> QED
    BY <2>1, NodeAssumption
<1>5. KidsInTurn'
  BY <1>1, <1>2, <1>4 DEF KidsInTurn, Thins
<1>6. LinesPlaced'
  <2> SUFFICES ASSUME NEW i \in 1..Len(Lines), NEW p \in Nodes \cup {Top}, NEW x \in Of(i),
                      x \in ToSet(kids'[p])
               PROVE  BelowLine(i, p)'
    BY <1>2 DEF LinesPlaced, Lines
  <2>1. x \in ToSet(kids[p])
    BY <1>4 DEF Thins, Of, Told
  <2>2. BelowLine(i, p)
    BY <1>1, <2>1 DEF LinesPlaced
  <2> QED
    BY <1>2, <2>2, BelowStays
<1> QED
  BY <1>3, <1>5, <1>6 DEF InsertInv

\* The run stays as it is, or ends without a call.
LEMMA InsertRests ==
  ASSUME InsertInv, job.kind = "insert", job' = job, made' = made, Shape', Thins({Foreign}),
         Locals(run'), run'.count = run.count, run'.i = run.i, run'.stack = run.stack,
         run'.pc \in {run.pc, "done"}
  PROVE  InsertInv'
<1>1. Progress /\ (run.pc = "loop" => StackBuilt(run.stack, run.i))
  BY DEF InsertInv
<1>2. Progress'
  BY <1>1 DEF Progress, Lines
<1>3. run'.pc = "loop" => StackBuilt(run.stack, run.i)'
  <2> SUFFICES ASSUME run.pc = "loop" PROVE StackBuilt(run.stack, run.i)'
    OBVIOUS
  <2>1. PICK s, i : s = run.stack /\ i = run.i
    OBVIOUS
  <2>2. StackBuilt(s, i) /\ s = run'.stack /\ i = run'.i
    BY <1>1, <2>1
  <2>3. Nodes \subseteq Nodes' /\ \A j : Of(j) \subseteq Of(j)'
    BY DEF Nodes, New, Of, Told
  <2> QED
    BY <2>2, <2>3, StackStays
<1>4. run'.pc # "done" => run.pc # "done"
  OBVIOUS
<1> QED
  BY <1>2, <1>3, <1>4, InsertThinsOut

LEMMA InsertStartStep ==
  ASSUME InsertInv, job.kind = "insert", InsertStart
  PROVE  InsertInv'
<1>1. /\ UNCHANGED <<job, kids, labels, made>>
      /\ \/ (Return(run, "complete") \/ Return(run, "invalid"))
         \/ run' = [run EXCEPT !.pc = "loop", !.stack = <<job.parent>>] /\ Lines # <<>>
  <2>1. UNCHANGED <<job, kids, labels, made>>
    BY DEF InsertStart, outline, context
  <2>2. \/ (Return(run, "complete") \/ Return(run, "invalid"))
        \/ run' = [run EXCEPT !.pc = "loop", !.stack = <<job.parent>>] /\ Lines # <<>>
    BY Zenon DEF InsertStart, Lines
  <2> QED
    BY <2>1, <2>2
<1>2. /\ run.pc = "start" /\ Locals(run) /\ Shape /\ Progress
      /\ LinesInTurn /\ KidsInTurn /\ LinesPlaced /\ job \in Jobs
  BY DEF InsertInv, InsertStart, Is
<1>3. Shape' /\ Thins({Foreign})
  BY <1>1, <1>2 DEF Shape, Nodes, New, Thins
<1>4. CASE Return(run, "complete") \/ Return(run, "invalid")
  <2>1. /\ Locals(run') /\ run'.pc = "done" /\ run'.i = run.i /\ run'.count = run.count
        /\ run'.stack = run.stack
    BY <1>2, <1>4, Returned
  <2> QED
    BY <1>1, <1>3, <2>1, InsertRests
<1>5. CASE run' = [run EXCEPT !.pc = "loop", !.stack = <<job.parent>>] /\ Lines # <<>>
  <2>1. /\ Locals(run') /\ run'.pc = "loop" /\ run'.i = run.i /\ run'.count = run.count
        /\ run'.stack = <<job.parent>>
    BY <1>2, <1>5 DEF Locals
  <2>2. run.i = 1 /\ run.count = 0 /\ Len(Lines) \in Nat /\ Len(Lines) # 0 /\ job.parent \in Old \cup {Top}
    BY <1>2, <1>5, LinesTyped, EmptySeq DEF Progress
  <2>3. Progress'
    BY <1>1, <1>2, <2>1, <2>2 DEF Progress, Lines
  <2>4. StackBuilt(run.stack, run.i)'
    <3>1. run'.stack \in Seq(Nodes' \cup {Top}) /\ Len(run'.stack) = 1 /\ run'.stack[1] = job'.parent
      BY <1>1, <2>1, <2>2 DEF Nodes
    <3> QED
      BY <2>1, <2>2, <3>1 DEF StackBuilt
  <2> QED
    BY <1>1, <1>2, <1>3, <2>1, <2>3, <2>4, InsertThinsOut
<1> QED
  BY <1>1, <1>4, <1>5

LEMMA InsertStopsStep ==
  ASSUME InsertInv, job.kind = "insert", InsertStops
  PROVE  InsertInv'
<1> DEFINE r == [run EXCEPT !.stopped = IF cancelled THEN 0 ELSE run.i]
<1>1. UNCHANGED <<job, kids, labels, made>>
  BY DEF InsertStops, outline, context
<1>2. Return(r, Reason)
  BY Zenon DEF InsertStops
<1>3. Locals(run) /\ Shape
  BY DEF InsertInv
<1>4. Locals(r) /\ r.i = run.i /\ r.count = run.count /\ r.stack = run.stack
  BY <1>3 DEF Locals
<1> HIDE DEF r
<1>5. /\ Locals(run') /\ run'.pc = "done" /\ run'.i = run.i /\ run'.count = run.count
      /\ run'.stack = run.stack
  BY <1>2, <1>4, Returned
<1>6. Shape' /\ Thins({Foreign})
  BY <1>1, <1>3 DEF Shape, Nodes, New, Thins
<1> QED
  BY <1>1, <1>5, <1>6, InsertRests

\* Where a line goes: below the parent the stack holds for its level.
LEMMA InsertSpot ==
  ASSUME job \in Jobs, job.kind = "insert", NEW s, NEW i \in 1..Len(Lines), StackBuilt(s, i)
  PROVE  /\ Lesser(Lines[i], Len(s) - 1) = Level[i] /\ Level[i] \in Nat
         /\ Level[i] + 1 \in 1..Len(s) /\ Len(s) \in Nat
         /\ BelowLine(i, s[Level[i] + 1])
<1> DEFINE L == Level[i]
<1>1. /\ i \in Nat /\ Len(Lines) \in Nat /\ Lines[i] \in Nat /\ \A m \in 1..i : Level[m] \in Nat
      /\ L = IF i = 1 THEN 0 ELSE Lesser(Lines[i], Level[i - 1] + 1)
  BY LinesTyped, LevelUnfolds
<1>2. Len(s) = (IF i = 1 THEN 1 ELSE Level[i - 1] + 2) /\ (i # 1 => Level[i - 1] \in Nat) /\ Len(s) \in Nat
  <2>1. Len(s) = (IF i = 1 THEN 1 ELSE Level[i - 1] + 2) /\ (i # 1 => i - 1 \in 1..i)
    BY <1>1 DEF StackBuilt
  <2> QED
    BY <1>1, <2>1
<1>3. Lesser(Lines[i], Len(s) - 1) = L /\ L \in Nat /\ L + 1 \in 1..Len(s)
  <2>1. CASE i = 1
    <3>1. L = 0 /\ Len(s) = 1 /\ Len(s) - 1 = 0
      BY <1>1, <1>2, <2>1
    <3>2. Lesser(Lines[i], 0) = 0
      BY <1>1 DEF Lesser
    <3> HIDE DEF L
    <3> QED
      BY <3>1, <3>2
  <2>2. CASE i # 1
    <3> DEFINE c == Level[i - 1]
    <3>1. c \in Nat /\ L = Lesser(Lines[i], c + 1) /\ Len(s) = c + 2
      BY <1>1, <1>2, <2>2
    <3> HIDE DEF L, c
    <3>2. Len(s) - 1 = c + 1
      BY <3>1
    <3> QED
      BY <1>1, <3>1, <3>2 DEF Lesser
  <2> QED
    BY <2>1, <2>2
<1>4. L \in Nat /\ L + 1 \in 1..Len(s)
  BY <1>3
<1>5. CASE L = 0
  <2>1. LineAbove(i) = 0
    BY <1>5, AboveNone
  <2>2. s[L + 1] = job.parent
    BY <1>5 DEF StackBuilt
  <2> QED
    BY <1>3, <1>4, <1>2, <2>1, <2>2 DEF BelowLine
<1>6. CASE L # 0
  <2>1. L + 1 \in 2..Len(s) /\ (L + 1) - 2 = L - 1
    <3> HIDE DEF L
    <3> QED
      BY <1>2, <1>4, <1>6
  <2>2. PICK j \in 1..(i - 1) : Level[j] = L - 1 /\ s[L + 1] \in Of(j) /\ \A m \in (j + 1)..(i - 1) : Level[m] > L - 1
    <3> DEFINE k == L + 1
    <3>1. k \in 2..Len(s) /\ k - 2 = L - 1
      BY <2>1
    <3> HIDE DEF k
    <3>2. \E j \in 1..(i - 1) :
            Level[j] = k - 2 /\ s[k] \in Of(j) /\ \A m \in (j + 1)..(i - 1) : Level[m] > k - 2
      BY <3>1 DEF StackBuilt
    <3> QED
      BY <3>1, <3>2 DEF k
  <2>3. LineAbove(i) = j /\ j # 0
    BY <2>2, AboveIs
  <2> QED
    BY <1>3, <1>4, <1>2, <2>2, <2>3 DEF BelowLine
<1> QED
  BY <1>5, <1>6

\* After a line was answered, the stack ends with it.
LEMMA StackGoesOn ==
  ASSUME job \in Jobs, job.kind = "insert", NEW s, NEW i \in 1..Len(Lines), StackBuilt(s, i),
         job' = job, Nodes \subseteq Nodes', \A j : Of(j) \subseteq Of(j)',
         NEW id \in Nodes', id \in Of(i)',
         run'.stack = Append(SubSeq(s, 1, Level[i] + 1), id), run'.i = i + 1
  PROVE  StackBuilt(run.stack, run.i)'
<1> DEFINE L == Level[i]
           b == SubSeq(s, 1, L + 1)
           t == Append(b, id)
<1>1. L \in Nat /\ L + 1 \in 1..Len(s) /\ Len(s) \in Nat /\ i \in Nat
  BY InsertSpot, LinesTyped
<1>2. s \in Seq(Nodes' \cup {Top})
  <2>1. s \in Seq(Nodes \cup {Top})
    BY DEF StackBuilt
  <2> QED
    BY <2>1, SeqWidens
<1> HIDE DEF L
<1>3. b \in Seq(Nodes' \cup {Top}) /\ Len(b) = L + 1 /\ \A k \in 1..(L + 1) : b[k] = s[k]
  <2>1. 1 \in 1..(Len(s) + 1) /\ L + 1 \in 0..Len(s) /\ L + 1 >= 1 - 1
    BY <1>1
  <2>2. /\ b \in Seq(Nodes' \cup {Top}) /\ Len(b) = (L + 1) - 1 + 1
        /\ \A k \in 1..((L + 1) - 1 + 1) : b[k] = s[1 + k - 1]
    BY <1>2, <2>1, Piece
  <2> QED
    BY <1>1, <2>2
<1> HIDE DEF b
<1>4. /\ t \in Seq(Nodes' \cup {Top}) /\ Len(t) = L + 2 /\ t[L + 2] = id
      /\ \A k \in 1..(L + 1) : t[k] = s[k]
  BY <1>1, <1>3, AppendProperties
<1> HIDE DEF t
<1>5. ASSUME NEW k \in 2..Len(t)
      PROVE  \E j \in 1..i : /\ Level[j] = k - 2 /\ t[k] \in Of(j)'
                              /\ \A m \in (j + 1)..i : Level[m] > k - 2
  <2>1. CASE k = L + 2
    <3>1. t[k] = id /\ k - 2 = L /\ i \in 1..i /\ \A m : m \notin (i + 1)..i
      BY <1>1, <1>4, <2>1
    <3>2. Level[i] = L
      BY DEF L
    <3> QED
      BY <3>1, <3>2
  <2>2. CASE k # L + 2
    <3>1. k \in 2..Len(s) /\ k \in 1..(L + 1) /\ L > k - 2
      BY <1>1, <1>4, <2>2
    <3>2. PICK j \in 1..(i - 1) :
            Level[j] = k - 2 /\ s[k] \in Of(j) /\ \A m \in (j + 1)..(i - 1) : Level[m] > k - 2
      BY <3>1 DEF StackBuilt
    <3>3. \A m \in (j + 1)..i : m \in (j + 1)..(i - 1) \/ m = i
      BY <1>1
    <3>4. t[k] \in Of(j)'
      BY <1>4, <3>1, <3>2
    <3>5. Level[i] = L /\ j \in 1..i
      BY <1>1 DEF L
    <3>6. \A m \in (j + 1)..i : Level[m] > k - 2
      BY <3>1, <3>2, <3>3, <3>5
    <3> QED
      BY <3>2, <3>4, <3>5, <3>6
  <2> QED
    BY <2>1, <2>2
<1>6. Level' = Level
  BY LevelsStay
<1>7. t[1] = job.parent
  BY <1>1, <1>4 DEF StackBuilt
<1>8. run'.stack = t /\ run'.i = i + 1 /\ (i + 1) - 1 = i /\ i + 1 # 1
  BY <1>1 DEF t, b, L
<1>9. \A k \in 2..Len(t) : \E j \in 1..((i + 1) - 1) :
        /\ Level'[j] = k - 2 /\ t[k] \in Of(j)'
        /\ \A m \in (j + 1)..((i + 1) - 1) : Level'[m] > k - 2
  BY <1>5, <1>6, <1>8
<1> QED
  BY <1>4, <1>6, <1>7, <1>8, <1>9 DEF StackBuilt, L

\* What a line leaves where it was written.
LEMMA InsertLineMade ==
  ASSUME InsertInv, job.kind = "insert", run.pc = "loop", job' = job,
         NEW i, i = run.i,
         NEW parent, BelowLine(i, parent), NEW n \in Nat, NEW ok \in BOOLEAN, ok => n > 0,
         MadeGrows(i, n, ok), KidsGrow(parent, n), n > 0 => InTurn(parent),
         run'.count = IF ok THEN i ELSE run.count, run'.pc = "done" \/ ok
  PROVE  LinesInTurn' /\ KidsInTurn' /\ LinesPlaced'
<1>1. /\ Shape /\ Progress /\ LinesInTurn /\ KidsInTurn /\ LinesPlaced /\ job \in Jobs
  BY DEF InsertInv
<1>2. /\ i \in 1..Len(Lines) /\ i = run.count + 1 /\ run.count \in Nat /\ Len(Lines) \in Nat /\ i \in Nat
  BY <1>1, LinesTyped DEF Progress
<1>3. Lines' = Lines
  BY DEF Lines
<1>4. /\ New = 1..Len(made) /\ Len(made) \in Nat /\ New' = 1..(Len(made) + n)
      /\ \A x \in New : made'[x] = made[x]
      /\ \A x \in New' \ New : made'[x].from = i /\ (made'[x].told <=> ok /\ x = Len(made) + n)
  BY DEF MadeGrows
<1>5. /\ New \subseteq New' /\ Nodes \subseteq Nodes' /\ \A j : Of(j) \subseteq Of(j)'
      /\ ok => Of(i)' # {}
      /\ \A x \in Told' : x \in Told \/ (ok /\ n > 0 /\ x = Len(made) + n /\ made'[x].from = i)
  <2>1. i \in Froms
    BY <1>2 DEF Froms
  <2>2. /\ New \subseteq New' /\ Nodes \subseteq Nodes' /\ \A j : Of(j) \subseteq Of(j)'
        /\ ok /\ n > 0 => Len(made) + n \in Of(i)'
        /\ \A x \in Told' : x \in Told \/ (ok /\ n > 0 /\ x = Len(made) + n /\ made'[x].from = i)
    BY <1>1, <2>1, OfGrows
  <2> QED
    BY <2>2
<1>6. LinesInTurn'
  <2>1. ASSUME NEW x \in New'
        PROVE  /\ made'[x].from \in 1..Len(Lines) /\ made'[x].from <= run'.count + 1
               /\ made'[x].told \/ run'.pc # "done" => made'[x].from <= run'.count
    <3>1. CASE x \in New
      <4>1. made'[x] = made[x] /\ made[x].from \in 1..Len(Lines) /\ made[x].from <= run.count
        BY <1>1, <1>4, <3>1 DEF LinesInTurn
      <4>2. run'.count \in Nat /\ run.count <= run'.count
        BY <1>2
      <4>3. made'[x].from <= run'.count /\ made'[x].from <= run'.count + 1
        BY <1>2, <4>1, <4>2
      <4> QED
        BY <4>1, <4>3
    <3>2. CASE x \notin New
      <4>1. made'[x].from = i /\ (made'[x].told => ok)
        BY <1>4, <3>2
      <4> QED
        BY <1>2, <4>1
    <3> QED
      BY <3>1, <3>2
  <2>2. ASSUME NEW x \in New', NEW y \in New', x < y
        PROVE  made'[x].from <= made'[y].from /\ (made'[x].told => made'[x].from < made'[y].from)
    <3>1. CASE y \in New
      <4>1. x \in New
        BY <1>4, <2>2, <3>1
      <4> QED
        BY <1>1, <1>4, <2>2, <3>1, <4>1 DEF LinesInTurn
    <3>2. CASE y \notin New
      <4>1. made'[y].from = i
        BY <1>4, <3>2
      <4>2. CASE x \in New
        <5>1. made'[x] = made[x] /\ made[x].from \in 1..Len(Lines) /\ made[x].from <= run.count
          BY <1>1, <1>4, <4>2 DEF LinesInTurn
        <5> QED
          BY <1>2, <4>1, <5>1
      <4>3. CASE x \notin New
        <5>1. made'[x].from = i /\ (made'[x].told => x = Len(made) + n)
          BY <1>4, <4>3
        <5>2. x # Len(made) + n
          BY <1>4, <2>2
        <5> QED
          BY <1>2, <4>1, <5>1, <5>2
      <4> QED
        BY <4>2, <4>3
    <3> QED
      BY <3>1, <3>2
  <2>3. ASSUME NEW j \in 1..run'.count PROVE Of(j)' # {}
    <3>1. j \in 1..run.count \/ (ok /\ j = i)
      BY <1>2
    <3>2. j \in 1..run.count => Of(j) # {}
      BY <1>1 DEF LinesInTurn
    <3>3. ok /\ j = i => Of(j)' # {}
      BY <1>5
    <3> QED
      BY <1>5, <3>1, <3>2, <3>3
  <2> QED
    BY <1>3, <2>1, <2>2, <2>3 DEF LinesInTurn
<1>7. /\ \A p \in (Nodes \cup {Top}) \ {parent} : kids'[p] = kids[p]
      /\ \A x \in New' \ New : kids'[x] = <<>>
      /\ n > 0 => parent \in Nodes \cup {Top} /\ ToSet(kids'[parent]) = ToSet(kids[parent]) \cup (New' \ New)
      /\ n = 0 => kids' = kids
      /\ Nodes' = Nodes \cup (New' \ New)
      /\ \A p \in Nodes \cup {Top} : kids[p] \in Seq(Nodes)
  BY <1>1, <1>5 DEF KidsGrow, Nodes, Shape
<1>8. \A x, y : ~Ahead(<<>>, x, y)
  BY DEF Ahead
<1>9. KidsInTurn'
  <2> SUFFICES ASSUME NEW p \in Nodes' \cup {Top}, NEW x \in New', NEW y \in New',
                      Ahead(kids'[p], x, y)
               PROVE  x < y
    BY DEF KidsInTurn
  <2>1. p \in Nodes \cup {Top}
    BY <1>7, <1>8
  <2>2. Ahead(kids[p], x, y) \/ x < y
    BY <1>7, <2>1 DEF InTurn
  <2>3. ASSUME Ahead(kids[p], x, y) PROVE x \in New /\ y \in New
    <3>1. x \in ToSet(kids[p]) /\ y \in ToSet(kids[p]) /\ ToSet(kids[p]) \subseteq Nodes
      <4> DEFINE s == kids[p]
      <4>1. s \in Seq(Nodes) /\ Ahead(s, x, y)
        BY <1>7, <2>1, <2>3
      <4> HIDE DEF s
      <4>2. x \in ToSet(s) /\ y \in ToSet(s) /\ ToSet(s) \subseteq Nodes
        BY <4>1, AheadHas, InRange
      <4> QED
        BY <4>2 DEF s
    <3>2. x \in Nat /\ y \in Nat
      BY <1>4
    <3> QED
      BY <3>1, <3>2, NodeAssumption DEF Nodes
  <2> QED
    BY <1>1, <2>1, <2>2, <2>3 DEF KidsInTurn
<1>10. LinesPlaced'
  <2> SUFFICES ASSUME NEW j \in 1..Len(Lines), NEW p \in Nodes' \cup {Top}, NEW x \in Of(j)',
                      x \in ToSet(kids'[p])
               PROVE  BelowLine(j, p)'
    BY <1>3 DEF LinesPlaced
  <2>1. p \in Nodes \cup {Top}
    <3>1. ToSet(<<>>) = {}
      BY RangeEmpty
    <3> QED
      BY <1>7, <3>1
  <2>2. x \in Told' /\ made'[x].from = j
    BY DEF Of
  <2>3. CASE x \in Told
    <3>1. x \in New /\ x \in Of(j)
      BY <1>4, <2>2, <2>3 DEF Of, Told
    <3>2. x \in ToSet(kids[p])
      BY <1>7, <2>1, <3>1
    <3>3. BelowLine(j, p)
      BY <1>1, <2>1, <3>1, <3>2 DEF LinesPlaced
    <3> QED
      BY <1>5, <3>3, BelowStays
  <2>4. CASE x \notin Told
    <3>1. n > 0 /\ j = i /\ x \in New' /\ x \notin New
      <4>1. n > 0 /\ made'[x].from = i /\ x = Len(made) + n
        BY <1>5, <2>2, <2>4
      <4> QED
        BY <1>4, <2>2, <4>1
    <3>2. p = parent
      <4> SUFFICES ASSUME p # parent PROVE FALSE
        OBVIOUS
      <4> DEFINE s == kids[p]
      <4>1. s \in Seq(Nodes) /\ x \in ToSet(s)
        BY <1>7, <2>1
      <4> HIDE DEF s
      <4>2. x \in Nodes
        BY <4>1, InRange
      <4> QED
        BY <1>4, <3>1, <4>2, NodeAssumption DEF Nodes
    <3>3. BelowLine(j, p)
      BY <3>1, <3>2
    <3> QED
      BY <1>5, <3>3, BelowStays
  <2> QED
    BY <2>3, <2>4
<1> QED
  BY <1>6, <1>9, <1>10

LEMMA InsertLineStep ==
  ASSUME InsertInv, job.kind = "insert", NEW lost \in 0..1, NEW ok \in BOOLEAN, InsertLine(lost, ok)
  PROVE  InsertInv'
<1> DEFINE n == Landed(lost, ok)
           at == Lesser(job.lines[run.i], Len(run.stack) - 1)
           who == Created(lost, ok)
           r == [run EXCEPT !.i = @ + 1, !.count = @ + 1, !.last = who,
                            !.stack = StackWith(at + 1, who)]
           e == [run EXCEPT !.stopped = run.i]
<1>1. /\ Locals(run) /\ Shape /\ Progress /\ LinesInTurn /\ KidsInTurn /\ LinesPlaced
      /\ job \in Jobs /\ run.pc = "loop" /\ StackBuilt(run.stack, run.i)
  BY DEF InsertInv, InsertLine, Is
<1>2. job' = job
  BY DEF InsertLine, context
<1>3. Create(run.stack[at + 1], run.i, Ranked, lost, ok)
  BY Zenon DEF InsertLine
<1>4. /\ ok => (run.i = Len(job.lines) /\ Return(r, "complete")) \/ (run.i # Len(job.lines) /\ run' = r)
      /\ ~ok => \E v : Return(e, v)
  <2>1. ok => (run.i = Len(job.lines) /\ Return(r, "complete")) \/ (run.i # Len(job.lines) /\ run' = r)
    BY Zenon DEF InsertLine
  <2>2. ~ok => \E v : Return(e, v)
    BY Zenon DEF InsertLine
  <2> QED
    BY <2>1, <2>2
<1>5. PICK i, s : i = run.i /\ s = run.stack
  OBVIOUS
<1>6. /\ i \in 1..Len(Lines) /\ i = run.count + 1 /\ run.count \in Nat /\ Len(Lines) \in Nat
      /\ i \in Nat /\ StackBuilt(s, i)
  BY <1>1, <1>5, LinesTyped DEF Progress
<1>7. PICK parent : parent = run.stack[at + 1]
  OBVIOUS
<1>8. at = Level[i] /\ BelowLine(i, parent) /\ Level[i] \in Nat
  <2>1. /\ Lesser(Lines[i], Len(s) - 1) = Level[i] /\ Level[i] \in Nat
        /\ BelowLine(i, s[Level[i] + 1])
    BY <1>1, <1>6, InsertSpot
  <2>2. at = Level[i]
    BY <1>5, <2>1 DEF Lines
  <2> HIDE DEF at
  <2> QED
    BY <1>5, <1>7, <2>1, <2>2
<1>9. who = IF ok THEN Len(made) + n ELSE NoNode
  BY DEF Created
<1>10. r.stack = Append(SubSeq(run.stack, 1, Level[i] + 1), who) /\ Locals(r) /\ r.i = run.i + 1 /\ r.count = run.count + 1
       /\ r.pc = run.pc /\ Locals(e) /\ e.count = run.count
  <2>1. r.stack = StackWith(at + 1, who) /\ Locals(r) /\ r.i = run.i + 1 /\ r.count = run.count + 1 /\ r.pc = run.pc
    BY <1>1 DEF Locals
  <2>2. Locals(e) /\ e.count = run.count
    BY <1>1 DEF Locals
  <2> QED
    BY <1>8, <2>1, <2>2 DEF StackWith
<1> HIDE DEF r, e, at, who, n
<1>11. /\ n \in Nat /\ (ok => n > 0) /\ MadeGrows(i, n, ok) /\ KidsGrow(parent, n)
       /\ (n > 0 => InTurn(parent)) /\ Shape'
  <2>1. i \in Froms /\ Create(parent, i, Ranked, lost, ok) /\ Ranked
    BY <1>3, <1>5, <1>6, <1>7 DEF Froms, Ranked
  <2>2. /\ n \in Nat /\ (ok => n > 0) /\ MadeGrows(i, n, ok) /\ KidsGrow(parent, n)
        /\ (n > 0 => InTurn(parent))
    BY <1>1, <2>1, CreateGrows DEF n
  <2>3. Shape'
    BY <1>1, <2>1, CreateShape
  <2> QED
    BY <2>2, <2>3
<1>12. /\ Locals(run') /\ run'.count = (IF ok THEN i ELSE run.count) /\ (run'.pc = "done" \/ ok)
       /\ run'.pc \in {"loop", "done"}
       /\ run'.pc = "loop" => ok /\ run'.stack = r.stack /\ run'.i = i + 1 /\ i # Len(Lines)
  <2>1. CASE ok
    <3>1. CASE run.i = Len(job.lines) /\ Return(r, "complete")
      <4>1. Locals(run') /\ run'.pc = "done" /\ run'.count = r.count
        BY <1>10, <3>1, Returned
      <4> QED
        BY <1>5, <1>6, <1>10, <2>1, <4>1
    <3>2. CASE run.i # Len(job.lines) /\ run' = r
      <4>1. i # Len(Lines)
        BY <1>5, <3>2 DEF Lines
      <4> QED
        BY <1>1, <1>5, <1>6, <1>10, <2>1, <3>2, <4>1
    <3> QED
      BY <1>4, <2>1, <3>1, <3>2
  <2>2. CASE ~ok
    <3>1. PICK v : Return(e, v)
      BY <1>4, <2>2
    <3>2. Locals(run') /\ run'.pc = "done" /\ run'.count = e.count
      BY <1>10, <3>1, Returned
    <3> QED
      BY <1>10, <2>2, <3>2
  <2> QED
    BY <2>1, <2>2
<1>13. LinesInTurn' /\ KidsInTurn' /\ LinesPlaced'
  BY <1>1, <1>2, <1>5, <1>8, <1>11, <1>12, InsertLineMade
<1>14. Progress'
  <2>1. Lines' = Lines
    BY <1>2 DEF Lines
  <2>2. run'.count \in 0..Len(Lines) /\ (run'.pc = "loop" => run'.i = run'.count + 1 /\ run'.i \in 1..Len(Lines))
    BY <1>6, <1>12
  <2> QED
    BY <1>12, <2>1, <2>2 DEF Progress
<1>15. ASSUME run'.pc = "loop" PROVE StackBuilt(run.stack, run.i)'
  <2>1. ok /\ run'.stack = r.stack /\ run'.i = i + 1
    BY <1>12, <1>15
  <2>2. PICK id : id = Len(made) + n
    OBVIOUS
  <2>3. Nodes \subseteq Nodes' /\ (\A j : Of(j) \subseteq Of(j)') /\ id \in Of(i)'
    <3>1. i \in Froms /\ n > 0
      BY <1>6, <1>11, <2>1 DEF Froms
    <3> QED
      BY <1>1, <1>11, <2>1, <2>2, <3>1, OfGrows
  <2>4. id \in Nodes'
    BY <2>3 DEF Of, Told, Nodes
  <2>5. run'.stack = Append(SubSeq(s, 1, Level[i] + 1), id)
    BY <1>5, <1>9, <1>10, <2>1, <2>2
  <2> QED
    BY <1>1, <1>2, <1>6, <2>1, <2>3, <2>4, <2>5, StackGoesOn
<1> QED
  BY <1>1, <1>2, <1>11, <1>12, <1>13, <1>14, <1>15 DEF InsertInv

LEMMA InsertStep == InsertInv /\ [Next]_vars => InsertInv'
<1> SUFFICES ASSUME InsertInv, [Next]_vars PROVE InsertInv'
  OBVIOUS
<1>1. job' = job
  BY JobStays
<1>2. CASE job.kind # "insert"
  BY <1>1, <1>2 DEF InsertInv
<1>3. CASE job.kind = "insert" /\ InsertSteps
  BY <1>3, InsertStartStep, InsertStopsStep, InsertLineStep DEF InsertSteps
<1>4. CASE job.kind = "insert" /\ OtherClient
  <2>1. Thins({Foreign}) /\ Shape' /\ UNCHANGED <<job, made, run>>
    BY <1>4, OtherThins DEF InsertInv
  <2>2. Locals(run')
    BY <1>4, <2>1 DEF InsertInv
  <2> QED
    BY <1>4, <2>1, <2>2, InsertRests
<1>5. CASE job.kind = "insert" /\ (Stop \/ UNCHANGED vars)
  <2>1. UNCHANGED <<job, kids, labels, made, run>>
    BY <1>5 DEF Stop, vars, outline
  <2>2. Shape /\ Locals(run)
    BY <1>5 DEF InsertInv
  <2>3. Shape' /\ Thins({Foreign}) /\ Locals(run')
    BY <2>1, <2>2 DEF Shape, Nodes, New, Thins
  <2> QED
    BY <1>5, <2>1, <2>3, InsertRests
<1> QED
  BY <1>2, <1>3, <1>4, <1>5, Steps

\* insert_content: at any moment the lines that were answered are the first ones
\* of the payload, each once, in its place (unless the other client removed it),
\* and siblings are displayed in the payload's order, whatever else landed.
THEOREM InsertAlwaysBuildsPayload == Spec => []InsertBuildsPayload
<1>1. InsertInv => InsertBuildsPayload
  <2> SUFFICES ASSUME InsertInv, job.kind = "insert" PROVE InsertBuildsPayload
    BY DEF InsertBuildsPayload
  <2>1. Shape /\ Progress /\ LinesInTurn /\ KidsInTurn /\ LinesPlaced /\ job \in Jobs
    BY DEF InsertInv
  <2>2. run.count \in Nat /\ DOMAIN job.lines = 1..Len(Lines) /\ New = 1..Len(made) /\ Len(made) \in Nat
        /\ DOMAIN kids = Nodes \cup {Top} /\ Len(Lines) \in Nat
    BY <2>1, LinesTyped, LenProperties DEF Progress, Lines, New, Shape
  <2>3. ASSUME NEW i \in DOMAIN job.lines
        PROVE  Cardinality(Of(i)) = IF i <= run.count THEN 1 ELSE 0
    <3>1. \A x, y \in Of(i) : x = y
      <4>1. \A x, y \in New : x = y \/ x < y \/ y < x
        BY <2>2
      <4>2. \A x, y \in New : x < y /\ made[x].told => made[x].from # made[y].from
        BY <2>1 DEF LinesInTurn
      <4> QED
        BY <4>1, <4>2 DEF Of, Told
    <3>2. CASE i <= run.count
      <4>1. Of(i) # {}
        BY <2>1, <2>2, <3>2 DEF LinesInTurn
      <4>2. \E x : Of(i) = {x}
        BY <3>1, <4>1
      <4> QED
        BY <3>2, <4>2, FS_Singleton
    <3>3. CASE ~(i <= run.count)
      <4>1. Of(i) = {}
        BY <2>1, <3>3 DEF LinesInTurn, Of, Told
      <4> QED
        BY <3>3, <4>1, FS_EmptySet
    <3> QED
      BY <3>2, <3>3
  <2>4. ASSUME NEW x \in Told
        PROVE  Parents(x) \subseteq IF LineAbove(made[x].from) = 0 THEN {job.parent}
                                    ELSE Of(LineAbove(made[x].from))
    <3> SUFFICES ASSUME NEW p \in DOMAIN kids, x \in Range(kids[p])
                 PROVE  p \in IF LineAbove(made[x].from) = 0 THEN {job.parent}
                              ELSE Of(LineAbove(made[x].from))
      BY DEF Parents
    <3>1. x \in ToSet(kids[p]) /\ x \in Of(made[x].from) /\ made[x].from \in 1..Len(Lines)
      BY <2>1 DEF Range, ToSet, Of, Told, LinesInTurn
    <3>2. BelowLine(made[x].from, p)
      BY <2>1, <2>2, <3>1 DEF LinesPlaced
    <3> QED
      BY <3>2 DEF BelowLine
  <2>5. ASSUME NEW x \in Told, NEW y \in Told, Precedes(x, y)
        PROVE  made[x].from < made[y].from
    <3>1. PICK p \in DOMAIN kids : Ahead(kids[p], x, y)
      BY <2>5 DEF Precedes, Ahead
    <3>2. x < y
      BY <2>1, <2>2, <3>1 DEF KidsInTurn, Told
    <3> QED
      BY <2>1, <3>2 DEF LinesInTurn, Told
  <2> QED
    BY <2>3, <2>4, <2>5, Zenon DEF InsertBuildsPayload
<1> QED
  BY <1>1, InsertInit, InsertStep, PTL DEF Spec

-----------------------------------------------------------------------------
(* deep_copy_subtree: what was seen, and what was copied of it.            *)

\* The outline before the workflow wrote anything: what there was, with the node
\* of the other client here or there.
Forest ==
  /\ made = <<>> /\ ToSet(kids[Foreign]) = {}
  /\ \A p \in Nodes \cup {Top} : Distinct(kids[p]) /\ ToSet(kids[p]) \subseteq ToSet(Kids0[p]) \cup {Foreign}
  /\ \A p, q \in Nodes \cup {Top} : Foreign \in ToSet(kids[p]) \cap ToSet(kids[q]) => p = q

\* What a walk saw is the subtree of the source: a tree, and nothing else.
SeenTree(D, seen) ==
  /\ job.source \in D /\ D \subseteq Froms
  /\ \A p \in D : seen[p] \in Seq(D) /\ Distinct(seen[p]) /\ job.source \notin ToSet(seen[p])
  /\ \A p, q \in D : \A m \in ToSet(seen[p]) \cap ToSet(seen[q]) : p = q
  /\ job.whole => \A S \in SUBSET D :
       job.source \in S /\ (\A m \in S : ToSet(seen[m]) \subseteq S) => S = D

\* C: what has a copy. queue: what comes next, below what has one.
Frontier(C, queue, seen) ==
  /\ C \subseteq DOMAIN seen /\ queue \in Seq(DOMAIN seen) /\ Distinct(queue)
  /\ ToSet(queue) \cap C = {} /\ job.source \notin ToSet(queue)
  /\ queue # <<>> => job.source \in C
  /\ \A m \in C \cup ToSet(queue) : m = job.source \/ \E p \in C : m \in ToSet(seen[p])
  /\ \A p \in C : ToSet(seen[p]) \subseteq C \cup ToSet(queue)

\* The copies are what was answered, each where it belongs.
CopiesMade(copyOf) ==
  /\ \A c \in DOMAIN copyOf : copyOf[c] \in Told /\ made[copyOf[c]].from = c
  /\ \A x \in Told : made[x].from \in DOMAIN copyOf /\ copyOf[made[x].from] = x
CopiesPlaced(copyOf, seen) ==
  \A c \in DOMAIN copyOf, p \in Nodes \cup {Top} : copyOf[c] \in ToSet(kids[p]) =>
    IF c = job.source THEN p = job.target
    ELSE \E q \in DOMAIN copyOf : c \in ToSet(seen[q]) /\ p = copyOf[q]

CopyHolds(seen, queue, copyOf) ==
  /\ SeenTree(DOMAIN seen, seen) /\ Frontier(DOMAIN copyOf, queue, seen)
  /\ CopiesMade(copyOf) /\ CopiesPlaced(copyOf, seen)

CopyInv ==
  /\ job \in Jobs
  /\ job.kind = "copy" =>
       /\ Locals(run) /\ Shape /\ run.pc \in {"start", "root", "loop", "done"}
       /\ run.pc = "start" => Forest
       /\ run.pc \in {"start", "root"} =>
            DOMAIN run.copyOf = {} /\ run.queue = <<>> /\ Told = {}
       /\ run.pc = "loop" => run.queue # <<>>
       /\ run.pc = "start" <=> run.pc # "done" /\ DOMAIN run.seen = {}
       /\ DOMAIN run.seen = {} => Told = {}
       /\ DOMAIN run.seen # {} => CopyHolds(run.seen, run.queue, run.copyOf)
       /\ run.pc # "done" => run.verdict = "none"
       /\ run.verdict = "complete" =>
            run.queue = <<>> /\ job.source \in DOMAIN run.copyOf /\ DOMAIN run.seen # {}

LEMMA CopyTyped ==
  ASSUME job \in Jobs, job.kind = "copy"
  PROVE  job.source \in Old /\ job.target \in Old \cup {Top} /\ job.whole \in BOOLEAN
BY JobAssumption

\* What is below a node without the other client's is below it from the start.
LEMMA WalkSees ==
  ASSUME job \in Jobs, job.kind = "copy", Shape, Forest, NEW seen,
         seen = [n \in Under(job.source) |-> IF job.whole THEN kids[n] ELSE <<>>]
  PROVE  SeenTree(DOMAIN seen, seen) /\ DOMAIN seen # {}
<1> DEFINE D == Under(job.source)
           N == Nodes \cup {Top}
           E0 == [m \in DOMAIN Kids0 |-> Range(Kids0[m])]
           D0 == Old \cup {Top, Foreign}
<1> PICK source : source = job.source
  OBVIOUS
<1>1. source \in Old /\ source # Foreign /\ DOMAIN seen = D
  BY CopyTyped, NodeAssumption
<1>2. /\ DOMAIN Edges = N /\ IsFiniteSet(N)
      /\ \A m \in N : Edges[m] = ToSet(kids[m]) /\ Edges[m] \subseteq Nodes
      /\ \A m \in N : kids[m] \in Seq(Nodes)
  BY EdgesTyped DEF Shape
<1>3. D = Reached(Edges, {source})
  BY DEF Under, Edges
<1>4. N = D0 /\ New = {}
  BY DEF Nodes, New, Forest
<1>5. /\ source \in D /\ D \subseteq N /\ \A m \in D : Edges[m] \subseteq D
      /\ \A S : source \in S /\ (\A m \in S \cap N : Edges[m] \subseteq S) => D \subseteq S
  <2>1. {source} \in SUBSET N /\ \A m \in N : Edges[m] \subseteq N
    BY <1>1, <1>2, <1>4
  <2>2. /\ {source} \subseteq Reached(Edges, {source}) /\ Reached(Edges, {source}) \subseteq N
        /\ \A m \in Reached(Edges, {source}) : Edges[m] \subseteq Reached(Edges, {source})
    <3> HIDE DEF N
    <3>1. DOMAIN Edges = N /\ IsFiniteSet(N)
      BY <1>2
    <3> QED
      BY <2>1, <3>1, ReachedClosed
  <2>3. ASSUME NEW S, source \in S, \A m \in S \cap N : Edges[m] \subseteq S PROVE D \subseteq S
    <3>1. {source} \subseteq S
      BY <2>3
    <3> QED
      BY <1>2, <1>3, <2>1, <2>3, <3>1, ReachedLeast
  <2> HIDE DEF D
  <2> QED
    BY <1>3, <2>2, <2>3
<1> HIDE DEF D
<1>6. D \subseteq Nodes
  BY <1>1, <1>2, <1>5 DEF Nodes
<1>7. D \subseteq Froms
  BY <1>4, <1>6 DEF Nodes, Froms
<1>8. /\ DOMAIN E0 = D0 /\ \A m \in D0 : E0[m] = ToSet(Kids0[m]) /\ E0[m] \subseteq D0
      /\ Kids0[Foreign] = <<>> /\ ToSet(Kids0[Foreign]) = {}
  <2>1. DOMAIN Kids0 = D0 /\ \A m \in D0 : Kids0[m] \in Seq(Old)
    BY TreeAssumption
  <2>2. \A m \in D0 : ToSet(Kids0[m]) \subseteq Old
    BY <2>1, InRange
  <2>3. \A m \in D0 : E0[m] = ToSet(Kids0[m])
    BY <2>1 DEF Range, ToSet
  <2> QED
    BY <2>1, <2>2, <2>3, TreeAssumption, RangeEmpty
<1>9. ASSUME NEW p \in D PROVE source \notin ToSet(kids[p])
  <2> SUFFICES ASSUME source \in ToSet(kids[p]) PROVE FALSE
    OBVIOUS
  <2> DEFINE U0 == Reached(E0, {source})
  <2>1. {source} \subseteq U0 /\ \A m \in U0 : E0[m] \subseteq U0 /\ m \in D0
    <3>1. {source} \in SUBSET D0 /\ \A m \in D0 : E0[m] \subseteq D0
      BY <1>1, <1>8
    <3>2. IsFiniteSet(D0) /\ DOMAIN E0 = D0
      BY <1>2, <1>4, <1>8
    <3> HIDE DEF E0, D0
    <3>3. {source} \subseteq U0 /\ U0 \subseteq D0 /\ \A m \in U0 : E0[m] \subseteq U0
      BY <3>1, <3>2, ReachedClosed
    <3> QED
      BY <3>3
  <2> HIDE DEF U0
  <2>2. \A m \in (U0 \cup {Foreign}) \cap N : Edges[m] \subseteq U0 \cup {Foreign}
    <3> HIDE DEF E0
    <3>1. \A m \in N : Edges[m] \subseteq ToSet(Kids0[m]) \cup {Foreign}
      BY <1>2, <1>4 DEF Forest
    <3>2. Edges[Foreign] = {}
      BY <1>2, <1>4, <1>8 DEF Forest
    <3>3. \A m \in U0 : ToSet(Kids0[m]) \subseteq U0
      BY <1>8, <2>1
    <3> HIDE DEF N
    <3> QED
      BY <3>1, <3>2, <3>3
  <2>3. p \in U0 \cup {Foreign}
    BY <1>5, <2>1, <2>2
  <2>4. source \in ToSet(Kids0[p]) /\ p \in D0
    BY <1>1, <1>4, <1>5 DEF Forest
  <2>5. p \in U0
    BY <1>8, <2>3, <2>4
  <2>6. source \in Range(Kids0[p]) /\ p \in DOMAIN Kids0
    BY <1>8, <2>4 DEF Range, ToSet
  <2> QED
    BY <2>5, <2>6, TreeAssumption DEF U0
<1>10. ASSUME NEW p \in D, NEW q \in D, NEW m \in ToSet(kids[p]) \cap ToSet(kids[q]) PROVE p = q
  <2>1. CASE m = Foreign
    BY <1>5, <2>1 DEF Forest
  <2>2. CASE m # Foreign
    <3>1. p \in D0 /\ q \in D0 /\ m \in ToSet(Kids0[p]) /\ m \in ToSet(Kids0[q])
      BY <1>4, <1>5, <2>2 DEF Forest
    <3>2. PICK i \in DOMAIN Kids0[p], j \in DOMAIN Kids0[q] : Kids0[p][i] = m /\ Kids0[q][j] = m
      BY <3>1 DEF ToSet
    <3> QED
      BY <3>1, <3>2, TreeAssumption
  <2> QED
    BY <2>1, <2>2
<1>11. CASE job.whole
  <2>1. \A p \in D : seen[p] = kids[p]
    BY <1>1, <1>11 DEF D
  <2>2. ASSUME NEW p \in D PROVE seen[p] \in Seq(D)
    <3> DEFINE s == kids[p]
    <3>1. s \in Seq(Nodes) /\ ToSet(s) \subseteq D
      BY <1>2, <1>5
    <3>2. s \in Seq(D)
      <4> HIDE DEF s
      <4>1. Len(s) \in Nat /\ s = [i \in 1..Len(s) |-> s[i]] /\ \A i \in 1..Len(s) : s[i] \in D
        BY <3>1, LenProperties, InRange
      <4> QED
        BY <4>1
    <3> QED
      BY <2>1, <3>2
  <2>3. \A p \in D : Distinct(seen[p]) /\ source \notin ToSet(seen[p])
    BY <1>5, <1>9, <2>1 DEF Forest
  <2>4. \A p, q \in D : \A m \in ToSet(seen[p]) \cap ToSet(seen[q]) : p = q
    BY <1>10, <2>1
  <2>5. ASSUME NEW S \in SUBSET D, source \in S, \A m \in S : ToSet(seen[m]) \subseteq S PROVE S = D
    <3>1. \A m \in S \cap N : Edges[m] \subseteq S
      BY <1>2, <2>1, <2>5
    <3> QED
      BY <1>5, <2>5, <3>1
  <2>6. \A S \in SUBSET D : source \in S /\ (\A m \in S : ToSet(seen[m]) \subseteq S) => S = D
    BY <2>5
  <2>7. SeenTree(D, seen)
    BY <1>5, <1>7, <2>2, <2>3, <2>4, <2>6, Zenon DEF SeenTree
  <2> QED
    BY <1>1, <1>5, <2>7
<1>12. CASE ~job.whole
  <2>1. \A p \in D : seen[p] = <<>>
    BY <1>1, <1>12 DEF D
  <2>2. <<>> \in Seq(D) /\ Distinct(<<>>) /\ ToSet(<<>>) = {}
    BY RangeEmpty, EmptySeq DEF Distinct
  <2> QED
    BY <1>1, <1>5, <1>7, <1>12, <2>1, <2>2 DEF SeenTree
<1> QED
  BY <1>11, <1>12

\* The source is copied first.
LEMMA FrontierBegins ==
  ASSUME NEW seen, SeenTree(DOMAIN seen, seen)
  PROVE  Frontier({job.source}, seen[job.source], seen)
BY DEF Frontier, SeenTree

LEMMA FrontierMoves ==
  ASSUME NEW seen, SeenTree(DOMAIN seen, seen), NEW C, NEW queue, Frontier(C, queue, seen),
         queue # <<>>
  PROVE  /\ Head(queue) \in DOMAIN seen /\ Head(queue) \notin C /\ Head(queue) # job.source
         /\ \E p \in C : Head(queue) \in ToSet(seen[p])
         /\ Frontier(C \cup {Head(queue)}, Tail(queue) \o seen[Head(queue)], seen)
<1> DEFINE D == DOMAIN seen
           n == Head(queue)
           t == Tail(queue)
           s == seen[n]
           r == t \o s
           B == C \cup {n}
<1>1. /\ \A p \in D : seen[p] \in Seq(D) /\ Distinct(seen[p]) /\ job.source \notin ToSet(seen[p])
      /\ \A p, q \in D : \A m \in ToSet(seen[p]) \cap ToSet(seen[q]) : p = q
  BY DEF SeenTree
<1>2. /\ C \subseteq D /\ queue \in Seq(D) /\ Distinct(queue)
      /\ ToSet(queue) \cap C = {} /\ job.source \notin ToSet(queue) /\ job.source \in C
      /\ \A m \in C \cup ToSet(queue) : m = job.source \/ \E p \in C : m \in ToSet(seen[p])
      /\ \A p \in C : ToSet(seen[p]) \subseteq C \cup ToSet(queue)
  BY DEF Frontier
<1> HIDE DEF D
<1>3. /\ n \in D /\ t \in Seq(D) /\ ToSet(queue) = {n} \cup ToSet(t) /\ n \notin ToSet(t)
      /\ Distinct(t)
  <2>1. /\ Len(queue) \in Nat \ {0} /\ n = queue[1] /\ n \in D /\ t \in Seq(D)
        /\ Len(t) = Len(queue) - 1 /\ \A i \in 1..Len(t) : t[i] = queue[i + 1]
    BY <1>2, HeadTailProperties, LenProperties, EmptySeq
  <2>2. /\ \A x : x \in ToSet(queue) <=> \E i \in 1..Len(queue) : queue[i] = x
        /\ \A x : x \in ToSet(t) <=> \E i \in 1..Len(t) : t[i] = x
    <3>1. queue \in Seq(D) /\ t \in Seq(D)
      BY <1>2, <2>1
    <3> HIDE DEF t
    <3> QED
      BY <3>1, InRange
  <2> HIDE DEF n, t
  <2>3. \A i \in 1..Len(queue) : i = 1 \/ (i - 1 \in 1..Len(t) /\ (i - 1) + 1 = i)
    BY <2>1
  <2>4. \A i \in 1..Len(t) : i + 1 \in 1..Len(queue) /\ i + 1 # 1
    BY <2>1
  <2>5. \A x : x \in ToSet(queue) <=> x = n \/ x \in ToSet(t)
    <3>1. ASSUME NEW x \in ToSet(queue), x # n PROVE x \in ToSet(t)
      <4>1. PICK i \in 1..Len(queue) : queue[i] = x
        BY <2>2
      <4>2. i - 1 \in 1..Len(t) /\ t[i - 1] = x
        BY <2>1, <2>3, <3>1, <4>1
      <4> QED
        BY <2>2, <4>2
    <3>2. ASSUME NEW x \in ToSet(t) PROVE x \in ToSet(queue)
      <4>1. PICK i \in 1..Len(t) : t[i] = x
        BY <2>2
      <4> QED
        BY <2>1, <2>2, <2>4, <4>1
    <3>3. n \in ToSet(queue)
      BY <2>1, <2>2
    <3> QED
      BY <3>1, <3>2, <3>3
  <2>6. n \notin ToSet(t)
    <3> SUFFICES ASSUME NEW i \in 1..Len(t), t[i] = n PROVE FALSE
      BY <2>2
    <3>1. queue[i + 1] = queue[1] /\ 1 \in 1..Len(queue)
      BY <2>1
    <3> QED
      BY <1>2, <2>4, <3>1 DEF Distinct
  <2>7. Distinct(t)
    <3> SUFFICES ASSUME NEW i \in 1..Len(t), NEW j \in 1..Len(t), t[i] = t[j] PROVE i = j
      BY DEF Distinct
    <3>1. queue[i + 1] = queue[j + 1]
      BY <2>1
    <3>2. i + 1 = j + 1
      BY <1>2, <2>4, <3>1 DEF Distinct
    <3> QED
      BY <3>2
  <2> QED
    BY <2>1, <2>5, <2>6, <2>7
<1> HIDE DEF n, t
<1>4. n \notin C /\ n # job.source /\ \E p \in C : n \in ToSet(seen[p])
  BY <1>2, <1>3
<1>5. \A p \in D : n \in ToSet(seen[p]) => p \in C
  BY <1>1, <1>2, <1>4
<1>6. s \in Seq(D) /\ Distinct(s) /\ job.source \notin ToSet(s) /\ ToSet(s) \subseteq D
  <2>1. s \in Seq(D) /\ Distinct(s) /\ job.source \notin ToSet(s)
    BY <1>1, <1>3
  <2> HIDE DEF s
  <2> QED
    BY <2>1, InRange
<1>7. \A m \in ToSet(s) : m \notin ToSet(t) /\ m \notin C /\ m # n
  BY <1>1, <1>2, <1>3, <1>4, <1>5, <1>6
<1> HIDE DEF s
<1>8. r \in Seq(D) /\ ToSet(r) = ToSet(t) \cup ToSet(s) /\ Distinct(r)
  <2>1. ToSet(t) \cap ToSet(s) = {}
    BY <1>7
  <2> QED
    BY <1>3, <1>6, <2>1, ConcatProperties, RangeConcat, DistinctConcat
<1> HIDE DEF r
<1>9. \A m \in B \cup ToSet(r) : m = job.source \/ \E p \in B : m \in ToSet(seen[p])
  BY <1>2, <1>3, <1>8 DEF s
<1>10. \A p \in B : ToSet(seen[p]) \subseteq B \cup ToSet(r)
  BY <1>2, <1>3, <1>8 DEF s
<1>11. /\ B \subseteq D /\ ToSet(r) \cap B = {} /\ job.source \notin ToSet(r) /\ job.source \in B
  BY <1>2, <1>3, <1>6, <1>7, <1>8
<1>12. Frontier(B, r, seen)
  BY <1>8, <1>9, <1>10, <1>11 DEF Frontier, D
<1> QED
  BY <1>3, <1>4, <1>12 DEF D, n, t, s, r

Extended(copyOf, n, id) == [m \in DOMAIN copyOf \cup {n} |-> IF m = n THEN id ELSE copyOf[m]]

\* One more copy: of a node that has none, below the copy it belongs below.
LEMMA CopyMade ==
  ASSUME job \in Jobs, job.kind = "copy", job' = job, Shape, NEW copyOf, NEW seen,
         CopiesMade(copyOf), CopiesPlaced(copyOf, seen),
         NEW n \in Froms, n \notin DOMAIN copyOf, NEW k \in Nat, NEW ok \in BOOLEAN, ok => k > 0,
         NEW parent, MadeGrows(n, k, ok), KidsGrow(parent, k),
         IF n = job.source THEN parent = job.target
         ELSE \E q \in DOMAIN copyOf : n \in ToSet(seen[q]) /\ parent = copyOf[q],
         NEW id, id = Len(made) + k,
         NEW now, now = IF ok THEN Extended(copyOf, n, id) ELSE copyOf
  PROVE  CopiesMade(now)' /\ CopiesPlaced(now, seen)'
<1>1. /\ New = 1..Len(made) /\ Len(made) \in Nat /\ New' = 1..(Len(made) + k)
      /\ \A x \in New : made'[x] = made[x]
      /\ \A x \in New' \ New : made'[x].from = n /\ (made'[x].told <=> ok /\ x = Len(made) + k)
  BY DEF MadeGrows
<1>2. /\ \A c \in DOMAIN copyOf : copyOf[c] \in Told /\ made[copyOf[c]].from = c
      /\ \A x \in Told : made[x].from \in DOMAIN copyOf /\ copyOf[made[x].from] = x
  BY DEF CopiesMade
<1>3. /\ New \subseteq New' /\ Nodes \subseteq Nodes'
      /\ \A x \in Told : x \in Told' /\ x \in New /\ made'[x] = made[x]
      /\ \A x \in Told' : x \in Told \/ (ok /\ x = id /\ made'[x].from = n)
      /\ ok => id \in New' /\ id \notin New /\ id \in Told' /\ made'[id].from = n
  <2>1. /\ New \subseteq New' /\ Nodes \subseteq Nodes'
        /\ ok /\ k > 0 => id \in Of(n)'
        /\ \A x \in Told' : x \in Told \/ (ok /\ k > 0 /\ x = id /\ made'[x].from = n)
    BY OfGrows
  <2>2. \A x \in Told : x \in Told' /\ x \in New /\ made'[x] = made[x]
    BY <1>1, <2>1 DEF Told
  <2>3. ok => id \in New' /\ id \notin New
    BY <1>1
  <2> QED
    BY <2>1, <2>2, <2>3 DEF Of
<1>4. /\ \A c \in DOMAIN now : c \in DOMAIN copyOf \/ (ok /\ c = n)
      /\ \A c \in DOMAIN copyOf : c \in DOMAIN now /\ now[c] = copyOf[c]
      /\ ok => n \in DOMAIN now /\ now[n] = id
  BY DEF Extended
<1>5. CopiesMade(now)'
  <2>1. ASSUME NEW c \in DOMAIN now PROVE now[c] \in Told' /\ made'[now[c]].from = c
    BY <1>2, <1>3, <1>4
  <2>2. ASSUME NEW x \in Told' PROVE made'[x].from \in DOMAIN now /\ now[made'[x].from] = x
    BY <1>2, <1>3, <1>4
  <2> QED
    BY <2>1, <2>2 DEF CopiesMade
<1>6. /\ \A p \in (Nodes \cup {Top}) \ {parent} : kids'[p] = kids[p]
      /\ \A x \in New' \ New : kids'[x] = <<>>
      /\ k > 0 => parent \in Nodes \cup {Top} /\ ToSet(kids'[parent]) = ToSet(kids[parent]) \cup (New' \ New)
      /\ k = 0 => kids' = kids
      /\ Nodes' = Nodes \cup (New' \ New)
  BY <1>3 DEF KidsGrow, Nodes
<1>7. \A p \in Nodes \cup {Top} : ToSet(kids[p]) \subseteq Nodes
  BY EdgesTyped
<1>8. CopiesPlaced(now, seen)'
  <2> SUFFICES ASSUME NEW c \in DOMAIN now, NEW p \in Nodes' \cup {Top}, now[c] \in ToSet(kids'[p])
               PROVE  IF c = job.source THEN p = job.target
                      ELSE \E q \in DOMAIN now : c \in ToSet(seen[q]) /\ p = now[q]
    BY DEF CopiesPlaced
  <2>1. p \in Nodes \cup {Top}
    BY <1>6, RangeEmpty
  <2>2. CASE c \in DOMAIN copyOf
    <3>1. now[c] = copyOf[c] /\ copyOf[c] \in New
      BY <1>2, <1>3, <1>4, <2>2
    <3>2. copyOf[c] \in ToSet(kids[p])
      BY <1>6, <2>1, <3>1
    <3>3. IF c = job.source THEN p = job.target
          ELSE \E q \in DOMAIN copyOf : c \in ToSet(seen[q]) /\ p = copyOf[q]
      BY <2>1, <2>2, <3>2 DEF CopiesPlaced
    <3> QED
      BY <1>4, <3>3
  <2>3. CASE c \notin DOMAIN copyOf
    <3>1. ok /\ c = n /\ now[c] = id /\ id \in New' \ New
      BY <1>3, <1>4, <2>3
    <3>2. p = parent
      <4>1. id \notin Nodes
        <5>1. id \in Nat
          BY <1>1
        <5> QED
          BY <3>1, <5>1, NodeAssumption DEF Nodes
      <4> QED
        BY <1>6, <1>7, <2>1, <3>1, <4>1
    <3> QED
      BY <1>4, <3>1, <3>2
  <2> QED
    BY <2>2, <2>3
<1> QED
  BY <1>5, <1>8

\* The same about the values the locals have after the step.
LEMMA CopyGoesOn ==
  ASSUME NEW seen, NEW queue, NEW copyOf, job' = job,
         seen = run'.seen, queue = run'.queue, copyOf = run'.copyOf,
         SeenTree(DOMAIN seen, seen), Frontier(DOMAIN copyOf, queue, seen),
         CopiesMade(copyOf)', CopiesPlaced(copyOf, seen)'
  PROVE  CopyHolds(run.seen, run.queue, run.copyOf)'
<1>1. SeenTree(DOMAIN run.seen, run.seen)'
  BY DEF SeenTree
<1>2. Frontier(DOMAIN run.copyOf, run.queue, run.seen)'
  BY DEF Frontier
<1>3. CopiesMade(run.copyOf)' /\ CopiesPlaced(run.copyOf, run.seen)'
  BY DEF CopiesMade, CopiesPlaced
<1> QED
  BY <1>1, <1>2, <1>3 DEF CopyHolds

LEMMA CopyInit == Init => CopyInv
<1> SUFFICES ASSUME Init PROVE CopyInv
  OBVIOUS
<1>1. Locals(run) /\ job \in Jobs
  BY DEF Init, Locals, Fresh
<1>2. /\ run.pc = "start" /\ run.seen = <<>> /\ run.queue = <<>> /\ run.copyOf = <<>>
      /\ run.verdict = "none" /\ made = <<>> /\ kids = Kids0
  BY DEF Init, Fresh
<1>3. DOMAIN run.seen = {} /\ DOMAIN run.copyOf = {} /\ Told = {} /\ New = {}
  BY <1>2 DEF Told, New
<1>4. Forest
  <2>1. Nodes \cup {Top} = Old \cup {Top, Foreign}
    BY <1>3 DEF Nodes
  <2>2. ASSUME NEW p \in Nodes \cup {Top}
        PROVE  Distinct(kids[p]) /\ Foreign \notin ToSet(kids[p])
    <3>1. Kids0[p] \in Seq(Old) /\ p \in DOMAIN Kids0 /\ DOMAIN Kids0[p] = 1..Len(Kids0[p])
      BY <2>1, TreeAssumption, LenProperties
    <3>2. Distinct(Kids0[p])
      BY <3>1, TreeAssumption DEF Distinct
    <3>3. ToSet(Kids0[p]) \subseteq Old
      <4> DEFINE s == Kids0[p]
      <4>1. s \in Seq(Old)
        BY <3>1
      <4> HIDE DEF s
      <4> QED
        BY <4>1, InRange DEF s
    <3> QED
      BY <1>2, <3>2, <3>3, NodeAssumption
  <2> QED
    BY <1>2, <2>1, <2>2, TreeAssumption, RangeEmpty DEF Forest
<1> QED
  BY <1>1, <1>2, <1>3, <1>4, InitShape DEF CopyInv

LEMMA ForestStays ==
  ASSUME Shape, Forest, OtherClient
  PROVE  Forest'
<1> DEFINE N == Nodes \cup {Top}
<1>1. /\ made' = <<>> /\ Nodes' \cup {Top} = N /\ DOMAIN kids = N /\ Foreign \in Nodes
      /\ \A p \in N : Len(kids[p]) \in Nat
  <2>1. made' = made /\ New' = New
    BY DEF OtherClient, New
  <2>2. \A p \in N : kids[p] \in Seq(Nodes)
    BY DEF Shape
  <2>3. \A p \in N : Len(kids[p]) \in Nat
    BY <2>2, LenProperties
  <2> QED
    BY <2>1, <2>3 DEF Nodes, Forest, Shape
<1>2. CASE kids' = kids
  BY <1>1, <1>2 DEF Forest
<1>3. ASSUME NEW n, kids' = Without(n) PROVE Forest'
  <2>1. \A p \in N : /\ ToSet(kids'[p]) = ToSet(kids[p]) \ {n}
                     /\ Distinct(kids[p]) => Distinct(kids'[p])
    BY <1>3, WithoutThins
  <2> HIDE DEF N
  <2> QED
    BY <1>1, <2>1 DEF Forest, N
<1>4. ASSUME Parents(Foreign) = {}, NEW q \in DOMAIN kids, q # Foreign, NEW k \in {1, 2},
             k <= Len(kids[q]) + 1, kids' = [kids EXCEPT ![q] = InsertAt(@, k, Foreign)]
      PROVE  Forest'
  <2>1. q \in N /\ k \in 1..(Len(kids[q]) + 1)
    BY <1>1, <1>4
  <2>2. /\ ToSet(kids'[q]) = ToSet(kids[q]) \cup {Foreign}
        /\ \A p \in N \ {q} : kids'[p] = kids[p]
        /\ Foreign \notin ToSet(kids[q]) /\ Distinct(kids[q]) => Distinct(kids'[q])
    BY <1>1, <1>4, <2>1, InsertThins
  <2>3. \A p \in N : Foreign \notin ToSet(kids[p])
    BY <1>1, <1>4 DEF Parents, Range, ToSet
  <2> HIDE DEF N
  <2> QED
    BY <1>1, <1>4, <2>1, <2>2, <2>3 DEF Forest, N
<1> QED
  BY <1>2, <1>3, <1>4 DEF OtherClient

\* The run stays as it is, or ends without a call.
LEMMA CopyRests ==
  ASSUME CopyInv, job.kind = "copy", job' = job, made' = made, Shape', Thins({Foreign}),
         Locals(run'), run'.seen = run.seen, run'.queue = run.queue, run'.copyOf = run.copyOf,
         \/ run'.pc = run.pc /\ run'.verdict = run.verdict
         \/ run'.pc = "done" /\ run'.verdict # "complete",
         run'.pc = "start" => Forest'
  PROVE  CopyInv'
<1>1. /\ Shape /\ New' = New /\ Nodes' = Nodes /\ Told' = Told
  BY DEF CopyInv, New, Nodes, Told
<1>2. ASSUME DOMAIN run.seen # {} PROVE CopyHolds(run.seen, run.queue, run.copyOf)'
  <2>1. CopyHolds(run.seen, run.queue, run.copyOf)
    BY <1>2 DEF CopyInv
  <2>2. PICK seen, queue, copyOf : seen = run.seen /\ queue = run.queue /\ copyOf = run.copyOf
    OBVIOUS
  <2>3. /\ SeenTree(DOMAIN seen, seen) /\ Frontier(DOMAIN copyOf, queue, seen)
        /\ CopiesMade(copyOf) /\ CopiesPlaced(copyOf, seen)
    BY <2>1, <2>2 DEF CopyHolds
  <2>4. CopiesMade(copyOf)'
    BY <1>1, <2>3 DEF CopiesMade
  <2>5. CopiesPlaced(copyOf, seen)'
    <3> SUFFICES ASSUME NEW c \in DOMAIN copyOf, NEW p \in Nodes \cup {Top}, copyOf[c] \in ToSet(kids'[p])
                 PROVE  copyOf[c] \in ToSet(kids[p])
      BY <1>1, <2>3 DEF CopiesPlaced
    <3>1. copyOf[c] \in New /\ New = 1..Len(made)
      BY <1>1, <2>3, LenProperties DEF CopiesMade, Told, Shape, New
    <3>2. copyOf[c] # Foreign
      BY <3>1, NodeAssumption
    <3> QED
      BY <3>2 DEF Thins
  <2>6. seen = run'.seen /\ queue = run'.queue /\ copyOf = run'.copyOf
    BY <2>2
  <2> QED
    BY <2>3, <2>4, <2>5, <2>6, CopyGoesOn
<1>3. /\ job \in Jobs /\ run.pc \in {"start", "root", "loop", "done"}
      /\ run.pc \in {"start", "root"} => DOMAIN run.copyOf = {} /\ run.queue = <<>> /\ Told = {}
      /\ run.pc = "loop" => run.queue # <<>>
      /\ run.pc = "start" <=> run.pc # "done" /\ DOMAIN run.seen = {}
      /\ DOMAIN run.seen = {} => Told = {}
      /\ run.pc # "done" => run.verdict = "none"
      /\ run.verdict = "complete" =>
           run.queue = <<>> /\ job.source \in DOMAIN run.copyOf /\ DOMAIN run.seen # {}
  BY DEF CopyInv
<1> QED
  BY <1>1, <1>2, <1>3 DEF CopyInv

LEMMA CopyWalkStep ==
  ASSUME CopyInv, job.kind = "copy", CopyWalk
  PROVE  CopyInv'
<1>1. UNCHANGED <<job, kids, labels, made>>
  BY DEF CopyWalk, outline, context
<1>2. /\ Shape /\ run.pc = "start" /\ Forest /\ Locals(run) /\ job \in Jobs
      /\ DOMAIN run.copyOf = {} /\ run.queue = <<>> /\ Told = {} /\ run.verdict = "none"
  BY DEF CopyInv, CopyWalk, Is
<1>3. Shape' /\ Thins({Foreign}) /\ Told' = Told
  BY <1>1, <1>2 DEF Shape, Nodes, New, Thins, Told
<1> DEFINE seen == [n \in Under(job.source) |-> IF job.whole THEN kids[n] ELSE <<>>]
           r == [run EXCEPT !.pc = "root", !.seen = seen]
<1>4. Return(run, "error") \/ run' = r
  BY Zenon DEF CopyWalk
<1>5. CASE Return(run, "error")
  <2>1. /\ Locals(run') /\ run'.pc = "done" /\ run'.verdict = "error" /\ run'.seen = run.seen
        /\ run'.queue = run.queue /\ run'.copyOf = run.copyOf
    BY <1>2, <1>5, Returned
  <2> QED
    BY <1>1, <1>3, <2>1, CopyRests
<1>6. CASE run' = r
  <2>1. /\ Locals(run') /\ run'.pc = "root" /\ run'.seen = seen /\ run'.queue = <<>>
        /\ run'.copyOf = run.copyOf /\ run'.verdict = "none"
    BY <1>2, <1>6 DEF Locals
  <2>2. PICK s, c, q : s = seen /\ c = run.copyOf /\ q = <<>>
    OBVIOUS
  <2>3. SeenTree(DOMAIN s, s) /\ DOMAIN s # {}
    BY <1>2, <2>2, WalkSees
  <2>4. DOMAIN c = {} /\ q = <<>>
    BY <1>2, <2>2
  <2> HIDE DEF seen, r
  <2>5. s = run'.seen /\ q = run'.queue /\ c = run'.copyOf
    BY <2>1, <2>2
  <2>6. Frontier(DOMAIN c, q, s)
    <3>1. <<>> \in Seq(DOMAIN s) /\ Distinct(<<>>) /\ ToSet(<<>>) = {}
      BY EmptySeq, RangeEmpty DEF Distinct
    <3> QED
      BY <2>4, <3>1 DEF Frontier
  <2>7. CopiesMade(c)' /\ CopiesPlaced(c, s)'
    BY <1>2, <1>3, <2>4 DEF CopiesMade, CopiesPlaced
  <2>8. CopyHolds(run.seen, run.queue, run.copyOf)'
    BY <1>1, <2>3, <2>5, <2>6, <2>7, CopyGoesOn
  <2> QED
    BY <1>1, <1>2, <1>3, <2>1, <2>3, <2>4, <2>5, <2>8 DEF CopyInv
<1> QED
  BY <1>4, <1>5, <1>6

\* A create for one node of the source, and what follows it.
LEMMA CopyOne ==
  ASSUME CopyInv, job.kind = "copy", job' = job, run.pc \in {"root", "loop"},
         NEW n \in DOMAIN run.seen, n \notin DOMAIN run.copyOf,
         n = job.source \/ job.source \in DOMAIN run.copyOf,
         NEW lost \in 0..1, NEW ok \in BOOLEAN, NEW parent, Create(parent, n, FALSE, lost, ok),
         IF n = job.source THEN parent = job.target
         ELSE \E c \in DOMAIN run.copyOf : n \in ToSet(run.seen[c]) /\ parent = run.copyOf[c],
         NEW left, Frontier(DOMAIN run.copyOf \cup {n}, left, run.seen),
         NEW r, ok => /\ Locals(r) /\ r.pc = "loop" /\ r.seen = run.seen /\ r.verdict = "none"
                      /\ r.copyOf = Extended(run.copyOf, n, Created(lost, ok)) /\ r.queue = left,
         IF ok THEN CopyProceeds(r) ELSE Return(run, "error")
  PROVE  CopyInv'
<1> DEFINE k == Landed(lost, ok)
<1>1. PICK seen, copyOf, queue, id :
        seen = run.seen /\ copyOf = run.copyOf /\ queue = run.queue /\ id = Len(made) + k
  OBVIOUS
<1>2. /\ job \in Jobs /\ Shape /\ Locals(run) /\ DOMAIN seen # {}
      /\ SeenTree(DOMAIN seen, seen) /\ Frontier(DOMAIN copyOf, queue, seen)
      /\ CopiesMade(copyOf) /\ CopiesPlaced(copyOf, seen)
  BY <1>1 DEF CopyInv, CopyHolds
<1>3. n \in Froms
  BY <1>1, <1>2 DEF SeenTree
<1>4. /\ k \in Nat /\ (ok => k > 0) /\ MadeGrows(n, k, ok) /\ KidsGrow(parent, k) /\ Shape'
  BY <1>2, <1>3, CreateGrows, CreateShape
<1> DEFINE now == IF ok THEN Extended(copyOf, n, id) ELSE copyOf
           rest == IF ok THEN left ELSE queue
<1>5. PICK nw : nw = now
  OBVIOUS
<1>6. CopiesMade(nw)' /\ CopiesPlaced(nw, seen)'
  <2>1. IF n = job.source THEN parent = job.target
        ELSE \E c \in DOMAIN copyOf : n \in ToSet(seen[c]) /\ parent = copyOf[c]
    BY <1>1
  <2>2. n \notin DOMAIN copyOf
    BY <1>1
  <2> HIDE DEF k
  <2> QED
    BY <1>1, <1>2, <1>3, <1>4, <1>5, <2>1, <2>2, CopyMade
<1>7. /\ DOMAIN nw = IF ok THEN DOMAIN copyOf \cup {n} ELSE DOMAIN copyOf
      /\ ok => Created(lost, ok) = id
  BY <1>1, <1>5 DEF Extended, Created
<1>8. Frontier(DOMAIN nw, rest, seen)
  BY <1>1, <1>2, <1>7
<1>9. /\ Locals(run') /\ run'.seen = seen /\ run'.queue = rest /\ run'.copyOf = nw
      /\ run'.pc = "done" \/ (run'.pc = "loop" /\ run'.verdict = "none" /\ rest # <<>>)
      /\ run'.verdict = "complete" => ok /\ rest = <<>>
  <2>1. CASE ok
    <3>1. r.seen = seen /\ r.queue = rest /\ r.copyOf = nw /\ Locals(r) /\ r.pc = "loop" /\ r.verdict = "none"
      BY <1>1, <1>5, <1>7, <2>1
    <3>2. CASE r.queue = <<>> /\ Return(r, "complete")
      <4>1. /\ Locals(run') /\ run'.pc = "done" /\ run'.seen = r.seen /\ run'.queue = r.queue
            /\ run'.copyOf = r.copyOf
        BY <3>1, <3>2, Returned
      <4> QED
        BY <2>1, <3>1, <3>2, <4>1
    <3>3. CASE r.queue # <<>> /\ run' = r
      BY <2>1, <3>1, <3>3
    <3> QED
      BY <2>1, <3>2, <3>3 DEF CopyProceeds
  <2>2. CASE ~ok
    <3>1. /\ Locals(run') /\ run'.pc = "done" /\ run'.verdict = "error" /\ run'.seen = run.seen
          /\ run'.queue = run.queue /\ run'.copyOf = run.copyOf
      BY <1>2, <2>2, Returned
    <3> QED
      BY <1>1, <1>5, <2>2, <3>1
  <2> QED
    BY <2>1, <2>2
<1>10. PICK q : q = rest
  OBVIOUS
<1>11. CopyHolds(run.seen, run.queue, run.copyOf)'
  <2>1. seen = run'.seen /\ q = run'.queue /\ nw = run'.copyOf
    BY <1>9, <1>10
  <2> QED
    BY <1>2, <1>6, <1>8, <1>10, <2>1, CopyGoesOn
<1>12. run'.verdict = "complete" => job.source \in DOMAIN run'.copyOf
  BY <1>1, <1>7, <1>9
<1> HIDE DEF rest, now, k
<1> QED
  BY <1>2, <1>4, <1>9, <1>11, <1>12 DEF CopyInv

LEMMA CopyRootStep ==
  ASSUME CopyInv, job.kind = "copy", NEW lost \in 0..1, NEW ok \in BOOLEAN, CopyRoot(lost, ok)
  PROVE  CopyInv'
<1> DEFINE id == Created(lost, ok)
           r == [Copied(run, job.source, id) EXCEPT !.pc = "loop"]
<1>1. job' = job /\ run.pc = "root"
  BY DEF CopyRoot, context, Is
<1>2. Create(job.target, job.source, FALSE, lost, ok)
  BY Zenon DEF CopyRoot
<1>3. IF ok THEN CopyProceeds(r) ELSE Return(run, "error")
  BY Zenon DEF CopyRoot
<1>4. PICK n, parent : n = job.source /\ parent = job.target
  OBVIOUS
<1>5. /\ Locals(run) /\ DOMAIN run.copyOf = {} /\ run.queue = <<>> /\ run.verdict = "none"
      /\ SeenTree(DOMAIN run.seen, run.seen)
  BY <1>1 DEF CopyInv, CopyHolds
<1>6. n \in DOMAIN run.seen /\ n \notin DOMAIN run.copyOf /\ run.seen[n] \in Seq(DOMAIN run.seen)
  BY <1>4, <1>5 DEF SeenTree
<1>7. PICK left : left = run.seen[n]
  OBVIOUS
<1>8. Frontier(DOMAIN run.copyOf \cup {n}, left, run.seen)
  <2>1. PICK seen : seen = run.seen
    OBVIOUS
  <2>2. Frontier({job.source}, seen[job.source], seen)
    BY <1>5, <2>1, FrontierBegins
  <2>3. DOMAIN run.copyOf \cup {n} = {job.source}
    BY <1>4, <1>5
  <2> QED
    BY <1>4, <1>7, <2>1, <2>2, <2>3
<1>9. /\ Locals(r) /\ r.pc = "loop" /\ r.seen = run.seen /\ r.verdict = "none"
      /\ r.copyOf = Extended(run.copyOf, n, id) /\ r.queue = run.queue \o run.seen[n]
  BY <1>4, <1>5 DEF Locals, Copied, Extended
<1>10. run.queue \o run.seen[n] = left
  BY <1>5, <1>6, <1>7, ConcatEmptySeq
<1>11. PICK rr : rr = r
  OBVIOUS
<1> HIDE DEF r
<1> QED
  BY <1>1, <1>2, <1>3, <1>4, <1>6, <1>8, <1>9, <1>10, <1>11, CopyOne

LEMMA CopyNextStep ==
  ASSUME CopyInv, job.kind = "copy", NEW lost \in 0..1, NEW ok \in BOOLEAN, CopyNext(lost, ok)
  PROVE  CopyInv'
<1> DEFINE id == Created(lost, ok)
           r == Copied([run EXCEPT !.queue = Tail(@)], Head(run.queue), id)
<1>1. job' = job /\ run.pc = "loop"
  BY DEF CopyNext, context, Is
<1>2. Create(CopyParent(Head(run.queue)), Head(run.queue), FALSE, lost, ok)
  BY Zenon DEF CopyNext
<1>3. IF ok THEN CopyProceeds(r) ELSE Return(run, "error")
  BY Zenon DEF CopyNext
<1>4. /\ Locals(run) /\ run.queue # <<>> /\ run.verdict = "none"
      /\ SeenTree(DOMAIN run.seen, run.seen) /\ Frontier(DOMAIN run.copyOf, run.queue, run.seen)
  BY <1>1 DEF CopyInv, CopyHolds
<1>5. PICK n, parent, seen, copyOf, queue :
        /\ n = Head(run.queue) /\ parent = CopyParent(n)
        /\ seen = run.seen /\ copyOf = run.copyOf /\ queue = run.queue
  OBVIOUS
<1>6. /\ n \in DOMAIN seen /\ n \notin DOMAIN copyOf /\ n # job.source
      /\ \E p \in DOMAIN copyOf : n \in ToSet(seen[p])
      /\ Frontier(DOMAIN copyOf \cup {n}, Tail(queue) \o seen[n], seen)
  <2>1. /\ SeenTree(DOMAIN seen, seen) /\ Frontier(DOMAIN copyOf, queue, seen) /\ queue # <<>> /\ n = Head(queue)
    BY <1>4, <1>5
  <2> QED
    BY <2>1, FrontierMoves
<1>7. job.source \in DOMAIN copyOf /\ DOMAIN copyOf \subseteq DOMAIN seen
  BY <1>4, <1>5 DEF Frontier
<1>8. \E c \in DOMAIN copyOf : n \in ToSet(seen[c]) /\ parent = copyOf[c]
  <2>1. PICK c \in DOMAIN copyOf : n \in ToSet(seen[c])
    BY <1>6
  <2>2. \A p \in DOMAIN seen : n \in Range(seen[p]) <=> p = c
    <3>1. \A p, q \in DOMAIN seen : \A m \in ToSet(seen[p]) \cap ToSet(seen[q]) : p = q
      BY <1>4, <1>5 DEF SeenTree
    <3>2. \A p \in DOMAIN seen : Range(seen[p]) = ToSet(seen[p])
      BY DEF Range, ToSet
    <3> QED
      BY <1>7, <2>1, <3>1, <3>2
  <2>3. ParentSeen(n) = c
    BY <1>5, <1>7, <2>1, <2>2 DEF ParentSeen
  <2> QED
    BY <1>5, <2>1, <2>3 DEF CopyParent
<1>9. PICK left : left = Tail(queue) \o seen[n]
  OBVIOUS
<1>10. /\ Locals(r) /\ r.pc = "loop" /\ r.seen = run.seen /\ r.verdict = "none"
       /\ r.copyOf = Extended(run.copyOf, n, id) /\ r.queue = Tail(run.queue) \o run.seen[n]
  BY <1>1, <1>4, <1>5 DEF Locals, Copied, Extended
<1>11. PICK rr : rr = r
  OBVIOUS
<1> HIDE DEF r
<1>12. Create(parent, n, FALSE, lost, ok) /\ IF ok THEN CopyProceeds(rr) ELSE Return(run, "error")
  BY <1>2, <1>3, <1>5, <1>11
<1>13. /\ n \in DOMAIN run.seen /\ n \notin DOMAIN run.copyOf /\ job.source \in DOMAIN run.copyOf
       /\ \E c \in DOMAIN run.copyOf : n \in ToSet(run.seen[c]) /\ parent = run.copyOf[c]
       /\ Frontier(DOMAIN run.copyOf \cup {n}, left, run.seen)
  BY <1>5, <1>6, <1>7, <1>8, <1>9
<1>14. /\ Locals(rr) /\ rr.pc = "loop" /\ rr.seen = run.seen /\ rr.verdict = "none"
       /\ rr.copyOf = Extended(run.copyOf, n, Created(lost, ok)) /\ rr.queue = left
  BY <1>5, <1>9, <1>10, <1>11
<1> QED
  BY <1>1, <1>6, <1>12, <1>13, <1>14, CopyOne

LEMMA CopyStep == CopyInv /\ [Next]_vars => CopyInv'
<1> SUFFICES ASSUME CopyInv, [Next]_vars PROVE CopyInv'
  OBVIOUS
<1>1. job' = job
  BY JobStays
<1>2. CASE job.kind # "copy"
  BY <1>1, <1>2 DEF CopyInv
<1>3. CASE job.kind = "copy" /\ CopyStops
  <2>1. UNCHANGED <<job, kids, labels, made>> /\ Return(run, "error")
    BY <1>3 DEF CopyStops, outline, context
  <2>2. Shape /\ Locals(run)
    BY <1>3 DEF CopyInv
  <2>3. Shape' /\ Thins({Foreign})
    BY <2>1, <2>2 DEF Shape, Nodes, New, Thins
  <2>4. /\ Locals(run') /\ run'.pc = "done" /\ run'.verdict = "error" /\ run'.seen = run.seen
        /\ run'.queue = run.queue /\ run'.copyOf = run.copyOf
    BY <2>1, <2>2, Returned
  <2> QED
    BY <1>3, <2>1, <2>3, <2>4, CopyRests
<1>4. CASE job.kind = "copy" /\ CopySteps
  BY <1>3, <1>4, CopyWalkStep, CopyRootStep, CopyNextStep DEF CopySteps
<1>5. CASE job.kind = "copy" /\ OtherClient
  <2>1. Shape /\ Locals(run) /\ (run.pc = "start" => Forest)
    BY <1>5 DEF CopyInv
  <2>2. Thins({Foreign}) /\ Shape' /\ UNCHANGED <<job, made, run>>
    BY <1>5, <2>1, OtherThins
  <2>3. run'.pc = "start" => Forest'
    BY <1>5, <2>1, <2>2, ForestStays
  <2>4. Locals(run')
    BY <2>1, <2>2
  <2> QED
    BY <1>5, <2>2, <2>3, <2>4, CopyRests
<1>6. CASE job.kind = "copy" /\ (Stop \/ UNCHANGED vars)
  <2>1. UNCHANGED <<job, kids, labels, made, run>>
    BY <1>6 DEF Stop, vars, outline
  <2>2. Shape /\ Locals(run) /\ (run.pc = "start" => Forest)
    BY <1>6 DEF CopyInv
  <2>3. Shape' /\ Thins({Foreign}) /\ Locals(run') /\ (run'.pc = "start" => Forest')
    BY <2>1, <2>2 DEF Shape, Nodes, New, Thins, Forest
  <2> QED
    BY <1>6, <2>1, <2>3, CopyRests
<1> QED
  BY <1>2, <1>4, <1>5, <1>6, Steps

\* duplicate_node, create_from_template: a copy has a node for every node seen and
\* no other, each below the copy of the node it was below; what was written when
\* the copy fails is connected to its root.
THEOREM CopyAlwaysBuildsSource == Spec => []CopyBuildsSource
<1>1. CopyInv => CopyBuildsSource
  <2> SUFFICES ASSUME CopyInv, job.kind = "copy" PROVE CopyBuildsSource
    BY DEF CopyBuildsSource
  <2>1. Shape /\ job \in Jobs /\ DOMAIN kids = Nodes \cup {Top}
    BY DEF CopyInv, Shape
  <2>2. CASE DOMAIN run.seen = {}
    BY <2>2 DEF CopyInv, CopyBuildsSource
  <2>3. CASE DOMAIN run.seen # {}
    <3> DEFINE D == DOMAIN run.seen
               C == DOMAIN run.copyOf
    <3>1. /\ SeenTree(D, run.seen) /\ Frontier(C, run.queue, run.seen)
          /\ CopiesMade(run.copyOf) /\ CopiesPlaced(run.copyOf, run.seen)
          /\ run.verdict = "complete" => run.queue = <<>> /\ job.source \in C
      BY <2>3 DEF CopyInv, CopyHolds
    <3>2. /\ \A c \in C : run.copyOf[c] \in Of(c)
          /\ \A x \in Told : made[x].from \in C /\ run.copyOf[made[x].from] = x
      BY <3>1 DEF CopiesMade, Of
    <3>3. C \subseteq D
      BY <3>1 DEF Frontier
    <3> HIDE DEF C
    <3>4. ASSUME NEW n \in D PROVE Cardinality(Of(n)) <= 1
      <4>1. Of(n) = {} \/ Of(n) = {run.copyOf[n]}
        BY <3>2 DEF Of
      <4>2. Cardinality(Of(n)) \in {0, 1}
        <5>1. Cardinality({}) = 0 /\ \A y : Cardinality({y}) = 1
          BY FS_EmptySet, FS_Singleton
        <5> QED
          BY <4>1, <5>1
      <4> QED
        BY <4>2
    <3>5. ASSUME NEW x \in Told, NEW p \in Parents(x)
          PROVE  p \in IF made[x].from = job.source THEN {job.target}
                       ELSE UNION {Of(c) : c \in {q \in D : made[x].from \in Range(run.seen[q])}}
      <4>1. p \in Nodes \cup {Top} /\ x \in ToSet(kids[p])
        BY <2>1 DEF Parents, Range, ToSet
      <4>2. made[x].from \in C /\ run.copyOf[made[x].from] = x
        BY <3>2
      <4>3. IF made[x].from = job.source THEN p = job.target
            ELSE \E q \in C : made[x].from \in ToSet(run.seen[q]) /\ p = run.copyOf[q]
        BY <3>1, <4>1, <4>2 DEF CopiesPlaced, C
      <4>4. \A q : Range(run.seen[q]) = ToSet(run.seen[q])
        BY DEF Range, ToSet
      <4> QED
        BY <3>2, <3>3, <4>3, <4>4
    <3>6. ASSUME run.verdict = "complete"
          PROVE  /\ \A n \in D : job.whole \/ n = job.source => Of(n) # {}
                 /\ {made[x].from : x \in Told} \subseteq D
      <4>1. job.source \in C /\ \A c \in C : ToSet(run.seen[c]) \subseteq C
        <5>1. run.queue = <<>> /\ ToSet(run.queue) = {} /\ job.source \in C
          BY <3>1, <3>6, RangeEmpty
        <5>2. \A c \in C : ToSet(run.seen[c]) \subseteq C \cup ToSet(run.queue)
          BY <3>1 DEF Frontier
        <5> QED
          BY <5>1, <5>2
      <4>2. job.whole => C = D
        BY <3>1, <3>3, <4>1 DEF SeenTree
      <4>3. \A n \in D : job.whole \/ n = job.source => Of(n) # {}
        BY <3>2, <4>1, <4>2
      <4> QED
        BY <3>2, <3>3, <4>3
    <3> QED
      BY <3>4, <3>5, <3>6 DEF CopyBuildsSource
  <2> QED
    BY <2>2, <2>3
<1> QED
  BY <1>1, CopyInit, CopyStep, PTL DEF Spec

=============================================================================
