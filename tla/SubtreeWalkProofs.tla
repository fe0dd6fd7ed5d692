-------------------------- MODULE SubtreeWalkProofs ---------------------------
(***************************************************************************)
(* What a walk answers, for every tree, cap, width and order of arrival:   *)
(* whole when it says so, short by what it names, in document order.       *)
(***************************************************************************)
EXTENDS SubtreeWalk, ListFacts

\* Root may be the workspace, which is no node.
Places == Nodes \cup {Root}

-----------------------------------------------------------------------------
(* Trees.                                                                  *)

Tree(t) ==
  /\ t \in [Places -> Seq(Nodes)]
  /\ \A p, q \in Places : \A i \in DOMAIN t[p], j \in DOMAIN t[q] :
       t[p][i] = t[q][j] => p = q /\ i = j

LEMMA TreesTyped == \A t \in Trees : Tree(t)
  BY WalkAssumption, TreesAreTrees DEF Tree, Places

LEMMA Children ==
  ASSUME NEW t, Tree(t), NEW p \in Places
  PROVE  /\ t[p] \in Seq(Nodes)
         /\ \A n : n \in ToSet(t[p]) <=> \E i \in 1..Len(t[p]) : t[p][i] = n
         /\ ToSet(t[p]) \subseteq Nodes
         /\ Distinct(t[p])
<1>1. t[p] \in Seq(Nodes)
  BY DEF Tree
<1>2. DOMAIN t[p] = 1..Len(t[p])
  BY <1>1, LenProperties
<1>3. Distinct(t[p])
  BY <1>2 DEF Tree, Distinct
<1> QED
  BY <1>1, <1>3, InRange

LEMMA OneParent ==
  ASSUME NEW t, Tree(t), NEW p \in Places, NEW q \in Places, NEW n,
         n \in ToSet(t[p]), n \in ToSet(t[q])
  PROVE  p = q
<1>1. PICK i \in DOMAIN t[p] : t[p][i] = n
  BY DEF ToSet
<1>2. PICK j \in DOMAIN t[q] : t[q][j] = n
  BY DEF ToSet
<1> QED
  BY <1>1, <1>2 DEF Tree

LEMMA ParentIs ==
  ASSUME NEW t, Tree(t), NEW p \in Places, NEW n, n \in ToSet(t[p])
  PROVE  ParentOf(t, n) = p
<1>1. DOMAIN t = Places
  BY DEF Tree
<1>2. \A q \in Places : n \in ToSet(t[q]) => q = p
  BY OneParent
<1> QED
  BY <1>1, <1>2 DEF ParentOf

LEMMA NextLevelEmpty ==
  ASSUME NEW t
  PROVE  NextLevel(t, <<>>) = <<>>
<1>1. [i \in 1..Len(<<>>) |-> t[<<>>[i]]] = <<>>
  OBVIOUS
<1> QED
  BY <1>1, FlattenEmpty DEF NextLevel

LEMMA NextLevelAppend ==
  ASSUME NEW t, Tree(t), NEW s \in Seq(Nodes), NEW x \in Nodes
  PROVE  /\ NextLevel(t, s) \in Seq(Nodes)
         /\ NextLevel(t, Append(s, x)) = NextLevel(t, s) \o t[x]
<1> DEFINE Q == Seq(Nodes)
           m == [i \in 1..Len(s) |-> t[s[i]]]
<1>1. \A y \in Nodes : t[y] \in Q
  BY DEF Tree, Places
<1>2. /\ m \in Seq(Q)
      /\ [i \in 1..Len(Append(s, x)) |-> t[Append(s, x)[i]]] = Append(m, t[x])
  <2> HIDE DEF Q
  <2> QED
    BY <1>1, MapAppend
<1> HIDE DEF m
<1>3. FlattenSeq(Append(m, t[x])) = FlattenSeq(m) \o t[x] /\ FlattenSeq(m) \in Seq(Nodes)
  BY <1>1, <1>2, FlattenAppend, FlattenIn
<1> QED
  BY <1>2, <1>3 DEF NextLevel, m

LEMMA NextLevelIn ==
  ASSUME NEW t, Tree(t), NEW s \in Seq(Nodes)
  PROVE  NextLevel(t, s) \in Seq(Nodes)
<1>1. CASE s = <<>>
  BY <1>1, NextLevelEmpty, EmptySeq
<1>2. CASE s # <<>>
  <2>1. PICK i \in 1..Len(s) : s[i] \in Nodes
    BY <1>2, EmptySeq, ElementOfSeq, LenProperties
  <2> QED
    BY <2>1, NextLevelAppend
<1> QED
  BY <1>1, <1>2

LEMMA NextLevelHolds ==
  ASSUME NEW t, Tree(t), NEW s \in Seq(Nodes)
  PROVE  ToSet(NextLevel(t, s)) = ChildrenOf(t, ToSet(s))
<1> DEFINE U == {r \in Seq(Nodes) : ToSet(NextLevel(t, r)) = ChildrenOf(t, ToSet(r))}
<1>1. <<>> \in U
  BY NextLevelEmpty, RangeEmpty DEF ChildrenOf
<1>2. ASSUME NEW r \in Seq(Nodes), NEW x \in Nodes, r \in U PROVE Append(r, x) \in U
  <2>1. NextLevel(t, Append(r, x)) = NextLevel(t, r) \o t[x] /\ NextLevel(t, r) \in Seq(Nodes)
        /\ t[x] \in Seq(Nodes)
    BY NextLevelAppend DEF Tree, Places
  <2>2. ToSet(NextLevel(t, r) \o t[x]) = ToSet(NextLevel(t, r)) \cup ToSet(t[x])
    BY <2>1, RangeConcat
  <2>3. ToSet(Append(r, x)) = ToSet(r) \cup {x} /\ Append(r, x) \in Seq(Nodes)
    BY RangeAppend, AppendProperties
  <2>4. ChildrenOf(t, ToSet(r) \cup {x}) = ChildrenOf(t, ToSet(r)) \cup ToSet(t[x])
    BY DEF ChildrenOf
  <2> QED
    BY <1>2, <2>1, <2>2, <2>3, <2>4
<1>3. \A r \in Seq(Nodes) : r \in U
  <2> HIDE DEF U
  <2> QED
    BY <1>1, <1>2, SequenceInductive
<1> QED
  BY <1>3

LEMMA NextLevelDistinct ==
  ASSUME NEW t, Tree(t), NEW s \in Seq(Nodes), Distinct(s)
  PROVE  Distinct(NextLevel(t, s))
<1> DEFINE U == {r \in Seq(Nodes) : Distinct(r) => Distinct(NextLevel(t, r))}
<1>1. <<>> \in U
  BY NextLevelEmpty, EmptySeq
<1>2. ASSUME NEW r \in Seq(Nodes), NEW x \in Nodes, r \in U PROVE Append(r, x) \in U
  <2>0. NextLevel(t, Append(r, x)) = NextLevel(t, r) \o t[x] /\ NextLevel(t, r) \in Seq(Nodes)
    BY NextLevelAppend
  <2>1. t[x] \in Seq(Nodes) /\ Append(r, x) \in Seq(Nodes)
    BY AppendProperties DEF Tree, Places
  <2>2. ASSUME Distinct(Append(r, x)) PROVE Distinct(NextLevel(t, r) \o t[x])
    <3>1. Distinct(r) /\ \A i \in 1..Len(r) : r[i] # x
      <4> DEFINE q == Append(r, x)
      <4>1. Len(r) \in Nat /\ Len(q) = Len(r) + 1 /\ q[Len(r) + 1] = x
            /\ \A i \in 1..Len(r) : q[i] = r[i]
        BY AppendProperties, LenProperties
      <4>2. Distinct(q)
        BY <2>2
      <4> HIDE DEF q
      <4>3. \A i, j \in 1..Len(r) + 1 : q[i] = q[j] => i = j
        BY <4>1, <4>2 DEF Distinct
      <4>4. \A i \in 1..Len(r) : i \in 1..Len(r) + 1 /\ Len(r) + 1 \in 1..Len(r) + 1 /\ i # Len(r) + 1
        BY <4>1
      <4> QED
        BY <4>1, <4>3, <4>4 DEF Distinct
    <3>2. x \notin ToSet(r) /\ ToSet(r) \subseteq Nodes
      BY <3>1, InRange
    <3>3. ToSet(NextLevel(t, r)) \cap ToSet(t[x]) = {}
      <4>1. ToSet(NextLevel(t, r)) = UNION {ToSet(t[n]) : n \in ToSet(r)}
        BY NextLevelHolds DEF ChildrenOf
      <4>2. ASSUME NEW n \in ToSet(r) PROVE ToSet(t[n]) \cap ToSet(t[x]) = {}
        <5>1. n \in Places /\ x \in Places /\ n # x
          BY <3>2 DEF Places
        <5> QED
          BY <5>1, OneParent
      <4> QED
        BY <4>1, <4>2
    <3>4. Distinct(t[x])
      BY Children DEF Places
    <3>5. Distinct(NextLevel(t, r))
      BY <1>2, <3>1
    <3> QED
      BY <2>0, <2>1, <3>3, <3>4, <3>5, DistinctConcat
  <2> QED
    BY <2>0, <2>1, <2>2
<1>3. \A r \in Seq(Nodes) : r \in U
  <2> HIDE DEF U
  <2> QED
    BY <1>1, <1>2, SequenceInductive
<1> QED
  BY <1>3

-----------------------------------------------------------------------------
(* Levels.                                                                 *)

\* r is the levels of t, down to MaxDepth.
LevelledBy(r, t) ==
  /\ r[0] = t[Root]
  /\ \A d \in 1..MaxDepth : r[d] = NextLevel(t, r[d - 1])
  /\ \A d \in 0..MaxDepth : r[d] \in Seq(Nodes)

LEMMA LevelsUnfold ==
  ASSUME NEW t, Tree(t)
  PROVE  LevelledBy(LevelsOf(t), t)
<1> DEFINE n == MaxDepth
           Q == Seq(Nodes)
           b == t[Root]
           g == [p \in Nat \X Q |-> NextLevel(t, p[2])]
           Step(f) == [d \in 0..n |-> IF d = 0 THEN t[Root] ELSE NextLevel(t, f[d - 1])]
           below == CHOOSE f : f = Step(f)
<1>1. n \in Nat /\ b \in Q
  BY WalkAssumption DEF Tree, Places
<1>2. g \in [Nat \X Q -> Q]
  BY NextLevelIn
<1>3. PICK f : Obeys(f, Q, b, g, n)
  <2> HIDE DEF g, n, Q, b
  <2> QED
    BY <1>1, <1>2, RecursionExists
<1>4. f \in [0..n -> Q] /\ f[0] = b
  BY <1>3 DEF Obeys
<1>5. ASSUME NEW d \in 1..n PROVE f[d] = NextLevel(t, f[d - 1])
  <2>1. d \in Nat /\ d - 1 \in 0..n
    BY <1>1
  <2>2. <<d, f[d - 1]>> \in Nat \X Q
    BY <2>1, <1>4
  <2>3. f[d] = g[<<d, f[d - 1]>>]
    BY <1>3 DEF Obeys
  <2> QED
    BY <2>2, <2>3
<1>6. f = Step(f)
  <2>1. \A d \in 0..n : d = 0 \/ d \in 1..n
    BY <1>1
  <2>2. \A d \in 0..n : f[d] = IF d = 0 THEN t[Root] ELSE NextLevel(t, f[d - 1])
    BY <2>1, <1>4, <1>5
  <2> QED
    BY <1>4, <2>2
<1>7. below = Step(below)
  <2> HIDE DEF Step
  <2> QED
    BY <1>6
<1> DEFINE h == Step(below)
<1>8. h[0] = t[Root] /\ \A d \in 1..n : h[d] = NextLevel(t, below[d - 1])
  BY <1>1
<1>9. LevelsOf(t) = below
  BY DEF LevelsOf
<1> HIDE DEF h, below
<1>10. below[0] = t[Root] /\ \A d \in 1..n : below[d] = NextLevel(t, below[d - 1])
  BY <1>7, <1>8 DEF h
<1>11. \A d \in 0..n : below[d] \in Q
  <2> DEFINE T == {d \in Nat : below[d] \in Q}
  <2>1. 0 \in T
    BY <1>1, <1>10
  <2>2. ASSUME NEW d \in 0..(n - 1), d \in T PROVE d + 1 \in T
    <3>1. d + 1 \in 1..n /\ (d + 1) - 1 = d /\ below[d] \in Q
      BY <1>1, <2>2
    <3>2. below[d + 1] = NextLevel(t, below[d])
      BY <1>10, <3>1
    <3> QED
      BY <3>1, <3>2, NextLevelIn
  <2>3. \A d \in 0..n : d \in T
    <3> HIDE DEF T, n
    <3> QED
      BY <1>1, <2>1, <2>2, Inductive
  <2> QED
    BY <2>3
<1> QED
  BY <1>9, <1>10, <1>11 DEF LevelledBy

\* A node is on one level only.
LEMMA LevelsApart ==
  ASSUME NEW t, Tree(t), NEW r, LevelledBy(r, t)
  PROVE  \A i, j \in 0..MaxDepth : \A n : n \in ToSet(r[i]) /\ n \in ToSet(r[j]) => i = j
<1>0. MaxDepth \in Nat /\ Root \notin Nodes
  BY WalkAssumption
<1>1. \A d \in 0..MaxDepth : ToSet(r[d]) \subseteq Nodes
  BY InRange DEF LevelledBy
<1>2. ASSUME NEW d \in 1..MaxDepth, NEW n, n \in ToSet(r[d])
      PROVE  \E p \in ToSet(r[d - 1]) : n \in ToSet(t[p])
  <2>1. r[d] = NextLevel(t, r[d - 1]) /\ r[d - 1] \in Seq(Nodes)
    BY <1>0 DEF LevelledBy
  <2> QED
    BY <1>2, <2>1, NextLevelHolds DEF ChildrenOf
<1> DEFINE T == {i \in Nat : \A j \in 0..MaxDepth : \A n : n \in ToSet(r[i]) /\ n \in ToSet(r[j]) => i = j}
<1>3. 0 \in T
  <2> SUFFICES ASSUME NEW j \in 0..MaxDepth, j # 0, NEW n, n \in ToSet(r[0]), n \in ToSet(r[j])
               PROVE  FALSE
    OBVIOUS
  <2>1. j \in 1..MaxDepth /\ j - 1 \in 0..MaxDepth
    BY <1>0
  <2>2. PICK p \in ToSet(r[j - 1]) : n \in ToSet(t[p])
    BY <1>2, <2>1
  <2>3. p \in Nodes /\ p \in Places /\ Root \in Places /\ p # Root
    BY <1>0, <1>1, <2>1 DEF Places
  <2>4. n \in ToSet(t[Root])
    BY DEF LevelledBy
  <2> QED
    BY <2>2, <2>3, <2>4, OneParent
<1>4. ASSUME NEW i \in 0..(MaxDepth - 1), i \in T PROVE i + 1 \in T
  <2> SUFFICES ASSUME NEW j \in 0..MaxDepth, NEW n, n \in ToSet(r[i + 1]), n \in ToSet(r[j])
               PROVE  i + 1 = j
    OBVIOUS
  <2>1. i + 1 \in 1..MaxDepth /\ (i + 1) - 1 = i /\ i \in 0..MaxDepth
    BY <1>0
  <2>2. PICK p \in ToSet(r[i]) : n \in ToSet(t[p])
    BY <1>2, <2>1
  <2>3. p \in Nodes /\ p \in Places /\ Root \in Places /\ p # Root
    BY <1>0, <1>1, <2>1 DEF Places
  <2>4. j # 0
    <3> SUFFICES ASSUME j = 0 PROVE FALSE
      OBVIOUS
    <3>1. n \in ToSet(t[Root])
      BY DEF LevelledBy
    <3> QED
      BY <2>2, <2>3, <3>1, OneParent
  <2>5. j \in 1..MaxDepth /\ j - 1 \in 0..MaxDepth
    BY <1>0, <2>4
  <2>6. PICK q \in ToSet(r[j - 1]) : n \in ToSet(t[q])
    BY <1>2, <2>5
  <2>7. q \in Places
    BY <1>1, <2>5 DEF Places
  <2>8. p = q
    BY <2>2, <2>3, <2>6, <2>7, OneParent
  <2>9. i = j - 1
    BY <1>4, <2>2, <2>5, <2>6, <2>8
  <2> QED
    BY <2>9
<1>5. \A i \in 0..MaxDepth : i \in T
  <2> HIDE DEF T
  <2> QED
    BY <1>0, <1>3, <1>4, Inductive
<1> QED
  BY <1>5

LEMMA LevelsDistinct ==
  ASSUME NEW t, Tree(t), NEW r, LevelledBy(r, t)
  PROVE  \A d \in 0..MaxDepth : Distinct(r[d])
<1>0. MaxDepth \in Nat
  BY WalkAssumption
<1> DEFINE T == {d \in Nat : Distinct(r[d])}
<1>1. 0 \in T
  BY Children DEF LevelledBy, Places
<1>2. ASSUME NEW d \in 0..(MaxDepth - 1), d \in T PROVE d + 1 \in T
  <2>1. d + 1 \in 1..MaxDepth /\ (d + 1) - 1 = d /\ d \in 0..MaxDepth
    BY <1>0
  <2>2. r[d + 1] = NextLevel(t, r[d]) /\ r[d] \in Seq(Nodes)
    BY <2>1 DEF LevelledBy
  <2> QED
    BY <1>2, <2>2, NextLevelDistinct
<1>3. \A d \in 0..MaxDepth : d \in T
  <2> HIDE DEF T
  <2> QED
    BY <1>0, <1>1, <1>2, Inductive
<1> QED
  BY <1>3

Entry(e) == IF e = "node" THEN <<Root>> ELSE <<>>

LEMMA FirstLevelsGrow ==
  ASSUME NEW t, Tree(t), NEW e
  PROVE  /\ FirstLevels(t, e, 0) = Entry(e)
         /\ \A n \in 0..MaxDepth : FirstLevels(t, e, n + 1) = FirstLevels(t, e, n) \o LevelsOf(t)[n]
         /\ \A n \in 0..(MaxDepth + 1) : FirstLevels(t, e, n) \in Seq(Places)
<1> DEFINE Q == Seq(Nodes)
           r == LevelsOf(t)
           m(n) == [d \in 1..n |-> r[d - 1]]
<1>0. MaxDepth \in Nat /\ (\A d \in 0..MaxDepth : r[d] \in Q)
  BY WalkAssumption, LevelsUnfold DEF LevelledBy
<1>1. Entry(e) \in Seq(Places)
  <2>1. <<Root>> \in Seq(Places) /\ <<>> \in Seq(Places)
    BY DEF Places
  <2> QED
    BY <2>1 DEF Entry
<1>2. \A n : FirstLevels(t, e, n) = Entry(e) \o FlattenSeq(m(n))
  BY DEF FirstLevels, Entry
<1> HIDE DEF r
<1>3. ASSUME NEW n \in 0..(MaxDepth + 1) PROVE m(n) \in Seq(Q) /\ Len(m(n)) = n
  <2>1. \A d \in 1..n : r[d - 1] \in Q
    BY <1>0
  <2> QED
    BY <1>0, <2>1
<1>4. \A n \in 0..(MaxDepth + 1) : FlattenSeq(m(n)) \in Seq(Nodes)
  <2> HIDE DEF m
  <2> QED
    BY <1>3, FlattenIn
<1>5. \A n \in 0..(MaxDepth + 1) : FirstLevels(t, e, n) \in Seq(Places)
  <2> SUFFICES ASSUME NEW n \in 0..(MaxDepth + 1) PROVE FirstLevels(t, e, n) \in Seq(Places)
    OBVIOUS
  <2> HIDE DEF m
  <2>1. Nodes \subseteq Places
    BY DEF Places
  <2>2. FlattenSeq(m(n)) \in Seq(Places)
    BY <1>4, <2>1, SeqWidens
  <2> QED
    BY <1>1, <1>2, <2>2, ConcatProperties
<1>6. FirstLevels(t, e, 0) = Entry(e)
  <2>1. m(0) = <<>>
    OBVIOUS
  <2>2. FlattenSeq(m(0)) = <<>>
    BY <2>1, FlattenEmpty
  <2> QED
    BY <1>1, <1>2, <2>2, ConcatEmptySeq
<1>7. ASSUME NEW n \in 0..MaxDepth
      PROVE  FirstLevels(t, e, n + 1) = FirstLevels(t, e, n) \o r[n]
  <2>0. n \in 0..(MaxDepth + 1) /\ n + 1 \in 0..(MaxDepth + 1) /\ r[n] \in Q /\ n \in Nat
    BY <1>0
  <2> DEFINE a == m(n + 1)
             b == m(n)
             c == Append(b, r[n])
  <2>1. a \in Seq(Q) /\ Len(a) = n + 1 /\ \A i \in 1..(n + 1) : a[i] = r[i - 1]
    BY <1>3, <2>0
  <2>2. b \in Seq(Q) /\ Len(b) = n /\ \A i \in 1..n : b[i] = r[i - 1]
    BY <1>3, <2>0
  <2> HIDE DEF m, b, a
  <2>3. c \in Seq(Q) /\ Len(c) = n + 1 /\ c[n + 1] = r[n] /\ \A i \in 1..n : c[i] = b[i]
    <3> HIDE DEF Q
    <3> QED
      BY <2>0, <2>2, AppendProperties
  <2> HIDE DEF c
  <2>4. ASSUME NEW i \in 1..(n + 1) PROVE a[i] = c[i]
    <3>1. CASE i = n + 1
      BY <2>0, <2>1, <2>3, <3>1
    <3>2. CASE i # n + 1
      <4>1. i \in 1..n
        BY <2>0, <3>2
      <4> QED
        BY <2>1, <2>2, <2>3, <4>1
    <3> QED
      BY <3>1, <3>2
  <2>5. a = c
    <3> HIDE DEF Q
    <3> QED
      BY <2>1, <2>3, <2>4, SeqEqual
  <2>6. FlattenSeq(c) = FlattenSeq(b) \o r[n] /\ FlattenSeq(b) \in Seq(Nodes)
    BY <2>0, <2>2, FlattenAppend, FlattenIn DEF c
  <2>7. Entry(e) \o (FlattenSeq(b) \o r[n]) = (Entry(e) \o FlattenSeq(b)) \o r[n]
    <3>1. Nodes \subseteq Places
      BY DEF Places
    <3>2. FlattenSeq(b) \in Seq(Places)
      BY <2>6, <3>1, SeqWidens
    <3>3. r[n] \in Seq(Places)
      BY <2>0, <3>1, SeqWidens
    <3> DEFINE u == Entry(e)
               v == FlattenSeq(b)
               w == r[n]
    <3>4. u \in Seq(Places) /\ v \in Seq(Places) /\ w \in Seq(Places)
      BY <1>1, <3>2, <3>3
    <3> HIDE DEF u, v, w
    <3>5. (u \o v) \o w = u \o (v \o w)
      BY <3>4, ConcatAssociative
    <3> QED
      BY <3>5 DEF u, v, w
  <2> QED
    BY <1>2, <2>5, <2>6, <2>7 DEF a, b
<1> QED
  BY <1>5, <1>6, <1>7 DEF r

LEMMA LevelTyped ==
  ASSUME NEW t, Tree(t), NEW d \in 0..MaxDepth
  PROVE  LevelsOf(t)[d] \in Seq(Nodes) /\ LevelsOf(t)[d] \in Seq(Places)
         /\ ToSet(LevelsOf(t)[d]) \subseteq Nodes
<1>1. LevelsOf(t)[d] \in Seq(Nodes)
  BY LevelsUnfold DEF LevelledBy
<1>2. Nodes \subseteq Places
  BY DEF Places
<1> QED
  BY <1>1, <1>2, SeqWidens, InRange

\* On one of the first n levels of t, or its entry.
Within(t, e, n, x) == (e = "node" /\ x = Root) \/ \E k \in 0..(n - 1) : x \in ToSet(LevelsOf(t)[k])

LEMMA FirstLevelsHold ==
  ASSUME NEW t, Tree(t), NEW e
  PROVE  \A n \in 0..(MaxDepth + 1) : \A x : x \in ToSet(FirstLevels(t, e, n)) <=> Within(t, e, n, x)
<1>0. MaxDepth \in Nat
  BY WalkAssumption
<1> DEFINE T == {n \in Nat : \A x : x \in ToSet(FirstLevels(t, e, n)) <=> Within(t, e, n, x)}
<1>1. 0 \in T
  <2>1. ToSet(Entry(e)) = IF e = "node" THEN {Root} ELSE {}
    BY DEF Entry, ToSet
  <2> QED
    BY <2>1, FirstLevelsGrow DEF Within
<1>2. ASSUME NEW n \in 0..MaxDepth, n \in T PROVE n + 1 \in T
  <2>1. FirstLevels(t, e, n + 1) = FirstLevels(t, e, n) \o LevelsOf(t)[n]
    BY FirstLevelsGrow
  <2>2. FirstLevels(t, e, n) \in Seq(Places) /\ LevelsOf(t)[n] \in Seq(Places)
    <3>1. n \in 0..(MaxDepth + 1)
      BY <1>0
    <3> QED
      BY <3>1, FirstLevelsGrow, LevelTyped
  <2>3. ToSet(FirstLevels(t, e, n + 1)) = ToSet(FirstLevels(t, e, n)) \cup ToSet(LevelsOf(t)[n])
    BY <2>1, <2>2, RangeConcat
  <2>4. \A k : k \in 0..((n + 1) - 1) <=> k \in 0..(n - 1) \/ k = n
    BY <1>0
  <2>5. \A x : Within(t, e, n + 1, x) <=> Within(t, e, n, x) \/ x \in ToSet(LevelsOf(t)[n])
    BY <2>4 DEF Within
  <2> QED
    BY <1>0, <1>2, <2>3, <2>5
<1>3. \A n \in 0..(MaxDepth + 1) : n \in T
  <2>1. \A n \in 0..((MaxDepth + 1) - 1) : n \in T => n + 1 \in T
    BY <1>0, <1>2
  <2> HIDE DEF T
  <2> QED
    BY <1>0, <1>1, <2>1, Inductive
<1> QED
  BY <1>3

LEMMA FirstLevelsDistinct ==
  ASSUME NEW t, Tree(t), NEW e
  PROVE  \A n \in 0..(MaxDepth + 1) : Distinct(FirstLevels(t, e, n))
<1>0. MaxDepth \in Nat /\ Root \notin Nodes
  BY WalkAssumption
<1> DEFINE T == {n \in Nat : Distinct(FirstLevels(t, e, n))}
<1>1. 0 \in T
  BY FirstLevelsGrow DEF Entry, Distinct
<1>2. ASSUME NEW n \in 0..MaxDepth, n \in T PROVE n + 1 \in T
  <2>0. n \in 0..(MaxDepth + 1)
    BY <1>0
  <2>1. FirstLevels(t, e, n + 1) = FirstLevels(t, e, n) \o LevelsOf(t)[n]
    BY FirstLevelsGrow
  <2>2. FirstLevels(t, e, n) \in Seq(Places) /\ LevelsOf(t)[n] \in Seq(Places)
        /\ ToSet(LevelsOf(t)[n]) \subseteq Nodes
    BY <2>0, FirstLevelsGrow, LevelTyped
  <2>3. Distinct(LevelsOf(t)[n])
    BY LevelsUnfold, LevelsDistinct
  <2>4. ASSUME NEW x, x \in ToSet(FirstLevels(t, e, n)), x \in ToSet(LevelsOf(t)[n]) PROVE FALSE
    <3>1. Within(t, e, n, x)
      BY <2>0, <2>4, FirstLevelsHold
    <3>2. x # Root
      BY <1>0, <2>2, <2>4
    <3>3. PICK k \in 0..(n - 1) : x \in ToSet(LevelsOf(t)[k])
      BY <3>1, <3>2 DEF Within
    <3>4. k \in 0..MaxDepth /\ k # n
      BY <1>0
    <3> QED
      BY <2>4, <3>3, <3>4, LevelsUnfold, LevelsApart
  <2>5. ToSet(FirstLevels(t, e, n)) \cap ToSet(LevelsOf(t)[n]) = {}
    BY <2>4
  <2>6. Distinct(FirstLevels(t, e, n))
    BY <1>2
  <2> DEFINE u == FirstLevels(t, e, n)
             v == LevelsOf(t)[n]
  <2>7. u \in Seq(Places) /\ v \in Seq(Places) /\ Distinct(u) /\ Distinct(v)
        /\ ToSet(u) \cap ToSet(v) = {}
    BY <2>2, <2>3, <2>5, <2>6
  <2> HIDE DEF u, v, T
  <2>8. Distinct(u \o v)
    BY <2>7, DistinctConcat
  <2>9. FirstLevels(t, e, n + 1) = u \o v
    BY <2>1 DEF u, v
  <2>10. Distinct(FirstLevels(t, e, n + 1))
    BY <2>8, <2>9, Zenon
  <2> QED
    BY <1>0, <2>10 DEF T
<1>3. \A n \in 0..(MaxDepth + 1) : n \in T
  <2>1. \A n \in 0..((MaxDepth + 1) - 1) : n \in T => n + 1 \in T
    BY <1>0, <1>2
  <2> HIDE DEF T
  <2> QED
    BY <1>0, <1>1, <2>1, Inductive
<1> QED
  BY <1>3

\* The first levels begin the whole.
LEMMA FirstLevelsSub ==
  ASSUME NEW t, Tree(t), NEW e
  PROVE  \A n \in 0..(MaxDepth + 1) : Sub(FirstLevels(t, e, n), FirstLevels(t, e, MaxDepth + 1))
<1>0. MaxDepth \in Nat
  BY WalkAssumption
<1> DEFINE F(n) == FirstLevels(t, e, n)
           T == {k \in Nat : \A n \in 0..k : Sub(F(n), F(k))}
<1>1. 0 \in T
  <2>1. F(0) \in Seq(Places)
    BY <1>0, FirstLevelsGrow
  <2>2. Sub(F(0), F(0))
    BY <2>1, SubSame
  <2> QED
    BY <2>2
<1>2. ASSUME NEW k \in 0..MaxDepth, k \in T PROVE k + 1 \in T
  <2>0. k + 1 \in 0..(MaxDepth + 1) /\ k \in 0..(MaxDepth + 1)
    BY <1>0
  <2>1. F(k + 1) = F(k) \o LevelsOf(t)[k]
    BY FirstLevelsGrow
  <2>2. F(k) \in Seq(Places) /\ F(k + 1) \in Seq(Places) /\ LevelsOf(t)[k] \in Seq(Places)
    BY <2>0, FirstLevelsGrow, LevelTyped
  <2> SUFFICES ASSUME NEW n \in 0..(k + 1) PROVE Sub(F(n), F(k + 1))
    BY <1>0
  <2>3. CASE n = k + 1
    BY <2>2, <2>3, SubSame
  <2>4. CASE n # k + 1
    <3>1. n \in 0..k /\ n \in 0..(MaxDepth + 1)
      BY <1>0, <2>4
    <3>2. Sub(F(n), F(k)) /\ F(n) \in Seq(Places)
      BY <1>2, <3>1, FirstLevelsGrow
    <3>3. Sub(<<>>, LevelsOf(t)[k])
      BY <2>2, SubEmpty
    <3>4. <<>> \in Seq(Places)
      OBVIOUS
    <3> HIDE DEF F
    <3>5. Sub(F(n) \o <<>>, F(k) \o LevelsOf(t)[k])
      BY <2>2, <3>2, <3>3, <3>4, SubConcat
    <3> QED
      BY <2>1, <3>2, <3>5, ConcatEmptySeq
  <2> QED
    BY <2>3, <2>4
<1>3. \A k \in 0..(MaxDepth + 1) : k \in T
  <2>1. \A k \in 0..((MaxDepth + 1) - 1) : k \in T => k + 1 \in T
    BY <1>0, <1>2
  <2> HIDE DEF T
  <2> QED
    BY <1>0, <1>1, <2>1, Inductive
<1>4. MaxDepth + 1 \in T
  BY <1>0, <1>3
<1> QED
  BY <1>4

-----------------------------------------------------------------------------
(* What is below a set of nodes.                                           *)

LEMMA BelowHas ==
  ASSUME NEW t, Tree(t), NEW S, S \subseteq Nodes, NEW p \in S \cup Below(t, S),
         NEW n \in ToSet(t[p])
  PROVE  n \in Below(t, S)
<1>1. p \in Nodes /\ n \in Nodes
  BY Children DEF Below, Places
<1>2. ASSUME NEW C \in SUBSET Nodes, ChildrenOf(t, S \cup C) \subseteq C PROVE n \in C
  <2>1. p \in S \cup C
    BY <1>2 DEF Below
  <2> QED
    BY <1>2, <2>1 DEF ChildrenOf
<1> QED
  BY <1>1, <1>2 DEF Below

LEMMA BelowOnly ==
  ASSUME NEW t, Tree(t), NEW S, S \subseteq Nodes, NEW n \in Below(t, S)
  PROVE  \E p \in S \cup Below(t, S) : n \in ToSet(t[p])
<1> SUFFICES ASSUME \A p \in S \cup Below(t, S) : n \notin ToSet(t[p]) PROVE FALSE
  OBVIOUS
<1> DEFINE C == Below(t, S) \ {n}
<1>1. C \in SUBSET Nodes /\ C \subseteq Below(t, S)
  BY DEF Below
<1>2. ASSUME NEW m \in ChildrenOf(t, S \cup C) PROVE m \in C
  <2>1. PICK p \in S \cup C : m \in ToSet(t[p])
    BY DEF ChildrenOf
  <2>2. p \in S \cup Below(t, S)
    BY <1>1
  <2> QED
    BY <2>1, <2>2, BelowHas
<1>3. n \in C
  <2> HIDE DEF C
  <2> QED
    BY <1>1, <1>2 DEF Below
<1> QED
  BY <1>3

LEMMA BelowNone ==
  ASSUME NEW t
  PROVE  Below(t, {}) = {}
<1>1. {} \in SUBSET Nodes /\ ChildrenOf(t, {} \cup {}) \subseteq {}
  BY DEF ChildrenOf
<1> QED
  BY <1>1 DEF Below

LEMMA BelowMore ==
  ASSUME NEW t, NEW S, NEW R, S \subseteq R
  PROVE  Below(t, S) \subseteq Below(t, R)
<1>1. \A C : ChildrenOf(t, S \cup C) \subseteq ChildrenOf(t, R \cup C)
  BY DEF ChildrenOf
<1> QED
  BY <1>1 DEF Below

\* What lies below nodes of one level lies on later levels.
LEMMA BelowLater ==
  ASSUME NEW t, Tree(t), NEW S, S \subseteq Nodes, NEW d \in 0..MaxDepth,
         NEW F, F \subseteq ToSet(LevelsOf(t)[d]),
         NEW k \in 0..d, NEW n \in ToSet(LevelsOf(t)[k]), n \in Below(t, S \cup F)
  PROVE  n \in Below(t, S)
<1> DEFINE r == LevelsOf(t)
           Upper == {m \in Nodes : \E j \in 0..d : m \in ToSet(r[j])}
           C == Below(t, S) \cup (Nodes \ Upper)
<1>0. MaxDepth \in Nat /\ LevelledBy(r, t) /\ Root \notin Nodes
  BY WalkAssumption, LevelsUnfold
<1>1. F \subseteq Nodes
  BY LevelTyped
<1>2. C \in SUBSET Nodes
  BY DEF Below
<1>3. ASSUME NEW p \in S \cup F \cup C, NEW m \in ToSet(t[p]), m \notin Below(t, S), m \in Upper
      PROVE  FALSE
  <2>1. p \in Nodes /\ p \in Places /\ Root \in Places /\ p # Root
    BY <1>0, <1>1, <1>2 DEF Places
  <2>2. p \notin S \cup Below(t, S)
    BY <1>3, BelowHas
  <2>3. PICK j \in 0..d : m \in ToSet(r[j])
    BY <1>3
  <2>4. CASE j = 0
    BY <1>0, <1>3, <2>1, <2>3, <2>4, OneParent DEF LevelledBy
  <2>5. CASE j # 0
    <3>1. j \in 1..MaxDepth /\ j - 1 \in 0..MaxDepth /\ j - 1 \in 0..d /\ j - 1 # d
      BY <1>0, <2>5
    <3>2. r[j] = NextLevel(t, r[j - 1]) /\ r[j - 1] \in Seq(Nodes)
      BY <1>0, <3>1 DEF LevelledBy
    <3>3. PICK q \in ToSet(r[j - 1]) : m \in ToSet(t[q])
      BY <2>3, <3>2, NextLevelHolds DEF ChildrenOf
    <3>4. q \in Places
      BY <3>2, InRange DEF Places
    <3>5. p = q
      BY <1>3, <2>1, <3>3, <3>4, OneParent
    <3>6. p \in Upper
      BY <2>1, <3>1, <3>3, <3>5
    <3>7. p \in F
      BY <1>3, <2>2, <3>6
    <3> QED
      BY <1>0, <3>1, <3>3, <3>5, <3>7, LevelsApart
  <2> QED
    BY <2>4, <2>5
<1>4. ChildrenOf(t, (S \cup F) \cup C) \subseteq C
  <2>1. ASSUME NEW m \in ChildrenOf(t, (S \cup F) \cup C) PROVE m \in C
    <3>1. PICK p \in S \cup F \cup C : m \in ToSet(t[p])
      BY DEF ChildrenOf
    <3>2. p \in Places
      BY <1>1, <1>2 DEF Places
    <3>3. m \in Nodes
      BY <3>1, <3>2, Children
    <3> HIDE DEF Upper
    <3> QED
      BY <1>3, <3>1, <3>3
  <2> QED
    BY <2>1
<1>5. n \in C
  <2> HIDE DEF C
  <2> QED
    BY <1>2, <1>4 DEF Below
<1>6. n \in Upper
  <2>1. k \in 0..MaxDepth
    BY <1>0
  <2> QED
    BY <2>1, LevelTyped
<1> QED
  BY <1>5, <1>6

-----------------------------------------------------------------------------
(* The order of a level.                                                   *)

ChildOf(t, p) == {n \in Nodes : ParentOf(t, n) = p}
\* OrderLevel, of any tree.
Sorted(t, next, parents) ==
  IF Len(parents) < 2 THEN next
  ELSE FlattenSeq([i \in 1..Len(parents) |-> Keep(next, ChildOf(t, parents[i]))])

LEMMA NextLevelOfSome ==
  ASSUME NEW t, Tree(t), NEW s \in Seq(Nodes), NEW T, NEW A, A \subseteq Nodes, A \subseteq T
  PROVE  Keep(NextLevel(t, Keep(s, T)), ChildrenOf(t, A)) = Keep(NextLevel(t, s), ChildrenOf(t, A))
<1> DEFINE CA == ChildrenOf(t, A)
           U == {r \in Seq(Nodes) : Keep(NextLevel(t, Keep(r, T)), CA) = Keep(NextLevel(t, r), CA)}
<1>1. <<>> \in U
  BY KeepEmpty
<1>2. ASSUME NEW r \in Seq(Nodes), NEW x \in Nodes, r \in U PROVE Append(r, x) \in U
  <2> DEFINE k == Keep(r, T)
             c == t[x]
             m == NextLevel(t, r)
             l == NextLevel(t, k)
  <2>1. k \in Seq(Nodes) /\ c \in Seq(Nodes) /\ Append(r, x) \in Seq(Nodes)
    BY KeepIn, AppendProperties DEF Tree, Places
  <2>2. NextLevel(t, Append(r, x)) = m \o c /\ m \in Seq(Nodes)
    BY NextLevelAppend
  <2>3. Keep(l, CA) = Keep(m, CA)
    BY <1>2
  <2>4. l \in Seq(Nodes) /\ NextLevel(t, Append(k, x)) = l \o c
    <3> HIDE DEF k
    <3> QED
      BY <2>1, NextLevelAppend
  <2>5. CASE x \in T
    <3>1. Keep(Append(r, x), T) = Append(k, x)
      BY <2>5, KeepTakes
    <3>0. c \in Seq(Nodes) /\ m \in Seq(Nodes) /\ l \in Seq(Nodes)
      BY <2>1, <2>2, <2>4
    <3> HIDE DEF k, c, m, l, CA, U
    <3>2. Keep(l, CA) = Keep(m, CA)
      BY <2>3
    <3>3. Keep(l \o c, CA) = Keep(m \o c, CA)
      BY <3>0, <3>2, KeepConcatSame
    <3>4. Append(r, x) \in Seq(Nodes) /\ NextLevel(t, Append(k, x)) = l \o c
          /\ NextLevel(t, Append(r, x)) = m \o c
      BY <2>1, <2>2, <2>4
    <3> QED
      BY <3>1, <3>3, <3>4 DEF U
  <2>6. CASE x \notin T
    <3>1. Keep(Append(r, x), T) = k
      BY <2>6, KeepSkips
    <3>2. \A i \in 1..Len(c) : c[i] \notin CA
      <4> SUFFICES ASSUME NEW i \in 1..Len(c), c[i] \in CA PROVE FALSE
        OBVIOUS
      <4>1. c[i] \in ToSet(t[x]) /\ x \in Places
        BY <2>1, InRange DEF Places
      <4>2. PICK a \in A : c[i] \in ToSet(t[a])
        BY DEF ChildrenOf
      <4>3. a \in Places /\ a # x
        BY <2>6 DEF Places
      <4> QED
        BY <4>1, <4>2, <4>3, OneParent
    <3>0. c \in Seq(Nodes) /\ m \in Seq(Nodes)
      BY <2>1, <2>2
    <3> HIDE DEF k, c, m, l, CA, U
    <3>3. Keep(c, CA) = <<>>
      BY <3>0, <3>2, KeepNone
    <3>4. Keep(m \o c, CA) = Keep(m, CA)
      BY <3>0, <3>3, KeepConcatNone
    <3>5. Append(r, x) \in Seq(Nodes) /\ NextLevel(t, k) = l
          /\ NextLevel(t, Append(r, x)) = m \o c /\ Keep(l, CA) = Keep(m, CA)
      BY <2>1, <2>2, <2>3 DEF l
    <3> QED
      BY <3>1, <3>4, <3>5 DEF U
  <2> QED
    BY <2>5, <2>6
<1>3. \A r \in Seq(Nodes) : r \in U
  <2> HIDE DEF U
  <2> QED
    BY <1>1, <1>2, SequenceInductive
<1> QED
  BY <1>3

\* Of some parents, A have had their children listed, in any order; sorted they
\* stand as in the level below.
Listed(t, next, parents, A) ==
  /\ \A n \in ToSet(next) : ParentOf(t, n) \in ToSet(parents)
  /\ \A p \in ToSet(parents) : Keep(next, ChildOf(t, p)) = IF p \in A THEN t[p] ELSE <<>>

LEMMA SortedLevel ==
  ASSUME NEW t, Tree(t), NEW s \in Seq(Nodes), NEW T, NEW A, A \subseteq Nodes, A \subseteq T,
         NEW next \in Seq(Nodes), Listed(t, next, Keep(s, T), A)
  PROVE  Sorted(t, next, Keep(s, T)) = Keep(NextLevel(t, s), ChildrenOf(t, A))
<1> DEFINE CA == ChildrenOf(t, A)
           lv == Keep(s, T)
           n == Len(lv)
           ss == [i \in 1..n |-> Keep(next, ChildOf(t, lv[i]))]
           cs == [i \in 1..n |-> t[lv[i]]]
           Q == Seq(Nodes)
<1>0. lv \in Seq(Nodes) /\ n \in Nat /\ \A i \in 1..n : lv[i] \in Nodes /\ lv[i] \in ToSet(lv)
  BY KeepIn, LenProperties, ElementOfSeq, InRange
<1>1. ASSUME NEW p \in ToSet(lv) PROVE Keep(t[p], CA) = Keep(next, ChildOf(t, p))
  <2>1. p \in Nodes /\ p \in Places /\ t[p] \in Seq(Nodes)
    BY <1>0, InRange DEF Places, Tree
  <2>2. Keep(next, ChildOf(t, p)) = IF p \in A THEN t[p] ELSE <<>>
    BY DEF Listed
  <2> DEFINE c == t[p]
  <2>3. \A i \in 1..Len(c) : c[i] \in ToSet(t[p])
    BY <2>1, InRange
  <2>4. CASE p \in A
    <3>1. \A i \in 1..Len(c) : c[i] \in CA
      BY <2>3, <2>4 DEF ChildrenOf
    <3> HIDE DEF c, CA
    <3>2. Keep(c, CA) = c
      BY <2>1, <3>1, KeepAll DEF c
    <3> QED
      BY <2>2, <2>4, <3>2 DEF c
  <2>5. CASE p \notin A
    <3>1. \A i \in 1..Len(c) : c[i] \notin CA
      <4> SUFFICES ASSUME NEW i \in 1..Len(c), c[i] \in CA PROVE FALSE
        OBVIOUS
      <4>1. PICK a \in A : c[i] \in ToSet(t[a])
        BY DEF ChildrenOf
      <4>2. a \in Places /\ a # p
        BY <2>5 DEF Places
      <4> QED
        BY <2>1, <2>3, <4>1, <4>2, OneParent
    <3> HIDE DEF c, CA
    <3>2. Keep(c, CA) = <<>>
      BY <2>1, <3>1, KeepNone DEF c
    <3> QED
      BY <2>2, <2>5, <3>2 DEF c
  <2> QED
    BY <2>4, <2>5
<1>2. cs \in Seq(Q) /\ Len(cs) = n /\ \A i \in 1..n : cs[i] = t[lv[i]]
  <2>1. \A i \in 1..n : t[lv[i]] \in Q
    BY <1>0 DEF Tree, Places
  <2> HIDE DEF lv, n
  <2> QED
    BY <1>0, <2>1
<1>3. Keep(NextLevel(t, lv), CA) = FlattenSeq(ss)
  <2>1. NextLevel(t, lv) = FlattenSeq(cs)
    BY DEF NextLevel
  <2> HIDE DEF cs, Q, lv, n, CA
  <2>2. Keep(FlattenSeq(cs), CA) = FlattenSeq([i \in 1..Len(cs) |-> Keep(cs[i], CA)])
    BY <1>2, FlattenKeep DEF Q
  <2>3. \A i \in 1..n : Keep(cs[i], CA) = Keep(next, ChildOf(t, lv[i]))
    BY <1>0, <1>1, <1>2
  <2>4. [i \in 1..Len(cs) |-> Keep(cs[i], CA)] = ss
    BY <1>2, <2>3
  <2> HIDE DEF ss
  <2> QED
    BY <2>1, <2>2, <2>4
<1>4. Sorted(t, next, lv) = FlattenSeq(ss)
  <2>1. CASE n = 0
    <3>1. lv = <<>>
      BY <1>0, <2>1, EmptySeq
    <3>2. ToSet(next) = {}
      BY <3>1, RangeEmpty DEF Listed
    <3>3. next = <<>>
      <4>1. \A i \in 1..Len(next) : FALSE
        BY <3>2, InRange
      <4>2. Len(next) \in Nat
        BY LenProperties
      <4>3. Len(next) = 0
        BY <4>1, <4>2
      <4> QED
        BY <4>3, EmptySeq
    <3>4. ss = <<>>
      BY <2>1
    <3>5. FlattenSeq(ss) = <<>>
      BY <3>4, FlattenEmpty
    <3> QED
      BY <2>1, <3>3, <3>5 DEF Sorted
  <2>2. CASE n = 1
    <3> DEFINE k == Keep(next, ChildOf(t, lv[1]))
    <3>1. ss = <<k>>
      BY <2>2
    <3>2. \A i \in 1..Len(next) : next[i] \in ChildOf(t, lv[1])
      <4> SUFFICES ASSUME NEW i \in 1..Len(next) PROVE next[i] \in ChildOf(t, lv[1])
        OBVIOUS
      <4>1. next[i] \in Nodes /\ next[i] \in ToSet(next)
        BY ElementOfSeq, InRange
      <4>2. ParentOf(t, next[i]) \in ToSet(lv)
        BY <4>1 DEF Listed
      <4>3. ParentOf(t, next[i]) = lv[1]
        <5> HIDE DEF lv
        <5>1. PICK j \in 1..Len(lv) : lv[j] = ParentOf(t, next[i])
          BY <1>0, <4>2, InRange
        <5>2. j = 1
          BY <2>2
        <5> QED
          BY <5>1, <5>2
      <4> QED
        BY <4>1, <4>3 DEF ChildOf
    <3> HIDE DEF ss, lv
    <3>3. k = next
      BY <3>2, KeepAll
    <3>4. FlattenSeq(Append(<<>>, next)) = FlattenSeq(<<>>) \o next
      <4>1. <<>> \in Seq(Seq(Nodes))
        OBVIOUS
      <4> QED
        BY <4>1, FlattenAppend
    <3>5. Append(<<>>, next) = <<next>> /\ <<>> \o next = next
      BY ConcatEmptySeq
    <3>6. FlattenSeq(ss) = next
      BY <3>1, <3>3, <3>4, <3>5, FlattenEmpty
    <3> QED
      BY <2>2, <3>6 DEF Sorted
  <2>3. CASE n # 0 /\ n # 1
    <3>1. ~(n < 2)
      <4> HIDE DEF n
      <4> QED
        BY <1>0, <2>3
    <3> QED
      BY <3>1 DEF Sorted
  <2> QED
    BY <2>1, <2>2, <2>3
<1>5. Keep(NextLevel(t, lv), CA) = Keep(NextLevel(t, s), CA)
  BY NextLevelOfSome
<1> QED
  BY <1>3, <1>4, <1>5

LEMMA ListedMore ==
  ASSUME NEW t, Tree(t), NEW next \in Seq(Nodes), NEW parents \in Seq(Nodes), NEW A,
         Listed(t, next, parents, A), NEW id \in ToSet(parents), id \notin A
  PROVE  next \o t[id] \in Seq(Nodes) /\ Listed(t, next \o t[id], parents, A \cup {id})
<1> DEFINE c == t[id]
<1>1. id \in Nodes /\ id \in Places /\ c \in Seq(Nodes) /\ ToSet(parents) \subseteq Places
  BY InRange DEF Places, Tree
<1>2. \A n \in ToSet(c) : ParentOf(t, n) = id
  BY <1>1, ParentIs
<1>3. next \o c \in Seq(Nodes) /\ ToSet(next \o c) = ToSet(next) \cup ToSet(c)
  BY <1>1, ConcatProperties, RangeConcat
<1>4. \A n \in ToSet(next \o c) : ParentOf(t, n) \in ToSet(parents)
  BY <1>2, <1>3 DEF Listed
<1>5. ASSUME NEW p \in ToSet(parents)
      PROVE  Keep(next \o c, ChildOf(t, p)) = IF p \in A \cup {id} THEN t[p] ELSE <<>>
  <2> DEFINE R == ChildOf(t, p)
  <2>1. Keep(next, R) = IF p \in A THEN t[p] ELSE <<>>
    BY DEF Listed
  <2>2. \A i \in 1..Len(c) : c[i] \in Nodes /\ ParentOf(t, c[i]) = id
    BY <1>1, <1>2, InRange, ElementOfSeq
  <2>3. CASE p = id
    <3>1. \A i \in 1..Len(c) : c[i] \in R
      BY <2>2, <2>3 DEF ChildOf
    <3> HIDE DEF c, R
    <3>2. Keep(c, R) = c
      BY <1>1, <3>1, KeepAll
    <3>3. Keep(next, R) = <<>>
      BY <2>1, <2>3
    <3>4. \A u, v \in Seq(Nodes) : Keep(u \o v, R) = Keep(u, R) \o Keep(v, R)
      BY KeepConcat
    <3>5. Keep(next \o c, R) = Keep(next, R) \o Keep(c, R)
      BY <1>1, <3>4
    <3>6. <<>> \o c = c
      BY <1>1, ConcatEmptySeq
    <3>7. Keep(next \o c, R) = c
      BY <3>2, <3>3, <3>5, <3>6, Zenon
    <3> QED
      BY <2>3, <3>7 DEF c, R
  <2>4. CASE p # id
    <3>1. \A i \in 1..Len(c) : c[i] \notin R
      BY <2>2, <2>4 DEF ChildOf
    <3> HIDE DEF c, R
    <3>2. Keep(c, R) = <<>>
      BY <1>1, <3>1, KeepNone
    <3>3. Keep(next \o c, R) = Keep(next, R)
      BY <1>1, <3>2, KeepConcatNone
    <3> QED
      BY <2>1, <2>4, <3>3 DEF R
  <2> QED
    BY <2>3, <2>4
<1> QED
  BY <1>3, <1>4, <1>5 DEF Listed

\* However much of a level has been listed, sorted it is a part of the next.
LEMMA PartSorted ==
  ASSUME NEW t, Tree(t), NEW d \in 0..(MaxDepth - 1), NEW T, NEW A,
         A \subseteq ToSet(Keep(LevelsOf(t)[d], T)),
         NEW next \in Seq(Nodes), Listed(t, next, Keep(LevelsOf(t)[d], T), A)
  PROVE  /\ Sorted(t, next, Keep(LevelsOf(t)[d], T)) = Keep(LevelsOf(t)[d + 1], ChildrenOf(t, A))
         /\ Sorted(t, next, Keep(LevelsOf(t)[d], T)) \in Seq(Nodes)
         /\ Sub(Sorted(t, next, Keep(LevelsOf(t)[d], T)), LevelsOf(t)[d + 1])
<1> DEFINE s == LevelsOf(t)[d]
           u == LevelsOf(t)[d + 1]
<1>1. MaxDepth \in Nat /\ d \in 0..MaxDepth /\ d + 1 \in 1..MaxDepth /\ d + 1 \in 0..MaxDepth
      /\ (d + 1) - 1 = d
  BY WalkAssumption
<1>2. s \in Seq(Nodes) /\ u \in Seq(Nodes) /\ u = NextLevel(t, s)
  BY <1>1, LevelsUnfold DEF LevelledBy
<1>3. A \subseteq Nodes /\ A \subseteq T
  BY <1>2, RangeKeep, InRange
<1> HIDE DEF s, u
<1>4. Sorted(t, next, Keep(s, T)) = Keep(NextLevel(t, s), ChildrenOf(t, A))
  BY <1>2, <1>3, SortedLevel DEF s
<1>5. Keep(u, ChildrenOf(t, A)) \in Seq(Nodes) /\ Sub(Keep(u, ChildrenOf(t, A)), u)
  BY <1>2, KeepIn, SubKeep
<1> QED
  BY <1>2, <1>4, <1>5 DEF s, u

Outside(t, S) == Places \ Below(t, S)

\* S were given up above level d; F of what is left of it have failed; next
\* came in answer.
GivenUp(t, d, S) == S \subseteq Nodes /\ \A p \in S : \E k \in 0..(d - 1) : p \in ToSet(LevelsOf(t)[k])
LeftOf(t, d, S) == Keep(LevelsOf(t)[d], Outside(t, S))
CameFor(t, d, S, F, next) ==
  /\ F \subseteq ToSet(LeftOf(t, d, S)) /\ next \in Seq(Nodes)
  /\ Listed(t, next, LeftOf(t, d, S), ToSet(LeftOf(t, d, S)) \ F)

\* The level below.
LEMMA Descent ==
  ASSUME NEW t, Tree(t), NEW d \in 0..(MaxDepth - 1), NEW S, GivenUp(t, d, S),
         NEW F, NEW next, CameFor(t, d, S, F, next)
  PROVE  Sorted(t, next, LeftOf(t, d, S)) = LeftOf(t, d + 1, S \cup F)
<1> USE DEF GivenUp, CameFor, LeftOf
<1> DEFINE s == LevelsOf(t)[d]
           u == LevelsOf(t)[d + 1]
           A == ToSet(Keep(s, Outside(t, S))) \ F
<1>1. MaxDepth \in Nat /\ d \in 0..MaxDepth /\ d + 1 \in 1..MaxDepth /\ d + 1 \in 0..MaxDepth
      /\ (d + 1) - 1 = d /\ d \in 0..d
  BY WalkAssumption
<1>2. s \in Seq(Nodes) /\ u \in Seq(Nodes) /\ u = NextLevel(t, s) /\ ToSet(s) \subseteq Nodes
      /\ ToSet(u) \subseteq Nodes
  BY <1>1, LevelsUnfold, InRange DEF LevelledBy
<1>3. A \subseteq ToSet(s) /\ A \cap Below(t, S) = {} /\ A \cap F = {} /\ F \subseteq ToSet(s)
      /\ \A p \in ToSet(s) : p \notin Below(t, S) /\ p \notin F => p \in A
  <2>1. ToSet(Keep(s, Outside(t, S))) = ToSet(s) \cap Outside(t, S)
    BY <1>2, RangeKeep
  <2> QED
    BY <1>2, <2>1 DEF Outside, Places
<1>4. Sorted(t, next, Keep(s, Outside(t, S))) = Keep(u, ChildrenOf(t, A))
  <2>1. A \subseteq ToSet(Keep(s, Outside(t, S))) /\ Listed(t, next, Keep(s, Outside(t, S)), A)
    OBVIOUS
  <2> HIDE DEF A
  <2> QED
    BY <2>1, PartSorted
<1> HIDE DEF A
<1>5. ASSUME NEW n \in ToSet(u) PROVE n \in ChildrenOf(t, A) <=> n \in Outside(t, S \cup F)
  <2>0. n \in Places /\ S \cup F \subseteq Nodes
    BY <1>2, <1>3 DEF Places
  <2>1. ASSUME n \in ChildrenOf(t, A), n \in Below(t, S \cup F) PROVE FALSE
    <3>1. PICK a \in A : n \in ToSet(t[a])
      BY <2>1 DEF ChildrenOf
    <3>2. PICK q \in (S \cup F) \cup Below(t, S \cup F) : n \in ToSet(t[q])
      BY <2>0, <2>1, BelowOnly
    <3>3. a \in Places /\ q \in Places
      BY <1>2, <1>3, <2>0 DEF Places, Below
    <3>4. a = q /\ a \in ToSet(s)
      BY <1>3, <3>1, <3>2, <3>3, OneParent
    <3>5. a \notin S
      <4> SUFFICES ASSUME a \in S PROVE FALSE
        OBVIOUS
      <4>1. PICK k \in 0..(d - 1) : a \in ToSet(LevelsOf(t)[k])
        OBVIOUS
      <4>2. k \in 0..MaxDepth /\ k # d
        BY <1>1
      <4> QED
        BY <1>1, <3>4, <4>1, <4>2, LevelsUnfold, LevelsApart
    <3>6. a \in Below(t, S \cup F)
      BY <1>3, <3>2, <3>4, <3>5
    <3>7. a \in Below(t, S)
      BY <1>1, <1>3, <3>4, <3>6, BelowLater
    <3> QED
      BY <1>3, <3>7
  <2>2. ASSUME n \notin Below(t, S \cup F) PROVE n \in ChildrenOf(t, A)
    <3>1. PICK p \in ToSet(s) : n \in ToSet(t[p])
      BY <1>2, NextLevelHolds DEF ChildrenOf
    <3>2. p \notin (S \cup F) \cup Below(t, S \cup F)
      BY <2>0, <2>2, <3>1, BelowHas
    <3>3. p \notin Below(t, S)
      <4>1. Below(t, S) \subseteq Below(t, S \cup F)
        BY BelowMore
      <4> QED
        BY <3>2, <4>1
    <3>4. p \in A
      BY <1>3, <3>1, <3>2, <3>3
    <3> QED
      BY <3>1, <3>4 DEF ChildrenOf
  <2> QED
    BY <2>0, <2>1, <2>2 DEF Outside
<1>6. Keep(u, ChildrenOf(t, A)) = Keep(u, Outside(t, S \cup F))
  BY <1>2, <1>5, KeepSame
<1> QED
  BY <1>4, <1>6

\* The first n levels have nothing below F that is not below S.
StaysOut(t, e, n, S, F) ==
  Keep(FirstLevels(t, e, n), Outside(t, S)) = Keep(FirstLevels(t, e, n), Outside(t, S \cup F))

\* What was brought so far is not below what failed only now.
LEMMA StillOutside ==
  ASSUME NEW t, Tree(t), NEW e, NEW d \in 0..(MaxDepth - 1), NEW S \in SUBSET Nodes,
         NEW F \in SUBSET ToSet(LevelsOf(t)[d])
  PROVE  StaysOut(t, e, d + 1, S, F)
<1> USE DEF StaysOut
<1> DEFINE f == FirstLevels(t, e, d + 1)
<1>1. MaxDepth \in Nat /\ d \in 0..MaxDepth /\ d + 1 \in 0..(MaxDepth + 1) /\ Root \notin Nodes
  BY WalkAssumption
<1>2. f \in Seq(Places)
  BY <1>1, FirstLevelsGrow
<1>3. ASSUME NEW x \in ToSet(f) PROVE x \in Below(t, S) <=> x \in Below(t, S \cup F)
  <2>1. Within(t, e, d + 1, x)
    BY <1>1, FirstLevelsHold
  <2>2. CASE x = Root
    BY <1>1, <2>2 DEF Below
  <2>3. CASE x # Root
    <3>1. PICK k \in 0..((d + 1) - 1) : x \in ToSet(LevelsOf(t)[k])
      BY <2>1, <2>3 DEF Within
    <3>2. k \in 0..d
      BY <1>1
    <3>3. Below(t, S) \subseteq Below(t, S \cup F)
      BY BelowMore
    <3> QED
      BY <1>1, <3>1, <3>2, <3>3, BelowLater
  <2> QED
    BY <2>2, <2>3
<1>4. \A x \in ToSet(f) : x \in Outside(t, S) <=> x \in Outside(t, S \cup F)
  BY <1>3 DEF Outside
<1> QED
  BY <1>2, <1>4, KeepSame

\* A level all of which is left out ends the answer.
LEMMA NothingDeeper ==
  ASSUME NEW t, Tree(t), NEW e, NEW d \in 0..MaxDepth, NEW S, S \subseteq Nodes,
         Keep(LevelsOf(t)[d], Outside(t, S)) = <<>>
  PROVE  Keep(FirstLevels(t, e, d + 1), Outside(t, S))
           = Keep(FirstLevels(t, e, MaxDepth + 1), Outside(t, S))
<1> DEFINE R == Outside(t, S)
           l(k) == Keep(LevelsOf(t)[k], R)
           f(k) == Keep(FirstLevels(t, e, k + 1), R)
           T == {k \in Nat : k < d \/ (l(k) = <<>> /\ f(k) = f(d))}
<1>1. MaxDepth \in Nat /\ d \in Nat
  BY WalkAssumption
<1>2. 0 \in T
  BY <1>1
<1>3. ASSUME NEW k \in 0..(MaxDepth - 1), k \in T PROVE k + 1 \in T
  <2>1. k \in Nat /\ k + 1 \in 0..MaxDepth /\ k + 1 \in 1..MaxDepth /\ k \in 0..MaxDepth
        /\ (k + 1) - 1 = k /\ k + 1 \in 0..(MaxDepth + 1)
    BY <1>1
  <2>2. CASE k + 1 < d
    BY <2>1, <2>2
  <2>3. CASE k + 1 = d
    BY <2>1, <2>3
  <2>4. CASE ~(k + 1 < d) /\ k + 1 # d
    <3>1. l(k) = <<>> /\ f(k) = f(d)
      BY <1>1, <1>3, <2>1, <2>4
    <3>2. LevelsOf(t)[k] \in Seq(Nodes) /\ LevelsOf(t)[k + 1] = NextLevel(t, LevelsOf(t)[k])
          /\ LevelsOf(t)[k + 1] \in Seq(Nodes) /\ LevelsOf(t)[k + 1] \in Seq(Places)
      BY <2>1, LevelsUnfold, LevelTyped DEF LevelledBy
    <3>3. ToSet(LevelsOf(t)[k]) \subseteq Below(t, S)
      <4>1. ToSet(LevelsOf(t)[k]) \cap R = {}
        BY <3>1, <3>2, RangeKeep, RangeEmpty
      <4> QED
        BY <3>2, <4>1, InRange DEF Outside, Places
    <3> DEFINE u == LevelsOf(t)[k + 1]
    <3>4. \A i \in 1..Len(u) : u[i] \notin R
      <4>1. ASSUME NEW i \in 1..Len(u) PROVE u[i] \in Below(t, S)
        <5>1. u[i] \in ToSet(NextLevel(t, LevelsOf(t)[k]))
          BY <3>2, InRange
        <5>2. PICK p \in ToSet(LevelsOf(t)[k]) : u[i] \in ToSet(t[p])
          BY <3>2, <5>1, NextLevelHolds DEF ChildrenOf
        <5> QED
          BY <3>3, <5>2, BelowHas
      <4> QED
        BY <4>1 DEF Outside
    <3> DEFINE v == FirstLevels(t, e, k + 1)
    <3>5. v \in Seq(Places) /\ u \in Seq(Places) /\ u \in Seq(Nodes)
          /\ FirstLevels(t, e, (k + 1) + 1) = v \o u
      BY <2>1, <3>2, FirstLevelsGrow
    <3> HIDE DEF u, v, R
    <3>6. Keep(u, R) = <<>>
      BY <3>4, <3>5, KeepNone
    <3>7. Keep(v \o u, R) = Keep(v, R)
      BY <3>5, <3>6, KeepConcatNone
    <3>8. l(k + 1) = <<>> /\ f(k + 1) = f(k)
      BY <3>5, <3>6, <3>7 DEF u, v
    <3> HIDE DEF l, f
    <3> QED
      BY <2>1, <3>1, <3>8
  <2> QED
    BY <2>2, <2>3, <2>4
<1>4. \A k \in 0..MaxDepth : k \in T
  <2> HIDE DEF T
  <2> QED
    BY <1>1, <1>2, <1>3, Inductive
<1>5. MaxDepth \in T /\ ~(MaxDepth < d)
  BY <1>1, <1>4
<1> QED
  BY <1>5

-----------------------------------------------------------------------------
(* The inductive invariant.                                                *)

Levels == LevelsOf(tree)
Brought(n) == Keep(FirstLevels(tree, entry, n), Outside(tree, ToSet(skipped)))
\* The parents of this level whose children have arrived.
Answered == ToSet(level) \ (ToSet(todo) \cup ToSet(failedNow))

(* Before the first level there is the entry or nothing, and nothing skipped. *)
Beginning ==
  /\ pc \in {"start", "root", "rooted", "children"} => skipped = <<>> /\ depth = 0
  /\ pc \in {"start", "root"} => out = <<>>
  /\ pc \in {"root", "rooted"} => entry = "node"
  /\ pc \in {"rooted", "children"} => out = Entry(entry)

(* A level lacks what is below the skipped branches, as does what was brought. *)
AtLevel ==
  pc = "level" =>
    /\ level = Keep(Levels[depth], Outside(tree, ToSet(skipped)))
    /\ out = Brought(depth)

(* While a level's branches are fetched, what arrived is what was answered.   *)
Fetching == pc \in {"fetch", "wave", "waveSleep", "waveFetch"}
InLevel ==
  Fetching =>
    /\ depth < MaxDepth /\ level # <<>>
    /\ level = Keep(Levels[depth], Outside(tree, ToSet(skipped)))
    /\ out = Brought(depth + 1)
    /\ ToSet(todo) \subseteq ToSet(level) /\ ToSet(failedNow) \subseteq ToSet(level)
    /\ ToSet(todo) \cap ToSet(failedNow) = {}
    /\ pc \in {"wave", "waveSleep"} => todo = <<>>
    /\ Listed(tree, arrived, level, Answered)

(* What is skipped stands above the level at hand. *)
SkippedAbove ==
  pc = "level" \/ Fetching =>
    \A p \in ToSet(skipped) : \E k \in 0..(depth - 1) : p \in ToSet(Levels[k])

(* The answer. *)
AtEnd ==
  pc = "done" =>
    /\ reason = "complete" => out = Whole
    /\ reason = "skipped_branches" => out = Keep(Whole, Outside(tree, reported))
    /\ Sub(out, Whole)

IInv == TypeOK /\ Beginning /\ AtLevel /\ InLevel /\ SkippedAbove /\ AtEnd

LEMMA Typed ==
  ASSUME TypeOK
  PROVE  /\ Tree(tree) /\ MaxDepth \in Nat /\ limit \in Nat \ {0} /\ Root \notin Nodes
         /\ level \in Seq(Nodes) /\ todo \in Seq(Nodes) /\ arrived \in Seq(Nodes)
         /\ failedNow \in Seq(Nodes) /\ skipped \in Seq(Nodes) /\ out \in Seq(Places)
         /\ ToSet(level) \subseteq Nodes /\ ToSet(todo) \subseteq Nodes
         /\ ToSet(failedNow) \subseteq Nodes /\ ToSet(skipped) \subseteq Nodes
         /\ Len(out) \in Nat /\ Len(out) <= limit /\ raised \subseteq {"cancelled", "timeout"}
         /\ depth \in 0..MaxDepth
<1>1. /\ level \in Seq(Nodes) /\ todo \in Seq(Nodes) /\ arrived \in Seq(Nodes)
      /\ failedNow \in Seq(Nodes) /\ skipped \in Seq(Nodes) /\ out \in Seq(Places)
      /\ Len(out) <= limit
  BY DEF TypeOK, Places
<1>2. Len(out) \in Nat
  BY <1>1, LenProperties
<1>3. /\ Tree(tree) /\ MaxDepth \in Nat /\ limit \in Nat \ {0} /\ Root \notin Nodes
      /\ raised \subseteq {"cancelled", "timeout"} /\ depth \in 0..MaxDepth
  BY WalkAssumption, TreesTyped DEF TypeOK
<1> QED
  BY <1>1, <1>2, <1>3, InRange

LEMMA OrderIsSorted == \A next, parents : OrderLevel(next, parents) = Sorted(tree, next, parents)
  BY DEF OrderLevel, Sorted, ChildOf

LEMMA StatusRaised == Status \subseteq raised
  BY DEF Status

LEMMA Takes ==
  ASSUME NEW S, NEW s \in Seq(S), NEW n \in Nat
  PROVE  /\ Take(s, n) \in Seq(S) /\ Len(Take(s, n)) \in Nat /\ Len(Take(s, n)) <= n
         /\ Sub(Take(s, n), s)
         /\ Len(s) <= n => Take(s, n) = s
<1>1. Len(s) \in Nat
  BY LenProperties
<1>2. CASE n < Len(s)
  <2>1. Take(s, n) = SubSeq(s, 1, n)
    BY <1>2 DEF Take
  <2> QED
    BY <1>1, <1>2, <2>1, SubPrefix
<1>3. CASE ~(n < Len(s))
  <2>1. Take(s, n) = SubSeq(s, 1, Len(s))
    BY <1>3 DEF Take
  <2>2. SubSeq(s, 1, Len(s)) \in Seq(S) /\ Len(SubSeq(s, 1, Len(s))) = Len(s)
    BY <1>1, SubPrefix
  <2>3. \A i \in 1..Len(s) : SubSeq(s, 1, Len(s))[i] = s[i]
    BY <1>1
  <2>4. SubSeq(s, 1, Len(s)) = s
    BY <2>2, <2>3, SeqEqual
  <2>5. Len(s) <= n
    <3> DEFINE m == Len(s)
    <3>1. m \in Nat /\ ~(n < m)
      BY <1>1, <1>3
    <3> HIDE DEF m
    <3>2. m <= n
      BY <3>1
    <3> QED
      BY <3>2 DEF m
  <2>6. Take(s, n) = s
    BY <2>1, <2>4
  <2> QED
    BY <1>1, <2>5, <2>6, SubSame
<1> QED
  BY <1>2, <1>3

\* What stands within the first levels and the next one stands within the whole.
LEMMA PartOfWhole ==
  ASSUME NEW t, Tree(t), NEW e, NEW n \in 0..MaxDepth,
         NEW u \in Seq(Places), Sub(u, FirstLevels(t, e, n)),
         NEW v \in Seq(Nodes), Sub(v, LevelsOf(t)[n])
  PROVE  u \o v \in Seq(Places) /\ Sub(u \o v, FirstLevels(t, e, MaxDepth + 1))
<1> DEFINE f == FirstLevels(t, e, n)
           l == LevelsOf(t)[n]
           w == FirstLevels(t, e, MaxDepth + 1)
<1>1. n \in 0..(MaxDepth + 1) /\ n + 1 \in 0..(MaxDepth + 1) /\ Nodes \subseteq Places
  BY WalkAssumption DEF Places
<1>2. f \in Seq(Places) /\ l \in Seq(Places) /\ FirstLevels(t, e, n + 1) = f \o l
  BY <1>1, FirstLevelsGrow, LevelTyped
<1>3. v \in Seq(Places)
  BY <1>1, SeqWidens
<1>4. Sub(FirstLevels(t, e, n + 1), w)
  BY <1>1, FirstLevelsSub
<1>5. Sub(u, f) /\ Sub(v, l)
  OBVIOUS
<1> HIDE DEF f, l, w
<1>6. Sub(u \o v, f \o l)
  BY <1>2, <1>3, <1>5, SubConcat
<1>7. Sub(u \o v, w)
  BY <1>2, <1>4, <1>6, SubTrans
<1> QED
  BY <1>3, <1>7, ConcatProperties DEF w

LEMMA BroughtSub ==
  ASSUME TypeOK
  PROVE  \A n \in 0..(MaxDepth + 1) : Brought(n) \in Seq(Places) /\ Sub(Brought(n), FirstLevels(tree, entry, n))
BY Typed, FirstLevelsGrow, KeepIn, SubKeep DEF Brought

Stops == {"node_limit", "timeout", "cancelled", "error"}

\* A walk that is stopped answers a part of the whole, and says so.
LEMMA Stopped ==
  ASSUME TypeOK, NEW r \in Stops, NEW a \in Nodes \cup {Root, NoAnchor}, NEW dropped \in Seq(Nodes),
         End(r, a, dropped), UNCHANGED <<input, raised, depth, before, skipped>>,
         level' \in Seq(Nodes), todo' \in Seq(Nodes), arrived' \in Seq(Nodes),
         failedNow' \in Seq(Nodes),
         out' \in Seq(Places), Len(out') <= limit, Sub(out', Whole)
  PROVE  IInv'
<1>1. pc' = "done" /\ reason' = r /\ anchor' = a /\ reported' = ToSet(dropped)
  BY DEF End, Folded, Stops
<1>2. ToSet(dropped) \subseteq Nodes
  BY InRange
<1>3. Whole' = Whole
  BY DEF Whole, input
<1>4. TypeOK'
  BY <1>1, <1>2 DEF TypeOK, input, Stops, Reasons, Places
<1>5. AtEnd'
  BY <1>1, <1>3 DEF AtEnd, Stops
<1> QED
  BY <1>1, <1>4, <1>5 DEF IInv, Beginning, AtLevel, InLevel, SkippedAbove, Fetching

LEMMA EntrySub ==
  ASSUME TypeOK
  PROVE  /\ Entry(entry) \in Seq(Places) /\ Sub(Entry(entry), Whole)
         /\ <<>> \in Seq(Places) /\ Sub(<<>>, Whole)
         /\ entry = "node" => Entry(entry) = <<Root>>
         /\ FirstLevels(tree, entry, 0) = Entry(entry)
<1>1. 0 \in 0..(MaxDepth + 1) /\ MaxDepth + 1 \in 0..(MaxDepth + 1)
  BY Typed
<1>2. FirstLevels(tree, entry, 0) = Entry(entry) /\ FirstLevels(tree, entry, 0) \in Seq(Places)
      /\ Whole \in Seq(Places)
  BY <1>1, Typed, FirstLevelsGrow DEF Whole
<1>3. Sub(FirstLevels(tree, entry, 0), Whole)
  BY <1>1, Typed, FirstLevelsSub DEF Whole
<1> QED
  BY <1>2, <1>3, SubEmpty, EmptySeq DEF Entry

LEMMA InitIInv == Init => IInv
<1> SUFFICES ASSUME Init PROVE IInv
  OBVIOUS
<1>1. <<>> \in Seq(Nodes) /\ <<>> \in Seq(Nodes \cup {Root}) /\ Len(<<>>) = 0
  BY EmptySeq
<1>2. \A l \in Limits : 0 <= l
  BY WalkAssumption
<1>3. TypeOK
  BY <1>1, <1>2, WalkAssumption DEF Init, TypeOK, Reasons, NoAnchor
<1> QED
  BY <1>3 DEF Init, IInv, Beginning, AtLevel, InLevel, SkippedAbove, AtEnd, Fetching

-----------------------------------------------------------------------------
(* The root and its children.                                              *)

LEMMA StartStep == IInv /\ Start => IInv'
<1> SUFFICES ASSUME IInv, Start PROVE IInv'
  OBVIOUS
<1> USE DEF IInv
<1>1. out = <<>>
  BY DEF Start, Beginning
<1>2. CASE Status # {}
  <2>1. PICK r \in Status : End(r, RootAnchor, <<>>)
    BY <1>2 DEF Start
  <2>2. r \in Stops
    BY <2>1, StatusRaised, Typed DEF Stops
  <2>3. RootAnchor \in Nodes \cup {Root, NoAnchor} /\ <<>> \in Seq(Nodes)
    BY EmptySeq DEF RootAnchor
  <2>4. /\ UNCHANGED <<input, raised, depth, before, skipped>>
        /\ level' \in Seq(Nodes) /\ todo' \in Seq(Nodes) /\ arrived' \in Seq(Nodes)
        /\ failedNow' \in Seq(Nodes) /\ out' = <<>>
    BY <1>1, Typed DEF Start
  <2>5. out' \in Seq(Places) /\ Len(out') <= limit /\ Sub(out', Whole)
    BY <2>4, EntrySub, Typed
  <2> QED
    BY <2>1, <2>2, <2>3, <2>4, <2>5, Stopped
<1>3. CASE Status = {}
  <2>1. pc' = (IF entry = "node" THEN "root" ELSE "children") /\ UNCHANGED outcome
        /\ UNCHANGED <<input, raised, depth, level, out, todo, arrived, failedNow, before,
                 skipped>>
    BY <1>3 DEF Start
  <2>2. entry \in {"node", "top"}
    BY WalkAssumption DEF TypeOK
  <2>3. TypeOK'
    BY <2>1, <2>2 DEF TypeOK, input, outcome
  <2>4. Beginning'
    BY <2>1, <2>2, <1>1 DEF Beginning, input, outcome, Start, Entry
  <2> QED
    BY <2>1, <2>2, <2>3, <2>4 DEF AtLevel, InLevel, SkippedAbove, AtEnd, Fetching
<1> QED
  BY <1>2, <1>3

LEMMA RootReadStep == IInv /\ RootRead => IInv'
<1> SUFFICES ASSUME IInv, RootRead PROVE IInv'
  OBVIOUS
<1> USE DEF IInv
<1>1. out = <<>> /\ entry = "node" /\ skipped = <<>> /\ depth = 0
  BY DEF RootRead, Beginning
<1>2. /\ UNCHANGED <<input, raised, depth, level, todo, arrived, failedNow, before, skipped>>
      /\ level' \in Seq(Nodes) /\ todo' \in Seq(Nodes) /\ arrived' \in Seq(Nodes)
      /\ failedNow' \in Seq(Nodes)
  BY Typed DEF RootRead
<1>3. <<>> \in Seq(Nodes) /\ <<Root>> = Entry(entry) /\ Len(<<Root>>) = 1 /\ 1 <= limit /\ Len(<<>>) <= limit
  BY <1>1, Typed, EntrySub, EmptySeq
<1>4. CASE out' = <<Root>> /\ limit <= 1 /\ End("node_limit", Root, <<>>)
  <2>1. out' \in Seq(Places) /\ Len(out') <= limit /\ Sub(out', Whole)
    BY <1>3, <1>4, EntrySub
  <2>2. "node_limit" \in Stops /\ Root \in Nodes \cup {Root, NoAnchor}
    BY DEF Stops
  <2> QED
    BY <1>2, <1>3, <1>4, <2>1, <2>2, Stopped
<1>5. CASE out' = <<Root>> /\ pc' = "rooted" /\ UNCHANGED outcome
  <2>1. out' \in Seq(Places) /\ Len(out') <= limit
    BY <1>3, <1>5, EntrySub
  <2>2. TypeOK'
    BY <1>2, <1>5, <2>1 DEF TypeOK, input, outcome, Places
  <2>3. Beginning'
    BY <1>1, <1>2, <1>5 DEF Beginning, input, Entry
  <2> QED
    BY <1>2, <1>5, <2>2, <2>3 DEF AtLevel, InLevel, SkippedAbove, AtEnd, Fetching
<1>6. CASE End("error", NoAnchor, <<>>) /\ UNCHANGED out
  <2>1. out' \in Seq(Places) /\ Len(out') <= limit /\ Sub(out', Whole)
    BY <1>1, <1>3, <1>6, EntrySub
  <2>2. "error" \in Stops /\ NoAnchor \in Nodes \cup {Root, NoAnchor}
    BY DEF Stops
  <2> QED
    BY <1>2, <1>3, <1>6, <2>1, <2>2, Stopped
<1> QED
  BY <1>4, <1>5, <1>6 DEF RootRead

LEMMA StopAtRootStep == IInv /\ StopAtRoot => IInv'
<1> SUFFICES ASSUME IInv, StopAtRoot PROVE IInv'
  OBVIOUS
<1> USE DEF IInv
<1>1. out = <<>> \/ out = Entry(entry)
  BY DEF StopAtRoot, Beginning
<1>2. PICK r \in raised : End(r, RootAnchor, <<>>)
  BY DEF StopAtRoot
<1>3. r \in Stops
  BY Typed DEF Stops
<1>4. RootAnchor \in Nodes \cup {Root, NoAnchor} /\ <<>> \in Seq(Nodes)
  BY EmptySeq DEF RootAnchor
<1>5. /\ UNCHANGED <<input, raised, depth, before, skipped>>
      /\ level' \in Seq(Nodes) /\ todo' \in Seq(Nodes) /\ arrived' \in Seq(Nodes)
      /\ failedNow' \in Seq(Nodes) /\ out' = out
  BY Typed DEF StopAtRoot
<1>6. out' \in Seq(Places) /\ Len(out') <= limit /\ Sub(out', Whole)
  BY <1>1, <1>5, EntrySub, Typed
<1> QED
  BY <1>2, <1>3, <1>4, <1>5, <1>6, Stopped

LEMMA CheckedRootStep == IInv /\ CheckedRoot => IInv'
BY DEF IInv, CheckedRoot, TypeOK, input, outcome, Beginning, AtLevel, InLevel, SkippedAbove, AtEnd,
       Fetching

LEMMA RootChildrenStep == IInv /\ RootChildren => IInv'
<1> SUFFICES ASSUME IInv, RootChildren PROVE IInv'
  OBVIOUS
<1> USE DEF IInv
<1>1. out = Entry(entry) /\ skipped = <<>> /\ depth = 0
  BY DEF RootChildren, Beginning
<1>2. /\ UNCHANGED <<input, raised, depth, out, todo, arrived, failedNow, before, skipped>>
      /\ todo' \in Seq(Nodes) /\ arrived' \in Seq(Nodes) /\ failedNow' \in Seq(Nodes)
  BY Typed DEF RootChildren
<1>3. CASE pc' = "level" /\ level' = tree[Root] /\ UNCHANGED outcome
  <2>1. level' \in Seq(Nodes) /\ 0 \in 0..MaxDepth /\ Levels[0] = tree[Root]
    <3>1. Tree(tree) /\ MaxDepth \in Nat
      BY Typed
    <3>2. tree[Root] \in Seq(Nodes)
      BY <3>1 DEF Tree, Places
    <3>3. Levels[0] = tree[Root]
      BY <3>1, LevelsUnfold DEF LevelledBy, Levels
    <3> QED
      BY <1>3, <3>1, <3>2, <3>3
  <2>2. TypeOK'
    BY <1>2, <1>3, <2>1 DEF TypeOK, input, outcome
  <2>3. ToSet(skipped) = {} /\ Outside(tree, {}) = Places
    BY <1>1, RangeEmpty, BelowNone DEF Outside
  <2>4. level' = Keep(Levels[0], Places)
    <3>1. \A i \in 1..Len(Levels[0]) : Levels[0][i] \in Places
      BY <2>1, <1>3, ElementOfSeq DEF Places
    <3> QED
      BY <1>3, <2>1, <3>1, KeepAll
  <2>5. out = Brought(0)
    <3>1. FirstLevels(tree, entry, 0) = out /\ out \in Seq(Places)
      BY <1>1, EntrySub, Typed
    <3>2. \A i \in 1..Len(out) : out[i] \in Places
      BY <3>1, ElementOfSeq
    <3>3. Keep(out, Places) = out
      BY <3>1, <3>2, KeepAll
    <3> QED
      BY <2>3, <3>1, <3>3 DEF Brought
  <2>6. Levels' = Levels /\ \A n : Brought(n)' = Brought(n)
    BY <1>2 DEF Levels, Brought, input
  <2>7. AtLevel'
    BY <1>1, <1>2, <1>3, <2>3, <2>4, <2>5, <2>6 DEF AtLevel, input
  <2>8. SkippedAbove'
    BY <1>1, <1>2, <2>3 DEF SkippedAbove
  <2> QED
    BY <1>3, <2>2, <2>7, <2>8 DEF Beginning, InLevel, AtEnd, Fetching
<1>4. CASE End("error", NoAnchor, <<>>) /\ UNCHANGED level
  <2>1. out' \in Seq(Places) /\ Len(out') <= limit /\ Sub(out', Whole) /\ level' \in Seq(Nodes)
    BY <1>1, <1>2, <1>4, EntrySub, Typed
  <2>2. "error" \in Stops /\ NoAnchor \in Nodes \cup {Root, NoAnchor} /\ <<>> \in Seq(Nodes)
    BY EmptySeq DEF Stops
  <2> QED
    BY <1>2, <1>4, <2>1, <2>2, Stopped
<1> QED
  BY <1>3, <1>4 DEF RootChildren

-----------------------------------------------------------------------------
(* A level joins the answer.                                               *)

LEMMA LevelPlaces ==
  ASSUME TypeOK, NEW d \in 0..MaxDepth, NEW n \in ToSet(Levels[d])
  PROVE  AnchorOf(n) \in Nodes \cup {Root, NoAnchor}
<1>1. Tree(tree) /\ MaxDepth \in Nat /\ LevelledBy(Levels, tree)
  BY Typed, LevelsUnfold DEF Levels
<1>2. \E p \in Places : n \in ToSet(tree[p])
  <2>1. CASE d = 0
    BY <1>1, <2>1 DEF LevelledBy, Places
  <2>2. CASE d # 0
    <3>1. d \in 1..MaxDepth /\ d - 1 \in 0..MaxDepth
      BY <1>1, <2>2
    <3>2. Levels[d] = NextLevel(tree, Levels[d - 1]) /\ Levels[d - 1] \in Seq(Nodes)
      BY <1>1, <3>1 DEF LevelledBy
    <3>3. PICK p \in ToSet(Levels[d - 1]) : n \in ToSet(tree[p])
      BY <1>1, <3>2, NextLevelHolds DEF ChildrenOf
    <3> QED
      BY <3>2, <3>3, InRange DEF Places
  <2> QED
    BY <2>1, <2>2
<1>3. ParentOf(tree, n) \in Places
  BY <1>1, <1>2, ParentIs
<1> QED
  BY <1>3 DEF AnchorOf, Places

LEMMA LevelPart ==
  ASSUME TypeOK, level = Keep(Levels[depth], Outside(tree, ToSet(skipped)))
  PROVE  Levels[depth] \in Seq(Nodes) /\ Sub(level, Levels[depth])
         /\ ToSet(level) = ToSet(Levels[depth]) \cap Outside(tree, ToSet(skipped))
<1>1. Levels[depth] \in Seq(Nodes)
  BY Typed, LevelTyped DEF Levels
<1> QED
  BY <1>1, SubKeep, RangeKeep

\* What a level adds, as far as the cap lets it.
LEMMA LevelJoins ==
  ASSUME TypeOK, NEW n \in 0..MaxDepth, NEW l \in Seq(Nodes), Sub(l, Levels[n]), out = Brought(n),
         NEW v, v = Take(l, limit - Len(out))
  PROVE  /\ out \o v \in Seq(Places) /\ Len(out \o v) <= limit /\ Sub(out \o v, Whole)
         /\ limit - Len(out) \in Nat
         /\ Len(l) <= limit - Len(out) => v = l
<1>1. limit - Len(out) \in Nat /\ Len(out) \in Nat /\ limit \in Nat /\ Tree(tree) /\ out \in Seq(Places)
      /\ n \in 0..(MaxDepth + 1)
  BY Typed
<1>2. /\ v \in Seq(Nodes) /\ Len(v) \in Nat /\ Len(v) <= limit - Len(out)
      /\ Sub(v, l) /\ (Len(l) <= limit - Len(out) => v = l)
  BY <1>1, Takes
<1>3. Sub(v, Levels[n])
  BY <1>2, SubTrans
<1>4. Sub(out, FirstLevels(tree, entry, n))
  BY <1>1, BroughtSub
<1>5. out \o v \in Seq(Places) /\ Sub(out \o v, Whole)
  BY <1>1, <1>2, <1>3, <1>4, PartOfWhole DEF Levels, Whole
<1>6. Len(out \o v) = Len(out) + Len(v)
  <2>1. Nodes \subseteq Places
    BY DEF Places
  <2>2. v \in Seq(Places)
    BY <1>2, <2>1, SeqWidens
  <2> QED
    BY <1>1, <2>2, ConcatProperties
<1>7. Len(out) + Len(v) <= limit
  BY <1>1, <1>2
<1> QED
  BY <1>1, <1>2, <1>5, <1>6, <1>7

\* A level that fits makes what was brought one level longer.
LEMMA LevelAdded ==
  ASSUME TypeOK, out = Brought(depth), level = Keep(Levels[depth], Outside(tree, ToSet(skipped)))
  PROVE  out \o level = Brought(depth + 1)
<1> DEFINE f == FirstLevels(tree, entry, depth)
           l == Levels[depth]
           C == Outside(tree, ToSet(skipped))
<1>1. depth \in 0..MaxDepth /\ depth \in 0..(MaxDepth + 1) /\ Tree(tree)
  BY Typed
<1>2. f \in Seq(Places) /\ l \in Seq(Places) /\ FirstLevels(tree, entry, depth + 1) = f \o l
  BY <1>1, FirstLevelsGrow, LevelTyped DEF Levels
<1>3. out = Keep(f, C) /\ level = Keep(l, C) /\ Brought(depth + 1) = Keep(f \o l, C)
  BY <1>2 DEF Brought
<1> HIDE DEF f, l, C
<1>4. Keep(f \o l, C) = Keep(f, C) \o Keep(l, C)
  BY <1>2, KeepConcat
<1> QED
  BY <1>3, <1>4, Zenon

LEMMA AccumulateStep == IInv /\ Accumulate => IInv'
<1> SUFFICES ASSUME IInv, Accumulate PROVE IInv'
  OBVIOUS
<1> USE DEF IInv
<1> DEFINE v == Take(level, limit - Len(out))
<1>1. /\ pc = "level" /\ depth < MaxDepth /\ level # <<>> /\ out' = out \o v
      /\ arrived' = <<>> /\ failedNow' = <<>>
      /\ UNCHANGED <<input, raised, depth, level, before, skipped>>
  BY DEF Accumulate, Descending
<1>2. level = Keep(Levels[depth], Outside(tree, ToSet(skipped))) /\ out = Brought(depth)
  BY <1>1 DEF AtLevel
<1>3. Tree(tree) /\ depth \in 0..MaxDepth /\ level \in Seq(Nodes) /\ level' \in Seq(Nodes)
      /\ Len(out) \in Nat /\ limit \in Nat /\ ToSet(level) \subseteq Nodes
  BY <1>1, Typed
<1>4. Levels[depth] \in Seq(Nodes) /\ Sub(level, Levels[depth]) /\ ToSet(level) \subseteq ToSet(Levels[depth])
  BY <1>2, LevelPart
<1>5. /\ out' \in Seq(Places) /\ Len(out') <= limit /\ Sub(out', Whole)
      /\ limit - Len(out) \in Nat /\ (Len(level) <= limit - Len(out) => v = level)
  <2>1. /\ out \o v \in Seq(Places) /\ Len(out \o v) <= limit /\ Sub(out \o v, Whole)
        /\ limit - Len(out) \in Nat /\ (Len(level) <= limit - Len(out) => v = level)
    <3> HIDE DEF v
    <3>1. v = Take(level, limit - Len(out))
      BY DEF v
    <3> QED
      BY <1>2, <1>3, <1>4, <3>1, LevelJoins
  <2> QED
    BY <1>1, <2>1
<1>6. <<>> \in Seq(Nodes) /\ Len(level) \in Nat /\ Len(level) # 0
  BY <1>1, <1>3, EmptySeq, LenProperties
<1>7. arrived' \in Seq(Nodes) /\ failedNow' \in Seq(Nodes)
  BY <1>1, <1>6
<1>8. \A i \in 1..Len(level) : level[i] \in ToSet(level)
  BY <1>3, InRange
<1> HIDE DEF v
<1>9. CASE Len(out) + Len(level) > limit
  <2>1. End("node_limit", AnchorOf(level[limit - Len(out) + 1]), <<>>) /\ UNCHANGED todo
    BY <1>9 DEF Accumulate
  <2>2. limit - Len(out) + 1 \in 1..Len(level)
    BY <1>3, <1>5, <1>6, <1>9
  <2>3. AnchorOf(level[limit - Len(out) + 1]) \in Nodes \cup {Root, NoAnchor}
    BY <1>3, <1>4, <1>8, <2>2, LevelPlaces
  <2>4. "node_limit" \in Stops /\ todo' \in Seq(Nodes)
    BY <2>1, Typed DEF Stops
  <2> QED
    BY <1>1, <1>3, <1>5, <1>6, <1>7, <2>1, <2>3, <2>4, Stopped
<1>10. CASE ~(Len(out) + Len(level) > limit) /\ Status # {}
  <2>1. (\E r \in Status : End(r, AnchorOf(level[1]), <<>>)) /\ UNCHANGED todo
    BY <1>10 DEF Accumulate
  <2>2. PICK r \in Status : End(r, AnchorOf(level[1]), <<>>)
    BY <2>1
  <2>3. 1 \in 1..Len(level)
    BY <1>6
  <2>4. AnchorOf(level[1]) \in Nodes \cup {Root, NoAnchor}
    BY <1>3, <1>4, <1>8, <2>3, LevelPlaces
  <2>5. r \in Stops /\ todo' \in Seq(Nodes)
    BY <2>1, StatusRaised, Typed DEF Stops
  <2> QED
    BY <1>1, <1>3, <1>5, <1>6, <1>7, <2>2, <2>4, <2>5, Stopped
<1>11. CASE ~(Len(out) + Len(level) > limit) /\ Status = {}
  <2>1. pc' = "fetch" /\ todo' = level /\ UNCHANGED outcome
    BY <1>11 DEF Accumulate
  <2>2. Len(level) <= limit - Len(out)
    BY <1>3, <1>6, <1>11
  <2>3. out' = out \o level
    BY <1>1, <1>5, <2>2
  <2>4. out' = Brought(depth + 1)
    BY <1>2, <2>3, LevelAdded
  <2>5. Levels' = Levels /\ \A n : Brought(n)' = Brought(n)
    BY <1>1 DEF Levels, Brought, input
  <2>6. TypeOK'
    <3>1. todo' \in Seq(Nodes)
      BY <1>3, <2>1
    <3> QED
      BY <1>1, <1>3, <1>5, <1>7, <2>1, <3>1 DEF TypeOK, input, outcome, Places
  <2>7. Answered' = {} /\ ToSet(todo') = ToSet(level') /\ ToSet(failedNow') = {}
    BY <1>1, <2>1, RangeEmpty DEF Answered
  <2>8. Listed(tree, <<>>, level, {})
    BY RangeEmpty, KeepEmpty DEF Listed
  <2>9. InLevel'
    <3>1. Listed(tree, arrived, level, Answered)'
      BY <1>1, <2>7, <2>8 DEF input
    <3>2. (level = Keep(Levels[depth], Outside(tree, ToSet(skipped))))'
      BY <1>1, <1>2, <2>5 DEF input
    <3>3. (out = Brought(depth + 1))'
      BY <1>1, <2>4, <2>5
    <3> QED
      BY <1>1, <2>1, <2>7, <3>1, <3>2, <3>3 DEF InLevel, Fetching
  <2>10. SkippedAbove'
    BY <1>1, <2>5 DEF SkippedAbove
  <2> QED
    BY <2>1, <2>6, <2>9, <2>10 DEF Beginning, AtLevel, AtEnd
<1> QED
  BY <1>9, <1>10, <1>11

\* With what was left out of the levels left out of the answer, it is whole.
LEMMA AtLast ==
  ASSUME TypeOK, ~Descending, out = Brought(depth),
         level = Keep(Levels[depth], Outside(tree, ToSet(skipped)))
  PROVE  out \o level = Keep(Whole, Outside(tree, ToSet(skipped)))
<1>1. out \o level = Brought(depth + 1) /\ Tree(tree) /\ depth \in 0..MaxDepth /\ MaxDepth \in Nat
      /\ ToSet(skipped) \subseteq Nodes
  BY LevelAdded, Typed
<1>2. CASE depth = MaxDepth
  BY <1>1, <1>2 DEF Brought, Whole
<1>3. CASE depth # MaxDepth
  <2>1. level = <<>>
    BY <1>1, <1>3 DEF Descending
  <2>2. Keep(LevelsOf(tree)[depth], Outside(tree, ToSet(skipped))) = <<>>
    BY <2>1 DEF Levels
  <2>3. Brought(depth + 1) = Keep(FirstLevels(tree, entry, MaxDepth + 1), Outside(tree, ToSet(skipped)))
    BY <1>1, <2>2, NothingDeeper DEF Brought
  <2> QED
    BY <1>1, <2>3 DEF Whole
<1> QED
  BY <1>2, <1>3

LEMMA FinishStep == IInv /\ Finish => IInv'
<1> SUFFICES ASSUME IInv, Finish PROVE IInv'
  OBVIOUS
<1> USE DEF IInv
<1> DEFINE v == Take(level, limit - Len(out))
<1>1. /\ pc = "level" /\ ~Descending /\ out' = out \o v
      /\ UNCHANGED <<input, raised, depth, level, todo, arrived, failedNow, before, skipped>>
  BY DEF Finish
<1>2. level = Keep(Levels[depth], Outside(tree, ToSet(skipped))) /\ out = Brought(depth)
  BY <1>1 DEF AtLevel
<1>3. Tree(tree) /\ depth \in 0..MaxDepth /\ level \in Seq(Nodes) /\ level' \in Seq(Nodes)
      /\ Len(out) \in Nat /\ limit \in Nat /\ ToSet(level) \subseteq Nodes
      /\ todo' \in Seq(Nodes) /\ arrived' \in Seq(Nodes) /\ failedNow' \in Seq(Nodes)
      /\ skipped \in Seq(Nodes)
  BY <1>1, Typed
<1>4. Levels[depth] \in Seq(Nodes) /\ Sub(level, Levels[depth]) /\ ToSet(level) \subseteq ToSet(Levels[depth])
  BY <1>2, LevelPart
<1>5. /\ out' \in Seq(Places) /\ Len(out') <= limit /\ Sub(out', Whole)
      /\ limit - Len(out) \in Nat /\ (Len(level) <= limit - Len(out) => v = level)
  <2>1. /\ out \o v \in Seq(Places) /\ Len(out \o v) <= limit /\ Sub(out \o v, Whole)
        /\ limit - Len(out) \in Nat /\ (Len(level) <= limit - Len(out) => v = level)
    <3> HIDE DEF v
    <3>1. v = Take(level, limit - Len(out))
      BY DEF v
    <3> QED
      BY <1>2, <1>3, <1>4, <3>1, LevelJoins
  <2> QED
    BY <1>1, <2>1
<1>6. Len(level) \in Nat
  BY <1>3, LenProperties
<1> HIDE DEF v
<1>7. CASE Len(out) + Len(level) > limit
  <2>1. End("node_limit", AnchorOf(level[limit - Len(out) + 1]), skipped)
    BY <1>7 DEF Finish
  <2>2. limit - Len(out) + 1 \in 1..Len(level)
    BY <1>3, <1>5, <1>6, <1>7
  <2>3. level[limit - Len(out) + 1] \in ToSet(level)
    BY <1>3, <2>2, InRange
  <2>4. AnchorOf(level[limit - Len(out) + 1]) \in Nodes \cup {Root, NoAnchor}
    BY <1>3, <1>4, <2>3, LevelPlaces
  <2>5. "node_limit" \in Stops
    BY DEF Stops
  <2> QED
    BY <1>1, <1>3, <1>5, <2>1, <2>4, <2>5, Stopped
<1>8. CASE ~(Len(out) + Len(level) > limit)
  <2>1. End("complete", NoAnchor, skipped)
    BY <1>8 DEF Finish
  <2>2. Len(level) <= limit - Len(out)
    BY <1>3, <1>6, <1>8
  <2>3. out' = Keep(Whole, Outside(tree, ToSet(skipped)))
    <3>1. out' = out \o level
      BY <1>1, <1>5, <2>2
    <3> QED
      BY <1>1, <1>2, <3>1, AtLast
  <2>4. pc' = "done" /\ reported' = ToSet(skipped)
        /\ (skipped = <<>> => reason' = "complete" /\ anchor' = NoAnchor)
        /\ (skipped # <<>> => reason' = "skipped_branches" /\ anchor' = skipped[1])
    BY <2>1 DEF End, Folded
  <2>5. ToSet(skipped) \subseteq Nodes /\ (skipped # <<>> => skipped[1] \in Nodes)
    BY <1>3, InRange, ElementOfSeq, EmptySeq, LenProperties
  <2>6. TypeOK'
    BY <1>1, <1>3, <1>5, <2>4, <2>5 DEF TypeOK, input, Reasons, Places
  <2>7. Whole' = Whole /\ tree' = tree
    BY <1>1 DEF Whole, input
  <2>8. ASSUME reason' = "complete" PROVE out' = Whole
    <3>1. skipped = <<>>
      BY <2>4, <2>8
    <3>2. Outside(tree, ToSet(skipped)) = Places
      BY <3>1, RangeEmpty, BelowNone DEF Outside
    <3>3. Whole \in Seq(Places)
      <4>1. MaxDepth + 1 \in 0..(MaxDepth + 1)
        BY Typed
      <4> QED
        BY <1>3, <4>1, FirstLevelsGrow DEF Whole
    <3>4. \A i \in 1..Len(Whole) : Whole[i] \in Places
      BY <3>3, ElementOfSeq
    <3> QED
      BY <2>3, <3>2, <3>3, <3>4, KeepAll
  <2>9. AtEnd'
    BY <1>5, <2>3, <2>4, <2>7, <2>8 DEF AtEnd
  <2> QED
    BY <2>4, <2>6, <2>9 DEF Beginning, AtLevel, InLevel, SkippedAbove, Fetching
<1> QED
  BY <1>7, <1>8

-----------------------------------------------------------------------------
(* The branches of a level.                                                *)

\* What keeps a level's branches accounted for keeps the invariant.
LEMMA StillFetching ==
  ASSUME IInv, pc' \in {"fetch", "wave", "waveSleep", "waveFetch"},
         UNCHANGED <<input, raised, depth, level, out, skipped, outcome>>,
         depth < MaxDepth, level # <<>>,
         level = Keep(Levels[depth], Outside(tree, ToSet(skipped))),
         out = Brought(depth + 1),
         pc = "level" \/ Fetching,
         todo' \in Seq(Nodes), arrived' \in Seq(Nodes), failedNow' \in Seq(Nodes), before' \in Nat,
         ToSet(todo') \subseteq ToSet(level), ToSet(failedNow') \subseteq ToSet(level),
         ToSet(todo') \cap ToSet(failedNow') = {},
         pc' \in {"wave", "waveSleep"} => todo' = <<>>,
         Listed(tree, arrived', level, ToSet(level) \ (ToSet(todo') \cup ToSet(failedNow')))
  PROVE  IInv'
<1> USE DEF IInv
<1>1. TypeOK'
  BY DEF TypeOK, input, outcome
<1>2. Levels' = Levels /\ \A n : Brought(n)' = Brought(n)
  BY DEF Levels, Brought, input
<1>3. InLevel'
  <2>1. Listed(tree, arrived, level, Answered)'
    BY DEF Answered, input
  <2>2. (level = Keep(Levels[depth], Outside(tree, ToSet(skipped))))'
    BY <1>2 DEF input
  <2>3. (out = Brought(depth + 1))'
    BY <1>2
  <2> QED
    BY <2>1, <2>2, <2>3 DEF InLevel
<1>4. SkippedAbove'
  BY <1>2 DEF SkippedAbove
<1> QED
  BY <1>1, <1>3, <1>4 DEF Beginning, AtLevel, AtEnd

LEMMA InFetching ==
  ASSUME IInv, Fetching
  PROVE  /\ depth < MaxDepth /\ level # <<>>
         /\ level = Keep(Levels[depth], Outside(tree, ToSet(skipped)))
         /\ out = Brought(depth + 1)
         /\ ToSet(todo) \subseteq ToSet(level) /\ ToSet(failedNow) \subseteq ToSet(level)
         /\ ToSet(todo) \cap ToSet(failedNow) = {}
         /\ Listed(tree, arrived, level, Answered)
         /\ depth \in 0..(MaxDepth - 1) /\ depth + 1 \in 0..MaxDepth /\ before \in Nat
<1>1. depth \in 0..MaxDepth /\ MaxDepth \in Nat /\ before \in Nat
  BY Typed DEF IInv, TypeOK
<1>2. depth < MaxDepth
  BY DEF IInv, InLevel
<1> QED
  BY <1>1, <1>2 DEF IInv, InLevel

\* Stopped in the middle of a level.
LEMMA MidStop ==
  ASSUME IInv, Fetching, NEW next \in Seq(Nodes), NEW failed \in Seq(Nodes),
         NEW A, A \subseteq ToSet(level), Listed(tree, next, level, A),
         NEW r \in Stops, NEW anchors, anchors \subseteq Nodes,
         StopMidLevel(r, anchors, next, failed),
         UNCHANGED <<input, raised, depth, level, before, skipped>>,
         todo' \in Seq(Nodes), arrived' \in Seq(Nodes), failedNow' \in Seq(Nodes)
  PROVE  IInv'
<1> USE DEF IInv
<1> DEFINE l == Sorted(tree, next, level)
           v == Take(l, limit - Len(out))
<1>1. out' = out \o v
  BY OrderIsSorted DEF StopMidLevel
<1>2. Tree(tree) /\ level \in Seq(Nodes) /\ skipped \in Seq(Nodes)
  BY Typed
<1>3. l \in Seq(Nodes) /\ Sub(l, Levels[depth + 1])
  <2>1. level = Keep(LevelsOf(tree)[depth], Outside(tree, ToSet(skipped)))
    BY InFetching DEF Levels
  <2> QED
    BY <1>2, <2>1, InFetching, PartSorted DEF Levels
<1> HIDE DEF l
<1>4. out' \in Seq(Places) /\ Len(out') <= limit /\ Sub(out', Whole)
  <2>1. v = Take(l, limit - Len(out))
    OBVIOUS
  <2> HIDE DEF v
  <2> QED
    BY <1>1, <1>3, <2>1, InFetching, LevelJoins
<1>5. PICK a \in IF anchors = {} THEN {level[1]} ELSE anchors : End(r, a, skipped \o failed)
  BY DEF StopMidLevel
<1>6. a \in Nodes
  <2>1. level[1] \in Nodes
    BY <1>2, InFetching, ElementOfSeq, EmptySeq, LenProperties
  <2> QED
    BY <1>5, <2>1
<1>7. skipped \o failed \in Seq(Nodes) /\ level' \in Seq(Nodes)
  BY <1>2, ConcatProperties
<1> QED
  BY <1>4, <1>5, <1>6, <1>7, Stopped

\* After an answer, of which next and failed are what is known.
LEMMA GoOnKeeps ==
  ASSUME IInv, pc = "fetch", NEW id \in ToSet(todo),
         NEW next \in Seq(Nodes), NEW failed \in Seq(Nodes), GoOn(id, next, failed),
         ToSet(failed) \subseteq ToSet(level), (ToSet(todo) \ {id}) \cap ToSet(failed) = {},
         Listed(tree, next, level, ToSet(level) \ ((ToSet(todo) \ {id}) \cup ToSet(failed)))
  PROVE  IInv'
<1> DEFINE left == Without(todo, id)
           A == ToSet(level) \ ((ToSet(todo) \ {id}) \cup ToSet(failed))
<1>1. Fetching
  BY DEF Fetching
<1>2. left \in Seq(Nodes) /\ ToSet(left) = ToSet(todo) \ {id} /\ ToSet(left) \subseteq Nodes
  <2>1. todo \in Seq(Nodes) /\ ToSet(todo) \subseteq Nodes
    BY Typed DEF IInv
  <2>2. ToSet(left) = ToSet(todo) \cap (Nodes \ {id})
    BY <2>1, RangeKeep DEF Without
  <2> QED
    BY <2>1, <2>2, KeepIn DEF Without
<1>3. /\ todo' = left /\ arrived' = next /\ failedNow' = failed
      /\ UNCHANGED <<input, raised, depth, level, before, skipped>>
  BY DEF GoOn
<1> HIDE DEF left
<1>4. CASE \E r \in Stops : StopMidLevel(r, ToSet(left), next, failed)
  <2>1. PICK r \in Stops : StopMidLevel(r, ToSet(left), next, failed)
    BY <1>4
  <2>2. A \subseteq ToSet(level) /\ Listed(tree, next, level, A)
    OBVIOUS
  <2> HIDE DEF A
  <2> QED
    BY <1>1, <1>2, <1>3, <2>1, <2>2, MidStop
<1>5. CASE pc' = "fetch" /\ UNCHANGED <<out, outcome>>
  <2>1. /\ ToSet(todo') \subseteq ToSet(level) /\ ToSet(failedNow') \subseteq ToSet(level)
        /\ ToSet(todo') \cap ToSet(failedNow') = {}
        /\ Listed(tree, arrived', level, ToSet(level) \ (ToSet(todo') \cup ToSet(failedNow')))
        /\ todo' \in Seq(Nodes) /\ arrived' \in Seq(Nodes) /\ failedNow' \in Seq(Nodes)
        /\ before' \in Nat
    BY <1>1, <1>2, <1>3, InFetching
  <2> QED
    BY <1>1, <1>3, <1>5, <2>1, InFetching, StillFetching
<1>6. (\E r \in Stops : StopMidLevel(r, ToSet(left), next, failed)) \/ (pc' = "fetch" /\ UNCHANGED <<out, outcome>>)
  <2>1. CASE Len(out) + Len(next) >= limit
    <3>1. StopMidLevel("node_limit", ToSet(left), next, failed)
      BY <2>1 DEF GoOn, left
    <3> QED
      BY <3>1 DEF Stops
  <2>2. CASE ~(Len(out) + Len(next) >= limit) /\ Status # {}
    <3>1. PICK r \in Status : StopMidLevel(r, ToSet(left), next, failed)
      BY <2>2 DEF GoOn, left
    <3>2. r \in Stops
      BY StatusRaised, Typed DEF Stops, IInv
    <3> QED
      BY <3>1, <3>2
  <2>3. CASE ~(Len(out) + Len(next) >= limit) /\ Status = {}
    BY <2>3 DEF GoOn
  <2> QED
    BY <2>1, <2>2, <2>3
<1> QED
  BY <1>4, <1>5, <1>6

LEMMA InFlightTodo ==
  ASSUME TypeOK
  PROVE  InFlight \subseteq ToSet(todo)
<1>1. todo \in Seq(Nodes) /\ Width \in Nat
  BY Typed, WalkAssumption
<1>2. Take(todo, Width) \in Seq(Nodes) /\ Sub(Take(todo, Width), todo)
  BY <1>1, Takes
<1>3. PICK e : Inside(e, Take(todo, Width), todo)
  BY <1>2 DEF Sub
<1>4. ASSUME NEW n \in ToSet(Take(todo, Width)) PROVE n \in ToSet(todo)
  <2>1. PICK i \in 1..Len(Take(todo, Width)) : Take(todo, Width)[i] = n
    BY <1>2, InRange
  <2>2. e[i] \in 1..Len(todo) /\ todo[e[i]] = n
    BY <1>3, <2>1 DEF Inside
  <2> QED
    BY <1>1, <2>2, InRange
<1> QED
  BY <1>4 DEF InFlight

LEMMA ArriveStep ==
  ASSUME IInv, NEW id \in Nodes, Arrive(id)
  PROVE  IInv'
<1> DEFINE next == arrived \o tree[id]
           A == ToSet(level) \ ((ToSet(todo) \ {id}) \cup ToSet(failedNow))
<1>1. pc = "fetch" /\ Fetching /\ id \in ToSet(todo) /\ GoOn(id, next, failedNow)
  BY InFlightTodo DEF Arrive, IInv, Fetching
<1>2. Tree(tree) /\ level \in Seq(Nodes) /\ arrived \in Seq(Nodes) /\ failedNow \in Seq(Nodes)
  BY Typed DEF IInv
<1>3. id \in ToSet(level) /\ id \notin Answered /\ id \notin ToSet(failedNow)
      /\ Answered \cup {id} = A
  BY <1>1, InFetching DEF Answered
<1>4. Listed(tree, arrived, level, Answered)
  BY <1>1, InFetching
<1>5. next \in Seq(Nodes) /\ Listed(tree, next, level, Answered \cup {id})
  BY <1>2, <1>3, <1>4, ListedMore
<1>6. ToSet(failedNow) \subseteq ToSet(level) /\ (ToSet(todo) \ {id}) \cap ToSet(failedNow) = {}
  BY <1>1, InFetching
<1>7. Listed(tree, next, level, A)
  BY <1>3, <1>5
<1> HIDE DEF next
<1> QED
  BY <1>1, <1>2, <1>5, <1>6, <1>7, GoOnKeeps

LEMMA FailStep ==
  ASSUME IInv, NEW id \in Nodes, Fail(id)
  PROVE  IInv'
<1> DEFINE failed == Append(failedNow, id)
<1>1. pc = "fetch" /\ Fetching /\ id \in ToSet(todo) /\ GoOn(id, arrived, failed)
  BY InFlightTodo DEF Fail, IInv, Fetching
<1>2. Tree(tree) /\ level \in Seq(Nodes) /\ arrived \in Seq(Nodes) /\ failedNow \in Seq(Nodes)
  BY Typed DEF IInv
<1>3. failed \in Seq(Nodes) /\ ToSet(failed) = ToSet(failedNow) \cup {id}
  BY <1>2, AppendProperties, RangeAppend
<1> HIDE DEF failed
<1>4. id \in ToSet(level) /\ Listed(tree, arrived, level, Answered)
      /\ ToSet(failedNow) \subseteq ToSet(level) /\ ToSet(todo) \cap ToSet(failedNow) = {}
  BY <1>1, InFetching
<1>5. ToSet(level) \ ((ToSet(todo) \ {id}) \cup ToSet(failed)) = Answered
  BY <1>1, <1>3 DEF Answered
<1>6. ToSet(failed) \subseteq ToSet(level) /\ (ToSet(todo) \ {id}) \cap ToSet(failed) = {}
  BY <1>3, <1>4
<1> QED
  BY <1>1, <1>2, <1>3, <1>4, <1>5, <1>6, GoOnKeeps

LEMMA FetchAbortedStep ==
  ASSUME IInv, NEW id \in Nodes, FetchAborted(id)
  PROVE  IInv'
<1>1. Fetching /\ UNCHANGED <<input, raised, depth, level, before, skipped>>
      /\ UNCHANGED <<todo, arrived, failedNow>>
  BY DEF FetchAborted, Fetching
<1>2. PICK r \in raised : StopMidLevel(r, {id}, arrived, failedNow)
  BY DEF FetchAborted
<1>3. r \in Stops /\ arrived \in Seq(Nodes) /\ failedNow \in Seq(Nodes) /\ todo \in Seq(Nodes)
  BY Typed DEF Stops, IInv
<1>4. Answered \subseteq ToSet(level) /\ Listed(tree, arrived, level, Answered) /\ {id} \subseteq Nodes
  BY <1>1, InFetching DEF Answered
<1>5. todo' \in Seq(Nodes) /\ arrived' \in Seq(Nodes) /\ failedNow' \in Seq(Nodes)
  BY <1>1, <1>3
<1> HIDE DEF Answered
<1> QED
  BY <1>1, <1>2, <1>3, <1>4, <1>5, MidStop

\* The next level, without what lies below the branches given up.
LEMMA Descends ==
  ASSUME IInv, Fetching, todo = <<>>, pc' = "level", depth' = depth + 1,
         level' = OrderLevel(arrived, level), UNCHANGED <<input, raised, out, outcome, todo>>,
         arrived' \in Seq(Nodes), failedNow' \in Seq(Nodes), before' \in Nat,
         skipped' \in Seq(Nodes), ToSet(skipped') = ToSet(skipped) \cup ToSet(failedNow)
  PROVE  IInv'
<1> USE DEF IInv
<1> DEFINE S == ToSet(skipped)
           F == ToSet(failedNow)
<1>1. /\ Tree(tree) /\ MaxDepth \in Nat /\ arrived \in Seq(Nodes) /\ S \subseteq Nodes
      /\ todo' \in Seq(Nodes)
  BY Typed
<1>2. /\ depth \in 0..(MaxDepth - 1) /\ F \subseteq ToSet(level)
      /\ level = Keep(LevelsOf(tree)[depth], Outside(tree, S))
      /\ out = Brought(depth + 1) /\ depth + 1 \in 0..MaxDepth
      /\ Listed(tree, arrived, level, Answered)
  BY InFetching DEF Levels
<1>3. Answered = ToSet(level) \ F
  BY RangeEmpty DEF Answered
<1>4. \A p \in S : \E k \in 0..(depth - 1) : p \in ToSet(LevelsOf(tree)[k])
  BY DEF SkippedAbove, Levels
<1>5. ToSet(level) \subseteq ToSet(LevelsOf(tree)[depth])
  BY <1>2, LevelPart DEF Levels
<1>6. level' = Sorted(tree, arrived, level)
  BY OrderIsSorted
<1>7. ToSet(skipped') = S \cup F
  OBVIOUS
<1>0. TypeOK /\ Beginning /\ AtLevel /\ InLevel /\ AtEnd
  OBVIOUS
<1> HIDE DEF S, F
<1> HIDE DEF IInv
<1>8. level' = Keep(LevelsOf(tree)[depth + 1], Outside(tree, S \cup F))
  <2>1. Tree(tree) /\ depth \in 0..(MaxDepth - 1) /\ GivenUp(tree, depth, S)
    BY <1>1, <1>2, <1>4 DEF GivenUp
  <2>2. CameFor(tree, depth, S, F, arrived) /\ level = LeftOf(tree, depth, S)
    BY <1>1, <1>2, <1>3 DEF CameFor, LeftOf
  <2>3. Sorted(tree, arrived, LeftOf(tree, depth, S)) = LeftOf(tree, depth + 1, S \cup F)
    BY <2>1, <2>2, Descent
  <2> QED
    BY <1>6, <2>2, <2>3 DEF LeftOf
<1>9. out = Keep(FirstLevels(tree, entry, depth + 1), Outside(tree, S \cup F))
  <2>1. F \subseteq ToSet(LevelsOf(tree)[depth])
    BY <1>2, <1>5
  <2>2. out = Keep(FirstLevels(tree, entry, depth + 1), Outside(tree, S))
    BY <1>2 DEF Brought, S
  <2>3. /\ Tree(tree) /\ depth \in 0..(MaxDepth - 1) /\ S \in SUBSET Nodes
        /\ F \in SUBSET ToSet(LevelsOf(tree)[depth])
    BY <1>1, <1>2, <2>1
  <2>4. StaysOut(tree, entry, depth + 1, S, F)
    BY <2>3, StillOutside
  <2> QED
    BY <2>2, <2>4 DEF StaysOut
<1>10. level' \in Seq(Nodes)
  BY <1>1, <1>2, <1>8, LevelTyped, KeepIn
<1>11. TypeOK'
  BY <1>0, <1>1, <1>2, <1>10 DEF TypeOK, input, outcome
<1>12. AtLevel'
  BY <1>7, <1>8, <1>9 DEF AtLevel, Levels, Brought, input
<1>13. SkippedAbove'
  <2>1. ASSUME NEW p \in S \cup F PROVE \E k \in 0..((depth + 1) - 1) : p \in ToSet(LevelsOf(tree)[k])
    <3>1. CASE p \in S
      <4>1. PICK k \in 0..(depth - 1) : p \in ToSet(LevelsOf(tree)[k])
        BY <1>4, <3>1
      <4>2. k \in 0..((depth + 1) - 1)
        BY <1>2
      <4> QED
        BY <4>1, <4>2
    <3>2. CASE p \in F
      <4>1. depth \in 0..((depth + 1) - 1) /\ p \in ToSet(LevelsOf(tree)[depth])
        BY <1>1, <1>2, <1>5, <3>2
      <4> QED
        BY <4>1
    <3> QED
      BY <3>1, <3>2
  <2> QED
    BY <1>7, <2>1 DEF SkippedAbove, Levels, input
<1>14. Beginning' /\ InLevel' /\ AtEnd'
  BY DEF Beginning, InLevel, AtEnd, Fetching
<1> QED
  BY <1>11, <1>12, <1>13, <1>14 DEF IInv

LEMMA LevelFetchedStep == IInv /\ LevelFetched => IInv'
<1> SUFFICES ASSUME IInv, LevelFetched PROVE IInv'
  OBVIOUS
<1>1. pc = "fetch" /\ Fetching /\ todo = <<>>
      /\ UNCHANGED <<input, raised, out, todo, arrived, failedNow, skipped, outcome>>
  BY DEF LevelFetched, Fetching
<1>2. /\ todo' \in Seq(Nodes) /\ arrived' \in Seq(Nodes) /\ failedNow' \in Seq(Nodes)
      /\ skipped' \in Seq(Nodes)
  BY <1>1, Typed DEF IInv
<1>3. CASE failedNow # <<>>
  <2>1. pc' = "wave" /\ before' = 0 /\ UNCHANGED <<level, depth>>
    BY <1>3 DEF LevelFetched
  <2>2. Listed(tree, arrived', level, ToSet(level) \ (ToSet(todo') \cup ToSet(failedNow')))
    BY <1>1, InFetching DEF Answered
  <2> QED
    BY <1>1, <1>2, <2>1, <2>2, InFetching, StillFetching
<1>4. CASE failedNow = <<>>
  <2>1. /\ pc' = "level" /\ depth' = depth + 1 /\ level' = OrderLevel(arrived, level)
        /\ UNCHANGED before
    BY <1>4 DEF LevelFetched
  <2>2. ToSet(skipped') = ToSet(skipped) \cup ToSet(failedNow)
    BY <1>1, <1>4, RangeEmpty
  <2> QED
    BY <1>1, <1>2, <2>1, <2>2, InFetching, Descends
<1> QED
  BY <1>3, <1>4

-----------------------------------------------------------------------------
(* The waves.                                                              *)

LEMMA WaveSkippedStep == IInv /\ WaveSkipped => IInv'
<1> SUFFICES ASSUME IInv, WaveSkipped PROVE IInv'
  OBVIOUS
<1>1. Fetching /\ pc' = "waveFetch"
      /\ UNCHANGED <<input, raised, depth, level, out, todo, arrived, failedNow, before,
                 skipped, outcome>>
  BY DEF WaveSkipped, Fetching
<1>2. todo' \in Seq(Nodes) /\ arrived' \in Seq(Nodes) /\ failedNow' \in Seq(Nodes)
  BY <1>1, Typed DEF IInv
<1>3. Listed(tree, arrived', level, ToSet(level) \ (ToSet(todo') \cup ToSet(failedNow')))
  BY <1>1, InFetching DEF Answered
<1> QED
  BY <1>1, <1>2, <1>3, InFetching, StillFetching

LEMMA WaveWaitsStep == IInv /\ WaveWaits => IInv'
<1> SUFFICES ASSUME IInv, WaveWaits PROVE IInv'
  OBVIOUS
<1>1. Fetching /\ pc = "wave" /\ pc' = "waveSleep"
      /\ UNCHANGED <<input, raised, depth, level, out, todo, arrived, failedNow, before,
                 skipped, outcome>>
  BY DEF WaveWaits, Fetching
<1>2. todo' \in Seq(Nodes) /\ arrived' \in Seq(Nodes) /\ failedNow' \in Seq(Nodes) /\ todo' = <<>>
  BY <1>1, Typed DEF IInv, InLevel
<1>3. Listed(tree, arrived', level, ToSet(level) \ (ToSet(todo') \cup ToSet(failedNow')))
  BY <1>1, InFetching DEF Answered
<1> QED
  BY <1>1, <1>2, <1>3, InFetching, StillFetching

LEMMA WaveStartsStep == IInv /\ WaveStarts => IInv'
<1> SUFFICES ASSUME IInv, WaveStarts PROVE IInv'
  OBVIOUS
<1>1. Fetching /\ pc \in {"wave", "waveSleep"} /\ pc' = "waveFetch"
      /\ UNCHANGED <<input, raised, depth, level, out, arrived, before, skipped, outcome>>
  BY DEF WaveStarts, Fetching
<1>2. todo = <<>> /\ ToSet(todo) = {} /\ <<>> \in Seq(Nodes)
  BY <1>1, RangeEmpty, EmptySeq DEF IInv, InLevel
<1>3. UNCHANGED <<todo, failedNow>> \/ (todo' = failedNow /\ failedNow' = <<>>)
  BY DEF WaveStarts
<1>4. todo' \in Seq(Nodes) /\ arrived' \in Seq(Nodes) /\ failedNow' \in Seq(Nodes)
  BY <1>1, <1>2, <1>3, Typed DEF IInv
<1>5. ToSet(todo') \cup ToSet(failedNow') = ToSet(todo) \cup ToSet(failedNow)
      /\ ToSet(todo') \cap ToSet(failedNow') = {}
  BY <1>2, <1>3
<1>6. Listed(tree, arrived', level, ToSet(level) \ (ToSet(todo') \cup ToSet(failedNow')))
      /\ ToSet(todo') \subseteq ToSet(level) /\ ToSet(failedNow') \subseteq ToSet(level)
  BY <1>1, <1>5, InFetching DEF Answered
<1> QED
  BY <1>1, <1>4, <1>5, <1>6, InFetching, StillFetching

LEMMA WaveAnswerStep ==
  ASSUME IInv, NEW id \in Nodes, WaveAnswer(id)
  PROVE  IInv'
<1>1. Fetching /\ pc = "waveFetch" /\ pc' = "waveFetch" /\ id \in ToSet(todo)
      /\ todo' = Without(todo, id)
      /\ UNCHANGED <<input, raised, depth, level, out, before, skipped, outcome>>
  BY InFlightTodo DEF WaveAnswer, Fetching, IInv
<1>2. /\ Tree(tree) /\ level \in Seq(Nodes) /\ arrived \in Seq(Nodes) /\ failedNow \in Seq(Nodes)
      /\ todo \in Seq(Nodes) /\ ToSet(todo) \subseteq Nodes
  BY Typed DEF IInv
<1>3. todo' \in Seq(Nodes) /\ ToSet(todo') = ToSet(todo) \ {id}
  <2>1. ToSet(todo') = ToSet(todo) \cap (Nodes \ {id})
    BY <1>1, <1>2, RangeKeep DEF Without
  <2> QED
    BY <1>1, <1>2, <2>1, KeepIn DEF Without
<1>4. /\ id \in ToSet(level) /\ id \notin Answered /\ id \notin ToSet(failedNow)
      /\ Listed(tree, arrived, level, Answered)
      /\ ToSet(todo) \subseteq ToSet(level) /\ ToSet(failedNow) \subseteq ToSet(level)
      /\ ToSet(todo) \cap ToSet(failedNow) = {}
  BY <1>1, InFetching DEF Answered
<1>5. CASE arrived' = arrived \o tree[id] /\ UNCHANGED failedNow
  <2>1. arrived' \in Seq(Nodes) /\ Listed(tree, arrived', level, Answered \cup {id})
    BY <1>2, <1>4, <1>5, ListedMore
  <2>2. ToSet(level) \ (ToSet(todo') \cup ToSet(failedNow')) = Answered \cup {id}
    BY <1>3, <1>4, <1>5 DEF Answered
  <2>3. Listed(tree, arrived', level, ToSet(level) \ (ToSet(todo') \cup ToSet(failedNow')))
    BY <2>1, <2>2
  <2>4. failedNow' \in Seq(Nodes) /\ ToSet(failedNow') = ToSet(failedNow)
    BY <1>2, <1>5
  <2> QED
    BY <1>1, <1>3, <1>4, <2>1, <2>3, <2>4, InFetching, StillFetching
<1>6. CASE failedNow' = Append(failedNow, id) /\ UNCHANGED arrived
  <2>1. failedNow' \in Seq(Nodes) /\ ToSet(failedNow') = ToSet(failedNow) \cup {id}
    BY <1>2, <1>6, AppendProperties, RangeAppend
  <2>2. ToSet(level) \ (ToSet(todo') \cup ToSet(failedNow')) = Answered
    BY <1>1, <1>3, <2>1 DEF Answered
  <2>3. Listed(tree, arrived', level, ToSet(level) \ (ToSet(todo') \cup ToSet(failedNow')))
        /\ arrived' \in Seq(Nodes)
    BY <1>2, <1>4, <1>6, <2>2
  <2> QED
    BY <1>1, <1>3, <1>4, <2>1, <2>3, InFetching, StillFetching
<1> QED
  BY <1>5, <1>6 DEF WaveAnswer

LEMMA WaveEndsStep == IInv /\ WaveEnds => IInv'
<1> SUFFICES ASSUME IInv, WaveEnds PROVE IInv'
  OBVIOUS
<1>1. Fetching /\ todo = <<>> /\ UNCHANGED <<input, raised, out, todo, outcome>>
  BY DEF WaveEnds, Fetching
<1>2. /\ todo \in Seq(Nodes) /\ arrived \in Seq(Nodes) /\ failedNow \in Seq(Nodes)
      /\ skipped \in Seq(Nodes) /\ <<>> \in Seq(Nodes)
  BY Typed, EmptySeq DEF IInv
<1>3. CASE AnotherWave
  <2>1. pc' = "wave" /\ before' = Len(failedNow)
        /\ UNCHANGED <<depth, level, arrived, failedNow, skipped>>
    BY <1>3 DEF WaveEnds
  <2>2. Listed(tree, arrived', level, ToSet(level) \ (ToSet(todo') \cup ToSet(failedNow')))
    BY <1>1, <2>1, InFetching DEF Answered
  <2>3. /\ todo' \in Seq(Nodes) /\ arrived' \in Seq(Nodes) /\ failedNow' \in Seq(Nodes)
        /\ before' \in Nat /\ todo' = <<>>
    BY <1>1, <1>2, <2>1, LenProperties
  <2> QED
    BY <1>1, <2>1, <2>2, <2>3, InFetching, StillFetching
<1>4. CASE ~AnotherWave
  <2>1. /\ pc' = "level" /\ depth' = depth + 1 /\ level' = OrderLevel(arrived, level)
        /\ skipped' = skipped \o failedNow
        /\ arrived' = <<>> /\ failedNow' = <<>> /\ before' = 0
    BY <1>4 DEF WaveEnds, SkippedSoFar
  <2>2. skipped' \in Seq(Nodes) /\ ToSet(skipped') = ToSet(skipped) \cup ToSet(failedNow)
    BY <1>2, <2>1, ConcatProperties, RangeConcat
  <2> QED
    BY <1>1, <1>2, <2>1, <2>2, Descends
<1> QED
  BY <1>3, <1>4

-----------------------------------------------------------------------------
(* Every step.                                                             *)

LEMMA RaiseStep ==
  ASSUME IInv, NEW a \in Aborts, Raise(a)
  PROVE  IInv'
<1>1. UNCHANGED <<input, pc, depth, level, out, todo, arrived, failedNow, before,
                 skipped, outcome>> /\ raised' \subseteq Aborts
  BY DEF Raise, IInv, TypeOK
<1> QED
  BY <1>1 DEF IInv, TypeOK, input, outcome, Beginning, AtLevel, InLevel, SkippedAbove, AtEnd,
              Fetching, Levels, Brought, Answered, Whole

LEMMA StutterStep == IInv /\ UNCHANGED vars => IInv'
BY DEF IInv, TypeOK, vars, input, outcome, Beginning, AtLevel, InLevel, SkippedAbove, AtEnd,
       Fetching, Levels, Brought, Answered, Whole

LEMMA StepIInv == IInv /\ [Next]_vars => IInv'
<1> SUFFICES ASSUME IInv, [Next]_vars PROVE IInv'
  OBVIOUS
<1>1. CASE Start
  BY <1>1, StartStep
<1>2. CASE RootRead
  BY <1>2, RootReadStep
<1>3. CASE StopAtRoot
  BY <1>3, StopAtRootStep
<1>4. CASE CheckedRoot
  BY <1>4, CheckedRootStep
<1>5. CASE RootChildren
  BY <1>5, RootChildrenStep
<1>6. CASE Accumulate
  BY <1>6, AccumulateStep
<1>7. CASE LevelFetched
  BY <1>7, LevelFetchedStep
<1>8. CASE Finish
  BY <1>8, FinishStep
<1>9. ASSUME NEW id \in Nodes, Arrive(id) \/ Fail(id) \/ FetchAborted(id) \/ WaveAnswer(id)
      PROVE  IInv'
  BY <1>9, ArriveStep, FailStep, FetchAbortedStep, WaveAnswerStep
<1>10. CASE WaveSkipped
  BY <1>10, WaveSkippedStep
<1>11. CASE WaveWaits
  BY <1>11, WaveWaitsStep
<1>12. CASE WaveStarts
  BY <1>12, WaveStartsStep
<1>13. CASE WaveEnds
  BY <1>13, WaveEndsStep
<1>14. ASSUME NEW a \in Aborts, Raise(a) PROVE IInv'
  BY <1>14, RaiseStep
<1>15. CASE UNCHANGED vars
  BY <1>15, StutterStep
<1> QED
  BY <1>1, <1>2, <1>3, <1>4, <1>5, <1>6, <1>7, <1>8, <1>9, <1>10, <1>11, <1>12, <1>13, <1>14, <1>15
     DEF Next, WalkStep, Done

LEMMA WalkInvariant == Spec => []IInv
<1>1. Init => IInv
  BY InitIInv
<1>2. IInv /\ [Next]_vars => IInv'
  BY StepIInv
<1> QED
  BY <1>1, <1>2, PTL DEF Spec

-----------------------------------------------------------------------------
(* Every variable keeps its type through every walk.                       *)
THEOREM TypeCorrect == Spec => []TypeOK
<1>1. IInv => TypeOK
  BY DEF IInv
<1> QED
  BY <1>1, WalkInvariant, PTL

(* A walk that says it is complete has brought every node within its depth, *)
(* once and in order (fetch_descendants, with_skipped).                     *)
THEOREM CompleteWalksAreWhole == Spec => []CompleteIsWhole
<1>1. IInv => CompleteIsWhole
  BY DEF IInv, AtEnd, CompleteIsWhole
<1> QED
  BY <1>1, WalkInvariant, PTL

(* A walk that reached its end without some branches lacks exactly what is   *)
(* below the ones it names (recover_skipped_branches).                       *)
THEOREM SkippedBranchesAccount == Spec => []SkippedAccountsForAll
<1>1. ASSUME IInv PROVE SkippedAccountsForAll
  <2> SUFFICES ASSUME pc = "done", reason = "skipped_branches"
               PROVE  ToSet(Whole) \ ToSet(out) = Below(tree, reported) \cap ToSet(Whole)
    BY DEF SkippedAccountsForAll
  <2>1. out = Keep(Whole, Outside(tree, reported))
    BY <1>1 DEF IInv, AtEnd
  <2>2. Whole \in Seq(Places)
    <3>1. Tree(tree) /\ MaxDepth + 1 \in 0..(MaxDepth + 1)
      BY <1>1, Typed DEF IInv
    <3> QED
      BY <3>1, FirstLevelsGrow DEF Whole
  <2>3. ToSet(out) = ToSet(Whole) \cap Outside(tree, reported) /\ ToSet(Whole) \subseteq Places
    BY <2>1, <2>2, RangeKeep, InRange
  <2> QED
    BY <2>3 DEF Outside
<1> QED
  BY <1>1, WalkInvariant, PTL

(* However a walk ends, its answer stands in document order and holds no     *)
(* node twice (order_level_by_parent).                                       *)
THEOREM AnswersInDocumentOrder == Spec => []DocumentOrder
<1>1. ASSUME IInv PROVE DocumentOrder
  <2> DEFINE place(n) == CHOOSE i \in DOMAIN Whole : Whole[i] = n
  <2> SUFFICES ASSUME pc = "done"
               PROVE  /\ ToSet(out) \subseteq ToSet(Whole)
                      /\ \A i, j \in DOMAIN out : i < j => place(out[i]) < place(out[j])
    BY DEF DocumentOrder
  <2>1. Tree(tree) /\ MaxDepth + 1 \in 0..(MaxDepth + 1) /\ out \in Seq(Places)
    BY <1>1, Typed DEF IInv
  <2>2. Whole \in Seq(Places) /\ Distinct(Whole)
    BY <2>1, FirstLevelsGrow, FirstLevelsDistinct DEF Whole
  <2>3. DOMAIN Whole = 1..Len(Whole) /\ DOMAIN out = 1..Len(out)
    BY <2>1, <2>2, LenProperties
  <2>4. PICK e : Inside(e, out, Whole)
    BY <1>1 DEF IInv, AtEnd, Sub
  <2>5. ASSUME NEW i \in 1..Len(out) PROVE e[i] \in 1..Len(Whole) /\ place(out[i]) = e[i]
    <3>1. e[i] \in 1..Len(Whole) /\ Whole[e[i]] = out[i]
      BY <2>4 DEF Inside
    <3>2. \A k \in 1..Len(Whole) : Whole[k] = out[i] => k = e[i]
      BY <2>2, <3>1 DEF Distinct
    <3> QED
      BY <2>3, <3>1, <3>2
  <2>6. ToSet(out) \subseteq ToSet(Whole)
    <3>1. \A i \in 1..Len(out) : out[i] \in ToSet(Whole)
      BY <2>2, <2>4, InRange DEF Inside
    <3> QED
      BY <2>1, <3>1, InRange
  <2>7. \A i, j \in 1..Len(out) : i < j => e[i] < e[j]
    BY <2>4 DEF Inside
  <2> HIDE DEF place
  <2> QED
    BY <2>3, <2>5, <2>6, <2>7
<1> QED
  BY <1>1, WalkInvariant, PTL
=============================================================================
