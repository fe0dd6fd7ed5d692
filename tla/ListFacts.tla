------------------------------ MODULE ListFacts -------------------------------
(***************************************************************************)
(* Induction and recursion over the naturals without an operator for the   *)
(* statement, and with them what the recursive functions on sequences and  *)
(* graphs return.                                                          *)
(***************************************************************************)
EXTENDS Lists, Reach, SequencesExt, SequenceTheorems, FiniteSetTheorems,
        WellFoundedInduction, TLAPS

-----------------------------------------------------------------------------
(* Induction.                                                              *)

LEMMA Least ==
  ASSUME NEW T, T \subseteq Nat, T # {}
  PROVE  \E x \in T : \A y \in T : x <= y
<1>1. IsWellFoundedOn(OpToRel(<, Nat), Nat)
  BY NatLessThanWellFounded
<1>2. PICK x \in T : \A y \in T : ~(<<y, x>> \in OpToRel(<, Nat))
  BY <1>1, WFMin
<1>3. ASSUME NEW y \in T PROVE x <= y
  <2>1. x \in Nat /\ y \in Nat
    OBVIOUS
  <2>2. ~(<<y, x>> \in OpToRel(<, Nat))
    BY <1>2
  <2> QED
    BY <2>1, <2>2 DEF OpToRel
<1> QED
  BY <1>3

\* What holds at 0 and from each number below n at the next holds up to n.
LEMMA Inductive ==
  ASSUME NEW n \in Nat, NEW T, 0 \in T, \A i \in 0..(n - 1) : i \in T => i + 1 \in T
  PROVE  \A i \in 0..n : i \in T
<1> SUFFICES ASSUME NEW k \in 0..n, k \notin T PROVE FALSE
  OBVIOUS
<1> DEFINE S == (0..n) \ T
<1>1. PICK x \in S : \A y \in S : x <= y
  <2>1. S \subseteq Nat /\ S # {}
    OBVIOUS
  <2> HIDE DEF S
  <2> QED
    BY <2>1, Least
<1>2. x \in 0..n /\ x \notin T /\ x # 0
  OBVIOUS
<1>3. x - 1 \in 0..(n - 1) /\ x - 1 \notin S /\ x - 1 \in 0..n
  BY <1>1, <1>2
<1>4. x - 1 \in T
  BY <1>3
<1> QED
  BY <1>2, <1>3, <1>4

\* f is what the step g makes of b, up to n.
Obeys(f, S, b, g, n) ==
  f \in [0..n -> S] /\ f[0] = b /\ \A i \in 1..n : f[i] = g[<<i, f[i - 1]>>]

LEMMA RecursionExists ==
  ASSUME NEW S, NEW b \in S, NEW g \in [Nat \X S -> S], NEW n \in Nat
  PROVE  \E f : Obeys(f, S, b, g, n)
<1> DEFINE T == {k \in Nat : \E f : Obeys(f, S, b, g, k)}
<1>1. 0 \in T
  <2>1. Obeys([i \in 0..0 |-> b], S, b, g, 0)
    BY DEF Obeys
  <2> QED
    BY <2>1
<1>2. ASSUME NEW k \in Nat, k \in T PROVE k + 1 \in T
  <2>1. PICK f : Obeys(f, S, b, g, k)
    BY <1>2
  <2> DEFINE h == [i \in 0..(k + 1) |-> IF i = k + 1 THEN g[<<k + 1, f[k]>>] ELSE f[i]]
  <2>2. g[<<k + 1, f[k]>>] \in S
    <3>1. f[k] \in S /\ k + 1 \in Nat
      BY <2>1 DEF Obeys
    <3>2. <<k + 1, f[k]>> \in Nat \X S
      BY <3>1
    <3> QED
      BY <3>2
  <2>3. h \in [0..(k + 1) -> S] /\ h[0] = b
    BY <2>1, <2>2 DEF Obeys
  <2>4. ASSUME NEW i \in 1..(k + 1) PROVE h[i] = g[<<i, h[i - 1]>>]
    <3>1. CASE i = k + 1
      <4>1. h[i] = g[<<k + 1, f[k]>>] /\ h[i - 1] = f[k]
        BY <3>1
      <4> QED
        BY <4>1, <3>1
    <3>2. CASE i # k + 1
      <4>1. i \in 1..k /\ i - 1 \in 0..k /\ i - 1 # k + 1
        BY <3>2
      <4>2. h[i] = f[i] /\ h[i - 1] = f[i - 1]
        BY <4>1
      <4> QED
        BY <4>1, <4>2, <2>1 DEF Obeys
    <3> QED
      BY <3>1, <3>2
  <2> HIDE DEF h
  <2>5. Obeys(h, S, b, g, k + 1) /\ k + 1 \in Nat
    BY <2>3, <2>4 DEF Obeys
  <2> QED
    BY <2>5
<1>3. n \in T
  <2> HIDE DEF T
  <2>1. \A i \in 0..n : i \in T
    BY <1>1, <1>2, Inductive
  <2> QED
    BY <2>1
<1> QED
  BY <1>3

-----------------------------------------------------------------------------
(* Reached.                                                                *)

Further(next, S) == S \cup UNION {next[m] : m \in S}
\* f is the recursion of Reached.
Spreading(f, next, A, n) == f[0] = A /\ \A i \in 1..n : f[i] = Further(next, f[i - 1])

LEMMA SpreadExists ==
  ASSUME NEW D, NEW next, \A m \in D : next[m] \subseteq D, NEW A \in SUBSET D, NEW n \in Nat
  PROVE  \E f \in [0..n -> SUBSET D] : Spreading(f, next, A, n)
<1> DEFINE g == [p \in Nat \X SUBSET D |-> Further(next, p[2])]
<1>1. g \in [Nat \X SUBSET D -> SUBSET D]
  <2>1. ASSUME NEW p \in Nat \X SUBSET D PROVE Further(next, p[2]) \subseteq D
    <3>1. p[2] \subseteq D
      OBVIOUS
    <3> QED
      BY <3>1 DEF Further
  <2> QED
    BY <2>1
<1>2. PICK f : Obeys(f, SUBSET D, A, g, n)
  <2> HIDE DEF g
  <2> QED
    BY <1>1, RecursionExists
<1>3. f \in [0..n -> SUBSET D] /\ f[0] = A
  BY <1>2 DEF Obeys
<1>4. ASSUME NEW i \in 1..n PROVE f[i] = Further(next, f[i - 1])
  <2>1. i \in Nat /\ i - 1 \in 0..n
    OBVIOUS
  <2>2. f[i - 1] \in SUBSET D
    BY <1>3, <2>1
  <2>3. f[i] = g[<<i, f[i - 1]>>]
    BY <1>2 DEF Obeys
  <2>4. <<i, f[i - 1]>> \in Nat \X SUBSET D
    BY <2>1, <2>2
  <2> QED
    BY <2>3, <2>4
<1> QED
  BY <1>3, <1>4 DEF Spreading

LEMMA ReachedUnfolds ==
  ASSUME NEW D, NEW next, DOMAIN next = D, IsFiniteSet(D), \A m \in D : next[m] \subseteq D,
         NEW A \in SUBSET D
  PROVE  \E f \in [0..Cardinality(D) -> SUBSET D] :
           Spreading(f, next, A, Cardinality(D)) /\ Reached(next, A) = f[Cardinality(D)]
<1> DEFINE n == Cardinality(D)
           rec(u) == [k \in 0..n |-> IF k = 0 THEN A
                        ELSE u[k - 1] \cup UNION {next[m] : m \in u[k - 1]}]
           upTo == CHOOSE u : u = rec(u)
<1>1. n \in Nat
  BY FS_CardinalityType
<1>2. PICK f \in [0..n -> SUBSET D] : Spreading(f, next, A, n)
  <2> HIDE DEF n
  <2> QED
    BY <1>1, SpreadExists
<1>3. f = rec(f)
  <2>1. ASSUME NEW k \in 0..n PROVE f[k] = rec(f)[k]
    <3>1. CASE k = 0
      BY <1>2, <3>1 DEF Spreading
    <3>2. CASE k # 0
      <4>1. k \in 1..n
        BY <3>2
      <4> QED
        BY <1>2, <3>2, <4>1 DEF Spreading, Further
    <3> QED
      BY <3>1, <3>2
  <2> QED
    BY <1>2, <2>1
<1>4. upTo = rec(upTo)
  <2> HIDE DEF rec
  <2> QED
    BY <1>3
<1>5. \A k \in 0..n : upTo[k] = f[k]
  <2> DEFINE T == {k \in 0..n : upTo[k] = f[k]}
  <2> HIDE DEF upTo
  <2>1. 0 \in T
    <3>1. 0 \in 0..n
      BY <1>1
    <3>2. upTo[0] = A
      BY <1>4, <3>1
    <3> QED
      BY <1>2, <3>1, <3>2 DEF Spreading
  <2>2. ASSUME NEW i \in 0..(n - 1), i \in T PROVE i + 1 \in T
    <3>1. i + 1 \in 1..n /\ i + 1 \in 0..n /\ (i + 1) - 1 = i /\ i + 1 # 0
      BY <1>1
    <3>2. upTo[i + 1] = upTo[i] \cup UNION {next[m] : m \in upTo[i]}
      BY <1>4, <3>1
    <3>3. f[i + 1] = f[i] \cup UNION {next[m] : m \in f[i]}
      BY <1>2, <3>1 DEF Spreading, Further
    <3> QED
      BY <2>2, <3>1, <3>2, <3>3
  <2> HIDE DEF T, n
  <2>3. \A i \in 0..n : i \in T
    BY <1>1, <2>1, <2>2, Inductive
  <2> QED
    BY <2>3 DEF T
<1>6. Reached(next, A) = upTo[n]
  BY DEF Reached
<1>7. n \in 0..n
  BY <1>1
<1> QED
  BY <1>2, <1>5, <1>6, <1>7

\* What is reached is among the nodes, holds where it starts and is closed.
LEMMA ReachedClosed ==
  ASSUME NEW D, NEW next, DOMAIN next = D, IsFiniteSet(D), \A m \in D : next[m] \subseteq D,
         NEW A \in SUBSET D
  PROVE  /\ A \subseteq Reached(next, A) /\ Reached(next, A) \subseteq D
         /\ \A m \in Reached(next, A) : next[m] \subseteq Reached(next, A)
<1> DEFINE n == Cardinality(D)
<1>1. n \in Nat
  BY FS_CardinalityType
<1>2. PICK f \in [0..n -> SUBSET D] : Spreading(f, next, A, n) /\ Reached(next, A) = f[n]
  BY ReachedUnfolds
<1> HIDE DEF n
\* It is closed, or it has grown at every step.
<1> DEFINE Closed(S) == \A m \in S : next[m] \subseteq S
           T == {k \in 0..n : A \subseteq f[k] /\ (Closed(f[k]) \/ Cardinality(f[k]) >= k)}
<1>3. 0 \in T
  <2>1. f[0] = A /\ 0 \in 0..n
    BY <1>1, <1>2 DEF Spreading
  <2>2. Cardinality(A) \in Nat
    BY FS_Subset, FS_CardinalityType
  <2> QED
    BY <2>1, <2>2
<1>4. ASSUME NEW i \in 0..(n - 1), i \in T PROVE i + 1 \in T
  <2>1. i + 1 \in 1..n /\ i + 1 \in 0..n /\ (i + 1) - 1 = i /\ i \in 0..n /\ i \in Nat
    BY <1>1
  <2>2. f[i + 1] = f[i] \cup UNION {next[m] : m \in f[i]}
    BY <1>2, <2>1 DEF Spreading, Further
  <2>3. f[i] \subseteq D /\ f[i + 1] \subseteq D
    BY <1>2, <2>1
  <2>4. CASE Closed(f[i])
    <3>1. f[i + 1] = f[i]
      BY <2>2, <2>4
    <3> QED
      BY <1>4, <2>1, <2>4, <3>1
  <2>5. CASE ~Closed(f[i])
    <3>1. f[i] \subseteq f[i + 1] /\ f[i] # f[i + 1]
      BY <2>2, <2>5
    <3>2. IsFiniteSet(f[i + 1])
      BY <2>3, FS_Subset
    <3>3. Cardinality(f[i]) \in Nat /\ Cardinality(f[i + 1]) \in Nat
      BY <3>1, <3>2, FS_Subset, FS_CardinalityType
    <3>4. Cardinality(f[i]) < Cardinality(f[i + 1])
      <4>1. Cardinality(f[i]) <= Cardinality(f[i + 1])
        BY <3>1, <3>2, FS_Subset
      <4>2. Cardinality(f[i]) # Cardinality(f[i + 1])
        BY <3>1, <3>2, FS_Subset
      <4> HIDE DEF n
      <4> QED
        BY <3>3, <4>1, <4>2
    <3>5. Cardinality(f[i]) >= i
      BY <1>4, <2>5
    <3>6. Cardinality(f[i + 1]) >= i + 1
      BY <2>1, <3>3, <3>4, <3>5
    <3> QED
      BY <1>4, <2>1, <3>1, <3>6
  <2> QED
    BY <2>4, <2>5
<1>5. n \in T
  <2> HIDE DEF T
  <2>1. \A i \in 0..n : i \in T
    BY <1>1, <1>3, <1>4, Inductive
  <2> QED
    BY <1>1, <2>1
<1>6. f[n] \subseteq D
  BY <1>1, <1>2
<1>7. Closed(f[n])
  <2>1. CASE Cardinality(f[n]) >= n
    <3>1. Cardinality(f[n]) <= n /\ (Cardinality(f[n]) = n => f[n] = D) /\ Cardinality(f[n]) \in Nat
      <4>1. Cardinality(f[n]) <= Cardinality(D) /\ (Cardinality(f[n]) = Cardinality(D) => f[n] = D)
        BY <1>6, FS_Subset
      <4>2. Cardinality(f[n]) \in Nat
        BY <1>6, FS_Subset, FS_CardinalityType
      <4> QED
        BY <4>1, <4>2 DEF n
    <3>2. f[n] = D
      BY <1>1, <2>1, <3>1
    <3> QED
      BY <3>2
  <2> QED
    BY <1>5, <2>1
<1> QED
  BY <1>2, <1>5, <1>6, <1>7

\* Any closed set that holds where it starts holds it all.
LEMMA ReachedLeast ==
  ASSUME NEW D, NEW next, DOMAIN next = D, IsFiniteSet(D), \A m \in D : next[m] \subseteq D,
         NEW A \in SUBSET D, NEW S, A \subseteq S, \A m \in S \cap D : next[m] \subseteq S
  PROVE  Reached(next, A) \subseteq S
<1> DEFINE n == Cardinality(D)
<1>1. n \in Nat
  BY FS_CardinalityType
<1>2. PICK f \in [0..n -> SUBSET D] : Spreading(f, next, A, n) /\ Reached(next, A) = f[n]
  BY ReachedUnfolds
<1> HIDE DEF n
<1> DEFINE T == {k \in 0..n : f[k] \subseteq S}
<1>3. 0 \in T
  BY <1>1, <1>2 DEF Spreading
<1>4. ASSUME NEW i \in 0..(n - 1), i \in T PROVE i + 1 \in T
  <2>1. i + 1 \in 1..n /\ i + 1 \in 0..n /\ (i + 1) - 1 = i /\ i \in 0..n
    BY <1>1
  <2>2. f[i + 1] = f[i] \cup UNION {next[m] : m \in f[i]}
    BY <1>2, <2>1 DEF Spreading, Further
  <2>3. f[i] \subseteq D
    BY <1>2, <2>1
  <2> QED
    BY <1>4, <2>1, <2>2, <2>3
<1>5. n \in T
  <2> HIDE DEF T
  <2>1. \A i \in 0..n : i \in T
    BY <1>1, <1>3, <1>4, Inductive
  <2> QED
    BY <1>1, <2>1
<1> QED
  BY <1>2, <1>5

-----------------------------------------------------------------------------
(* Keep.                                                                   *)

Kept(f, s, T, i) == IF s[i] \in T THEN Append(f[i - 1], s[i]) ELSE f[i - 1]
\* f is the recursion of Keep.
Keeping(f, s, T) == f[0] = <<>> /\ \A i \in 1..Len(s) : f[i] = Kept(f, s, T, i)

LEMMA KeepExists ==
  ASSUME NEW S, NEW s \in Seq(S), NEW T
  PROVE  \E f \in [0..Len(s) -> Seq(S)] : Keeping(f, s, T)
<1> DEFINE n == Len(s)
           Q == Seq(S)
           g == [p \in Nat \X Q |-> IF p[1] \in 1..n /\ s[p[1]] \in T
                                         THEN Append(p[2], s[p[1]]) ELSE p[2]]
<1>1. n \in Nat /\ (\A i \in 1..n : s[i] \in S) /\ <<>> \in Q
  BY LenProperties, ElementOfSeq
<1>2. g \in [Nat \X Q -> Q]
  <2>1. ASSUME NEW p \in Nat \X Q
        PROVE  (IF p[1] \in 1..n /\ s[p[1]] \in T THEN Append(p[2], s[p[1]]) ELSE p[2]) \in Q
    <3>1. p[2] \in Seq(S)
      OBVIOUS
    <3>2. p[1] \in 1..n => Append(p[2], s[p[1]]) \in Seq(S)
      BY <3>1, <1>1, AppendProperties
    <3> QED
      BY <3>1, <3>2
  <2> QED
    BY <2>1
<1>3. PICK f : Obeys(f, Q, <<>>, g, n)
  <2> HIDE DEF g, n, Q
  <2> QED
    BY <1>1, <1>2, RecursionExists
<1>4. f \in [0..n -> Q] /\ f[0] = <<>>
  BY <1>3 DEF Obeys
<1>5. ASSUME NEW i \in 1..n PROVE f[i] = Kept(f, s, T, i)
  <2> DEFINE p == <<i, f[i - 1]>>
  <2>1. i \in Nat /\ i - 1 \in 0..n
    BY <1>1
  <2>2. p \in Nat \X Q /\ p[1] = i /\ p[2] = f[i - 1]
    BY <2>1, <1>4
  <2>3. f[i] = g[p]
    BY <1>3 DEF Obeys
  <2> HIDE DEF p
  <2>4. g[p] = IF p[1] \in 1..n /\ s[p[1]] \in T THEN Append(p[2], s[p[1]]) ELSE p[2]
    BY <2>2
  <2> QED
    BY <2>2, <2>3, <2>4 DEF Kept
<1> QED
  BY <1>4, <1>5 DEF Keeping

LEMMA KeepUnfolds ==
  ASSUME NEW S, NEW s \in Seq(S), NEW T
  PROVE  \E f \in [0..Len(s) -> Seq(S)] : Keeping(f, s, T) /\ Keep(s, T) = f[Len(s)]
<1> DEFINE n == Len(s)
           Step(f) == [i \in 0..n |-> IF i = 0 THEN <<>> 
                          ELSE IF s[i] \in T THEN Append(f[i - 1], s[i]) ELSE f[i - 1]]
           kept == CHOOSE f : f = Step(f)
<1>1. n \in Nat
  BY LenProperties
<1>2. PICK f \in [0..n -> Seq(S)] : Keeping(f, s, T)
  BY KeepExists
<1>3. f = Step(f)
  <2>1. \A i \in 0..n : f[i] = IF i = 0 THEN <<>>
                          ELSE IF s[i] \in T THEN Append(f[i - 1], s[i]) ELSE f[i - 1]
    <3>1. \A i \in 0..n : i = 0 \/ i \in 1..n
      BY <1>1
    <3>2. f[0] = <<>> /\ \A i \in 1..n : f[i] = Kept(f, s, T, i)
      BY <1>2 DEF Keeping
    <3> HIDE DEF n
    <3> QED
      BY <3>1, <3>2 DEF Kept
  <2> QED
    BY <2>1
<1>4. kept = Step(kept)
  <2> HIDE DEF Step
  <2> QED
    BY <1>3
<1>5. Keeping(kept, s, T)
  <2> HIDE DEF kept
  <2> DEFINE h == Step(kept)
  <2>2. h[0] = <<>> /\ \A i \in 1..n : h[i] = Kept(kept, s, T, i)
    BY <1>1 DEF Kept
  <2> HIDE DEF h
  <2>3. kept = h
    BY <1>4 DEF h
  <2> QED
    BY <2>2, <2>3 DEF Keeping
<1> HIDE DEF kept
<1>6. \A i \in 0..n : kept[i] = f[i]
  <2> DEFINE U == {i \in Nat : kept[i] = f[i]}
  <2>1. 0 \in U
    BY <1>5, <1>2 DEF Keeping
  <2>2. ASSUME NEW i \in 0..(n - 1), i \in U PROVE i + 1 \in U
    <3>1. i + 1 \in 1..n /\ (i + 1) - 1 = i /\ kept[i] = f[i]
      BY <2>2, <1>1
    <3>2. kept[i + 1] = f[i + 1]
      BY <3>1, <1>5, <1>2 DEF Keeping, Kept
    <3> QED
      BY <3>1, <3>2
  <2>3. \A i \in 0..n : i \in U
    <3> HIDE DEF U, n
    <3> QED
      BY <1>1, <2>1, <2>2, Inductive
  <2> QED
    BY <2>3
<1>7. Keep(s, T) = kept[n]
  BY DEF Keep, kept
<1> QED
  BY <1>1, <1>2, <1>6, <1>7


LEMMA KeepEmpty == \A T : Keep(<<>>, T) = <<>>
<1> SUFFICES ASSUME NEW T PROVE Keep(<<>>, T) = <<>>
  OBVIOUS
<1>1. <<>> \in Seq({}) /\ Len(<<>>) = 0
  OBVIOUS
<1>2. PICK f : Keeping(f, <<>>, T) /\ Keep(<<>>, T) = f[Len(<<>>)]
  BY <1>1, KeepUnfolds
<1> QED
  BY <1>1, <1>2 DEF Keeping

LEMMA KeepAppend ==
  ASSUME NEW S, NEW s \in Seq(S), NEW x \in S, NEW T
  PROVE  /\ Keep(s, T) \in Seq(S)
         /\ Keep(Append(s, x), T) = IF x \in T THEN Append(Keep(s, T), x) ELSE Keep(s, T)
<1> DEFINE n == Len(s)
           r == Append(s, x)
<1>1. n \in Nat /\ r \in Seq(S) /\ Len(r) = n + 1 /\ r[n + 1] = x
      /\ \A i \in 1..n : r[i] = s[i]
  BY AppendProperties, LenProperties
<1> HIDE DEF r
<1>2. PICK f \in [0..n -> Seq(S)] : Keeping(f, s, T) /\ Keep(s, T) = f[n]
  BY KeepUnfolds
<1>3. PICK h \in [0..Len(r) -> Seq(S)] : Keeping(h, r, T) /\ Keep(r, T) = h[Len(r)]
  BY <1>1, KeepUnfolds
<1>4. \A i \in 0..n : h[i] = f[i]
  <2> DEFINE U == {i \in Nat : h[i] = f[i]}
  <2>1. 0 \in U
    BY <1>2, <1>3 DEF Keeping
  <2>2. ASSUME NEW i \in 0..(n - 1), i \in U PROVE i + 1 \in U
    <3>1. i + 1 \in 1..n /\ i + 1 \in 1..Len(r) /\ (i + 1) - 1 = i /\ h[i] = f[i] /\ r[i + 1] = s[i + 1]
      BY <2>2, <1>1
    <3>2. h[i + 1] = Kept(h, r, T, i + 1) /\ f[i + 1] = Kept(f, s, T, i + 1)
      BY <3>1, <1>2, <1>3 DEF Keeping
    <3>3. Kept(h, r, T, i + 1) = Kept(f, s, T, i + 1)
      BY <3>1 DEF Kept
    <3> QED
      BY <3>1, <3>2, <3>3
  <2> HIDE DEF U
  <2>3. \A i \in 0..n : i \in U
    BY <1>1, <2>1, <2>2, Inductive
  <2> QED
    BY <2>3 DEF U
<1>5. n \in 0..n /\ n + 1 \in 1..Len(r) /\ (n + 1) - 1 = n
  BY <1>1
<1>6. h[n + 1] = Kept(h, r, T, n + 1)
  BY <1>3, <1>5 DEF Keeping
<1>7. Keep(r, T) = IF x \in T THEN Append(Keep(s, T), x) ELSE Keep(s, T)
  BY <1>1, <1>2, <1>3, <1>4, <1>5, <1>6 DEF Kept
<1> QED
  BY <1>2, <1>5, <1>7 DEF r

LEMMA KeepIn ==
  ASSUME NEW S, NEW s \in Seq(S), NEW T
  PROVE  Keep(s, T) \in Seq(S)
<1>1. PICK f \in [0..Len(s) -> Seq(S)] : Keep(s, T) = f[Len(s)]
  BY KeepUnfolds
<1> QED
  BY <1>1, LenProperties

LEMMA KeepTakes ==
  ASSUME NEW S, NEW s \in Seq(S), NEW x \in S, NEW T, x \in T
  PROVE  Keep(Append(s, x), T) = Append(Keep(s, T), x)
BY KeepAppend, Zenon

LEMMA KeepSkips ==
  ASSUME NEW S, NEW s \in Seq(S), NEW x \in S, NEW T, x \notin T
  PROVE  Keep(Append(s, x), T) = Keep(s, T)
<1>1. Keep(Append(s, x), T) = IF x \in T THEN Append(Keep(s, T), x) ELSE Keep(s, T)
  BY KeepAppend
<1> QED
  BY <1>1

\* What holds of the empty sequence and is kept by Append holds of every sequence.
LEMMA SequenceInductive ==
  ASSUME NEW S, NEW T, <<>> \in T, \A s \in Seq(S), x \in S : s \in T => Append(s, x) \in T
  PROVE  \A s \in Seq(S) : s \in T
<1> SUFFICES ASSUME NEW s \in Seq(S) PROVE s \in T
  OBVIOUS
<1> DEFINE n == Len(s)
           N == {k \in Nat : \A r \in Seq(S) : Len(r) = k => r \in T}
<1>1. n \in Nat
  BY LenProperties
<1>2. 0 \in N
  BY EmptySeq
<1>3. ASSUME NEW k \in Nat, k \in N PROVE k + 1 \in N
  <2> SUFFICES ASSUME NEW r \in Seq(S), Len(r) = k + 1 PROVE r \in T
    OBVIOUS
  <2>1. r # <<>>
    BY EmptySeq
  <2>2. PICK q \in Seq(S), x \in S : r = Append(q, x)
    BY <2>1, SequenceEmptyOrAppend
  <2>3. Len(q) = k
    BY <2>2, AppendProperties, LenProperties
  <2> QED
    BY <2>2, <2>3, <1>3
<1>4. \A i \in 0..n : i \in N
  <2> HIDE DEF N, n
  <2> QED
    BY <1>1, <1>2, <1>3, Inductive
<1>5. n \in N
  BY <1>1, <1>4
<1> QED
  BY <1>5

LEMMA AppendConcat ==
  ASSUME NEW S, NEW s \in Seq(S), NEW t \in Seq(S), NEW x \in S
  PROVE  s \o Append(t, x) = Append(s \o t, x)
<1>1. <<x>> \in Seq(S)
  OBVIOUS
<1>2. Append(t, x) = t \o <<x>> /\ s \o t \in Seq(S)
  BY AppendIsConcat, ConcatProperties
<1>3. Append(s \o t, x) = (s \o t) \o <<x>>
  BY <1>2, AppendIsConcat
<1> QED
  BY <1>1, <1>2, <1>3, ConcatAssociative

LEMMA KeepConcat ==
  ASSUME NEW S, NEW s \in Seq(S), NEW t \in Seq(S), NEW T
  PROVE  Keep(s \o t, T) = Keep(s, T) \o Keep(t, T)
<1> DEFINE U == {r \in Seq(S) : Keep(s \o r, T) = Keep(s, T) \o Keep(r, T)}
<1>0. \A r \in Seq(S) : Keep(r, T) \in Seq(S)
  BY KeepIn
<1>1. <<>> \in U
  BY <1>0, ConcatEmptySeq, KeepEmpty
<1>2. ASSUME NEW r \in Seq(S), NEW x \in S, r \in U PROVE Append(r, x) \in U
  <2>1. s \o Append(r, x) = Append(s \o r, x) /\ s \o r \in Seq(S) /\ Append(r, x) \in Seq(S)
    BY AppendConcat, ConcatProperties, AppendProperties
  <2>2. Keep(s \o r, T) = Keep(s, T) \o Keep(r, T)
    BY <1>2
  <2>3. CASE x \in T
    <3>1. Keep(Append(s \o r, x), T) = Append(Keep(s \o r, T), x)
      BY <2>1, <2>3, KeepTakes
    <3>2. Keep(Append(r, x), T) = Append(Keep(r, T), x)
      BY <2>3, KeepTakes
    <3>3. Keep(s, T) \o Append(Keep(r, T), x) = Append(Keep(s, T) \o Keep(r, T), x)
      BY <1>0, AppendConcat
    <3> QED
      BY <2>1, <2>2, <3>1, <3>2, <3>3
  <2>4. CASE x \notin T
    <3>1. Keep(Append(s \o r, x), T) = Keep(s \o r, T)
      BY <2>1, <2>4, KeepSkips
    <3>2. Keep(Append(r, x), T) = Keep(r, T)
      BY <2>4, KeepSkips
    <3> QED
      BY <2>1, <2>2, <3>1, <3>2
  <2> QED
    BY <2>3, <2>4
<1>3. \A r \in Seq(S) : r \in U
  <2> HIDE DEF U
  <2> QED
    BY <1>1, <1>2, SequenceInductive
<1> QED
  BY <1>3

LEMMA KeepConcatEach ==
  ASSUME NEW S, NEW T
  PROVE  \A a, b \in Seq(S) : Keep(a \o b, T) = Keep(a, T) \o Keep(b, T)
<1> SUFFICES ASSUME NEW a \in Seq(S), NEW b \in Seq(S)
             PROVE  Keep(a \o b, T) = Keep(a, T) \o Keep(b, T)
  OBVIOUS
<1> QED
  BY KeepConcat

LEMMA KeepConcatSame ==
  ASSUME NEW S, NEW T, NEW s \in Seq(S), NEW t \in Seq(S), NEW u \in Seq(S),
         Keep(s, T) = Keep(t, T)
  PROVE  Keep(s \o u, T) = Keep(t \o u, T)
<1>1. \A a, b \in Seq(S) : Keep(a \o b, T) = Keep(a, T) \o Keep(b, T)
  BY KeepConcatEach, Zenon
<1>2. Keep(s \o u, T) = Keep(s, T) \o Keep(u, T) /\ Keep(t \o u, T) = Keep(t, T) \o Keep(u, T)
  BY <1>1, Zenon
<1> QED
  BY <1>2, Zenon

LEMMA KeepConcatNone ==
  ASSUME NEW S, NEW T, NEW s \in Seq(S), NEW u \in Seq(S), Keep(u, T) = <<>>
  PROVE  Keep(s \o u, T) = Keep(s, T)
<1>1. \A a, b \in Seq(S) : Keep(a \o b, T) = Keep(a, T) \o Keep(b, T)
  BY KeepConcatEach, Zenon
<1>2. Keep(s, T) \in Seq(S)
  BY KeepIn
<1>3. Keep(s, T) \o <<>> = Keep(s, T)
  BY <1>2, ConcatEmptySeq
<1> QED
  BY <1>1, <1>3

\* e says where in s each element of r is; every element of s in T is one of r.
Embeds(e, r, s, T) ==
  /\ e \in [1..Len(r) -> 1..Len(s)]
  /\ \A k \in 1..Len(r) : r[k] = s[e[k]] /\ s[e[k]] \in T
  /\ \A k, l \in 1..Len(r) : k < l => e[k] < e[l]
  /\ \A i \in 1..Len(s) : s[i] \in T => \E k \in 1..Len(r) : e[k] = i

LEMMA EmbedsSkips ==
  ASSUME NEW S, NEW r \in Seq(S), NEW s \in Seq(S), NEW e, NEW T, Embeds(e, r, s, T),
         NEW x \in S, x \notin T
  PROVE  Embeds(e, r, Append(s, x), T)
<1> DEFINE q == Append(s, x)
<1>1. /\ q \in Seq(S) /\ Len(q) = Len(s) + 1 /\ q[Len(s) + 1] = x
      /\ \A i \in 1..Len(s) : q[i] = s[i]
      /\ Len(s) \in Nat /\ Len(r) \in Nat
  BY AppendProperties, LenProperties
<1> HIDE DEF q
<1>2. e \in [1..Len(r) -> 1..Len(q)]
  BY <1>1 DEF Embeds
<1>3. ASSUME NEW k \in 1..Len(r) PROVE r[k] = q[e[k]] /\ q[e[k]] \in T
  BY <1>1 DEF Embeds
<1>4. ASSUME NEW i \in 1..Len(q), q[i] \in T PROVE \E k \in 1..Len(r) : e[k] = i
  <2>1. i \in 1..Len(s)
    BY <1>1, <1>4
  <2> QED
    BY <1>1, <1>4, <2>1 DEF Embeds
<1>5. \A k, l \in 1..Len(r) : k < l => e[k] < e[l]
  BY DEF Embeds
<1>6. Embeds(e, r, q, T)
  BY <1>2, <1>3, <1>4, <1>5 DEF Embeds
<1> QED
  BY <1>6 DEF q

LEMMA EmbedsTakes ==
  ASSUME NEW S, NEW r \in Seq(S), NEW s \in Seq(S), NEW e, NEW T, Embeds(e, r, s, T),
         NEW x \in S, x \in T
  PROVE  \E h : Embeds(h, Append(r, x), Append(s, x), T)
<1> DEFINE q == Append(s, x)
           p == Append(r, x)
           m == Len(r)
           n == Len(s)
           h == [k \in 1..(m + 1) |-> IF k = m + 1 THEN n + 1 ELSE e[k]]
<1>1. /\ q \in Seq(S) /\ Len(q) = n + 1 /\ q[n + 1] = x /\ \A i \in 1..n : q[i] = s[i]
      /\ p \in Seq(S) /\ Len(p) = m + 1 /\ p[m + 1] = x /\ \A i \in 1..m : p[i] = r[i]
      /\ n \in Nat /\ m \in Nat
  BY AppendProperties, LenProperties
<1>2. /\ e \in [1..m -> 1..n]
      /\ \A k \in 1..m : r[k] = s[e[k]] /\ s[e[k]] \in T
      /\ \A k, l \in 1..m : k < l => e[k] < e[l]
      /\ \A i \in 1..n : s[i] \in T => \E k \in 1..m : e[k] = i
  BY DEF Embeds
<1> HIDE DEF q, p, m, n
<1>3. (\A k \in 1..m : h[k] = e[k] /\ e[k] \in 1..n) /\ h[m + 1] = n + 1
  BY <1>1, <1>2
<1>4. h \in [1..(m + 1) -> 1..(n + 1)]
  BY <1>1, <1>2
<1> HIDE DEF h
<1>5. ASSUME NEW k \in 1..(m + 1) PROVE p[k] = q[h[k]] /\ q[h[k]] \in T
  <2>1. CASE k = m + 1
    BY <1>1, <1>3, <2>1
  <2>2. CASE k # m + 1
    <3>1. k \in 1..m
      BY <1>1, <2>2
    <3>2. h[k] = e[k] /\ e[k] \in 1..n /\ p[k] = r[k] /\ r[k] = s[e[k]] /\ s[e[k]] \in T
      BY <1>1, <1>2, <1>3, <3>1
    <3>3. q[e[k]] = s[e[k]]
      BY <1>1, <3>2
    <3> QED
      BY <3>2, <3>3
  <2> QED
    BY <2>1, <2>2
<1>6. ASSUME NEW k \in 1..(m + 1), NEW l \in 1..(m + 1), k < l PROVE h[k] < h[l]
  <2>1. k \in 1..m
    BY <1>1, <1>6
  <2>2. h[k] = e[k] /\ e[k] \in 1..n
    BY <1>3, <2>1
  <2>3. CASE l = m + 1
    BY <1>1, <1>3, <2>2, <2>3
  <2>4. CASE l # m + 1
    <3>1. l \in 1..m
      BY <1>1, <2>4
    <3> QED
      BY <1>2, <1>3, <1>6, <2>1, <2>2, <3>1
  <2> QED
    BY <2>3, <2>4
<1>7. ASSUME NEW i \in 1..(n + 1), q[i] \in T PROVE \E k \in 1..(m + 1) : h[k] = i
  <2>1. CASE i = n + 1
    BY <1>1, <1>3, <2>1
  <2>2. CASE i # n + 1
    <3>1. i \in 1..n /\ s[i] \in T
      BY <1>1, <1>7, <2>2
    <3>2. PICK k \in 1..m : e[k] = i
      BY <1>2, <3>1
    <3>3. k \in 1..(m + 1) /\ h[k] = e[k]
      BY <1>1, <1>3
    <3> QED
      BY <3>2, <3>3
  <2> QED
    BY <2>1, <2>2
<1>8. Embeds(h, p, q, T)
  BY <1>1, <1>4, <1>5, <1>6, <1>7 DEF Embeds
<1> QED
  BY <1>8 DEF p, q

LEMMA KeepEmbeds ==
  ASSUME NEW S, NEW s \in Seq(S), NEW T
  PROVE  Keep(s, T) \in Seq(S) /\ \E e : Embeds(e, Keep(s, T), s, T)
<1> DEFINE U == {r \in Seq(S) : Keep(r, T) \in Seq(S) /\ \E e : Embeds(e, Keep(r, T), r, T)}
<1>1. <<>> \in U
  <2>1. Keep(<<>>, T) = <<>> /\ Len(<<>>) = 0 /\ <<>> \in Seq(S)
    BY KeepEmpty, EmptySeq
  <2>2. Embeds(<<>>, <<>>, <<>>, T)
    BY <2>1 DEF Embeds
  <2> QED
    BY <2>1, <2>2
<1>2. ASSUME NEW r \in Seq(S), NEW x \in S, r \in U PROVE Append(r, x) \in U
  <2>1. Keep(r, T) \in Seq(S) /\ \E e : Embeds(e, Keep(r, T), r, T)
    BY <1>2
  <2>2. Append(r, x) \in Seq(S) /\ Append(Keep(r, T), x) \in Seq(S)
    BY <2>1, AppendProperties
  <2>3. CASE x \notin T
    BY <2>1, <2>2, <2>3, KeepSkips, EmbedsSkips
  <2>4. CASE x \in T
    <3>1. PICK e : Embeds(e, Keep(r, T), r, T)
      BY <2>1
    <3>2. \E h : Embeds(h, Append(Keep(r, T), x), Append(r, x), T)
      BY <2>1, <2>4, <3>1, EmbedsTakes
    <3>3. Keep(Append(r, x), T) = Append(Keep(r, T), x)
      BY <2>4, KeepTakes
    <3> QED
      BY <2>2, <3>2, <3>3
  <2> QED
    BY <2>3, <2>4
<1>3. \A r \in Seq(S) : r \in U
  <2> HIDE DEF U
  <2> QED
    BY <1>1, <1>2, SequenceInductive
<1> QED
  BY <1>3

LEMMA KeepAll ==
  ASSUME NEW S, NEW s \in Seq(S), NEW T, \A i \in 1..Len(s) : s[i] \in T
  PROVE  Keep(s, T) = s
<1> DEFINE U == {r \in Seq(S) : (\A i \in 1..Len(r) : r[i] \in T) => Keep(r, T) = r}
<1>1. <<>> \in U
  BY KeepEmpty, EmptySeq
<1>2. ASSUME NEW r \in Seq(S), NEW x \in S, r \in U PROVE Append(r, x) \in U
  <2>1. Append(r, x) \in Seq(S) /\ Len(Append(r, x)) = Len(r) + 1 /\ Len(r) \in Nat
        /\ Append(r, x)[Len(r) + 1] = x /\ \A i \in 1..Len(r) : Append(r, x)[i] = r[i]
    BY AppendProperties, LenProperties
  <2>2. ASSUME \A i \in 1..Len(Append(r, x)) : Append(r, x)[i] \in T
        PROVE  Keep(Append(r, x), T) = Append(r, x)
    <3>1. x \in T /\ \A i \in 1..Len(r) : r[i] \in T
      BY <2>1, <2>2
    <3>2. Keep(r, T) = r
      BY <1>2, <3>1
    <3> QED
      BY <3>1, <3>2, KeepTakes
  <2> QED
    BY <2>1, <2>2
<1>3. \A r \in Seq(S) : r \in U
  <2> HIDE DEF U
  <2> QED
    BY <1>1, <1>2, SequenceInductive
<1> QED
  BY <1>3

LEMMA KeepNone ==
  ASSUME NEW S, NEW s \in Seq(S), NEW T, \A i \in 1..Len(s) : s[i] \notin T
  PROVE  Keep(s, T) = <<>>
<1>1. Keep(s, T) \in Seq(S) /\ Len(Keep(s, T)) \in Nat
  BY KeepIn, LenProperties
<1>2. PICK e : Embeds(e, Keep(s, T), s, T)
  BY KeepEmbeds
<1>3. ASSUME Len(Keep(s, T)) # 0 PROVE FALSE
  <2>1. 1 \in 1..Len(Keep(s, T))
    BY <1>1, <1>3
  <2>2. e[1] \in 1..Len(s) /\ s[e[1]] \in T
    BY <1>2, <2>1 DEF Embeds
  <2> QED
    BY <2>2
<1> QED
  BY <1>1, <1>3, EmptySeq

-----------------------------------------------------------------------------
(* FlattenSeq.                                                             *)

Joining(f, ss, n) == f[0] = <<>> /\ \A i \in 1..n : f[i] = f[i - 1] \o ss[i]
SameUpTo(ss, rr, n) == \A i \in 1..n : ss[i] = rr[i]

LEMMA JoinExists ==
  ASSUME NEW S, NEW ss \in Seq(Seq(S))
  PROVE  \E f \in [0..Len(ss) -> Seq(S)] : Joining(f, ss, Len(ss))
<1> DEFINE n == Len(ss)
           Q == Seq(S)
           g == [p \in Nat \X Q |-> IF p[1] \in 1..n THEN p[2] \o ss[p[1]] ELSE p[2]]
<1>1. n \in Nat /\ (\A i \in 1..n : ss[i] \in Q) /\ <<>> \in Q
  BY LenProperties, ElementOfSeq
<1>2. g \in [Nat \X Q -> Q]
  <2>1. ASSUME NEW p \in Nat \X Q
        PROVE  (IF p[1] \in 1..n THEN p[2] \o ss[p[1]] ELSE p[2]) \in Q
    <3>1. p[2] \in Seq(S)
      OBVIOUS
    <3>2. p[1] \in 1..n => p[2] \o ss[p[1]] \in Seq(S)
      BY <3>1, <1>1, ConcatProperties
    <3> QED
      BY <3>1, <3>2
  <2> QED
    BY <2>1
<1>3. PICK f : Obeys(f, Q, <<>>, g, n)
  <2> HIDE DEF g, n, Q
  <2> QED
    BY <1>1, <1>2, RecursionExists
<1>4. f \in [0..n -> Q] /\ f[0] = <<>>
  BY <1>3 DEF Obeys
<1>5. ASSUME NEW i \in 1..n PROVE f[i] = f[i - 1] \o ss[i]
  <2> DEFINE p == <<i, f[i - 1]>>
  <2>1. i \in Nat /\ i - 1 \in 0..n
    BY <1>1
  <2>2. p \in Nat \X Q /\ p[1] = i /\ p[2] = f[i - 1]
    BY <2>1, <1>4
  <2>3. f[i] = g[p]
    BY <1>3 DEF Obeys
  <2> HIDE DEF p
  <2>4. g[p] = IF p[1] \in 1..n THEN p[2] \o ss[p[1]] ELSE p[2]
    BY <2>2
  <2> QED
    BY <2>2, <2>3, <2>4
<1> QED
  BY <1>4, <1>5 DEF Joining

LEMMA JoinUnique ==
  ASSUME NEW n \in Nat, NEW ss, NEW rr, SameUpTo(ss, rr, n),
         NEW f, Joining(f, ss, n), NEW h, Joining(h, rr, n)
  PROVE  f[n] = h[n]
<1> DEFINE U == {i \in Nat : f[i] = h[i]}
<1>1. 0 \in U
  BY DEF Joining
<1>2. ASSUME NEW i \in 0..(n - 1), i \in U PROVE i + 1 \in U
  <2>1. i + 1 \in 1..n /\ (i + 1) - 1 = i /\ f[i] = h[i] /\ ss[i + 1] = rr[i + 1]
    BY <1>2 DEF SameUpTo
  <2>2. f[i + 1] = f[i] \o ss[i + 1] /\ h[i + 1] = h[i] \o rr[i + 1]
    BY <2>1 DEF Joining
  <2>3. f[i + 1] = h[i + 1]
    BY <2>1, <2>2, Zenon
  <2> QED
    BY <2>1, <2>3
<1>3. \A i \in 0..n : i \in U
  <2> HIDE DEF U
  <2> QED
    BY <1>1, <1>2, Inductive
<1> QED
  BY <1>3

LEMMA FlattenUnfolds ==
  ASSUME NEW S, NEW ss \in Seq(Seq(S))
  PROVE  \E f \in [0..Len(ss) -> Seq(S)] : Joining(f, ss, Len(ss)) /\ FlattenSeq(ss) = f[Len(ss)]
<1> DEFINE n == Len(ss)
           Step(f) == [i \in 1..n |-> IF i = 1 THEN ss[i] ELSE f[i - 1] \o ss[i]]
           flatten == CHOOSE f : f = Step(f)
<1>1. n \in Nat /\ \A i \in 1..n : ss[i] \in Seq(S)
  BY LenProperties, ElementOfSeq
<1>2. PICK f \in [0..n -> Seq(S)] : Joining(f, ss, Len(ss))
  BY JoinExists
<1>3. CASE n = 0
  <2>1. ss = <<>>
    BY <1>3, EmptySeq
  <2>2. FlattenSeq(ss) = <<>>
    BY <1>3, <2>1 DEF FlattenSeq
  <2> QED
    BY <1>2, <1>3, <2>2 DEF Joining
<1>4. CASE n # 0
  <2> DEFINE r == [i \in 1..n |-> f[i]]
  <2>1. r = Step(r)
    <3>1. ASSUME NEW i \in 1..n PROVE f[i] = IF i = 1 THEN ss[i] ELSE r[i - 1] \o ss[i]
      <4>1. f[i] = f[i - 1] \o ss[i]
        BY <1>2 DEF Joining
      <4>2. CASE i = 1
        <5>1. f[i - 1] = <<>>
          BY <1>2, <4>2 DEF Joining
        <5> QED
          BY <1>1, <4>1, <4>2, <5>1, ConcatEmptySeq
      <4>3. CASE i # 1
        <5>1. i - 1 \in 1..n
          BY <1>1, <4>3
        <5> QED
          BY <4>1, <4>3, <5>1
      <4> QED
        BY <4>2, <4>3
    <3> QED
      BY <3>1
  <2>2. flatten = Step(flatten)
    <3> HIDE DEF Step, r
    <3> QED
      BY <2>1
  <2>3. \A i \in 1..n : flatten[i] = IF i = 1 THEN ss[i] ELSE flatten[i - 1] \o ss[i]
    <3> HIDE DEF flatten
    <3> DEFINE h == Step(flatten)
    <3>1. \A i \in 1..n : h[i] = IF i = 1 THEN ss[i] ELSE flatten[i - 1] \o ss[i]
      OBVIOUS
    <3>2. flatten = h
      BY <2>2
    <3> HIDE DEF h
    <3> QED
      BY <3>1, <3>2
  <2>4. FlattenSeq(ss) = flatten[n]
    BY <1>4 DEF FlattenSeq, flatten
  <2> HIDE DEF flatten
  <2> DEFINE h == [i \in 0..n |-> IF i = 0 THEN <<>> ELSE flatten[i]]
  <2>5. Joining(h, ss, Len(ss))
    <3>1. h[0] = <<>>
      BY <1>1
    <3>2. ASSUME NEW i \in 1..n PROVE h[i] = h[i - 1] \o ss[i]
      <4>1. h[i] = flatten[i]
        BY <1>1
      <4>2. CASE i = 1
        <5>1. h[i - 1] = <<>>
          BY <3>1, <4>2
        <5> QED
          BY <1>1, <2>3, <4>1, <4>2, <5>1, ConcatEmptySeq
      <4>3. CASE i # 1
        <5>1. i - 1 \in 1..n /\ i - 1 \in 0..n /\ i - 1 # 0
          BY <1>1, <4>3
        <5>2. h[i - 1] = flatten[i - 1]
          BY <5>1
        <5> QED
          BY <2>3, <4>1, <4>3, <5>2
      <4> QED
        BY <4>2, <4>3
    <3> QED
      BY <3>1, <3>2 DEF Joining
  <2>6. h[n] = flatten[n]
    BY <1>1, <1>4
  <2> HIDE DEF h
  <2>7. f[n] = h[n]
    <3>1. SameUpTo(ss, ss, n)
      BY DEF SameUpTo
    <3> QED
      BY <1>1, <1>2, <2>5, <3>1, JoinUnique
  <2> QED
    BY <1>2, <2>4, <2>6, <2>7
<1> QED
  BY <1>3, <1>4

LEMMA FlattenEmpty == FlattenSeq(<<>>) = <<>>
  BY DEF FlattenSeq

LEMMA FlattenIn ==
  ASSUME NEW S, NEW ss \in Seq(Seq(S))
  PROVE  FlattenSeq(ss) \in Seq(S)
<1>1. PICK f \in [0..Len(ss) -> Seq(S)] : FlattenSeq(ss) = f[Len(ss)]
  BY FlattenUnfolds
<1> QED
  BY <1>1, LenProperties

LEMMA FlattenAppend ==
  ASSUME NEW S, NEW ss \in Seq(Seq(S)), NEW x \in Seq(S)
  PROVE  FlattenSeq(Append(ss, x)) = FlattenSeq(ss) \o x
<1> DEFINE n == Len(ss)
           rr == Append(ss, x)
<1>1. n \in Nat /\ rr \in Seq(Seq(S)) /\ Len(rr) = n + 1 /\ rr[n + 1] = x
      /\ \A i \in 1..n : rr[i] = ss[i]
  BY AppendProperties, LenProperties
<1> HIDE DEF rr
<1>2. PICK f : Joining(f, ss, n) /\ FlattenSeq(ss) = f[n]
  BY FlattenUnfolds
<1>3. PICK h : Joining(h, rr, Len(rr)) /\ FlattenSeq(rr) = h[Len(rr)]
  BY <1>1, FlattenUnfolds
<1>4. f[n] = h[n]
  <2>1. Joining(f, ss, n)
    BY <1>2
  <2> HIDE DEF n
  <2>2. SameUpTo(ss, rr, n)
    BY <1>1 DEF SameUpTo
  <2>3. Joining(h, rr, n)
    <3>1. \A i \in 1..n : i \in 1..Len(rr)
      BY <1>1
    <3> QED
      BY <1>3, <3>1 DEF Joining
  <2> QED
    BY <1>1, <2>1, <2>2, <2>3, JoinUnique
<1>5. h[n + 1] = h[n] \o x
  <2>1. n + 1 \in 1..Len(rr) /\ (n + 1) - 1 = n
    BY <1>1
  <2> QED
    BY <1>1, <1>3, <2>1 DEF Joining
<1>6. FlattenSeq(rr) = FlattenSeq(ss) \o x
  BY <1>1, <1>2, <1>3, <1>4, <1>5
<1> QED
  BY <1>6 DEF rr

LEMMA FlattenConcat ==
  ASSUME NEW S, NEW ss \in Seq(Seq(S)), NEW tt \in Seq(Seq(S))
  PROVE  FlattenSeq(ss \o tt) = FlattenSeq(ss) \o FlattenSeq(tt)
<1> DEFINE Q == Seq(S)
           U == {r \in Seq(Q) : FlattenSeq(ss \o r) = FlattenSeq(ss) \o FlattenSeq(r)}
<1>1. <<>> \in U
  BY FlattenIn, ConcatEmptySeq, FlattenEmpty
<1>2. ASSUME NEW r \in Seq(Q), NEW x \in Q, r \in U PROVE Append(r, x) \in U
  <2>1. ss \o Append(r, x) = Append(ss \o r, x) /\ ss \o r \in Seq(Q) /\ Append(r, x) \in Seq(Q)
    BY AppendConcat, ConcatProperties, AppendProperties
  <2>2. FlattenSeq(ss \o r) = FlattenSeq(ss) \o FlattenSeq(r)
    BY <1>2
  <2>3. FlattenSeq(Append(ss \o r, x)) = FlattenSeq(ss \o r) \o x
    BY <2>1, FlattenAppend
  <2>4. FlattenSeq(Append(r, x)) = FlattenSeq(r) \o x
    BY FlattenAppend
  <2>5. (FlattenSeq(ss) \o FlattenSeq(r)) \o x = FlattenSeq(ss) \o (FlattenSeq(r) \o x)
    <3>1. PICK a, b : a = FlattenSeq(ss) /\ b = FlattenSeq(r)
      OBVIOUS
    <3>2. a \in Seq(S) /\ b \in Seq(S) /\ x \in Seq(S)
      BY <3>1, FlattenIn
    <3>3. (a \o b) \o x = a \o (b \o x)
      BY <3>2, ConcatAssociative
    <3> QED
      BY <3>1, <3>3
  <2> QED
    BY <2>1, <2>2, <2>3, <2>4, <2>5
<1>3. \A r \in Seq(Q) : r \in U
  <2> HIDE DEF U, Q
  <2> QED
    BY <1>1, <1>2, SequenceInductive
<1> QED
  BY <1>3

-----------------------------------------------------------------------------
(* What a sequence holds.                                                  *)

LEMMA InRange ==
  ASSUME NEW S, NEW s \in Seq(S)
  PROVE  /\ \A x : x \in ToSet(s) <=> \E i \in 1..Len(s) : s[i] = x
         /\ ToSet(s) \subseteq S
<1>1. DOMAIN s = 1..Len(s) /\ \A i \in 1..Len(s) : s[i] \in S
  BY LenProperties, ElementOfSeq
<1> QED
  BY <1>1 DEF ToSet

LEMMA SeqWidens ==
  ASSUME NEW S, NEW R, S \subseteq R, NEW s \in Seq(S)
  PROVE  s \in Seq(R)
<1>1. \A i \in 1..Len(s) : s[i] \in R
  BY ElementOfSeq
<1>2. s = [i \in 1..Len(s) |-> s[i]] /\ Len(s) \in Nat
  BY LenProperties
<1> QED
  BY <1>1, <1>2

LEMMA RangeEmpty == ToSet(<<>>) = {}
  BY DEF ToSet

LEMMA RangeAppend ==
  ASSUME NEW S, NEW s \in Seq(S), NEW x \in S
  PROVE  ToSet(Append(s, x)) = ToSet(s) \cup {x}
<1> DEFINE q == Append(s, x)
<1>1. /\ q \in Seq(S) /\ Len(q) = Len(s) + 1 /\ q[Len(s) + 1] = x
      /\ \A i \in 1..Len(s) : q[i] = s[i]
      /\ Len(s) \in Nat
  BY AppendProperties, LenProperties
<1> HIDE DEF q
<1>2. \A y : y \in ToSet(q) <=> \E i \in 1..Len(q) : q[i] = y
  BY <1>1, InRange
<1>3. \A y : y \in ToSet(s) <=> \E i \in 1..Len(s) : s[i] = y
  BY InRange
<1>4. \A i : i \in 1..Len(q) <=> i \in 1..Len(s) \/ i = Len(s) + 1
  BY <1>1
<1>5. ToSet(q) = ToSet(s) \cup {x}
  BY <1>1, <1>2, <1>3, <1>4
<1> QED
  BY <1>5 DEF q

LEMMA RangeConcat ==
  ASSUME NEW S, NEW s \in Seq(S), NEW t \in Seq(S)
  PROVE  ToSet(s \o t) = ToSet(s) \cup ToSet(t)
<1> DEFINE U == {r \in Seq(S) : ToSet(s \o r) = ToSet(s) \cup ToSet(r)}
<1>1. <<>> \in U
  BY ConcatEmptySeq, RangeEmpty
<1>2. ASSUME NEW r \in Seq(S), NEW x \in S, r \in U PROVE Append(r, x) \in U
  <2>1. s \o Append(r, x) = Append(s \o r, x) /\ s \o r \in Seq(S) /\ Append(r, x) \in Seq(S)
    BY AppendConcat, ConcatProperties, AppendProperties
  <2>2. ToSet(Append(s \o r, x)) = ToSet(s \o r) \cup {x}
    <3> DEFINE c == s \o r
    <3>1. c \in Seq(S)
      BY <2>1
    <3> HIDE DEF c
    <3>2. ToSet(Append(c, x)) = ToSet(c) \cup {x}
      BY <3>1, RangeAppend
    <3> QED
      BY <3>2 DEF c
  <2>3. ToSet(Append(r, x)) = ToSet(r) \cup {x}
    BY RangeAppend
  <2> QED
    BY <1>2, <2>1, <2>2, <2>3
<1>3. \A r \in Seq(S) : r \in U
  <2> HIDE DEF U
  <2> QED
    BY <1>1, <1>2, SequenceInductive
<1> QED
  BY <1>3

LEMMA RangeKeep ==
  ASSUME NEW S, NEW s \in Seq(S), NEW T
  PROVE  ToSet(Keep(s, T)) = ToSet(s) \cap T
<1> DEFINE U == {r \in Seq(S) : ToSet(Keep(r, T)) = ToSet(r) \cap T}
<1>1. <<>> \in U
  BY KeepEmpty, RangeEmpty
<1>2. ASSUME NEW r \in Seq(S), NEW x \in S, r \in U PROVE Append(r, x) \in U
  <2>1. Keep(r, T) \in Seq(S) /\ Append(r, x) \in Seq(S)
        /\ ToSet(Append(r, x)) = ToSet(r) \cup {x} /\ ToSet(Keep(r, T)) = ToSet(r) \cap T
    BY <1>2, KeepIn, AppendProperties, RangeAppend
  <2>2. CASE x \in T
    <3>1. Keep(Append(r, x), T) = Append(Keep(r, T), x)
      BY <2>2, KeepTakes
    <3>2. ToSet(Append(Keep(r, T), x)) = ToSet(Keep(r, T)) \cup {x}
      BY <2>1, RangeAppend
    <3> QED
      BY <2>1, <2>2, <3>1, <3>2
  <2>3. CASE x \notin T
    <3>1. Keep(Append(r, x), T) = Keep(r, T)
      BY <2>3, KeepSkips
    <3> QED
      BY <2>1, <2>3, <3>1
  <2> QED
    BY <2>2, <2>3
<1>3. \A r \in Seq(S) : r \in U
  <2> HIDE DEF U
  <2> QED
    BY <1>1, <1>2, SequenceInductive
<1> QED
  BY <1>3

\* Keep looks at no more than the elements of the sequence.
LEMMA KeepSame ==
  ASSUME NEW S, NEW s \in Seq(S), NEW T, NEW R, \A x \in ToSet(s) : x \in T <=> x \in R
  PROVE  Keep(s, T) = Keep(s, R)
<1> DEFINE U == {r \in Seq(S) : (\A x \in ToSet(r) : x \in T <=> x \in R) => Keep(r, T) = Keep(r, R)}
<1>1. <<>> \in U
  BY KeepEmpty
<1>2. ASSUME NEW r \in Seq(S), NEW x \in S, r \in U PROVE Append(r, x) \in U
  <2>1. Append(r, x) \in Seq(S) /\ ToSet(Append(r, x)) = ToSet(r) \cup {x}
    BY AppendProperties, RangeAppend
  <2>2. ASSUME \A y \in ToSet(Append(r, x)) : y \in T <=> y \in R
        PROVE  Keep(Append(r, x), T) = Keep(Append(r, x), R)
    <3>1. Keep(r, T) = Keep(r, R) /\ (x \in T <=> x \in R)
      BY <1>2, <2>1, <2>2
    <3>2. CASE x \in T
      <4>1. Keep(Append(r, x), T) = Append(Keep(r, T), x)
        BY <3>2, KeepTakes
      <4>2. Keep(Append(r, x), R) = Append(Keep(r, R), x)
        BY <3>1, <3>2, KeepTakes
      <4> QED
        BY <3>1, <4>1, <4>2
    <3>3. CASE x \notin T
      <4>1. Keep(Append(r, x), T) = Keep(r, T)
        BY <3>3, KeepSkips
      <4>2. Keep(Append(r, x), R) = Keep(r, R)
        BY <3>1, <3>3, KeepSkips
      <4> QED
        BY <3>1, <4>1, <4>2
    <3> QED
      BY <3>2, <3>3
  <2> QED
    BY <2>1, <2>2
<1>3. \A r \in Seq(S) : r \in U
  <2> HIDE DEF U
  <2> QED
    BY <1>1, <1>2, SequenceInductive
<1> QED
  BY <1>3

-----------------------------------------------------------------------------
(* Subsequences, and sequences without repetitions.                        *)

Inside(e, r, s) ==
  /\ e \in [1..Len(r) -> 1..Len(s)]
  /\ \A k \in 1..Len(r) : r[k] = s[e[k]]
  /\ \A k, l \in 1..Len(r) : k < l => e[k] < e[l]
Sub(r, s) == \E e : Inside(e, r, s)

LEMMA SubKeep ==
  ASSUME NEW S, NEW s \in Seq(S), NEW T
  PROVE  Sub(Keep(s, T), s)
<1>1. PICK e : Embeds(e, Keep(s, T), s, T)
  BY KeepEmbeds
<1>2. Inside(e, Keep(s, T), s)
  BY <1>1 DEF Embeds, Inside
<1> QED
  BY <1>2 DEF Sub

LEMMA SubEmpty ==
  ASSUME NEW S, NEW s \in Seq(S)
  PROVE  Sub(<<>>, s)
<1>1. Inside(<<>>, <<>>, s)
  BY DEF Inside
<1> QED
  BY <1>1 DEF Sub

LEMMA SubSame ==
  ASSUME NEW S, NEW s \in Seq(S)
  PROVE  Sub(s, s)
<1>1. Inside([i \in 1..Len(s) |-> i], s, s)
  BY LenProperties DEF Inside
<1> QED
  BY <1>1 DEF Sub

LEMMA SubPrefix ==
  ASSUME NEW S, NEW s \in Seq(S), NEW n \in Nat, n <= Len(s)
  PROVE  SubSeq(s, 1, n) \in Seq(S) /\ Len(SubSeq(s, 1, n)) = n /\ Sub(SubSeq(s, 1, n), s)
<1> DEFINE r == SubSeq(s, 1, n)
<1>1. Len(s) \in Nat
  BY LenProperties
<1>2. \A i \in 1..n : s[i] \in S
  BY <1>1, ElementOfSeq
<1>3. r = [i \in 1..n |-> s[i]]
  BY <1>1
<1>4. r \in Seq(S) /\ Len(r) = n /\ \A i \in 1..n : r[i] = s[i]
  BY <1>2, <1>3
<1> HIDE DEF r
<1> DEFINE e == [i \in 1..n |-> i]
<1>5. Inside(e, r, s)
  BY <1>1, <1>4 DEF Inside
<1> QED
  BY <1>4, <1>5 DEF Sub, r

LEMMA SubTrans ==
  ASSUME NEW r, NEW s, NEW t, Sub(r, s), Sub(s, t)
  PROVE  Sub(r, t)
<1>1. PICK e : Inside(e, r, s)
  BY DEF Sub
<1>2. PICK f : Inside(f, s, t)
  BY DEF Sub
<1> DEFINE h == [k \in 1..Len(r) |-> f[e[k]]]
<1>3. /\ e \in [1..Len(r) -> 1..Len(s)] /\ f \in [1..Len(s) -> 1..Len(t)]
      /\ \A k \in 1..Len(r) : r[k] = s[e[k]]
      /\ \A k \in 1..Len(s) : s[k] = t[f[k]]
      /\ \A k, l \in 1..Len(r) : k < l => e[k] < e[l]
      /\ \A k, l \in 1..Len(s) : k < l => f[k] < f[l]
  BY <1>1, <1>2 DEF Inside
<1>4. Inside(h, r, t)
  BY <1>3 DEF Inside
<1> QED
  BY <1>4 DEF Sub

LEMMA SubConcat ==
  ASSUME NEW S, NEW r \in Seq(S), NEW s \in Seq(S), NEW p \in Seq(S), NEW q \in Seq(S),
         Sub(r, s), Sub(p, q)
  PROVE  Sub(r \o p, s \o q)
<1>1. PICK e : Inside(e, r, s)
  BY DEF Sub
<1>2. PICK f : Inside(f, p, q)
  BY DEF Sub
<1> DEFINE m == Len(r)
           n == Len(s)
           m2 == Len(p)
           n2 == Len(q)
           a == r \o p
           b == s \o q
           h == [k \in 1..(m + m2) |-> IF k <= m THEN e[k] ELSE n + f[k - m]]
<1>3. /\ m \in Nat /\ n \in Nat /\ m2 \in Nat /\ n2 \in Nat
      /\ Len(a) = m + m2 /\ Len(b) = n + n2
      /\ \A i \in 1..m : a[i] = r[i]
      /\ \A i \in 1..m2 : a[m + i] = p[i]
      /\ \A i \in 1..n : b[i] = s[i]
      /\ \A i \in 1..n2 : b[n + i] = q[i]
  BY LenProperties, ConcatProperties
<1>4. /\ e \in [1..m -> 1..n] /\ f \in [1..m2 -> 1..n2]
      /\ \A k \in 1..m : r[k] = s[e[k]]
      /\ \A k \in 1..m2 : p[k] = q[f[k]]
      /\ \A k, l \in 1..m : k < l => e[k] < e[l]
      /\ \A k, l \in 1..m2 : k < l => f[k] < f[l]
  BY <1>1, <1>2 DEF Inside
<1> HIDE DEF m, n, m2, n2, a, b
<1>5. (\A k \in 1..m : h[k] = e[k] /\ e[k] \in 1..n)
      /\ \A k \in (m + 1)..(m + m2) : k - m \in 1..m2 /\ h[k] = n + f[k - m] /\ f[k - m] \in 1..n2
  <2>1. ASSUME NEW k \in 1..m PROVE h[k] = e[k] /\ e[k] \in 1..n
    <3>1. k \in 1..(m + m2) /\ k <= m
      BY <1>3
    <3> QED
      BY <1>4, <3>1
  <2>2. ASSUME NEW k \in (m + 1)..(m + m2)
        PROVE  k - m \in 1..m2 /\ h[k] = n + f[k - m] /\ f[k - m] \in 1..n2
    <3>1. k - m \in 1..m2 /\ k \in 1..(m + m2) /\ ~(k <= m)
      BY <1>3
    <3> QED
      BY <1>4, <3>1
  <2> QED
    BY <2>1, <2>2
<1>6. \A k \in 1..(m + m2) : k \in 1..m \/ k \in (m + 1)..(m + m2)
  BY <1>3
<1>7. h = [k \in 1..(m + m2) |-> h[k]]
  OBVIOUS
<1> HIDE DEF h
<1>8. h \in [1..(m + m2) -> 1..(n + n2)]
  <2>1. ASSUME NEW k \in 1..(m + m2) PROVE h[k] \in 1..(n + n2)
    <3>1. CASE k \in 1..m
      <4>1. h[k] \in 1..n
        BY <1>5, <3>1
      <4> QED
        BY <1>3, <4>1
    <3>2. CASE k \in (m + 1)..(m + m2)
      <4>1. h[k] = n + f[k - m] /\ f[k - m] \in 1..n2
        BY <1>5, <3>2
      <4> QED
        BY <1>3, <4>1
    <3> QED
      BY <1>6, <3>1, <3>2
  <2> QED
    BY <1>7, <2>1
<1>9. ASSUME NEW k \in 1..(m + m2) PROVE a[k] = b[h[k]]
  <2>1. CASE k \in 1..m
    <3>1. a[k] = r[k] /\ h[k] = e[k] /\ e[k] \in 1..n /\ r[k] = s[e[k]]
      BY <1>3, <1>4, <1>5, <2>1
    <3>2. b[e[k]] = s[e[k]]
      BY <1>3, <3>1
    <3> QED
      BY <3>1, <3>2
  <2>2. CASE k \in (m + 1)..(m + m2)
    <3> DEFINE i == k - m
    <3>1. i \in 1..m2 /\ h[k] = n + f[i] /\ f[i] \in 1..n2 /\ m + i = k
      BY <1>3, <1>5, <2>2
    <3> HIDE DEF i
    <3>2. a[m + i] = p[i] /\ b[n + f[i]] = q[f[i]] /\ p[i] = q[f[i]]
      BY <1>3, <1>4, <3>1
    <3> QED
      BY <3>1, <3>2
  <2> QED
    BY <1>6, <2>1, <2>2
<1>10. ASSUME NEW k \in 1..(m + m2), NEW l \in 1..(m + m2), k < l PROVE h[k] < h[l]
  <2>1. CASE k \in 1..m /\ l \in 1..m
    <3>1. h[k] = e[k] /\ h[l] = e[l]
      BY <1>5, <2>1
    <3>2. e[k] < e[l]
      BY <1>4, <1>10, <2>1
    <3> QED
      BY <3>1, <3>2
  <2>2. CASE k \in 1..m /\ l \in (m + 1)..(m + m2)
    <3>1. h[k] \in 1..n
      BY <1>5, <2>2
    <3>2. h[l] = n + f[l - m] /\ f[l - m] \in 1..n2
      BY <1>5, <2>2
    <3> QED
      BY <1>3, <3>1, <3>2
  <2>3. CASE k \in (m + 1)..(m + m2)
    <3>1. l \in (m + 1)..(m + m2)
      BY <1>3, <1>10, <2>3
    <3>2. k - m \in 1..m2 /\ l - m \in 1..m2 /\ k - m < l - m
      BY <1>3, <1>5, <1>10, <2>3, <3>1
    <3>3. f[k - m] < f[l - m]
      BY <1>4, <3>2
    <3> QED
      BY <1>3, <1>5, <2>3, <3>1, <3>3
  <2> QED
    BY <1>6, <2>1, <2>2, <2>3
<1>11. Inside(h, a, b)
  BY <1>3, <1>8, <1>9, <1>10 DEF Inside
<1> QED
  BY <1>11 DEF Sub, a, b

Distinct(s) == \A i, j \in 1..Len(s) : s[i] = s[j] => i = j

LEMMA DistinctConcat ==
  ASSUME NEW S, NEW s \in Seq(S), NEW t \in Seq(S), Distinct(s), Distinct(t),
         ToSet(s) \cap ToSet(t) = {}
  PROVE  Distinct(s \o t)
<1> DEFINE m == Len(s)
           n == Len(t)
           a == s \o t
<1>1. /\ m \in Nat /\ n \in Nat /\ Len(a) = m + n
      /\ \A i \in 1..m : a[i] = s[i]
      /\ \A i \in 1..n : a[m + i] = t[i]
  BY LenProperties, ConcatProperties
<1>2. (\A i, j \in 1..m : s[i] = s[j] => i = j) /\ (\A i, j \in 1..n : t[i] = t[j] => i = j)
  BY DEF Distinct
<1>3. \A i \in 1..m, j \in 1..n : s[i] # t[j]
  BY InRange
<1> HIDE DEF m, n, a
<1>4. ASSUME NEW i \in 1..(m + n), NEW j \in 1..(m + n), a[i] = a[j] PROVE i = j
  <2>1. CASE i \in 1..m /\ j \in 1..m
    BY <1>1, <1>2, <1>4, <2>1
  <2>2. CASE i \notin 1..m /\ j \notin 1..m
    <3>1. i - m \in 1..n /\ j - m \in 1..n /\ m + (i - m) = i /\ m + (j - m) = j
      BY <1>1, <2>2
    <3>2. t[i - m] = t[j - m]
      BY <1>1, <1>4, <3>1
    <3>3. i - m = j - m
      BY <1>2, <3>1, <3>2
    <3> QED
      BY <1>1, <3>3
  <2>3. CASE i \in 1..m /\ j \notin 1..m
    <3>1. j - m \in 1..n /\ m + (j - m) = j
      BY <1>1, <2>3
    <3>2. a[i] = s[i] /\ a[j] = t[j - m]
      BY <1>1, <2>3, <3>1
    <3> QED
      BY <1>3, <1>4, <2>3, <3>1, <3>2
  <2>4. CASE i \notin 1..m /\ j \in 1..m
    <3>1. i - m \in 1..n /\ m + (i - m) = i
      BY <1>1, <2>4
    <3>2. a[j] = s[j] /\ a[i] = t[i - m]
      BY <1>1, <2>4, <3>1
    <3> QED
      BY <1>3, <1>4, <2>4, <3>1, <3>2
  <2> QED
    BY <2>1, <2>2, <2>3, <2>4
<1>5. Distinct(a)
  BY <1>1, <1>4 DEF Distinct
<1> QED
  BY <1>5 DEF a

LEMMA FlattenKeep ==
  ASSUME NEW S, NEW ss \in Seq(Seq(S)), NEW T
  PROVE  Keep(FlattenSeq(ss), T) = FlattenSeq([i \in 1..Len(ss) |-> Keep(ss[i], T)])
<1> DEFINE Q == Seq(S)
           K(r) == [i \in 1..Len(r) |-> Keep(r[i], T)]
           U == {r \in Seq(Q) : Keep(FlattenSeq(r), T) = FlattenSeq(K(r))}
<1>1. <<>> \in U
  <2>1. K(<<>>) = <<>>
    OBVIOUS
  <2> QED
    BY <2>1, FlattenEmpty, KeepEmpty
<1>2. ASSUME NEW r \in Seq(Q), NEW x \in Q, r \in U PROVE Append(r, x) \in U
  <2> DEFINE q == Append(r, x)
             n == Len(r)
             kx == Keep(x, T)
  <2>1. q \in Seq(Q) /\ Len(q) = n + 1 /\ q[n + 1] = x /\ n \in Nat /\ \A i \in 1..n : q[i] = r[i]
    BY AppendProperties, LenProperties
  <2>2. kx \in Q /\ \A i \in 1..n : r[i] \in Q /\ Keep(r[i], T) \in Q
    BY KeepIn, ElementOfSeq
  <2>3. K(r) \in Seq(Q) /\ Len(K(r)) = n
    BY <2>1, <2>2
  <2>4. K(q) = Append(K(r), kx)
    <3> DEFINE a == K(q)
               b == Append(K(r), kx)
    <3>1. a \in Seq(Q) /\ Len(a) = n + 1 /\ \A i \in 1..(n + 1) : a[i] = Keep(q[i], T)
      <4>1. \A i \in 1..(n + 1) : Keep(q[i], T) \in Q
        <5>1. \A i \in 1..(n + 1) : q[i] \in Q
          BY <2>1, ElementOfSeq
        <5> QED
          BY <5>1, KeepIn
      <4>2. a = [i \in 1..(n + 1) |-> Keep(q[i], T)]
        BY <2>1
      <4>3. n + 1 \in Nat
        BY <2>1
      <4> HIDE DEF a, q, n, Q
      <4> DEFINE v == [i \in 1..(n + 1) |-> Keep(q[i], T)]
      <4>4. v \in Seq(Q) /\ Len(v) = n + 1 /\ \A i \in 1..(n + 1) : v[i] = Keep(q[i], T)
        <5>1. v \in [1..(n + 1) -> Q] /\ DOMAIN v = 1..(n + 1)
          BY <4>1
        <5>2. \A i \in 1..(n + 1) : v[i] = Keep(q[i], T)
          OBVIOUS
        <5> HIDE DEF v
        <5>3. PICK k : k = n + 1
          OBVIOUS
        <5>4. v \in Seq(Q) /\ Len(v) = k
          <6>1. k \in Nat /\ v \in [1..k -> Q]
            BY <4>3, <5>1, <5>3
          <6> QED
            BY <6>1
        <5> QED
          BY <5>2, <5>3, <5>4
      <4> QED
        BY <4>2, <4>4
    <3>2. b \in Seq(Q) /\ Len(b) = n + 1 /\ b[n + 1] = kx /\ \A i \in 1..n : b[i] = K(r)[i]
      <4> HIDE DEF kx, K
      <4> QED
        BY <2>2, <2>3, AppendProperties
    <3>3. \A i \in 1..n : K(r)[i] = Keep(r[i], T)
      OBVIOUS
    <3> HIDE DEF a, b, K, q
    <3>4. ASSUME NEW i \in 1..(n + 1) PROVE a[i] = b[i]
      <4>1. CASE i = n + 1
        BY <2>1, <3>1, <3>2, <4>1
      <4>2. CASE i # n + 1
        <5>1. i \in 1..n
          BY <2>1, <4>2
        <5> QED
          BY <2>1, <3>1, <3>2, <3>3, <5>1
      <4> QED
        BY <4>1, <4>2
    <3>5. a = b
      <4> HIDE DEF Q, n
      <4> QED
        BY <3>1, <3>2, <3>4, SeqEqual
    <3> QED
      BY <3>5 DEF a, b
  <2>5. FlattenSeq(Append(K(r), kx)) = FlattenSeq(K(r)) \o kx
    <3> HIDE DEF K, kx
    <3> QED
      BY <2>2, <2>3, FlattenAppend
  <2>6. FlattenSeq(q) = FlattenSeq(r) \o x /\ FlattenSeq(r) \in Seq(S)
    BY FlattenAppend, FlattenIn
  <2>7. Keep(FlattenSeq(r) \o x, T) = Keep(FlattenSeq(r), T) \o kx
    BY <2>6, KeepConcat
  <2>8. Keep(FlattenSeq(r), T) = FlattenSeq(K(r))
    BY <1>2
  <2> HIDE DEF K, kx
  <2> QED
    BY <2>1, <2>4, <2>5, <2>6, <2>7, <2>8
<1>3. \A r \in Seq(Q) : r \in U
  <2> HIDE DEF U, Q
  <2> QED
    BY <1>1, <1>2, SequenceInductive
<1> QED
  BY <1>3

-----------------------------------------------------------------------------
(* A function applied to every element.                                    *)

LEMMA MapAppend ==
  ASSUME NEW S, NEW R, NEW h, \A x \in S : h[x] \in R, NEW s \in Seq(S), NEW x \in S
  PROVE  /\ [i \in 1..Len(s) |-> h[s[i]]] \in Seq(R)
         /\ [i \in 1..Len(Append(s, x)) |-> h[Append(s, x)[i]]]
              = Append([i \in 1..Len(s) |-> h[s[i]]], h[x])
<1> DEFINE n == Len(s)
           q == Append(s, x)
           y == h[x]
           m == [i \in 1..n |-> h[s[i]]]
           a == [i \in 1..Len(q) |-> h[q[i]]]
           b == Append(m, y)
<1>1. q \in Seq(S) /\ Len(q) = n + 1 /\ q[n + 1] = x /\ n \in Nat /\ \A i \in 1..n : q[i] = s[i]
  BY AppendProperties, LenProperties
<1>2. y \in R /\ \A i \in 1..n : s[i] \in S /\ h[s[i]] \in R
  BY ElementOfSeq
<1> HIDE DEF n, q, y
<1>3. m \in Seq(R) /\ Len(m) = n /\ \A i \in 1..n : m[i] = h[s[i]]
  BY <1>1, <1>2
<1> HIDE DEF m
<1>4. b \in Seq(R) /\ Len(b) = n + 1 /\ b[n + 1] = y /\ \A i \in 1..n : b[i] = m[i]
  BY <1>2, <1>3, AppendProperties
<1>5. a \in Seq(R) /\ Len(a) = n + 1 /\ \A i \in 1..(n + 1) : a[i] = h[q[i]]
  <2>1. \A i \in 1..(n + 1) : h[q[i]] \in R
    BY <1>1, ElementOfSeq
  <2> QED
    BY <1>1, <2>1
<1> HIDE DEF a, b
<1>6. ASSUME NEW i \in 1..(n + 1) PROVE a[i] = b[i]
  <2>1. CASE i = n + 1
    BY <1>1, <1>4, <1>5, <2>1 DEF y
  <2>2. CASE i # n + 1
    <3>1. i \in 1..n
      BY <1>1, <2>2
    <3> QED
      BY <1>1, <1>3, <1>4, <1>5, <3>1
  <2> QED
    BY <2>1, <2>2
<1>7. a = b
  BY <1>4, <1>5, <1>6, SeqEqual
<1> QED
  BY <1>3, <1>7 DEF a, b, m, n, q, y

-----------------------------------------------------------------------------
(* What is ahead of what in a sequence, and sequences put into others.     *)

Ahead(s, x, y) == \E k, l \in DOMAIN s : k < l /\ s[k] = x /\ s[l] = y
Splice(s, k, m) == SubSeq(s, 1, k - 1) \o m \o SubSeq(s, k, Len(s))

LEMMA AheadHas ==
  ASSUME NEW S, NEW s \in Seq(S), NEW x, NEW y, Ahead(s, x, y)
  PROVE  x \in ToSet(s) /\ y \in ToSet(s)
BY DEF Ahead, ToSet

LEMMA AheadKept ==
  ASSUME NEW S, NEW s \in Seq(S), NEW T, NEW x, NEW y, Ahead(Keep(s, T), x, y)
  PROVE  Ahead(s, x, y) /\ x \in T /\ y \in T
<1> DEFINE r == Keep(s, T)
<1>1. r \in Seq(S) /\ \E e : Embeds(e, r, s, T)
  BY KeepEmbeds
<1>2. DOMAIN r = 1..Len(r) /\ DOMAIN s = 1..Len(s)
  BY <1>1, LenProperties
<1> HIDE DEF r
<1>3. PICK e : Embeds(e, r, s, T)
  BY <1>1
<1>4. PICK k \in 1..Len(r), l \in 1..Len(r) : k < l /\ r[k] = x /\ r[l] = y
  BY <1>2 DEF Ahead, r
<1>5. e[k] \in 1..Len(s) /\ e[l] \in 1..Len(s) /\ e[k] < e[l] /\ s[e[k]] = x /\ s[e[l]] = y
      /\ x \in T /\ y \in T
  BY <1>3, <1>4 DEF Embeds
<1> QED
  BY <1>2, <1>5 DEF Ahead

LEMMA AheadJoined ==
  ASSUME NEW S, NEW s \in Seq(S), NEW t \in Seq(S), NEW x, NEW y, Ahead(s \o t, x, y)
  PROVE  Ahead(s, x, y) \/ Ahead(t, x, y) \/ (x \in ToSet(s) /\ y \in ToSet(t))
<1> DEFINE a == s \o t
           m == Len(s)
           n == Len(t)
<1>1. /\ a \in Seq(S) /\ Len(a) = m + n /\ m \in Nat /\ n \in Nat
      /\ \A i \in 1..(m + n) : a[i] = IF i <= m THEN s[i] ELSE t[i - m]
      /\ DOMAIN a = 1..Len(a) /\ DOMAIN s = 1..m /\ DOMAIN t = 1..n
  BY ConcatProperties, LenProperties
<1>2. Ahead(a, x, y)
  OBVIOUS
<1> HIDE DEF a, m, n
<1>3. PICK k \in 1..(m + n), l \in 1..(m + n) : k < l /\ a[k] = x /\ a[l] = y
  BY <1>1, <1>2 DEF Ahead
<1>4. CASE l <= m
  <2>1. k \in DOMAIN s /\ l \in DOMAIN s /\ s[k] = x /\ s[l] = y
    BY <1>1, <1>3, <1>4
  <2> QED
    BY <1>3, <2>1 DEF Ahead
<1>5. CASE k > m
  <2>1. k - m \in DOMAIN t /\ l - m \in DOMAIN t /\ t[k - m] = x /\ t[l - m] = y /\ k - m < l - m
    BY <1>1, <1>3, <1>5
  <2> QED
    BY <2>1 DEF Ahead
<1>6. CASE k <= m /\ l > m
  <2>1. k \in DOMAIN s /\ l - m \in DOMAIN t /\ s[k] = x /\ t[l - m] = y
    BY <1>1, <1>3, <1>6
  <2> QED
    BY <2>1 DEF ToSet
<1> QED
  BY <1>1, <1>3, <1>4, <1>5, <1>6

\* A piece of a sequence, with no index beyond it.
LEMMA Piece ==
  ASSUME NEW S, NEW s \in Seq(S), NEW i \in 1..(Len(s) + 1), NEW j \in 0..Len(s), j >= i - 1
  PROVE  /\ SubSeq(s, i, j) \in Seq(S) /\ Len(SubSeq(s, i, j)) = j - i + 1
         /\ DOMAIN SubSeq(s, i, j) = 1..(j - i + 1)
         /\ \A k \in 1..(j - i + 1) : SubSeq(s, i, j)[k] = s[i + k - 1] /\ i + k - 1 \in i..j
<1>1. Len(s) \in Nat /\ DOMAIN s = 1..Len(s) /\ i \in Int /\ j \in Int
  BY LenProperties
<1>2. \A k \in i..j : s[k] \in S
  BY <1>1, ElementOfSeq
<1>3. /\ SubSeq(s, i, j) \in Seq(S)
      /\ Len(SubSeq(s, i, j)) = IF i <= j THEN j - i + 1 ELSE 0
      /\ \A k \in 1..(j - i + 1) : SubSeq(s, i, j)[k] = s[i + k - 1]
  BY <1>1, <1>2, SubSeqProperties
<1>4. DOMAIN SubSeq(s, i, j) = 1..Len(SubSeq(s, i, j))
  BY <1>3, LenProperties
<1> DEFINE r == SubSeq(s, i, j)
<1> HIDE DEF r
<1> QED
  BY <1>1, <1>3, <1>4 DEF r

LEMMA PieceHas ==
  ASSUME NEW S, NEW s \in Seq(S), NEW i \in 1..(Len(s) + 1), NEW j \in 0..Len(s), j >= i - 1
  PROVE  /\ \A x \in ToSet(SubSeq(s, i, j)) : \E k \in i..j : s[k] = x
         /\ ToSet(SubSeq(s, i, j)) \subseteq ToSet(s)
         /\ \A x, y : Ahead(SubSeq(s, i, j), x, y) => Ahead(s, x, y)
<1> DEFINE r == SubSeq(s, i, j)
           n == j - i + 1
           m == Len(s)
<1>1. m \in Nat /\ DOMAIN s = 1..m
  BY LenProperties
<1>2. DOMAIN r = 1..n /\ \A k \in 1..n : r[k] = s[i + k - 1] /\ i + k - 1 \in i..j
  BY Piece
<1>3. i \in Nat /\ j \in Nat /\ i..j \subseteq 1..m
  BY <1>1
<1> HIDE DEF r, m
<1>4. \A x \in ToSet(r) : \E k \in i..j : s[k] = x
  BY <1>2 DEF ToSet
<1>5. ToSet(r) \subseteq ToSet(s)
  BY <1>1, <1>3, <1>4 DEF ToSet
<1>6. ASSUME NEW x, NEW y, Ahead(r, x, y) PROVE Ahead(s, x, y)
  <2>1. PICK k \in 1..n, l \in 1..n : k < l /\ r[k] = x /\ r[l] = y
    BY <1>2, <1>6 DEF Ahead
  <2>2. i + k - 1 \in DOMAIN s /\ i + l - 1 \in DOMAIN s /\ s[i + k - 1] = x /\ s[i + l - 1] = y
    BY <1>1, <1>2, <1>3, <2>1
  <2>3. i + k - 1 < i + l - 1
    BY <1>3, <2>1
  <2> QED
    BY <2>2, <2>3 DEF Ahead
<1> QED
  BY <1>4, <1>5, <1>6 DEF r

LEMMA Spliced ==
  ASSUME NEW S, NEW s \in Seq(S), NEW m \in Seq(S), NEW k \in 1..(Len(s) + 1)
  PROVE  /\ Splice(s, k, m) \in Seq(S)
         /\ ToSet(Splice(s, k, m)) = ToSet(s) \cup ToSet(m)
<1> DEFINE n == Len(s)
           a == SubSeq(s, 1, k - 1)
           b == SubSeq(s, k, n)
<1>1. n \in Nat /\ DOMAIN s = 1..n
  BY LenProperties
<1>2. 1 \in 1..(n + 1) /\ k - 1 \in 0..n /\ k - 1 >= 1 - 1 /\ n \in 0..n /\ n >= k - 1
  BY <1>1
<1>3. /\ a \in Seq(S) /\ DOMAIN a = 1..(k - 1) /\ ToSet(a) \subseteq ToSet(s)
      /\ \A i \in 1..(k - 1) : a[i] = s[i]
  <2>1. /\ a \in Seq(S) /\ DOMAIN a = 1..((k - 1) - 1 + 1)
        /\ \A i \in 1..((k - 1) - 1 + 1) : a[i] = s[1 + i - 1]
    BY <1>2, Piece
  <2>2. ToSet(a) \subseteq ToSet(s)
    BY <1>2, PieceHas
  <2>3. (k - 1) - 1 + 1 = k - 1 /\ \A i \in 1..(k - 1) : 1 + i - 1 = i
    BY <1>2
  <2> HIDE DEF a
  <2> QED
    BY <2>1, <2>2, <2>3
<1>4. /\ b \in Seq(S) /\ DOMAIN b = 1..(n - k + 1) /\ ToSet(b) \subseteq ToSet(s)
      /\ \A i \in 1..(n - k + 1) : b[i] = s[k + i - 1]
  BY <1>2, Piece, PieceHas
<1> HIDE DEF a, b
<1>5. ToSet(s) \subseteq ToSet(a) \cup ToSet(b)
  <2> SUFFICES ASSUME NEW i \in 1..n PROVE s[i] \in ToSet(a) \cup ToSet(b)
    BY <1>1 DEF ToSet
  <2>1. CASE i < k
    BY <1>2, <1>3, <2>1 DEF ToSet
  <2>2. CASE i >= k
    <3>1. i - k + 1 \in 1..(n - k + 1) /\ k + (i - k + 1) - 1 = i
      BY <1>1, <2>2
    <3>2. b[i - k + 1] = s[i]
      BY <1>4, <3>1
    <3> QED
      BY <1>4, <3>1, <3>2 DEF ToSet
  <2> QED
    BY <1>1, <2>1, <2>2
<1> DEFINE c == a \o m
<1>6. c \in Seq(S) /\ ToSet(c) = ToSet(a) \cup ToSet(m)
  BY <1>3, RangeConcat, ConcatProperties
<1>7. Splice(s, k, m) = c \o b
  BY DEF Splice, a, b, n
<1> HIDE DEF c
<1>8. c \o b \in Seq(S) /\ ToSet(c \o b) = ToSet(c) \cup ToSet(b)
  BY <1>4, <1>6, RangeConcat, ConcatProperties
<1> QED
  BY <1>3, <1>4, <1>5, <1>6, <1>7, <1>8

LEMMA AheadSpliced ==
  ASSUME NEW S, NEW s \in Seq(S), NEW m \in Seq(S), NEW k \in 1..(Len(s) + 1), NEW x, NEW y,
         Ahead(Splice(s, k, m), x, y)
  PROVE  \/ Ahead(s, x, y) \/ Ahead(m, x, y)
         \/ x \in ToSet(s) /\ y \in ToSet(m)
         \/ x \in ToSet(m) /\ \E i \in k..Len(s) : s[i] = y
<1> DEFINE n == Len(s)
           a == SubSeq(s, 1, k - 1)
           b == SubSeq(s, k, n)
<1>1. n \in Nat /\ DOMAIN s = 1..n
  BY LenProperties
<1>2. 1 \in 1..(n + 1) /\ k - 1 \in 0..n /\ k - 1 >= 1 - 1 /\ n \in 0..n /\ n >= k - 1
  BY <1>1
<1>3. /\ a \in Seq(S) /\ ToSet(a) \subseteq ToSet(s)
      /\ \A u \in ToSet(a) : \E i \in 1..(k - 1) : s[i] = u
      /\ \A u, v : Ahead(a, u, v) => Ahead(s, u, v)
  BY <1>2, Piece, PieceHas
<1>4. /\ b \in Seq(S) /\ \A u \in ToSet(b) : \E i \in k..n : s[i] = u
      /\ \A u, v : Ahead(b, u, v) => Ahead(s, u, v)
  BY <1>2, Piece, PieceHas
<1>5. Splice(s, k, m) = (a \o m) \o b
  BY Zenon DEF Splice
<1> HIDE DEF a, b
<1>6. a \o m \in Seq(S) /\ ToSet(a \o m) = ToSet(a) \cup ToSet(m)
  BY <1>3, RangeConcat, ConcatProperties
<1>7. Ahead(a \o m, x, y) \/ Ahead(b, x, y) \/ (x \in ToSet(a \o m) /\ y \in ToSet(b))
  BY <1>4, <1>5, <1>6, AheadJoined
<1>8. CASE Ahead(a \o m, x, y)
  <2>1. Ahead(a, x, y) \/ Ahead(m, x, y) \/ (x \in ToSet(a) /\ y \in ToSet(m))
    BY <1>3, <1>8, AheadJoined
  <2> QED
    BY <1>3, <2>1
<1>9. CASE x \in ToSet(a) /\ y \in ToSet(b)
  <2>1. PICK i \in 1..(k - 1) : s[i] = x
    BY <1>3, <1>9
  <2>2. PICK j \in k..n : s[j] = y
    BY <1>4, <1>9
  <2>3. i \in DOMAIN s /\ j \in DOMAIN s /\ i < j
    BY <1>1, <1>2
  <2> QED
    BY <2>1, <2>2, <2>3 DEF Ahead
<1> HIDE DEF n
<1>10. CASE x \in ToSet(m) /\ y \in ToSet(b)
  BY <1>4, <1>10 DEF n
<1> QED
  BY <1>4, <1>6, <1>7, <1>8, <1>9, <1>10

LEMMA DistinctPiece ==
  ASSUME NEW S, NEW s \in Seq(S), Distinct(s), NEW i \in 1..(Len(s) + 1), NEW j \in 0..Len(s),
         j >= i - 1
  PROVE  Distinct(SubSeq(s, i, j))
<1> DEFINE r == SubSeq(s, i, j)
           n == j - i + 1
           m == Len(s)
<1>1. m \in Nat
  BY LenProperties
<1>2. Len(r) = n /\ \A k \in 1..n : r[k] = s[i + k - 1] /\ i + k - 1 \in i..j
  BY Piece
<1>3. i \in Nat /\ j \in Nat /\ i..j \subseteq 1..m /\ \A k, l \in 1..m : s[k] = s[l] => k = l
  BY <1>1 DEF Distinct
<1> HIDE DEF r, m
<1>4. ASSUME NEW k \in 1..n, NEW l \in 1..n, r[k] = r[l] PROVE k = l
  <2>1. i + k - 1 = i + l - 1
    BY <1>2, <1>3, <1>4
  <2> QED
    BY <1>3, <2>1
<1> QED
  BY <1>2, <1>4 DEF Distinct, r

LEMMA DistinctSpliced ==
  ASSUME NEW S, NEW s \in Seq(S), NEW m \in Seq(S), NEW k \in 1..(Len(s) + 1),
         Distinct(s), Distinct(m), ToSet(s) \cap ToSet(m) = {}
  PROVE  Distinct(Splice(s, k, m))
<1> DEFINE n == Len(s)
           a == SubSeq(s, 1, k - 1)
           b == SubSeq(s, k, n)
<1>1. n \in Nat /\ DOMAIN s = 1..n
  BY LenProperties
<1>2. 1 \in 1..(n + 1) /\ k - 1 \in 0..n /\ k - 1 >= 1 - 1 /\ n \in 0..n /\ n >= k - 1
  BY <1>1
<1>3. /\ a \in Seq(S) /\ ToSet(a) \subseteq ToSet(s) /\ Distinct(a)
      /\ \A u \in ToSet(a) : \E i \in 1..(k - 1) : s[i] = u
  BY <1>2, Piece, PieceHas, DistinctPiece
<1>4. /\ b \in Seq(S) /\ ToSet(b) \subseteq ToSet(s) /\ Distinct(b)
      /\ \A u \in ToSet(b) : \E i \in k..n : s[i] = u
  BY <1>2, Piece, PieceHas, DistinctPiece
<1>5. Splice(s, k, m) = (a \o m) \o b
  BY DEF Splice
<1> HIDE DEF a, b
<1>6. a \o m \in Seq(S) /\ ToSet(a \o m) = ToSet(a) \cup ToSet(m)
  BY <1>3, RangeConcat, ConcatProperties
<1>7. Distinct(a \o m)
  BY <1>3, DistinctConcat
<1>8. \A u \in ToSet(a) : u \notin ToSet(b)
  <2> SUFFICES ASSUME NEW i \in 1..(k - 1), NEW j \in k..n, s[i] = s[j] PROVE FALSE
    BY <1>3, <1>4
  <2>1. i \in 1..n /\ j \in 1..n /\ i # j
    BY <1>1, <1>2
  <2> QED
    BY <2>1 DEF Distinct
<1>9. ToSet(a \o m) \cap ToSet(b) = {}
  BY <1>4, <1>6, <1>8
<1> DEFINE c == a \o m
<1> HIDE DEF c
<1>10. Distinct(c \o b)
  BY <1>4, <1>6, <1>7, <1>9, DistinctConcat DEF c
<1> QED
  BY <1>5, <1>10 DEF c

LEMMA DistinctKept ==
  ASSUME NEW S, NEW s \in Seq(S), Distinct(s), NEW T
  PROVE  Distinct(Keep(s, T))
<1> DEFINE r == Keep(s, T)
<1>1. r \in Seq(S) /\ \E e : Embeds(e, r, s, T)
  BY KeepEmbeds
<1>2. Len(r) \in Nat
  BY <1>1, LenProperties
<1> HIDE DEF r
<1>3. PICK e : Embeds(e, r, s, T)
  BY <1>1
<1>4. ASSUME NEW k \in 1..Len(r), NEW l \in 1..Len(r), r[k] = r[l] PROVE k = l
  <2>1. e[k] = e[l] /\ e[k] \in 1..Len(s) /\ e[l] \in 1..Len(s)
    BY <1>3, <1>4 DEF Embeds, Distinct
  <2>2. ~(e[k] < e[l]) /\ ~(e[l] < e[k])
    BY <2>1
  <2> QED
    BY <1>2, <1>3, <2>2 DEF Embeds
<1> QED
  BY <1>4 DEF Distinct, r

LEMMA Reversed ==
  ASSUME NEW S, NEW s \in Seq(S)
  PROVE  Reverse(s) \in Seq(S) /\ ToSet(Reverse(s)) = ToSet(s)
<1> DEFINE n == Len(s)
           r == Reverse(s)
<1>1. n \in Nat /\ DOMAIN s = 1..n
  BY LenProperties
<1>2. \A i \in 1..n : (n - i) + 1 \in 1..n /\ (n - ((n - i) + 1)) + 1 = i
  BY <1>1
<1>3. \A i \in 1..n : s[(n - i) + 1] \in S
  BY <1>2, ElementOfSeq
<1>4. r = [i \in 1..n |-> s[(n - i) + 1]]
  BY DEF Reverse
<1> HIDE DEF n, r
<1>5. r \in Seq(S)
  BY <1>1, <1>3, <1>4
<1>6. DOMAIN r = 1..n /\ \A i \in 1..n : r[i] = s[(n - i) + 1]
  BY <1>4
<1>7. ASSUME NEW i \in 1..n PROVE r[i] \in ToSet(s) /\ s[i] \in ToSet(r)
  <2>1. (n - i) + 1 \in 1..n /\ r[(n - i) + 1] = s[i]
    BY <1>2, <1>6
  <2> QED
    BY <1>1, <1>6, <2>1 DEF ToSet
<1>8. ToSet(r) = ToSet(s)
  BY <1>1, <1>6, <1>7 DEF ToSet
<1> QED
  BY <1>5, <1>8 DEF r

\* A sequence without repeats is as long as its elements are many.
LEMMA DistinctCounts ==
  ASSUME NEW S, NEW s \in Seq(S), Distinct(s)
  PROVE  IsFiniteSet(ToSet(s)) /\ Cardinality(ToSet(s)) = Len(s)
<1> DEFINE n == Len(s)
           T == ToSet(s)
<1>1. n \in Nat /\ s \in [1..n -> S] /\ \A x : x \in T <=> \E i \in 1..n : s[i] = x
  BY LenProperties, InRange
<1>2. \A i, j \in 1..n : s[i] = s[j] => i = j
  BY DEF Distinct
<1> HIDE DEF n, T
<1>3. s \in [1..n -> T]
  BY <1>1
<1>4. s \in Bijection(1..n, T)
  BY <1>1, <1>2, <1>3 DEF Bijection, Injection, Surjection, IsInjective
<1>5. IsFiniteSet(1..n) /\ Cardinality(1..n) = n
  BY <1>1, FS_Interval
<1>6. ExistsBijection(1..n, T)
  BY <1>4 DEF ExistsBijection
<1>7. IsFiniteSet(T) /\ Cardinality(T) = n
  BY <1>5, <1>6, FS_Bijection
<1> QED
  BY <1>7 DEF n, T

LEMMA DistinctAppend ==
  ASSUME NEW S, NEW s \in Seq(S), NEW x \in S, Distinct(s), x \notin ToSet(s)
  PROVE  Distinct(Append(s, x))
<1>1. <<x>> \in Seq(S) /\ ToSet(<<x>>) = {x} /\ Distinct(<<x>>)
  BY DEF ToSet, Distinct
<1>2. Append(s, x) = s \o <<x>>
  BY AppendIsConcat
<1> QED
  BY <1>1, <1>2, DistinctConcat

-----------------------------------------------------------------------------
(* The stable sort.                                                        *)

UpTo(key, x) == {y \in DOMAIN key : key[y] <= key[x]}
Inserted(r, key, x) == Keep(r, UpTo(key, x)) \o <<x>> \o Keep(r, DOMAIN key \ UpTo(key, x))
\* f is the recursion of SortedBy.
Sorting(f, s, key) == f[0] = <<>> /\ \A i \in 1..Len(s) : f[i] = Inserted(f[i - 1], key, s[i])
Orderly(r, key) == \A i, j \in 1..Len(r) : i <= j => key[r[i]] <= key[r[j]]

LEMMA InsertedIn ==
  ASSUME NEW S, NEW r \in Seq(S), NEW key, NEW x \in S
  PROVE  Inserted(r, key, x) \in Seq(S)
<1> DEFINE a == Keep(r, UpTo(key, x))
           b == Keep(r, DOMAIN key \ UpTo(key, x))
<1>1. a \in Seq(S) /\ b \in Seq(S) /\ <<x>> \in Seq(S)
  BY KeepIn
<1> HIDE DEF a, b
<1>2. a \o <<x>> \o b \in Seq(S)
  BY <1>1, ConcatProperties
<1> QED
  BY <1>2 DEF Inserted, a, b

LEMMA SortExists ==
  ASSUME NEW S, NEW s \in Seq(S), NEW key
  PROVE  \E f \in [0..Len(s) -> Seq(S)] : Sorting(f, s, key)
<1> DEFINE n == Len(s)
           Q == Seq(S)
           g == [p \in Nat \X Q |-> IF p[1] \in 1..n THEN Inserted(p[2], key, s[p[1]]) ELSE p[2]]
<1>1. n \in Nat /\ (\A i \in 1..n : s[i] \in S) /\ <<>> \in Q
  BY LenProperties, ElementOfSeq
<1>2. g \in [Nat \X Q -> Q]
  <2>1. ASSUME NEW p \in Nat \X Q
        PROVE  (IF p[1] \in 1..n THEN Inserted(p[2], key, s[p[1]]) ELSE p[2]) \in Q
    <3>1. p[2] \in Seq(S)
      OBVIOUS
    <3>2. p[1] \in 1..n => Inserted(p[2], key, s[p[1]]) \in Seq(S)
      <4> SUFFICES ASSUME p[1] \in 1..n PROVE Inserted(p[2], key, s[p[1]]) \in Seq(S)
        OBVIOUS
      <4>1. PICK r, x : r = p[2] /\ x = s[p[1]]
        OBVIOUS
      <4>2. r \in Seq(S) /\ x \in S
        BY <1>1, <3>1, <4>1
      <4>3. Inserted(r, key, x) \in Seq(S)
        BY <4>2, InsertedIn
      <4> QED
        BY <4>1, <4>3
    <3> QED
      BY <3>1, <3>2
  <2> QED
    BY <2>1
<1>3. PICK f : Obeys(f, Q, <<>>, g, n)
  <2> HIDE DEF g, n, Q
  <2> QED
    BY <1>1, <1>2, RecursionExists
<1>4. f \in [0..n -> Q] /\ f[0] = <<>>
  BY <1>3 DEF Obeys
<1>5. ASSUME NEW i \in 1..n PROVE f[i] = Inserted(f[i - 1], key, s[i])
  <2> DEFINE p == <<i, f[i - 1]>>
  <2>1. i \in Nat /\ i - 1 \in 0..n
    BY <1>1
  <2>2. p \in Nat \X Q /\ p[1] = i /\ p[2] = f[i - 1]
    BY <2>1, <1>4
  <2>3. f[i] = g[p]
    BY <1>3 DEF Obeys
  <2> HIDE DEF p
  <2>4. g[p] = IF p[1] \in 1..n THEN Inserted(p[2], key, s[p[1]]) ELSE p[2]
    BY <2>2
  <2> QED
    BY <2>2, <2>3, <2>4
<1> QED
  BY <1>4, <1>5 DEF Sorting

LEMMA SortUnfolds ==
  ASSUME NEW S, NEW s \in Seq(S), NEW key
  PROVE  \E f \in [0..Len(s) -> Seq(S)] : Sorting(f, s, key) /\ SortedBy(s, key) = f[Len(s)]
<1> DEFINE n == Len(s)
           Step(f) == [i \in 0..n |->
                         IF i = 0 THEN <<>>
                         ELSE LET upTo == {x \in DOMAIN key : key[x] <= key[s[i]]}
                              IN Keep(f[i - 1], upTo) \o <<s[i]>> \o Keep(f[i - 1], DOMAIN key \ upTo)]
           sorted == CHOOSE f : f = Step(f)
<1>1. n \in Nat
  BY LenProperties
<1>2. PICK f \in [0..n -> Seq(S)] : Sorting(f, s, key)
  BY SortExists
<1>0. ASSUME NEW h, NEW i \in 0..n
      PROVE  Step(h)[i] = IF i = 0 THEN <<>> ELSE Inserted(h[i - 1], key, s[i])
  BY DEF Inserted, UpTo
<1>a. \A h : Step(h) = [i \in 0..n |-> Step(h)[i]]
  OBVIOUS
<1> HIDE DEF Step
<1>3. f = Step(f)
  <2>1. \A i \in 0..n : f[i] = Step(f)[i]
    <3>1. \A i \in 0..n : i = 0 \/ i \in 1..n
      BY <1>1
    <3>2. f[0] = <<>> /\ \A i \in 1..n : f[i] = Inserted(f[i - 1], key, s[i])
      BY <1>2 DEF Sorting
    <3> HIDE DEF n
    <3> QED
      BY <3>1, <3>2, <1>0
  <2>2. f = [i \in 0..n |-> f[i]]
    OBVIOUS
  <2>3. Step(f) = [i \in 0..n |-> Step(f)[i]]
    BY <1>a
  <2> QED
    BY <2>1, <2>2, <2>3
<1>4. sorted = Step(sorted)
  BY <1>3
<1> HIDE DEF sorted
<1>5. Sorting(sorted, s, key)
  <2>1. \A i \in 0..n : sorted[i] = Step(sorted)[i]
    BY <1>4
  <2>2. 0 \in 0..n /\ \A i \in 1..n : i \in 0..n /\ i # 0
    BY <1>1
  <2> QED
    BY <2>1, <2>2, <1>0 DEF Sorting
<1>6. \A i \in 0..n : sorted[i] = f[i]
  <2> DEFINE U == {i \in Nat : sorted[i] = f[i]}
  <2>1. 0 \in U
    BY <1>5, <1>2 DEF Sorting
  <2>2. ASSUME NEW i \in 0..(n - 1), i \in U PROVE i + 1 \in U
    <3>1. i + 1 \in 1..n /\ (i + 1) - 1 = i /\ sorted[i] = f[i]
      BY <2>2, <1>1
    <3>2. sorted[i + 1] = f[i + 1]
      BY <3>1, <1>5, <1>2 DEF Sorting
    <3> QED
      BY <3>1, <3>2
  <2>3. \A i \in 0..n : i \in U
    <3> HIDE DEF U, n
    <3> QED
      BY <1>1, <2>1, <2>2, Inductive
  <2> QED
    BY <2>3
<1>7. SortedBy(s, key) = sorted[n]
  BY DEF SortedBy, sorted, Step
<1> QED
  BY <1>1, <1>2, <1>6, <1>7

LEMMA OrderlyJoined ==
  ASSUME NEW S, NEW a \in Seq(S), NEW b \in Seq(S), NEW key \in [S -> Int],
         Orderly(a, key), Orderly(b, key),
         \A x \in ToSet(a), y \in ToSet(b) : key[x] <= key[y]
  PROVE  a \o b \in Seq(S) /\ Orderly(a \o b, key)
<1> DEFINE c == a \o b
           m == Len(a)
           n == Len(b)
<1>1. /\ c \in Seq(S) /\ Len(c) = m + n /\ m \in Nat /\ n \in Nat
      /\ \A i \in 1..(m + n) : c[i] = IF i <= m THEN a[i] ELSE b[i - m]
  BY ConcatProperties, LenProperties
<1>2. /\ \A x : x \in ToSet(a) <=> \E i \in 1..m : a[i] = x
      /\ \A x : x \in ToSet(b) <=> \E i \in 1..n : b[i] = x
  BY InRange
<1> HIDE DEF c
<1>3. ASSUME NEW i \in 1..Len(c), NEW j \in 1..Len(c), i <= j PROVE key[c[i]] <= key[c[j]]
  <2>1. CASE j <= m
    <3>1. i \in 1..m /\ j \in 1..m /\ c[i] = a[i] /\ c[j] = a[j]
      BY <1>1, <1>3, <2>1
    <3> QED
      BY <1>3, <3>1 DEF Orderly
  <2>2. CASE i <= m /\ j > m
    <3>1. i \in 1..m /\ j - m \in 1..n /\ c[i] = a[i] /\ c[j] = b[j - m]
      BY <1>1, <1>3, <2>2
    <3> QED
      BY <1>2, <3>1
  <2>3. CASE i > m
    <3>0. i \in 1..(m + n) /\ j \in 1..(m + n) /\ j > m
      BY <1>1, <1>3, <2>3
    <3>1. i - m \in 1..n /\ j - m \in 1..n /\ i - m <= j - m
      BY <1>1, <1>3, <2>3, <3>0
    <3>2. c[i] = b[i - m] /\ c[j] = b[j - m]
      BY <1>1, <2>3, <3>0
    <3> QED
      BY <3>1, <3>2 DEF Orderly
  <2> QED
    BY <1>1, <2>1, <2>2, <2>3
<1> QED
  BY <1>1, <1>3 DEF Orderly, c

LEMMA OrderlyKept ==
  ASSUME NEW S, NEW s \in Seq(S), NEW T, NEW key, Orderly(s, key)
  PROVE  Orderly(Keep(s, T), key)
<1>1. PICK e : Embeds(e, Keep(s, T), s, T)
  BY KeepEmbeds
<1>2. Len(s) \in Nat /\ Len(Keep(s, T)) \in Nat
  BY KeepIn, LenProperties
<1>3. ASSUME NEW i \in 1..Len(Keep(s, T)), NEW j \in 1..Len(Keep(s, T)), i <= j
      PROVE  key[Keep(s, T)[i]] <= key[Keep(s, T)[j]]
  <2>1. e[i] \in 1..Len(s) /\ e[j] \in 1..Len(s) /\ Keep(s, T)[i] = s[e[i]] /\ Keep(s, T)[j] = s[e[j]]
    BY <1>1 DEF Embeds
  <2>2. e[i] <= e[j]
    <3>1. i = j \/ i < j
      BY <1>2, <1>3
    <3>2. i < j => e[i] < e[j]
      BY <1>1 DEF Embeds
    <3> QED
      BY <2>1, <3>1, <3>2
  <2> QED
    BY <2>1, <2>2 DEF Orderly
<1> QED
  BY <1>3 DEF Orderly

LEMMA KeepSplits ==
  ASSUME NEW S, NEW s \in Seq(S), NEW T
  PROVE  Len(Keep(s, T)) + Len(Keep(s, S \ T)) = Len(s)
<1> DEFINE R == S \ T
           U == {r \in Seq(S) : Len(Keep(r, T)) + Len(Keep(r, R)) = Len(r)}
<1>1. <<>> \in U
  BY KeepEmpty, EmptySeq
<1>2. ASSUME NEW r \in Seq(S), NEW x \in S, r \in U PROVE Append(r, x) \in U
  <2>1. /\ Keep(r, T) \in Seq(S) /\ Keep(r, R) \in Seq(S)
        /\ Append(r, x) \in Seq(S) /\ Len(Append(r, x)) = Len(r) + 1
        /\ Len(Keep(r, T)) + Len(Keep(r, R)) = Len(r)
    BY <1>2, KeepIn, AppendProperties
  <2>2. \A t \in Seq(S) : Len(Append(t, x)) = Len(t) + 1 /\ Len(t) \in Nat
    BY AppendProperties, LenProperties
  <2>3. CASE x \in T
    <3>1. x \notin R
      BY <2>3
    <3>2. Keep(Append(r, x), T) = Append(Keep(r, T), x)
      BY <2>3, KeepTakes
    <3>3. Keep(Append(r, x), R) = Keep(r, R)
      BY <3>1, KeepSkips
    <3> QED
      BY <2>1, <2>2, <3>2, <3>3
  <2>4. CASE x \notin T
    <3>1. x \in R
      BY <2>4
    <3>2. Keep(Append(r, x), R) = Append(Keep(r, R), x)
      BY <3>1, KeepTakes
    <3>3. Keep(Append(r, x), T) = Keep(r, T)
      BY <2>4, KeepSkips
    <3> QED
      BY <2>1, <2>2, <3>2, <3>3
  <2> QED
    BY <2>3, <2>4
<1>3. \A r \in Seq(S) : r \in U
  <2> HIDE DEF U
  <2> QED
    BY <1>1, <1>2, SequenceInductive
<1> QED
  BY <1>3

LEMMA InsertedFacts ==
  ASSUME NEW S, NEW r \in Seq(S), NEW key \in [S -> Int], NEW x \in S, Orderly(r, key)
  PROVE  /\ Len(Inserted(r, key, x)) = Len(r) + 1
         /\ ToSet(Inserted(r, key, x)) = ToSet(r) \cup {x}
         /\ Orderly(Inserted(r, key, x), key)
<1> DEFINE T == UpTo(key, x)
           a == Keep(r, T)
           b == Keep(r, S \ T)
           o == <<x>>
<1>1. Inserted(r, key, x) = (a \o o) \o b
  BY DEF Inserted
<1>2. a \in Seq(S) /\ b \in Seq(S) /\ o \in Seq(S) /\ Len(o) = 1 /\ ToSet(o) = {x} /\ o[1] = x
  BY KeepIn DEF ToSet
<1>3. ToSet(a) = ToSet(r) \cap T /\ ToSet(b) = ToSet(r) \cap (S \ T) /\ ToSet(r) \subseteq S
  BY RangeKeep, InRange
<1>4. Orderly(a, key) /\ Orderly(b, key)
  BY OrderlyKept
<1>5. Orderly(o, key)
  BY <1>2 DEF Orderly
<1>6. \A y \in S : y \in T <=> key[y] <= key[x]
  BY DEF UpTo
<1>7. Len(a) + Len(b) = Len(r) /\ Len(a) \in Nat /\ Len(b) \in Nat
  BY <1>2, KeepSplits, LenProperties
<1> HIDE DEF a, b, o, T
<1> DEFINE c == a \o o
<1>8. c \in Seq(S) /\ Orderly(c, key)
  <2>1. \A y \in ToSet(a), z \in ToSet(o) : key[y] <= key[z]
    BY <1>2, <1>3, <1>6
  <2> QED
    BY <1>2, <1>4, <1>5, <2>1, OrderlyJoined
<1>9. ToSet(c) = ToSet(a) \cup {x} /\ Len(c) = Len(a) + 1
  <2>1. ToSet(a \o o) = ToSet(a) \cup ToSet(o)
    BY <1>2, RangeConcat
  <2>2. Len(a \o o) = Len(a) + Len(o)
    BY <1>2, ConcatProperties
  <2> QED
    BY <1>2, <2>1, <2>2
<1> HIDE DEF c
<1>10. Orderly(c \o b, key)
  <2>1. \A y \in ToSet(c), z \in ToSet(b) : key[y] <= key[z]
    <3> SUFFICES ASSUME NEW y \in ToSet(c), NEW z \in ToSet(b) PROVE key[y] <= key[z]
      OBVIOUS
    <3>1. z \in S /\ y \in S /\ key[y] <= key[x] /\ ~(key[z] <= key[x])
      BY <1>3, <1>6, <1>9
    <3> QED
      BY <3>1
  <2> QED
    BY <1>2, <1>4, <1>8, <2>1, OrderlyJoined
<1>11. ToSet(c \o b) = ToSet(c) \cup ToSet(b) /\ Len(c \o b) = Len(c) + Len(b)
  BY <1>2, <1>8, RangeConcat, ConcatProperties
<1>12. ToSet(c \o b) = ToSet(r) \cup {x}
  BY <1>3, <1>9, <1>11
<1>13. Len(c \o b) = Len(r) + 1
  <2>1. Len(c \o b) = Len(c) + Len(b) /\ Len(c) = Len(a) + 1
    BY <1>9, <1>11
  <2>2. PICK i, j, k : i = Len(a) /\ j = Len(b) /\ k = Len(r)
    OBVIOUS
  <2>3. i \in Nat /\ j \in Nat /\ i + j = k
    BY <1>7, <2>2
  <2>4. (i + 1) + j = k + 1
    BY <2>3
  <2> QED
    BY <2>1, <2>2, <2>4
<1> QED
  BY <1>1, <1>10, <1>12, <1>13 DEF c

\* A sort keeps what is there, and puts it in order.
LEMMA SortedFacts ==
  ASSUME NEW S, NEW s \in Seq(S), NEW key \in [S -> Int]
  PROVE  /\ SortedBy(s, key) \in Seq(S) /\ Len(SortedBy(s, key)) = Len(s)
         /\ ToSet(SortedBy(s, key)) = ToSet(s)
         /\ Orderly(SortedBy(s, key), key)
<1> DEFINE n == Len(s)
<1>1. n \in Nat /\ \A i \in 1..n : s[i] \in S
  BY LenProperties, ElementOfSeq
<1>2. PICK f \in [0..n -> Seq(S)] : Sorting(f, s, key) /\ SortedBy(s, key) = f[n]
  BY SortUnfolds
<1> DEFINE U == {i \in 0..n : /\ Len(f[i]) = i /\ Orderly(f[i], key)
                              /\ ToSet(f[i]) = {s[k] : k \in 1..i}}
<1>3. 0 \in U
  <2>1. f[0] = <<>> /\ Len(<<>>) = 0
    BY <1>2 DEF Sorting
  <2>2. ToSet(<<>>) = {} /\ Orderly(<<>>, key)
    BY <2>1, RangeEmpty DEF Orderly
  <2> QED
    BY <1>1, <2>1, <2>2
<1>4. ASSUME NEW i \in 0..(n - 1), i \in U PROVE i + 1 \in U
  <2>1. i + 1 \in 1..n /\ (i + 1) - 1 = i /\ i \in 0..n /\ i + 1 \in 0..n
    BY <1>1
  <2>2. PICK r, x : r = f[i] /\ x = s[i + 1]
    OBVIOUS
  <2>3. /\ r \in Seq(S) /\ x \in S /\ f[i + 1] = Inserted(r, key, x)
        /\ Len(r) = i /\ Orderly(r, key) /\ ToSet(r) = {s[k] : k \in 1..i}
    BY <1>1, <1>2, <1>4, <2>1, <2>2 DEF Sorting
  <2>0. /\ Len(Inserted(r, key, x)) = Len(r) + 1
        /\ ToSet(Inserted(r, key, x)) = ToSet(r) \cup {x}
        /\ Orderly(Inserted(r, key, x), key)
    <3> HIDE DEF U, n
    <3> QED
      BY <2>3, InsertedFacts
  <2>4. /\ Len(Inserted(r, key, x)) = i + 1
        /\ ToSet(Inserted(r, key, x)) = {s[k] : k \in 1..i} \cup {x}
        /\ Orderly(Inserted(r, key, x), key)
    BY <2>0, <2>3
  <2>5. {s[k] : k \in 1..(i + 1)} = {s[k] : k \in 1..i} \cup {x}
    <3>1. \A k : k \in 1..(i + 1) <=> k \in 1..i \/ k = i + 1
      BY <2>1
    <3> QED
      BY <3>1, <2>2
  <2> QED
    BY <2>1, <2>3, <2>4, <2>5
<1>5. \A i \in 0..n : i \in U
  <2> HIDE DEF U, n
  <2> QED
    BY <1>1, <1>3, <1>4, Inductive
<1>6. n \in U /\ n \in 0..n
  BY <1>1, <1>5
<1>7. ToSet(s) = {s[k] : k \in 1..n}
  BY InRange
<1> QED
  BY <1>2, <1>6, <1>7

\* How many are kept.
LEMMA KeepCounts ==
  ASSUME NEW S, NEW s \in Seq(S), NEW T
  PROVE  Len(Keep(s, T)) = Cardinality({i \in DOMAIN s : s[i] \in T})
<1> DEFINE r == Keep(s, T)
           m == Len(r)
           I == {i \in DOMAIN s : s[i] \in T}
<1>1. PICK e : Embeds(e, r, s, T)
  BY KeepEmbeds
<1>2. m \in Nat /\ DOMAIN s = 1..Len(s) /\ Len(s) \in Nat
  BY KeepIn, LenProperties
<1>3. e \in [1..m -> I]
  BY <1>1, <1>2 DEF Embeds
<1>4. \A k, l \in 1..m : e[k] = e[l] => k = l
  <2> SUFFICES ASSUME NEW k \in 1..m, NEW l \in 1..m, e[k] = e[l] PROVE k = l
    OBVIOUS
  <2>1. e[k] \in Int /\ (k < l => e[k] < e[l]) /\ (l < k => e[l] < e[k])
    BY <1>1, <1>2 DEF Embeds
  <2> QED
    BY <1>2, <2>1
<1>5. \A i \in I : \E k \in 1..m : e[k] = i
  BY <1>1, <1>2 DEF Embeds
<1> HIDE DEF m, I
<1>6. e \in Bijection(1..m, I)
  BY <1>3, <1>4, <1>5 DEF Bijection, Injection, Surjection, IsInjective
<1>7. IsFiniteSet(1..m) /\ Cardinality(1..m) = m
  BY <1>2, FS_Interval
<1>8. ExistsBijection(1..m, I)
  BY <1>6 DEF ExistsBijection
<1>9. Cardinality(I) = m
  BY <1>7, <1>8, FS_Bijection
<1> QED
  BY <1>9 DEF m, I, r
=============================================================================
