--------------------------- MODULE ComponentProofs ---------------------------
(***************************************************************************)
(* Proofs about the components that keep their state to themselves: the    *)
(* name index in memory, the operation log, the audit, the command line,   *)
(* what follows parents and the reports, for any values of their constants.*)
(***************************************************************************)
EXTENDS NameIndex, Health, CommandLine, Audit, Ancestry, Reports, ListFacts,
        SequenceTheorems, FiniteSetTheorems, TLAPS

\* An 8-character prefix entry counts at least one as soon as an indexed node
\* has the prefix; while it counts one, its uuid is that node.
PrefixInv ==
  /\ \A h \in PrefixHashes : byPrefix[h].count = 1 =>
       /\ byPrefix[h].uuid \in Ids
       /\ Prefix[byPrefix[h].uuid] = h
       /\ Indexed(byPrefix[h].uuid)
  /\ \A i \in Ids : Indexed(i) /\ Prefix[i] \in PrefixHashes =>
       /\ byPrefix[Prefix[i]].count # 0
       /\ byPrefix[Prefix[i]].count = 1 => byPrefix[Prefix[i]].uuid = i

ShortInv ==
  \A h \in SuffixHashes : byShort[h] # NoId =>
    Short[byShort[h]] = h /\ Indexed(byShort[h])

IInv == TypeOK /\ MapsAgree /\ PrefixInv /\ ShortInv /\ SuffixComplete

-----------------------------------------------------------------------------
LEMMA BumpedType ==
  ASSUME NEW e \in PrefixEntries, NEW id \in Ids
  PROVE  Bumped(e, id) \in PrefixEntries
BY CountAssumption DEF Bumped, PrefixEntries

LEMMA WithoutType ==
  ASSUME TypeOK, NEW id \in Ids
  PROVE  /\ NamesWithout(id) \in [Keys -> SUBSET Entries]
         /\ ShortsWithout(id) \in [SuffixHashes -> Ids \cup {NoId}]
         /\ PrefixesWithout(id) \in [PrefixHashes -> PrefixEntries]
<1>1. NoPrefixEntry \in PrefixEntries
  BY CountAssumption DEF NoPrefixEntry, PrefixEntries
<1>2. QED
  BY <1>1 DEF TypeOK, NamesWithout, ShortsWithout, PrefixesWithout

LEMMA InitIInv == Init => IInv
<1> SUFFICES ASSUME Init PROVE IInv
  OBVIOUS
<1> USE HashAssumption, CountAssumption
<1>1. TypeOK
  <2>1. NoPrefixEntry \in PrefixEntries
    BY DEF PrefixEntries, NoPrefixEntry
  <2>2. byPrefix \in [PrefixHashes -> PrefixEntries]
    BY <2>1 DEF Init
  <2> QED
    BY <2>2 DEF Init, TypeOK
<1>2. MapsAgree
  BY DEF Init, MapsAgree, Indexed
<1>3. PrefixInv
  BY DEF Init, PrefixInv, Indexed, NoPrefixEntry
<1>4. ShortInv /\ SuffixComplete
  BY DEF Init, ShortInv, SuffixComplete, Indexed
<1> QED
  BY <1>1, <1>2, <1>3, <1>4 DEF IInv

-----------------------------------------------------------------------------
LEMMA IngestStep ==
  ASSUME IInv, NEW id \in Ids, NEW c \in Contents, Ingest(id, c)
  PROVE  IInv'
<1> USE HashAssumption, CountAssumption, ContentAssumption
<1> DEFINE new == [id |-> id, content |-> c]
<1>0. TypeOK /\ MapsAgree /\ PrefixInv /\ ShortInv /\ SuffixComplete
  BY DEF IInv
<1>1. TypeOK'
  <2>1. new \in Entries /\ c.key \in Keys
    BY DEF Entries
  <2>2. byName' \in [Keys -> SUBSET Entries]
    BY <1>0, <2>1, WithoutType DEF Ingest
  <2>3. byId' \in [Ids -> Keys \cup {NoKey}]
    BY <1>0, <2>1 DEF Ingest, TypeOK
  <2>4. byShort' \in [SuffixHashes -> Ids \cup {NoId}]
    BY <1>0, WithoutType DEF Ingest
  <2>5. byPrefix' \in [PrefixHashes -> PrefixEntries]
    BY <1>0, WithoutType, BumpedType DEF Ingest
  <2> QED
    BY <1>0, <2>2, <2>3, <2>4, <2>5 DEF Ingest, TypeOK
<1>2. MapsAgree'
  <2>1. \A k \in Keys : byName'[k] = (IF k = c.key THEN NamesWithout(id)[k] \cup {new}
                                                 ELSE NamesWithout(id)[k])
    BY <1>0, WithoutType DEF Ingest
  <2>2. \A i \in Ids : byId'[i] = (IF i = id THEN c.key ELSE byId[i])
    BY <1>0 DEF Ingest, TypeOK
  <2>3. \A k \in Keys : NamesWithout(id)[k] = {e \in byName[k] : e.id # id}
    BY <1>0 DEF MapsAgree, NamesWithout
  <2>4. \A k \in Keys : \A e \in byName[k] : e.id \in Ids
    BY <1>0 DEF TypeOK, Entries
  <2>m. \A k \in Keys : \A e :
          e \in byName'[k] <=> (e \in byName[k] /\ e.id # id) \/ (k = c.key /\ e = new)
    <3> SUFFICES ASSUME NEW k \in Keys, NEW e
                 PROVE  e \in byName'[k] <=> (e \in byName[k] /\ e.id # id) \/ (k = c.key /\ e = new)
      OBVIOUS
    <3> HIDE DEF new
    <3>0. NamesWithout(id)[k] = {x \in byName[k] : x.id # id}
      BY <2>3
    <3>1. CASE k = c.key
      <4>1. byName'[k] = NamesWithout(id)[k] \cup {new}
        BY <3>1, <2>1
      <4>2. e \in byName'[k] <=> e \in NamesWithout(id)[k] \/ e = new
        BY <4>1
      <4> QED
        BY <3>0, <3>1, <4>2
    <3>2. CASE k # c.key
      <4>1. byName'[k] = NamesWithout(id)[k]
        BY <3>2, <2>1
      <4> QED
        BY <3>0, <3>2, <4>1
    <3> QED
      BY <3>1, <3>2
  <2>5. \A k \in Keys : \A e \in byName'[k] : byId'[e.id] = k /\ e.content.key = k
    <3> SUFFICES ASSUME NEW k \in Keys, NEW e \in byName'[k]
                 PROVE  byId'[e.id] = k /\ e.content.key = k
      OBVIOUS
    <3>1. CASE e \in byName[k] /\ e.id # id
      BY <3>1, <1>0, <2>2, <2>4 DEF MapsAgree
    <3>2. CASE e = new /\ k = c.key
      BY <3>2, <2>2
    <3> QED
      BY <3>1, <3>2, <2>m
  <2>6. \A k \in Keys : \A e, f \in byName'[k] : e.id = f.id => e = f
    BY <1>0, <2>m DEF MapsAgree
  <2>7. \A i \in Ids : byId'[i] # NoKey => \E e \in byName'[byId'[i]] : e.id = i
    <3> SUFFICES ASSUME NEW i \in Ids, byId'[i] # NoKey
                 PROVE  \E e \in byName'[byId'[i]] : e.id = i
      OBVIOUS
    <3>1. CASE i = id
      BY <3>1, <2>m, <2>2
    <3>2. CASE i # id
      <4>1. byId[i] = byId'[i] /\ byId[i] \in Keys
        BY <1>0, <3>2, <2>2 DEF TypeOK
      <4>2. PICK e \in byName[byId[i]] : e.id = i
        BY <1>0, <4>1 DEF MapsAgree, Indexed
      <4>3. e \in byName'[byId'[i]]
        BY <4>1, <4>2, <3>2, <2>m
      <4> QED
        BY <4>2, <4>3
    <3> QED
      BY <3>1, <3>2
  <2> QED
    BY <2>5, <2>6, <2>7 DEF MapsAgree, Indexed
<1>3. PrefixInv'
  <2>1. \A i \in Ids : byId'[i] = (IF i = id THEN c.key ELSE byId[i])
    BY <1>0 DEF Ingest, TypeOK
  <2>2. c.key # NoKey
    OBVIOUS
  <2>3. \A h \in PrefixHashes : h # Prefix[id] => byPrefix'[h] = byPrefix[h]
    BY DEF Ingest, PrefixesWithout
  <2>4. \A h \in PrefixHashes : h = Prefix[id] =>
          byPrefix'[h] = Bumped(PrefixesWithout(id)[h], id)
    BY DEF Ingest
  <2>5. ASSUME NEW h \in PrefixHashes, h = Prefix[id]
        PROVE  \/ byPrefix'[h] = [uuid |-> id, count |-> 1]
                    /\ \A i \in Ids : Prefix[i] = h /\ Indexed(i) => i = id
               \/ byPrefix'[h].count > 1
    <3> DEFINE old == byPrefix[h]
               rest == PrefixesWithout(id)[h]
    <3>1. old \in PrefixEntries /\ rest \in PrefixEntries
      BY <1>0, WithoutType DEF TypeOK
    <3>2. rest = (IF old = [uuid |-> id, count |-> 1] THEN NoPrefixEntry ELSE old)
      BY <2>5 DEF PrefixesWithout
    <3>3. old.count = 1 => (old.uuid \in Ids /\ \A i \in Ids : Prefix[i] = h /\ Indexed(i) => i = old.uuid)
      BY <1>0 DEF PrefixInv
    <3>4. old.count = 0 => \A i \in Ids : Prefix[i] = h => ~Indexed(i)
      BY <1>0 DEF PrefixInv
    <3>5. byPrefix'[h] = Bumped(rest, id)
      BY <2>4, <2>5
    <3>6. CASE rest.count = 0
      <4>1. byPrefix'[h] = [uuid |-> id, count |-> 1]
        BY <3>5, <3>6 DEF Bumped
      <4>2. old.count = 0 \/ (old.count = 1 /\ old.uuid = id)
        BY <3>2, <3>6 DEF NoPrefixEntry
      <4> QED
        BY <4>1, <4>2, <3>3, <3>4
    <3>7. CASE rest.count # 0
      <4>1. rest = old
        BY <3>2, <3>7 DEF NoPrefixEntry
      <4>2. CASE rest.uuid = id
        <5>1. byPrefix'[h] = rest
          BY <3>5, <3>7, <3>1, <4>2 DEF Bumped, PrefixEntries
        <5>2. rest.count # 1
          BY <3>1, <3>2, <4>1, <4>2, <3>7 DEF PrefixEntries, NoPrefixEntry
        <5> QED
          BY <5>1, <5>2, <3>7, <3>1 DEF PrefixEntries
      <4>3. CASE rest.uuid # id
        BY <3>5, <3>7, <3>1, <4>3 DEF Bumped, PrefixEntries
      <4> QED
        BY <4>2, <4>3
    <3> QED
      BY <3>6, <3>7
  <2>6. ASSUME NEW h \in PrefixHashes, byPrefix'[h].count = 1
        PROVE  /\ byPrefix'[h].uuid \in Ids
               /\ Prefix[byPrefix'[h].uuid] = h
               /\ byId'[byPrefix'[h].uuid] # NoKey
    <3>1. CASE h = Prefix[id]
      BY <3>1, <2>1, <2>2, <2>5, <2>6
    <3>2. CASE h # Prefix[id]
      BY <3>2, <1>0, <2>1, <2>2, <2>3, <2>6 DEF PrefixInv, Indexed
    <3> QED
      BY <3>1, <3>2
  <2>7. ASSUME NEW i \in Ids, byId'[i] # NoKey, Prefix[i] \in PrefixHashes
        PROVE  /\ byPrefix'[Prefix[i]].count # 0
               /\ byPrefix'[Prefix[i]].count = 1 => byPrefix'[Prefix[i]].uuid = i
    <3>1. CASE Prefix[i] = Prefix[id]
      <4>1. i # id => Indexed(i)
        BY <2>1, <2>7 DEF Indexed
      <4> QED
        BY <3>1, <4>1, <2>5, <2>7
    <3>2. CASE Prefix[i] # Prefix[id]
      BY <3>2, <1>0, <2>1, <2>3, <2>7 DEF PrefixInv, Indexed
    <3> QED
      BY <3>1, <3>2
  <2> QED
    BY <2>6, <2>7 DEF PrefixInv, Indexed
<1>4. ShortInv'
  <2>1. \A i \in Ids : byId'[i] = (IF i = id THEN c.key ELSE byId[i])
    BY <1>0 DEF Ingest, TypeOK
  <2>2. c.key # NoKey
    OBVIOUS
  <2> QED
    BY <1>0, <2>1, <2>2 DEF ShortInv, Ingest, ShortsWithout, Indexed, TypeOK
<1>5. SuffixComplete'
  <2>1. \A i \in Ids : byId'[i] = (IF i = id THEN c.key ELSE byId[i])
    BY <1>0 DEF Ingest, TypeOK
  <2> QED
    BY <1>0, <2>1 DEF SuffixComplete, ResolveSuffix, Ingest, ShortsWithout, Indexed, TypeOK
<1> QED
  BY <1>1, <1>2, <1>3, <1>4, <1>5 DEF IInv

-----------------------------------------------------------------------------
LEMMA InvalidateStep ==
  ASSUME IInv, NEW id \in Ids, InvalidateNode(id)
  PROVE  IInv'
<1> USE HashAssumption, CountAssumption
<1>0. TypeOK /\ MapsAgree /\ PrefixInv /\ ShortInv /\ SuffixComplete
  BY DEF IInv
<1>a. \A i \in Ids : byId'[i] = (IF i = id THEN NoKey ELSE byId[i])
  BY <1>0 DEF InvalidateNode, TypeOK
<1>1. TypeOK'
  BY <1>0, WithoutType DEF InvalidateNode, TypeOK, Indexed
<1>2. MapsAgree'
  <2>1. \A k \in Keys : byName'[k] = {e \in byName[k] : e.id # id}
    BY <1>0 DEF MapsAgree, InvalidateNode, NamesWithout, TypeOK, Entries
  <2>2. \A k \in Keys : \A e \in byName[k] : e.id \in Ids
    BY <1>0 DEF TypeOK, Entries
  <2>3. \A i \in Ids : byId'[i] # NoKey => \E e \in byName'[byId'[i]] : e.id = i
    <3> SUFFICES ASSUME NEW i \in Ids, byId'[i] # NoKey
                 PROVE  \E e \in byName'[byId'[i]] : e.id = i
      OBVIOUS
    <3>1. i # id /\ byId[i] = byId'[i] /\ byId[i] \in Keys
      BY <1>0, <1>a DEF TypeOK
    <3>2. PICK e \in byName[byId[i]] : e.id = i
      BY <1>0, <3>1 DEF MapsAgree, Indexed
    <3> QED
      BY <3>1, <3>2, <2>1
  <2> QED
    BY <1>0, <1>a, <2>1, <2>2, <2>3 DEF MapsAgree, Indexed
<1>3. PrefixInv'
  <2>1. ASSUME NEW h \in PrefixHashes
        PROVE  \/ byPrefix'[h] = byPrefix[h]
                    /\ ~(h = Prefix[id] /\ byPrefix[h] = [uuid |-> id, count |-> 1])
               \/ byPrefix'[h] = NoPrefixEntry /\ h = Prefix[id]
                    /\ byPrefix[h] = [uuid |-> id, count |-> 1]
    BY DEF InvalidateNode, PrefixesWithout
  <2>2. ASSUME NEW h \in PrefixHashes, byPrefix'[h].count = 1
        PROVE  /\ byPrefix'[h].uuid \in Ids
               /\ Prefix[byPrefix'[h].uuid] = h
               /\ byId'[byPrefix'[h].uuid] # NoKey
    <3>1. byPrefix'[h] = byPrefix[h] /\ byPrefix[h] \in PrefixEntries
      BY <1>0, <2>1, <2>2 DEF NoPrefixEntry, TypeOK
    <3>2. byPrefix[h].uuid \in Ids /\ Prefix[byPrefix[h].uuid] = h /\ Indexed(byPrefix[h].uuid)
      BY <1>0, <2>2, <3>1 DEF PrefixInv
    <3>3. byPrefix[h].uuid # id
      <4> SUFFICES ASSUME byPrefix[h].uuid = id PROVE FALSE
        OBVIOUS
      <4>1. byPrefix[h] = [uuid |-> id, count |-> 1]
        BY <3>1, <2>2 DEF PrefixEntries
      <4> QED
        BY <4>1, <3>2, <2>1, <2>2 DEF NoPrefixEntry
    <3> QED
      BY <3>1, <3>2, <3>3, <1>a DEF Indexed
  <2>3. ASSUME NEW i \in Ids, byId'[i] # NoKey, Prefix[i] \in PrefixHashes
        PROVE  /\ byPrefix'[Prefix[i]].count # 0
               /\ byPrefix'[Prefix[i]].count = 1 => byPrefix'[Prefix[i]].uuid = i
    <3>1. i # id /\ Indexed(i)
      BY <1>a, <2>3 DEF Indexed
    <3>2. byPrefix[Prefix[i]].count = 1 => byPrefix[Prefix[i]].uuid = i
      BY <1>0, <3>1, <2>3 DEF PrefixInv
    <3>3. byPrefix'[Prefix[i]] = byPrefix[Prefix[i]]
      BY <2>1, <2>3, <3>1, <3>2
    <3> QED
      BY <1>0, <3>1, <3>3, <2>3 DEF PrefixInv
  <2> QED
    BY <2>2, <2>3 DEF PrefixInv, Indexed
<1>4. ShortInv'
  BY <1>0, <1>a DEF ShortInv, InvalidateNode, ShortsWithout, Indexed, TypeOK
<1>5. SuffixComplete'
  BY <1>0, <1>a DEF SuffixComplete, ResolveSuffix, InvalidateNode, ShortsWithout, Indexed, TypeOK
<1> QED
  BY <1>1, <1>2, <1>3, <1>4, <1>5 DEF IInv

LEMMA ClearStep == ASSUME IInv, Clear PROVE IInv'
<1> USE HashAssumption, CountAssumption
<1>1. TypeOK'
  BY DEF IInv, Clear, TypeOK, PrefixEntries, NoPrefixEntry, Entries
<1>2. MapsAgree' /\ PrefixInv' /\ ShortInv' /\ SuffixComplete'
  BY DEF Clear, MapsAgree, PrefixInv, ShortInv, SuffixComplete, Indexed, NoPrefixEntry
<1> QED
  BY <1>1, <1>2 DEF IInv

LEMMA UnchangedStep == ASSUME IInv, UNCHANGED vars PROVE IInv'
BY DEF vars, IInv, TypeOK, MapsAgree, PrefixInv, ShortInv, SuffixComplete, ResolveSuffix, Indexed

-----------------------------------------------------------------------------
(* The maps are always well formed and always satisfy every part of the    *)
(* inductive invariant.                                                    *)
THEOREM IndexInvariant == Spec => []IInv
<1>1. IInv /\ [Next]_vars => IInv'
  <2> SUFFICES ASSUME IInv, [Next]_vars PROVE IInv'
    OBVIOUS
  <2>1. CASE \E id \in Ids, c \in Contents : Ingest(id, c)
    BY <2>1, IngestStep
  <2>2. CASE \E id \in Ids : InvalidateNode(id)
    BY <2>2, InvalidateStep
  <2>3. CASE Clear
    BY <2>3, ClearStep
  <2>4. CASE UNCHANGED vars
    BY <2>4, UnchangedStep
  <2> QED
    BY <2>1, <2>2, <2>3, <2>4 DEF Next
<1> QED
  BY InitIInv, <1>1, PTL DEF Spec

(* Type correctness of the four maps: the collision counter saturates.     *)
THEOREM TypeCorrect == Spec => []TypeOK
<1>1. IInv => TypeOK
  BY DEF IInv
<1> QED
  BY IndexInvariant, <1>1, PTL

(* by_name and by_id always describe the same set of nodes, each filed     *)
(* once.                                                                   *)
THEOREM MapsAlwaysAgree == Spec => []MapsAgree
<1>1. IInv => MapsAgree
  BY DEF IInv
<1> QED
  BY IndexInvariant, <1>1, PTL

(* A short hash never resolves to a dropped node, and a prefix never       *)
(* resolves while a second indexed node has it.                            *)
THEOREM ResolutionIsSound == Spec => []HashesSound
<1>1. IInv => HashesSound
  <2> SUFFICES ASSUME IInv PROVE HashesSound
    OBVIOUS
  <2>1. \A h \in SuffixHashes : ResolveSuffix(h) # NoId =>
          Short[ResolveSuffix(h)] = h /\ Indexed(ResolveSuffix(h))
    BY DEF IInv, ShortInv, ResolveSuffix
  <2>2. ASSUME NEW h \in PrefixHashes, ResolvePrefix(h) # NoId,
               NEW i \in Ids, Prefix[i] = h
        PROVE  Indexed(i) <=> i = ResolvePrefix(h)
    BY <2>2 DEF IInv, PrefixInv, ResolvePrefix
  <2> QED
    BY <2>1, <2>2 DEF HashesSound
<1> QED
  BY IndexInvariant, <1>1, PTL

(* An indexed node with a suffix of its own always resolves by it.         *)
THEOREM SuffixAlwaysResolves == Spec => []SuffixComplete
<1>1. IInv => SuffixComplete
  BY DEF IInv
<1> QED
  BY IndexInvariant, <1>1, PTL

-----------------------------------------------------------------------------
(* The operation log and the warning drawn from it, for any capacity, any    *)
(* window, any tools and any end of the clock.                               *)

Records == [tool : Named, ok : BOOLEAN, at : Nat]
Finishes == [ok : BOOLEAN, at : Nat, ever : BOOLEAN]

\* The newest record of a tool, if the ring still has it, is its last finish.
Sound(s, l) ==
  \A i \in DOMAIN s :
    (\A j \in DOMAIN s : j > i => s[j].tool # s[i].tool)
    => l[s[i].tool] = [ok |-> s[i].ok, at |-> s[i].at, ever |-> TRUE]

FailuresOf(s) == {i \in DOMAIN s : ~s[i].ok}
\* Every set of failures has a newest: what the recursion of Max would say.
HasNewest(s) == FailuresOf(s) # {} => \E i \in FailuresOf(s) : \A j \in FailuresOf(s) : i >= j

HInv ==
  /\ log \in Seq(Records) /\ Len(log) <= Capacity /\ clock \in Nat
  /\ latest \in [Named -> Finishes]
  /\ Sound(log, latest)
  /\ HasNewest(log)

-----------------------------------------------------------------------------
(* The ring.                                                               *)

LEMMA TailKeeps ==
  ASSUME NEW s \in Seq(Records), s # <<>>, NEW l, Sound(s, l), HasNewest(s)
  PROVE  Tail(s) \in Seq(Records) /\ Sound(Tail(s), l) /\ HasNewest(Tail(s))
<1> DEFINE r == Tail(s)
<1>1. /\ r \in Seq(Records) /\ Len(s) = Len(r) + 1 /\ Len(r) \in Nat
      /\ \A i \in 1..Len(r) : r[i] = s[i + 1]
  BY HeadTailProperties, LenProperties
<1>2. DOMAIN r = 1..Len(r) /\ DOMAIN s = 1..(Len(r) + 1)
  BY <1>1, LenProperties
<1> HIDE DEF r
<1>3. Sound(r, l)
  <2> SUFFICES ASSUME NEW i \in DOMAIN r, \A j \in DOMAIN r : j > i => r[j].tool # r[i].tool
               PROVE  l[r[i].tool] = [ok |-> r[i].ok, at |-> r[i].at, ever |-> TRUE]
    BY DEF Sound
  <2>1. i + 1 \in DOMAIN s /\ r[i] = s[i + 1]
    BY <1>1, <1>2
  <2>2. ASSUME NEW j \in DOMAIN s, j > i + 1 PROVE s[j].tool # s[i + 1].tool
    <3>1. j - 1 \in DOMAIN r /\ j - 1 > i /\ (j - 1) + 1 = j
      BY <1>1, <1>2, <2>2
    <3>2. r[j - 1] = s[(j - 1) + 1]
      BY <1>1, <1>2, <3>1
    <3> QED
      BY <2>1, <3>1, <3>2
  <2> QED
    BY <2>1, <2>2 DEF Sound
<1>4. HasNewest(r)
  <2> SUFFICES ASSUME NEW k \in FailuresOf(r)
               PROVE  \E i \in FailuresOf(r) : \A j \in FailuresOf(r) : i >= j
    BY DEF HasNewest
  <2>1. \A j \in FailuresOf(r) : j + 1 \in FailuresOf(s) /\ j \in 1..Len(r)
    BY <1>1, <1>2 DEF FailuresOf
  <2>2. PICK i \in FailuresOf(s) : \A j \in FailuresOf(s) : i >= j
    BY <2>1 DEF HasNewest
  <2>3. i >= k + 1 /\ i \in 1..(Len(r) + 1)
    BY <1>2, <2>1, <2>2 DEF FailuresOf
  <2>4. i - 1 \in 1..Len(r) /\ (i - 1) + 1 = i
    BY <1>1, <2>1, <2>3
  <2>5. r[i - 1] = s[(i - 1) + 1]
    BY <1>1, <2>4
  <2>6. i - 1 \in FailuresOf(r)
    BY <1>2, <2>2, <2>4, <2>5 DEF FailuresOf
  <2>7. \A j \in FailuresOf(r) : i - 1 >= j
    BY <1>1, <2>1, <2>2, <2>3
  <2> QED
    BY <2>6, <2>7
<1> QED
  BY <1>1, <1>3, <1>4 DEF r

LEMMA AppendKeeps ==
  ASSUME NEW s \in Seq(Records), NEW l \in [Named -> Finishes], NEW e \in Records,
         Sound(s, l), HasNewest(s),
         NEW m, m = [l EXCEPT ![e.tool] = [ok |-> e.ok, at |-> e.at, ever |-> TRUE]]
  PROVE  Append(s, e) \in Seq(Records) /\ Sound(Append(s, e), m) /\ HasNewest(Append(s, e))
<1> DEFINE r == Append(s, e)
           n == Len(s) + 1
<1>1. /\ r \in Seq(Records) /\ Len(r) = n /\ r[n] = e /\ Len(s) \in Nat
      /\ \A i \in 1..Len(s) : r[i] = s[i]
  BY AppendProperties, LenProperties
<1>2. DOMAIN r = 1..n /\ DOMAIN s = 1..Len(s) /\ n \in Nat
  BY <1>1, LenProperties
<1>3. e.tool \in Named
  BY DEF Records
<1>4. \A i \in 1..n : i = n \/ (i \in 1..Len(s) /\ i < n)
  BY <1>1
<1>5. \A i \in 1..Len(s) : i \in 1..n /\ i < n
  BY <1>1
<1>5a. n \in 1..n
  BY <1>1
<1> HIDE DEF r, n
<1>6. Sound(r, m)
  <2> SUFFICES ASSUME NEW i \in DOMAIN r, \A j \in DOMAIN r : j > i => r[j].tool # r[i].tool
               PROVE  m[r[i].tool] = [ok |-> r[i].ok, at |-> r[i].at, ever |-> TRUE]
    BY DEF Sound
  <2>1. CASE i = n
    BY <1>1, <1>3, <2>1
  <2>2. CASE i # n
    <3>1. i \in DOMAIN s /\ r[i] = s[i] /\ i < n /\ n \in DOMAIN r
      BY <1>1, <1>2, <1>4, <2>2
    <3>2. s[i].tool # e.tool
      BY <1>1, <1>2, <3>1
    <3>3. \A j \in DOMAIN s : j > i => s[j].tool # s[i].tool
      BY <1>1, <1>2, <1>5, <3>1
    <3>4. l[s[i].tool] = [ok |-> s[i].ok, at |-> s[i].at, ever |-> TRUE]
      BY <3>1, <3>3 DEF Sound
    <3>5. s[i] \in Records
      BY <1>2, <3>1, ElementOfSeq
    <3>6. s[i].tool \in Named
      BY <3>5 DEF Records
    <3> QED
      BY <3>1, <3>2, <3>4, <3>6
  <2> QED
    BY <2>1, <2>2
<1>7. HasNewest(r)
  <2>1. CASE ~e.ok
    <3>1. n \in DOMAIN r /\ ~r[n].ok
      BY <1>1, <1>2, <1>5a, <2>1
    <3>1a. n \in FailuresOf(r)
      BY <3>1 DEF FailuresOf
    <3>2. \A j \in FailuresOf(r) : n >= j
      BY <1>2 DEF FailuresOf
    <3> QED
      BY <3>1a, <3>2 DEF HasNewest
  <2>2. CASE e.ok
    <3>1. FailuresOf(r) = FailuresOf(s)
      <4>1. ASSUME NEW i \in DOMAIN r PROVE i = n \/ (i \in DOMAIN s /\ r[i] = s[i])
        BY <1>1, <1>2, <1>4
      <4>2. ASSUME NEW i \in DOMAIN s PROVE i \in DOMAIN r /\ r[i] = s[i]
        BY <1>1, <1>2, <1>5
      <4>3. r[n].ok
        BY <1>1, <2>2
      <4> QED
        BY <4>1, <4>2, <4>3 DEF FailuresOf
    <3> QED
      BY <3>1 DEF HasNewest
  <2> QED
    BY <2>1, <2>2
<1> QED
  BY <1>1, <1>6, <1>7 DEF r

-----------------------------------------------------------------------------
LEMMA HealthInitial == HealthInit => HInv
<1> SUFFICES ASSUME HealthInit PROVE HInv
  OBVIOUS
<1>1. log = <<>> /\ DOMAIN log = {} /\ Len(log) = 0
  BY DEF HealthInit
<1>2. Sound(log, latest) /\ HasNewest(log)
  BY <1>1 DEF Sound, HasNewest, FailuresOf
<1> QED
  BY <1>1, <1>2, HealthBounds DEF HealthInit, HInv, Never, Finishes

LEMMA FinishKeeps ==
  ASSUME HInv, NEW tool \in Named, NEW outcome, Finish(tool, outcome)
  PROVE  HInv'
<1> DEFINE e == [tool |-> tool, ok |-> Committed(outcome), at |-> clock]
           base == IF Len(log) = Capacity THEN Tail(log) ELSE log
<1>1. e \in Records
  BY DEF HInv, Records, Committed
<1>2. base \in Seq(Records) /\ Sound(base, latest) /\ HasNewest(base) /\ Len(base) < Capacity
  <2>1. CASE Len(log) = Capacity
    <3>1. log # <<>> /\ Len(Tail(log)) = Len(log) - 1
      BY <2>1, HealthBounds, HeadTailProperties, EmptySeq DEF HInv
    <3> QED
      BY <2>1, <3>1, HealthBounds, TailKeeps DEF HInv
  <2>2. CASE Len(log) # Capacity
    BY <2>2, HealthBounds, LenProperties DEF HInv
  <2> QED
    BY <2>1, <2>2
<1>3. log' = Append(base, e)
  BY DEF Finish, Appended
<1>4. latest' = [latest EXCEPT ![e.tool] = [ok |-> e.ok, at |-> e.at, ever |-> TRUE]]
  BY DEF Finish, Committed
<1>5. clock' = clock
  BY DEF Finish
<1>6. latest \in [Named -> Finishes] /\ clock \in Nat
  BY DEF HInv
<1> HIDE DEF e, base
<1>7. log' \in Seq(Records) /\ Sound(log', latest') /\ HasNewest(log')
  BY <1>1, <1>2, <1>3, <1>4, <1>6, AppendKeeps
<1>8. Len(log') <= Capacity
  BY <1>1, <1>2, <1>3, HealthBounds, AppendProperties, LenProperties
<1>9. latest' \in [Named -> Finishes]
  <2>1. [ok |-> e.ok, at |-> e.at, ever |-> TRUE] \in Finishes
    BY <1>1 DEF Records, Finishes
  <2> QED
    BY <1>4, <1>6, <2>1
<1> QED
  BY <1>5, <1>6, <1>7, <1>8, <1>9 DEF HInv

LEMMA HealthStep == HInv /\ [HealthNext]_healthVars => HInv'
<1> SUFFICES ASSUME HInv, [HealthNext]_healthVars PROVE HInv'
  OBVIOUS
<1>1. ASSUME NEW tool \in Named, NEW outcome \in {"ok", "flagged", "error"}, Finish(tool, outcome)
      PROVE  HInv'
  BY <1>1, FinishKeeps
<1>2. CASE Pass
  <2>1. clock' \in Nat
    BY <1>2 DEF Pass, HInv
  <2> QED
    BY <1>2, <2>1 DEF Pass, HInv
<1>3. CASE UNCHANGED healthVars
  BY <1>3 DEF healthVars, HInv
<1> QED
  BY <1>1, <1>2, <1>3 DEF HealthNext

-----------------------------------------------------------------------------
(* The warning.                                                            *)

LEMMA NewestIs ==
  ASSUME HInv, Failures # {}
  PROVE  Max(Failures) \in Failures /\ \A j \in Failures : Max(Failures) >= j
<1>1. \E i \in Failures : \A j \in Failures : i >= j
  BY DEF HInv, HasNewest, FailuresOf, Failures
<1> QED
  BY <1>1 DEF Max

LEMMA WarningFromInv == HInv => WarningStands
<1> SUFFICES ASSUME HInv PROVE WarningStands
  OBVIOUS
<1>0. log \in Seq(Records) /\ DOMAIN log = 1..Len(log) /\ Len(log) \in Nat
  BY LenProperties DEF HInv
<1>1. ASSUME NEW e \in Warning
      PROVE  /\ latest[e.tool].ever /\ ~latest[e.tool].ok
             /\ latest[e.tool].at = e.at /\ clock - e.at <= Window
  <2> DEFINE newest == Max(Failures)
  <2>1. e \in Unrecovered /\ clock - e.at <= Window
    BY DEF Warning
  <2>2. /\ Failures # {} /\ e = log[newest]
        /\ \A i \in DOMAIN log : ~(i > newest /\ log[i].tool = log[newest].tool /\ log[i].ok)
    BY <2>1 DEF Unrecovered
  <2>3. newest \in Failures /\ \A j \in Failures : newest >= j
    BY <2>2, NewestIs
  <2> HIDE DEF newest
  <2>4. newest \in DOMAIN log /\ ~log[newest].ok
    BY <2>3 DEF Failures
  <2>5. \A j \in DOMAIN log : j > newest => log[j].tool # log[newest].tool
    BY <1>0, <2>2, <2>3, <2>4 DEF Failures
  <2>6. latest[e.tool] = [ok |-> e.ok, at |-> e.at, ever |-> TRUE]
    BY <2>2, <2>4, <2>5 DEF HInv, Sound
  <2> QED
    BY <2>1, <2>2, <2>4, <2>6
<1>2. ASSUME NEW tool \in Names, latest[tool].ever, ~latest[tool].ok,
             clock - latest[tool].at <= Window, log # <<>>, Last(log).tool = tool
      PROVE  \E e \in Warning : e.tool = tool
  <2> DEFINE n == Len(log)
             e == log[n]
  <2>1. n \in DOMAIN log /\ \A j \in DOMAIN log : ~(j > n)
    BY <1>0, <1>2, EmptySeq
  <2>2. e.tool = tool
    BY <1>2 DEF Last
  <2>3. latest[tool] = [ok |-> e.ok, at |-> e.at, ever |-> TRUE]
    BY <2>1, <2>2 DEF HInv, Sound
  <2>4. n \in Failures
    BY <1>2, <2>1, <2>3 DEF Failures
  <2>5. Max(Failures) = n
    <3>1. Max(Failures) \in Failures /\ Max(Failures) >= n
      BY <2>4, NewestIs
    <3>2. Max(Failures) \in 1..n
      BY <1>0, <3>1 DEF Failures
    <3> QED
      BY <1>0, <3>1, <3>2
  <2>6. e \in Unrecovered
    BY <2>1, <2>4, <2>5 DEF Unrecovered
  <2>7. clock - e.at <= Window /\ e.tool # "create_node"
    BY <1>2, <2>2, <2>3, NamesAssumption
  <2> QED
    BY <2>2, <2>6, <2>7 DEF Warning
<1> QED
  BY <1>1, <1>2 DEF WarningStands

(* A warning names a tool whose last finished call did not commit, within    *)
(* the window, and a fresh failure is warned of, however many records the    *)
(* ring has lost (OpLog, degraded_warning_if_recent_failure).                *)
THEOREM WarningAlwaysStands == HealthSpec => []WarningStands
BY HealthInitial, HealthStep, WarningFromInv, PTL DEF HealthSpec

-----------------------------------------------------------------------------
(* The audit. That it is fair is a fact about any outline whose markers      *)
(* point at notes and any index that holds names.                            *)

NoteContents == [claim : Claims, tags : Tags, marked : BOOLEAN,
             target : {Lost} \cup [form : Forms, of : Notes]]

\* Every variable has its type.
AuditTyped ==
  /\ notes \in [Notes -> NoteContents \cup {Lost}]
  /\ recorded \in [Notes -> Claims \cup {Lost}]
  /\ collided \in BOOLEAN

LEMMA AuditInitial == AuditInit => AuditTyped
<1> SUFFICES ASSUME AuditInit PROVE AuditTyped
  OBVIOUS
<1>1. recorded \in [Notes -> Claims \cup {Lost}] /\ collided \in BOOLEAN
  BY DEF AuditInit
<1>2. PICK claim \in [Canonicals -> Claims], tags \in [Notes -> Tags],
           target \in [Notes \ Canonicals -> [form : Forms, of : Canonicals]] :
        notes = [n \in Notes |->
                   IF n \in Canonicals
                   THEN [claim |-> claim[n], tags |-> tags[n], marked |-> TRUE, target |-> Lost]
                   ELSE [claim |-> claim[target[n].of], tags |-> tags[n], marked |-> FALSE,
                         target |-> target[n]]]
  BY DEF AuditInit
<1>3. ASSUME NEW n \in Notes PROVE notes[n] \in NoteContents
  <2>1. CASE n \in Canonicals
    <3>1. notes[n] = [claim |-> claim[n], tags |-> tags[n], marked |-> TRUE, target |-> Lost]
      BY <1>2, <2>1
    <3>2. claim[n] \in Claims /\ tags[n] \in Tags
      BY <2>1
    <3> QED
      BY <3>1, <3>2 DEF NoteContents
  <2>2. CASE n \notin Canonicals
    <3>1. notes[n] = [claim |-> claim[target[n].of], tags |-> tags[n], marked |-> FALSE,
                      target |-> target[n]]
      BY <1>2, <2>2
    <3>2. target[n] \in [form : Forms, of : Canonicals]
      BY <2>2
    <3>3. target[n].of \in Canonicals /\ target[n] \in [form : Forms, of : Notes]
      BY <3>2, AuditConstants
    <3>4. claim[target[n].of] \in Claims /\ tags[n] \in Tags
      BY <3>3
    <3> QED
      BY <3>1, <3>3, <3>4 DEF NoteContents
  <2> QED
    BY <2>1, <2>2
<1>4. notes = [n \in Notes |-> notes[n]]
  BY <1>2
<1> QED
  BY <1>1, <1>3, <1>4 DEF AuditTyped

LEMMA AuditStep == AuditTyped /\ [AuditNext]_auditVars => AuditTyped'
<1> SUFFICES ASSUME AuditTyped, [AuditNext]_auditVars PROVE AuditTyped'
  OBVIOUS
<1>1. CASE UNCHANGED auditVars
  BY <1>1 DEF AuditTyped, auditVars
<1>0. CASE Reload
  BY <1>0 DEF AuditTyped, Reload
<1>2. ASSUME NEW n \in Notes, Unlearn(n) PROVE AuditTyped'
  BY <1>2 DEF AuditTyped, Unlearn
<1>3. ASSUME NEW n \in Notes, Discard(n) PROVE AuditTyped'
  BY <1>3 DEF AuditTyped, Discard
<1>4. ASSUME NEW n \in Notes, n \in Alive, Learn(n) PROVE AuditTyped'
  <2>1. notes[n] \in NoteContents
    BY <1>4 DEF AuditTyped, Alive
  <2>2. notes[n].claim \in Claims
    BY <2>1 DEF NoteContents
  <2> QED
    BY <1>4, <2>2 DEF AuditTyped, Learn
<1>5. ASSUME NEW n \in Notes, n \in Alive, NEW r \in NoteContents,
             notes' = [notes EXCEPT ![n] = r], UNCHANGED <<recorded, collided>>
      PROVE  AuditTyped'
  BY <1>5 DEF AuditTyped
<1>6. ASSUME NEW n \in Notes, n \in Alive, NEW claim \in Claims, Rename(n, claim)
      PROVE  AuditTyped'
  <2>1. notes[n] \in NoteContents
    BY <1>6 DEF AuditTyped, Alive
  <2>2. [notes[n] EXCEPT !.claim = claim] \in NoteContents
    BY <2>1 DEF NoteContents
  <2>3. notes' = [notes EXCEPT ![n] = [notes[n] EXCEPT !.claim = claim]] /\ UNCHANGED <<recorded, collided>>
    BY <1>6 DEF Rename, AuditTyped
  <2> QED
    BY <1>5, <1>6, <2>2, <2>3
<1>7. ASSUME NEW n \in Notes, n \in Alive, NEW tags \in Tags, Retag(n, tags)
      PROVE  AuditTyped'
  <2>1. notes[n] \in NoteContents
    BY <1>7 DEF AuditTyped, Alive
  <2>2. [notes[n] EXCEPT !.tags = tags] \in NoteContents
    BY <2>1 DEF NoteContents
  <2>3. notes' = [notes EXCEPT ![n] = [notes[n] EXCEPT !.tags = tags]] /\ UNCHANGED <<recorded, collided>>
    BY <1>7 DEF Retag, AuditTyped
  <2> QED
    BY <1>5, <1>7, <2>2, <2>3
<1>8. ASSUME NEW n \in Notes, n \in Alive, Disclaim(n) PROVE AuditTyped'
  <2>1. notes[n] \in NoteContents
    BY <1>8 DEF AuditTyped, Alive
  <2>2. [notes[n] EXCEPT !.marked = FALSE] \in NoteContents
    BY <2>1 DEF NoteContents
  <2>3. notes' = [notes EXCEPT ![n] = [notes[n] EXCEPT !.marked = FALSE]] /\ UNCHANGED <<recorded, collided>>
    BY <1>8 DEF Disclaim, AuditTyped
  <2> QED
    BY <1>5, <1>8, <2>2, <2>3
<1> QED
  BY <1>0, <1>1, <1>2, <1>3, <1>4, <1>6, <1>7, <1>8 DEF AuditNext

LEMMA TheMarkedIsMeant ==
  ASSUME NEW t PROVE IdMatch(t.of, t)
BY DEF IdMatch, SamePrefix

LEMMA EndsMatch == ASSUME NEW t, NEW x, EndMatch(x, t) PROVE IdMatch(x, t)
BY DEF EndMatch, IdMatch, SamePrefix

\* What is taken from the index for a marker is recorded there, and nothing of what
\* a marker means that it does not refuse is left there.
LEMMA TakenIsRecorded ==
  ASSUME NEW scope, NEW t
  PROVE  /\ {x \in External(scope) : IdMatch(x, t)} \subseteq Recorded(t)
         /\ t \in Unresolved(scope) /\ ~Refused(t) => Recorded(t) \subseteq External(scope)
<1>1. \A x \in External(scope) : x \in Notes /\ recorded[x] # Lost
  BY DEF External, Resolved, Recorded
<1> QED
  BY <1>1 DEF External, Resolved, Recorded

LEMMA AuditIsFair == AuditTyped => FindingsAreFair
<1> SUFFICES ASSUME AuditTyped, NEW scope \in SUBSET Alive, NEW m \in Mirrors(scope),
                    NEW t, t = notes[m].target, NEW c, c = t.of,
                    NEW meant, meant = {n \in scope : IdMatch(n, t)}
             PROVE /\ meant = {c} /\ notes[c].marked /\ notes[c].claim = notes[m].claim
                        => Found(m, scope) = {{}}
                   /\ (/\ meant = {} /\ Recorded(t) = {c} /\ ~Refused(t)
                       /\ recorded[c] = notes[m].claim)
                        => Found(m, scope) = {{}}
                   /\ {"BROKEN"} \in Found(m, scope) =>
                        meant = {} /\ (Cardinality(Recorded(t)) # 1 \/ Refused(t))
                   /\ c \notin Lonely(scope)
  BY Zenon DEF FindingsAreFair
<1> DEFINE far == {x \in External(scope) : IdMatch(x, t)}
<1>1. /\ meant # {} => Found(m, scope) = {AboutPair(m, x) : x \in meant}
      /\ meant = {} /\ far # {} => Found(m, scope) = {AboutEntry(m, x) : x \in far}
      /\ meant = {} /\ far = {} => Found(m, scope) = {{"BROKEN"}}
  BY DEF Found
<1>2. m \in scope /\ t \in {notes[x].target : x \in Mirrors(scope)}
  BY DEF Mirrors
<1>f. far \subseteq Recorded(t)
  BY TakenIsRecorded
<1> HIDE DEF far
<1>3. ASSUME meant = {} PROVE t \in Unresolved(scope)
  BY <1>2, <1>3, EndsMatch DEF Unresolved
<1>4. ASSUME meant = {c}, notes[c].marked, notes[c].claim = notes[m].claim
      PROVE  Found(m, scope) = {{}}
  <2>1. AboutPair(m, c) = {}
    BY <1>4 DEF AboutPair, Diverges, Stripped
  <2> QED
    BY <1>1, <1>4, <2>1
<1>5. ASSUME meant = {}, ~Refused(t) PROVE far = Recorded(t)
  <2>1. Recorded(t) \subseteq External(scope)
    BY <1>3, <1>5, TakenIsRecorded
  <2>2. \A x \in Recorded(t) : IdMatch(x, t)
    BY DEF Recorded
  <2> QED
    BY <1>f, <2>1, <2>2 DEF far
<1>6. ASSUME meant = {}, Recorded(t) = {c}, ~Refused(t), recorded[c] = notes[m].claim
      PROVE  Found(m, scope) = {{}}
  <2>1. far = {c}
    BY <1>5, <1>6
  <2>2. AboutEntry(m, c) = {}
    BY <1>6 DEF AboutEntry, Diverges, Stripped
  <2> QED
    BY <1>1, <1>6, <2>1, <2>2
<1>7. ASSUME {"BROKEN"} \in Found(m, scope)
      PROVE  meant = {} /\ (Cardinality(Recorded(t)) # 1 \/ Refused(t))
  <2>1. \A x : {"BROKEN"} # AboutPair(m, x) /\ {"BROKEN"} # AboutEntry(m, x)
    BY DEF AboutPair, AboutEntry
  <2>2. meant = {} /\ far = {}
    BY <1>1, <1>7, <2>1
  <2>3. Recorded(t) = {} \/ Refused(t)
    BY <1>5, <2>2
  <2>4. Cardinality({}) = 0
    BY FS_EmptySet
  <2> QED
    BY <2>2, <2>3, <2>4
<1>8. c \notin Lonely(scope)
  BY TheMarkedIsMeant DEF Lonely
<1> QED
  BY <1>4, <1>6, <1>7, <1>8

(* A mirror in order is not found at fault, what is called broken can not be *)
(* resolved by an index that refuses the prefixes that ever collided in it,  *)
(* and a canonical pointed at is not lonely, however the outline has changed *)
(* and the index lags behind it (audit_mirrors, resolve_short_hash).         *)
THEOREM AuditAlwaysFair == AuditSpec => []FindingsAreFair
BY AuditInitial, AuditStep, AuditIsFair, PTL DEF AuditSpec

-----------------------------------------------------------------------------
(* The command line. What is proved of a command is proved of the steps it   *)
(* has left, which only get fewer.                                           *)

Reading == {"args", "pick", "get", "index", "save", "look", "walk"}
Writing == {"write", "all", "halt", "stop", "turn", "each", "try"}
Forgiving == {"stop", "turn", "each", "try"}
Refusing == {"args", "pick", "whole"}
Steps == Reading \cup Writing \cup {"whole"}

\* A failure ends the command with 1, and nothing is refused half-way.
Fits(c, x) == (c \notin Lenient => x \notin Forgiving) /\ (x = "turn" => c \in RefusesLate)
Strict(c, s) == \A i \in DOMAIN s : Fits(c, s[i])
\* Nothing is refused after a write.
Ordered(s) == \A i, j \in DOMAIN s : i < j /\ s[i] \in Writing => s[j] \notin Refusing
\* One walk, which is demanded whole before the first write.
WalkFirst(s) == \A i, j \in DOMAIN s : i < j /\ s[i] \in Writing \cup {"whole"} => s[j] # "walk"
WholeAfterWalk(s, w) ==
  \A i \in DOMAIN s : s[i] = "whole" => w # "none" \/ \E j \in DOMAIN s : j < i /\ s[j] = "walk"
NoWalk(s) == \A i \in DOMAIN s : s[i] # "walk"
WriteAfterWhole(s, w) ==
  \A i \in DOMAIN s : s[i] \in Writing =>
    (w = "whole" /\ NoWalk(s)) \/ \E j \in DOMAIN s : j < i /\ s[j] = "whole"
Guarded(s, w) == WalkFirst(s) /\ WholeAfterWalk(s, w) /\ WriteAfterWhole(s, w)

Good(c, s, w) ==
  /\ s \in Seq(Steps)
  /\ Strict(c, s)
  /\ Ordered(s)
  /\ c \in NeedWhole => Guarded(s, w)

-----------------------------------------------------------------------------
(* The programs.                                                             *)

LEMMA EmptyIsGood == ASSUME NEW c, NEW w PROVE Good(c, <<>>, w)
BY DEF Good, Strict, Ordered, Guarded, WalkFirst, WholeAfterWalk, WriteAfterWhole

LEMMA ReadersAreGood ==
  ASSUME NEW c, c \notin NeedWhole, NEW s \in Seq(Reading), NEW w
  PROVE  Good(c, s, w)
<1>1. s \in Seq(Steps) /\ \A i \in DOMAIN s : s[i] \in Reading
  <2>1. \A i \in 1..Len(s) : s[i] \in Reading
    BY ElementOfSeq
  <2>2. Reading \subseteq Steps
    BY DEF Steps
  <2> QED
    BY <2>1, <2>2
<1>2. \A x \in Reading : x \notin Writing
  BY DEF Reading, Writing
<1>3. \A x \in Reading : Fits(c, x)
  BY DEF Reading, Forgiving, Fits
<1> QED
  BY <1>1, <1>2, <1>3 DEF Good, Strict, Ordered

\* The configuration is checked before the program.
LEMMA PrefixedIsGood ==
  ASSUME NEW c, NEW s, NEW w, Good(c, s, w)
  PROVE  Good(c, <<"args">> \o s, w)
<1> DEFINE r == <<"args">> \o s
<1>1. <<"args">> \in Seq(Steps) /\ s \in Seq(Steps) /\ Len(<<"args">>) = 1
  BY DEF Good, Steps, Reading
<1>2. /\ r \in Seq(Steps) /\ Len(r) = Len(s) + 1 /\ r[1] = "args"
      /\ \A i \in 2..Len(r) : r[i] = s[i - 1]
  BY <1>1, ConcatProperties, LenProperties
<1>3. DOMAIN r = 1..Len(r) /\ DOMAIN s = 1..Len(s) /\ Len(s) \in Nat
  BY <1>1, <1>2, LenProperties
<1>4. "args" \notin Writing /\ "args" \notin {"whole", "walk"} /\ Fits(c, "args")
  BY DEF Writing, Forgiving, Fits
<1> HIDE DEF r
<1>5. \A i \in DOMAIN r : i = 1 \/ (i - 1 \in DOMAIN s /\ r[i] = s[i - 1])
  BY <1>2, <1>3
<1>6. \A i \in DOMAIN s : i + 1 \in DOMAIN r /\ r[i + 1] = s[i]
  BY <1>2, <1>3
<1>7. Strict(c, r)
  BY <1>2, <1>4, <1>5 DEF Good, Strict
<1>8. Ordered(r)
  <2> SUFFICES ASSUME NEW i \in DOMAIN r, NEW j \in DOMAIN r, i < j, r[i] \in Writing
               PROVE  r[j] \notin Refusing
    BY DEF Ordered
  <2>1. i # 1 /\ j # 1
    BY <1>2, <1>3, <1>4
  <2>2. i - 1 \in DOMAIN s /\ j - 1 \in DOMAIN s /\ i - 1 < j - 1
    BY <1>3, <1>5, <2>1
  <2> QED
    BY <1>5, <2>1, <2>2 DEF Good, Ordered
<1>9. ASSUME c \in NeedWhole PROVE Guarded(r, w)
  <2>0. WalkFirst(s) /\ WholeAfterWalk(s, w) /\ WriteAfterWhole(s, w)
    BY <1>9 DEF Good, Guarded
  <2>1. WalkFirst(r)
    <3> SUFFICES ASSUME NEW i \in DOMAIN r, NEW j \in DOMAIN r, i < j,
                        r[i] \in Writing \cup {"whole"}
                 PROVE  r[j] # "walk"
      BY DEF WalkFirst
    <3>1. i # 1 /\ j # 1
      BY <1>2, <1>3, <1>4
    <3>2. i - 1 \in DOMAIN s /\ j - 1 \in DOMAIN s /\ i - 1 < j - 1
      BY <1>3, <1>5, <3>1
    <3> QED
      BY <1>5, <2>0, <3>1, <3>2 DEF WalkFirst
  <2>2. WholeAfterWalk(r, w)
    <3> SUFFICES ASSUME NEW i \in DOMAIN r, r[i] = "whole", w = "none"
                 PROVE  \E j \in DOMAIN r : j < i /\ r[j] = "walk"
      BY DEF WholeAfterWalk
    <3>1. i - 1 \in DOMAIN s /\ s[i - 1] = "whole"
      BY <1>2, <1>4, <1>5
    <3>2. PICK j \in DOMAIN s : j < i - 1 /\ s[j] = "walk"
      BY <2>0, <3>1 DEF WholeAfterWalk
    <3>3. j + 1 < i
      BY <1>3, <3>2
    <3> QED
      BY <1>6, <3>2, <3>3
  <2>3. WriteAfterWhole(r, w)
    <3> SUFFICES ASSUME NEW i \in DOMAIN r, r[i] \in Writing
                 PROVE  (w = "whole" /\ NoWalk(r)) \/ \E j \in DOMAIN r : j < i /\ r[j] = "whole"
      BY DEF WriteAfterWhole
    <3>1. i - 1 \in DOMAIN s /\ s[i - 1] \in Writing
      BY <1>2, <1>4, <1>5
    <3>2. CASE w = "whole" /\ NoWalk(s)
      BY <1>2, <1>4, <1>5, <3>2 DEF NoWalk
    <3>3. CASE \E j \in DOMAIN s : j < i - 1 /\ s[j] = "whole"
      <4>1. PICK j \in DOMAIN s : j < i - 1 /\ s[j] = "whole"
        BY <3>3
      <4>2. j + 1 < i
        BY <1>3, <4>1
      <4> QED
        BY <1>6, <4>1, <4>2
    <3> QED
      BY <2>0, <3>1, <3>2, <3>3 DEF WriteAfterWhole
  <2> QED
    BY <2>1, <2>2, <2>3 DEF Guarded
<1> QED
  BY <1>2, <1>7, <1>8, <1>9 DEF Good, r

LEMMA PrefixedIs ==
  ASSUME NEW s \in Seq(Steps), NEW t \in Seq(Steps), Len(t) = Len(s) + 1, t[1] = "args",
         \A i \in 1..Len(s) : t[i + 1] = s[i]
  PROVE  <<"args">> \o s = t
<1> DEFINE r == <<"args">> \o s
<1>1. <<"args">> \in Seq(Steps) /\ Len(<<"args">>) = 1 /\ Len(s) \in Nat
  BY LenProperties DEF Steps, Reading
<1>2. r \in Seq(Steps) /\ Len(r) = Len(s) + 1 /\ r[1] = "args" /\ \A i \in 2..Len(r) : r[i] = s[i - 1]
  BY <1>1, ConcatProperties
<1> HIDE DEF r
<1>3. \A i \in 1..Len(r) : r[i] = t[i]
  <2>1. ASSUME NEW i \in 1..Len(r), i # 1 PROVE r[i] = t[i]
    <3>1. i \in 2..Len(r) /\ i - 1 \in 1..Len(s) /\ (i - 1) + 1 = i
      BY <1>1, <1>2, <2>1
    <3> QED
      BY <1>2, <3>1
  <2> QED
    BY <1>2, <2>1
<1>4. r = t
  BY <1>2, <1>3, SeqEqual
<1> QED
  BY <1>4 DEF r

\* What is left after a step, when the walk is as it was.
LEMMA RestIsGood ==
  ASSUME NEW c, NEW s, NEW w, NEW v, Good(c, s, w), s # <<>>,
         c \in NeedWhole => Guarded(Tail(s), v)
  PROVE  Good(c, Tail(s), v)
<1> DEFINE r == Tail(s)
<1>1. /\ r \in Seq(Steps) /\ Len(r) = Len(s) - 1 /\ s \in Seq(Steps)
      /\ \A i \in 1..Len(r) : r[i] = s[i + 1]
  BY HeadTailProperties, LenProperties DEF Good
<1>2. DOMAIN r = 1..Len(r) /\ DOMAIN s = 1..Len(s) /\ Len(s) \in Nat
  BY <1>1, LenProperties
<1> HIDE DEF r
<1>3. \A i \in DOMAIN r : i + 1 \in DOMAIN s /\ r[i] = s[i + 1]
  BY <1>1, <1>2
<1>4. Strict(c, r)
  BY <1>3 DEF Good, Strict
<1>5. Ordered(r)
  <2> SUFFICES ASSUME NEW i \in DOMAIN r, NEW j \in DOMAIN r, i < j, r[i] \in Writing
               PROVE  r[j] \notin Refusing
    BY DEF Ordered
  <2>1. i + 1 < j + 1
    BY <1>2
  <2> QED
    BY <1>3, <2>1 DEF Good, Ordered
<1>6. c \in NeedWhole => Guarded(r, v)
  BY DEF r
<1> QED
  BY <1>1, <1>4, <1>5, <1>6 DEF Good, r

\* A set of programs, each with its name.
AllGood(R) == \A c \in R : Good(c.name, c.steps, "none")

LEMMA ReadingPrograms ==
  ASSUME NEW n, n \notin NeedWhole, NEW P, P \subseteq Seq(Reading)
  PROVE  AllGood(Runs(n, P))
BY ReadersAreGood DEF AllGood, Runs

LEMMA ReadersOnly ==
  /\ AllGood(Status) /\ AllGood(HealthCheck) /\ AllGood(CancelAll) /\ AllGood(RecentTools)
  /\ AllGood(Get) /\ AllGood(Children) /\ AllGood(Since) /\ AllGood(Search)
  /\ AllGood(TagSearch) /\ AllGood(Find) /\ AllGood(Subtree) /\ AllGood(Backlinks)
  /\ AllGood(ChangedSince) /\ AllGood(FindByTagAndPath) /\ AllGood(PathOf)
  /\ AllGood(Todos) /\ AllGood(DailyReview) /\ AllGood(RecentChanges)
  /\ AllGood(ProjectSummary) /\ AllGood(Export) /\ AllGood(Review)
  /\ AllGood(BuildNameIndex) /\ AllGood(Index)
<1>1. /\ <<>> \in Seq(Reading) /\ <<"look">> \in Seq(Reading) /\ <<"get">> \in Seq(Reading)
      /\ <<"index">> \in Seq(Reading) /\ <<"walk">> \in Seq(Reading)
      /\ <<"args", "walk">> \in Seq(Reading) /\ <<"args", "index">> \in Seq(Reading)
      /\ <<"walk", "pick">> \in Seq(Reading) /\ <<"look", "save">> \in Seq(Reading)
      /\ <<"args", "get", "save">> \in Seq(Reading)
  BY DEF Reading
<1>2. AllGood(Status) /\ AllGood(HealthCheck) /\ AllGood(CancelAll) /\ AllGood(RecentTools)
  BY <1>1, ReadingPrograms DEF Status, HealthCheck, CancelAll, RecentTools, NeedWhole
<1>3. AllGood(Get) /\ AllGood(Children) /\ AllGood(Since)
  BY <1>1, ReadingPrograms DEF Get, Children, Since, NeedWhole
<1>4. AllGood(Search) /\ AllGood(TagSearch) /\ AllGood(Find) /\ AllGood(Subtree)
  BY <1>1, ReadingPrograms DEF Search, TagSearch, Find, Subtree, NeedWhole
<1>5. AllGood(Backlinks) /\ AllGood(ChangedSince) /\ AllGood(FindByTagAndPath) /\ AllGood(PathOf)
  BY <1>1, ReadingPrograms DEF Backlinks, ChangedSince, FindByTagAndPath, PathOf, NeedWhole
<1>6. AllGood(Todos) /\ AllGood(DailyReview) /\ AllGood(RecentChanges)
  BY <1>1, ReadingPrograms DEF Todos, DailyReview, RecentChanges, NeedWhole
<1>7. AllGood(ProjectSummary) /\ AllGood(Export) /\ AllGood(Review)
  BY <1>1, ReadingPrograms DEF ProjectSummary, Export, Review, NeedWhole
<1>8. AllGood(BuildNameIndex) /\ AllGood(Index)
  BY <1>1, ReadingPrograms DEF BuildNameIndex, Index, NeedWhole
<1> QED
  BY <1>2, <1>3, <1>4, <1>5, <1>6, <1>7, <1>8

LEMMA ReadersWithCases ==
  AllGood(NodeAtPath) /\ AllGood(Dated) /\ AllGood(AuditMirrors) /\ AllGood(ReadBatch)
  /\ AllGood(Reindex)
<1>1. /\ <<>> \in Seq(Reading) /\ <<"get", "pick">> \in Seq(Reading)
      /\ <<"get", "pick", "get", "pick">> \in Seq(Reading) /\ <<"walk">> \in Seq(Reading)
      /\ <<"args", "walk", "look">> \in Seq(Reading)
      /\ <<"args", "look", "get", "walk", "look">> \in Seq(Reading)
      /\ <<"args", "look">> \in Seq(Reading)
      /\ <<"args", "look", "args", "look">> \in Seq(Reading)
      /\ <<"look", "save">> \in Seq(Reading) /\ <<"look">> \in Seq(Reading)
      /\ <<"get", "save">> \in Seq(Reading) /\ <<"get">> \in Seq(Reading)
  BY DEF Reading
<1>2. AllGood(NodeAtPath)
  BY <1>1, ReadingPrograms DEF NodeAtPath, NeedWhole
<1>3. AllGood(Dated)
  <2>1. AllGood(Runs("overdue", {<<"walk">>})) /\ AllGood(Runs("upcoming", {<<"walk">>}))
    BY <1>1, ReadingPrograms DEF NeedWhole
  <2> QED
    BY <2>1 DEF Dated, AllGood
<1>4. AllGood(AuditMirrors) /\ AllGood(ReadBatch) /\ AllGood(Reindex)
  BY <1>1, ReadingPrograms DEF AuditMirrors, ReadBatch, Reindex, NeedWhole
<1> QED
  BY <1>2, <1>3, <1>4

LEMMA ResolveLinkReads == AllGood(ResolveLink)
<1> DEFINE scopes == {<<>>, <<"get", "pick">>}
           saves == {<<>>, <<"look">>}
           A == {<<"args", "get">>, <<"args", "look">>}
           Link(l, c, v) == <<"args">> \o l \o c \o <<"walk">> \o v \o <<"pick">>
           B == {Link(lookups, scope, save) :
                  lookups \in {<<>>, <<"look">>}, scope \in scopes, save \in saves}
<1>1. /\ <<>> \in Seq(Reading) /\ <<"get", "pick">> \in Seq(Reading) /\ <<"look">> \in Seq(Reading)
      /\ <<"args", "get">> \in Seq(Reading) /\ <<"args", "look">> \in Seq(Reading)
      /\ <<"args">> \in Seq(Reading) /\ <<"walk">> \in Seq(Reading) /\ <<"pick">> \in Seq(Reading)
  BY DEF Reading
<1>2. ASSUME NEW l \in {<<>>, <<"look">>}, NEW c \in scopes, NEW v \in saves
      PROVE  Link(l, c, v) \in Seq(Reading)
  <2>1. l \in Seq(Reading) /\ c \in Seq(Reading) /\ v \in Seq(Reading)
    BY <1>1
  <2>2. \A x, y \in Seq(Reading) : x \o y \in Seq(Reading)
    BY ConcatProperties
  <2> HIDE DEF scopes, saves
  <2>3. <<"args">> \o l \in Seq(Reading)
    BY <1>1, <2>1, <2>2, Zenon
  <2>4. <<"args">> \o l \o c \in Seq(Reading)
    BY <2>1, <2>2, <2>3, Zenon
  <2>5. <<"args">> \o l \o c \o <<"walk">> \in Seq(Reading)
    BY <1>1, <2>2, <2>4, Zenon
  <2>6. <<"args">> \o l \o c \o <<"walk">> \o v \in Seq(Reading)
    BY <2>1, <2>2, <2>5, Zenon
  <2> QED
    BY <1>1, <2>2, <2>6, Zenon
<1>3. A \subseteq Seq(Reading) /\ B \subseteq Seq(Reading)
  <2>1. A \subseteq Seq(Reading)
    BY <1>1
  <2>2. ASSUME NEW x \in B PROVE x \in Seq(Reading)
    <3> HIDE DEF scopes, saves, Link
    <3>1. PICK l \in {<<>>, <<"look">>}, c \in scopes, v \in saves : x = Link(l, c, v)
      OBVIOUS
    <3> QED
      BY <1>2, <3>1
  <2> QED
    BY <2>1, <2>2
<1> HIDE DEF A, B
<1>4. A \cup B \subseteq Seq(Reading)
  BY <1>3
<1>5. ResolveLink = Runs("resolve-link", A \cup B)
  BY DEF ResolveLink, A, B, Runs
<1>6. "resolve-link" \notin NeedWhole
  BY DEF NeedWhole
<1>7. AllGood(Runs("resolve-link", A \cup B))
  BY <1>4, <1>6, ReadingPrograms
<1> QED
  BY <1>5, <1>7, Zenon

LEMMA ReadsAreNoWrites ==
  (\A y \in Reading : y \notin Writing) /\ (\A y \in Reading : \A c : Fits(c, y))
<1>1. \A y \in Reading : y \notin Writing
  BY DEF Reading, Writing
<1>2. \A y \in Reading : \A c : Fits(c, y)
  BY DEF Reading, Forgiving, Fits
<1> QED
  BY <1>1, <1>2

\* A program whose only write is its last step, checked for one.
LEMMA LastStepWrites ==
  ASSUME NEW c, c \notin NeedWhole, NEW p \in Seq(Reading), NEW x \in Writing,
         Fits(c, x)
  PROVE  Good(c, Append(p, x), "none")
<1> DEFINE s == Append(p, x)
           n == Len(p)
<1>1. p \in Seq(Steps) /\ x \in Steps /\ n \in Nat
  <2>1. \A i \in 1..Len(p) : p[i] \in Reading
    BY ElementOfSeq
  <2> QED
    BY <2>1, LenProperties DEF Steps
<1>2. s \in Seq(Steps) /\ DOMAIN s = 1..(n + 1) /\ s[n + 1] = x /\ \A i \in 1..n : s[i] = p[i]
  BY <1>1, AppendProperties, LenProperties
<1>3. \A i \in 1..n : p[i] \in Reading
  BY ElementOfSeq
<1>4. (\A y \in Reading : y \notin Writing) /\ (\A y \in Reading : Fits(c, y))
  BY ReadsAreNoWrites
<1> HIDE DEF s, n
<1>5. \A i \in 1..(n + 1) : i = n + 1 \/ i \in 1..n
  BY <1>1
<1>6. Strict(c, s)
  <2>1. ASSUME NEW i \in DOMAIN s PROVE Fits(c, s[i])
    <3>1. CASE i = n + 1
      BY <1>2, <3>1
    <3>2. CASE i \in 1..n
      <4>1. s[i] = p[i] /\ p[i] \in Reading
        BY <1>2, <1>3, <3>2
      <4> QED
        BY <1>4, <4>1
    <3> QED
      BY <1>2, <1>5, <3>1, <3>2
  <2> QED
    BY <2>1 DEF Strict
<1>7. Ordered(s)
  <2> SUFFICES ASSUME NEW i \in DOMAIN s, NEW j \in DOMAIN s, i < j PROVE s[i] \notin Writing
    BY DEF Ordered
  <2>1. i \in 1..n
    BY <1>1, <1>2, <1>5
  <2> QED
    BY <1>2, <1>3, <1>4, <2>1
<1> QED
  BY <1>2, <1>6, <1>7 DEF Good, s

\* Programs whose only write is their last step, with others that have none.
LEMMA WritingPrograms ==
  ASSUME NEW n, n \notin NeedWhole, NEW R, R \subseteq Seq(Reading), NEW P,
         \A s \in P : \E p \in Seq(Reading), x \in Writing :
            s = Append(p, x) /\ Fits(n, x)
  PROVE  AllGood(Runs(n, R \cup P))
<1>1. ASSUME NEW s \in P PROVE Good(n, s, "none")
  <2>1. PICK p \in Seq(Reading), x \in Writing :
          s = Append(p, x) /\ Fits(n, x)
    BY Zenon
  <2>2. Good(n, Append(p, x), "none")
    BY <2>1, LastStepWrites
  <2> QED
    BY <2>1, <2>2, Zenon
<1>2. ASSUME NEW s \in R PROVE Good(n, s, "none")
  BY ReadersAreGood
<1> QED
  BY <1>1, <1>2 DEF AllGood, Runs

\* One such program.
LEMMA WritingProgram ==
  ASSUME NEW n, n \notin NeedWhole, NEW R, R \subseteq Seq(Reading),
         NEW p \in Seq(Reading), NEW x \in Writing,
         Fits(n, x)
  PROVE  AllGood(Runs(n, R \cup {Append(p, x)}))
BY WritingPrograms

LEMMA OneWrite ==
  /\ AllGood(Create) /\ AllGood(Move) /\ AllGood(Edit) /\ AllGood(Complete)
  /\ AllGood(NativeMirror) /\ AllGood(SmartInsert) /\ AllGood(Reorder)
  /\ AllGood(BatchCreate) /\ AllGood(Transaction)
<1>1. /\ <<>> \in Seq(Reading) /\ <<"args">> \in Seq(Reading)
      /\ <<"walk", "pick", "args">> \in Seq(Reading) /\ {} \subseteq Seq(Reading)
  BY DEF Reading
<1>2. /\ {"write", "all", "stop", "turn", "each"} \subseteq Writing
      /\ \A n : Fits(n, "write") /\ Fits(n, "all")
  BY DEF Writing, Forgiving, Fits
<1>3. /\ <<"write">> = Append(<<>>, "write") /\ <<"args", "write">> = Append(<<"args">>, "write")
      /\ <<"walk", "pick", "args", "stop">> = Append(<<"walk", "pick", "args">>, "stop")
      /\ <<"args", "each">> = Append(<<"args">>, "each")
      /\ <<"args", "turn">> = Append(<<"args">>, "turn")
      /\ <<"args", "all">> = Append(<<"args">>, "all")
  OBVIOUS
<1>4. \A n : \A p \in Seq(Reading), x \in Writing :
         n \notin NeedWhole /\ Fits(n, x)
         => AllGood(Runs(n, {Append(p, x)}))
  <2> SUFFICES ASSUME NEW n, NEW p \in Seq(Reading), NEW x \in Writing, n \notin NeedWhole,
                      Fits(n, x)
               PROVE  AllGood(Runs(n, {Append(p, x)}))
    OBVIOUS
  <2>1. AllGood(Runs(n, {} \cup {Append(p, x)}))
    BY <1>1, WritingProgram
  <2>2. {} \cup {Append(p, x)} = {Append(p, x)}
    OBVIOUS
  <2> QED
    BY <2>1, <2>2, Zenon
<1>5. AllGood(Runs("create", {<<"args", "write">>})) /\ AllGood(Runs("edit", {<<"args", "all">>}))
  BY <1>1, <1>2, <1>3, <1>4 DEF NeedWhole
<1>6. AllGood(Runs("move", {<<"write">>})) /\ AllGood(Runs("complete", {<<"write">>}))
      /\ AllGood(Runs("native-mirror-create", {<<"write">>}))
  BY <1>1, <1>2, <1>3, <1>4 DEF NeedWhole
<1>7. AllGood(Runs("smart-insert", {<<"walk", "pick", "args", "stop">>}))
  <2>1. Fits("smart-insert", "stop")
    BY DEF Fits, Lenient
  <2> QED
    BY <1>1, <1>2, <1>3, <1>4, <2>1 DEF NeedWhole
<1>9. AllGood(Runs("transaction", {<<"args", "turn">>}))
  <2>1. Fits("transaction", "turn")
    BY DEF Fits, Lenient, RefusesLate
  <2> QED
    BY <1>1, <1>2, <1>3, <1>4, <2>1 DEF NeedWhole
<1>8. AllGood(Runs("reorder", {<<"args", "each">>})) /\ AllGood(Runs("batch-create", {<<"args", "each">>}))
  <2>1. Fits("reorder", "each") /\ Fits("batch-create", "each")
    BY DEF Fits, Lenient
  <2> QED
    BY <1>1, <1>2, <1>3, <1>4, <2>1 DEF NeedWhole
<1> QED
  BY <1>5, <1>6, <1>7, <1>8, <1>9
     DEF Create, Edit, Move, Complete, NativeMirror, SmartInsert, Transaction, Reorder, BatchCreate

LEMMA WriteOrNot ==
  AllGood(Insert) /\ AllGood(BulkTag) /\ AllGood(Delete)
<1>1. /\ <<>> \in Seq(Reading) /\ <<"args">> \in Seq(Reading) /\ <<"look">> \in Seq(Reading)
      /\ <<"get", "pick">> \in Seq(Reading)
  BY DEF Reading
<1>2. /\ "write" \in Writing /\ "halt" \in Writing /\ "each" \in Writing
      /\ Fits("insert", "halt") /\ Fits("bulk-tag", "each") /\ Fits("delete", "write")
  BY DEF Writing, Forgiving, Fits, Lenient
<1>3. AllGood(Insert)
  <2>1. {<<>>} \cup {Append(<<"args">>, "halt")} = {<<>>, <<"args", "halt">>}
    OBVIOUS
  <2>2. AllGood(Runs("insert", {<<>>} \cup {Append(<<"args">>, "halt")}))
    BY <1>1, <1>2, WritingProgram DEF NeedWhole
  <2> QED
    BY <2>1, <2>2 DEF Insert
<1>4. AllGood(BulkTag)
  <2>1. {<<"look">>} \cup {Append(<<"look">>, "each")} = {<<"look">>, <<"look", "each">>}
    OBVIOUS
  <2>2. AllGood(Runs("bulk-tag", {<<"look">>} \cup {Append(<<"look">>, "each")}))
    BY <1>1, <1>2, WritingProgram DEF NeedWhole
  <2> QED
    BY <2>1, <2>2 DEF BulkTag
<1>5. AllGood(Delete)
  <2> DEFINE P == {<<"write">>, <<"get", "pick", "write">>}
  <2>1. <<"write">> = Append(<<>>, "write") /\ <<"get", "pick", "write">> = Append(<<"get", "pick">>, "write")
    OBVIOUS
  <2>2. {} \cup P = P /\ {} \subseteq Seq(Reading) /\ "delete" \notin NeedWhole
    BY DEF NeedWhole
  <2>3. \A s \in P : \E p \in Seq(Reading), x \in Writing :
          s = Append(p, x) /\ Fits("delete", x)
    BY <1>1, <1>2, <2>1
  <2> HIDE DEF P
  <2>4. AllGood(Runs("delete", {} \cup P))
    BY <2>2, <2>3, WritingPrograms
  <2> QED
    BY <2>2, <2>4 DEF Delete, P
<1> QED
  BY <1>3, <1>4, <1>5

LEMMA MirrorWrites == AllGood(CreateMirror)
<1> DEFINE s == <<"args", "get", "write", "try">>
<1>1. AllGood(Runs("create-mirror", {<<"args", "get">>, <<"args", "get", "write">>}))
  <2>1. {<<"args", "get">>} \cup {Append(<<"args", "get">>, "write")}
          = {<<"args", "get">>, <<"args", "get", "write">>}
    OBVIOUS
  <2>2. <<"args", "get">> \in Seq(Reading) /\ "write" \in Writing /\ Fits("create-mirror", "write")
    BY DEF Reading, Writing, Forgiving, Fits
  <2>3. AllGood(Runs("create-mirror", {<<"args", "get">>} \cup {Append(<<"args", "get">>, "write")}))
    BY <2>2, WritingProgram DEF NeedWhole
  <2> QED
    BY <2>1, <2>3
<1>2. Good("create-mirror-annotated", s, "none")
  <2>1. s \in Seq(Steps)
    BY DEF Steps, Reading, Writing
  <2>2. Ordered(s)
    <3>1. DOMAIN s = 1..4 /\ s[1] = "args" /\ s[2] = "get" /\ s[3] = "write" /\ s[4] = "try"
      OBVIOUS
    <3>2. "args" \notin Writing /\ "get" \notin Writing /\ "try" \notin Refusing
      BY DEF Writing, Refusing
    <3> HIDE DEF s
    <3> SUFFICES ASSUME NEW i \in 1..4, NEW j \in 1..4, i < j, s[i] \in Writing
                 PROVE  s[j] \notin Refusing
      BY <3>1 DEF Ordered
    <3>3. i # 1 /\ i # 2
      BY <3>1, <3>2
    <3>4. j = 4
      BY <3>3
    <3> QED
      BY <3>1, <3>2, <3>4
  <2>3. Strict("create-mirror-annotated", s)
    BY DEF Strict, Fits, Lenient
  <2> QED
    BY <2>1, <2>2, <2>3 DEF Good, NeedWhole
<1>3. AllGood(Runs("create-mirror-annotated", {s}))
  BY <1>2 DEF AllGood, Runs
<1> QED
  BY <1>1, <1>3 DEF CreateMirror, AllGood

\* A walk, the demand that it be whole, and what is written of it.
LEMMA CopiesAreGood ==
  AllGood(Duplicate) /\ AllGood(Template) /\ AllGood(BulkUpdate)
<1>1. ASSUME NEW s, s = <<"walk", "whole", "pick", "all">>
      PROVE  Good("duplicate", s, "none") /\ Good("template", s, "none")
  <2>1. s \in Seq(Steps)
    BY <1>1 DEF Steps, Reading, Writing
  <2>2. DOMAIN s = 1..4 /\ s[1] = "walk" /\ s[2] = "whole" /\ s[3] = "pick" /\ s[4] = "all"
    BY <1>1
  <2>3. /\ "walk" \notin Writing /\ "whole" \notin Writing /\ "pick" \notin Writing
        /\ "all" \notin Refusing
    BY DEF Writing, Refusing
  <2>4. Strict("duplicate", s) /\ Strict("template", s)
    BY <2>2 DEF Strict, Fits, Forgiving
  <2>5. Ordered(s)
    BY <2>2, <2>3 DEF Ordered
  <2>6. WalkFirst(s)
    BY <2>2, <2>3 DEF WalkFirst
  <2>7. WholeAfterWalk(s, "none")
    BY <2>2 DEF WholeAfterWalk
  <2>8. WriteAfterWhole(s, "none")
    BY <2>2, <2>3 DEF WriteAfterWhole
  <2> QED
    BY <2>1, <2>4, <2>5, <2>6, <2>7, <2>8 DEF Good, Guarded
<1>2. ASSUME NEW s, s = <<"walk", "whole", "each">>
      PROVE  Good("bulk-delete", s, "none")
  <2>1. s \in Seq(Steps)
    BY <1>2 DEF Steps, Reading, Writing
  <2>2. DOMAIN s = 1..3 /\ s[1] = "walk" /\ s[2] = "whole" /\ s[3] = "each"
    BY <1>2
  <2>3. "walk" \notin Writing /\ "whole" \notin Writing /\ "each" \notin Refusing
    BY DEF Writing, Refusing
  <2>5. Ordered(s)
    BY <2>2, <2>3 DEF Ordered
  <2>6. WalkFirst(s)
    BY <2>2, <2>3 DEF WalkFirst
  <2>7. WholeAfterWalk(s, "none")
    BY <2>2 DEF WholeAfterWalk
  <2>8. WriteAfterWhole(s, "none")
    BY <2>2, <2>3 DEF WriteAfterWhole
  <2>4. Strict("bulk-delete", s)
    BY <2>2 DEF Strict, Fits, Lenient
  <2> QED
    BY <2>1, <2>4, <2>5, <2>6, <2>7, <2>8 DEF Good, Guarded
<1>3. AllGood(Duplicate)
  BY <1>1 DEF AllGood, Runs, Duplicate
<1>4. AllGood(Template)
  <2> DEFINE s == <<"walk", "whole", "pick", "all">>
           r == <<"args", "walk", "whole", "pick", "all">>
  <2>1. <<"args">> \o s = r
    <3>1. s \in Seq(Steps) /\ r \in Seq(Steps) /\ Len(s) = 4 /\ Len(r) = 5 /\ r[1] = "args"
      BY DEF Steps, Reading, Writing
    <3>2. \A i \in 1..4 : r[i + 1] = s[i]
      OBVIOUS
    <3> HIDE DEF r, s
    <3>3. \A i \in 1..Len(s) : r[i + 1] = s[i]
      BY <3>1, <3>2
    <3>4. Len(r) = Len(s) + 1
      BY <3>1
    <3> QED
      BY <3>1, <3>3, <3>4, PrefixedIs
  <2>2. Good("template", s, "none")
    BY <1>1
  <2> HIDE DEF s, r
  <2>3. Good("template", <<"args">> \o s, "none")
    BY <2>2, PrefixedIsGood
  <2>4. Good("template", r, "none")
    BY <2>1, <2>3, Zenon
  <2>5. AllGood(Runs("template", {r}))
    BY <2>4 DEF AllGood, Runs
  <2> QED
    BY <2>5 DEF r, Template
<1>5. AllGood(Runs("bulk-update", {<<"args", "walk", "each">>}))
  <2>1. {} \cup {Append(<<"args", "walk">>, "each")} = {<<"args", "walk", "each">>}
    OBVIOUS
  <2>2. /\ <<"args", "walk">> \in Seq(Reading) /\ "each" \in Writing /\ {} \subseteq Seq(Reading)
        /\ Fits("bulk-update", "each")
    BY DEF Reading, Writing, Fits, Lenient
  <2>3. AllGood(Runs("bulk-update", {} \cup {Append(<<"args", "walk">>, "each")}))
    BY <2>2, WritingProgram DEF NeedWhole
  <2> QED
    BY <2>1, <2>3
<1>6. AllGood(Runs("bulk-delete", {<<"args", "walk", "whole", "each">>}))
  <2> DEFINE s == <<"walk", "whole", "each">>
           r == <<"args", "walk", "whole", "each">>
  <2>1. <<"args">> \o s = r
    <3>1. s \in Seq(Steps) /\ r \in Seq(Steps) /\ Len(s) = 3 /\ Len(r) = 4 /\ r[1] = "args"
      BY DEF Steps, Reading, Writing
    <3>2. \A i \in 1..3 : r[i + 1] = s[i]
      OBVIOUS
    <3> HIDE DEF r, s
    <3>3. \A i \in 1..Len(s) : r[i + 1] = s[i]
      BY <3>1, <3>2
    <3>4. Len(r) = Len(s) + 1
      BY <3>1
    <3> QED
      BY <3>1, <3>3, <3>4, PrefixedIs
  <2>2. Good("bulk-delete", s, "none")
    BY <1>2
  <2> HIDE DEF s, r
  <2>3. Good("bulk-delete", <<"args">> \o s, "none")
    BY <2>2, PrefixedIsGood
  <2>4. Good("bulk-delete", r, "none")
    BY <2>1, <2>3, Zenon
  <2>5. AllGood(Runs("bulk-delete", {r}))
    BY <2>4 DEF AllGood, Runs
  <2> QED
    BY <2>5 DEF r
<1> QED
  BY <1>3, <1>4, <1>5, <1>6 DEF BulkUpdate, AllGood

LEMMA CommandsAreGood == AllGood(Commands)
<1>1. \A R \in {Status, HealthCheck, CancelAll, RecentTools, Get, Children, Since, Create, Move,
                Delete, Edit, Complete, NativeMirror, CreateMirror, Search, TagSearch, Find,
                Subtree, Backlinks, ChangedSince, FindByTagAndPath, NodeAtPath, PathOf,
                ResolveLink, Todos, Dated, DailyReview, RecentChanges, ProjectSummary, Export,
                AuditMirrors, Review, Insert, SmartInsert, Duplicate, Template, BulkUpdate,
                BulkTag, Reorder, BatchCreate, ReadBatch, Transaction, Reindex, BuildNameIndex,
                Index} : AllGood(R)
  BY ReadersOnly, ReadersWithCases, ResolveLinkReads, OneWrite, WriteOrNot, MirrorWrites,
     CopiesAreGood
<1> QED
  BY <1>1 DEF Commands, AllGood

-----------------------------------------------------------------------------
(* A run.                                                                    *)

NoRefusal(s) == \A i \in DOMAIN s : s[i] \notin Refusing

\* Every variable has its type, and writes are under way only in a step of writes.
CliTyped ==
  /\ walk \in {"none", "whole", "cut"} /\ refused \in BOOLEAN
  /\ left \in Nat /\ sent \in Nat /\ missed \in Nat /\ exit \in {Running, 0, 1}
  /\ left > 0 => steps # <<>> /\ Head(steps) \in Writing

CliInv ==
  /\ CliTyped
  /\ Good(cmd, steps, walk)
  /\ cmd \notin Lenient /\ missed > 0 => exit = 1
  /\ cmd \notin RefusesLate /\ refused => sent = 0 /\ exit = 1
  /\ sent > 0 => NoRefusal(steps)
  /\ sent > 0 /\ cmd \in NeedWhole => walk = "whole" /\ NoWalk(steps)

LEMMA CliInitial == CliInit => CliInv
<1> SUFFICES ASSUME CliInit PROVE CliInv
  OBVIOUS
<1>1. PICK c \in Commands, dry \in BOOLEAN : cmd = c.name /\ steps = Given(c, dry)
  BY DEF CliInit
<1>2. Good(cmd, c.steps, "none")
  BY <1>1, CommandsAreGood DEF AllGood
<1>3. Good(cmd, steps, "none")
  <2>1. CASE steps = <<>>
    BY <2>1, EmptyIsGood
  <2>2. CASE steps = <<"args">> \o c.steps
    <3>1. Good(cmd, <<"args">> \o c.steps, "none")
      BY <1>2, PrefixedIsGood
    <3> QED
      BY <2>2, <3>1, Zenon
  <2> QED
    BY <1>1, <2>1, <2>2 DEF Given
<1>4. walk = "none" /\ left = 0 /\ sent = 0 /\ missed = 0 /\ refused = FALSE /\ exit = Running
  BY DEF CliInit
<1>5. Good(cmd, steps, walk)
  BY <1>3, <1>4, Zenon
<1>6. CliTyped
  <2>1. refused \in BOOLEAN
    BY <1>4, Zenon
  <2>2. 0 \in Nat /\ ~(0 > 0)
    OBVIOUS
  <2> QED
    BY <1>4, <2>1, <2>2, Zenon DEF CliTyped
<1> QED
  BY <1>4, <1>5, <1>6, CommandConstants DEF CliInv

\* The step is over.
LEMMA AfterTheStep ==
  ASSUME NEW s, NEW c, NEW w, Good(c, s, w), s # <<>>
  PROVE  /\ Head(s) \in Steps
         /\ Fits(c, Head(s))
         /\ NoRefusal(s) => NoRefusal(Tail(s)) /\ Head(s) \notin Refusing
         /\ NoWalk(s) => NoWalk(Tail(s)) /\ Head(s) # "walk"
         /\ Head(s) \in Writing => NoRefusal(Tail(s))
         /\ Head(s) \in Writing /\ c \in NeedWhole => w = "whole" /\ NoWalk(s)
         /\ c \in NeedWhole /\ Head(s) \notin {"walk", "whole"} => Guarded(Tail(s), w)
         /\ c \in NeedWhole /\ Head(s) = "whole" /\ w # "cut" /\ w \in {"none", "whole", "cut"}
              => Guarded(Tail(s), w)
         /\ c \in NeedWhole /\ Head(s) = "walk" => \A v \in {"whole", "cut"} : Guarded(Tail(s), v)
<1> DEFINE r == Tail(s)
           h == Head(s)
<1>1. /\ r \in Seq(Steps) /\ Len(r) = Len(s) - 1 /\ s \in Seq(Steps) /\ h = s[1] /\ Len(s) > 0
      /\ \A i \in 1..Len(r) : r[i] = s[i + 1]
  BY HeadTailProperties, LenProperties, EmptySeq DEF Good
<1>2. DOMAIN r = 1..Len(r) /\ DOMAIN s = 1..Len(s) /\ Len(s) \in Nat /\ 1 \in DOMAIN s
  BY <1>1, LenProperties
<1>3. h \in Steps
  BY <1>1, <1>2, ElementOfSeq
<1> HIDE DEF r, h
<1>4. \A i \in DOMAIN r : i + 1 \in DOMAIN s /\ r[i] = s[i + 1] /\ i + 1 > 1 /\ i \in Nat
  BY <1>1, <1>2
<1>5. \A i \in DOMAIN s : i = 1 \/ (i - 1 \in DOMAIN r /\ s[i] = r[i - 1] /\ i - 1 \in Nat /\ (i - 1) + 1 = i)
  BY <1>1, <1>2
<1>6. "walk" \notin Writing /\ "whole" \notin Writing
  BY DEF Writing
<1>7. Fits(c, h)
  BY <1>1, <1>2 DEF Good, Strict
<1>8. NoRefusal(s) => NoRefusal(r) /\ h \notin Refusing
  BY <1>1, <1>2, <1>4 DEF NoRefusal
<1>9. NoWalk(s) => NoWalk(r) /\ h # "walk"
  BY <1>1, <1>2, <1>4 DEF NoWalk
<1>10. ASSUME h \in Writing PROVE NoRefusal(r)
  <2>1. ASSUME NEW j \in DOMAIN r PROVE r[j] \notin Refusing
    <3>1. s[1] \in Writing /\ 1 < j + 1 /\ j + 1 \in DOMAIN s /\ 1 \in DOMAIN s /\ r[j] = s[j + 1]
      BY <1>1, <1>2, <1>4, <1>10
    <3> QED
      BY <3>1 DEF Good, Ordered
  <2> QED
    BY <2>1 DEF NoRefusal
<1>11. ASSUME h \in Writing, c \in NeedWhole PROVE w = "whole" /\ NoWalk(s)
  <2>1. ~\E j \in DOMAIN s : j < 1
    BY <1>2
  <2> QED
    BY <1>1, <1>2, <1>11, <2>1 DEF Good, Guarded, WriteAfterWhole
<1>12. ASSUME c \in NeedWhole PROVE WalkFirst(s) /\ WholeAfterWalk(s, w) /\ WriteAfterWhole(s, w)
  BY <1>12 DEF Good, Guarded
<1>13. ASSUME c \in NeedWhole PROVE WalkFirst(r)
  <2> SUFFICES ASSUME NEW i \in DOMAIN r, NEW j \in DOMAIN r, i < j,
                      r[i] \in Writing \cup {"whole"}
               PROVE  r[j] # "walk"
    BY DEF WalkFirst
  <2>1. i + 1 < j + 1
    BY <1>4
  <2> QED
    BY <1>4, <1>12, <1>13, <2>1 DEF WalkFirst
\* The walk so far answers for the steps left.
<1>14. ASSUME NEW v, c \in NeedWhole, h = "walk" => v # "none",
              h # "walk" => v = w
       PROVE  WholeAfterWalk(r, v)
  <2> SUFFICES ASSUME NEW i \in DOMAIN r, r[i] = "whole", v = "none"
               PROVE  \E j \in DOMAIN r : j < i /\ r[j] = "walk"
    BY DEF WholeAfterWalk
  <2>1. h # "walk" /\ w = "none"
    BY <1>14
  <2>2. PICK k \in DOMAIN s : k < i + 1 /\ s[k] = "walk"
    BY <1>4, <1>12, <1>14, <2>1 DEF WholeAfterWalk
  <2>3. k # 1
    BY <1>1, <2>1, <2>2
  <2>4. k - 1 \in DOMAIN r /\ r[k - 1] = "walk" /\ k - 1 < i
    BY <1>4, <1>5, <2>2, <2>3
  <2> QED
    BY <2>4
<1>15. ASSUME NEW v, c \in NeedWhole,
              \/ h = "walk"
              \/ h = "whole" /\ v = "whole"
              \/ h \notin {"walk", "whole"} /\ v = w
       PROVE  WriteAfterWhole(r, v)
  <2> SUFFICES ASSUME NEW i \in DOMAIN r, r[i] \in Writing
               PROVE  (v = "whole" /\ NoWalk(r)) \/ \E j \in DOMAIN r : j < i /\ r[j] = "whole"
    BY DEF WriteAfterWhole
  <2>1. i + 1 \in DOMAIN s /\ s[i + 1] \in Writing
    BY <1>4
  <2>2. (w = "whole" /\ NoWalk(s)) \/ \E k \in DOMAIN s : k < i + 1 /\ s[k] = "whole"
    BY <1>12, <1>15, <2>1 DEF WriteAfterWhole
  <2>3. CASE w = "whole" /\ NoWalk(s)
    BY <1>9, <1>15, <2>3
  <2>4. CASE \E k \in DOMAIN s : k < i + 1 /\ s[k] = "whole"
    <3>1. PICK k \in DOMAIN s : k < i + 1 /\ s[k] = "whole"
      BY <2>4
    <3>2. CASE k = 1
      <4>1. h = "whole" /\ v = "whole"
        BY <1>1, <1>15, <3>1, <3>2
      <4>2. NoWalk(r)
        <5>1. ASSUME NEW j \in DOMAIN r PROVE r[j] # "walk"
          <6>1. s[1] \in Writing \cup {"whole"} /\ 1 < j + 1 /\ j + 1 \in DOMAIN s
            BY <1>1, <1>4, <4>1
          <6> QED
            BY <1>2, <1>4, <1>12, <1>15, <6>1 DEF WalkFirst
        <5> QED
          BY <5>1 DEF NoWalk
      <4> QED
        BY <4>1, <4>2
    <3>3. CASE k # 1
      <4>1. k - 1 \in DOMAIN r /\ r[k - 1] = "whole" /\ k - 1 < i
        BY <1>4, <1>5, <3>1, <3>3
      <4> QED
        BY <4>1
    <3> QED
      BY <3>2, <3>3
  <2> QED
    BY <2>2, <2>3, <2>4
<1>16. ASSUME c \in NeedWhole, h \notin {"walk", "whole"} PROVE Guarded(r, w)
  BY <1>13, <1>14, <1>15, <1>16 DEF Guarded
<1>17. ASSUME c \in NeedWhole, h = "whole", w # "cut", w \in {"none", "whole", "cut"}
       PROVE  Guarded(r, w)
  <2>1. ~\E j \in DOMAIN s : j < 1
    BY <1>2
  <2>2. w = "whole"
    BY <1>1, <1>2, <1>12, <1>17, <2>1 DEF WholeAfterWalk
  <2> QED
    BY <1>13, <1>14, <1>15, <1>17, <2>2 DEF Guarded
<1>18. ASSUME c \in NeedWhole, h = "walk", NEW v \in {"whole", "cut"} PROVE Guarded(r, v)
  BY <1>13, <1>14, <1>15, <1>18 DEF Guarded
<1> QED
  BY <1>3, <1>7, <1>8, <1>9, <1>10, <1>11, <1>16, <1>17, <1>18 DEF r, h

LEMMA NothingLeft ==
  ASSUME NEW c, NEW w
  PROVE  Good(c, <<>>, w) /\ NoRefusal(<<>>) /\ NoWalk(<<>>)
BY EmptyIsGood DEF NoRefusal, NoWalk

LEMMA JudgeStep == CliInv /\ Judge => CliInv'
<1> SUFFICES ASSUME CliInv, Judge PROVE CliInv'
  OBVIOUS
<1>1. /\ exit = Running /\ left = 0 /\ steps # <<>> /\ Head(steps) \in {"args", "pick"}
      /\ UNCHANGED <<cmd, walk, left, sent, missed>>
  BY DEF Judge, At
<1>2. CliTyped /\ Good(cmd, steps, walk) /\ sent \in Nat /\ missed \in Nat
  BY DEF CliInv, CliTyped
<1>3. sent = 0 /\ (cmd \notin Lenient => missed = 0) /\ (refused => cmd \in RefusesLate)
  <2>1. Head(steps) \in Refusing
    BY <1>1 DEF Refusing
  <2>2. ~NoRefusal(steps)
    BY <1>1, <1>2, <2>1, AfterTheStep
  <2> QED
    BY <1>1, <1>2, <2>2, CommandConstants DEF CliInv
<1>4. CASE Next1 /\ UNCHANGED <<refused, exit>>
  <2>1. Good(cmd, Tail(steps), walk)
    <3>1. cmd \in NeedWhole => Guarded(Tail(steps), walk)
      BY <1>1, <1>2, AfterTheStep
    <3> QED
      BY <1>1, <1>2, <3>1, RestIsGood
  <2>2. CliTyped'
    BY <1>1, <1>2, <1>4 DEF CliTyped
  <2> QED
    BY <1>1, <1>3, <1>4, <2>1, <2>2 DEF CliInv, Next1
<1>5. CASE Fails /\ refused' = TRUE
  <2>1. steps' = <<>> /\ exit' = 1
    BY <1>5 DEF Fails
  <2>2. CliTyped'
    BY <1>1, <1>2, <1>5, <2>1 DEF CliTyped
  <2> QED
    BY <1>1, <1>3, <1>5, <2>1, <2>2, NothingLeft DEF CliInv
<1> QED
  BY <1>4, <1>5 DEF Judge

LEMMA DemandStep == CliInv /\ DemandWhole => CliInv'
<1> SUFFICES ASSUME CliInv, DemandWhole PROVE CliInv'
  OBVIOUS
<1>1. /\ exit = Running /\ left = 0 /\ steps # <<>> /\ Head(steps) = "whole"
      /\ UNCHANGED <<cmd, walk, left, sent, missed>>
  BY DEF DemandWhole, At
<1>2. CliTyped /\ Good(cmd, steps, walk) /\ sent \in Nat /\ missed \in Nat
      /\ walk \in {"none", "whole", "cut"}
  BY DEF CliInv, CliTyped
<1>3. sent = 0 /\ (cmd \notin Lenient => missed = 0) /\ (refused => cmd \in RefusesLate)
  <2>1. Head(steps) \in Refusing
    BY <1>1 DEF Refusing
  <2>2. ~NoRefusal(steps)
    BY <1>1, <1>2, <2>1, AfterTheStep
  <2> QED
    BY <1>1, <1>2, <2>2, CommandConstants DEF CliInv
<1>4. CASE walk # "cut"
  <2>0. steps' = Tail(steps) /\ UNCHANGED <<refused, exit>>
    BY <1>4 DEF DemandWhole, Next1
  <2>1. Good(cmd, Tail(steps), walk)
    <3>1. cmd \in NeedWhole => Guarded(Tail(steps), walk)
      BY <1>1, <1>2, <1>4, AfterTheStep
    <3> QED
      BY <1>1, <1>2, <3>1, RestIsGood
  <2>2. CliTyped'
    BY <1>1, <1>2, <2>0 DEF CliTyped
  <2> QED
    BY <1>1, <1>3, <2>0, <2>1, <2>2 DEF CliInv
<1>5. CASE walk = "cut"
  <2>1. steps' = <<>> /\ exit' = 1 /\ refused' = TRUE
    BY <1>5 DEF Fails, DemandWhole
  <2>2. CliTyped'
    BY <1>1, <1>2, <2>1 DEF CliTyped
  <2> QED
    BY <1>1, <1>3, <2>1, <2>2, NothingLeft DEF CliInv
<1> QED
  BY <1>4, <1>5

LEMMA ReadKeeps == CliInv /\ ReadStep => CliInv'
<1> SUFFICES ASSUME CliInv, ReadStep PROVE CliInv'
  OBVIOUS
<1>1. /\ exit = Running /\ left = 0 /\ steps # <<>> /\ Head(steps) \in {"get", "index", "save", "look"}
      /\ UNCHANGED <<cmd, walk, left, sent, missed, refused>>
  BY DEF ReadStep, At
<1>2. CliTyped /\ Good(cmd, steps, walk) /\ sent \in Nat /\ missed \in Nat /\ (refused => cmd \in RefusesLate)
  BY <1>1, CommandConstants DEF CliInv, CliTyped
<1>3. cmd \notin Lenient => missed = 0
  BY <1>1, <1>2, CommandConstants DEF CliInv
<1>4. CASE steps' = Tail(steps) /\ UNCHANGED exit
  <2>1. Good(cmd, Tail(steps), walk)
    <3>1. cmd \in NeedWhole => Guarded(Tail(steps), walk)
      BY <1>1, <1>2, AfterTheStep
    <3> QED
      BY <1>1, <1>2, <3>1, RestIsGood
  <2>2. CliTyped'
    BY <1>1, <1>2, <1>4 DEF CliTyped
  <2>3. sent > 0 => NoRefusal(Tail(steps))
    BY <1>1, <1>2, AfterTheStep DEF CliInv
  <2>4. sent > 0 /\ cmd \in NeedWhole => walk = "whole" /\ NoWalk(Tail(steps))
    BY <1>1, <1>2, AfterTheStep DEF CliInv
  <2> QED
    BY <1>1, <1>2, <1>3, <1>4, <2>1, <2>2, <2>3, <2>4 DEF CliInv
<1>5. CASE steps' = <<>> /\ exit' = 1
  <2>2. CliTyped'
    BY <1>1, <1>2, <1>5 DEF CliTyped
  <2> QED
    BY <1>1, <1>2, <1>5, <2>2, NothingLeft DEF CliInv
<1> QED
  BY <1>4, <1>5 DEF ReadStep, Next1, Fails

LEMMA WalkKeeps == CliInv /\ WalkStep => CliInv'
<1> SUFFICES ASSUME CliInv, WalkStep PROVE CliInv'
  OBVIOUS
<1>1. /\ exit = Running /\ left = 0 /\ steps # <<>> /\ Head(steps) = "walk"
      /\ UNCHANGED <<cmd, left, sent, missed, refused>>
  BY DEF WalkStep, At
<1>2. CliTyped /\ Good(cmd, steps, walk) /\ sent \in Nat /\ missed \in Nat /\ (refused => cmd \in RefusesLate)
  BY <1>1, CommandConstants DEF CliInv, CliTyped
<1>3. cmd \notin Lenient => missed = 0
  BY <1>1, <1>2, CommandConstants DEF CliInv
<1>4. CASE steps' = Tail(steps) /\ UNCHANGED exit /\ walk' \in {"whole", "cut"}
  <2>1. Good(cmd, Tail(steps), walk')
    <3>1. cmd \in NeedWhole => Guarded(Tail(steps), walk')
      BY <1>1, <1>2, <1>4, AfterTheStep
    <3> QED
      BY <1>1, <1>2, <3>1, RestIsGood
  <2>2. CliTyped'
    BY <1>1, <1>2, <1>4 DEF CliTyped
  <2>3. sent > 0 => NoRefusal(Tail(steps))
    BY <1>1, <1>2, AfterTheStep DEF CliInv
  <2>4. sent > 0 => cmd \notin NeedWhole
    BY <1>1, <1>2, AfterTheStep DEF CliInv
  <2> QED
    BY <1>1, <1>2, <1>3, <1>4, <2>1, <2>2, <2>3, <2>4 DEF CliInv
<1>5. CASE steps' = <<>> /\ exit' = 1 /\ UNCHANGED walk
  <2>2. CliTyped'
    BY <1>1, <1>2, <1>5 DEF CliTyped
  <2> QED
    BY <1>1, <1>2, <1>5, <2>2, NothingLeft DEF CliInv
<1> QED
  BY <1>4, <1>5 DEF WalkStep, Next1, Fails

LEMMA OpenKeeps == CliInv /\ Open => CliInv'
<1> SUFFICES ASSUME CliInv, Open PROVE CliInv'
  OBVIOUS
<1>1. /\ exit = Running /\ left = 0 /\ steps # <<>>
      /\ Head(steps) \in {"write", "try", "all", "halt", "stop", "turn", "each"}
      /\ UNCHANGED <<cmd, walk, sent, missed, refused, exit>>
  BY DEF Open, At
<1>2. CliTyped /\ Good(cmd, steps, walk) /\ sent \in Nat /\ missed \in Nat /\ (refused => cmd \in RefusesLate)
  BY <1>1, CommandConstants DEF CliInv, CliTyped
<1>3. cmd \notin Lenient => missed = 0
  BY <1>1, <1>2, CommandConstants DEF CliInv
<1>4. Head(steps) \in Writing
  BY <1>1 DEF Writing
<1>5. CASE left' \in (IF Head(steps) \in {"write", "try"} THEN {1} ELSE 1 .. MaxWrites)
           /\ UNCHANGED steps
  <2>1. left' \in Nat
    BY <1>5, CommandConstants
  <2>2. CliTyped'
    BY <1>1, <1>2, <1>4, <1>5, <2>1 DEF CliTyped
  <2> QED
    BY <1>1, <1>2, <1>3, <1>5, <2>2 DEF CliInv
<1>6. CASE Next1 /\ UNCHANGED left
  <2>1. Good(cmd, Tail(steps), walk)
    <3>1. "walk" \notin Writing /\ "whole" \notin Writing
      BY DEF Writing
    <3>2. cmd \in NeedWhole => Guarded(Tail(steps), walk)
      BY <1>1, <1>2, <1>4, <3>1, AfterTheStep
    <3> QED
      BY <1>1, <1>2, <3>2, RestIsGood
  <2>2. CliTyped'
    BY <1>1, <1>2, <1>6 DEF CliTyped
  <2>3. sent > 0 => NoRefusal(Tail(steps))
    BY <1>1, <1>2, AfterTheStep DEF CliInv
  <2>4. sent > 0 /\ cmd \in NeedWhole => walk = "whole" /\ NoWalk(Tail(steps))
    BY <1>1, <1>2, AfterTheStep DEF CliInv
  <2> QED
    BY <1>1, <1>2, <1>3, <1>6, <2>1, <2>2, <2>3, <2>4 DEF CliInv, Next1
<1> QED
  BY <1>5, <1>6 DEF Open

\* What a write that is under way says of the steps.
LEMMA WhileWriting ==
  ASSUME CliInv, exit = Running, left > 0
  PROVE  /\ CliTyped /\ Good(cmd, steps, walk) /\ (refused => cmd \in RefusesLate) /\ steps # <<>>
         /\ Head(steps) \in Writing /\ (cmd \notin Lenient => missed = 0)
         /\ Fits(cmd, Head(steps))
         /\ Good(cmd, Tail(steps), walk) /\ NoRefusal(Tail(steps)) /\ NoRefusal(steps)
         /\ cmd \in NeedWhole => walk = "whole" /\ NoWalk(steps) /\ NoWalk(Tail(steps))
<1>1. CliTyped /\ Good(cmd, steps, walk) /\ sent \in Nat /\ missed \in Nat /\ (refused => cmd \in RefusesLate)
      /\ steps # <<>> /\ Head(steps) \in Writing
  BY CommandConstants DEF CliInv, CliTyped
<1>2. cmd \notin Lenient => missed = 0
  BY <1>1, CommandConstants DEF CliInv
<1>3. "walk" \notin Writing /\ "whole" \notin Writing /\ \A x \in Writing : x \notin Refusing
  BY DEF Writing, Refusing
<1>4. Good(cmd, Tail(steps), walk)
  <2>1. cmd \in NeedWhole => Guarded(Tail(steps), walk)
    BY <1>1, <1>3, AfterTheStep
  <2> QED
    BY <1>1, <2>1, RestIsGood
<1>5. NoRefusal(Tail(steps)) /\ (cmd \in NeedWhole => walk = "whole" /\ NoWalk(steps))
      /\ Fits(cmd, Head(steps))
  BY <1>1, AfterTheStep
<1>6. NoRefusal(steps)
  <2>1. /\ Tail(steps) \in Seq(Steps) /\ Len(Tail(steps)) = Len(steps) - 1 /\ steps \in Seq(Steps)
        /\ \A i \in 1..Len(Tail(steps)) : Tail(steps)[i] = steps[i + 1]
        /\ Head(steps) = steps[1] /\ Len(steps) \in Nat
    BY <1>1, HeadTailProperties, LenProperties DEF Good
  <2> DEFINE r == Tail(steps)
             h == Head(steps)
  <2>2. DOMAIN steps = 1..Len(steps) /\ DOMAIN r = 1..Len(r)
    BY <2>1, LenProperties
  <2> HIDE DEF r, h
  <2>3. /\ Len(r) = Len(steps) - 1 /\ h = steps[1] /\ Len(steps) \in Nat
        /\ \A i \in 1..Len(r) : r[i] = steps[i + 1]
    BY <2>1 DEF r, h
  <2>4. ASSUME NEW i \in 1..Len(steps), i # 1 PROVE i - 1 \in 1..Len(r) /\ steps[i] = r[i - 1]
    BY <2>3, <2>4
  <2>5. h \notin Refusing /\ NoRefusal(r)
    BY <1>1, <1>3, <1>5 DEF h, r
  <2> QED
    BY <2>2, <2>3, <2>4, <2>5 DEF NoRefusal
<1>7. cmd \in NeedWhole => NoWalk(Tail(steps))
  BY <1>1, <1>5, AfterTheStep
<1> QED
  BY <1>1, <1>2, <1>4, <1>5, <1>6, <1>7

LEMMA RefuseTurnKeeps == CliInv /\ RefuseTurn => CliInv'
<1> SUFFICES ASSUME CliInv, RefuseTurn PROVE CliInv'
  OBVIOUS
<1>1. /\ exit = Running /\ steps # <<>> /\ Head(steps) = "turn" /\ steps' = Tail(steps)
      /\ left' = 0 /\ refused' = TRUE /\ UNCHANGED <<cmd, walk, sent, missed, exit>>
  BY DEF RefuseTurn, Next1
<1>2. CliTyped /\ Good(cmd, steps, walk) /\ sent \in Nat /\ missed \in Nat
  BY DEF CliInv, CliTyped
<1>3. cmd \notin Lenient => missed = 0
  BY <1>1, <1>2, CommandConstants DEF CliInv
<1>4. "turn" \in Writing /\ "turn" \notin {"walk", "whole"}
  BY DEF Writing
<1>5. cmd \in RefusesLate
  BY <1>1, <1>2, AfterTheStep DEF Fits
<1>6. Good(cmd, Tail(steps), walk)
  <2>1. cmd \in NeedWhole => Guarded(Tail(steps), walk)
    BY <1>1, <1>2, <1>4, AfterTheStep
  <2> QED
    BY <1>1, <1>2, <2>1, RestIsGood
<1>7. /\ NoRefusal(Tail(steps))
      /\ cmd \in NeedWhole => walk = "whole" /\ NoWalk(Tail(steps))
  BY <1>1, <1>2, <1>4, AfterTheStep
<1>8. CliTyped'
  BY <1>1, <1>2 DEF CliTyped
<1> QED
  BY <1>1, <1>2, <1>3, <1>5, <1>6, <1>7, <1>8 DEF CliInv

LEMMA AcknowledgedKeeps == CliInv /\ Acknowledged => CliInv'
<1> SUFFICES ASSUME CliInv, Acknowledged PROVE CliInv'
  OBVIOUS
<1>1. /\ exit = Running /\ left > 0 /\ left' = left - 1 /\ sent' = sent + 1
      /\ UNCHANGED <<cmd, walk, missed, refused, exit>>
  BY DEF Acknowledged
<1>2. left \in Nat /\ sent \in Nat /\ left' \in Nat /\ sent' \in Nat
  BY <1>1 DEF CliInv, CliTyped
<1>3. (left = 1 /\ steps' = Tail(steps)) \/ (left # 1 /\ UNCHANGED steps)
  BY DEF Acknowledged, Next1
<1>4. /\ Good(cmd, steps', walk) /\ NoRefusal(steps')
      /\ cmd \in NeedWhole => walk = "whole" /\ NoWalk(steps')
  BY <1>1, <1>3, WhileWriting
<1>5. CliTyped'
  <2>1. left' > 0 => steps' = steps
    BY <1>1, <1>2, <1>3
  <2> QED
    BY <1>1, <1>2, <2>1, WhileWriting DEF CliTyped
<1> QED
  BY <1>1, <1>4, <1>5, WhileWriting DEF CliInv

LEMMA UnacknowledgedKeeps == CliInv /\ Unacknowledged => CliInv'
<1> SUFFICES ASSUME CliInv, Unacknowledged PROVE CliInv'
  OBVIOUS
<1>1. /\ exit = Running /\ left > 0 /\ sent' = sent + 1 /\ missed' = missed + 1
      /\ UNCHANGED <<cmd, walk, refused>>
  BY DEF Unacknowledged
<1>2. left \in Nat /\ sent \in Nat /\ missed \in Nat /\ sent' \in Nat /\ missed' \in Nat
  BY <1>1 DEF CliInv, CliTyped
<1>3. \/ steps' = <<>> /\ exit' = 1 /\ left' = 0
      \/ cmd \in Lenient /\ steps' = Tail(steps) /\ left' = 0 /\ UNCHANGED exit
      \/ cmd \in Lenient /\ left' = left - 1 /\ UNCHANGED <<exit, steps>>
  BY <1>1, <1>2, WhileWriting DEF Unacknowledged, AfterFailure, Fails, Counts, Next1, Fits, Forgiving
<1>4. /\ Good(cmd, steps', walk) /\ NoRefusal(steps')
      /\ cmd \in NeedWhole => walk = "whole" /\ NoWalk(steps')
  BY <1>1, <1>3, WhileWriting, NothingLeft
<1>5. CliTyped'
  <2>1. left' \in Nat /\ exit' \in {Running, 0, 1} /\ (left' > 0 => steps' = steps)
    BY <1>1, <1>2, <1>3
  <2> QED
    BY <1>1, <1>2, <2>1, WhileWriting DEF CliTyped
<1>6. cmd \notin Lenient => exit' = 1
  BY <1>3
<1> QED
  BY <1>1, <1>4, <1>5, <1>6, WhileWriting DEF CliInv

LEMMA SucceedKeeps == CliInv /\ Succeed => CliInv'
<1> SUFFICES ASSUME CliInv, Succeed PROVE CliInv'
  OBVIOUS
<1>1. exit = Running /\ exit' = 0 /\ UNCHANGED <<cmd, steps, walk, left, sent, missed, refused>>
  BY DEF Succeed
<1>2. (refused => cmd \in RefusesLate) /\ ~(cmd \notin Lenient /\ missed > 0)
  BY <1>1, CommandConstants DEF CliInv
<1>3. CliTyped'
  BY <1>1 DEF CliInv, CliTyped
<1> QED
  BY <1>1, <1>2, <1>3 DEF CliInv

LEMMA CliStep == CliInv /\ [CliNext]_cliVars => CliInv'
<1> SUFFICES ASSUME CliInv, [CliNext]_cliVars PROVE CliInv'
  OBVIOUS
<1>1. CASE UNCHANGED cliVars
  <2>1. UNCHANGED <<cmd, steps, walk, left, sent, missed, refused, exit>>
    BY <1>1 DEF cliVars
  <2>2. CliTyped'
    BY <2>1 DEF CliInv, CliTyped
  <2> QED
    BY <2>1, <2>2 DEF CliInv
<1> QED
  BY <1>1, JudgeStep, DemandStep, ReadKeeps, WalkKeeps, OpenKeeps, RefuseTurnKeeps, AcknowledgedKeeps,
     UnacknowledgedKeeps, SucceedKeeps DEF CliNext

(* A command that exits 0, and is not one of those that print how many of    *)
(* their writes failed, has had every write acknowledged (the handlers of    *)
(* bin/wflow_do.rs).                                                         *)
THEOREM ExitStatusIsTrue == CliSpec => []ExitZeroMeansDone
<1>1. CliInv => ExitZeroMeansDone
  BY CommandConstants DEF CliInv, CliTyped, ExitZeroMeansDone
<1> QED
  BY <1>1, CliInitial, CliStep, PTL DEF CliSpec

(* What a command other than a transaction refuses it refuses before its     *)
(* first write, and what copies or deletes a subtree has seen the whole of   *)
(* it (require_complete_scope).                                              *)
THEOREM NothingIsHalfRefused == CliSpec => []RefusalsComeFirst
<1>1. CliInv => RefusalsComeFirst
  BY DEF CliInv, RefusalsComeFirst
<1> QED
  BY <1>1, CliInitial, CliStep, PTL DEF CliSpec

-----------------------------------------------------------------------------
(* Chains of parents.                                                        *)

\* A record of parents, upstream's or the index's.
Parentage == [Points -> Points \cup {Base, Away}]
Links(f) == [m \in Points |-> {f[m]} \cap Points]

LEMMA UpClosed ==
  ASSUME NEW f, NEW n \in Points
  PROVE  /\ Up(f, n) \subseteq Points
         /\ f[n] \in Points => f[n] \in Up(f, n)
         /\ \A m \in Up(f, n) : f[m] \in Points => f[m] \in Up(f, n)
<1> DEFINE next == Links(f)
           A == {f[n]} \cap Points
<1>1. DOMAIN next = Points /\ \A m \in Points : next[m] = {f[m]} \cap Points
  BY DEF Links
<1>2. Up(f, n) = Reached(next, A)
  BY DEF Up, Links
<1>3. A \in SUBSET Points /\ \A m \in Points : next[m] \subseteq Points
  BY <1>1
<1> HIDE DEF next, A
<1>4. /\ A \subseteq Reached(next, A) /\ Reached(next, A) \subseteq Points
      /\ \A m \in Reached(next, A) : next[m] \subseteq Reached(next, A)
  BY <1>1, <1>3, ReachedClosed, AncestryConstants
<1>5. A \subseteq Up(f, n) /\ Up(f, n) \subseteq Points /\ \A m \in Up(f, n) : next[m] \subseteq Up(f, n)
  BY <1>2, <1>4
<1> QED
  BY <1>1, <1>5 DEF A

LEMMA UpLeast ==
  ASSUME NEW f, NEW n \in Points, NEW S, f[n] \in Points => f[n] \in S,
         \A m \in S \cap Points : f[m] \in Points => f[m] \in S
  PROVE  Up(f, n) \subseteq S
<1> DEFINE next == Links(f)
           A == {f[n]} \cap Points
<1>1. DOMAIN next = Points /\ \A m \in Points : next[m] = {f[m]} \cap Points
  BY DEF Links
<1>2. Up(f, n) = Reached(next, A)
  BY DEF Up, Links
<1>3. /\ A \in SUBSET Points /\ \A m \in Points : next[m] \subseteq Points
      /\ A \subseteq S /\ \A m \in S \cap Points : next[m] \subseteq S
  BY <1>1
<1> HIDE DEF next, A
<1>4. Reached(next, A) \subseteq S
  BY <1>1, <1>3, ReachedLeast, AncestryConstants
<1> QED
  BY <1>2, <1>4

\* Above a node are its parent and what is above that.
LEMMA UpStep ==
  ASSUME NEW f, NEW n \in Points, f[n] \in Points
  PROVE  Up(f, n) = {f[n]} \cup Up(f, f[n])
<1> DEFINE p == f[n]
<1>1. Up(f, n) \subseteq {p} \cup Up(f, p)
  <2> DEFINE S == {p} \cup Up(f, p)
  <2>1. \A m \in S \cap Points : f[m] \in Points => f[m] \in S
    BY UpClosed
  <2>2. f[n] \in S
    OBVIOUS
  <2> HIDE DEF S
  <2>3. Up(f, n) \subseteq S
    BY <2>1, <2>2, UpLeast
  <2> QED
    BY <2>3 DEF S
<1>2. Up(f, p) \subseteq Up(f, n)
  <2>1. p \in Up(f, n) /\ \A m \in Up(f, n) : f[m] \in Points => f[m] \in Up(f, n)
    BY UpClosed
  <2> QED
    BY <2>1, UpLeast
<1>3. p \in Up(f, n)
  BY UpClosed
<1> QED
  BY <1>1, <1>2, <1>3

LEMMA UpTop ==
  ASSUME NEW f, NEW n \in Points, f[n] \notin Points
  PROVE  Up(f, n) = {}
<1> DEFINE S == {}
<1>1. \A m \in S \cap Points : f[m] \in Points => f[m] \in S
  OBVIOUS
<1> HIDE DEF S
<1>2. Up(f, n) \subseteq S
  BY <1>1, UpLeast
<1> QED
  BY <1>2 DEF S

\* What is above what is above.
LEMMA UpTrans ==
  ASSUME NEW f, NEW n \in Points, NEW m \in Up(f, n)
  PROVE  m \in Points /\ Up(f, m) \subseteq Up(f, n)
<1>1. /\ Up(f, n) \subseteq Points
      /\ \A x \in Up(f, n) : f[x] \in Points => f[x] \in Up(f, n)
  BY UpClosed
<1> QED
  BY <1>1, UpLeast

-----------------------------------------------------------------------------
(* Exclusion.                                                                *)

Chained(f) == {n \in Held(f) : ({n} \cup Up(f, n)) \cap Tokens # {}}

LEMMA ExcludedClosed ==
  ASSUME NEW f
  PROVE  /\ Seeds(f) \subseteq ExcludedIds(f)
         /\ ExcludedIds(f) \subseteq Points
         /\ \A m \in ExcludedIds(f) : \A n \in Held(f) : f[n] = m => n \in ExcludedIds(f)
<1> DEFINE next == [m \in Points |-> {n \in Held(f) : f[n] = m}]
<1>1. DOMAIN next = Points /\ \A m \in Points : next[m] = {n \in Held(f) : f[n] = m}
  OBVIOUS
<1>2. ExcludedIds(f) = Reached(next, Seeds(f))
  BY DEF ExcludedIds
<1>3. Seeds(f) \in SUBSET Points /\ \A m \in Points : next[m] \subseteq Points
  BY <1>1 DEF Seeds, Held
<1> HIDE DEF next
<1> DEFINE E == Reached(next, Seeds(f))
<1>4. Seeds(f) \subseteq E /\ E \subseteq Points /\ \A m \in E : next[m] \subseteq E
  BY <1>1, <1>3, ReachedClosed, AncestryConstants
<1> HIDE DEF E
<1>5. \A m \in E : \A n \in Held(f) : f[n] = m => n \in E
  BY <1>1, <1>4
<1> QED
  BY <1>2, <1>4, <1>5 DEF E

LEMMA ExcludedLeast ==
  ASSUME NEW f, NEW S, Seeds(f) \subseteq S,
         \A m \in S \cap Points : \A n \in Held(f) : f[n] = m => n \in S
  PROVE  ExcludedIds(f) \subseteq S
<1> DEFINE next == [m \in Points |-> {n \in Held(f) : f[n] = m}]
<1>1. DOMAIN next = Points /\ \A m \in Points : next[m] = {n \in Held(f) : f[n] = m}
  OBVIOUS
<1>2. ExcludedIds(f) = Reached(next, Seeds(f))
  BY DEF ExcludedIds
<1>3. /\ Seeds(f) \in SUBSET Points /\ \A m \in Points : next[m] \subseteq Points
      /\ \A m \in S \cap Points : next[m] \subseteq S
  BY <1>1 DEF Seeds, Held
<1> HIDE DEF next
<1>4. Reached(next, Seeds(f)) \subseteq S
  BY <1>1, <1>3, ReachedLeast, AncestryConstants
<1> QED
  BY <1>2, <1>4

LEMMA ExclusionIsChains ==
  ASSUME NEW f \in Parentage
  PROVE  ExcludedIds(f) = Chained(f)
<1>1. Seeds(f) \subseteq Chained(f)
  <2>1. ASSUME NEW n \in Seeds(f) PROVE n \in Chained(f)
    <3>1. n \in Held(f) /\ n \in Points /\ (n \in Tokens \/ f[n] \in Tokens)
      BY DEF Seeds, Held
    <3>2. f[n] \in Tokens => f[n] \in Up(f, n)
      BY <3>1, UpClosed, AncestryConstants
    <3> QED
      BY <3>1, <3>2 DEF Chained
  <2> QED
    BY <2>1
<1>2. ASSUME NEW m \in Chained(f) \cap Points, NEW n \in Held(f), f[n] = m PROVE n \in Chained(f)
  <2>1. Up(f, n) = {m} \cup Up(f, m)
    BY <1>2, UpStep DEF Held
  <2> QED
    BY <2>1 DEF Chained
<1>3. ASSUME NEW n \in Chained(f), n \notin ExcludedIds(f) PROVE FALSE
  <2> DEFINE S == {m \in Points : m \notin Tokens /\ (m \in Held(f) => m \notin ExcludedIds(f))}
  <2>1. ASSUME NEW m \in Held(f), m \notin ExcludedIds(f), f[m] \in Points PROVE f[m] \in S
    <3>1. f[m] \notin Tokens
      BY <2>1, ExcludedClosed DEF Seeds
    <3>2. f[m] \notin ExcludedIds(f)
      BY <2>1, ExcludedClosed
    <3> QED
      BY <2>1, <3>1, <3>2
  <2>2. n \in Held(f) /\ n \in Points /\ n \notin Tokens
    <3>1. n \in Tokens => n \in Seeds(f)
      BY DEF Chained, Seeds
    <3> QED
      BY <1>3, <3>1, ExcludedClosed DEF Chained, Held
  <2>3. \A m \in S : f[m] \in Points => m \in Held(f)
    BY AncestryConstants DEF Held
  <2>4. \A m \in S \cap Points : f[m] \in Points => f[m] \in S
    BY <2>1, <2>3
  <2>5. f[n] \in Points => f[n] \in S
    BY <1>3, <2>1, <2>2
  <2> HIDE DEF S
  <2>6. Up(f, n) \subseteq S
    BY <2>2, <2>4, <2>5, UpLeast
  <2> QED
    BY <2>2, <2>6 DEF Chained, S
<1>4. ExcludedIds(f) \subseteq Chained(f)
  BY <1>1, <1>2, ExcludedLeast
<1> QED
  BY <1>3, <1>4

LEMMA AncestryTypeStep == AncestryTypeOK /\ [AncestryNext]_ancestryVars => AncestryTypeOK'
<1> SUFFICES ASSUME AncestryTypeOK, [AncestryNext]_ancestryVars PROVE AncestryTypeOK'
  OBVIOUS
<1>1. CASE UNCHANGED ancestryVars
  BY <1>1 DEF ancestryVars, AncestryTypeOK
<1>2. ASSUME NEW n \in Points, NEW p \in Points \cup {Base}, Rehang(n, p) PROVE AncestryTypeOK'
  BY <1>2 DEF Rehang, AncestryTypeOK
<1>3. ASSUME NEW n \in Points, Note(n) PROVE AncestryTypeOK'
  BY <1>3 DEF Note, AncestryTypeOK
<1>4. ASSUME NEW n \in Points, Unnote(n) PROVE AncestryTypeOK'
  BY <1>4 DEF Unnote, AncestryTypeOK
<1> QED
  BY <1>1, <1>2, <1>3, <1>4 DEF AncestryNext

(* What is kept out of the index's file is what lies, by the parents it      *)
(* recorded, at or under an excluded root (excluded_ids of name_index.rs).   *)
THEOREM ExclusionAlwaysFollows == AncestrySpec => []ExclusionFollowsChains
<1>1. AncestryInit => AncestryTypeOK
  BY DEF AncestryInit, AncestryTypeOK
<1>2. AncestryTypeOK => ExclusionFollowsChains
  <2> SUFFICES ASSUME AncestryTypeOK PROVE ExclusionFollowsChains
    OBVIOUS
  <2>1. ExcludedIds(noted) = Chained(noted)
    BY ExclusionIsChains DEF AncestryTypeOK, Parentage
  <2> QED
    BY <2>1 DEF ExclusionFollowsChains, Chained
<1> QED
  BY <1>1, <1>2, AncestryTypeStep, PTL DEF AncestrySpec

-----------------------------------------------------------------------------
(* Paths.                                                                    *)

\* Up from n, from held parent to held parent.
Chain(f, n, s) ==
  /\ s \in Seq(Points) /\ s # <<>> /\ s[1] = n
  /\ \A i \in 1..Len(s) : s[i] \in Held(f)
  /\ \A i \in 1..(Len(s) - 1) : s[i + 1] = f[s[i]]

Top(f, s) == f[s[Len(s)]]

LEMMA ChainStarts ==
  ASSUME NEW f, NEW n \in Held(f)
  PROVE  Chain(f, n, <<n>>)
BY DEF Chain, Held

LEMMA ChainLen ==
  ASSUME NEW f, NEW n, NEW s, Chain(f, n, s)
  PROVE  Len(s) \in Nat /\ Len(s) >= 1 /\ s[Len(s)] \in Points
<1>1. s \in Seq(Points) /\ s # <<>>
  BY DEF Chain
<1>2. Len(s) \in Nat /\ Len(s) # 0
  BY <1>1, LenProperties, EmptySeq
<1> QED
  BY <1>1, <1>2, ElementOfSeq

LEMMA ChainGrows ==
  ASSUME NEW f, NEW n, NEW s, Chain(f, n, s), Top(f, s) \in Held(f)
  PROVE  Chain(f, n, Append(s, Top(f, s))) /\ Len(Append(s, Top(f, s))) = Len(s) + 1
<1> DEFINE p == Top(f, s)
           r == Append(s, p)
           k == Len(s)
<1>1. k \in Nat /\ k >= 1
  BY ChainLen
<1>2. /\ s \in Seq(Points) /\ s[1] = n /\ (\A i \in 1..k : s[i] \in Held(f))
      /\ \A i \in 1..(k - 1) : s[i + 1] = f[s[i]]
  BY DEF Chain
<1>3. p \in Points
  BY DEF Held
<1>4. /\ r \in Seq(Points) /\ Len(r) = k + 1 /\ r[k + 1] = p
      /\ \A i \in 1..k : r[i] = s[i]
  BY <1>2, <1>3, AppendProperties
<1>5. p = f[s[k]]
  BY DEF Top
<1> HIDE DEF p, r, k
<1>6. r # <<>> /\ r[1] = n
  <2>1. 1 \in 1..k
    BY <1>1
  <2>2. Len(r) # 0
    BY <1>1, <1>4
  <2> QED
    BY <1>2, <1>4, <2>1, <2>2, EmptySeq
<1>7. ASSUME NEW i \in 1..(k + 1) PROVE r[i] \in Held(f)
  <2>1. i \in 1..k \/ i = k + 1
    BY <1>1
  <2> QED
    BY <1>2, <1>4, <2>1 DEF p
<1>8. ASSUME NEW i \in 1..((k + 1) - 1) PROVE r[i + 1] = f[r[i]]
  <2>1. i \in 1..k /\ (i = k \/ (i \in 1..(k - 1) /\ i + 1 \in 1..k))
    BY <1>1
  <2> QED
    BY <1>2, <1>4, <1>5, <2>1
<1>9. Chain(f, n, r) /\ Len(r) = k + 1
  BY <1>4, <1>6, <1>7, <1>8 DEF Chain
<1> QED
  BY <1>9 DEF r, p, k

\* The path of the index goes up until a parent is not held or the cap is met.
LEMMA IndexChain ==
  ASSUME NEW f, NEW n \in Held(f)
  PROVE  \E s : /\ Chain(f, n, s) /\ Len(s) <= HopCap + 1
                /\ Len(s) <= HopCap => Top(f, s) \notin Held(f)
                /\ IndexPath(f, n) = Reverse(s)
<1> DEFINE Q == Seq(Points)
           More(k, s) == IF Len(s) = k /\ f[Last(s)] \in Held(f) THEN Append(s, f[Last(s)]) ELSE s
           Rec(u) == [k \in 0..HopCap |-> IF k = 0 THEN <<n>> ELSE More(k, u[k - 1])]
           c == CHOOSE u : u = Rec(u)
           g == [p \in Nat \X Q |-> More(p[1], p[2])]
<1>0. HopCap \in Nat /\ n \in Points /\ <<n>> \in Q /\ Held(f) \subseteq Points
  BY AncestryConstants DEF Held
<1>1. g \in [Nat \X Q -> Q]
  <2>1. ASSUME NEW p \in Nat \X Q PROVE More(p[1], p[2]) \in Q
    <3>1. p[2] \in Q
      OBVIOUS
    <3>2. f[Last(p[2])] \in Held(f) => Append(p[2], f[Last(p[2])]) \in Q
      BY <1>0, <3>1, AppendProperties
    <3> QED
      BY <3>1, <3>2
  <2> HIDE DEF More, Q
  <2> QED
    BY <2>1
<1>2. PICK h : Obeys(h, Q, <<n>>, g, HopCap)
  <2> HIDE DEF Q, g
  <2> QED
    BY <1>0, <1>1, RecursionExists
<1> HIDE DEF More
<1>3. h = Rec(h)
  <2>1. ASSUME NEW k \in 0..HopCap PROVE h[k] = IF k = 0 THEN <<n>> ELSE More(k, h[k - 1])
    <3>1. CASE k = 0
      BY <1>2, <3>1 DEF Obeys
    <3>2. CASE k # 0
      <4>1. k \in 1..HopCap /\ k - 1 \in 0..HopCap /\ k \in Nat
        BY <1>0, <3>2
      <4>2. h[k] = g[<<k, h[k - 1]>>] /\ h[k - 1] \in Q
        BY <1>2, <4>1 DEF Obeys
      <4>3. <<k, h[k - 1]>> \in Nat \X Q /\ <<k, h[k - 1]>>[1] = k /\ <<k, h[k - 1]>>[2] = h[k - 1]
        BY <4>1, <4>2
      <4> QED
        BY <3>2, <4>2, <4>3
    <3> QED
      BY <3>1, <3>2
  <2> QED
    BY <1>2, <2>1 DEF Obeys
<1>4. c = Rec(c)
  <2> HIDE DEF Rec
  <2> QED
    BY <1>3
<1>5. IndexPath(f, n) = Reverse(c[HopCap])
  BY DEF IndexPath, More
<1> HIDE DEF c
<1>6. c[0] = <<n>> /\ \A k \in 1..HopCap : c[k] = More(k, c[k - 1])
  <2> DEFINE d == Rec(c)
  <2>1. d[0] = <<n>> /\ \A k \in 1..HopCap : d[k] = More(k, c[k - 1])
    BY <1>0
  <2> HIDE DEF d
  <2>2. c = d
    BY <1>4 DEF d
  <2> QED
    BY <2>1, <2>2
<1> DEFINE Fine(k, s) == /\ Chain(f, n, s) /\ Len(s) <= k + 1
                         /\ Len(s) <= k => Top(f, s) \notin Held(f)
           T == {k \in Nat : Fine(k, c[k])}
<1>7. 0 \in T
  <2>1. Fine(0, <<n>>)
    BY ChainStarts
  <2> HIDE DEF Fine
  <2> QED
    BY <1>6, <2>1
<1>8. ASSUME NEW i \in 0..(HopCap - 1), i \in T PROVE i + 1 \in T
  <2>1. i + 1 \in 1..HopCap /\ (i + 1) - 1 = i /\ i \in Nat /\ i + 1 \in Nat
    BY <1>0
  <2>2. c[i + 1] = More(i + 1, c[i])
    BY <1>6, <2>1
  <2> DEFINE s == c[i]
  <2>3. Fine(i, s)
    BY <1>8
  <2>4. c[i + 1] = IF Len(s) = i + 1 /\ Top(f, s) \in Held(f) THEN Append(s, Top(f, s)) ELSE s
    BY <2>2 DEF More, Last, Top
  <2> HIDE DEF s
  <2>5. Len(s) \in Nat
    BY <2>3, ChainLen
  <2>6. CASE Len(s) = i + 1 /\ Top(f, s) \in Held(f)
    <3>1. Chain(f, n, Append(s, Top(f, s))) /\ Len(Append(s, Top(f, s))) = Len(s) + 1
      BY <2>3, <2>6, ChainGrows
    <3>2. Fine(i + 1, Append(s, Top(f, s)))
      BY <2>1, <2>6, <3>1
    <3> HIDE DEF Fine
    <3> QED
      BY <2>1, <2>4, <2>6, <3>2
  <2>7. CASE ~(Len(s) = i + 1 /\ Top(f, s) \in Held(f))
    <3>1. Len(s) <= i + 1 /\ (Len(s) <= i + 1 => Top(f, s) \notin Held(f))
      BY <2>1, <2>3, <2>5, <2>7
    <3>2. Fine(i + 1, s)
      BY <2>1, <2>3, <2>5, <3>1
    <3> QED
      BY <2>1, <2>4, <2>7, <3>2
  <2> QED
    BY <2>6, <2>7
<1>9. HopCap \in T
  <2> HIDE DEF T
  <2>1. \A i \in 0..HopCap : i \in T
    BY <1>0, <1>7, <1>8, Inductive
  <2> QED
    BY <1>0, <2>1
<1> QED
  BY <1>5, <1>9

\* The path of a walk goes up until a parent is not held or was met before.
LEMMA WalkChain ==
  ASSUME NEW f, NEW n \in Held(f)
  PROVE  \E s : /\ Chain(f, n, s) /\ Distinct(s)
                /\ Top(f, s) \notin Held(f) \/ Top(f, s) \in ToSet(s)
                /\ NodePath(f, n) = Reverse(s)
<1> DEFINE Q == Seq(Points)
           N == Cardinality(Points)
           Hop(s) == IF s = <<>> THEN n ELSE f[Last(s)]
           More(s) == IF Hop(s) \in Held(f) /\ ~Contains(s, Hop(s)) THEN Append(s, Hop(s)) ELSE s
           Rec(u) == [k \in 0..N |-> IF k = 0 THEN <<>> ELSE More(u[k - 1])]
           c == CHOOSE u : u = Rec(u)
           g == [p \in Nat \X Q |-> More(p[2])]
<1>0. /\ N \in Nat /\ n \in Points /\ <<>> \in Q /\ Held(f) \subseteq Points
      /\ IsFiniteSet(Points) /\ N # 0
  BY AncestryConstants, FS_CardinalityType, FS_EmptySet DEF Held
<1>1. g \in [Nat \X Q -> Q]
  <2>1. ASSUME NEW p \in Nat \X Q PROVE More(p[2]) \in Q
    <3>1. p[2] \in Q
      OBVIOUS
    <3> HIDE DEF Hop
    <3>2. Hop(p[2]) \in Held(f) => Append(p[2], Hop(p[2])) \in Q
      BY <1>0, <3>1, AppendProperties
    <3> QED
      BY <3>1, <3>2
  <2> HIDE DEF More, Q
  <2> QED
    BY <2>1
<1> HIDE DEF N
<1>2. PICK h : Obeys(h, Q, <<>>, g, N)
  <2> HIDE DEF Q, g
  <2> QED
    BY <1>0, <1>1, RecursionExists
<1> HIDE DEF More
<1>3. h = Rec(h)
  <2>1. ASSUME NEW k \in 0..N PROVE h[k] = IF k = 0 THEN <<>> ELSE More(h[k - 1])
    <3>1. CASE k = 0
      BY <1>2, <3>1 DEF Obeys
    <3>2. CASE k # 0
      <4>1. k \in 1..N /\ k - 1 \in 0..N /\ k \in Nat
        BY <1>0, <3>2
      <4>2. h[k] = g[<<k, h[k - 1]>>] /\ h[k - 1] \in Q
        BY <1>2, <4>1 DEF Obeys
      <4>3. <<k, h[k - 1]>> \in Nat \X Q /\ <<k, h[k - 1]>>[2] = h[k - 1]
        BY <4>1, <4>2
      <4> QED
        BY <3>2, <4>2, <4>3
    <3> QED
      BY <3>1, <3>2
  <2> QED
    BY <1>2, <2>1 DEF Obeys
<1>4. c = Rec(c)
  <2> HIDE DEF Rec
  <2> QED
    BY <1>3
<1>5. NodePath(f, n) = Reverse(c[N])
  BY Zenon DEF NodePath, More, N
<1> HIDE DEF c
<1>6. c[0] = <<>> /\ \A k \in 1..N : c[k] = More(c[k - 1])
  <2> DEFINE d == Rec(c)
  <2>1. d[0] = <<>> /\ \A k \in 1..N : d[k] = More(c[k - 1])
    BY <1>0
  <2> HIDE DEF d
  <2>2. c = d
    BY <1>4 DEF d
  <2> QED
    BY <2>1, <2>2
<1>7. \A s \in Q : \A x : Contains(s, x) <=> x \in ToSet(s)
  <2> SUFFICES ASSUME NEW s \in Q, NEW x PROVE Contains(s, x) <=> x \in ToSet(s)
    OBVIOUS
  <2> QED
    BY InRange DEF Contains
<1> DEFINE Halted(s) == Top(f, s) \notin Held(f) \/ Top(f, s) \in ToSet(s)
           Fine(k, s) == /\ Chain(f, n, s) /\ Distinct(s) /\ Len(s) <= k
                         /\ Len(s) < k => Halted(s)
           T == {k \in Nat : IF k = 0 THEN c[k] = <<>> ELSE Fine(k, c[k])}
<1>8. 0 \in T
  BY <1>6
<1>9. ASSUME NEW i \in 0..(N - 1), i \in T PROVE i + 1 \in T
  <2>1. i + 1 \in 1..N /\ (i + 1) - 1 = i /\ i \in Nat /\ i + 1 \in Nat /\ i + 1 # 0
    BY <1>0
  <2>2. c[i + 1] = More(c[i])
    BY <1>6, <2>1
  <2> DEFINE s == c[i]
  <2> SUFFICES Fine(i + 1, c[i + 1])
    BY <2>1
  <2>3. CASE i = 0
    <3>1. s = <<>>
      BY <1>9, <2>3
    <3>2. ~Contains(<<>>, n)
      BY DEF Contains
    <3>3. Append(<<>>, n) = <<n>>
      OBVIOUS
    <3>4. c[i + 1] = <<n>>
      BY <2>2, <3>1, <3>2, <3>3 DEF More
    <3>5. Chain(f, n, <<n>>) /\ Distinct(<<n>>) /\ Len(<<n>>) = 1
      BY ChainStarts DEF Distinct
    <3> QED
      BY <2>3, <3>4, <3>5
  <2>4. CASE i # 0
    <3>1. Fine(i, s)
      BY <1>9, <2>4
    <3>2. s \in Q /\ s # <<>>
      BY <3>1 DEF Chain
    <3>3. c[i + 1] = IF Top(f, s) \in Held(f) /\ Top(f, s) \notin ToSet(s) THEN Append(s, Top(f, s)) ELSE s
      <4>1. Hop(s) = Top(f, s)
        BY <3>2 DEF Last, Top
      <4>2. c[i + 1] = More(s)
        BY <2>2
      <4> HIDE DEF s, Hop, Q
      <4> QED
        BY <1>7, <3>2, <4>1, <4>2 DEF More
    <3> HIDE DEF s
    <3>4. Len(s) \in Nat
      BY <3>1, ChainLen
    <3>5. CASE Halted(s)
      <4>1. c[i + 1] = s
        BY <3>3, <3>5
      <4> QED
        BY <2>1, <3>1, <3>4, <3>5, <4>1
    <3>6. CASE ~Halted(s)
      <4> DEFINE p == Top(f, s)
      <4>1. p \in Held(f) /\ p \notin ToSet(s) /\ p \in Points /\ c[i + 1] = Append(s, p) /\ Len(s) = i
        BY <1>0, <2>1, <3>1, <3>3, <3>4, <3>6
      <4>2. Chain(f, n, Append(s, p)) /\ Len(Append(s, p)) = i + 1
        BY <3>1, <4>1, ChainGrows
      <4>3. Distinct(Append(s, p))
        BY <3>1, <3>2, <4>1, DistinctAppend
      <4> QED
        BY <2>1, <4>1, <4>2, <4>3
    <3> QED
      BY <3>5, <3>6
  <2> QED
    BY <2>3, <2>4
<1>10. N \in T
  <2> HIDE DEF T
  <2>1. \A i \in 0..N : i \in T
    BY <1>0, <1>8, <1>9, Inductive
  <2> QED
    BY <1>0, <2>1
<1> DEFINE s == c[N]
<1>11. Fine(N, s)
  BY <1>0, <1>10
<1> HIDE DEF s
<1>12. Halted(s)
  <2>1. CASE Len(s) = N
    <3>1. IsFiniteSet(ToSet(s)) /\ Cardinality(ToSet(s)) = N /\ ToSet(s) \subseteq Points
      BY <1>11, <2>1, DistinctCounts, InRange DEF Chain
    <3>2. ToSet(s) = Points
      BY <1>0, <3>1, FS_Subset DEF N
    <3> QED
      BY <1>0, <3>2
  <2>2. Len(s) \in Nat
    BY <1>11, ChainLen
  <2> QED
    BY <1>0, <1>11, <2>1, <2>2
<1>13. NodePath(f, n) = Reverse(s)
  BY <1>5 DEF s
<1> QED
  BY <1>11, <1>12, <1>13

LEMMA ChainUp ==
  ASSUME NEW f, NEW n, NEW s, Chain(f, n, s), NEW i \in 1..Len(s), NEW j \in (i + 1)..Len(s)
  PROVE  s[j] \in Up(f, s[i])
<1> DEFINE k == Len(s)
           m == s[i]
           T == {d \in Nat : i + 1 + d <= k => s[i + 1 + d] \in Up(f, m)}
<1>1. /\ k \in Nat /\ (\A x \in 1..k : s[x] \in Points)
      /\ \A x \in 1..(k - 1) : s[x + 1] = f[s[x]]
  BY ChainLen, ElementOfSeq DEF Chain
<1>2. 0 \in T
  <2>1. CASE i + 1 <= k
    <3>1. s[i + 1] = f[m] /\ m \in Points /\ s[i + 1] \in Points /\ i + 1 + 0 = i + 1
      BY <1>1, <2>1
    <3> HIDE DEF m
    <3> QED
      BY <3>1, UpClosed
  <2> QED
    BY <1>1, <2>1
<1>3. ASSUME NEW d \in 0..((k - i) - 1), d \in T PROVE d + 1 \in T
  <2>1. CASE i + 1 + (d + 1) <= k
    <3> DEFINE x == i + 1 + d
    <3>1. x \in 1..(k - 1) /\ x + 1 \in 1..k /\ x \in 1..k /\ i + 1 + (d + 1) = x + 1 /\ x <= k
      BY <1>1, <2>1
    <3>2. s[x] \in Up(f, m)
      BY <1>3, <3>1
    <3>3. s[x + 1] = f[s[x]] /\ s[x + 1] \in Points
      BY <1>1, <3>1
    <3>4. m \in Points
      BY <1>1
    <3> HIDE DEF x, m
    <3>5. s[x + 1] \in Up(f, m)
      BY <3>2, <3>3, <3>4, UpClosed
    <3> QED
      BY <3>1, <3>5
  <2> QED
    BY <1>1, <2>1
<1>4. k - i \in Nat /\ j - (i + 1) \in 0..(k - i) /\ i + 1 + (j - (i + 1)) = j /\ j <= k
  BY <1>1
<1>5. j - (i + 1) \in T
  <2> HIDE DEF T, k
  <2>1. \A d \in 0..(k - i) : d \in T
    BY <1>2, <1>3, <1>4, Inductive
  <2> QED
    BY <1>4, <2>1
<1> QED
  BY <1>4, <1>5

LEMMA ChainFrom ==
  ASSUME NEW f, NEW n, NEW s, Chain(f, n, s), NEW i \in 1..Len(s)
  PROVE  n \in Points /\ s[i] \in Points /\ s[i] \in {n} \cup Up(f, n)
<1>1. /\ Len(s) \in Nat /\ s[1] = n /\ 1 \in 1..Len(s)
      /\ \A x \in 1..Len(s) : s[x] \in Points
  BY ChainLen, ElementOfSeq DEF Chain
<1>2. i = 1 \/ i \in (1 + 1)..Len(s)
  BY <1>1
<1> QED
  BY <1>1, <1>2, ChainUp

\* No cycle from n on.
Loose(f, n) == \A m \in {n} \cup Up(f, n) : m \notin Up(f, m)

LEMMA LooseEnds ==
  ASSUME NEW f, NEW n, NEW s, Chain(f, n, s), Loose(f, n), Top(f, s) \in ToSet(s)
  PROVE  FALSE
<1> DEFINE k == Len(s)
<1>1. k \in Nat /\ k >= 1 /\ s \in Seq(Points)
  BY ChainLen DEF Chain
<1>2. PICK i \in 1..k : s[i] = Top(f, s)
  BY <1>1, InRange
<1>3. s[i] \in Points /\ s[k] \in Points /\ s[i] \in {n} \cup Up(f, n)
  BY <1>1, ChainFrom
<1>4. s[i] = f[s[k]]
  BY <1>2 DEF Top
<1>5. i = k \/ s[k] \in Up(f, s[i])
  <2>1. i = k \/ k \in (i + 1)..k
    BY <1>1
  <2> QED
    BY <2>1, ChainUp
<1>6. s[i] \in Up(f, s[i])
  <2>1. s[i] \in Up(f, s[k])
    BY <1>3, <1>4, UpClosed
  <2>2. CASE s[k] \in Up(f, s[i])
    <3>1. Up(f, s[k]) \subseteq Up(f, s[i])
      BY <1>3, <2>2, UpTrans
    <3> QED
      BY <2>1, <3>1
  <2> QED
    BY <1>5, <2>1, <2>2
<1> QED
  BY <1>3, <1>6 DEF Loose

\* A chain runs along any chain whose last node has no held parent.
LEMMA ChainsAgree ==
  ASSUME NEW f, NEW n, NEW s, Chain(f, n, s), NEW w, Chain(f, n, w), Top(f, w) \notin Held(f)
  PROVE  Len(s) <= Len(w) /\ \A i \in 1..Len(s) : s[i] = w[i]
<1> DEFINE k == Len(s)
           l == Len(w)
           T == {i \in Nat : i + 1 <= k => i + 1 <= l /\ s[i + 1] = w[i + 1]}
<1>1. /\ k \in Nat /\ l \in Nat /\ k >= 1 /\ l >= 1 /\ s[1] = n /\ w[1] = n
      /\ (\A x \in 1..(k - 1) : s[x + 1] = f[s[x]]) /\ (\A x \in 1..(l - 1) : w[x + 1] = f[w[x]])
      /\ (\A x \in 1..k : s[x] \in Held(f)) /\ f[w[l]] \notin Held(f)
  BY ChainLen DEF Chain, Top
<1> HIDE DEF k, l
<1>2. 0 \in T
  BY <1>1
<1>3. ASSUME NEW i \in 0..(k - 1), i \in T PROVE i + 1 \in T
  <2>1. CASE (i + 1) + 1 <= k
    <3>1. i + 1 \in 1..(k - 1) /\ (i + 1) + 1 \in 1..k /\ i + 1 <= l /\ s[i + 1] = w[i + 1]
      BY <1>1, <1>3, <2>1
    <3>2. s[(i + 1) + 1] = f[w[i + 1]] /\ s[(i + 1) + 1] \in Held(f)
      BY <1>1, <3>1
    <3>3. i + 1 # l
      BY <1>1, <3>2
    <3>4. i + 1 \in 1..(l - 1) /\ (i + 1) + 1 <= l
      BY <1>1, <3>1, <3>3
    <3>5. w[(i + 1) + 1] = f[w[i + 1]]
      BY <1>1, <3>4
    <3> QED
      BY <3>2, <3>4, <3>5
  <2> QED
    BY <2>1
<1>4. \A i \in 0..k : i \in T
  <2> HIDE DEF T
  <2> QED
    BY <1>1, <1>2, <1>3, Inductive
<1>5. ASSUME NEW i \in 1..k PROVE i <= l /\ s[i] = w[i]
  <2>1. i - 1 \in 0..k /\ (i - 1) + 1 = i /\ i <= k
    BY <1>1
  <2>2. i - 1 \in T
    BY <1>4, <2>1
  <2> QED
    BY <2>1, <2>2
<1>6. k <= l
  BY <1>1, <1>5
<1> QED
  BY <1>5, <1>6 DEF k, l

LEMMA ReverseIs ==
  ASSUME NEW S, NEW s \in Seq(S)
  PROVE  /\ Reverse(s) \in Seq(S) /\ Len(Reverse(s)) = Len(s)
         /\ \A i \in 1..Len(s) : Len(s) - i + 1 \in 1..Len(s) /\ Reverse(s)[i] = s[Len(s) - i + 1]
         /\ Reverse(Reverse(s)) = s
<1> DEFINE k == Len(s)
           r == Reverse(s)
<1>1. k \in Nat /\ s \in [1..k -> S]
  BY LenProperties
<1>2. r = [i \in 1..k |-> s[k - i + 1]]
  BY DEF Reverse
<1>3. \A i \in 1..k : k - i + 1 \in 1..k /\ k - (k - i + 1) + 1 = i
  BY <1>1
<1>4. r \in Seq(S)
  BY Reversed
<1> HIDE DEF k, r
<1>5. DOMAIN r = 1..k /\ \A i \in 1..k : r[i] = s[k - i + 1]
  BY <1>2
<1>6. Len(r) = k
  BY <1>1, <1>4, <1>5, LenProperties
<1> DEFINE q == Reverse(r)
<1>7. q = [i \in 1..k |-> r[k - i + 1]]
  BY <1>6 DEF Reverse
<1> HIDE DEF q
<1>8. \A i \in 1..k : q[i] = s[i]
  BY <1>3, <1>5, <1>7
<1>9. q = s
  BY <1>1, <1>7, <1>8
<1> QED
  BY <1>3, <1>4, <1>5, <1>6, <1>9 DEF k, r, q

LEMMA ReverseDistinct ==
  ASSUME NEW S, NEW s \in Seq(S), Distinct(s)
  PROVE  IsInjective(Reverse(s))
<1> DEFINE k == Len(s)
           r == Reverse(s)
<1>1. /\ k \in Nat /\ r \in Seq(S) /\ Len(r) = k
      /\ \A i \in 1..k : k - i + 1 \in 1..k /\ r[i] = s[k - i + 1]
  BY LenProperties, ReverseIs
<1>2. \A i, j \in 1..k : s[i] = s[j] => i = j
  BY DEF Distinct
<1> HIDE DEF k, r
<1>3. DOMAIN r = 1..k
  BY <1>1, LenProperties
<1>4. ASSUME NEW i \in 1..k, NEW j \in 1..k, r[i] = r[j] PROVE i = j
  <2>1. k - i + 1 = k - j + 1
    BY <1>1, <1>2, <1>4
  <2> QED
    BY <1>1, <2>1
<1>5. IsInjective(r)
  BY <1>3, <1>4 DEF IsInjective
<1> QED
  BY <1>5 DEF r

LEMMA ReverseSuffix ==
  ASSUME NEW S, NEW s \in Seq(S), NEW w \in Seq(S), Len(s) <= Len(w),
         \A i \in 1..Len(s) : s[i] = w[i]
  PROVE  /\ IsSuffix(Reverse(s), Reverse(w))
         /\ Len(s) = Len(w) => Reverse(s) = Reverse(w)
<1>1. Len(s) \in Nat /\ Len(w) \in Nat
  BY LenProperties
<1>2. SubSeq(s, 1, Len(s)) = SubSeq(w, 1, Len(s))
  <2>1. /\ SubSeq(s, 1, Len(s)) = [i \in 1..Len(s) |-> s[i]]
        /\ SubSeq(w, 1, Len(s)) = [i \in 1..Len(s) |-> w[i]]
    BY <1>1, SubSeqProperties
  <2> QED
    BY <2>1
<1>3. IsPrefix(s, w)
  BY <1>2 DEF IsPrefix
<1>4. Reverse(Reverse(s)) = s /\ Reverse(Reverse(w)) = w
  BY ReverseIs
<1>5. Len(s) = Len(w) => s = w
  <2>1. s = [i \in 1..Len(s) |-> s[i]] /\ w = [i \in 1..Len(w) |-> w[i]]
    BY LenProperties
  <2> QED
    BY <2>1
<1> QED
  BY <1>3, <1>4, <1>5 DEF IsSuffix

\* The paths and scopes of one node.
PathAgrees(f, n) ==
  LET path == IndexPath(f, n)
      whole == NodePath(f, n)
      up == Up(f, n)
      scopes == {a \in Points : IsDescendantOf(f, n, a)}
  IN /\ IsInjective(whole)
     /\ (\A m \in {n} \cup up : m \notin Up(f, m))
          => IsSuffix(path, whole) /\ (Len(path) <= HopCap => path = whole)
     /\ scopes \subseteq up
     /\ Len(path) <= HopCap => scopes = up

LEMMA PathsOfOne ==
  ASSUME NEW f \in Parentage, NEW n \in Held(f)
  PROVE  PathAgrees(f, n)
<1> DEFINE up == Up(f, n)
           scopes == {a \in Points : IsDescendantOf(f, n, a)}
<1>1. PICK s : /\ Chain(f, n, s) /\ Len(s) <= HopCap + 1
               /\ Len(s) <= HopCap => Top(f, s) \notin Held(f)
               /\ IndexPath(f, n) = Reverse(s)
  BY IndexChain
<1>2. PICK w : /\ Chain(f, n, w) /\ Distinct(w)
               /\ Top(f, w) \notin Held(f) \/ Top(f, w) \in ToSet(w)
               /\ NodePath(f, n) = Reverse(w)
  BY WalkChain
<1>3. s \in Seq(Points) /\ w \in Seq(Points)
  BY <1>1, <1>2 DEF Chain
<1> DEFINE k == Len(s)
<1>4. /\ k \in Nat /\ k >= 1 /\ HopCap \in Nat /\ s[1] = n /\ n \in Points
      /\ (\A i \in 1..k : s[i] \in Points /\ s[i] \in {n} \cup up)
      /\ \A i \in 1..(k - 1) : s[i + 1] = f[s[i]]
  BY <1>1, ChainLen, ChainFrom, AncestryConstants DEF Chain, Held
<1> DEFINE r == Reverse(s)
<1>5. /\ Len(r) = k /\ DOMAIN r = 1..k
      /\ \A i \in 1..k : k - i + 1 \in 1..k /\ r[i] = s[k - i + 1]
  BY <1>3, ReverseIs, LenProperties
<1>6. IsInjective(NodePath(f, n))
  BY <1>2, <1>3, ReverseDistinct
<1>7. ASSUME Loose(f, n)
      PROVE  IsSuffix(r, Reverse(w)) /\ (k <= HopCap => r = Reverse(w))
  <2>1. Top(f, w) \notin Held(f)
    BY <1>2, <1>7, LooseEnds
  <2>2. Len(s) <= Len(w) /\ \A i \in 1..Len(s) : s[i] = w[i]
    BY <1>1, <1>2, <2>1, ChainsAgree
  <2>3. k <= HopCap => Len(w) <= Len(s)
    BY <1>1, <1>2, ChainsAgree
  <2>4. Len(w) \in Nat
    BY <1>3, LenProperties
  <2>5. k <= HopCap => Len(s) = Len(w)
    BY <1>4, <2>2, <2>3, <2>4
  <2> QED
    BY <1>3, <2>2, <2>5, ReverseSuffix
<1>8. \A a \in Points : a \in scopes <=> \E i \in 1..k : f[s[i]] = a
  <2> SUFFICES ASSUME NEW a \in Points
               PROVE  IsDescendantOf(f, n, a) <=> \E i \in 1..k : f[s[i]] = a
    OBVIOUS
  <2>1. IsDescendantOf(f, n, a) <=> \E i \in DOMAIN r : f[r[i]] = a
    BY <1>1 DEF IsDescendantOf
  <2> HIDE DEF r, k
  <2>2. \A i \in 1..k : k - (k - i + 1) + 1 = i
    BY <1>4
  <2>3. \A i \in 1..k : r[k - i + 1] = s[i]
    BY <1>5, <2>2
  <2>4. ASSUME NEW i \in DOMAIN r, f[r[i]] = a PROVE \E j \in 1..k : f[s[j]] = a
    <3>1. k - i + 1 \in 1..k /\ f[s[k - i + 1]] = a
      BY <1>5, <2>4
    <3> QED
      BY <3>1
  <2>5. ASSUME NEW i \in 1..k, f[s[i]] = a PROVE \E j \in DOMAIN r : f[r[j]] = a
    <3>1. k - i + 1 \in DOMAIN r /\ f[r[k - i + 1]] = a
      BY <1>5, <2>3, <2>5
    <3> QED
      BY <3>1
  <2> QED
    BY <2>1, <2>4, <2>5
<1>9. scopes \subseteq up
  <2> SUFFICES ASSUME NEW a \in Points, NEW i \in 1..k, f[s[i]] = a PROVE a \in up
    BY <1>8
  <2>1. s[i] \in {n} \cup up
    BY <1>4
  <2> QED
    BY <1>4, <2>1, UpClosed
<1>10. k <= HopCap => up \subseteq scopes
  <2> SUFFICES ASSUME k <= HopCap PROVE up \subseteq scopes
    OBVIOUS
  <2>1. f[n] \in Points => f[n] \in scopes
    <3>1. 1 \in 1..k /\ f[s[1]] = f[n]
      BY <1>4
    <3> HIDE DEF scopes, k
    <3> QED
      BY <1>8, <3>1
  <2>2. ASSUME NEW m \in scopes \cap Points, f[m] \in Points PROVE f[m] \in scopes
    <3>1. PICK i \in 1..k : f[s[i]] = m
      BY <1>8
    <3>2. m \in Held(f)
      BY <2>2, AncestryConstants DEF Held
    <3>3. i # k
      BY <1>1, <3>1, <3>2 DEF Top
    <3>4. i \in 1..(k - 1) /\ i + 1 \in 1..k
      BY <1>4, <3>3
    <3>5. f[s[i + 1]] = f[m]
      BY <1>4, <3>1, <3>4
    <3> HIDE DEF scopes
    <3> QED
      BY <1>8, <2>2, <3>4, <3>5
  <2> HIDE DEF scopes
  <2> QED
    BY <1>4, <2>1, <2>2, UpLeast
<1>11. Loose(f, n) <=> \A m \in {n} \cup up : m \notin Up(f, m)
  BY DEF Loose
<1> HIDE DEF up, scopes, r, k
<1>12. IndexPath(f, n) = r /\ NodePath(f, n) = Reverse(w)
  BY <1>1, <1>2 DEF r
<1> QED
  BY <1>5, <1>6, <1>7, <1>9, <1>10, <1>11, <1>12 DEF PathAgrees, up, scopes

-----------------------------------------------------------------------------
(* The outline has no cycle.                                                 *)

Forest(f) == \A n \in Points : n \notin Up(f, n)
AncestryInv == AncestryTypeOK /\ Forest(above)

LEMMA RehangKeepsForest ==
  ASSUME NEW f \in [Points -> Points \cup {Base}], Forest(f), NEW n \in Points,
         NEW p \in Points \cup {Base}, p # n, p \in Points => n \notin Up(f, p)
  PROVE  Forest([f EXCEPT ![n] = p])
<1> DEFINE h == [f EXCEPT ![n] = p]
<1>0. h[n] = p /\ (\A m \in Points \ {n} : h[m] = f[m]) /\ Base \notin Points
  BY AncestryConstants
<1> HIDE DEF h
<1>1. ASSUME NEW m \in Points, m # n, n \notin Up(f, m) PROVE Up(h, m) \subseteq Up(f, m)
  <2> DEFINE S == Up(f, m)
  <2>1. h[m] \in Points => h[m] \in S
    BY <1>0, <1>1, UpClosed
  <2>2. ASSUME NEW x \in S \cap Points, h[x] \in Points PROVE h[x] \in S
    <3>1. x # n
      BY <1>1
    <3> QED
      BY <1>0, <2>2, <3>1, UpClosed
  <2> HIDE DEF S
  <2>3. Up(h, m) \subseteq S
    BY <2>1, <2>2, UpLeast
  <2> QED
    BY <2>3 DEF S
<1>2. ASSUME NEW m \in Points PROVE m \notin Up(h, m)
  <2>1. CASE m # n /\ n \notin Up(f, m)
    BY <1>1, <2>1 DEF Forest
  <2>2. CASE p \notin Points
    <3> DEFINE S == Up(f, m)
    <3>1. h[m] \in Points => h[m] \in S
      BY <1>0, <2>2, UpClosed
    <3>2. ASSUME NEW x \in S \cap Points, h[x] \in Points PROVE h[x] \in S
      BY <1>0, <2>2, <3>2, UpClosed
    <3> HIDE DEF S
    <3>3. Up(h, m) \subseteq S
      BY <3>1, <3>2, UpLeast
    <3> QED
      BY <3>3 DEF S, Forest
  <2>3. CASE p \in Points /\ (m = n \/ n \in Up(f, m))
    <3> DEFINE S == Up(f, m) \cup {p} \cup Up(f, p)
    <3>1. h[m] \in Points => h[m] \in S
      BY <1>0, UpClosed
    <3>2. ASSUME NEW x \in S \cap Points, h[x] \in Points PROVE h[x] \in S
      <4>1. CASE x = n
        BY <1>0, <4>1
      <4>2. CASE x # n
        <5>1. h[x] = f[x]
          BY <1>0, <4>2
        <5>2. x \in Up(f, m) => f[x] \in Up(f, m)
          BY <3>2, <5>1, UpClosed
        <5>3. x \in {p} \cup Up(f, p) => f[x] \in Up(f, p)
          BY <2>3, <3>2, <5>1, UpClosed
        <5> QED
          BY <5>1, <5>2, <5>3
      <4> QED
        BY <4>1, <4>2
    <3> HIDE DEF S
    <3>3. Up(h, m) \subseteq S
      BY <3>1, <3>2, UpLeast
    <3>4. m \notin Up(f, m)
      BY DEF Forest
    <3>5. m # p /\ m \notin Up(f, p)
      <4>1. n \notin Up(f, p)
        BY <2>3
      <4>2. m \in Up(f, p) => Up(f, m) \subseteq Up(f, p)
        BY <2>3, UpTrans
      <4> QED
        BY <2>3, <4>1, <4>2
    <3> QED
      BY <3>3, <3>4, <3>5 DEF S
  <2> QED
    BY <2>1, <2>2, <2>3
<1>3. Forest(h)
  BY <1>2 DEF Forest
<1> QED
  BY <1>3 DEF h

LEMMA AncestryInvHolds == AncestrySpec => []AncestryInv
<1>1. AncestryInit => AncestryInv
  <2> SUFFICES ASSUME AncestryInit PROVE AncestryInv
    OBVIOUS
  <2>1. AncestryTypeOK
    BY DEF AncestryInit, AncestryTypeOK
  <2>2. \A n \in Points : above[n] \notin Points
    BY AncestryConstants DEF AncestryInit
  <2>3. \A n \in Points : Up(above, n) = {}
    <3> SUFFICES ASSUME NEW n \in Points PROVE Up(above, n) = {}
      OBVIOUS
    <3>1. PICK f : f = above
      OBVIOUS
    <3>2. Up(f, n) = {}
      BY <2>2, <3>1, UpTop
    <3> QED
      BY <3>1, <3>2
  <2> QED
    BY <2>1, <2>3 DEF AncestryInv, Forest
<1>2. AncestryInv /\ [AncestryNext]_ancestryVars => AncestryInv'
  <2> SUFFICES ASSUME AncestryInv, [AncestryNext]_ancestryVars PROVE AncestryInv'
    OBVIOUS
  <2>1. AncestryTypeOK'
    BY AncestryTypeStep DEF AncestryInv
  <2>2. CASE above' = above
    BY <2>1, <2>2 DEF AncestryInv, Forest, Up
  <2>3. CASE \E n \in Points, p \in Points \cup {Base} : Rehang(n, p)
    <3>1. PICK n \in Points, p \in Points \cup {Base} : Rehang(n, p)
      BY <2>3
    <3>2. PICK f : f = above
      OBVIOUS
    <3>3. f \in [Points -> Points \cup {Base}] /\ Forest(f) /\ p # n /\ (p \in Points => n \notin Up(f, p))
      BY <3>1, <3>2 DEF AncestryInv, AncestryTypeOK, Rehang
    <3>4. Forest([f EXCEPT ![n] = p])
      BY <3>3, RehangKeepsForest
    <3>5. above' = [f EXCEPT ![n] = p]
      BY <3>1, <3>2 DEF Rehang
    <3>6. PICK h : h = above'
      OBVIOUS
    <3>7. Forest(h)
      BY <3>4, <3>5, <3>6
    <3>8. Forest(above')
      BY <3>6, <3>7
    <3> QED
      BY <2>1, <3>8 DEF AncestryInv, Forest, Up
  <2>4. above' = above \/ \E n \in Points, p \in Points \cup {Base} : Rehang(n, p)
    BY DEF AncestryNext, Note, Unnote, ancestryVars
  <2> QED
    BY <2>2, <2>3, <2>4
<1> QED
  BY <1>1, <1>2, PTL DEF AncestrySpec

-----------------------------------------------------------------------------
(* What an export holds.                                                     *)

Below(f, n) == {m \in Points : n \in {m} \cup Up(f, m)}
Kids(f, n) == {m \in Points : f[m] = n}

LEMMA UpLinear ==
  ASSUME NEW f, NEW m \in Points, NEW a \in {m} \cup Up(f, m), NEW b \in {m} \cup Up(f, m)
  PROVE  a \in {b} \cup Up(f, b) \/ b \in {a} \cup Up(f, a)
<1>0. a \in Points /\ b \in Points
  BY UpClosed
<1> DEFINE S == {x \in Points : x \in {a} \cup Up(f, a) \/ a \in Up(f, x)}
<1>1. ASSUME NEW x \in Points, x \in S, f[x] \in Points PROVE f[x] \in S
  <2>1. CASE x \in {a} \cup Up(f, a)
    BY <1>0, <1>1, <2>1, UpClosed
  <2>2. CASE a \in Up(f, x)
    BY <1>1, <2>2, UpStep
  <2> QED
    BY <1>1, <2>1, <2>2
<1>2. m \in S
  OBVIOUS
<1>3. f[m] \in Points => f[m] \in S
  BY <1>1, <1>2
<1> HIDE DEF S
<1>4. Up(f, m) \subseteq S
  BY <1>1, <1>3, UpLeast
<1>5. b \in S
  BY <1>2, <1>4
<1> QED
  BY <1>5 DEF S

\* A node's subtree is itself and its children's, apart from each other.
LEMMA BelowKids ==
  ASSUME NEW f, Forest(f), NEW n \in Points
  PROVE  /\ Below(f, n) = {n} \cup UNION {Below(f, k) : k \in Kids(f, n)}
         /\ \A k \in Kids(f, n) : n \notin Below(f, k)
         /\ \A k, l \in Kids(f, n) : k # l => Below(f, k) \cap Below(f, l) = {}
<1>1. ASSUME NEW k \in Kids(f, n)
      PROVE  k \in Points /\ f[k] = n /\ n \in Up(f, k) /\ Up(f, k) = {n} \cup Up(f, n)
             /\ k # n /\ k \notin Up(f, n)
  <2>1. k \in Points /\ f[k] = n
    BY DEF Kids
  <2>2. n \in Up(f, k) /\ Up(f, k) = {n} \cup Up(f, n)
    BY <2>1, UpStep
  <2> QED
    BY <2>1, <2>2 DEF Forest
<1>2. ASSUME NEW m \in Below(f, n), m # n
      PROVE  \E k \in Kids(f, n) : m \in Below(f, k)
  <2>0. m \in Points /\ n \in Up(f, m)
    BY <1>2 DEF Below
  <2> SUFFICES ASSUME \A k \in Kids(f, n) : k \notin {m} \cup Up(f, m) PROVE FALSE
    BY <2>0 DEF Below
  <2> DEFINE S == Up(f, m) \ {n}
  <2>1. f[m] \in Points => f[m] \in S
    BY <2>0, UpClosed DEF Kids
  <2>2. ASSUME NEW x \in S \cap Points, f[x] \in Points PROVE f[x] \in S
    BY <2>0, <2>2, UpClosed DEF Kids
  <2> HIDE DEF S
  <2>3. Up(f, m) \subseteq S
    BY <2>0, <2>1, <2>2, UpLeast
  <2> QED
    BY <2>0, <2>3 DEF S
<1>3. ASSUME NEW k \in Kids(f, n), NEW m \in Below(f, k) PROVE m \in Below(f, n)
  <2>1. m \in Points /\ k \in {m} \cup Up(f, m)
    BY DEF Below
  <2>2. n \in Up(f, m)
    BY <1>1, <2>1, UpTrans
  <2> QED
    BY <2>1, <2>2 DEF Below
<1>4. n \in Below(f, n)
  BY DEF Below
<1>5. ASSUME NEW k \in Kids(f, n) PROVE n \notin Below(f, k)
  BY <1>1 DEF Below
<1>6. ASSUME NEW k \in Kids(f, n), NEW l \in Kids(f, n), k # l, NEW m \in Below(f, k) \cap Below(f, l)
      PROVE  FALSE
  <2>1. m \in Points /\ k \in {m} \cup Up(f, m) /\ l \in {m} \cup Up(f, m)
    BY DEF Below
  <2>2. k \in {l} \cup Up(f, l) \/ l \in {k} \cup Up(f, k)
    BY <2>1, UpLinear
  <2> QED
    BY <1>1, <1>6, <2>2
<1>7. Below(f, n) = {n} \cup UNION {Below(f, k) : k \in Kids(f, n)}
  BY <1>2, <1>3, <1>4
<1> QED
  BY <1>5, <1>6, <1>7

LEMMA BelowSize ==
  ASSUME NEW f, Forest(f), NEW n \in Points
  PROVE  /\ Cardinality(Below(f, n)) \in Nat /\ Cardinality(Below(f, n)) >= 1
         /\ Cardinality(Below(f, n)) <= Cardinality(Points) /\ Cardinality(Points) \in Nat
         /\ \A k \in Kids(f, n) : Cardinality(Below(f, k)) \in Nat
                                  /\ Cardinality(Below(f, k)) < Cardinality(Below(f, n))
<1> DEFINE B == Below(f, n)
<1>1. B \subseteq Points /\ n \in B
  BY DEF Below
<1>2. IsFiniteSet(B) /\ Cardinality(B) <= Cardinality(Points)
  BY <1>1, FS_Subset, AncestryConstants
<1>3. Cardinality(B) \in Nat /\ Cardinality(Points) \in Nat
  BY <1>2, FS_CardinalityType, AncestryConstants
<1>4. Cardinality(B) # 0
  BY <1>1, <1>2, FS_EmptySet
<1>5. ASSUME NEW k \in Kids(f, n)
      PROVE  Cardinality(Below(f, k)) \in Nat /\ Cardinality(Below(f, k)) < Cardinality(B)
  <2> DEFINE C == Below(f, k)
  <2>1. C \subseteq B /\ C # B
    <3>1. B = {n} \cup UNION {Below(f, l) : l \in Kids(f, n)} /\ n \notin C
      BY BelowKids
    <3> QED
      BY <1>1, <3>1
  <2> HIDE DEF B, C
  <2>2. IsFiniteSet(C) /\ Cardinality(C) <= Cardinality(B) /\ Cardinality(C) # Cardinality(B)
    BY <1>2, <2>1, FS_Subset
  <2>3. Cardinality(C) \in Nat
    BY <2>2, FS_CardinalityType
  <2> QED
    BY <1>3, <2>2, <2>3 DEF C
<1> QED
  BY <1>2, <1>3, <1>4, <1>5

LineForms == [node : Points, depth : Int]

\* Lines that hold the nodes D once each, under n at depth d, each after its parent
\* and whatever hangs at least as deep in between.
Laid(f, n, D, d, F) ==
  /\ F \in Seq(LineForms) /\ Len(F) >= 1 /\ F[1] = [node |-> n, depth |-> d]
  /\ \A i, j \in 1..Len(F) : F[i].node = F[j].node => i = j
  /\ \A x : x \in D <=> \E i \in 1..Len(F) : F[i].node = x
  /\ \A i \in 2..Len(F) : F[i].depth > d
  /\ \A i \in 2..Len(F) : \E j \in 1..(i - 1) :
       /\ F[j].node = f[F[i].node] /\ F[j].depth < F[i].depth
       /\ \A k \in (j + 1)..(i - 1) : F[k].depth >= F[i].depth

LEMMA LaidAlone ==
  ASSUME NEW f, NEW n \in Points, NEW d \in Int
  PROVE  Laid(f, n, {n}, d, <<[node |-> n, depth |-> d]>>)
<1> DEFINE l == [node |-> n, depth |-> d]
           F == <<l>>
<1>1. l \in LineForms /\ l.node = n
  BY DEF LineForms
<1> HIDE DEF l
<1>2. F \in Seq(LineForms) /\ Len(F) = 1 /\ F[1] = l
  BY <1>1
<1> HIDE DEF F
<1>3. (\A i \in 1..1 : i = 1) /\ 2..1 = {} /\ 1 \in 1..1
  OBVIOUS
<1>4. Laid(f, n, {n}, d, F)
  BY <1>1, <1>2, <1>3 DEF Laid, l
<1> QED
  BY <1>4 DEF F, l

LEMMA LaidJoined ==
  ASSUME NEW f, NEW n, NEW k, NEW d \in Int, NEW D, NEW E, NEW F, NEW G,
         Laid(f, n, D, d, F), Laid(f, k, E, d + 1, G), f[k] = n, D \cap E = {}
  PROVE  Laid(f, n, D \cup E, d, F \o G)
<1> DEFINE m == Len(F)
           q == Len(G)
           H == F \o G
<1>1. /\ m \in Nat /\ q \in Nat /\ m >= 1 /\ q >= 1 /\ H \in Seq(LineForms) /\ Len(H) = m + q
      /\ (\A i \in 1..m : H[i] = F[i]) /\ (\A i \in 1..q : H[m + i] = G[i])
      /\ (\A i \in 1..m : F[i].depth \in Int) /\ (\A i \in 1..q : G[i].depth \in Int)
  <2>1. F \in Seq(LineForms) /\ G \in Seq(LineForms) /\ Len(F) >= 1 /\ Len(G) >= 1
    BY DEF Laid
  <2>2. (\A i \in 1..m : F[i] \in LineForms) /\ (\A i \in 1..q : G[i] \in LineForms)
    BY <2>1, ElementOfSeq
  <2>3. \A l \in LineForms : l.depth \in Int
    BY DEF LineForms
  <2>4. m \in Nat /\ q \in Nat
    BY <2>1, LenProperties
  <2>5. /\ H \in Seq(LineForms) /\ Len(H) = m + q
        /\ (\A i \in 1..m : H[i] = F[i]) /\ (\A i \in 1..q : H[m + i] = G[i])
    BY <2>1, <2>4, ConcatProperties
  <2> QED
    BY <2>1, <2>2, <2>3, <2>4, <2>5
<1>2. /\ F[1].node = n /\ F[1].depth = d /\ F[1] = [node |-> n, depth |-> d]
      /\ G[1].node = k /\ G[1].depth = d + 1
  BY DEF Laid
<1>3. /\ \A i, j \in 1..m : F[i].node = F[j].node => i = j
      /\ \A x : x \in D <=> \E i \in 1..m : F[i].node = x
      /\ \A i \in 2..m : F[i].depth > d
  BY DEF Laid
<1>4. /\ \A i, j \in 1..q : G[i].node = G[j].node => i = j
      /\ \A x : x \in E <=> \E i \in 1..q : G[i].node = x
      /\ \A i \in 2..q : G[i].depth > d + 1
  BY DEF Laid
<1>5. \A i \in 2..m : \E j \in 1..(i - 1) :
        /\ F[j].node = f[F[i].node] /\ F[j].depth < F[i].depth
        /\ \A l \in (j + 1)..(i - 1) : F[l].depth >= F[i].depth
  BY DEF Laid
<1>6. \A i \in 2..q : \E j \in 1..(i - 1) :
        /\ G[j].node = f[G[i].node] /\ G[j].depth < G[i].depth
        /\ \A l \in (j + 1)..(i - 1) : G[l].depth >= G[i].depth
  BY DEF Laid
<1> HIDE DEF m, q, H
<1>7. \A i \in 1..(m + q) : i \in 1..m \/ (i - m \in 1..q /\ m + (i - m) = i /\ H[i] = G[i - m])
  <2> SUFFICES ASSUME NEW i \in 1..(m + q), i \notin 1..m
               PROVE  i - m \in 1..q /\ m + (i - m) = i /\ H[i] = G[i - m]
    OBVIOUS
  <2>1. i - m \in 1..q /\ m + (i - m) = i
    BY <1>1
  <2> QED
    BY <1>1, <2>1
<1>8. H[1] = [node |-> n, depth |-> d] /\ m + q >= 1
  <2>1. 1 \in 1..m
    BY <1>1
  <2> QED
    BY <1>1, <1>2, <2>1
<1>9. ASSUME NEW i \in 1..(m + q), NEW j \in 1..(m + q), H[i].node = H[j].node PROVE i = j
  <2>1. CASE i \in 1..m /\ j \in 1..m
    BY <1>1, <1>3, <1>9, <2>1
  <2>2. CASE i \notin 1..m /\ j \notin 1..m
    <3>1. i - m \in 1..q /\ j - m \in 1..q /\ G[i - m].node = G[j - m].node
      BY <1>7, <1>9, <2>2
    <3>2. i - m = j - m
      BY <1>4, <3>1
    <3> QED
      BY <1>1, <3>2
  <2>3. CASE i \in 1..m /\ j \notin 1..m
    <3>1. H[i].node \in D
      BY <1>1, <1>3, <2>3
    <3>2. H[j].node \in E
      BY <1>4, <1>7, <2>3
    <3> QED
      BY <1>9, <3>1, <3>2
  <2>4. CASE i \notin 1..m /\ j \in 1..m
    <3>1. H[j].node \in D
      BY <1>1, <1>3, <2>4
    <3>2. H[i].node \in E
      BY <1>4, <1>7, <2>4
    <3> QED
      BY <1>9, <3>1, <3>2
  <2> QED
    BY <2>1, <2>2, <2>3, <2>4
<1>10. ASSUME NEW x PROVE x \in D \cup E <=> \E i \in 1..(m + q) : H[i].node = x
  <2>1. ASSUME x \in D PROVE \E i \in 1..(m + q) : H[i].node = x
    <3>1. PICK i \in 1..m : F[i].node = x
      BY <1>3, <2>1
    <3>2. i \in 1..(m + q) /\ H[i] = F[i]
      BY <1>1
    <3> QED
      BY <3>1, <3>2
  <2>2. ASSUME x \in E PROVE \E i \in 1..(m + q) : H[i].node = x
    <3>1. PICK i \in 1..q : G[i].node = x
      BY <1>4, <2>2
    <3>2. m + i \in 1..(m + q) /\ H[m + i] = G[i]
      BY <1>1
    <3> QED
      BY <3>1, <3>2
  <2>3. ASSUME NEW i \in 1..(m + q), H[i].node = x PROVE x \in D \cup E
    <3>1. CASE i \in 1..m
      BY <1>1, <1>3, <2>3, <3>1
    <3>2. CASE i \notin 1..m
      BY <1>4, <1>7, <2>3, <3>2
    <3> QED
      BY <3>1, <3>2
  <2> QED
    BY <2>1, <2>2, <2>3
<1>11. ASSUME NEW i \in 2..(m + q) PROVE H[i].depth > d
  <2>1. CASE i \in 1..m
    <3>1. i \in 2..m
      BY <1>1, <2>1
    <3> QED
      BY <1>1, <1>3, <2>1, <3>1
  <2>2. CASE i \notin 1..m
    <3>1. i \in 1..(m + q)
      BY <1>1
    <3>2. i - m \in 1..q /\ H[i] = G[i - m]
      BY <1>7, <2>2, <3>1
    <3>3. i - m = 1 \/ i - m \in 2..q
      BY <1>1, <3>2
    <3>4. G[i - m].depth > d
      <4>1. CASE i - m = 1
        BY <1>2, <4>1
      <4>2. CASE i - m \in 2..q
        <5>1. G[i - m].depth > d + 1 /\ G[i - m].depth \in Int
          BY <1>1, <1>4, <3>2, <4>2
        <5> QED
          BY <5>1
      <4> QED
        BY <3>3, <4>1, <4>2
    <3> QED
      BY <3>2, <3>4
  <2> QED
    BY <2>1, <2>2
<1> DEFINE Hung(i) == \E j \in 1..(i - 1) :
                        /\ H[j].node = f[H[i].node] /\ H[j].depth < H[i].depth
                        /\ \A l \in (j + 1)..(i - 1) : H[l].depth >= H[i].depth
<1>12. ASSUME NEW i \in 2..(m + q) PROVE Hung(i)
  <2>1. CASE i \in 1..m
    <3>1. i \in 2..m
      BY <1>1, <2>1
    <3>2. PICK j \in 1..(i - 1) :
            /\ F[j].node = f[F[i].node] /\ F[j].depth < F[i].depth
            /\ \A l \in (j + 1)..(i - 1) : F[l].depth >= F[i].depth
      BY <1>5, <3>1
    <3>3. j \in 1..m /\ H[j] = F[j] /\ H[i] = F[i]
      BY <1>1, <2>1
    <3>4. \A l \in (j + 1)..(i - 1) : H[l] = F[l]
      BY <1>1, <2>1
    <3> QED
      BY <3>2, <3>3, <3>4
  <2>2. CASE i = m + 1
    <3>1. H[i] = G[1] /\ 1 \in 1..m /\ 1 \in 1..(i - 1) /\ H[1] = F[1]
      BY <1>1, <2>2
    <3>2. H[1].node = f[H[i].node] /\ H[1].depth < H[i].depth
      BY <1>2, <3>1
    <3>3. ASSUME NEW l \in (1 + 1)..(i - 1) PROVE H[l].depth >= H[i].depth
      <4>1. l \in 2..m /\ l \in 1..m
        BY <1>1, <2>2
      <4>2. F[l].depth > d /\ F[l].depth \in Int /\ H[l] = F[l]
        BY <1>1, <1>3, <4>1
      <4>3. F[l].depth >= d + 1
        BY <4>2
      <4> QED
        BY <1>2, <3>1, <4>2, <4>3
    <3> QED
      BY <3>1, <3>2, <3>3
  <2>3. CASE i > m + 1
    <3> DEFINE x == i - m
    <3>1. x \in 2..q /\ x \in 1..q /\ H[i] = G[x] /\ m + x = i
      BY <1>1, <2>3
    <3>2. PICK y \in 1..(x - 1) :
            /\ G[y].node = f[G[x].node] /\ G[y].depth < G[x].depth
            /\ \A l \in (y + 1)..(x - 1) : G[l].depth >= G[x].depth
      BY <1>6, <3>1
    <3>3. m + y \in 1..(i - 1) /\ H[m + y] = G[y]
      BY <1>1, <3>1
    <3>4. ASSUME NEW l \in ((m + y) + 1)..(i - 1) PROVE H[l].depth >= H[i].depth
      <4>1. l - m \in (y + 1)..(x - 1) /\ l - m \in 1..q /\ m + (l - m) = l
        BY <1>1, <3>1
      <4>2. H[l] = G[l - m]
        BY <1>1, <4>1
      <4> QED
        BY <3>1, <3>2, <4>1, <4>2
    <3> HIDE DEF x
    <3> QED
      BY <3>1, <3>2, <3>3, <3>4
  <2>4. i \in 1..m \/ i = m + 1 \/ i > m + 1
    BY <1>1
  <2> QED
    BY <2>1, <2>2, <2>3, <2>4
<1>13. Laid(f, n, D \cup E, d, H)
  BY <1>1, <1>8, <1>9, <1>10, <1>11, <1>12 DEF Laid
<1> QED
  BY <1>13 DEF H

\* The lines under each node, given those one level further down.
Row(f, seen, d, b) ==
  [n \in Points |->
     LET kids == Keep(seen, Kids(f, n))
     IN <<[node |-> n, depth |-> d]>> \o FlattenSeq([i \in DOMAIN kids |-> b[kids[i]]])]

Rows == [Points -> Seq(LineForms)]

LEMMA Mapped ==
  ASSUME NEW b \in Rows, NEW s \in Seq(Points)
  PROVE  [i \in DOMAIN s |-> b[s[i]]] \in Seq(Seq(LineForms))
<1>1. DOMAIN s = 1..Len(s) /\ Len(s) \in Nat /\ \A i \in 1..Len(s) : s[i] \in Points
  BY LenProperties, ElementOfSeq
<1>2. \A i \in 1..Len(s) : b[s[i]] \in Seq(LineForms)
  BY <1>1 DEF Rows
<1> QED
  BY <1>1, <1>2

LEMMA RowIn ==
  ASSUME NEW f, NEW seen \in Seq(Points), NEW d \in Int, NEW b \in Rows
  PROVE  Row(f, seen, d, b) \in Rows
<1>1. ASSUME NEW n \in Points
      PROVE  LET kids == Keep(seen, Kids(f, n))
             IN <<[node |-> n, depth |-> d]>> \o FlattenSeq([i \in DOMAIN kids |-> b[kids[i]]])
                \in Seq(LineForms)
  <2> DEFINE kids == Keep(seen, Kids(f, n))
             ss == [i \in DOMAIN kids |-> b[kids[i]]]
             l == [node |-> n, depth |-> d]
  <2>1. kids \in Seq(Points)
    BY KeepIn
  <2> HIDE DEF kids
  <2>2. ss \in Seq(Seq(LineForms))
    BY <2>1, Mapped
  <2> HIDE DEF ss
  <2>3. FlattenSeq(ss) \in Seq(LineForms)
    BY <2>2, FlattenIn
  <2>4. l \in LineForms
    BY DEF LineForms
  <2> HIDE DEF l
  <2>5. <<l>> \in Seq(LineForms)
    BY <2>4
  <2>6. <<l>> \o FlattenSeq(ss) \in Seq(LineForms)
    BY <2>3, <2>5, ConcatProperties
  <2> QED
    BY <2>6 DEF l, ss, kids
<1> QED
  BY <1>1 DEF Row, Rows

LEMMA LinesUnfold ==
  ASSUME NEW f, NEW seen \in Seq(Points), NEW root \in Points
  PROVE  \E c : /\ Lines(f, seen, root) = c[Cardinality(Points)][root]
                /\ \A k \in 0..Cardinality(Points) : c[k] \in Rows
                /\ \A k \in 1..Cardinality(Points) :
                     c[k] = Row(f, seen, Cardinality(Points) - k, c[k - 1])
<1> DEFINE N == Cardinality(Points)
           none == [n \in Points |-> <<>>]
           Rec(u) == [k \in 0..N |->
                        [n \in Points |->
                           IF k = 0 THEN <<>>
                           ELSE LET kids == Keep(seen, Kids(f, n))
                                IN <<[node |-> n, depth |-> N - k]>>
                                   \o FlattenSeq([i \in DOMAIN kids |-> u[k - 1][kids[i]]])]]
           Rec2(u) == [k \in 0..N |-> IF k = 0 THEN none ELSE Row(f, seen, N - k, u[k - 1])]
           c == CHOOSE u : u = Rec(u)
           g == [p \in Nat \X Rows |-> Row(f, seen, N - p[1], p[2])]
<1>0. N \in Nat
  BY AncestryConstants, FS_CardinalityType
<1> HIDE DEF N
<1>1. none \in Rows
  BY DEF Rows
<1>2. g \in [Nat \X Rows -> Rows]
  <2>1. ASSUME NEW p \in Nat \X Rows PROVE Row(f, seen, N - p[1], p[2]) \in Rows
    <3>1. p[2] \in Rows /\ N - p[1] \in Int
      BY <1>0
    <3> QED
      BY <3>1, RowIn
  <2> QED
    BY <2>1
<1>3. PICK h : Obeys(h, Rows, none, g, N)
  <2> HIDE DEF none, g
  <2> QED
    BY <1>0, <1>1, <1>2, RecursionExists
<1>4. \A u : Rec(u) = Rec2(u)
  <2> SUFFICES ASSUME NEW u, NEW k \in 0..N
               PROVE  Rec(u)[k] = Rec2(u)[k]
    OBVIOUS
  <2>1. CASE k = 0
    BY <2>1
  <2>2. CASE k # 0
    <3>1. Rec(u)[k] = [n \in Points |->
                         LET kids == Keep(seen, Kids(f, n))
                         IN <<[node |-> n, depth |-> N - k]>>
                            \o FlattenSeq([i \in DOMAIN kids |-> u[k - 1][kids[i]]])]
      BY <2>2
    <3>2. Rec2(u)[k] = Row(f, seen, N - k, u[k - 1])
      BY <2>2
    <3> QED
      BY <3>1, <3>2 DEF Row
  <2> QED
    BY <2>1, <2>2
<1>5. h = Rec2(h)
  <2>1. ASSUME NEW k \in 0..N PROVE h[k] = IF k = 0 THEN none ELSE Row(f, seen, N - k, h[k - 1])
    <3>1. CASE k = 0
      BY <1>3, <3>1 DEF Obeys
    <3>2. CASE k # 0
      <4>1. k \in 1..N /\ k - 1 \in 0..N /\ k \in Nat
        BY <1>0, <3>2
      <4>2. h[k] = g[<<k, h[k - 1]>>] /\ h[k - 1] \in Rows
        BY <1>3, <4>1 DEF Obeys
      <4>3. <<k, h[k - 1]>> \in Nat \X Rows /\ <<k, h[k - 1]>>[1] = k /\ <<k, h[k - 1]>>[2] = h[k - 1]
        BY <4>1, <4>2
      <4> QED
        BY <3>2, <4>2, <4>3
    <3> QED
      BY <3>1, <3>2
  <2> QED
    BY <1>3, <2>1 DEF Obeys
<1>6. c = Rec(c)
  <2>1. h = Rec(h)
    BY <1>4, <1>5
  <2> HIDE DEF Rec
  <2> QED
    BY <2>1
<1>7. Lines(f, seen, root) = c[N][root]
  BY Zenon DEF Lines, Kids, N
<1> HIDE DEF c
<1>8. c = Rec2(c)
  <2> HIDE DEF Rec, Rec2
  <2> QED
    BY <1>4, <1>6
<1> HIDE DEF Rec
<1>9. c[0] = none /\ \A k \in 1..N : c[k] = Row(f, seen, N - k, c[k - 1])
  <2> DEFINE d == Rec2(c)
  <2>1. d[0] = none /\ \A k \in 1..N : d[k] = Row(f, seen, N - k, c[k - 1])
    BY <1>0
  <2> HIDE DEF d
  <2>2. c = d
    BY <1>8 DEF d
  <2> QED
    BY <2>1, <2>2
<1> HIDE DEF none
<1> DEFINE T == {k \in Nat : c[k] \in Rows}
<1>10. 0 \in T
  BY <1>1, <1>9
<1>11. ASSUME NEW i \in 0..(N - 1), i \in T PROVE i + 1 \in T
  <2>1. i + 1 \in 1..N /\ (i + 1) - 1 = i /\ N - (i + 1) \in Int
    BY <1>0
  <2>2. c[i + 1] = Row(f, seen, N - (i + 1), c[i])
    BY <1>9, <2>1
  <2> QED
    BY <1>11, <2>1, <2>2, RowIn
<1>12. \A k \in 0..N : k \in T
  <2> HIDE DEF T
  <2> QED
    BY <1>0, <1>10, <1>11, Inductive
<1> QED
  BY <1>7, <1>9, <1>12 DEF N

\* The lines of the children so far, one after another under their parent's.
LEMMA LaidKids ==
  ASSUME NEW f, Forest(f), NEW n \in Points, NEW d \in Int, NEW b \in Rows,
         \A k \in Kids(f, n) : Laid(f, k, Below(f, k), d + 1, b[k]),
         NEW kids \in Seq(Points), Distinct(kids), ToSet(kids) \subseteq Kids(f, n)
  PROVE  Laid(f, n, {n} \cup UNION {Below(f, k) : k \in ToSet(kids)}, d,
              <<[node |-> n, depth |-> d]>> \o FlattenSeq([i \in DOMAIN kids |-> b[kids[i]]]))
<1> DEFINE l == [node |-> n, depth |-> d]
           M(s) == [i \in DOMAIN s |-> b[s[i]]]
           H(s) == <<l>> \o FlattenSeq(M(s))
           D(s) == {n} \cup UNION {Below(f, k) : k \in ToSet(s)}
           T == {s \in Seq(Points) : Distinct(s) /\ ToSet(s) \subseteq Kids(f, n)
                                     => Laid(f, n, D(s), d, H(s))}
<1>0. l \in LineForms /\ <<l>> \in Seq(LineForms)
  BY DEF LineForms
<1>1. <<>> \in T
  <2>1. M(<<>>) = <<>>
    OBVIOUS
  <2>2. H(<<>>) = <<l>>
    <3> HIDE DEF l, M
    <3> QED
      BY <1>0, <2>1, FlattenEmpty, ConcatEmptySeq
  <2>3. D(<<>>) = {n}
    BY RangeEmpty
  <2>4. Laid(f, n, {n}, d, <<l>>)
    BY LaidAlone
  <2> HIDE DEF l, H, D
  <2>5. Laid(f, n, D(<<>>), d, H(<<>>))
    BY <2>2, <2>3, <2>4
  <2>6. <<>> \in Seq(Points)
    OBVIOUS
  <2> QED
    BY Zenon, <2>5, <2>6
<1>2. ASSUME NEW s \in Seq(Points), NEW x \in Points, s \in T PROVE Append(s, x) \in T
  <2> DEFINE r == Append(s, x)
  <2>0. r \in Seq(Points) /\ ToSet(r) = ToSet(s) \cup {x} /\ Len(r) = Len(s) + 1
        /\ Len(s) \in Nat /\ r[Len(s) + 1] = x /\ \A i \in 1..Len(s) : r[i] = s[i]
    BY AppendProperties, RangeAppend, LenProperties
  <2> SUFFICES ASSUME Distinct(r), ToSet(r) \subseteq Kids(f, n) PROVE Laid(f, n, D(r), d, H(r))
    BY <2>0
  <2>1. Distinct(s) /\ x \notin ToSet(s)
    <3>1. \A i, j \in 1..(Len(s) + 1) : r[i] = r[j] => i = j
      BY <2>0 DEF Distinct
    <3> HIDE DEF r
    <3>2. \A i, j \in 1..Len(s) : s[i] = s[j] => i = j
      BY <2>0, <3>1
    <3>3. \A i \in 1..Len(s) : s[i] # x
      BY <2>0, <3>1
    <3> QED
      BY <3>2, <3>3, InRange DEF Distinct
  <2>2. ToSet(s) \subseteq Kids(f, n) /\ x \in Kids(f, n)
    BY <2>0
  <2>3. Laid(f, n, D(s), d, H(s))
    BY <1>2, <2>1, <2>2
  <2>4. D(s) \cap Below(f, x) = {}
    <3>1. \A k \in ToSet(s) : Below(f, k) \cap Below(f, x) = {}
      BY <2>1, <2>2, BelowKids
    <3>2. n \notin Below(f, x)
      BY <2>2, BelowKids
    <3> QED
      BY <3>1, <3>2
  <2>5. D(r) = D(s) \cup Below(f, x)
    <3> HIDE DEF r
    <3> QED
      BY <2>0
  <2>6. H(r) = H(s) \o b[x]
    <3>1. M(r) = Append(M(s), b[x]) /\ M(s) \in Seq(Seq(LineForms))
      <4>1. DOMAIN r = 1..Len(r) /\ DOMAIN s = 1..Len(s)
        BY <2>0, LenProperties
      <4>2. \A k \in Points : b[k] \in Seq(LineForms)
        BY DEF Rows
      <4>3. /\ [i \in 1..Len(s) |-> b[s[i]]] \in Seq(Seq(LineForms))
            /\ [i \in 1..Len(Append(s, x)) |-> b[Append(s, x)[i]]]
                 = Append([i \in 1..Len(s) |-> b[s[i]]], b[x])
        BY <4>2, MapAppend
      <4> QED
        BY <4>1, <4>3
    <3>2. b[x] \in Seq(LineForms)
      BY DEF Rows
    <3> DEFINE ms == M(s)
               y == b[x]
    <3> HIDE DEF ms, y, l, r
    <3>3. M(r) = Append(ms, y) /\ ms \in Seq(Seq(LineForms)) /\ y \in Seq(LineForms)
      BY <3>1, <3>2 DEF ms, y
    <3>4. FlattenSeq(M(r)) = FlattenSeq(ms) \o y
      BY <3>3, FlattenAppend
    <3>5. FlattenSeq(ms) \in Seq(LineForms)
      BY <3>3, FlattenIn
    <3>6. <<l>> \o (FlattenSeq(ms) \o y) = (<<l>> \o FlattenSeq(ms)) \o y
      BY <1>0, <3>3, <3>5, ConcatAssociative
    <3> QED
      BY <3>4, <3>6 DEF ms, y
  <2>7. Laid(f, x, Below(f, x), d + 1, b[x]) /\ f[x] = n
    BY <2>2 DEF Kids
  <2> HIDE DEF H, D, r
  <2>8. Laid(f, n, D(s) \cup Below(f, x), d, H(s) \o b[x])
    BY <2>3, <2>4, <2>7, LaidJoined
  <2> QED
    BY <2>5, <2>6, <2>8
<1>3. \A s \in Seq(Points) : s \in T
  <2> HIDE DEF T
  <2> QED
    BY <1>1, <1>2, SequenceInductive
<1>4. Laid(f, n, D(kids), d, H(kids))
  BY <1>3
<1> QED
  BY <1>4

LEMMA ListedSet ==
  ASSUME NEW S, IsFiniteSet(S)
  PROVE  /\ SetToSeq(S) \in Seq(S) /\ Distinct(SetToSeq(S)) /\ ToSet(SetToSeq(S)) = S
         /\ Len(SetToSeq(S)) = Cardinality(S)
<1> DEFINE N == Cardinality(S)
           s == SetToSeq(S)
<1>1. N \in Nat /\ ExistsBijection(1..N, S)
  BY FS_CardinalityType
<1>2. \E e \in [1..N -> S] : IsInjective(e)
  BY <1>1 DEF ExistsBijection, Bijection, Injection
<1>3. s \in [1..N -> S] /\ IsInjective(s)
  BY <1>2 DEF SetToSeq
<1> HIDE DEF s
<1>4. IsFiniteSet(1..N) /\ Cardinality(1..N) = N
  BY <1>1, FS_Interval
<1>5. s \in Injection(1..N, S)
  BY <1>3 DEF Injection
<1>6. s \in Surjection(1..N, S)
  BY <1>4, <1>5, FS_Injection
<1>7. s \in Seq(S) /\ Len(s) = N
  <2> HIDE DEF N
  <2> QED
    BY <1>1, <1>3
<1>8. Distinct(s)
  BY <1>3, <1>7 DEF Distinct, IsInjective
<1>9. \A x \in S : \E i \in 1..N : s[i] = x
  BY <1>6 DEF Surjection
<1>10. ToSet(s) = S
  <2> HIDE DEF N
  <2>1. (\A x : x \in ToSet(s) <=> \E i \in 1..Len(s) : s[i] = x) /\ ToSet(s) \subseteq S
    BY <1>7, InRange
  <2> QED
    BY <1>7, <1>9, <2>1
<1> QED
  BY <1>7, <1>8, <1>10 DEF s, N

LEMMA LinesLaid ==
  ASSUME NEW f, Forest(f), NEW root \in Points
  PROVE  Laid(f, root, Below(f, root), 0, Lines(f, SetToSeq(Below(f, root)), root))
<1> DEFINE N == Cardinality(Points)
           seen == SetToSeq(Below(f, root))
<1>0. N \in Nat /\ IsFiniteSet(Below(f, root)) /\ Below(f, root) \subseteq Points
  BY BelowSize, FS_Subset, AncestryConstants DEF Below
<1>1. seen \in Seq(Points) /\ Distinct(seen) /\ ToSet(seen) = Below(f, root)
  BY <1>0, ListedSet, SeqWidens
<1> HIDE DEF seen
<1>2. PICK c : /\ Lines(f, seen, root) = c[N][root]
               /\ \A k \in 0..N : c[k] \in Rows
               /\ \A k \in 1..N : c[k] = Row(f, seen, N - k, c[k - 1])
  BY <1>1, LinesUnfold
<1> HIDE DEF N
<1> DEFINE T == {k \in Nat : \A n \in Below(f, root) :
                   Cardinality(Below(f, n)) <= k => Laid(f, n, Below(f, n), N - k, c[k][n])}
<1>3. 0 \in T
  <2>1. \A n \in Below(f, root) : Cardinality(Below(f, n)) \in Nat /\ Cardinality(Below(f, n)) >= 1
    BY <1>0, BelowSize
  <2> QED
    BY <2>1
<1>4. ASSUME NEW i \in 0..(N - 1), i \in T PROVE i + 1 \in T
  <2> DEFINE d == N - (i + 1)
             b == c[i]
  <2>1. i \in 0..N /\ i + 1 \in 1..N /\ (i + 1) - 1 = i /\ d \in Int /\ d + 1 = N - i /\ i + 1 \in Nat
    BY <1>0
  <2>2. b \in Rows /\ c[i + 1] = Row(f, seen, d, b)
    BY <1>2, <2>1
  <2>3. ASSUME NEW n \in Below(f, root), Cardinality(Below(f, n)) <= i + 1
        PROVE  Laid(f, n, Below(f, n), d, c[i + 1][n])
    <3>0. n \in Points
      BY <1>0
    <3> DEFINE kids == Keep(seen, Kids(f, n))
    <3>1. kids \in Seq(Points) /\ Distinct(kids) /\ ToSet(kids) = Below(f, root) \cap Kids(f, n)
      BY <1>1, KeepIn, DistinctKept, RangeKeep
    <3>2. Kids(f, n) \subseteq Below(f, root)
      <4>1. ASSUME NEW k \in Kids(f, n) PROVE k \in Below(f, root)
        <5>1. k \in Points /\ Up(f, k) = {n} \cup Up(f, n)
          BY <3>0, UpStep DEF Kids
        <5> QED
          BY <5>1 DEF Below
      <4> QED
        BY <4>1
    <3>3. ASSUME NEW k \in Kids(f, n) PROVE Laid(f, k, Below(f, k), d + 1, b[k])
      <4>1. Cardinality(Below(f, k)) \in Nat /\ Cardinality(Below(f, k)) < Cardinality(Below(f, n))
            /\ Cardinality(Below(f, n)) \in Nat
        BY <3>0, BelowSize
      <4>2. Cardinality(Below(f, k)) <= i
        BY <2>1, <2>3, <4>1
      <4>3. Laid(f, k, Below(f, k), N - i, c[i][k])
        BY <1>4, <3>2, <4>2
      <4> QED
        BY <2>1, <4>3
    <3>4. c[i + 1][n] = <<[node |-> n, depth |-> d]>> \o FlattenSeq([j \in DOMAIN kids |-> b[kids[j]]])
      BY <2>2, <3>0 DEF Row
    <3> HIDE DEF kids, d, b
    <3>5. Laid(f, n, {n} \cup UNION {Below(f, k) : k \in ToSet(kids)}, d,
               <<[node |-> n, depth |-> d]>> \o FlattenSeq([j \in DOMAIN kids |-> b[kids[j]]]))
      BY <2>1, <2>2, <3>0, <3>1, <3>3, LaidKids
    <3>6. {n} \cup UNION {Below(f, k) : k \in ToSet(kids)} = Below(f, n)
      <4>1. ToSet(kids) = Kids(f, n)
        BY <3>1, <3>2
      <4> QED
        BY <3>0, <4>1, BelowKids
    <3> QED
      BY <3>4, <3>5, <3>6
  <2> QED
    BY <2>1, <2>3
<1>5. N \in T
  <2> HIDE DEF T
  <2>1. \A i \in 0..N : i \in T
    BY <1>0, <1>3, <1>4, Inductive
  <2> QED
    BY <1>0, <2>1
<1>6. root \in Below(f, root) /\ Cardinality(Below(f, root)) <= N /\ N - N = 0
  BY <1>0, BelowSize DEF Below, N
<1>7. Laid(f, root, Below(f, root), 0, c[N][root])
  BY <1>5, <1>6
<1> QED
  BY <1>2, <1>7 DEF seen

ExportKeeps(f, root) ==
  LET nodes == Below(f, root)
      lines == Lines(f, SetToSeq(nodes), root)
  IN /\ Len(lines) = Cardinality(nodes)
     /\ \A i \in 2..Len(lines) :
          LET before == {j \in 1..(i - 1) : lines[j].depth < lines[i].depth}
          IN lines[Max(before)].node = f[lines[i].node]

LEMMA ExportOfOne ==
  ASSUME NEW f, Forest(f), NEW root \in Points
  PROVE  ExportKeeps(f, root)
<1> DEFINE B == Below(f, root)
           F == Lines(f, SetToSeq(B), root)
<1>1. Laid(f, root, B, 0, F)
  BY LinesLaid
<1> HIDE DEF F
<1> DEFINE m == Len(F)
           s == [i \in 1..m |-> F[i].node]
<1>2. m \in Nat /\ \A i \in 1..m : F[i].node \in Points /\ F[i].depth \in Int
  <2>1. F \in Seq(LineForms)
    BY <1>1 DEF Laid
  <2>2. \A l \in LineForms : l.node \in Points /\ l.depth \in Int
    BY DEF LineForms
  <2> QED
    BY <2>1, <2>2, LenProperties, ElementOfSeq
<1>3. s \in Seq(Points) /\ Len(s) = m
  BY <1>2
<1>4. Distinct(s)
  <2>1. \A i, j \in 1..m : F[i].node = F[j].node => i = j
    BY <1>1 DEF Laid
  <2> QED
    BY <1>3, <2>1 DEF Distinct
<1>5. ToSet(s) = B
  <2>1. \A x : x \in B <=> \E i \in 1..m : F[i].node = x
    BY <1>1 DEF Laid
  <2> HIDE DEF m
  <2>2. \A x : x \in ToSet(s) <=> \E i \in 1..m : s[i] = x
    BY <1>3, InRange
  <2> QED
    BY <2>1, <2>2
<1>6. m = Cardinality(B)
  <2> HIDE DEF s
  <2> QED
    BY <1>3, <1>4, <1>5, DistinctCounts
<1>7. ASSUME NEW i \in 2..m
      PROVE  LET before == {j \in 1..(i - 1) : F[j].depth < F[i].depth}
             IN F[Max(before)].node = f[F[i].node]
  <2> DEFINE before == {j \in 1..(i - 1) : F[j].depth < F[i].depth}
  <2>1. PICK j \in 1..(i - 1) :
          /\ F[j].node = f[F[i].node] /\ F[j].depth < F[i].depth
          /\ \A k \in (j + 1)..(i - 1) : F[k].depth >= F[i].depth
    BY <1>1 DEF Laid
  <2>2. j \in before
    BY <2>1
  <2>3. \A k \in before : j >= k
    <3> SUFFICES ASSUME NEW k \in 1..(i - 1), F[k].depth < F[i].depth, ~(j >= k) PROVE FALSE
      OBVIOUS
    <3>1. k \in (j + 1)..(i - 1) /\ k \in 1..m /\ i \in 1..m
      BY <1>2
    <3> QED
      BY <1>2, <2>1, <3>1
  <2>4. \A k \in before : k \in Int
    BY <1>2
  <2> HIDE DEF before
  <2>5. Max(before) \in before /\ \A k \in before : Max(before) >= k
    BY <2>2, <2>3 DEF Max
  <2>6. Max(before) = j
    <3>1. PICK x : x = Max(before)
      OBVIOUS
    <3>2. x \in Int /\ j \in Int /\ j >= x /\ x >= j
      BY <2>2, <2>3, <2>4, <2>5, <3>1
    <3>3. x = j
      BY <3>2
    <3> QED
      BY <3>1, <3>3
  <2> QED
    BY <2>1, <2>6 DEF before
<1> HIDE DEF B
<1> QED
  BY <1>6, <1>7 DEF ExportKeeps, F, B

(* What is computed from one set of parents agrees: where no cycle is noted  *)
(* the path of the index is the path of a walk, up to the cap; the scope     *)
(* filter accepts what is above and, up to the cap, nothing less; a path of  *)
(* a walk names nothing twice; an export keeps the tree (path_of,            *)
(* is_descendant_of, build_node_path_with_map, render_subtree_markdown).     *)
THEOREM PathsAlwaysAgree == AncestrySpec => []PathsAgree
<1>1. AncestryInv => PathsAgree
  <2> SUFFICES ASSUME AncestryInv PROVE PathsAgree
    OBVIOUS
  <2>1. PICK f, h : f = noted /\ h = above
    OBVIOUS
  <2>2. f \in Parentage /\ Forest(h)
    BY <2>1 DEF AncestryInv, AncestryTypeOK, Parentage
  <2>3. \A n \in Held(f) : PathAgrees(f, n)
    BY <2>2, PathsOfOne
  <2>4. \A root \in Points : ExportKeeps(h, root)
    BY <2>2, ExportOfOne
  <2>5. \A root \in Points : ExportKeepsTree(root)
    <3>1. \A root \in Points : ExportKeeps(above, root)
      BY <2>1, <2>4
    <3> QED
      BY Zenon, <3>1 DEF ExportKeepsTree, ExportKeeps, Below
  <2>6. \A n \in Held(noted) : PathAgrees(noted, n)
    BY <2>1, <2>3
  <2> QED
    BY <2>5, <2>6 DEF PathsAgree, PathAgrees
<1> QED
  BY <1>1, AncestryInvHolds, PTL

-----------------------------------------------------------------------------
(* The reports.  One invariant is enough: what is proved of a walk holds of  *)
(* any outline and of any time.                                              *)

OutlineNodes == [name : Texts, note : Texts, todo : BOOLEAN, done : BOOLEAN, modified : Nat]
ReportNodes == [id : Items, name : Texts, note : Texts, todo : BOOLEAN, done : BOOLEAN,
                modified : Nat]
NodeAt(o, id) == [id |-> id, name |-> o[id].name, note |-> o[id].note, todo |-> o[id].todo,
                  done |-> o[id].done, modified |-> o[id].modified]
WalksOf(o) == {[i \in DOMAIN s |-> NodeAt(o, s[i])] : s \in SetToSeqs(Items)}

(* The reports know what they read (WorkflowyNode).                          *)
THEOREM ReportsTyped == ReportSpec => []ReportsTypeOK
<1>1. ReportsInit => ReportsTypeOK
  <2> SUFFICES ASSUME ReportsInit PROVE ReportsTypeOK
    OBVIOUS
  <2>1. now = FirstDay * DaySeconds /\ FirstDay \in Nat /\ DaySeconds \in Nat
    BY ReportConstants DEF ReportsInit, DaySeconds
  <2>2. now \in Nat
    BY <2>1
  <2>3. Fresh \subseteq OutlineNodes
    BY <2>2 DEF Fresh, OutlineNodes
  <2>4. outline \in [Items -> Fresh]
    BY DEF ReportsInit
  <2>5. outline \in [Items -> OutlineNodes]
    BY <2>3, <2>4
  <2> QED
    BY <2>2, <2>5 DEF ReportsTypeOK, OutlineNodes
<1>2. ReportsTypeOK /\ [ReportsNext]_reportVars => ReportsTypeOK'
  <2> SUFFICES ASSUME ReportsTypeOK, [ReportsNext]_reportVars PROVE ReportsTypeOK'
    OBVIOUS
  <2>0. outline \in [Items -> OutlineNodes] /\ now \in Nat
    BY DEF ReportsTypeOK, OutlineNodes
  <2>1. ASSUME NEW id \in Items, Check(id) PROVE ReportsTypeOK'
    <3>1. [outline[id] EXCEPT !.done = ~outline[id].done, !.modified = now] \in OutlineNodes
      BY <2>0 DEF OutlineNodes
    <3>2. outline' = [outline EXCEPT ![id] =
                        [outline[id] EXCEPT !.done = ~outline[id].done, !.modified = now]]
      BY <2>0, <2>1 DEF Check, OutlineNodes
    <3>3. outline' \in [Items -> OutlineNodes]
      BY <2>0, <3>1, <3>2
    <3> QED
      BY <2>0, <2>1, <3>3 DEF Check, ReportsTypeOK, OutlineNodes
  <2>2. ASSUME NEW id \in Items, NEW t \in Texts, Retext(id, t) PROVE ReportsTypeOK'
    <3>1. [outline[id] EXCEPT !.name = t, !.modified = now] \in OutlineNodes
      BY <2>0 DEF OutlineNodes
    <3>2. outline' = [outline EXCEPT ![id] = [outline[id] EXCEPT !.name = t, !.modified = now]]
      BY <2>0, <2>2 DEF Retext, OutlineNodes
    <3>3. outline' \in [Items -> OutlineNodes]
      BY <2>0, <3>1, <3>2
    <3> QED
      BY <2>0, <2>2, <3>3 DEF Retext, ReportsTypeOK, OutlineNodes
  <2>3. CASE HalfDay
    <3>1. DaySeconds \div 2 \in Nat
      BY DEF DaySeconds
    <3>2. now' \in Nat /\ outline' = outline
      BY <2>0, <2>3, <3>1 DEF HalfDay
    <3> QED
      BY <2>0, <3>2 DEF ReportsTypeOK, OutlineNodes
  <2>4. CASE UNCHANGED reportVars
    BY <2>4 DEF ReportsTypeOK, reportVars
  <2> QED
    BY <2>1, <2>2, <2>3, <2>4 DEF ReportsNext
<1> QED
  BY <1>1, <1>2, PTL DEF ReportSpec

LEMMA LesserOf ==
  ASSUME NEW m \in Nat, NEW n \in Nat
  PROVE  Min({m, n}) = IF m <= n THEN m ELSE n
<1> DEFINE k == IF m <= n THEN m ELSE n
<1>1. k \in {m, n} /\ \A y \in {m, n} : k <= y
  OBVIOUS
<1> HIDE DEF k
<1>2. Min({m, n}) \in {m, n} /\ \A y \in {m, n} : Min({m, n}) <= y
  BY <1>1 DEF Min
<1>3. PICK x : x = Min({m, n})
  OBVIOUS
<1>4. x \in Int /\ k \in Int /\ x <= k /\ k <= x
  BY <1>1, <1>2, <1>3
<1>5. x = k
  BY <1>4
<1> QED
  BY <1>3, <1>5 DEF k

LEMMA TruncatedFacts ==
  ASSUME NEW S, NEW s \in Seq(S), NEW limit \in Nat
  PROVE  /\ Truncated(s, limit) \in Seq(S) /\ Len(Truncated(s, limit)) = Min({limit, Len(s)})
         /\ Len(Truncated(s, limit)) <= Len(s)
         /\ \A i \in 1..Len(Truncated(s, limit)) : Truncated(s, limit)[i] = s[i]
         /\ limit >= Len(s) => Truncated(s, limit) = s
<1>1. Len(s) \in Nat /\ \A i \in 1..Len(s) : s[i] \in S
  BY LenProperties, ElementOfSeq
<1>2. PICK k : k = Min({limit, Len(s)})
  OBVIOUS
<1>3. k \in Nat /\ k <= Len(s) /\ (limit >= Len(s) => k = Len(s))
  BY <1>1, <1>2, LesserOf
<1>4. PICK r : r = SubSeq(s, 1, k)
  OBVIOUS
<1>5. r \in Seq(S) /\ Len(r) = k
  BY <1>3, <1>4, SubPrefix
<1>6. \A i \in 1..k : r[i] = s[i]
  BY <1>1, <1>3, <1>4
<1>7. k = Len(s) => r = s
  <2> SUFFICES ASSUME k = Len(s) PROVE r = s
    OBVIOUS
  <2>1. Len(r) = Len(s) /\ \A i \in 1..Len(s) : r[i] = s[i]
    BY <1>5, <1>6
  <2> QED
    BY <1>5, <2>1, SeqEqual
<1>8. Truncated(s, limit) = r
  BY <1>2, <1>4 DEF Truncated
<1> QED
  BY <1>2, <1>3, <1>5, <1>6, <1>7, <1>8

LEMMA DueInType ==
  ASSUME NEW t \in Texts
  PROVE  DueIn(t) \in Int
<1> DEFINE dated == {p \in 1 .. 3 : t[p] >= 0}
<1>1. t \in [1..3 -> Nat \cup {NoDate, Invalid}] /\ {NoDate, Invalid} \subseteq Int
  BY ReportConstants DEF NoDate, Invalid
<1>2. CASE dated = {}
  BY <1>1, <1>2 DEF DueIn
<1>3. CASE dated # {}
  <2>1. dated \subseteq Nat /\ dated \subseteq 1..3
    OBVIOUS
  <2> HIDE DEF dated
  <2>2. \E x \in dated : \A y \in dated : x <= y
    BY <1>3, <2>1, Least
  <2>3. Min(dated) \in dated
    BY <2>2 DEF Min
  <2>4. DueIn(t) = t[Min(dated)]
    BY <1>3 DEF DueIn, dated
  <2>5. PICK p : p = Min(dated)
    OBVIOUS
  <2>6. p \in 1..3 /\ DueIn(t) = t[p]
    BY <2>1, <2>3, <2>4, <2>5
  <2> QED
    BY <1>1, <2>6
<1> QED
  BY <1>2, <1>3

LEMMA DueType ==
  ASSUME NEW n \in ReportNodes
  PROVE  DueOf(n) \in Int
<1>1. n.name \in Texts /\ n.note \in Texts
  BY DEF ReportNodes
<1>2. DueIn(n.name) \in Int /\ DueIn(n.note) \in Int
  BY <1>1, DueInType
<1> QED
  BY <1>2 DEF DueOf

LEMMA WalkFacts ==
  ASSUME NEW o \in [Items -> OutlineNodes], NEW w \in WalksOf(o)
  PROVE  /\ w \in Seq(ReportNodes) /\ Len(w) = Cardinality(Items) /\ Len(w) \in Nat
         /\ ToSet(w) = {NodeAt(o, id) : id \in Items}
<1>1. PICK s \in SetToSeqs(Items) : w = [i \in DOMAIN s |-> NodeAt(o, s[i])]
  BY DEF WalksOf
<1> DEFINE n == Cardinality(Items)
<1>2. n \in Nat /\ IsFiniteSet(Items)
  BY ReportConstants, FS_CardinalityType
<1>3. s \in [1..n -> Items] /\ \A i, j \in 1..n : i # j => s[i] # s[j]
  BY DEF SetToSeqs
<1> HIDE DEF n
<1>4. \A id \in Items : NodeAt(o, id) \in ReportNodes
  BY DEF OutlineNodes, NodeAt, ReportNodes
<1>5. w \in [1..n -> ReportNodes] /\ \A i \in 1..n : w[i] = NodeAt(o, s[i])
  BY <1>1, <1>3, <1>4
<1>6. w \in Seq(ReportNodes) /\ Len(w) = n
  BY <1>2, <1>5
<1>7. \A id \in Items : \E i \in 1..n : s[i] = id
  <2>1. s \in Injection(1..n, Items)
    BY <1>3 DEF Injection, IsInjective
  <2>2. IsFiniteSet(1..n) /\ Cardinality(1..n) = n
    BY <1>2, FS_Interval
  <2>3. s \in Surjection(1..n, Items)
    BY <1>2, <2>1, <2>2, FS_Injection DEF n
  <2> QED
    BY <2>3 DEF Surjection
<1>8. \A x : x \in ToSet(w) <=> \E i \in 1..n : w[i] = x
  BY <1>6, InRange
<1>9. ToSet(w) = {NodeAt(o, id) : id \in Items}
  BY <1>3, <1>5, <1>7, <1>8
<1> QED
  BY <1>2, <1>6, <1>9 DEF n

\* The soonest come first, and none is lost.
LEMMA SoonestFacts ==
  ASSUME NEW s \in Seq(ReportNodes)
  PROVE  /\ SoonestFirst(s) \in Seq(ReportNodes) /\ Len(SoonestFirst(s)) = Len(s)
         /\ ToSet(SoonestFirst(s)) = ToSet(s)
         /\ \A i, j \in 1..Len(s) : i <= j => DueOf(SoonestFirst(s)[i]) <= DueOf(SoonestFirst(s)[j])
<1> DEFINE D == ToSet(s)
           key == [n \in D |-> DueOf(n)]
           r == SortedBy(s, key)
<1>1. D \subseteq ReportNodes /\ \A x : x \in D <=> \E i \in 1..Len(s) : s[i] = x
  BY InRange
<1>2. s \in Seq(D)
  <2>1. \A i \in 1..Len(s) : s[i] \in D
    BY <1>1
  <2>2. s = [i \in 1..Len(s) |-> s[i]] /\ Len(s) \in Nat
    BY LenProperties
  <2> HIDE DEF D
  <2> QED
    BY <2>1, <2>2
<1>3. key \in [D -> Int] /\ \A n \in D : key[n] = DueOf(n)
  <2>1. \A n \in D : DueOf(n) \in Int
    BY <1>1, DueType
  <2> HIDE DEF D
  <2> QED
    BY <2>1
<1>0. SoonestFirst(s) = r
  BY DEF SoonestFirst
<1> HIDE DEF D, key
<1>4. r \in Seq(D) /\ Len(r) = Len(s) /\ ToSet(r) = ToSet(s) /\ Orderly(r, key)
  BY <1>2, <1>3, SortedFacts
<1> HIDE DEF r
<1>5. r \in Seq(ReportNodes)
  BY <1>1, <1>4, SeqWidens
<1>6. \A i \in 1..Len(s) : r[i] \in D
  BY <1>4, ElementOfSeq
<1>7. \A i, j \in 1..Len(s) : i <= j => DueOf(r[i]) <= DueOf(r[j])
  BY <1>3, <1>4, <1>6 DEF Orderly
<1> QED
  BY <1>0, <1>4, <1>5, <1>7 DEF D

LEMMA IdsOf ==
  ASSUME NEW s \in Seq(ReportNodes)
  PROVE  IdsIn(s) = {n.id : n \in ToSet(s)}
<1>1. DOMAIN s = 1..Len(s) /\ \A x : x \in ToSet(s) <=> \E i \in 1..Len(s) : s[i] = x
  BY LenProperties, InRange
<1> QED
  BY <1>1 DEF IdsIn

LEMMA CountIsLength ==
  ASSUME NEW w \in Seq(ReportNodes), NEW T
  PROVE  CountOf(w, T) = Len(Keep(w, T))
BY KeepCounts DEF CountOf

\* A cap as long as the walk cuts nothing.
LEMMA NothingCut ==
  ASSUME NEW w \in Seq(ReportNodes), NEW T, NEW limit \in Nat, limit >= Len(w)
  PROVE  Truncated(Keep(w, T), limit) = Keep(w, T)
<1>1. /\ Keep(w, T) \in Seq(ReportNodes) /\ Keep(w, ReportNodes \ T) \in Seq(ReportNodes)
      /\ Len(Keep(w, T)) + Len(Keep(w, ReportNodes \ T)) = Len(w)
  BY KeepIn, KeepSplits
<1>2. Len(Keep(w, T)) \in Nat /\ Len(Keep(w, ReportNodes \ T)) \in Nat
  BY <1>1, LenProperties
<1>3. limit >= Len(Keep(w, T))
  BY <1>1, <1>2
<1> QED
  BY <1>1, <1>3, TruncatedFacts

LEMMA CountSplits ==
  ASSUME NEW w \in Seq(ReportNodes), NEW P, NEW Q, P \cap Q = {}
  PROVE  CountOf(w, P \cup Q) - CountOf(w, P) = CountOf(w, Q)
<1> DEFINE I(T) == {i \in DOMAIN w : w[i] \in T}
<1>1. DOMAIN w = 1..Len(w) /\ Len(w) \in Nat
  BY LenProperties
<1>2. IsFiniteSet(DOMAIN w)
  BY <1>1, FS_Interval
<1>3. \A T : IsFiniteSet(I(T)) /\ Cardinality(I(T)) \in Nat
  BY <1>2, FS_Subset, FS_CardinalityType
<1>4. I(P \cup Q) = I(P) \cup I(Q) /\ I(P) \cap I(Q) = {}
  OBVIOUS
<1>5. \A T : CountOf(w, T) = Cardinality(I(T))
  BY DEF CountOf
<1>6. PICK A, B : A = I(P) /\ B = I(Q)
  OBVIOUS
<1>7. IsFiniteSet(A) /\ IsFiniteSet(B) /\ A \cap B = {} /\ I(P \cup Q) = A \cup B
      /\ Cardinality(A) \in Nat /\ Cardinality(B) \in Nat
  BY <1>3, <1>4, <1>6
<1>8. Cardinality(A \cup B) = Cardinality(A) + Cardinality(B) - Cardinality(A \cap B)
  BY <1>7, FS_Union
<1>9. Cardinality(A \cap B) = 0
  BY <1>7, FS_EmptySet
<1>10. CountOf(w, P \cup Q) = Cardinality(A \cup B) /\ CountOf(w, P) = Cardinality(A)
       /\ CountOf(w, Q) = Cardinality(B)
  BY <1>5, <1>6, <1>7
<1> QED
  BY <1>7, <1>8, <1>9, <1>10

\* What each list holds, of a walk w.
LEMMA OverdueFacts ==
  ASSUME NEW w \in Seq(ReportNodes), NEW today \in Nat
  PROVE  /\ Overdue(w, today, FALSE) \in Seq(ReportNodes)
         /\ ToSet(Overdue(w, today, FALSE)) = {n \in ToSet(w) : IsOverdue(n, today)}
         /\ Len(Overdue(w, today, FALSE)) = CountOf(w, {n \in ToSet(w) : IsOverdue(n, today)})
         /\ \A i, j \in 1..Len(Overdue(w, today, FALSE)) : i <= j =>
              DueOf(Overdue(w, today, FALSE)[i]) <= DueOf(Overdue(w, today, FALSE)[j])
<1> DEFINE T == {n \in ToSet(w) : IsOverdue(n, today)}
           s == Keep(w, T)
<1>1. Late(w, today, FALSE) = T
  BY DEF Late, Shown, IsOverdue
<1>2. Overdue(w, today, FALSE) = SoonestFirst(s)
  BY <1>1 DEF Overdue
<1>3. s \in Seq(ReportNodes) /\ ToSet(s) = ToSet(w) \cap T
  BY KeepIn, RangeKeep
<1>4. ToSet(w) \cap T = T
  OBVIOUS
<1>5. Len(s) = CountOf(w, T)
  BY CountIsLength
<1> HIDE DEF s, T
<1>6. PICK r : r = SoonestFirst(s)
  OBVIOUS
<1>7. /\ r \in Seq(ReportNodes) /\ Len(r) = Len(s) /\ ToSet(r) = ToSet(s)
      /\ \A i, j \in 1..Len(s) : i <= j => DueOf(r[i]) <= DueOf(r[j])
  BY <1>3, <1>6, SoonestFacts
<1>8. Overdue(w, today, FALSE) = r
  BY <1>2, <1>6
<1> QED
  BY <1>3, <1>4, <1>5, <1>7, <1>8 DEF T

OpenDue(w, first, last) == {n \in ToSet(w) : IsOpen(n) /\ DueOf(n) \in first .. last}
OfTheStatus(w, status) == {n \in ToSet(w) : OfStatus(n, status)}
TodosOf(w, status) == {n \in ToSet(w) : n.todo /\ OfStatus(n, status)}

LEMMA UpcomingFacts ==
  ASSUME NEW w \in Seq(ReportNodes), NEW today \in Nat, NEW days \in Nat
  PROVE  /\ Upcoming(w, today, days, FALSE) \in Seq(ReportNodes)
         /\ ToSet(Upcoming(w, today, days, FALSE)) = OpenDue(w, today, today + days)
         /\ Len(Upcoming(w, today, days, FALSE)) = CountOf(w, OpenDue(w, today, today + days))
<1> DEFINE T == OpenDue(w, today, today + days)
           s == Keep(w, T)
<1>1. {n \in ToSet(w) : Shown(n, FALSE) /\ DueOf(n) \in today .. today + days} = T
  <2>1. NoDate \notin today .. today + days
    BY DEF NoDate
  <2> QED
    BY <2>1 DEF Shown, OpenDue
<1>2. Upcoming(w, today, days, FALSE) = SoonestFirst(s)
  BY <1>1 DEF Upcoming
<1>3. s \in Seq(ReportNodes) /\ ToSet(s) = ToSet(w) \cap T
  BY KeepIn, RangeKeep
<1>4. ToSet(w) \cap T = T
  BY DEF OpenDue
<1>5. Len(s) = CountOf(w, T)
  BY CountIsLength
<1> HIDE DEF s
<1>6. PICK r : r = SoonestFirst(s)
  OBVIOUS
<1>7. r \in Seq(ReportNodes) /\ Len(r) = Len(s) /\ ToSet(r) = ToSet(s)
  BY <1>3, <1>6, SoonestFacts
<1> QED
  BY <1>2, <1>3, <1>4, <1>5, <1>6, <1>7

LEMMA TodoFacts ==
  ASSUME NEW w \in Seq(ReportNodes), NEW limit \in Nat, limit >= Len(w), NEW status
  PROVE  /\ Len(TodoList(w, status, Items, limit)) = CountOf(w, TodosOf(w, status))
         /\ IdsIn(TodoList(w, status, Items, limit)) = {n.id : n \in TodosOf(w, status)}
         /\ IdsIn(BulkCandidates(w, Items, status, limit)) = {n.id : n \in OfTheStatus(w, status)}
<1> DEFINE T == TodosOf(w, status)
           R == OfTheStatus(w, status)
<1>0. \A n \in ToSet(w) : n.id \in Items
  <2>1. ToSet(w) \subseteq ReportNodes
    BY InRange
  <2>2. \A n \in ReportNodes : n.id \in Items
    BY DEF ReportNodes
  <2> QED
    BY <2>1, <2>2
<1>1. {n \in ToSet(w) : n.todo /\ OfStatus(n, status) /\ n.id \in Items} = T
  BY <1>0 DEF TodosOf
<1>2. {n \in ToSet(w) : n.id \in Items /\ OfStatus(n, status)} = R
  BY <1>0 DEF OfTheStatus
<1>3. TodoList(w, status, Items, limit) = Truncated(Keep(w, T), limit)
  BY <1>1 DEF TodoList
<1>4. BulkCandidates(w, Items, status, limit) = Truncated(Keep(w, R), limit)
  BY <1>2 DEF BulkCandidates
<1>5. Truncated(Keep(w, T), limit) = Keep(w, T) /\ Truncated(Keep(w, R), limit) = Keep(w, R)
  BY NothingCut
<1>6. Keep(w, T) \in Seq(ReportNodes) /\ Keep(w, R) \in Seq(ReportNodes)
      /\ ToSet(Keep(w, T)) = ToSet(w) \cap T /\ ToSet(Keep(w, R)) = ToSet(w) \cap R
  BY KeepIn, RangeKeep
<1>7. ToSet(w) \cap T = T /\ ToSet(w) \cap R = R
  BY DEF TodosOf, OfTheStatus
<1>8. Len(Keep(w, T)) = CountOf(w, T)
  BY CountIsLength
<1>9. IdsIn(Keep(w, T)) = {n.id : n \in T} /\ IdsIn(Keep(w, R)) = {n.id : n \in R}
  <2>1. \A s \in Seq(ReportNodes) : IdsIn(s) = {n.id : n \in ToSet(s)}
    BY IdsOf
  <2> QED
    BY <1>6, <1>7, <2>1
<1> QED
  BY <1>3, <1>4, <1>5, <1>8, <1>9

\* What the cap of the daily review drops is no more urgent than what it keeps.
UrgentKept(r, c) == \A i \in DOMAIN r : r[i].id \notin IdsIn(c) =>
                      \A j \in DOMAIN c : DueOf(c[j]) <= DueOf(r[i])

LEMMA CapKeepsTheMostUrgent ==
  ASSUME NEW w \in Seq(ReportNodes), NEW today \in Nat, NEW limit \in Nat
  PROVE  /\ Len(Truncated(Overdue(w, today, FALSE), limit))
              = Min({limit, Len(Overdue(w, today, FALSE))})
         /\ UrgentKept(Overdue(w, today, FALSE), Truncated(Overdue(w, today, FALSE), limit))
<1>0. PICK r, c : r = Overdue(w, today, FALSE) /\ c = Truncated(r, limit)
  OBVIOUS
<1>1. /\ r \in Seq(ReportNodes)
      /\ \A i, j \in 1..Len(r) : i <= j => DueOf(r[i]) <= DueOf(r[j])
  BY <1>0, OverdueFacts
<1>2. /\ c \in Seq(ReportNodes) /\ Len(c) = Min({limit, Len(r)}) /\ Len(c) <= Len(r)
      /\ \A i \in 1..Len(c) : c[i] = r[i]
  <2> DEFINE t == Truncated(r, limit)
  <2>1. /\ t \in Seq(ReportNodes) /\ Len(t) = Min({limit, Len(r)}) /\ Len(t) <= Len(r)
        /\ \A i \in 1..Len(t) : t[i] = r[i]
    BY <1>1, TruncatedFacts
  <2>2. c = t
    BY <1>0, Zenon
  <2> HIDE DEF t
  <2> QED
    BY <2>1, <2>2, Zenon
<1>3. DOMAIN r = 1..Len(r) /\ DOMAIN c = 1..Len(c) /\ Len(r) \in Nat /\ Len(c) \in Nat
  BY <1>1, <1>2, LenProperties
<1>4. ASSUME NEW i \in DOMAIN r, r[i].id \notin IdsIn(c), NEW j \in DOMAIN c
      PROVE  DueOf(c[j]) <= DueOf(r[i])
  <2>1. i \notin 1..Len(c)
    <3> SUFFICES ASSUME i \in 1..Len(c) PROVE FALSE
      OBVIOUS
    <3>1. c[i] = r[i] /\ i \in DOMAIN c
      BY <1>2, <1>3
    <3>2. c[i].id \in IdsIn(c)
      BY <3>1 DEF IdsIn
    <3> QED
      BY <1>4, <3>1, <3>2
  <2>0. i \in 1..Len(r) /\ j \in 1..Len(c) /\ Len(c) <= Len(r)
    BY <1>2, <1>3
  <2>2. j <= i /\ j \in 1..Len(r) /\ i \in 1..Len(r)
    <3>1. PICK m, n : m = Len(c) /\ n = Len(r)
      OBVIOUS
    <3>2. i \in 1..n /\ i \notin 1..m /\ j \in 1..m /\ m <= n /\ m \in Nat /\ n \in Nat
      BY <1>3, <2>0, <2>1, <3>1
    <3>3. j <= i /\ j \in 1..n
      BY <3>2
    <3> QED
      BY <3>1, <3>2, <3>3
  <2>3. c[j] = r[j]
    BY <1>2, <2>0
  <2> QED
    BY <1>1, <2>2, <2>3
<1>5. UrgentKept(r, c) /\ Len(c) = Min({limit, Len(r)})
  BY <1>2, <1>4 DEF UrgentKept
<1> QED
  BY <1>0, <1>5

\* The seven ways to ask, at any time.
LEMMA OneStory ==
  ASSUME NEW o \in [Items -> OutlineNodes], NEW w \in WalksOf(o), NEW today \in Nat, NEW ms
  PROVE  LET overdue == Overdue(w, today, FALSE)
             upcoming == Upcoming(w, today, Horizon, FALSE)
             later == {id \in Items : IsOpen(NodeAt(o, id)) /\ DueOf(NodeAt(o, id)) > today + Horizon}
         IN /\ {id \in Items : IsOpen(NodeAt(o, id)) /\ DueOf(NodeAt(o, id)) # NoDate}
                 = IdsIn(overdue) \cup IdsIn(upcoming) \cup later
            /\ IdsIn(overdue) \cap (IdsIn(upcoming) \cup later) = {}
            /\ IdsIn(upcoming) \cap later = {}
<1>1. /\ w \in Seq(ReportNodes) /\ ToSet(w) = {NodeAt(o, id) : id \in Items}
      /\ \A id \in Items : NodeAt(o, id) \in ReportNodes /\ NodeAt(o, id).id = id
  <2>1. \A id \in Items : NodeAt(o, id) \in ReportNodes /\ NodeAt(o, id).id = id
    BY DEF NodeAt, OutlineNodes, ReportNodes
  <2> QED
    BY <2>1, WalkFacts
<1>2. Horizon \in Nat
  BY ReportConstants
<1> DEFINE T == OpenDue(w, today, today + Horizon)
           L == {n \in ToSet(w) : IsOverdue(n, today)}
<1>3. /\ Overdue(w, today, FALSE) \in Seq(ReportNodes) /\ ToSet(Overdue(w, today, FALSE)) = L
      /\ Upcoming(w, today, Horizon, FALSE) \in Seq(ReportNodes)
      /\ ToSet(Upcoming(w, today, Horizon, FALSE)) = T
  <2>1. w \in Seq(ReportNodes)
    BY <1>1
  <2>2. Overdue(w, today, FALSE) \in Seq(ReportNodes) /\ ToSet(Overdue(w, today, FALSE)) = L
    BY <2>1, OverdueFacts
  <2>3. /\ Upcoming(w, today, Horizon, FALSE) \in Seq(ReportNodes)
        /\ ToSet(Upcoming(w, today, Horizon, FALSE)) = T
    BY <1>2, <2>1, UpcomingFacts
  <2> QED
    BY <2>2, <2>3
<1>4. IdsIn(Overdue(w, today, FALSE)) = {n.id : n \in L}
      /\ IdsIn(Upcoming(w, today, Horizon, FALSE)) = {n.id : n \in T}
  <2>1. \A s \in Seq(ReportNodes) : IdsIn(s) = {n.id : n \in ToSet(s)}
    BY IdsOf
  <2> QED
    BY <1>3, <2>1
<1>5. PICK due \in [Items -> Int] : \A id \in Items : due[id] = DueOf(NodeAt(o, id))
  <2>1. \A id \in Items : DueOf(NodeAt(o, id)) \in Int
    BY <1>1, DueType
  <2>2. [id \in Items |-> DueOf(NodeAt(o, id))] \in [Items -> Int]
    BY <2>1
  <2> QED
    BY <2>2
<1>6. PICK open : open = {id \in Items : IsOpen(NodeAt(o, id))}
  OBVIOUS
<1>7. {n.id : n \in L} = {id \in open : due[id] # NoDate /\ due[id] < today}
  BY <1>1, <1>5, <1>6 DEF IsOverdue
<1>8. {n.id : n \in T} = {id \in open : due[id] \in today .. today + Horizon}
  BY <1>1, <1>5, <1>6 DEF OpenDue
<1>9. {id \in Items : IsOpen(NodeAt(o, id)) /\ DueOf(NodeAt(o, id)) > today + Horizon}
        = {id \in open : due[id] > today + Horizon}
  BY <1>5, <1>6
<1>10. {id \in Items : IsOpen(NodeAt(o, id)) /\ DueOf(NodeAt(o, id)) # NoDate}
        = {id \in open : due[id] # NoDate}
  BY <1>5, <1>6
<1> HIDE DEF T, L
<1>11. /\ \A id \in open : due[id] \in Int
       /\ NoDate < today /\ NoDate \in Int
  BY <1>5, <1>6 DEF NoDate
<1> DEFINE A == {id \in open : due[id] # NoDate /\ due[id] < today}
           B == {id \in open : due[id] \in today .. today + Horizon}
           C == {id \in open : due[id] > today + Horizon}
<1>12. {id \in open : due[id] # NoDate} = A \cup B \cup C
  BY <1>2, <1>11
<1>13. A \cap (B \cup C) = {} /\ B \cap C = {}
  BY <1>2, <1>11
<1> QED
  BY <1>4, <1>7, <1>8, <1>9, <1>10, <1>12, <1>13

LEMMA CountsAgree ==
  ASSUME NEW o \in [Items -> OutlineNodes], NEW w \in WalksOf(o), NEW today \in Nat, NEW ms
  PROVE  LET daily == Daily(w, today, ms)
             summary == Summary(w, today, ms)
         IN /\ summary.overdue = Len(Overdue(w, today, FALSE))
            /\ daily.dueToday = Len(Upcoming(w, today, 0, FALSE))
            /\ daily.pending = Len(TodoList(w, "pending", Items, Everything))
            /\ summary.todos - summary.completed = daily.pending
            /\ summary.completed = Len(TodoList(w, "completed", Items, Everything))
<1> DEFINE N == ToSet(w)
           P == {n \in N : n.todo /\ IsOpen(n)}
           Q == {n \in N : n.todo /\ n.done}
<1>1. w \in Seq(ReportNodes) /\ Everything \in Nat /\ Everything >= Len(w)
  <2>1. w \in Seq(ReportNodes) /\ Len(w) = Cardinality(Items) /\ Len(w) \in Nat
    BY WalkFacts
  <2> QED
    BY <2>1 DEF Everything
<1>2. /\ Summary(w, today, ms).overdue = CountOf(w, {n \in N : IsOverdue(n, today)})
      /\ Summary(w, today, ms).todos = CountOf(w, {n \in N : n.todo})
      /\ Summary(w, today, ms).completed = CountOf(w, Q)
  BY DEF Summary
<1>3. /\ Daily(w, today, ms).dueToday = CountOf(w, {n \in N : IsOpen(n) /\ DueOf(n) = today})
      /\ Daily(w, today, ms).pending = CountOf(w, P)
  BY DEF Daily
<1>4. Len(Overdue(w, today, FALSE)) = CountOf(w, {n \in N : IsOverdue(n, today)})
  BY <1>1, OverdueFacts
<1>5. Len(Upcoming(w, today, 0, FALSE)) = CountOf(w, {n \in N : IsOpen(n) /\ DueOf(n) = today})
  <2>1. \A d : d \in today .. today + 0 <=> d = today
    OBVIOUS
  <2>2. {n \in N : IsOpen(n) /\ DueOf(n) = today} = OpenDue(w, today, today + 0)
    BY <2>1 DEF OpenDue
  <2>3. Len(Upcoming(w, today, 0, FALSE)) = CountOf(w, OpenDue(w, today, today + 0))
    BY <1>1, UpcomingFacts
  <2> QED
    BY <2>2, <2>3
<1>6. Len(TodoList(w, "pending", Items, Everything)) = CountOf(w, P)
  <2>1. P = TodosOf(w, "pending")
    BY DEF OfStatus, TodosOf
  <2>2. Len(TodoList(w, "pending", Items, Everything)) = CountOf(w, TodosOf(w, "pending"))
    BY <1>1, TodoFacts
  <2> QED
    BY <2>1, <2>2
<1>7. Len(TodoList(w, "completed", Items, Everything)) = CountOf(w, Q)
  <2>1. Q = TodosOf(w, "completed")
    BY DEF OfStatus, TodosOf
  <2>2. Len(TodoList(w, "completed", Items, Everything)) = CountOf(w, TodosOf(w, "completed"))
    BY <1>1, TodoFacts
  <2> QED
    BY <2>1, <2>2
<1>8. CountOf(w, {n \in N : n.todo}) - CountOf(w, Q) = CountOf(w, P)
  <2>1. {n \in N : n.todo} = Q \cup P /\ Q \cap P = {}
    BY DEF IsOpen
  <2> HIDE DEF P, Q
  <2> QED
    BY <1>1, <2>1, CountSplits
<1> QED
  BY <1>2, <1>3, <1>4, <1>5, <1>6, <1>7, <1>8

\* A bulk update that a status selects finds the todos a list of them shows.
LEMMA ListsAgree ==
  ASSUME NEW o \in [Items -> OutlineNodes], NEW w \in WalksOf(o), NEW status
  PROVE  IdsIn(TodoList(w, status, Items, Everything))
           = {id \in IdsIn(BulkCandidates(w, Items, status, Everything)) : NodeAt(o, id).todo}
<1>1. /\ w \in Seq(ReportNodes) /\ Len(w) = Cardinality(Items) /\ Len(w) \in Nat
      /\ ToSet(w) = {NodeAt(o, id) : id \in Items}
  BY WalkFacts
<1>2. \A id \in Items : NodeAt(o, id).id = id
  BY DEF NodeAt
<1> DEFINE T == TodosOf(w, status)
           R == OfTheStatus(w, status)
<1>3. {n.id : n \in T} = {id \in {n.id : n \in R} : NodeAt(o, id).todo}
  BY <1>1, <1>2 DEF TodosOf, OfTheStatus
<1>4. Everything \in Nat /\ Everything >= Len(w)
  BY <1>1 DEF Everything
<1>5. /\ IdsIn(TodoList(w, status, Items, Everything)) = {n.id : n \in T}
      /\ IdsIn(BulkCandidates(w, Items, status, Everything)) = {n.id : n \in R}
  BY <1>1, <1>4, TodoFacts
<1> QED
  BY <1>3, <1>5

(* The reports tell one story of any outline at any time: the lists split    *)
(* what is open and dated, the counts are the lengths of the lists, and a    *)
(* cap drops the least urgent (compute_overdue, compute_upcoming,            *)
(* filter_todos, filter_bulk_candidates, compute_project_summary,            *)
(* compute_daily_review).                                                    *)
THEOREM ReportsAlwaysAgree == ReportSpec => []ReportsAgree
<1>1. ReportsTypeOK => ReportsAgree
  <2> SUFFICES ASSUME ReportsTypeOK, NEW w \in Walks
               PROVE  Agree(w, now \div DaySeconds, now * 1000)
    BY DEF ReportsAgree
  <2>1. PICK o, today, ms : o = outline /\ today = now \div DaySeconds /\ ms = now * 1000
    OBVIOUS
  <2>2. o \in [Items -> OutlineNodes] /\ today \in Nat
    BY <2>1 DEF ReportsTypeOK, OutlineNodes, DaySeconds
  <2>3. \A id : NodeOf(id) = NodeAt(o, id)
    BY <2>1 DEF NodeOf, NodeAt
  <2>5. w \in WalksOf(o)
    BY <2>3 DEF Walks, WalksOf
  <2>6. w \in Seq(ReportNodes) /\ Cap \in Nat
    BY <2>2, <2>5, WalkFacts, ReportConstants
  <2>7. Agree(w, today, ms)
    <3> DEFINE overdue == Overdue(w, today, FALSE)
               upcoming == Upcoming(w, today, Horizon, FALSE)
               later == {id \in Items : IsOpen(NodeOf(id)) /\ DueOf(NodeOf(id)) > today + Horizon}
               daily == Daily(w, today, ms)
               summary == Summary(w, today, ms)
    <3>1. /\ {id \in Items : IsOpen(NodeOf(id)) /\ DueOf(NodeOf(id)) # NoDate}
               = IdsIn(overdue) \cup IdsIn(upcoming) \cup later
          /\ IdsIn(overdue) \cap (IdsIn(upcoming) \cup later) = {}
          /\ IdsIn(upcoming) \cap later = {}
      <4> DEFINE atLater == {id \in Items : /\ IsOpen(NodeAt(o, id))
                                            /\ DueOf(NodeAt(o, id)) > today + Horizon}
      <4>1. /\ {id \in Items : IsOpen(NodeAt(o, id)) /\ DueOf(NodeAt(o, id)) # NoDate}
                 = IdsIn(overdue) \cup IdsIn(upcoming) \cup atLater
            /\ IdsIn(overdue) \cap (IdsIn(upcoming) \cup atLater) = {}
            /\ IdsIn(upcoming) \cap atLater = {}
        BY <2>2, <2>5, OneStory
      <4>2. later = atLater
        BY <2>3
      <4>3. {id \in Items : IsOpen(NodeOf(id)) /\ DueOf(NodeOf(id)) # NoDate}
              = {id \in Items : IsOpen(NodeAt(o, id)) /\ DueOf(NodeAt(o, id)) # NoDate}
        BY <2>3
      <4> HIDE DEF overdue, upcoming, later, atLater
      <4> QED
        BY <4>1, <4>2, <4>3
    <3>2. /\ summary.overdue = Len(overdue)
          /\ daily.dueToday = Len(Upcoming(w, today, 0, FALSE))
          /\ daily.pending = Len(TodoList(w, "pending", Items, Everything))
          /\ summary.todos - summary.completed = daily.pending
          /\ summary.completed = Len(TodoList(w, "completed", Items, Everything))
      BY <2>2, <2>5, CountsAgree
    <3>3. \A status \in {"pending", "completed"} :
             IdsIn(TodoList(w, status, Items, Everything))
               = {id \in IdsIn(BulkCandidates(w, Items, status, Everything)) : NodeOf(id).todo}
      <4> SUFFICES ASSUME NEW status
                   PROVE  IdsIn(TodoList(w, status, Items, Everything))
                            = {id \in IdsIn(BulkCandidates(w, Items, status, Everything)) :
                                 NodeOf(id).todo}
        OBVIOUS
      <4>1. IdsIn(TodoList(w, status, Items, Everything))
              = {id \in IdsIn(BulkCandidates(w, Items, status, Everything)) : NodeAt(o, id).todo}
        BY <2>2, <2>5, ListsAgree
      <4> QED
        BY <2>3, <4>1
    <3>4. daily.overdue = Truncated(overdue, Cap) /\ daily.overdueCount = Len(daily.overdue)
      BY DEF Daily
    <3>5. Len(daily.overdue) = Min({Cap, Len(overdue)}) /\ UrgentKept(overdue, daily.overdue)
      <4>1. /\ Len(Truncated(overdue, Cap)) = Min({Cap, Len(overdue)})
            /\ UrgentKept(overdue, Truncated(overdue, Cap))
        BY <2>2, <2>6, CapKeepsTheMostUrgent
      <4> HIDE DEF overdue, daily
      <4> QED
        BY <3>4, <4>1
    <3> QED
      BY <3>1, <3>2, <3>3, <3>4, <3>5 DEF Agree, UrgentKept
  <2> QED
    BY Zenon, <2>1, <2>7
<1> QED
  BY <1>1, ReportsTyped, PTL
=============================================================================
