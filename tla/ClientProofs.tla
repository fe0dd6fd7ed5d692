----------------------------- MODULE ClientProofs -----------------------------
(***************************************************************************)
(* Proofs about the API client: the children-listing cache, for any number *)
(* of nodes, readers and writers, and the request path, for any number of  *)
(* tasks, any budgets and hints, any bucket and any retry configuration.   *)
(***************************************************************************)
EXTENDS ListingCache, RequestPath, FiniteSetTheorems, TLAPS

-----------------------------------------------------------------------------
(* The children-listing cache.                                             *)

LEMMA NoListingType == NoListing \in Listings
BY DEF NoListing, Listings, Items

LEMMA NoReadType == NoRead \in ReadStates
BY DEF NoRead, ReadStates, Items, Keys

LEMMA ChildrenType ==
  ASSUME TypeOK, NEW k
  PROVE  Children(k) \in Items
BY DEF TypeOK, Children, Items

LEMMA BusyWriter ==
  ASSUME TypeOK, NEW w \in Writers, writer[w].pc # "idle"
  PROVE  writer[w] \in WriteStates
BY DEF TypeOK, NoWrite

LEMMA PurgedType == TypeOK => Purged \in [Keys -> Listings]
BY NoListingType DEF TypeOK, Purged

LEMMA KeptType == TypeOK => Kept \in [Keys -> Listings]
<1> SUFFICES ASSUME TypeOK PROVE Kept \in [Keys -> Listings]
  OBVIOUS
<1>1. CASE Cleared
  BY <1>1, NoListingType DEF Kept, Cleared
<1>2. CASE Overflows(listings) /\ ~Overflows(Purged)
  BY <1>2, PurgedType DEF Kept, Cleared
<1>3. CASE ~Overflows(listings)
  BY <1>3 DEF Kept, Cleared, TypeOK
<1> QED
  BY <1>1, <1>2, <1>3 DEF Cleared

LEMMA WithoutType ==
  ASSUME TypeOK, NEW ks
  PROVE  Without(ks) \in [Keys -> Listings]
BY NoListingType DEF TypeOK, Without

LEMMA DropsType ==
  ASSUME TypeOK, NEW op \in WriteStates
  PROVE  Funnelled(op) \cup (IF op.handled THEN Named(op) ELSE {}) \in SUBSET (Keys \cup {None})
<1>1. \A n \in Keys \cup {None} : Containing(n) \subseteq Keys \cup {None} \cup {memberOf[n]}
  BY DEF Containing
<1>2. \A n \in Nodes : Containing(n) \subseteq Keys \cup {None}
  BY <1>1 DEF TypeOK, Keys
<1>3. Funnelled(op) \subseteq Keys \cup {None}
  BY <1>2 DEF Funnelled, WriteStates
<1>4. ASSUME NEW N \in SUBSET Nodes PROVE UNION {Containing(n) : n \in N} \subseteq Keys \cup {None}
  BY <1>2
<1>5. Named(op) \subseteq Keys \cup {None}
  <2>1. CASE op.kind = "create"
    <3>1. {op.to} \ {Root, None} \in SUBSET Nodes
      BY DEF WriteStates, Keys
    <3> QED
      BY <2>1, <3>1, <1>4 DEF Named
  <2>2. CASE op.kind = "move"
    <3>1. {op.node, op.to, op.from} \ {Root, None} \in SUBSET Nodes
      BY DEF WriteStates, Keys
    <3> QED
      BY <2>2, <3>1, <1>4 DEF Named
  <2>3. CASE op.kind \notin {"create", "move"}
    <3>1. {op.node} \in SUBSET Nodes
      BY DEF WriteStates
    <3> QED
      BY <2>3, <3>1, <1>4 DEF Named
  <2> QED
    BY <2>1, <2>2, <2>3
<1> QED
  BY <1>3, <1>5

LEMMA InitType == Init => TypeOK
<1> SUFFICES ASSUME Init PROVE TypeOK
  OBVIOUS
<1> QED
  BY NoListingType, NoReadType, StartAssumption DEF Init, TypeOK

-----------------------------------------------------------------------------
(* Type correctness, one step per action.                                  *)
LEMMA TypeStep == TypeOK /\ [Next]_vars => TypeOK'
<1> SUFFICES ASSUME TypeOK, [Next]_vars PROVE TypeOK'
  OBVIOUS
<1>1. ASSUME NEW r \in Readers, NEW k \in Keys, Ask(r, k) PROVE TypeOK'
  <2>1. [pc |-> "asked", key |-> k, items |-> {}, crossed |-> InFlight] \in ReadStates
    BY DEF ReadStates, Items, InFlight
  <2> QED
    BY <1>1, <2>1 DEF Ask, TypeOK, upstream, cache
<1>2. ASSUME NEW r \in Readers, Answer(r) PROVE TypeOK'
  <2>1. [reader[r] EXCEPT !.pc = "answered", !.items = Children(reader[r].key)] \in ReadStates
    BY <1>2, ChildrenType DEF TypeOK, ReadStates
  <2>2. reader' = [reader EXCEPT ![r] = [reader[r] EXCEPT !.pc = "answered", !.items = Children(reader[r].key)]]
    BY <1>2 DEF Answer, TypeOK
  <2> QED
    BY <1>2, <2>1, <2>2 DEF Answer, TypeOK, upstream, cache
<1>3. ASSUME NEW r \in Readers, ReadFails(r) PROVE TypeOK'
  BY <1>3, NoReadType DEF ReadFails, TypeOK, upstream, cache
<1>4. ASSUME NEW r \in Readers, Insert(r) PROVE TypeOK'
  <2>1. reader[r] \in ReadStates
    BY DEF TypeOK
  <2>2. [cached |-> TRUE, items |-> reader[r].items, fresh |-> TRUE, crossed |-> reader[r].crossed] \in Listings
    BY <2>1 DEF ReadStates, Listings
  <2>3. listings' \in [Keys -> Listings]
    BY <1>4, <2>2, KeptType DEF Insert, InsertAs
  <2>4. memberOf' \in [Nodes -> Keys \cup {None}]
    BY <1>4, <2>1 DEF Insert, InsertAs, TypeOK, ReadStates
  <2>5. Shown(reader[r].items) \subseteq Nodes
    BY <2>1 DEF ReadStates, Items, Shown
  <2> QED
    BY <1>4, <2>3, <2>4, <2>5, NoReadType DEF Insert, InsertAs, TypeOK, upstream
<1>5. ASSUME NEW k \in Keys, Expire(k) PROVE TypeOK'
  BY <1>5 DEF Expire, TypeOK, Listings, upstream
<1>6. ASSUME NEW w \in Writers, NEW op \in Writes, NEW n \in Nodes, NEW to \in Keys \cup {None},
             Begin(w, op, n, to)
      PROVE  TypeOK'
  <2>1. writer' \in [Writers -> WriteStates \cup {NoWrite}]
    <3>1. PICK from \in {None} \cup (IF op.kind = "move" THEN {parent[n]} \ {Root} ELSE {}) :
            writer' = [writer EXCEPT ![w] =
              [pc |-> "preread", kind |-> op.kind, handled |-> op.handled,
               node |-> n, to |-> to, from |-> from, drops |-> {}]]
      BY <1>6 DEF Begin
    <3>2. from \in Nodes \cup {None}
      BY DEF TypeOK, Keys
    <3>3. [pc |-> "preread", kind |-> op.kind, handled |-> op.handled,
           node |-> n, to |-> to, from |-> from, drops |-> {}] \in WriteStates
      BY <3>2, WritesAssumption DEF WriteStates
    <3> QED
      BY <3>1, <3>3 DEF TypeOK
  <2> QED
    BY <1>6, <2>1 DEF Begin, TypeOK, upstream, cache
<1>7. ASSUME NEW w \in Writers, Look(w) PROVE TypeOK'
  <2> DEFINE ks == Funnelled(writer[w]) \cup (IF writer[w].handled THEN Named(writer[w]) ELSE {})
  <2>1. writer[w] \in WriteStates
    BY <1>7, BusyWriter DEF Look
  <2>2. ks \in SUBSET (Keys \cup {None})
    BY <2>1, DropsType
  <2>3. [writer[w] EXCEPT !.pc = "dropping", !.drops = ks] \in WriteStates
    BY <2>1, <2>2 DEF WriteStates
  <2>4. writer' = [writer EXCEPT ![w] = [writer[w] EXCEPT !.pc = "dropping", !.drops = ks]]
    BY <1>7 DEF Look, TypeOK
  <2>5. writer' \in [Writers -> WriteStates \cup {NoWrite}]
    BY <2>3, <2>4 DEF TypeOK
  <2>6. reader' \in [Readers -> ReadStates]
    BY <1>7 DEF Look, TypeOK, ReadStates
  <2>7. sent' \in Nat /\ UNCHANGED <<upstream, cache, strayed>>
    BY <1>7 DEF Look, TypeOK
  <2> QED
    BY <2>5, <2>6, <2>7 DEF TypeOK, upstream, cache
<1>13. ASSUME NEW w \in Writers, Send(w) PROVE TypeOK'
  <2>1. writer[w] \in WriteStates
    BY <1>13, BusyWriter DEF Send
  <2>2. [writer[w] EXCEPT !.pc = "sent", !.drops = {}] \in WriteStates
    BY <2>1 DEF WriteStates
  <2>3. writer' = [writer EXCEPT ![w] = [writer[w] EXCEPT !.pc = "sent", !.drops = {}]]
    BY <1>13 DEF Send, TypeOK
  <2>4. writer' \in [Writers -> WriteStates \cup {NoWrite}]
    BY <2>2, <2>3 DEF TypeOK
  <2>5. listings' \in [Keys -> Listings]
    BY <1>13, WithoutType DEF Send
  <2>6. UNCHANGED <<upstream, memberOf, reader, sent, strayed>>
    BY <1>13 DEF Send
  <2> QED
    BY <2>4, <2>5, <2>6 DEF TypeOK, upstream
<1>8. ASSUME NEW w \in Writers, Apply(w) PROVE TypeOK'
  <2>1. writer[w] \in WriteStates
    BY <1>8, BusyWriter DEF Apply
  <2>2. [writer[w] EXCEPT !.pc = "applied"] \in WriteStates
    BY <2>1 DEF WriteStates
  <2>3. writer' \in [Writers -> WriteStates \cup {NoWrite}]
    BY <1>8, <2>2 DEF Apply, TypeOK
  <2>4. writer[w].kind \in {"create", "move"} => writer[w].to \in Keys
    BY <1>8, <2>1 DEF Apply, Possible, Alive, Keys
  <2>5. /\ state' \in [Nodes -> {"unborn", "alive", "gone"}]
        /\ parent' \in [Nodes -> Keys]
        /\ version' \in [Nodes -> Nat]
    <3>1. Effect(writer[w]) /\ writer[w].node \in Nodes /\ writer[w].kind \in Kinds
      BY <1>8, <2>1 DEF Apply, WriteStates
    <3>2. CASE writer[w].kind = "create"
      BY <3>1, <3>2, <2>4 DEF Effect, TypeOK
    <3>3. CASE writer[w].kind = "edit"
      BY <3>1, <3>3 DEF Effect, TypeOK
    <3>4. CASE writer[w].kind = "delete"
      BY <3>1, <3>4 DEF Effect, TypeOK
    <3>5. CASE writer[w].kind = "move"
      BY <3>1, <3>5, <2>4 DEF Effect, TypeOK
    <3> QED
      BY <3>1, <3>2, <3>3, <3>4, <3>5 DEF Kinds
  <2> QED
    BY <1>8, <2>3, <2>5 DEF Apply, TypeOK, cache
<1>9. ASSUME NEW w \in Writers, Refuse(w) PROVE TypeOK'
  BY <1>9 DEF Refuse, TypeOK, upstream, cache
<1>10. ASSUME NEW w \in Writers, Abandon(w) PROVE TypeOK'
  <2>1. writer[w] \in WriteStates
    BY <1>10, BusyWriter DEF Abandon
  <2>2. [writer[w] EXCEPT !.pc = "orphan"] \in WriteStates
    BY <2>1 DEF WriteStates
  <2> QED
    BY <1>10, <2>2 DEF Abandon, TypeOK, upstream, cache
<1>11. ASSUME NEW w \in Writers, Finish(w) PROVE TypeOK'
  <2>1. listings' \in [Keys -> Listings]
    BY <1>11, WithoutType DEF Finish, TypeOK
  <2> QED
    BY <1>11, <2>1 DEF Finish, TypeOK, upstream
<1>12. ASSUME UNCHANGED vars PROVE TypeOK'
  BY <1>12 DEF vars, TypeOK, upstream, cache
<1> QED
  BY <1>1, <1>2, <1>3, <1>4, <1>5, <1>6, <1>7, <1>8, <1>9, <1>10, <1>11, <1>12, <1>13 DEF Next

(* The listing cache keeps its shape: every map is total and every read    *)
(* and write in progress is one the handlers can be in.                    *)
THEOREM TypeCorrect == Spec => []TypeOK
BY InitType, TypeStep, PTL DEF Spec

-----------------------------------------------------------------------------
(* The cap.                                                                *)
LEMMA CachedFinite ==
  ASSUME NEW ls
  PROVE  IsFiniteSet(Cached(ls)) /\ Cardinality(Cached(ls)) \in Nat
<1>1. IsFiniteSet(Keys)
  BY FiniteAssumption, FS_AddElement DEF Keys
<1>2. Cached(ls) \subseteq Keys
  BY DEF Cached
<1>3. IsFiniteSet(Cached(ls))
  BY <1>1, <1>2, FS_Subset
<1> QED
  BY <1>3, FS_CardinalityType

LEMMA FewerCached ==
  ASSUME CacheBounded, Cached(listings') \subseteq Cached(listings)
  PROVE  CacheBounded'
<1>1. Cardinality(Cached(listings')) <= Cardinality(Cached(listings))
  BY CachedFinite, FS_Subset
<1> QED
  BY <1>1, CachedFinite, CapAssumption DEF CacheBounded

LEMMA KeptHasRoom == Cardinality(Cached(Kept)) < MaxListings
<1>1. CASE Cleared
  <2>1. Cached(Kept) = {}
    BY <1>1 DEF Kept, Cleared, Cached, NoListing
  <2> QED
    BY <2>1, FS_EmptySet, CapAssumption
<1>2. CASE Overflows(listings) /\ ~Overflows(Purged)
  <2>1. Kept = Purged
    BY <1>2 DEF Kept, Cleared
  <2> QED
    BY <1>2, <2>1, CachedFinite, CapAssumption DEF Overflows
<1>3. CASE ~Overflows(listings)
  <2>1. Kept = listings
    BY <1>3 DEF Kept, Cleared
  <2> QED
    BY <1>3, <2>1, CachedFinite, CapAssumption DEF Overflows
<1> QED
  BY <1>1, <1>2, <1>3 DEF Cleared

LEMMA BoundStep == TypeOK /\ CacheBounded /\ [Next]_vars => CacheBounded'
<1> SUFFICES ASSUME TypeOK, CacheBounded, [Next]_vars PROVE CacheBounded'
  OBVIOUS
<1>1. ASSUME NEW r \in Readers, Insert(r) PROVE CacheBounded'
  <2>1. PICK k \in Keys, l \in Listings : listings' = [Kept EXCEPT ![k] = l]
    <3>1. reader[r] \in ReadStates
      BY DEF TypeOK
    <3> QED
      BY <1>1, <3>1 DEF Insert, InsertAs, ReadStates, Listings
  <2>2. Cached(listings') \subseteq Cached(Kept) \cup {k}
    BY <2>1, KeptType DEF Cached
  <2>3. Cardinality(Cached(Kept) \cup {k}) <= Cardinality(Cached(Kept)) + 1
        /\ IsFiniteSet(Cached(Kept) \cup {k})
    BY CachedFinite, FS_AddElement
  <2>4. Cardinality(Cached(listings')) <= Cardinality(Cached(Kept) \cup {k})
        /\ Cardinality(Cached(Kept) \cup {k}) \in Nat
    BY <2>2, <2>3, FS_Subset, FS_CardinalityType
  <2> QED
    BY <2>3, <2>4, KeptHasRoom, CachedFinite, CapAssumption DEF CacheBounded
<1>2. ASSUME NEW k \in Keys, Expire(k) PROVE CacheBounded'
  <2>1. Cached(listings') \subseteq Cached(listings)
    BY <1>2 DEF Expire, Cached, TypeOK, Listings
  <2> QED
    BY <2>1, FewerCached
<1>3. ASSUME NEW ks, listings' = Without(ks) PROVE CacheBounded'
  <2>1. Cached(listings') \subseteq Cached(listings)
    BY <1>3 DEF Without, Cached, NoListing
  <2> QED
    BY <2>1, FewerCached
<1>4. ASSUME UNCHANGED listings PROVE CacheBounded'
  BY <1>4 DEF CacheBounded
<1>5. ASSUME NEW w \in Writers, Finish(w) PROVE CacheBounded'
  BY <1>3, <1>4, <1>5 DEF Finish
<1>6. ASSUME NEW w \in Writers, Send(w) PROVE CacheBounded'
  BY <1>3, <1>6 DEF Send
<1>7. ASSUME NEW r \in Readers, NEW k \in Keys, Ask(r, k) \/ Answer(r) \/ ReadFails(r) PROVE CacheBounded'
  BY <1>4, <1>7 DEF Ask, Answer, ReadFails, cache
<1>8. ASSUME NEW w \in Writers,
             \/ \E op \in Writes, n \in Nodes, to \in Keys \cup {None} : Begin(w, op, n, to)
             \/ Look(w) \/ Apply(w) \/ Refuse(w) \/ Abandon(w)
      PROVE  CacheBounded'
  BY <1>4, <1>8 DEF Begin, Look, Apply, Refuse, Abandon, cache
<1>9. ASSUME UNCHANGED vars PROVE CacheBounded'
  BY <1>4, <1>9 DEF vars, cache
<1>10. Root \in Keys
  BY DEF Keys
<1> QED
  BY <1>1, <1>2, <1>5, <1>6, <1>7, <1>8, <1>9, <1>10 DEF Next

(* insert_children_listing never grows the cache past its cap.             *)
THEOREM CacheIsBounded == Spec => []CacheBounded
<1>1. Init => CacheBounded
  <2> SUFFICES ASSUME Init PROVE CacheBounded
    OBVIOUS
  <2>1. Cached(listings) = {}
    BY DEF Init, Cached, NoListing
  <2> QED
    BY <2>1, FS_EmptySet, CapAssumption DEF CacheBounded
<1> QED
  BY <1>1, BoundStep, TypeCorrect, PTL DEF Spec

-----------------------------------------------------------------------------
(* Coherence.  The inductive invariant says of every quiet listing that no *)
(* write in flight can touch it, or that the write is about to drop it:    *)
(* whatever was inserted since its look at the cache is crossed.           *)

\* A listing is of a node that exists or existed, and so are the nodes in it,
\* which belong to it.
ShownUnder ==
  \A k \in Keys : Quiet(k) =>
    /\ k # Root => state[k] # "unborn"
    /\ \A n \in Shown(listings[k].items) : parent[n] = k /\ state[n] # "unborn"

\* op, once carried out, cannot change the listing of k.
Clear(op, k) ==
  /\ op.kind # "create" => op.node \notin Shown(listings[k].items)
  /\ op.kind \in {"create", "move"} => op.to # k

WritesClear ==
  \A w \in Writers, k \in Keys :
    writer[w].pc \in Flying /\ Quiet(k) =>
      Clear(writer[w], k) \/ (writer[w].pc = "dropping" /\ k \in writer[w].drops)

ReadersCurrent ==
  \A r \in Readers :
    reader[r].pc # "idle" /\ ~reader[r].crossed =>
      /\ ~InFlight
      /\ reader[r].pc = "answered" =>
           reader[r].items = Children(reader[r].key) /\ Alive(reader[r].key)

\* Every move comes from the move_node handler, which invalidates for it.
NoBareMoves == [kind |-> "move", handled |-> FALSE] \notin Writes

WritesAllowed ==
  \A w \in Writers : writer[w].pc # "idle" =>
    [kind |-> writer[w].kind, handled |-> writer[w].handled] \in Writes

IInv ==
  /\ TypeOK
  /\ QuietListingIsCurrent
  /\ MembersCover
  /\ ShownUnder
  /\ WritesClear
  /\ ReadersCurrent
  /\ WritesAllowed

LEMMA InitInv == Init => IInv
<1> SUFFICES ASSUME Init PROVE IInv
  OBVIOUS
<1>1. \A k \in Keys : ~Quiet(k)
  BY DEF Init, Quiet, NoListing
<1> QED
  BY <1>1, InitType DEF Init, IInv, QuietListingIsCurrent, MembersCover, ShownUnder,
     WritesClear, ReadersCurrent, WritesAllowed, NoRead, NoWrite

LEMMA ChildrenShown ==
  ASSUME TypeOK, NEW k
  PROVE  \A n \in Shown(Children(k)) : n \in Nodes /\ parent[n] = k /\ state[n] = "alive"
BY DEF Shown, Children

LEMMA SubtreeParent ==
  ASSUME TypeOK, NEW n \in Nodes, NEW m \in Subtree(n), m # n
  PROVE  parent[m] \in Subtree(n)
<1> SUFFICES ASSUME parent[m] \notin Subtree(n) PROVE FALSE
  OBVIOUS
<1> DEFINE S == Subtree(n) \ {m}
<1>1. n \in S
  BY DEF Subtree
<1>2. ASSUME NEW c \in Nodes, parent[c] \in S PROVE c \in S
  <2>1. c \in Subtree(n)
    BY <1>2 DEF Subtree
  <2> QED
    BY <1>2, <2>1
<1>3. S \in SUBSET Nodes
  BY DEF Subtree
<1>4. m \in S
  BY <1>1, <1>2, <1>3 DEF Subtree
<1> QED
  BY <1>4

-----------------------------------------------------------------------------
\* The step leaves no quiet listing that was not there before.
NoneGained ==
  \A k \in Keys : Quiet(k)' => Quiet(k) /\ listings'[k].items = listings[k].items

LEMMA NoneGainedKeeps ==
  ASSUME IInv, UNCHANGED <<upstream, memberOf>>, NoneGained
  PROVE  QuietListingIsCurrent' /\ MembersCover' /\ ShownUnder'
<1>1. QuietListingIsCurrent'
  BY DEF IInv, QuietListingIsCurrent, NoneGained, Alive, Children, upstream
<1>2. MembersCover'
  BY DEF IInv, MembersCover, NoneGained
<1>3. ShownUnder'
  BY DEF IInv, ShownUnder, NoneGained, upstream
<1> QED
  BY <1>1, <1>2, <1>3

LEMMA SameCache ==
  ASSUME UNCHANGED <<cache, strayed>>
  PROVE  NoneGained
BY DEF NoneGained, Quiet, cache

\* No write enters flight.
NoneSent ==
  \A w \in Writers : writer'[w].pc \in Flying =>
    /\ writer[w].pc \in Flying
    /\ writer[w].pc = "dropping" =>
         writer'[w].pc = "dropping" /\ writer'[w].drops = writer[w].drops
    /\ writer'[w].kind = writer[w].kind
    /\ writer'[w].node = writer[w].node
    /\ writer'[w].to = writer[w].to

LEMMA NoneSentKeeps ==
  ASSUME IInv, NoneGained, NoneSent
  PROVE  WritesClear' /\ (InFlight' => InFlight)
<1>1. WritesClear'
  BY DEF IInv, WritesClear, NoneGained, NoneSent, Clear
<1>2. InFlight' => InFlight
  BY DEF NoneSent, InFlight
<1> QED
  BY <1>1, <1>2

LEMMA SameWriters == writer' = writer => NoneSent
BY DEF NoneSent

\* Readers that stay as they are.
LEMMA SameReaders ==
  ASSUME IInv, UNCHANGED <<upstream, reader>>, InFlight' => InFlight
  PROVE  ReadersCurrent'
BY DEF IInv, ReadersCurrent, Children, Alive, upstream

-----------------------------------------------------------------------------
LEMMA ReadStep ==
  ASSUME IInv, NEW r \in Readers, (\E k \in Keys : Ask(r, k)) \/ Answer(r) \/ ReadFails(r)
  PROVE  QuietListingIsCurrent' /\ MembersCover' /\ ShownUnder' /\ WritesClear'
         /\ ReadersCurrent' /\ WritesAllowed'
<1>1. UNCHANGED <<upstream, cache, writer, strayed>>
  BY DEF Ask, Answer, ReadFails
<1>2. NoneGained
  BY <1>1, SameCache
<1>3. QuietListingIsCurrent' /\ MembersCover' /\ ShownUnder'
  BY <1>1, <1>2, NoneGainedKeeps DEF cache
<1>4. WritesClear' /\ (InFlight' => InFlight)
  BY <1>1, <1>2, SameWriters, NoneSentKeeps
<1>5. ReadersCurrent'
  <2>1. \A q \in Readers \ {r} : reader'[q] = reader[q]
    BY DEF Ask, Answer, ReadFails, IInv, TypeOK
  <2>2. reader'[r].pc # "idle" /\ ~reader'[r].crossed =>
          /\ ~InFlight
          /\ reader'[r].pc = "answered" =>
               reader'[r].items = Children(reader'[r].key) /\ Alive(reader'[r].key)
    <3>1. CASE \E k \in Keys : Ask(r, k)
      BY <3>1 DEF Ask, IInv, TypeOK
    <3>2. CASE Answer(r)
      <4>1. reader'[r].crossed = reader[r].crossed /\ reader'[r].key = reader[r].key
            /\ reader'[r].items = Children(reader[r].key) /\ reader[r].pc # "idle"
            /\ Alive(reader[r].key)
        BY <3>2 DEF Answer, IInv, TypeOK, ReadStates
      <4> QED
        BY <4>1 DEF IInv, ReadersCurrent
    <3>3. CASE ReadFails(r)
      BY <3>3 DEF ReadFails, NoRead, IInv, TypeOK
    <3> QED
      BY <3>1, <3>2, <3>3
  <2> QED
    BY <1>1, <1>4, <2>1, <2>2 DEF ReadersCurrent, IInv, Children, Alive, upstream
<1>6. WritesAllowed'
  BY <1>1 DEF IInv, WritesAllowed
<1> QED
  BY <1>3, <1>4, <1>5, <1>6

LEMMA ExpireStep ==
  ASSUME IInv, NEW k \in Keys, Expire(k)
  PROVE  QuietListingIsCurrent' /\ MembersCover' /\ ShownUnder' /\ WritesClear'
         /\ ReadersCurrent' /\ WritesAllowed'
<1>1. UNCHANGED <<upstream, memberOf, reader, writer, strayed>>
  BY DEF Expire
<1>2. NoneGained
  BY <1>1 DEF NoneGained, Expire, Quiet, IInv, TypeOK, Listings
<1>3. QuietListingIsCurrent' /\ MembersCover' /\ ShownUnder'
  BY <1>1, <1>2, NoneGainedKeeps
<1>4. WritesClear' /\ (InFlight' => InFlight)
  BY <1>1, <1>2, SameWriters, NoneSentKeeps
<1>5. ReadersCurrent'
  BY <1>1, <1>4, SameReaders
<1>6. WritesAllowed'
  BY <1>1 DEF IInv, WritesAllowed
<1> QED
  BY <1>3, <1>4, <1>5, <1>6

(* Steps of a writer that neither send nor carry out a write.              *)
LEMMA QuietWriteStep ==
  ASSUME IInv, NEW w \in Writers,
         \/ \E op \in Writes, n \in Nodes, to \in Keys \cup {None} : Begin(w, op, n, to)
         \/ Refuse(w) \/ Abandon(w) \/ Finish(w)
  PROVE  QuietListingIsCurrent' /\ MembersCover' /\ ShownUnder' /\ WritesClear'
         /\ ReadersCurrent' /\ WritesAllowed'
<1>1. UNCHANGED <<upstream, memberOf, reader, strayed>>
  BY DEF Begin, Refuse, Abandon, Finish, cache
<1>2. NoneGained
  <2>1. CASE Finish(w)
    BY <2>1 DEF NoneGained, Finish, Without, Quiet, NoListing
  <2>2. CASE UNCHANGED listings
    BY <1>1, <2>2, SameCache DEF cache
  <2> QED
    BY <2>1, <2>2 DEF Begin, Refuse, Abandon, cache
<1>3. NoneSent
  <2>1. \A v \in Writers \ {w} : writer'[v] = writer[v]
    BY DEF Begin, Refuse, Abandon, Finish, IInv, TypeOK
  <2>2. CASE \E op \in Writes, n \in Nodes, to \in Keys \cup {None} : Begin(w, op, n, to)
    <3>1. writer'[w].pc = "preread"
      BY <2>2 DEF Begin, IInv, TypeOK
    <3> QED
      BY <2>1, <3>1 DEF NoneSent, Flying
  <2>3. CASE Refuse(w) \/ Finish(w)
    <3>1. writer'[w] = NoWrite
      BY <2>3 DEF Refuse, Finish, IInv, TypeOK
    <3> QED
      BY <2>1, <3>1 DEF NoneSent, NoWrite, Flying
  <2>4. CASE Abandon(w)
    <3>1. writer[w] \in WriteStates
      BY <2>4, BusyWriter DEF Abandon, IInv
    <3>2. writer'[w] = IF writer[w].pc = "sent" THEN [writer[w] EXCEPT !.pc = "orphan"] ELSE NoWrite
      BY <2>4 DEF Abandon, IInv, TypeOK
    <3> QED
      BY <2>1, <2>4, <3>1, <3>2 DEF NoneSent, NoWrite, WriteStates, Flying, Abandon
  <2> QED
    BY <2>2, <2>3, <2>4
<1>4. QuietListingIsCurrent' /\ MembersCover' /\ ShownUnder'
  BY <1>1, <1>2, NoneGainedKeeps
<1>5. WritesClear' /\ (InFlight' => InFlight)
  BY <1>2, <1>3, NoneSentKeeps
<1>6. ReadersCurrent'
  BY <1>1, <1>5, SameReaders
<1>7. WritesAllowed'
  <2>1. \A v \in Writers \ {w} : writer'[v] = writer[v]
    BY DEF Begin, Refuse, Abandon, Finish, IInv, TypeOK
  <2>2. ASSUME NEW op \in Writes, NEW n \in Nodes, NEW to \in Keys \cup {None}, Begin(w, op, n, to)
        PROVE  [kind |-> writer'[w].kind, handled |-> writer'[w].handled] \in Writes
    <3>1. writer'[w].kind = op.kind /\ writer'[w].handled = op.handled
      BY <2>2 DEF Begin, IInv, TypeOK
    <3>2. op = [kind |-> op.kind, handled |-> op.handled]
      BY WritesAssumption
    <3> QED
      BY <3>1, <3>2
  <2>3. ASSUME Refuse(w) \/ Finish(w) PROVE writer'[w].pc = "idle"
    BY <2>3 DEF Refuse, Finish, IInv, TypeOK, NoWrite
  <2>4. ASSUME Abandon(w), writer'[w].pc # "idle"
        PROVE  [kind |-> writer'[w].kind, handled |-> writer'[w].handled] \in Writes
    <3>1. writer[w] \in WriteStates
      BY <2>4, BusyWriter DEF Abandon, IInv
    <3>2. writer'[w] = [writer[w] EXCEPT !.pc = "orphan"]
      BY <2>4 DEF Abandon, IInv, TypeOK, NoWrite
    <3> QED
      BY <2>4, <3>1, <3>2 DEF IInv, WritesAllowed, WriteStates, Abandon
  <2> QED
    BY <2>1, <2>2, <2>3, <2>4 DEF IInv, WritesAllowed
<1> QED
  BY <1>4, <1>5, <1>6, <1>7

(* After its look, every quiet listing the write can change is to be       *)
(* dropped.                                                                *)
LEMMA LookStep ==
  ASSUME NoBareMoves, IInv, NEW w \in Writers, Look(w)
  PROVE  QuietListingIsCurrent' /\ MembersCover' /\ ShownUnder' /\ WritesClear'
         /\ ReadersCurrent' /\ WritesAllowed'
<1> DEFINE op == writer[w]
           drops == Funnelled(op) \cup (IF op.handled THEN Named(op) ELSE {})
<1>1. UNCHANGED <<upstream, cache, strayed>>
  BY DEF Look
<1>2. NoneGained
  BY <1>1, SameCache
<1>3. QuietListingIsCurrent' /\ MembersCover' /\ ShownUnder'
  BY <1>1, <1>2, NoneGainedKeeps DEF cache
<1>4. op \in WriteStates
  BY BusyWriter DEF Look, IInv
<1>5. /\ writer'[w] = [op EXCEPT !.pc = "dropping", !.drops = drops]
      /\ \A v \in Writers \ {w} : writer'[v] = writer[v]
  BY DEF Look, IInv, TypeOK
<1>6. [kind |-> op.kind, handled |-> op.handled] \in Writes
  BY DEF Look, IInv, WritesAllowed
<1>7. WritesClear'
  <2>1. ASSUME NEW k \in Keys, Quiet(k)', k \notin drops PROVE Clear(op, k)'
    <3>1. Quiet(k) /\ listings'[k].items = listings[k].items
      BY <1>2, <2>1 DEF NoneGained
    <3>2. op.kind \in {"create", "move"} => op.to # k
      BY <2>1 DEF Funnelled
    <3>3. op.kind # "create" => Containing(op.node) \subseteq drops
      <4>1. CASE op.kind \in {"edit", "delete"}
        BY <4>1 DEF Funnelled
      <4>2. CASE op.kind = "move"
        <5>1. op.handled
          BY <1>4, <1>6, <4>2 DEF NoBareMoves, WriteStates
        <5>2. op.node \in {op.node, op.to, op.from} \ {Root, None}
          BY <1>4, KeyAssumption DEF WriteStates
        <5>3. Containing(op.node) \subseteq Named(op)
          BY <4>2, <5>2 DEF Named
        <5> QED
          BY <5>1, <5>3
      <4> QED
        BY <1>4, <4>1, <4>2 DEF WriteStates, Kinds
    <3>4. op.node \in Shown(listings[k].items) => k \in Containing(op.node)
      BY <3>1, KeyAssumption DEF IInv, MembersCover, Containing, Keys
    <3>5. /\ op.kind # "create" => op.node \notin Shown(listings[k].items)
          /\ op.kind \in {"create", "move"} => op.to # k
      BY <2>1, <3>2, <3>3, <3>4
    <3>6. /\ writer'[w].kind = op.kind
          /\ writer'[w].node = op.node
          /\ writer'[w].to = op.to
      BY <1>4, <1>5 DEF WriteStates
    <3> QED
      BY <3>1, <3>5, <3>6 DEF Clear
  <2>2. writer'[w].pc = "dropping" /\ writer'[w].drops = drops
    BY <1>4, <1>5 DEF WriteStates
  <2>3. ASSUME NEW v \in Writers \ {w}, NEW k \in Keys, writer'[v].pc \in Flying, Quiet(k)'
        PROVE  (Clear(writer[v], k) \/ (writer[v].pc = "dropping" /\ k \in writer[v].drops))'
    BY <1>2, <1>5, <2>3 DEF NoneGained, IInv, WritesClear, Clear
  <2> QED
    BY <2>1, <2>2, <2>3 DEF WritesClear
<1>8. ReadersCurrent'
  <2>1. ASSUME NEW r \in Readers PROVE reader'[r].pc # "idle" => reader'[r].crossed
    <3>1. reader[r] \in ReadStates
      BY DEF IInv, TypeOK
    <3>2. reader'[r] = [reader[r] EXCEPT !.crossed = (reader[r].pc # "idle")]
      BY DEF Look
    <3> QED
      BY <3>1, <3>2 DEF ReadStates
  <2> QED
    BY <2>1 DEF ReadersCurrent
<1>9. WritesAllowed'
  <2>1. writer'[w].kind = op.kind /\ writer'[w].handled = op.handled
    BY <1>4, <1>5 DEF WriteStates
  <2>2. \A v \in Writers \ {w} : writer'[v].pc # "idle" =>
          [kind |-> writer'[v].kind, handled |-> writer'[v].handled] \in Writes
    BY <1>5 DEF IInv, WritesAllowed
  <2> QED
    BY <1>6, <2>1, <2>2 DEF WritesAllowed
<1> QED
  BY <1>3, <1>7, <1>8, <1>9

LEMMA SendStep ==
  ASSUME IInv, NEW w \in Writers, Send(w)
  PROVE  QuietListingIsCurrent' /\ MembersCover' /\ ShownUnder' /\ WritesClear'
         /\ ReadersCurrent' /\ WritesAllowed'
<1> DEFINE op == writer[w]
<1>1. UNCHANGED <<upstream, memberOf, reader, strayed>>
  BY DEF Send
<1>2. NoneGained
  BY <1>1 DEF NoneGained, Send, Without, Quiet, NoListing
<1>3. QuietListingIsCurrent' /\ MembersCover' /\ ShownUnder'
  BY <1>1, <1>2, NoneGainedKeeps
<1>4. op \in WriteStates /\ op.pc = "dropping"
  BY BusyWriter DEF Send, IInv
<1>5. /\ writer'[w] = [op EXCEPT !.pc = "sent", !.drops = {}]
      /\ \A v \in Writers \ {w} : writer'[v] = writer[v]
  BY DEF Send, IInv, TypeOK
<1>6. WritesClear'
  <2>1. ASSUME NEW k \in Keys, Quiet(k)' PROVE Clear(op, k)'
    <3>1. Quiet(k) /\ listings'[k].items = listings[k].items
      BY <1>2, <2>1 DEF NoneGained
    <3>2. k \notin op.drops
      BY <2>1 DEF Send, Without, Quiet, NoListing
    <3>3. Clear(op, k)
      BY <1>4, <3>1, <3>2 DEF IInv, WritesClear, Flying
    <3>4. /\ writer'[w].kind = op.kind
          /\ writer'[w].node = op.node
          /\ writer'[w].to = op.to
      BY <1>4, <1>5 DEF WriteStates
    <3> QED
      BY <3>1, <3>3, <3>4 DEF Clear
  <2>2. ASSUME NEW v \in Writers \ {w}, NEW k \in Keys, writer'[v].pc \in Flying, Quiet(k)'
        PROVE  (Clear(writer[v], k) \/ (writer[v].pc = "dropping" /\ k \in writer[v].drops))'
    BY <1>2, <1>5, <2>2 DEF NoneGained, IInv, WritesClear, Clear
  <2> QED
    BY <2>1, <2>2 DEF WritesClear
<1>7. ReadersCurrent'
  <2>1. InFlight
    BY <1>4 DEF InFlight, Flying
  <2> QED
    BY <1>1, <2>1 DEF IInv, ReadersCurrent
<1>8. WritesAllowed'
  <2>1. writer'[w].kind = op.kind /\ writer'[w].handled = op.handled
    BY <1>4, <1>5 DEF WriteStates
  <2> QED
    BY <1>4, <1>5, <2>1 DEF IInv, WritesAllowed
<1> QED
  BY <1>3, <1>6, <1>7, <1>8

LEMMA InsertStep ==
  ASSUME IInv, NEW r \in Readers, Insert(r)
  PROVE  QuietListingIsCurrent' /\ MembersCover' /\ ShownUnder' /\ WritesClear'
         /\ ReadersCurrent' /\ WritesAllowed'
<1> DEFINE rd == reader[r]
<1>0. PICK key \in Keys : key = rd.key
  BY DEF Insert, InsertAs, IInv, TypeOK, ReadStates
<1>1. rd \in ReadStates /\ rd.pc = "answered"
  BY <1>0 DEF Insert, InsertAs, IInv, TypeOK
<1>2. UNCHANGED <<upstream, writer>>
  BY <1>0 DEF Insert, InsertAs
<1>3. ~rd.crossed => ~InFlight /\ rd.items = Children(key) /\ Alive(key)
  BY <1>0, <1>1 DEF IInv, ReadersCurrent
<1>4. /\ listings'[key].items = rd.items
      /\ listings'[key].crossed = rd.crossed
      /\ \A k \in Keys \ {key} : listings'[k] = Kept[k]
  BY <1>0, <1>1, KeptType DEF Insert, InsertAs, IInv, ReadStates
\* Listings other than the inserted one.
<1>5. ASSUME NEW k \in Keys \ {key}, Quiet(k)'
      PROVE  /\ Quiet(k) /\ listings'[k].items = listings[k].items
             /\ \A n \in Shown(listings[k].items) : memberOf'[n] = memberOf[n]
  <2>1. Kept[k].cached /\ ~Kept[k].crossed /\ Shown(Kept[k].items) \cap strayed' = {}
    BY <1>0, <1>4, <1>5 DEF Quiet
  <2>2. ~Cleared
    BY <1>0, <2>1 DEF Kept, NoListing, Cleared
  <2>3. Kept[k] = listings[k]
    <3>1. CASE Overflows(listings)
      <4>1. Kept = Purged
        BY <1>0, <2>2, <3>1 DEF Kept, Cleared
      <4> QED
        BY <1>0, <2>1, <4>1 DEF Purged, NoListing
    <3>2. CASE ~Overflows(listings)
      BY <1>0, <3>2 DEF Kept, Cleared
    <3> QED
      BY <1>0, <3>1, <3>2
  <2>4. strayed \subseteq strayed'
    BY <1>0 DEF Insert, InsertAs
  <2>5. Quiet(k) /\ listings'[k].items = listings[k].items
    BY <1>0, <1>4, <2>1, <2>3, <2>4 DEF Quiet
  <2>6. ASSUME NEW n \in Shown(listings[k].items) PROVE memberOf'[n] = memberOf[n]
    <3>1. n \notin Shown(rd.items)
      <4>1. CASE rd.crossed
        BY <1>0, <2>1, <2>3, <2>6, <4>1 DEF Insert, InsertAs
      <4>2. CASE ~rd.crossed
        <5>1. n \in Shown(rd.items) => parent[n] = key
          BY <1>0, <1>3, <4>2, ChildrenShown DEF IInv
        <5>2. parent[n] = k
          BY <1>0, <2>5, <2>6 DEF IInv, ShownUnder
        <5> QED
          BY <1>0, <5>1, <5>2
      <4> QED
        BY <1>0, <4>1, <4>2
    <3>2. n \in Nodes
      BY <1>0, <2>6 DEF IInv, TypeOK, Listings, Items, Shown
    <3> QED
      BY <1>0, <2>2, <3>1, <3>2 DEF Insert, InsertAs
  <2> QED
    BY <1>0, <2>5, <2>6
\* The inserted one.
<1>6. ASSUME Quiet(key)'
      PROVE  ~rd.crossed /\ rd.items = Children(key) /\ ~InFlight /\ Alive(key)
  BY <1>0, <1>3, <1>4, <1>6 DEF Quiet
<1>7. QuietListingIsCurrent'
  <2>1. ASSUME NEW k \in Keys, Quiet(k)', Alive(k)' PROVE (listings[k].items = Children(k))'
    <3>1. Alive(k) /\ Children(k)' = Children(k)
      BY <1>0, <1>2, <2>1 DEF Alive, Children, upstream
    <3>2. CASE k = key
      BY <1>0, <1>4, <1>6, <2>1, <3>1, <3>2
    <3>3. CASE k # key
      <4>1. Quiet(k) /\ listings'[k].items = listings[k].items
        BY <1>0, <1>5, <2>1, <3>3
      <4> QED
        BY <1>0, <3>1, <4>1 DEF IInv, QuietListingIsCurrent
    <3> QED
      BY <1>0, <3>2, <3>3
  <2> QED
    BY <1>0, <2>1 DEF QuietListingIsCurrent
<1>8. MembersCover'
  <2>1. ASSUME NEW k \in Keys, Quiet(k)', NEW n \in Shown(listings'[k].items) PROVE memberOf'[n] = k
    <3>1. CASE k = key
      <4>1. n \in Shown(rd.items) /\ n \in Nodes
        BY <1>0, <1>1, <1>4, <2>1, <3>1 DEF ReadStates, Items, Shown
      <4> QED
        BY <1>0, <3>1, <4>1 DEF Insert, InsertAs
    <3>2. CASE k # key
      BY <1>0, <1>5, <2>1, <3>2 DEF IInv, MembersCover
    <3> QED
      BY <1>0, <3>1, <3>2
  <2> QED
    BY <1>0, <2>1 DEF MembersCover
<1>9. ShownUnder'
  <2>1. ASSUME NEW k \in Keys, Quiet(k)', NEW n \in Shown(listings'[k].items)
        PROVE  parent'[n] = k /\ state'[n] # "unborn"
    <3>1. CASE k = key
      BY <1>0, <1>2, <1>4, <1>6, <2>1, <3>1, ChildrenShown DEF IInv, upstream
    <3>2. CASE k # key
      BY <1>0, <1>2, <1>5, <2>1, <3>2 DEF IInv, ShownUnder, upstream
    <3> QED
      BY <1>0, <3>1, <3>2
  <2>2. ASSUME NEW k \in Keys, Quiet(k)', k # Root PROVE state'[k] # "unborn"
    <3>1. CASE k = key
      BY <1>2, <1>6, <2>2, <3>1 DEF Alive, upstream
    <3>2. CASE k # key
      BY <1>2, <1>5, <2>2, <3>2 DEF IInv, ShownUnder, upstream
    <3> QED
      BY <3>1, <3>2
  <2> QED
    BY <2>1, <2>2 DEF ShownUnder
<1>10. WritesClear'
  <2>1. ASSUME NEW w \in Writers, NEW k \in Keys,
               writer'[w].pc \in Flying, Quiet(k)'
        PROVE  (Clear(writer[w], k) \/ (writer[w].pc = "dropping" /\ k \in writer[w].drops))'
    <3>1. InFlight
      BY <1>0, <1>2, <2>1 DEF InFlight
    <3>2. k # key
      BY <1>0, <1>6, <2>1, <3>1
    <3> QED
      BY <1>0, <1>2, <1>5, <2>1, <3>2 DEF IInv, WritesClear, Clear
  <2> QED
    BY <1>0, <2>1 DEF WritesClear
<1>11. ReadersCurrent'
  <2>1. reader'[r] = NoRead /\ \A q \in Readers \ {r} : reader'[q] = reader[q]
    BY <1>0 DEF Insert, InsertAs, IInv, TypeOK
  <2> QED
    BY <1>0, <1>2, <2>1 DEF IInv, ReadersCurrent, NoRead, InFlight, Children, Alive, upstream
<1>12. WritesAllowed'
  BY <1>0, <1>2 DEF IInv, WritesAllowed
<1> QED
  BY <1>0, <1>7, <1>8, <1>9, <1>10, <1>11, <1>12

-----------------------------------------------------------------------------
(* A write that cannot touch a quiet listing leaves it current.            *)
LEMMA ApplyStep ==
  ASSUME IInv, TypeOK', NEW w \in Writers, Apply(w)
  PROVE  QuietListingIsCurrent' /\ MembersCover' /\ ShownUnder' /\ WritesClear'
         /\ ReadersCurrent' /\ WritesAllowed'
<1> DEFINE op == writer[w]
<1>1. op \in WriteStates /\ op.pc \in {"sent", "orphan"}
  BY BusyWriter DEF Apply, IInv
<1>2. UNCHANGED <<cache, reader, strayed>> /\ Effect(op) /\ Possible(op.kind, op.node, op.to)
  BY DEF Apply
<1>3. \A k \in Keys : Quiet(k)' <=> Quiet(k)
  BY <1>2 DEF Quiet, cache
<1>4. ASSUME NEW k \in Keys, Quiet(k) PROVE Clear(op, k)
  BY <1>1, <1>4 DEF IInv, WritesClear, Flying
<1>5. ShownUnder'
  <2>1. ASSUME NEW k \in Keys, Quiet(k), NEW n \in Shown(listings[k].items)
        PROVE  parent'[n] = k /\ state'[n] # "unborn"
    <3>1. parent[n] = k /\ state[n] # "unborn" /\ n \in Nodes
      BY <2>1 DEF IInv, ShownUnder, TypeOK, Listings, Items, Shown
    <3>2. n # op.node
      <4>1. op.kind = "create" => state[op.node] = "unborn"
        BY <1>2 DEF Possible
      <4> QED
        BY <1>4, <2>1, <3>1, <4>1 DEF Clear
    <3>3. parent'[n] = parent[n] /\ (state'[n] = state[n] \/ state'[n] = "gone")
      <4>1. CASE op.kind \in {"create", "edit", "move"}
        BY <1>1, <1>2, <3>1, <3>2, <4>1 DEF Effect, IInv, TypeOK
      <4>2. CASE op.kind = "delete"
        BY <1>1, <1>2, <3>1, <4>2 DEF Effect
      <4> QED
        BY <1>1, <4>1, <4>2 DEF WriteStates, Kinds
    <3> QED
      BY <3>1, <3>3
  <2>2. ASSUME NEW k \in Keys, Quiet(k), k # Root PROVE state'[k] # "unborn"
    <3>1. k \in Nodes /\ state[k] # "unborn"
      BY <2>2 DEF IInv, ShownUnder, Keys
    <3> QED
      BY <1>1, <1>2, <3>1 DEF Effect, WriteStates, Kinds, IInv, TypeOK
  <2> QED
    BY <1>2, <1>3, <2>1, <2>2 DEF ShownUnder, cache
<1>6. QuietListingIsCurrent'
  <2>1. ASSUME NEW k \in Keys, Quiet(k), Alive(k)' PROVE Children(k)' = Children(k) /\ Alive(k)
    <3>0. Clear(op, k)
      BY <1>4, <2>1
    <3>1. CASE op.kind = "create"
      <4>1. op.to # k /\ state[op.node] = "unborn"
        BY <1>2, <3>0, <3>1 DEF Clear, Possible
      <4>2. \A n \in Nodes : n # op.node => state'[n] = state[n] /\ parent'[n] = parent[n]
        BY <1>1, <1>2, <3>1 DEF Effect, IInv, TypeOK
      <4>3. parent'[op.node] = op.to /\ version' = version /\ op.node \in Nodes
        BY <1>1, <1>2, <3>1 DEF Effect, IInv, TypeOK, WriteStates
      <4>4. Children(k)' = Children(k)
        BY <4>1, <4>2, <4>3 DEF Children
      <4>5. Alive(k)
        <5>1. k # Root => k # op.node
          BY <2>1, <4>1 DEF IInv, ShownUnder
        <5> QED
          BY <2>1, <4>2, <5>1 DEF Alive
      <4> QED
        BY <4>4, <4>5
    <3>2. CASE op.kind \in {"edit", "move"}
      <4>1. op.node \notin Shown(listings[k].items) /\ (op.kind = "move" => op.to # k)
        BY <3>0, <3>2 DEF Clear
      <4>2. /\ state' = state /\ op.node \in Nodes
            /\ \A n \in Nodes : n # op.node => parent'[n] = parent[n] /\ version'[n] = version[n]
            /\ op.kind = "edit" => parent'[op.node] = parent[op.node]
            /\ op.kind = "move" => parent'[op.node] = op.to
        BY <1>1, <1>2, <3>2 DEF Effect, IInv, TypeOK, WriteStates
      <4>3. Alive(k)
        BY <2>1, <4>2 DEF Alive
      <4>4. listings[k].items = Children(k)
        BY <2>1, <4>3 DEF IInv, QuietListingIsCurrent
      <4>5. ~(state[op.node] = "alive" /\ parent[op.node] = k)
        <5>1. ASSUME state[op.node] = "alive", parent[op.node] = k PROVE FALSE
          <6>1. <<op.node, version[op.node]>> \in Children(k)
            BY <4>2, <5>1 DEF Children
          <6>2. op.node \in Shown(Children(k))
            BY <6>1 DEF Shown
          <6> QED
            BY <4>1, <4>4, <6>2
        <5> QED
          BY <5>1
      <4>6. ~(state'[op.node] = "alive" /\ parent'[op.node] = k)
        BY <3>2, <4>1, <4>2, <4>5
      <4>7. Children(k)' = Children(k)
        BY <4>2, <4>5, <4>6 DEF Children
      <4> QED
        BY <4>3, <4>7
    <3>3. CASE op.kind = "delete"
      <4>1. op.node \notin Shown(listings[k].items) /\ op.node \in Nodes
        BY <1>1, <3>0, <3>3 DEF Clear, WriteStates
      <4>2. /\ parent' = parent /\ version' = version
            /\ state' = [m \in Nodes |->
                 IF m \in Subtree(op.node) /\ state[m] = "alive" THEN "gone" ELSE state[m]]
        BY <1>2, <3>3 DEF Effect
      <4>3. Alive(k)
        BY <2>1, <4>2 DEF Alive
      <4>4. k \notin Subtree(op.node)
        BY <2>1, <4>2, KeyAssumption DEF Alive, Subtree
      <4>5. listings[k].items = Children(k)
        BY <2>1, <4>3 DEF IInv, QuietListingIsCurrent
      <4>6. ASSUME NEW m \in Nodes, state[m] = "alive", parent[m] = k PROVE m \notin Subtree(op.node)
        <5>1. <<m, version[m]>> \in Children(k)
          BY <4>6 DEF Children
        <5>2. m \in Shown(Children(k))
          BY <5>1 DEF Shown
        <5>3. m # op.node
          BY <4>1, <4>5, <5>2
        <5> QED
          BY <4>1, <4>4, <4>6, <5>3, SubtreeParent DEF IInv
      <4>7. \A m \in Nodes : (state'[m] = "alive" /\ parent'[m] = k) <=> (state[m] = "alive" /\ parent[m] = k)
        BY <4>2, <4>6
      <4>8. Children(k)' = Children(k)
        BY <4>2, <4>7 DEF Children
      <4> QED
        BY <4>3, <4>8
    <3> QED
      BY <1>1, <3>1, <3>2, <3>3 DEF WriteStates, Kinds
  <2> QED
    BY <1>2, <1>3, <2>1 DEF IInv, QuietListingIsCurrent, cache
<1>7. MembersCover'
  BY <1>2, <1>3 DEF IInv, MembersCover, cache
<1>8. NoneSent
  <2>1. \A v \in Writers \ {w} : writer'[v] = writer[v]
    BY DEF Apply, IInv, TypeOK
  <2>2. writer'[w].pc \notin Flying
    BY <1>1 DEF Apply, IInv, TypeOK, NoWrite, WriteStates, Flying
  <2> QED
    BY <2>1, <2>2 DEF NoneSent
<1>9. WritesClear'
  BY <1>2, <1>8, SameCache, NoneSentKeeps DEF cache
<1>10. ReadersCurrent'
  BY <1>1, <1>2 DEF IInv, ReadersCurrent, InFlight, Flying
<1>11. WritesAllowed'
  <2>1. \A v \in Writers \ {w} : writer'[v] = writer[v]
    BY DEF Apply, IInv, TypeOK
  <2>2. writer'[w] = IF op.pc = "sent" THEN [op EXCEPT !.pc = "applied"] ELSE NoWrite
    BY DEF Apply, IInv, TypeOK
  <2>3. writer'[w].pc = "idle" \/ (writer'[w].kind = op.kind /\ writer'[w].handled = op.handled)
    BY <1>1, <2>2 DEF WriteStates, NoWrite
  <2> QED
    BY <1>1, <2>1, <2>3 DEF IInv, WritesAllowed
<1> QED
  BY <1>5, <1>6, <1>7, <1>9, <1>10, <1>11

-----------------------------------------------------------------------------
LEMMA InvStep == NoBareMoves /\ IInv /\ [Next]_vars => IInv'
<1> SUFFICES ASSUME NoBareMoves, IInv, [Next]_vars PROVE IInv'
  OBVIOUS
<1> DEFINE Rest == QuietListingIsCurrent /\ MembersCover /\ ShownUnder /\ WritesClear
                   /\ ReadersCurrent /\ WritesAllowed
<1>1. TypeOK'
  BY TypeStep DEF IInv
<1>2. ASSUME NEW r \in Readers, (\E k \in Keys : Ask(r, k)) \/ Answer(r) \/ ReadFails(r) PROVE Rest'
  BY <1>2, ReadStep
<1>3. ASSUME NEW r \in Readers, Insert(r) PROVE Rest'
  BY <1>3, InsertStep
<1>4. ASSUME NEW k \in Keys, Expire(k) PROVE Rest'
  BY <1>4, ExpireStep
<1>5. ASSUME NEW w \in Writers,
             \/ \E op \in Writes, n \in Nodes, to \in Keys \cup {None} : Begin(w, op, n, to)
             \/ Refuse(w) \/ Abandon(w) \/ Finish(w)
      PROVE  Rest'
  BY <1>5, QuietWriteStep
<1>6. ASSUME NEW w \in Writers, Look(w) \/ Send(w) PROVE Rest'
  BY <1>6, LookStep, SendStep
<1>7. ASSUME NEW w \in Writers, Apply(w) PROVE Rest'
  BY <1>1, <1>7, ApplyStep
<1>8. ASSUME UNCHANGED vars PROVE Rest'
  <2>1. UNCHANGED <<upstream, cache, strayed, reader, writer>> /\ NoneGained /\ NoneSent
    BY <1>8, SameCache, SameWriters DEF vars, cache
  <2>2. QuietListingIsCurrent' /\ MembersCover' /\ ShownUnder'
    BY <2>1, NoneGainedKeeps DEF cache
  <2>3. WritesClear' /\ (InFlight' => InFlight)
    BY <2>1, NoneSentKeeps
  <2>4. ReadersCurrent'
    BY <2>1, <2>3, SameReaders
  <2>5. WritesAllowed'
    BY <2>1 DEF IInv, WritesAllowed
  <2> QED
    BY <2>2, <2>3, <2>4, <2>5
<1>9. Rest'
  BY <1>2, <1>3, <1>4, <1>5, <1>6, <1>7, <1>8 DEF Next
<1> QED
  BY <1>1, <1>9 DEF IInv

(* The strengthening that makes coherence inductive holds throughout.      *)
THEOREM CacheInvariant ==
  ASSUME NoBareMoves
  PROVE  Spec => []IInv
<1>1. IInv /\ [Next]_vars => IInv'
  BY InvStep
<1> QED
  BY <1>1, InitInv, PTL DEF Spec

(* As long as every move comes from the handler that invalidates for it, a *)
(* quiet listing is always what upstream would answer.                     *)
THEOREM QuietListingsAreCurrent ==
  ASSUME NoBareMoves
  PROVE  Spec => []QuietListingIsCurrent
<1>1. IInv => QuietListingIsCurrent
  BY DEF IInv
<1>2. Spec => []IInv
  BY CacheInvariant
<1> QED
  BY <1>1, <1>2, PTL

(* Under the same assumption member_of finds the listing a node is in.     *)
THEOREM MembersAlwaysCover ==
  ASSUME NoBareMoves
  PROVE  Spec => []MembersCover
<1>1. IInv => MembersCover
  BY DEF IInv
<1>2. Spec => []IInv
  BY CacheInvariant
<1> QED
  BY <1>1, <1>2, PTL

-----------------------------------------------------------------------------
(* The request path.                                                       *)

USE TasksAssumption, ReplyAssumption, BucketAssumption, BoundAssumption
  DEF TasksAssumption, ReplyAssumption, BucketAssumption, BoundAssumption

-----------------------------------------------------------------------------
(* Arithmetic.                                                             *)

LEMMA SplitProduct ==
  ASSUME NEW a \in Int, NEW b \in Int, NEW c \in Int, NEW k \in Int
  PROVE  (a - b) * k + (b - c) * k = (a - c) * k
OBVIOUS

LEMMA ProductGrows ==
  ASSUME NEW n \in Nat, NEW a \in Int, NEW b \in Int, a <= b
  PROVE  n * a <= n * b /\ n * a \in Int /\ n * b \in Int
OBVIOUS

LEMMA ProductOfNats ==
  ASSUME NEW a \in Nat, NEW b \in Nat
  PROVE  a * b \in Nat
OBVIOUS

LEMMA NoneTimes ==
  ASSUME NEW k \in Int
  PROVE  0 * k = 0
OBVIOUS

LEMMA OneMore ==
  ASSUME NEW n \in Int, NEW k \in Int
  PROVE  (n + 1) * k = n * k + k
OBVIOUS

\* What a refill leaves in the bucket, and what it can have earned at most.
LEMMA RefillBounds ==
  ASSUME PathTypeOK
  PROVE  Refilled \in 0..Capacity /\ Refilled <= tokens + (now - lastRefill) * rate
<1> DEFINE d == now - lastRefill
<1>1. d \in Nat /\ rate \in Nat /\ rate <= FullRate /\ tokens \in Nat /\ tokens <= Capacity
  BY DEF PathTypeOK
<1>2. d * rate \in Nat
  BY <1>1, ProductOfNats
<1> HIDE DEF d
<1>3. AtMost(tokens + d * rate, Capacity) \in 0..Capacity
  BY <1>1, <1>2, BucketAssumption DEF AtMost
<1>4. AtMost(tokens + d * rate, Capacity) <= tokens + d * rate
  BY <1>1, <1>2, BucketAssumption DEF AtMost
<1> QED
  BY <1>3, <1>4 DEF Refilled, d

-----------------------------------------------------------------------------
(* Types.                                                                  *)

LEMMA FreshType == \A l \in PCs : Fresh(l) \in Calls
BY DEF Fresh, Calls

LEMMA PcNames == PCs = {"idle", "enter", "top", "token", "send", "sent", "stamp", "sleep", "done"}
BY DEF PCs

LEMMA CallTypes ==
  ASSUME PathTypeOK, NEW t \in Tasks
  PROVE  /\ call[t] \in Calls
         /\ call[t].deadline # Forever => call[t].deadline \in Nat
BY DEF PathTypeOK, Calls

\* A step replaces one call record by another.
LEMMA ReplacedCall ==
  ASSUME PathTypeOK, NEW t \in Tasks, NEW c \in Calls
  PROVE  [call EXCEPT ![t] = c] \in [Tasks -> Calls]
BY DEF PathTypeOK

LEMMA ReturnType ==
  ASSUME PathTypeOK, NEW t \in Tasks, NEW r \in Results, Return(t, r)
  PROVE  call' \in [Tasks -> Calls] /\ result' \in [Tasks -> Results]
<1>1. Fresh("done") \in Calls
  BY FreshType DEF PCs
<1> QED
  BY <1>1, ReplacedCall DEF Return, PathTypeOK

LEMMA GotoType ==
  ASSUME PathTypeOK, NEW t \in Tasks, NEW l \in PCs, Goto(t, l)
  PROVE  call' \in [Tasks -> Calls]
<1>1. [call[t] EXCEPT !.pc = l] \in Calls
  BY DEF PathTypeOK, Calls
<1> QED
  BY <1>1, ReplacedCall DEF Goto

LEMMA DelayType ==
  ASSUME PathTypeOK, NEW t \in Tasks
  PROVE  DelaysAfter429(t) \subseteq Int /\ Backoffs(call[t].attempt) \subseteq Int
<1>1. ASSUME NEW a \in Nat PROVE Exponential(a) \in Int
  BY DEF Exponential, AtMost
<1>2. ASSUME NEW a \in Nat PROVE Backoffs(a) \subseteq Int
  BY <1>1 DEF Backoffs
<1>3. call[t].attempt \in Nat /\ call[t].hint \in Hints \cup {NoHint}
  BY CallTypes DEF Calls
<1>4. Backoffs(call[t].attempt) \subseteq Int
  BY <1>2, <1>3
<1>5. call[t].hint # NoHint => ParseRetryAfter(call[t].hint) \in Int
  <2>1. ASSUME NEW h \in Nat PROVE ParseRetryAfter(h) \in Int
    BY DEF ParseRetryAfter, AtLeast
  <2>2. call[t].hint # NoHint => call[t].hint \in Nat
    BY <1>3
  <2> QED
    BY <2>1, <2>2
<1>6. CASE call[t].hint = NoHint
  BY <1>4, <1>6 DEF DelaysAfter429
<1>7. CASE call[t].hint # NoHint
  BY <1>4, <1>5, <1>7 DEF DelaysAfter429
<1> QED
  BY <1>4, <1>6, <1>7

LEMMA RetryType ==
  ASSUME PathTypeOK, NEW t \in Tasks, NEW D, D \subseteq Int, Retry(t, D)
  PROVE  call' \in [Tasks -> Calls] /\ result' \in [Tasks -> Results]
<1>1. CASE Spent(t)
  BY <1>1, ReturnType DEF Retry, Results
<1>2. CASE ~Spent(t) /\ Late(t)
  BY <1>2, ReturnType DEF Retry, Results
<1>3. CASE ~Spent(t) /\ ~Late(t)
  <2>1. PICK d \in D :
          call' = [call EXCEPT ![t].pc = "sleep", ![t].hint = NoHint,
                     ![t].wake = IF call[t].deadline = Forever THEN now + d
                                  ELSE AtMost(now + d, call[t].deadline)]
    BY <1>3 DEF Retry
  <2>2. result' = result
    BY <1>3 DEF Retry
  <2> DEFINE w == IF call[t].deadline = Forever THEN now + d
                  ELSE AtMost(now + d, call[t].deadline)
  <2>3. w \in Int
    <3>1. now + d \in Int
      BY DEF PathTypeOK
    <3>2. call[t].deadline # Forever => call[t].deadline \in Int
      BY CallTypes
    <3> QED
      BY <3>1, <3>2 DEF AtMost
  <2>4. call' = [call EXCEPT ![t].pc = "sleep", ![t].hint = NoHint, ![t].wake = w]
    BY <2>1
  <2> HIDE DEF w
  <2>5. [call[t] EXCEPT !.pc = "sleep", !.hint = NoHint, !.wake = w] \in Calls
    BY <2>3, CallTypes DEF Calls, PCs
  <2>6. call' = [call EXCEPT ![t] = [call[t] EXCEPT !.pc = "sleep", !.hint = NoHint, !.wake = w]]
    BY <2>4 DEF PathTypeOK
  <2> QED
    BY <2>2, <2>5, <2>6, ReplacedCall DEF PathTypeOK
<1> QED
  BY <1>1, <1>2, <1>3

LEMMA RateTypes ==
  ASSUME PathTypeOK
  PROVE  Rewarded \in MinRate..FullRate /\ AtLeast(rate \div 2, MinRate) \in MinRate..FullRate
<1>1. rate \in Nat /\ MinRate <= rate /\ rate <= FullRate
  BY DEF PathTypeOK
<1>2. rate \div 2 \in Int /\ rate \div 2 <= rate
  BY <1>1
<1> QED
  BY <1>1, <1>2 DEF Rewarded, AtMost, AtLeast, PathTypeOK

LEMMA TypeInit == PathInit => PathTypeOK
<1>1. Fresh("idle") \in Calls
  BY FreshType DEF PCs
<1> QED
  BY <1>1 DEF PathInit, PathTypeOK, Results

LEMMA PathTypeStep == PathTypeOK /\ [PathNext]_pathVars => PathTypeOK'
<1> SUFFICES ASSUME PathTypeOK, [PathNext]_pathVars PROVE PathTypeOK'
  OBVIOUS
<1> USE DEF window, bucket, ledger
<1>1. ASSUME NEW t \in Tasks, Start(t) PROVE PathTypeOK'
  <2> DEFINE due == IF Budget[t] = NoBudget THEN Forever ELSE now + Budget[t]
  <2>1. due \in Nat \cup {Forever}
    BY DEF PathTypeOK
  <2>2. call' = [call EXCEPT ![t].pc = "enter", ![t].snapshot = generation, ![t].deadline = due]
    BY <1>1 DEF Start
  <2> HIDE DEF due
  <2>3. [call[t] EXCEPT !.pc = "enter", !.snapshot = generation, !.deadline = due] \in Calls
    <3>1. call[t] \in Calls /\ generation \in Nat /\ "enter" \in PCs
      BY CallTypes, PcNames DEF PathTypeOK
    <3> QED
      BY <2>1, <3>1 DEF Calls
  <2>4. call' = [call EXCEPT ![t] =
                   [call[t] EXCEPT !.pc = "enter", !.snapshot = generation, !.deadline = due]]
    BY <2>2 DEF PathTypeOK
  <2>5. call' \in [Tasks -> Calls]
    BY <2>3, <2>4, ReplacedCall
  <2> QED
    BY <1>1, <2>5 DEF Start, PathTypeOK
<1>2. ASSUME NEW t \in Tasks, Enter(t) PROVE PathTypeOK'
  <2>1. call' \in [Tasks -> Calls] /\ result' \in [Tasks -> Results]
    <3>1. CASE InRetryWindow
      BY <1>2, <3>1, ReturnType DEF Enter, Results
    <3>2. CASE ~InRetryWindow
      BY <1>2, <3>2, GotoType DEF Enter, PCs, PathTypeOK
    <3> QED
      BY <3>1, <3>2
  <2> QED
    BY <1>2, <2>1 DEF Enter, PathTypeOK
<1>3. ASSUME NEW t \in Tasks, Top(t) PROVE PathTypeOK'
  <2>1. call' \in [Tasks -> Calls] /\ result' \in [Tasks -> Results]
    <3>1. CASE Cancelled(t)
      BY <1>3, <3>1, ReturnType DEF Top, Results
    <3>2. CASE ~Cancelled(t) /\ Late(t)
      BY <1>3, <3>2, ReturnType DEF Top, Results
    <3>3. CASE ~Cancelled(t) /\ ~Late(t)
      BY <1>3, <3>3 DEF Top, PathTypeOK, Calls, PCs
    <3> QED
      BY <3>1, <3>2, <3>3
  <2> QED
    BY <1>3, <2>1 DEF Top, PathTypeOK
<1>4. ASSUME NEW t \in Tasks, Acquire(t) PROVE PathTypeOK'
  <2>1. call' \in [Tasks -> Calls] /\ result' \in [Tasks -> Results]
    <3>1. CASE Late(t)
      BY <1>4, <3>1, ReturnType DEF Acquire, Results
    <3>2. CASE ~Late(t)
      BY <1>4, <3>2, GotoType DEF Acquire, PCs, PathTypeOK
    <3> QED
      BY <3>1, <3>2
  <2>2. tokens' \in 0..Capacity
    BY <1>4, RefillBounds DEF Acquire
  <2> QED
    BY <1>4, <2>1, <2>2 DEF Acquire, PathTypeOK
<1>5. ASSUME NEW t \in Tasks, AwaitToken(t) PROVE PathTypeOK'
  <2> DEFINE w == now + Slice(t, Refilled)
  <2>1. w \in Int
    <3>1. WaitForToken(Refilled) \in Int
      BY RefillBounds DEF WaitForToken, PathTypeOK
    <3>2. Slice(t, Refilled) \in Int
      BY <3>1 DEF Slice, AtLeast
    <3> QED
      BY <3>2 DEF PathTypeOK
  <2>2. call' = [call EXCEPT ![t].wake = w]
    BY <1>5 DEF AwaitToken
  <2> HIDE DEF w
  <2>3. call' \in [Tasks -> Calls]
    <3>1. [call[t] EXCEPT !.wake = w] \in Calls
      BY <2>1, CallTypes DEF Calls
    <3>2. call' = [call EXCEPT ![t] = [call[t] EXCEPT !.wake = w]]
      BY <2>2 DEF PathTypeOK
    <3> QED
      BY <3>1, <3>2, ReplacedCall
  <2>4. tokens' \in 0..Capacity
    BY <1>5, RefillBounds DEF AwaitToken
  <2> QED
    BY <1>5, <2>3, <2>4 DEF AwaitToken, PathTypeOK
<1>6. ASSUME NEW t \in Tasks, Transmit(t) PROVE PathTypeOK'
  <2> DEFINE c == [call[t] EXCEPT !.pc = "sent", !.wake = now + HttpTimeout]
  <2>0. c \in Calls
    <3>1. call[t] \in Calls /\ now + HttpTimeout \in Int /\ "sent" \in PCs
      BY CallTypes, PcNames DEF PathTypeOK
    <3> QED
      BY <3>1 DEF Calls
  <2>1. call' \in [Tasks -> Calls]
    <3>1. call' = [call EXCEPT ![t] = c]
      BY <1>6 DEF Transmit, PathTypeOK
    <3> QED
      BY <2>0, <3>1, ReplacedCall
  <2>2. sends' \in [Tasks -> Nat]
    BY <1>6 DEF Transmit, PathTypeOK
  <2> QED
    BY <1>6, <2>1, <2>2 DEF Transmit, PathTypeOK
<1>7. ASSUME NEW t \in Tasks, StopCancelled(t) \/ StopLate(t) \/ ReplyRefused(t) PROVE PathTypeOK'
  <2>1. call' \in [Tasks -> Calls] /\ result' \in [Tasks -> Results]
    BY <1>7, ReturnType DEF StopCancelled, StopLate, ReplyRefused, Results
  <2> QED
    BY <1>7, <2>1 DEF StopCancelled, StopLate, ReplyRefused, PathTypeOK
<1>8. ASSUME NEW t \in Tasks, ReplyOk(t) PROVE PathTypeOK'
  <2>1. call' \in [Tasks -> Calls] /\ result' \in [Tasks -> Results]
    BY <1>8, ReturnType DEF ReplyOk, Results
  <2> QED
    BY <1>8, <2>1, RateTypes DEF ReplyOk, PathTypeOK
<1>9. ASSUME NEW t \in Tasks, ReplyCut(t) PROVE PathTypeOK'
  <2>1. call' \in [Tasks -> Calls] /\ result' \in [Tasks -> Results]
    BY <1>9, RetryType, DelayType DEF ReplyCut
  <2> QED
    BY <1>9, <2>1, RateTypes DEF ReplyCut, PathTypeOK
<1>10. ASSUME NEW t \in Tasks, ReplyError(t) PROVE PathTypeOK'
  <2>1. call' \in [Tasks -> Calls] /\ result' \in [Tasks -> Results]
    BY <1>10, RetryType, DelayType DEF ReplyError
  <2> QED
    BY <1>10, <2>1 DEF ReplyError, PathTypeOK
<1>11. ASSUME NEW t \in Tasks, NEW h \in Hints \cup {NoHint}, Reply429(t, h) PROVE PathTypeOK'
  <2> DEFINE n == IF h = NoHint THEN now ELSE now + ParseRetryAfter(h)
  <2>1. n \in Nat
    BY DEF ParseRetryAfter, AtLeast, PathTypeOK
  <2>2. call' = [call EXCEPT ![t].pc = "stamp", ![t].stores = {"stamp", "hint"},
                   ![t].hint = h, ![t].notBefore = n]
    BY <1>11 DEF Reply429
  <2> HIDE DEF n
  <2>3. [call[t] EXCEPT !.pc = "stamp", !.stores = {"stamp", "hint"}, !.hint = h,
           !.notBefore = n] \in Calls
    BY <2>1, CallTypes DEF Calls, PCs
  <2>4. call' = [call EXCEPT ![t] = [call[t] EXCEPT !.pc = "stamp",
                   !.stores = {"stamp", "hint"}, !.hint = h, !.notBefore = n]]
    BY <2>2 DEF PathTypeOK
  <2>5. call' \in [Tasks -> Calls]
    BY <2>3, <2>4, ReplacedCall
  <2> QED
    BY <1>11, <2>5 DEF Reply429, PathTypeOK
<1>12. ASSUME NEW t \in Tasks, StoreStamp(t) PROVE PathTypeOK'
  <2>1. [call[t] EXCEPT !.stores = call[t].stores \ {"stamp"}] \in Calls
    BY DEF PathTypeOK, Calls
  <2>2. call' \in [Tasks -> Calls]
    BY <1>12, <2>1, ReplacedCall DEF StoreStamp
  <2> QED
    BY <1>12, <2>2 DEF StoreStamp, PathTypeOK
<1>13. ASSUME NEW t \in Tasks, StoreHint(t) PROVE PathTypeOK'
  <2>1. call' \in [Tasks -> Calls]
    <3>1. [call[t] EXCEPT !.stores = call[t].stores \ {"hint"}] \in Calls
      BY DEF PathTypeOK, Calls
    <3> QED
      BY <1>13, <3>1, ReplacedCall DEF StoreHint
  <2>2. lastRetryAfter' \in Nat
    <3>1. call[t].hint # NoHint => call[t].hint \in Nat
      BY CallTypes DEF Calls
    <3> QED
      BY <1>13, <3>1 DEF StoreHint, ParseRetryAfter, AtLeast
  <2> QED
    BY <1>13, <2>1, <2>2 DEF StoreHint, PathTypeOK
<1>14. ASSUME NEW t \in Tasks, Drain(t) PROVE PathTypeOK'
  <2>1. call' \in [Tasks -> Calls] /\ result' \in [Tasks -> Results]
    BY <1>14, RetryType, DelayType DEF Drain
  <2>2. rate' \in MinRate..FullRate /\ tokens' \in 0..Capacity
    BY <1>14, RateTypes DEF Drain, DrainedTokens
  <2> QED
    BY <1>14, <2>1, <2>2 DEF Drain, PathTypeOK
<1>15. ASSUME NEW t \in Tasks, Wake(t) PROVE PathTypeOK'
  <2>1. call' \in [Tasks -> Calls] /\ result' \in [Tasks -> Results]
    <3>1. CASE Late(t)
      BY <1>15, <3>1, ReturnType DEF Wake, Results
    <3>2. CASE ~Late(t)
      <4>1. [call[t] EXCEPT !.pc = "top", !.wake = 0] \in Calls
        <5>1. call[t] \in Calls /\ "top" \in PCs /\ 0 \in Int
          BY CallTypes, PcNames
        <5> QED
          BY <5>1 DEF Calls
      <4>2. call' = [call EXCEPT ![t] = [call[t] EXCEPT !.pc = "top", !.wake = 0]]
        BY <1>15, <3>2 DEF Wake, PathTypeOK
      <4> QED
        BY <1>15, <3>2, <4>1, <4>2, ReplacedCall DEF Wake, PathTypeOK
    <3> QED
      BY <3>1, <3>2
  <2> QED
    BY <1>15, <2>1 DEF Wake, PathTypeOK
<1>16. CASE CancelAll
  BY <1>16 DEF CancelAll, PathTypeOK
<1>17. CASE Tick
  BY <1>17 DEF Tick, PathTypeOK
<1>18. CASE Finished \/ UNCHANGED pathVars
  BY <1>18 DEF Finished, pathVars, PathTypeOK
<1> QED
  BY <1>1, <1>2, <1>3, <1>4, <1>5, <1>6, <1>7, <1>8, <1>9, <1>10, <1>11, <1>12, <1>13,
     <1>14, <1>15, <1>16, <1>17, <1>18 DEF PathNext, TaskStep, UpstreamStep, GivesUp

(* Every variable keeps its type; in particular the bucket never holds more *)
(* than its burst, and its rate stays between the floor and the configured  *)
(* rate.                                                                    *)
THEOREM Typing == PathSpec => []PathTypeOK
BY TypeInit, PathTypeStep, PTL DEF PathSpec

-----------------------------------------------------------------------------
(* The ledger. TokensAreEarned is not inductive: a refill hands out what    *)
(* the bucket earned before. What is left in the bucket has to be counted   *)
(* with what was taken from it, and only up to the last refill; a reward    *)
(* only adds to what the time since the last 429 is worth.                  *)

LedgerInv ==
  /\ since <= lastRefill
  /\ tokens + acquired * One <= allowance + (lastRefill - since) * rate

LEMMA LedgerGivesTokensAreEarned == PathTypeOK /\ LedgerInv => TokensAreEarned
<1> SUFFICES ASSUME PathTypeOK, LedgerInv PROVE TokensAreEarned
  OBVIOUS
<1>1. now - lastRefill \in Nat /\ rate \in Nat /\ tokens \in Nat
  BY DEF PathTypeOK
<1>2. (now - lastRefill) * rate \in Nat
  BY <1>1, ProductOfNats
<1>3. (now - lastRefill) * rate + (lastRefill - since) * rate = (now - since) * rate
  BY SplitProduct DEF PathTypeOK
<1>4. acquired * One \in Int /\ (lastRefill - since) * rate \in Int
      /\ (now - since) * rate \in Int /\ allowance \in Int
  BY DEF PathTypeOK
<1> DEFINE a == acquired * One  e == (lastRefill - since) * rate
           f == (now - since) * rate  g == (now - lastRefill) * rate
<1>5. a \in Int /\ e \in Int /\ f \in Int /\ g \in Nat /\ g + e = f /\ tokens + a <= allowance + e
  BY <1>2, <1>3, <1>4 DEF LedgerInv
<1> HIDE DEF a, e, f, g
<1>6. a <= allowance + f
  BY <1>1, <1>4, <1>5
<1> QED
  BY <1>6 DEF TokensAreEarned, a, f

\* A refill up to now keeps the account.
LEMMA RefillKeepsAccount ==
  ASSUME PathTypeOK, LedgerInv
  PROVE  Refilled + acquired * One <= allowance + (now - since) * rate
<1> DEFINE a == acquired * One  e == (lastRefill - since) * rate
           f == (now - since) * rate  g == (now - lastRefill) * rate
<1>1. a \in Int /\ e \in Int /\ f \in Int /\ g \in Int /\ allowance \in Int /\ tokens \in Int
  BY DEF PathTypeOK
<1>2. g + e = f
  BY SplitProduct DEF PathTypeOK
<1>3. Refilled \in Int /\ Refilled <= tokens + g
  BY RefillBounds
<1>4. tokens + a <= allowance + e
  BY DEF LedgerInv
<1> HIDE DEF a, e, f, g
<1>5. Refilled + a <= allowance + f
  BY <1>1, <1>2, <1>3, <1>4
<1> QED
  BY <1>5 DEF a, f

LEMMA LedgerInit == PathInit => LedgerInv
BY DEF PathInit, LedgerInv

LEMMA LedgerStep == PathTypeOK /\ LedgerInv /\ [PathNext]_pathVars => LedgerInv'
<1> SUFFICES ASSUME PathTypeOK, LedgerInv, [PathNext]_pathVars PROVE LedgerInv'
  OBVIOUS
<1> USE DEF window, bucket, ledger
<1>1. ASSUME NEW t \in Tasks, Acquire(t) PROVE LedgerInv'
  <2> DEFINE a == acquired * One  f == (now - since) * rate
  <2>1. (acquired + 1) * One = a + One
    BY OneMore DEF PathTypeOK
  <2>2. Refilled \in Int /\ a \in Int /\ f \in Int /\ allowance \in Int /\ Refilled + a <= allowance + f
    BY RefillBounds, RefillKeepsAccount DEF PathTypeOK
  <2> HIDE DEF a, f
  <2>3. (Refilled - One) + (a + One) <= allowance + f
    BY <2>2
  <2>4. (Refilled - One) + (acquired + 1) * One <= allowance + (now - since) * rate
    BY <2>1, <2>3 DEF f
  <2>5. since <= now
    BY DEF PathTypeOK
  <2> QED
    BY <1>1, <2>4, <2>5 DEF Acquire, LedgerInv
<1>2. ASSUME NEW t \in Tasks, AwaitToken(t) PROVE LedgerInv'
  <2>1. since <= now
    BY DEF PathTypeOK
  <2> QED
    BY <1>2, <2>1, RefillKeepsAccount DEF AwaitToken, LedgerInv
<1>3. ASSUME NEW t \in Tasks, Drain(t) PROVE LedgerInv'
  <2>1. /\ tokens' = 0 /\ acquired' = 0 /\ allowance' = 0
        /\ since' = now /\ lastRefill' = now
    BY <1>3 DEF Drain, DrainedTokens
  <2>2. now \in Int /\ now - now = 0
    BY DEF PathTypeOK
  <2>3. rate' \in Int
    BY <1>3, RateTypes, BucketAssumption DEF Drain
  <2>4. 0 * rate' = 0
    BY <2>3, NoneTimes
  <2>5. 0 * One = 0
    BY NoneTimes, BucketAssumption
  <2> QED
    BY <2>1, <2>2, <2>4, <2>5 DEF LedgerInv
<1>4. ASSUME UNCHANGED <<tokens, lastRefill, ledger>>, rate' \in Nat, rate <= rate'
      PROVE  LedgerInv'
  <2> DEFINE a == acquired * One  e == (lastRefill - since) * rate  f == (lastRefill - since) * rate'
  <2>1. lastRefill - since \in Nat /\ since <= lastRefill
    BY DEF LedgerInv, PathTypeOK
  <2>2. e <= f /\ e \in Int /\ f \in Int
    <3>1. rate \in Int /\ rate' \in Int
      BY <1>4, BucketAssumption DEF PathTypeOK
    <3> QED
      BY <1>4, <2>1, <3>1, ProductGrows
  <2>3. a \in Int /\ tokens \in Int /\ allowance \in Int /\ tokens + a <= allowance + e
    BY DEF LedgerInv, PathTypeOK
  <2> HIDE DEF a, e, f
  <2>4. tokens + a <= allowance + f
    BY <2>2, <2>3
  <2> QED
    BY <1>4, <2>1, <2>4 DEF LedgerInv, a, f
<1>r. rate \in Nat /\ FullRate \in Nat /\ RateStep \in Nat /\ rate <= FullRate
  BY BucketAssumption DEF PathTypeOK
<1>5. ASSUME NEW t \in Tasks,
             Start(t) \/ Enter(t) \/ Top(t) \/ Transmit(t) \/ StopCancelled(t) \/ StopLate(t)
             \/ Wake(t) \/ StoreStamp(t) \/ StoreHint(t)
      PROVE  UNCHANGED <<tokens, lastRefill, ledger>> /\ rate' = rate
  BY <1>5 DEF Start, Enter, Top, Transmit, StopCancelled, StopLate, Wake, StoreStamp, StoreHint
<1>6. ASSUME NEW t \in Tasks, GivesUp(t) \/ UpstreamStep(t)
      PROVE  UNCHANGED <<tokens, lastRefill, ledger>> /\ rate' \in {rate, Rewarded}
  BY <1>6 DEF GivesUp, UpstreamStep, ReplyOk, ReplyCut, ReplyError, ReplyRefused, Reply429
<1>6a. Rewarded \in Nat /\ rate <= Rewarded
  BY <1>r DEF Rewarded, AtMost
<1>7. CASE CancelAll \/ Tick \/ Finished \/ UNCHANGED pathVars
  BY <1>4, <1>7, <1>r DEF CancelAll, Tick, Finished, pathVars
<1>8. ASSUME NEW t \in Tasks,
             Start(t) \/ Enter(t) \/ Top(t) \/ Transmit(t) \/ StopCancelled(t) \/ StopLate(t)
             \/ Wake(t) \/ StoreStamp(t) \/ StoreHint(t) \/ GivesUp(t) \/ UpstreamStep(t)
      PROVE  LedgerInv'
  BY <1>4, <1>5, <1>6, <1>6a, <1>8, <1>r
<1> QED
  BY <1>1, <1>2, <1>3, <1>7, <1>8 DEF PathNext, TaskStep

(* Every token handed out since the last 429 was earned since then at no    *)
(* more than the rate of now, with any number of callers and any adaptive   *)
(* rate (RateLimiter::drain, ::reward, TokenBucket::refill).                *)
THEOREM DrainHolds == PathSpec => []TokensAreEarned
BY Typing, LedgerInit, LedgerStep, LedgerGivesTokensAreEarned, PTL DEF PathSpec

-----------------------------------------------------------------------------
(* Sends.                                                                   *)

\* Only Transmit sends, and only for its own task.
LEMMA OnlySendSends ==
  ASSUME PathTypeOK, [PathNext]_pathVars, NEW u \in Tasks, sends'[u] # sends[u]
  PROVE  Transmit(u)
<1> USE DEF window, bucket, ledger
<1>1. ASSUME NEW t \in Tasks, Transmit(t) PROVE Transmit(u)
  <2>1. u = t
    BY <1>1 DEF Transmit, PathTypeOK
  <2> QED
    BY <1>1, <2>1
<1>2. ASSUME NEW t \in Tasks,
             Start(t) \/ Enter(t) \/ Top(t) \/ Acquire(t) \/ AwaitToken(t) \/ StopCancelled(t)
             \/ StopLate(t) \/ Wake(t) \/ StoreStamp(t) \/ StoreHint(t) \/ Drain(t)
      PROVE  sends' = sends
  BY <1>2 DEF Start, Enter, Top, Acquire, AwaitToken, StopCancelled, StopLate, Wake,
              StoreStamp, StoreHint, Drain
<1>3. ASSUME NEW t \in Tasks, GivesUp(t) \/ UpstreamStep(t)
      PROVE  sends' = sends
  BY <1>3 DEF GivesUp, UpstreamStep, ReplyOk, ReplyCut, ReplyError, ReplyRefused, Reply429
<1>4. CancelAll \/ Tick \/ Finished \/ UNCHANGED pathVars => sends' = sends
  BY DEF CancelAll, Tick, Finished, pathVars
<1> QED
  BY <1>1, <1>2, <1>3, <1>4 DEF PathNext, TaskStep

-----------------------------------------------------------------------------
(* The wait after a 429. The promise is made when the 429 arrives, the      *)
(* sleep is chosen after the bucket was drained, and it may be cut to the   *)
(* deadline: until it sends again, a call is past the promised tick, or     *)
(* past its deadline, or bound to wait for the earlier of the two.          *)

WaitOf(u) ==
  /\ At(u, "idle") => now >= call[u].notBefore
  /\ call[u].pc \notin {"stamp", "sleep", "done"} => now >= call[u].notBefore \/ Late(u)
  /\ At(u, "stamp") => now >= call[u].notBefore
                       \/ /\ call[u].hint # NoHint
                          /\ now + ParseRetryAfter(call[u].hint) >= call[u].notBefore
  /\ At(u, "sleep") => \/ now >= call[u].notBefore
                       \/ call[u].wake >= call[u].notBefore
                       \/ call[u].deadline # Forever /\ call[u].wake >= call[u].deadline

WaitInv == \A u \in Tasks : WaitOf(u)

\* Time only helps.
LEMMA WaitLasts ==
  ASSUME PathTypeOK, NEW u \in Tasks, WaitOf(u), call'[u] = call[u], now' \in Nat, now' >= now
  PROVE  WaitOf(u)'
<1> DEFINE c == call[u]
<1>1. /\ c.notBefore \in Nat /\ c.wake \in Int /\ now \in Nat
      /\ c.deadline # Forever => c.deadline \in Nat
  BY CallTypes DEF Calls, PathTypeOK
<1>2. c.hint # NoHint => ParseRetryAfter(c.hint) \in Int
  <2>1. c.hint # NoHint => c.hint \in Nat
    BY CallTypes DEF Calls
  <2>2. ASSUME NEW h \in Nat PROVE ParseRetryAfter(h) \in Int
    BY DEF ParseRetryAfter, AtLeast
  <2> QED
    BY <2>1, <2>2
<1>3. call'[u] = c
  OBVIOUS
<1> HIDE DEF c
<1>10. c.pc = "idle" => now >= c.notBefore
  BY DEF WaitOf, At, c
<1>11. c.pc = "idle" => now' >= c.notBefore
  BY <1>1, <1>10
<1>4. c.pc \notin {"stamp", "sleep", "done"} => now >= c.notBefore \/ (c.deadline # Forever /\ now >= c.deadline)
  BY DEF WaitOf, Late, c
<1>5. c.pc = "stamp" => now >= c.notBefore \/ (c.hint # NoHint /\ now + ParseRetryAfter(c.hint) >= c.notBefore)
  BY DEF WaitOf, At, c
<1>6. c.pc = "sleep" => now >= c.notBefore \/ c.wake >= c.notBefore \/ (c.deadline # Forever /\ c.wake >= c.deadline)
  BY DEF WaitOf, At, c
<1>7. c.pc \notin {"stamp", "sleep", "done"} => now' >= c.notBefore \/ (c.deadline # Forever /\ now' >= c.deadline)
  BY <1>1, <1>4
<1>8. c.pc = "stamp" => now' >= c.notBefore \/ (c.hint # NoHint /\ now' + ParseRetryAfter(c.hint) >= c.notBefore)
  BY <1>1, <1>2, <1>5
<1>9. c.pc = "sleep" => now' >= c.notBefore \/ c.wake >= c.notBefore \/ (c.deadline # Forever /\ c.wake >= c.deadline)
  BY <1>1, <1>6
<1> QED
  BY <1>3, <1>7, <1>8, <1>9, <1>11 DEF WaitOf, At, Late, ParseRetryAfter

\* A task's step leaves the others' calls alone, and takes no time.
LEMMA OthersUntouched ==
  ASSUME PathTypeOK, NEW t \in Tasks, Start(t) \/ TaskStep(t) \/ UpstreamStep(t)
  PROVE  now' = now /\ \A u \in Tasks \ {t} : call'[u] = call[u]
<1>1. ASSUME NEW r, Return(t, r) PROVE \A u \in Tasks \ {t} : call'[u] = call[u]
  BY <1>1 DEF Return, PathTypeOK
<1>2. ASSUME NEW l, Goto(t, l) PROVE \A u \in Tasks \ {t} : call'[u] = call[u]
  BY <1>2 DEF Goto, PathTypeOK
<1>3. ASSUME NEW D, Retry(t, D) PROVE \A u \in Tasks \ {t} : call'[u] = call[u]
  BY <1>1, <1>3 DEF Retry, PathTypeOK
<1>4. CASE Start(t) \/ Transmit(t) \/ AwaitToken(t) \/ StoreStamp(t) \/ StoreHint(t)
  BY <1>4 DEF Start, Transmit, AwaitToken, StoreStamp, StoreHint, PathTypeOK
<1>5. CASE Enter(t)
  BY <1>1, <1>2, <1>5 DEF Enter
<1>6. CASE Top(t)
  BY <1>1, <1>6 DEF Top, PathTypeOK
<1>7. CASE Acquire(t)
  BY <1>1, <1>2, <1>7 DEF Acquire
<1>8. CASE StopCancelled(t) \/ StopLate(t) \/ ReplyOk(t) \/ ReplyRefused(t)
  BY <1>1, <1>8 DEF StopCancelled, StopLate, ReplyOk, ReplyRefused
<1>9. CASE Wake(t)
  BY <1>1, <1>9 DEF Wake, PathTypeOK
<1>10. CASE ReplyCut(t) \/ ReplyError(t) \/ Drain(t)
  BY <1>3, <1>10 DEF ReplyCut, ReplyError, Drain
<1>11. ASSUME NEW h \in Hints \cup {NoHint}, Reply429(t, h)
       PROVE  now' = now /\ \A u \in Tasks \ {t} : call'[u] = call[u]
  BY <1>11 DEF Reply429, PathTypeOK
<1> QED
  BY <1>4, <1>5, <1>6, <1>7, <1>8, <1>9, <1>10, <1>11 DEF TaskStep, UpstreamStep, GivesUp

LEMMA ReturnEndsWait ==
  ASSUME PathTypeOK, NEW t \in Tasks, NEW r, Return(t, r)
  PROVE  WaitOf(t)'
<1>1. call'[t] = Fresh("done")
  BY DEF Return, PathTypeOK
<1>2. call'[t].pc = "done"
  BY <1>1 DEF Fresh
<1> QED
  BY <1>2 DEF WaitOf, At

\* What Retry makes of a call that may wait long enough.
LEMMA RetryWaits ==
  ASSUME PathTypeOK, NEW t \in Tasks, NEW D, D \subseteq Int, Retry(t, D), now' = now,
         \/ now >= call[t].notBefore
         \/ \A d \in D : now + d >= call[t].notBefore
  PROVE  WaitOf(t)'
<1>1. CASE Spent(t) \/ Late(t)
  BY <1>1, ReturnEndsWait DEF Retry
<1>2. CASE ~Spent(t) /\ ~Late(t)
  <2> DEFINE w(d) == IF call[t].deadline = Forever THEN now + d
                     ELSE AtMost(now + d, call[t].deadline)
  <2>1. PICK d \in D :
          call' = [call EXCEPT ![t].pc = "sleep", ![t].hint = NoHint, ![t].wake = w(d)]
    BY <1>2 DEF Retry
  <2>2. /\ now + d \in Int /\ now \in Nat /\ call[t].notBefore \in Nat
        /\ call[t].deadline # Forever => call[t].deadline \in Nat
    BY CallTypes DEF PathTypeOK, Calls
  <2>3. w(d) = now + d \/ (call[t].deadline # Forever /\ w(d) = call[t].deadline)
    BY <2>2 DEF AtMost
  <2>4. w(d) \in Int
    BY <2>2, <2>3
  <2> HIDE DEF w
  <2>5. call[t] \in Calls /\ call'[t] = [call[t] EXCEPT !.pc = "sleep", !.hint = NoHint, !.wake = w(d)]
    BY <2>1, CallTypes DEF PathTypeOK
  <2>6. /\ call'[t].pc = "sleep" /\ call'[t].wake = w(d)
        /\ call'[t].notBefore = call[t].notBefore /\ call'[t].deadline = call[t].deadline
    BY <2>5 DEF Calls
  <2>7. \/ now >= call[t].notBefore \/ w(d) >= call[t].notBefore
        \/ call[t].deadline # Forever /\ w(d) >= call[t].deadline
    <3>1. CASE now >= call[t].notBefore
      BY <3>1
    <3>2. CASE \A e \in D : now + e >= call[t].notBefore
      <4>1. now + d >= call[t].notBefore
        BY <3>2
      <4>2. CASE w(d) = now + d
        BY <4>1, <4>2
      <4>3. CASE call[t].deadline # Forever /\ w(d) = call[t].deadline
        <5>1. w(d) >= call[t].deadline
          BY <2>2, <4>3
        <5> QED
          BY <4>3, <5>1
      <4> QED
        BY <2>3, <4>2, <4>3
    <3> QED
      BY <3>1, <3>2
  <2> QED
    BY <2>6, <2>7 DEF WaitOf, At
<1> QED
  BY <1>1, <1>2

LEMMA WaitInit == PathInit => WaitInv
BY DEF PathInit, WaitInv, WaitOf, Fresh, At

LEMMA OwnWait ==
  ASSUME PathTypeOK, PathTypeOK', NEW t \in Tasks, WaitOf(t), Start(t) \/ TaskStep(t) \/ UpstreamStep(t)
  PROVE  WaitOf(t)'
<1>0. now' = now /\ now \in Nat /\ call[t] \in Calls /\ call[t].notBefore \in Nat
  BY OthersUntouched, CallTypes DEF Calls, PathTypeOK
<1>1. CASE Start(t)
  <2>1. call'[t].pc = "enter" /\ call'[t].notBefore = call[t].notBefore
    BY <1>0, <1>1 DEF Start, PathTypeOK, Calls
  <2>2. At(t, "idle")
    BY <1>1 DEF Start
  <2>3. now >= call[t].notBefore
    BY <2>2 DEF WaitOf
  <2> QED
    BY <1>0, <2>1, <2>2, <2>3 DEF WaitOf, At
<1>2. CASE Enter(t) \/ Top(t) \/ Acquire(t) \/ AwaitToken(t) \/ Transmit(t)
  <2>1. CASE \E r : Return(t, r)
    BY <2>1, ReturnEndsWait
  <2>2. CASE ~ \E r : Return(t, r)
    <3>1. /\ call'[t].pc \in {"top", "token", "send", "sent"}
          /\ call'[t].notBefore = call[t].notBefore /\ call'[t].deadline = call[t].deadline
      <4>1. CASE Enter(t)
        BY <1>0, <2>2, <4>1 DEF Enter, Goto, PathTypeOK, Calls
      <4>2. CASE Top(t)
        BY <1>0, <2>2, <4>2 DEF Top, PathTypeOK, Calls
      <4>3. CASE Acquire(t)
        BY <1>0, <2>2, <4>3 DEF Acquire, Goto, PathTypeOK, Calls
      <4>4. CASE AwaitToken(t)
        <5>1. call' = [call EXCEPT ![t].wake = now + Slice(t, Refilled)]
          BY <4>4 DEF AwaitToken
        <5>2. call'[t] = [call[t] EXCEPT !.wake = now + Slice(t, Refilled)]
          BY <5>1 DEF PathTypeOK
        <5> QED
          BY <1>0, <4>4, <5>2 DEF AwaitToken, At, Calls
      <4>5. CASE Transmit(t)
        BY <1>0, <4>5 DEF Transmit, PathTypeOK, Calls
      <4> QED
        BY <1>2, <4>1, <4>2, <4>3, <4>4, <4>5
    <3>2. call[t].pc \in {"enter", "top", "token", "send"}
      BY <1>2 DEF Enter, Top, Acquire, AwaitToken, Transmit, At
    <3>3. now >= call[t].notBefore \/ Late(t)
      BY <3>2 DEF WaitOf
    <3> QED
      BY <1>0, <3>1, <3>3 DEF WaitOf, At, Late
  <2> QED
    BY <2>1, <2>2
<1>3. CASE StopCancelled(t) \/ StopLate(t) \/ ReplyOk(t) \/ ReplyRefused(t)
  BY <1>3, ReturnEndsWait DEF StopCancelled, StopLate, ReplyOk, ReplyRefused
<1>4. CASE Wake(t)
  <2>1. CASE Late(t)
    BY <1>4, <2>1, ReturnEndsWait DEF Wake
  <2>2. CASE ~Late(t)
    <3>1. /\ call'[t].pc = "top" /\ call'[t].notBefore = call[t].notBefore
      BY <1>0, <1>4, <2>2 DEF Wake, PathTypeOK, Calls
    <3>2. At(t, "sleep") /\ now >= call[t].wake /\ call[t].wake \in Int
      BY <1>0, <1>4 DEF Wake, Calls
    <3>3. call[t].deadline # Forever => call[t].deadline \in Nat /\ now < call[t].deadline
      BY <1>0, <2>2, CallTypes DEF Late
    <3>4. now >= call[t].notBefore
      BY <1>0, <3>2, <3>3 DEF WaitOf
    <3> QED
      BY <1>0, <3>1, <3>4 DEF WaitOf, At
  <2> QED
    BY <2>1, <2>2
<1>5. CASE ReplyCut(t) \/ ReplyError(t)
  <2>1. now >= call[t].notBefore
    BY <1>5 DEF ReplyCut, ReplyError, Answerable, At, WaitOf
  <2>2. Retry(t, Backoffs(call[t].attempt)) /\ Backoffs(call[t].attempt) \subseteq Int
    BY <1>5, DelayType DEF ReplyCut, ReplyError
  <2> QED
    BY <1>0, <2>1, <2>2, RetryWaits
<1>6. ASSUME NEW h \in Hints \cup {NoHint}, Reply429(t, h) PROVE WaitOf(t)'
  <2> DEFINE n == IF h = NoHint THEN now ELSE now + ParseRetryAfter(h)
  <2>1. call' = [call EXCEPT ![t].pc = "stamp", ![t].stores = {"stamp", "hint"},
                   ![t].hint = h, ![t].notBefore = n]
    BY <1>6 DEF Reply429
  <2>2. n \in Nat
    <3>1. h # NoHint => h \in Nat
      OBVIOUS
    <3>2. h # NoHint => ParseRetryAfter(h) \in Nat
      BY <3>1 DEF ParseRetryAfter, AtLeast
    <3> QED
      BY <1>0, <3>2
  <2>3. IF h = NoHint THEN n = now ELSE n = now + ParseRetryAfter(h)
    OBVIOUS
  <2> HIDE DEF n
  <2>4. call'[t] = [call[t] EXCEPT !.pc = "stamp", !.stores = {"stamp", "hint"},
                                   !.hint = h, !.notBefore = n]
    BY <2>1 DEF PathTypeOK
  <2>5. call'[t].pc = "stamp" /\ call'[t].hint = h /\ call'[t].notBefore = n
    BY <1>0, <2>4 DEF Calls
  <2>6. h # NoHint => now + ParseRetryAfter(h) >= n
    BY <1>0, <2>2, <2>3
  <2>7. h = NoHint => now >= n
    BY <1>0, <2>3
  <2> QED
    BY <1>0, <2>5, <2>6, <2>7 DEF WaitOf, At, ParseRetryAfter
<1>7. CASE StoreStamp(t) \/ StoreHint(t)
  <2>1. /\ call'[t].pc = "stamp" /\ call'[t].notBefore = call[t].notBefore
        /\ call'[t].hint = call[t].hint
    BY <1>0, <1>7 DEF StoreStamp, StoreHint, At, PathTypeOK, Calls
  <2>2. At(t, "stamp")
    BY <1>7 DEF StoreStamp, StoreHint
  <2> QED
    BY <1>0, <2>1, <2>2 DEF WaitOf, At, ParseRetryAfter
<1>8. CASE Drain(t)
  <2>1. At(t, "stamp") /\ Retry(t, DelaysAfter429(t))
    BY <1>8 DEF Drain
  <2>2. \/ now >= call[t].notBefore
        \/ \A d \in DelaysAfter429(t) : now + d >= call[t].notBefore
    BY <2>1 DEF WaitOf, DelaysAfter429
  <2> QED
    BY <1>0, <2>1, <2>2, RetryWaits, DelayType
<1> QED
  BY <1>1, <1>2, <1>3, <1>4, <1>5, <1>6, <1>7, <1>8 DEF TaskStep, UpstreamStep, GivesUp

LEMMA WaitStep == PathTypeOK /\ PathTypeOK' /\ WaitInv /\ [PathNext]_pathVars => WaitInv'
<1> SUFFICES ASSUME PathTypeOK, PathTypeOK', WaitInv, [PathNext]_pathVars, NEW u \in Tasks PROVE WaitOf(u)'
  BY DEF WaitInv
<1>0. WaitOf(u)
  BY DEF WaitInv
<1>1. ASSUME NEW t \in Tasks, Start(t) \/ TaskStep(t) \/ UpstreamStep(t) PROVE WaitOf(u)'
  <2>1. CASE u = t
    BY <1>0, <1>1, <2>1, OwnWait
  <2>2. CASE u # t
    <3>1. now' = now /\ call'[u] = call[u] /\ now \in Nat
      BY <1>1, <2>2, OthersUntouched DEF PathTypeOK
    <3> QED
      BY <1>0, <3>1, WaitLasts
  <2> QED
    BY <2>1, <2>2
<1>2. CASE CancelAll \/ Tick \/ Finished \/ UNCHANGED pathVars
  <2>1. call' = call /\ now' \in Nat /\ now' >= now
    BY <1>2 DEF CancelAll, Tick, Finished, pathVars, PathTypeOK
  <2> QED
    BY <1>0, <2>1, WaitLasts
<1> QED
  BY <1>1, <1>2 DEF PathNext

(* After a 429 that said how long, a call does not send again before that    *)
(* time is up, although the sleep is chosen later and may be cut short       *)
(* (parse_retry_after, sleep_with_abort).                                    *)
THEOREM RetryAfterHeeded == PathSpec => RetryAfterIsHonoured
<1>1. PathTypeOK /\ WaitInv /\ [PathNext]_pathVars =>
        [\A t \in Tasks : sends'[t] # sends[t] => now >= call[t].notBefore]_pathVars
  BY OnlySendSends DEF Transmit, WaitInv, WaitOf, At
<1> QED
  BY Typing, WaitInit, WaitStep, <1>1, PTL DEF PathSpec, RetryAfterIsHonoured
=============================================================================
