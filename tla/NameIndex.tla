------------------------------ MODULE NameIndex ------------------------------
(***************************************************************************)
(* The four maps of one NameIndex (by_name, by_id, by_short_hash,          *)
(* by_prefix_hash) of src/src/utils/name_index.rs, under ingest,           *)
(* invalidate_node and clear.                                              *)
(*                                                                         *)
(* ingest and invalidate_node change the maps under the write locks of all *)
(* of them: that is the step here.  What they do once those locks are      *)
(* dropped, to the tombstones and to the dirty flag, no map depends on:    *)
(* those are steps of their own in IndexStore, which has the saves that    *)
(* read them.  A batch passed to ingest is a sequence of Ingest steps:     *)
(* every prefix of a batch is itself a legal batch.                        *)
(***************************************************************************)
EXTENDS Naturals

CONSTANTS
  Ids,           \* node ids: UUIDs, or strings that are no UUID (NoHash below)
  Keys,          \* lowercased names, the keys of by_name
  Contents,      \* what a walk can report of a node: [key, desc, ts]; the parent is carried, never compared
  SuffixHashes,  \* 12-character URL forms
  PrefixHashes,  \* 8-character forms
  Short,         \* short_hash_of
  Prefix,        \* prefix_hash_of
  NoHash,        \* None of either: the id is not a UUID
  NoKey,         \* by_id has no entry
  NoId,          \* by_short_hash has no entry
  NoTime,        \* last_modified absent (nodes seeded by a create)
  MaxCount       \* u32::MAX, where the collision counter saturates

ASSUME HashAssumption ==
  /\ Short \in [Ids -> SuffixHashes \cup {NoHash}]
  /\ Prefix \in [Ids -> PrefixHashes \cup {NoHash}]
  /\ NoHash \notin SuffixHashes \cup PrefixHashes
  /\ NoId \notin Ids
  /\ NoKey \notin Keys
ASSUME ContentAssumption == \A c \in Contents : c.key \in Keys
ASSUME CountAssumption == MaxCount \in Nat /\ MaxCount >= 2

VARIABLES
  byName,      \* key -> entries filed under it
  byId,        \* id -> the key it is filed under
  byShort,     \* suffix hash -> the id last ingested with it
  byPrefix     \* prefix hash -> first id seen with it, and how many were seen

vars == <<byName, byId, byShort, byPrefix>>

Entries == [id : Ids, content : Contents]
PrefixEntries == [uuid : Ids \cup {NoId}, count : 0 .. MaxCount]
NoPrefixEntry == [uuid |-> NoId, count |-> 0]

TypeOK ==
  /\ byName \in [Keys -> SUBSET Entries]
  /\ byId \in [Ids -> Keys \cup {NoKey}]
  /\ byShort \in [SuffixHashes -> Ids \cup {NoId}]
  /\ byPrefix \in [PrefixHashes -> PrefixEntries]

Indexed(id) == byId[id] # NoKey

Init ==
  /\ byName = [k \in Keys |-> {}]
  /\ byId = [i \in Ids |-> NoKey]
  /\ byShort = [h \in SuffixHashes |-> NoId]
  /\ byPrefix = [h \in PrefixHashes |-> NoPrefixEntry]

-----------------------------------------------------------------------------
(* remove_locked: what each map becomes when one id leaves it.             *)

\* Mutant: remove_locked forgets by_name.
NamesKept(id) == byName

NamesWithout(id) ==
  [k \in Keys |-> IF k = byId[id] THEN {e \in byName[k] : e.id # id} ELSE byName[k]]

ShortsWithout(id) ==
  [h \in SuffixHashes |->
     IF h = Short[id] /\ byShort[h] = id THEN NoId ELSE byShort[h]]

\* Mutant: a removal frees the prefix, collided or not.
PrefixesFreed(id) == [h \in PrefixHashes |-> IF h = Prefix[id] THEN NoPrefixEntry ELSE byPrefix[h]]

\* A prefix that collided keeps its entry: which other id shares it is unknown.
PrefixesWithout(id) ==
  [h \in PrefixHashes |->
     IF h = Prefix[id] /\ byPrefix[h] = [uuid |-> id, count |-> 1]
     THEN NoPrefixEntry ELSE byPrefix[h]]

\* Mutant: a plain + 1 for saturating_add.
BumpedUnbounded(entry, id) ==
  IF entry.count = 0 THEN [uuid |-> id, count |-> 1]
  ELSE IF entry.uuid = id THEN entry ELSE [entry EXCEPT !.count = @ + 1]

\* or_insert / and_modify of the prefix entry, on the map remove_locked left.
Bumped(entry, id) ==
  CASE entry.count = 0    -> [uuid |-> id, count |-> 1]
    [] entry.count > 0 /\ entry.uuid = id -> entry
    [] OTHER -> [entry EXCEPT !.count = IF @ < MaxCount THEN @ + 1 ELSE @]

\* Re-observing a node changes nothing unless its key, description or (when the
\* observation carries one) timestamp differs.  The parent is not compared.
Redundant(id, c) ==
  /\ byId[id] = c.key
  /\ \E e \in byName[c.key] :
       /\ e.id = id
       /\ e.content.desc = c.desc
       /\ c.ts = NoTime \/ e.content.ts = c.ts

\* Mutant: remove_locked after the hashes are inserted.
IngestThenRemove(id, c) ==
  /\ ~Redundant(id, c)
  /\ byName' = [NamesWithout(id) EXCEPT ![c.key] = @ \cup {[id |-> id, content |-> c]}]
  /\ byId' = [byId EXCEPT ![id] = c.key]
  /\ byShort' = [h \in SuffixHashes |-> IF h = Short[id] THEN NoId ELSE byShort[h]]
  /\ UNCHANGED byPrefix

Ingest(id, c) ==
  /\ ~Redundant(id, c)
  /\ byName' = [NamesWithout(id) EXCEPT ![c.key] = @ \cup {[id |-> id, content |-> c]}]
  /\ byId' = [byId EXCEPT ![id] = c.key]
  /\ byShort' = [h \in SuffixHashes |-> IF h = Short[id] THEN id ELSE ShortsWithout(id)[h]]
  /\ byPrefix' = [h \in PrefixHashes |->
                    IF h = Prefix[id] THEN Bumped(PrefixesWithout(id)[h], id)
                                      ELSE PrefixesWithout(id)[h]]

\* remove_locked runs whether or not the id is indexed.
InvalidateNode(id) ==
  /\ byName' = NamesWithout(id)
  /\ byId' = [byId EXCEPT ![id] = NoKey]
  /\ byShort' = ShortsWithout(id)
  /\ byPrefix' = PrefixesWithout(id)

Clear ==
  /\ byName' = [k \in Keys |-> {}]
  /\ byId' = [i \in Ids |-> NoKey]
  /\ byShort' = [h \in SuffixHashes |-> NoId]
  /\ byPrefix' = [h \in PrefixHashes |-> NoPrefixEntry]

Next ==
  \/ \E id \in Ids, c \in Contents : Ingest(id, c)
  \/ \E id \in Ids : InvalidateNode(id)
  \/ Clear

Spec == Init /\ [][Next]_vars

-----------------------------------------------------------------------------
(* resolve_short_hash                                                      *)

ResolveSuffix(h) == byShort[h]

ResolvePrefix(h) == IF byPrefix[h].count = 1 THEN byPrefix[h].uuid ELSE NoId

-----------------------------------------------------------------------------
(* The two name maps describe the same set of nodes: an id is filed under  *)
(* exactly the key by_id records for it, once, and under no other key.     *)
(* lookup, search_tokens and snapshot read by_name; lookup_entry_by_id     *)
(* and size read by_id: they must not disagree.                            *)
MapsAgree ==
  /\ \A k \in Keys : \A e \in byName[k] : byId[e.id] = k /\ e.content.key = k
  /\ \A k \in Keys : \A e, f \in byName[k] : e.id = f.id => e = f
  /\ \A i \in Ids : Indexed(i) => \E e \in byName[byId[i]] : e.id = i

(* resolve_short_hash never answers with a node the index has dropped, and *)
(* an 8-character prefix that resolves names the only indexed node that    *)
(* has it: collisions, re-ingests and invalidations in any order never     *)
(* make it guess.                                                          *)
HashesSound ==
  /\ \A h \in SuffixHashes : ResolveSuffix(h) # NoId =>
       Short[ResolveSuffix(h)] = h /\ Indexed(ResolveSuffix(h))
  /\ \A h \in PrefixHashes : ResolvePrefix(h) # NoId =>
       \A i \in Ids : Prefix[i] = h => (Indexed(i) <=> i = ResolvePrefix(h))

(* Every indexed node whose 12-character suffix is its own resolves by it, *)
(* however often it was renamed, re-ingested or invalidated meanwhile.     *)
SuffixComplete ==
  \A i \in Ids :
    /\ Indexed(i)
    /\ Short[i] # NoHash
    /\ \A o \in Ids \ {i} : Short[o] # Short[i]
    => ResolveSuffix(Short[i]) = i
=============================================================================
