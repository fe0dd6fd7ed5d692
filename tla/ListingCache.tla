----------------------------- MODULE ListingCache -----------------------------
(***************************************************************************)
(* The children-listing cache one process shares between its request       *)
(* handlers (src/src/utils/cache.rs, used by get_children_cancellable and  *)
(* get_top_level_nodes_cancellable of src/src/api/client.rs): readers that *)
(* miss fetch a listing and insert it; writers drop the listings their     *)
(* write can affect, before they send it.                                  *)
(*                                                                         *)
(* A node's content is its version.  NodeCache's per-node map and its      *)
(* children_index are never filled by this program and are left out:       *)
(* invalidate_node and invalidate_subtree differ only in them.             *)
(***************************************************************************)
EXTENDS Naturals, FiniteSets

CONSTANTS
  Nodes,
  Root,        \* the key "" of the top-level listing
  None,        \* no parent known, no listing recorded
  Readers,     \* concurrent children-listing reads
  Writers,     \* concurrent write handlers
  Writes,      \* the writes under study: [kind, handled]
  Parent0,     \* parents the nodes start under
  Unborn,      \* nodes that do not exist at the start
  MaxListings, \* MAX_CACHED_LISTINGS
  MaxWrites    \* bound: writes sent

Kinds == {"create", "edit", "delete", "move"}

ASSUME KeyAssumption == Root \notin Nodes /\ None \notin Nodes \cup {Root}
ASSUME FiniteAssumption == IsFiniteSet(Nodes)
ASSUME WritesAssumption == Writes \subseteq [kind : Kinds, handled : BOOLEAN]
ASSUME CapAssumption == MaxListings \in Nat \ {0}

Keys == Nodes \cup {Root}
ASSUME StartAssumption ==
  /\ Parent0 \in [Nodes -> Keys]
  /\ Unborn \subseteq Nodes
  /\ \A n \in Nodes \ Unborn : Parent0[n] \notin Unborn

VARIABLES
  state,     \* upstream: "unborn", "alive" or "gone"
  parent,    \* upstream: key of the listing the node is in
  version,   \* upstream: changes of the node so far
  listings,  \* key -> the cached listing
  memberOf,  \* node -> key of the listing last inserted with it
  reader,    \* the read in progress
  writer,    \* the write in progress
  sent,      \* writes begun to be sent so far
  strayed    \* history: nodes some listing inserted across a write displays

upstream == <<state, parent, version>>
cache == <<listings, memberOf>>
vars == <<upstream, cache, reader, writer, sent, strayed>>

Items == SUBSET (Nodes \X Nat)
\* crossed (history): a write was in flight at some time during the read.
Listings == [cached : BOOLEAN, items : Items, fresh : BOOLEAN, crossed : BOOLEAN]
NoListing == [cached |-> FALSE, items |-> {}, fresh |-> FALSE, crossed |-> FALSE]
ReadStates == [pc : {"idle", "asked", "answered"}, key : Keys, items : Items, crossed : BOOLEAN]
NoRead == [pc |-> "idle", key |-> Root, items |-> {}, crossed |-> FALSE]
WriteStates ==
  [pc : {"preread", "dropping", "sent", "orphan", "applied"}, kind : Kinds, handled : BOOLEAN,
   node : Nodes, to : Keys \cup {None}, from : Nodes \cup {None},
   drops : SUBSET (Keys \cup {None})]
NoWrite == [pc |-> "idle"]

TypeOK ==
  /\ state \in [Nodes -> {"unborn", "alive", "gone"}]
  /\ parent \in [Nodes -> Keys]
  /\ version \in [Nodes -> Nat]
  /\ listings \in [Keys -> Listings]
  /\ memberOf \in [Nodes -> Keys \cup {None}]
  /\ reader \in [Readers -> ReadStates]
  /\ writer \in [Writers -> WriteStates \cup {NoWrite}]
  /\ sent \in Nat
  /\ strayed \subseteq Nodes

Alive(k) == k = Root \/ (k \in Nodes /\ state[k] = "alive")

Init ==
  /\ parent = Parent0
  /\ state = [n \in Nodes |-> IF n \in Unborn THEN "unborn" ELSE "alive"]
  /\ version = [n \in Nodes |-> 0]
  /\ listings = [k \in Keys |-> NoListing]
  /\ memberOf = [n \in Nodes |-> None]
  /\ reader = [r \in Readers |-> NoRead]
  /\ writer = [w \in Writers |-> NoWrite]
  /\ sent = 0
  /\ strayed = {}

\* What GET /nodes?parent_id=k answers.
Children(k) == {<<n, version[n]>> : n \in {m \in Nodes : state[m] = "alive" /\ parent[m] = k}}

\* n and everything below it: what DELETE /nodes/{n} removes upstream.
Subtree(n) ==
  {m \in Nodes : \A S \in SUBSET Nodes :
     n \in S /\ (\A c \in Nodes : parent[c] \in S => c \in S) => m \in S}

\* From the first look at the cache until the write is carried out or refused.
Flying == {"dropping", "sent", "orphan"}
InFlight == \E w \in Writers : writer[w].pc \in Flying

-----------------------------------------------------------------------------
(* get_children_cancellable / get_top_level_nodes_cancellable.             *)

\* The cache holds no live listing of k: the request goes out.
Ask(r, k) ==
  /\ reader[r].pc = "idle"
  /\ ~(listings[k].cached /\ listings[k].fresh)
  /\ reader' = [reader EXCEPT ![r] =
       [pc |-> "asked", key |-> k, items |-> {}, crossed |-> InFlight]]
  /\ UNCHANGED <<upstream, cache, writer, sent, strayed>>

\* Upstream reads its tree; the response is on its way.
Answer(r) ==
  /\ reader[r].pc = "asked" /\ Alive(reader[r].key)
  /\ reader' = [reader EXCEPT ![r].pc = "answered", ![r].items = Children(reader[r].key)]
  /\ UNCHANGED <<upstream, cache, writer, sent, strayed>>

\* An error, a timeout, a cancelled or dropped handler: nothing is inserted.
ReadFails(r) ==
  /\ reader[r].pc # "idle"
  /\ reader' = [reader EXCEPT ![r] = NoRead]
  /\ UNCHANGED <<upstream, cache, writer, sent, strayed>>

Cached(ls) == {k \in Keys : ls[k].cached}
\* Mutant: off by one at the cap.
OverflowsLate(ls) == Cardinality(Cached(ls)) > MaxListings
Overflows(ls) == Cardinality(Cached(ls)) >= MaxListings
Purged == [k \in Keys |-> IF listings[k].fresh THEN listings[k] ELSE NoListing]

Shown(items) == {i[1] : i \in items}

\* Room is made before an insert: at the cap the expired listings are purged;
\* still at the cap, both maps are cleared.
Cleared == Overflows(listings) /\ Overflows(Purged)
Kept ==
  CASE Cleared -> [k \in Keys |-> NoListing]
    [] Overflows(listings) /\ ~Overflows(Purged) -> Purged
    [] ~Overflows(listings) -> listings

InsertAs(r, members) ==
  LET rd == reader[r] IN
  /\ rd.pc = "answered"
  /\ listings' = [Kept EXCEPT ![rd.key] =
       [cached |-> TRUE, items |-> rd.items, fresh |-> TRUE, crossed |-> rd.crossed]]
  /\ memberOf' = members
  /\ strayed' = IF rd.crossed THEN strayed \cup Shown(rd.items) ELSE strayed
  /\ reader' = [reader EXCEPT ![r] = NoRead]
  /\ UNCHANGED <<upstream, writer, sent>>

\* Mutant: room is made after the members are recorded.
InsertThenClear(r) ==
  InsertAs(r, [n \in Nodes |-> IF Cleared THEN None
                               ELSE IF n \in Shown(reader[r].items) THEN reader[r].key
                               ELSE memberOf[n]])

\* insert_children_listing: a node shown by several listings is recorded under
\* the last one.
Insert(r) ==
  InsertAs(r, [n \in Nodes |-> IF n \in Shown(reader[r].items) THEN reader[r].key
                               ELSE IF Cleared THEN None ELSE memberOf[n]])

\* CACHE_TTL_SECS have passed since the insert.
Expire(k) ==
  /\ listings[k].fresh
  /\ listings' = [listings EXCEPT ![k].fresh = FALSE]
  /\ UNCHANGED <<upstream, memberOf, reader, writer, sent, strayed>>

-----------------------------------------------------------------------------
(* Writes.  Handled: the MCP handler of one write, which invalidates before *)
(* the call (invalidate_for_mutation).  Unhandled: a workflow's write,      *)
(* whose footprint is applied after it returned (apply_footprint).          *)

\* invalidate_node(n): its own listing, and the one member_of says shows it.
Containing(n) == {n, memberOf[n]} \ {None}

\* Mutant: the parent named in a create's body is overlooked.
FunnelledRoot(op) ==
  IF op.kind \in {"edit", "delete"} THEN Containing(op.node)
  ELSE IF op.kind = "create" THEN {Root} ELSE {op.to}

\* invalidate_listings_for_write, of every write.  A move's endpoint is
\* /nodes/{id}/move: what follows "/nodes/" is no node's id.
Funnelled(op) ==
  IF op.kind \in {"edit", "delete"} THEN Containing(op.node) ELSE {op.to}

\* What the handler, or the footprint, names.
Named(op) ==
  UNION {Containing(n) : n \in
    CASE op.kind = "create" -> {op.to} \ {Root, None}
      [] op.kind = "move"   -> {op.node, op.to, op.from} \ {Root, None}
      [] OTHER              -> {op.node}}

Without(ks) == [k \in Keys |-> IF k \in ks THEN NoListing ELSE listings[k]]

\* Upstream can carry the write out.
Possible(kind, n, to) ==
  CASE kind = "create" -> state[n] = "unborn" /\ Alive(to)
    [] kind = "move"   -> state[n] = "alive" /\ to # Root /\ Alive(to) /\ to \notin Subtree(n)
    [] OTHER           -> state[n] = "alive"

\* Validation, and before a move the read of the node's current parent, which
\* may fail, and names none for a top-level node.
Begin(w, op, n, to) ==
  /\ writer[w].pc = "idle" /\ sent < MaxWrites
  /\ to \in (IF op.kind \in {"create", "move"} THEN Keys ELSE {None})
  /\ Possible(op.kind, n, to)
  /\ \E from \in {None} \cup (IF op.kind = "move" THEN {parent[n]} \ {Root} ELSE {}) :
       writer' = [writer EXCEPT ![w] =
         [pc |-> "preread", kind |-> op.kind, handled |-> op.handled,
          node |-> n, to |-> to, from |-> from, drops |-> {}]]
  /\ UNCHANGED <<upstream, cache, reader, sent, strayed>>

\* member_of is read under its own lock, and the listings it leads to are
\* removed under another: other threads may act in between.
Look(w) ==
  /\ writer[w].pc = "preread" /\ sent < MaxWrites
  /\ writer' = [writer EXCEPT ![w].pc = "dropping",
       ![w].drops = Funnelled(writer[w]) \cup
                    (IF writer[w].handled THEN Named(writer[w]) ELSE {})]
  /\ sent' = sent + 1
  /\ reader' = [r \in Readers |-> [reader[r] EXCEPT !.crossed = (reader[r].pc # "idle")]]
  /\ UNCHANGED <<upstream, cache, strayed>>

\* The listings go, and the request is sent.
Send(w) ==
  /\ writer[w].pc = "dropping"
  /\ listings' = Without(writer[w].drops)
  /\ writer' = [writer EXCEPT ![w].pc = "sent", ![w].drops = {}]
  /\ UNCHANGED <<upstream, memberOf, reader, sent, strayed>>

Effect(op) ==
  CASE op.kind = "create" ->
         /\ state' = [state EXCEPT ![op.node] = "alive"]
         /\ parent' = [parent EXCEPT ![op.node] = op.to]
         /\ UNCHANGED version
    [] op.kind = "edit" ->
         version' = [version EXCEPT ![op.node] = @ + 1] /\ UNCHANGED <<state, parent>>
    [] op.kind = "delete" ->
         /\ state' = [m \in Nodes |->
              IF m \in Subtree(op.node) /\ state[m] = "alive" THEN "gone" ELSE state[m]]
         /\ UNCHANGED <<parent, version>>
    [] op.kind = "move" ->
         parent' = [parent EXCEPT ![op.node] = op.to] /\ UNCHANGED <<state, version>>

Apply(w) ==
  /\ writer[w].pc \in {"sent", "orphan"}
  /\ Possible(writer[w].kind, writer[w].node, writer[w].to)
  /\ Effect(writer[w])
  /\ writer' = [writer EXCEPT ![w] = IF @.pc = "sent" THEN [@ EXCEPT !.pc = "applied"] ELSE NoWrite]
  /\ UNCHANGED <<cache, reader, sent, strayed>>

\* Upstream refuses it, or the request never arrives.
Refuse(w) ==
  /\ writer[w].pc \in {"sent", "orphan"}
  /\ writer' = [writer EXCEPT ![w] = NoWrite]
  /\ UNCHANGED <<upstream, cache, reader, sent, strayed>>

\* run_handler's budget or a cancel_all drops the future: a request on its
\* way may still be carried out, and no code after the call runs.
Abandon(w) ==
  /\ writer[w].pc \in {"sent", "applied"}
  /\ writer' = [writer EXCEPT ![w] = IF @.pc = "sent" THEN [@ EXCEPT !.pc = "orphan"] ELSE NoWrite]
  /\ UNCHANGED <<upstream, cache, reader, sent, strayed>>

Finish(w) ==
  /\ writer[w].pc = "applied"
  /\ listings' = IF writer[w].handled THEN listings ELSE Without(Named(writer[w]))
  /\ writer' = [writer EXCEPT ![w] = NoWrite]
  /\ UNCHANGED <<upstream, memberOf, reader, sent, strayed>>

-----------------------------------------------------------------------------
Next ==
  \/ \E r \in Readers : (\E k \in Keys : Ask(r, k)) \/ Answer(r) \/ ReadFails(r) \/ Insert(r)
  \/ \E k \in Keys : Expire(k)
  \/ \E w \in Writers :
       \/ \E op \in Writes, n \in Nodes, to \in Keys \cup {None} : Begin(w, op, n, to)
       \/ Look(w) \/ Send(w) \/ Apply(w) \/ Refuse(w) \/ Abandon(w) \/ Finish(w)

Spec == Init /\ [][Next]_vars

-----------------------------------------------------------------------------
\* A listing no write crossed, none of whose nodes any crossed listing showed.
Quiet(k) ==
  /\ listings[k].cached /\ ~listings[k].crossed
  /\ Shown(listings[k].items) \cap strayed = {}

(* Pre-send invalidation is enough away from the race: whatever reads,     *)
(* writes, abandoned writes, expiries and evictions came before, a quiet   *)
(* listing in the cache is what upstream would answer now.                 *)
QuietListingIsCurrent ==
  \A k \in Keys : Quiet(k) /\ Alive(k) => listings[k].items = Children(k)

(* member_of leads from a node to the quiet listing that displays it, so   *)
(* that a write which knows only the node's id can drop that listing.      *)
MembersCover ==
  \A k \in Keys : Quiet(k) => \A n \in Shown(listings[k].items) : memberOf[n] = k

(* The cache never holds more than its cap, whatever mixture of live and   *)
(* expired listings an insert meets.                                       *)
CacheBounded == Cardinality(Cached(listings)) <= MaxListings

-----------------------------------------------------------------------------

=============================================================================
