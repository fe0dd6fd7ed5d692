# workflowy-mcp-server: a TLA+ verification project

The program (`src/src`, Rust) is a Model Context Protocol server for Workflowy
outlines, and a command-line tool (`wflow-do`) over the same library. Both talk
to one HTTP API that is slow, rate-limited, and shared with other writers. What is hard
in it is therefore state kept on the near side of that API: an index of
node names persisted to a file that several processes write, a cache of
children listings that concurrent handlers fill and invalidate, a request path
whose window and token bucket all callers share, walks that may end early and
must say so, and multi-call workflows that stop half-way or must undo
themselves.

Source paths below are relative to `src/src`.

## Inventory

| component | state | operations | talks to |
|---|---|---|---|
| name index, in memory (`utils/name_index.rs`) | `by_name`, `by_id`, `by_short_hash`, `by_prefix_hash`, `dirty`, `tombstones` | `ingest`, `invalidate_node`, `clear`, `resolve_short_hash`, lookups | every walk and every write handler |
| index persistence (same file) | the JSON file, its `.tmp` and `.lock` siblings, `last_disk_refresh_mtime` | `load_from_disk`, `save_to_disk`, `merge_from_disk`, `refresh_from_disk_if_changed` | the saver task (`spawn_index_saver`), the resolve path, `wflow-do reindex`, other servers |
| listing cache (`utils/cache.rs`) | `listings`, `member_of` | `children_listing`, `insert_children_listing`, `invalidate_*` | the client's reads (fill), its write funnel and the handlers (drop) |
| client request path (`api/client.rs`) | rate-limit window (two atomics) | `request_cancellable`, `try_request_cancellable`, `stamp_rate_limited`, the waits | rate limiter, cancel registry, the API; every handler |
| rate limiter (`utils/rate_limiter.rs`) | tokens, adaptive rate | `acquire`, `drain`, `reward`, `refill` | request path |
| cancel registry (`utils/cancel.rs`) | a generation; guards hold the one they saw | `cancel_all`, `guard` | request path, `run_handler`, workflows |
| subtree walk (`api/client.rs`) | level queue, skipped branches | `fetch_descendants`, `recover_skipped_branches`, `retry_skipped_branches` | request path, listing cache |
| handler wrapper (`server/mod.rs`) | in-flight walk counter, probe lock | `run_handler` (budget, cancel), the drop guards | every handler |
| handlers (`server/mod.rs`) | none of their own | one per MCP tool | client, index, cache, operation log |
| short-hash resolution (`server/mod.rs`) | the scopes being walked | `resolve_node_ref`, one walk per scope, waiting callers | index, its file, walk |
| idempotency store (`utils/idempotency.rs`) | keys with their answers, capped and expiring | `lookup`, `record` | `create_node` |
| transaction workflow (`workflows.rs`) | stack of inverses | `run_transaction`, `apply_txn_step`, `run_txn_inverse` | client, one write at a time |
| other workflows (`workflows.rs`) | a footprint of what was touched | insert, bulk update, reorder, copy, mirror | client |
| operation log (`utils/op_log.rs`) | a ring of finished calls | `append`, `last_unrecovered_failure` | `create_node`, `get_recent_tool_calls` |
| ancestry (`utils/name_index.rs`, `node_paths.rs`, `subtree.rs`) | none; parents of the index or of a walk | `path_of`, `is_descendant_of`, `excluded_ids`, export order | index, handlers |
| mirror audit (`audit.rs`) | none | `audit_mirrors` | walk, index |
| reports (`utils/aggregation.rs`, `date_parser.rs`) | none | one per report | walk |
| command line (`bin/wflow_do.rs`) | the exit status | one per command, `--dry-run` | client, workflows, index |
| job queue (`utils/job_queue.rs`) | jobs | constructed by tests only | nothing |
| text utilities, parameters, validation, configuration, usage log | none that is read back | functions | handlers |

`PROJECT.json` lists every component with its status, and under `hazards` what
in this code is hard to reach by a test, each at its line. The kinds that
matter most:

* *check, then act, with a lock dropped in between*: a save clears the dirty
  flag and the tombstones after its snapshot; a merge picks what to adopt and
  ingests it later; a reader fetches a listing and inserts it later; a write
  looks up `member_of` and drops the listing later.
* *several processes around one file*: two servers, or a server and a reindex,
  possibly of different versions of the binary, each of which may be killed at
  any instant.
* *a future dropped at an await*: `run_handler` abandons a handler at its
  budget or on `cancel_all`; the request may still be carried out, and nothing
  after the call runs.
* *time*: a 429 drains a bucket that others refill; a sleep is cut to a
  deadline; a cancel meets a call anywhere in its retry loop.
* *answers that claim too much*: a walk that lost a branch, an exit status of 0,
  a mirror that says it is annotated, a warning that outlives its cause.
* *partial failure*: an operation of a transaction whose reply is lost, whose
  second call fails, or whose inverse fails.

What makes the components correct:

* the index: its maps describe the same nodes; a short hash never resolves to a
  node that was dropped or to one of several;
* persistence: no writer drops what another saved, no rename publishes a torn
  or foreign file, the schema never goes back, the lock is always given up, a
  file that changed is never skipped as already read, a deletion whose tombstone
  was in time reaches the file;
* the cache: a listing is what upstream would answer, away from the race the
  design accepts; the cache is bounded;
* the request path: no call is sent before the time a 429 named; no token from
  before a 429 is used after it, and no burst meets the fresh quota (which the
  code does not keep); every call returns;
* a walk: complete means whole, partial names exactly what is missing, and the
  order is the document's;
* the server: markers, counters and locks describe the work under way however
  handlers end, a write leaves nothing stale behind, a keyed retry writes nothing;
* a workflow: what is built is the payload, the source or the order asked for,
  up to where it stopped, whatever landed unanswered;
* an answer: reports agree with each other, paths with chains, a finding, a
  warning and an exit status with what happened;
* a transaction: all or nothing, unless something happened that it cannot undo,
  and then the damage stays with the nodes it befell.

## Modules

### NameIndex

The four maps of one `NameIndex`: `byName`, `byId`, `byShort` and `byPrefix`.
`Ingest(id, c)`, `InvalidateNode(id)` and `Clear` are what changes them: under
the write locks of all of them, so each is one step; a batch is a sequence of
ingests. What `invalidate_node` does after it has given those locks up, the
tombstone and the dirty flag, is in `IndexStore`, where others can come in
between. A node id is related to its 12- and 8-character hashes by the constants
`Short` and `Prefix`, which may collide and may be undefined (`NoHash`, an id
that is no UUID). `Contents` is what the redundancy test of `ingest`
distinguishes: key, description and timestamp, which may be absent (`NoTime`).
`clear` takes its locks one at a time in the code; it is a single step here and
has no caller outside tests.

It is the topic `index` of `MCAnswers`, with four ids: two that share a prefix,
two that share a suffix, one without hashes; two keys; three contents. Every
branch of the collision handling is reachable with them. The counter's cap
(u32::MAX in the code) is 3, so that saturation happens. The state space is
finite without further bounds.

### IndexStore

Several processes (`Procs`; those in `Clis` are reindex runs, which walk and
save in turn and never delete) around one file. An entry is the version of the
node it was observed at. Inside a process the saver task, the handlers and the
refresh on a short-hash miss run concurrently, so `save_to_disk` is cut into
`SaveLock`, `SaveScan`, `SaveAdopt`, `SaveSnapshot`, `SaveWriteTmp`,
`SaveRename`, `SaveClean`, `SaveForget` (and the failures `SaveRefused`,
`SaveWriteFails`), and `refresh_from_disk_if_changed` into `RefreshStat`,
`RefreshScan`, `RefreshFinish`. `Invalidate` takes an id from the maps, `Entomb`
sets its tombstone and `MarkDirty` the dirty flag, because the code drops the
locks in between; merges and saves come in at both places. The tombstones of
`clear`, which only tests call, are left out.
`Crash` may happen anywhere and releases the lock; a `.tmp` it leaves
half-written stays torn. `Edit` and `Delete` are changes upstream by anybody.

A deletion that is overtaken before its tombstone is set comes back with the
next merge (*Divergences*). `settled` is history: the ids that were tombstoned
while no merge of their process had read the file and no snapshot of it was on
its way (`NoneUnderWay`), until a walk observes the node again or the process
ends. `DeletesStick` says of these that no merge, refresh or save brings them
back, that the flag stays set until a save has them out of the file, and that
the tombstone does not go before that.

Runs (all on two processes):

* `index_server`: a server and a reindex, one node, two versions, two renames.
  One node suffices where entries do not interact; two versions tell an old
  observation from a new one; two renames let each process save once, or one
  twice, with refreshes between. Crashes are unbounded. A deletion by the server
  can fall between any two steps of its own save and its refresh and of the
  reindex's save.
* `index_reindex`: two reindex runs of an old and a new binary, two nodes. The
  second node is there because losing one entry while keeping the other is what
  a clobber looks like.

Fairness: `SaveStep` is weakly fair for every process: a save that holds the
lock is straight-line synchronous code on a blocking thread, and the operating
system runs it; a process that crashes gives the lock up by crashing. Nothing
else is fair, and only `LockIsReleased` needs it.

### ListingCache

`listings` and `memberOf` are the cache's maps; `state`, `parent` and
`version` are the tree upstream; `reader` and `writer` the reads and writes in
progress. A read misses (`Ask`), upstream answers (`Answer`), the result is
inserted (`Insert`), or it fails at any point (`ReadFails`). A write reads the
old parent where it must (`Begin`), looks up what to drop (`Look`), drops it
and sends (`Send`), and is carried out (`Apply`) or refused (`Refuse`);
`Abandon` is `run_handler` dropping it, after which an `Apply` may still come
but no code of the handler. `Finish` applies the footprint of a workflow's
write. Handlers invalidate before the call (`handled`), workflows after. The
runtime has several threads, so `Look` and `Send` are two steps. Entries
expire at any time (`Expire`), and an insert at the cap purges or clears.

The design invalidates *before* a write is sent and does not look again when a
read that was on its way is inserted. A listing whose read overlapped a write
is therefore marked `crossed`, and a listing is *quiet* if it is not crossed
and no crossed listing ever showed one of its nodes. `crossed` and `strayed`
are history: no action depends on them. `QuietListingIsCurrent` says that away
from that race the cache is exact, whatever came before.

Run `listings`: two nodes, one at the top and one below it or not there yet; a
reader and two writers; deletes and moves by handlers, creates and edits by
workflows, which have no invalidation of their own before the call. Two writes
are enough for one to be abandoned in flight and another to follow; the cap of
two listings is below the number of keys, so both kinds of eviction happen.
Reads, expiries and failures are unbounded. A bare move (`handled = FALSE`, a
move by a transaction or a bulk update) can be given to the module and breaks
`QuietListingIsCurrent`; see *Divergences*.

### AtomicBatch and Transaction

`AtomicBatch` is what the tool promises: the outline is replaced by the goal,
or left, or, when something irreversible went wrong, broken. `Transaction` is
`run_transaction`: `Read` (the best-effort read before a write), `Land` and
`Fail` for every call an operation makes (an edit makes up to two), `Undo`,
`UndoLand`, `UndoFail` for the inverses, `Commit`, `RolledBack`, `Reject` (a
malformed operation met when its turn comes) and `Drop`. A call can fail
cleanly, fail after it took effect, or be refused locally inside a rate-limit
window, which other tasks open and close (`WindowTurns`).

The client posts a call again when its reply is lost. A create may then land
once per attempt: the node whose id is answered is the one the operation names
and its inverse deletes, and the others are copies nobody knows of, which
`copies` counts by the place they hang below. Deleting a place takes its copies
along. `AtomicBatch` therefore promises no more than the code gives: a batch with
a create (`creates`) may leave, beside the outline it promises, `extra` nodes;
one without may not. `DamageIsContained` adds where they are: below a place that
stands and that a create tried so far was for, so that undoing the create of
their parent has removed them. A call takes effect, if ever, before its last
attempt is over; requests that land after the handler is gone are `ToolServer`'s.

`damaged` is history:
the nodes to which something happened that the code cannot undo: a delete, a
description added where there was none, a move from the top level, a change
whose read failed, a failed operation that had taken effect, a failed inverse.

`transaction` runs every list of one to three operations from a menu of ten
over three nodes. Three operations are the least with which the *failing* one
can have two applied predecessors that touch the same node; the menu holds one
operation of each kind that differs in what its inverse needs. A call is posted
twice at most (`Attempts`, RETRY_MAX_ATTEMPTS in the code): one copy per create is
enough to tell a place with copies from one without, which is all the properties
ask, and three operations make up to three copies.
`ImplementsBatch` is the refinement: with `damaged = {}` a transaction is all or
nothing. `DamageIsContained` says the rest. `Terminates` uses weak fairness of
`Step`: the runtime keeps polling the handler's future, and each call has a
deadline of its own.

### RequestPath

`request_cancellable` and what all calls share below it. `last429` and
`lastRetryAfter` are the window's two atomics, stored one after the other
(`StoreStamp`, `StoreHint`: relaxed stores, so in either order, and a reader
between them pairs a new time with an old length); `tokens`, `rate` and `lastRefill` are the bucket; `generation`
is the cancel registry. A call checks its guard and deadline, the window, and
the bucket, sends, and on a retryable answer sleeps and starts again. Time is
discrete: sleeps and deadlines are the tick at which they end, so a sleep that
is cut to a deadline is a `min` of two ticks. Upstream may answer in any way,
answer late, or never (`HttpTimeout` then ends the exchange), and may have
carried out what it did not answer. `acquired`, `allowance`, `since` and a
call's `notBefore` are history: no guard of the program reads them.

`drain` empties the bucket at the 429. `TokensAreEarned` is what that achieves:
every token handed out since was earned since, at no more than the rate as it is
now. What it is meant for, that callers do not resume with a burst, does not
follow, because the bucket refills while the window is still open;
`ResumesFromEmpty` states it and the run `post_429_burst` refutes it.

Run `requests`: two calls, one with a cancel guard and a deadline of three
ticks, one with neither; retry_after 0, 2 or absent; two attempts; a bucket of
two tokens. `post_429_burst` is the same with a `retry_after` of 4, long enough
for the halved rate to fill the bucket. Two calls are the least with which one
drains what the other refills. Until `Horizon` (2) time may pass at any moment; from then on it passes
only when everybody waits, which keeps the clock finite without stopping it.

Fairness: `Tick` (time passes) and each `TaskStep` (the runtime polls a ready
task). Upstream is not fair: it need never answer. `Finished` is a stutter that
stands for the end of the instance.

### SubtreeWalk

`fetch_descendants` over one tree: levels, at most `Width` listings in flight,
the node cap, depth, deadline and cancel, branches that failed, and the waves
that retry them; `order_level_by_parent` sorts a level once it is whole. A
fetch comes back with its children, an abort or an error. `Whole` is the
reference: the breadth-first order of the tree, down to `MaxDepth`.

Run `walk`: three trees of six nodes: two branches of unequal depth; a first
level with a single parent; a first level wider than `Width`. Caps of 1, 4 and
20 end a walk at once, in the middle of a level, and never. Impatient and
patient walks, from a node and from the workspace. Fairness: `WalkStep`, which
stands for calls of the request path and is what `EveryCallReturns` promises of
each of them.

### Tools and ToolServer

`Tools` writes every handler of the server as a set of programs over eighteen
kinds of steps, in the order of its source: a check, a reference to resolve, a
read, a walk, the invalidation, a write and so on; `Must` steps end the call
when they fail and `Try` steps do not. `ToolServer` runs `Calls` such programs
at once inside `run_handler`, which may drop a handler's future at any await
(`Abandon`, when `cancel_all` was called or at the budget of its kind; bare
tools are outside the wrapper). What the calls share: the index entry of one
node, the *subject*; the resolve scopes under way (`scopes`), on which other
calls wait; the walk counter; the probe lock; the idempotency store. A request
is sent, and lands or is lost at any later time, also after its handler is gone
(`Land`, `Lose`). What a request does to the entry depends on the kind of step;
a walk or a fetch brings back what it saw of the node and ingests that later.

Run `server`: two calls, each of any tool, one key, a store of one record, one
`cancel_all`, expiry at any time. Two calls are the least for a wait, for a
read that overlaps a write, and for a replaced record; the properties relate two
calls at most. `CHECK_DEADLOCK FALSE`: when both calls have returned and no
request is on the wire the instance has ended. `EveryToolReturns` is what says
that it does not stop before. Fairness: a handler that can go on does, a request
is delivered or lost. `Abandon` is not assumed: no call needs its budget to
return.

`entry = "crossed"` is the race the design accepts: a node read before a write
landed that another call had already invalidated for, and ingested after; it is
kept apart from `stale`, which `OnlyLateDropsStrand` is about.

### Workflows

`insert_content`, `reorder_nodes`, the deep copy of `duplicate_node` and
`create_from_template`, `apply_bulk_op` and `create_mirror`, one at a time,
against an outline in which another client may create a node and move or delete
others (`OtherClient`). `kids` and `labels` are upstream, `made` what the
workflow created, `run` its locals. Each call may fail cleanly, fail after it
landed, or land twice because its first reply was lost (the request path
retries); `cancelled` and `late` may rise at any time and are looked at where
the code looks. `made[x].told` says whether a create was answered.

Run `workflows`: an outline of five nodes; payloads whose indents jump, fall
back by two, start indented, or exceed `MaxLines`; lists of nodes with a
repetition, a node that is the parent, one that is elsewhere, and one too long;
copies with and without children; every bulk operation; mirrors of an annotated
and a plain canonical. One action of the other client (`MaxForeign`).

### Reports, Ancestry, Audit, Health, CommandLine

Each models something the program tells a caller, over state that changes.

* `Reports`: the reports over a walk, with due dates found in names and notes.
  The outline is edited and days pass. A walk may list nodes in any order.
* `Ancestry`: `path_of`, `is_descendant_of`, `excluded_ids`, the paths of a walk
  and the order of an export, over parents that may lag behind upstream, miss a
  node or form a cycle (`noted`), since the index keeps the parent a node was
  first seen with.
* `Audit`: `audit_mirrors` over every scope, with canonicals that are renamed,
  retagged, unmarked or deleted, an index that lags, and ids that share their
  first eight characters. Once the index has held two of them at a time their
  prefix is refused (`collided`, `Refused`), also when one is left: a count above
  one is not counted down. A new process counts anew (`Reload`).
* `Health`: the ring of finished calls and `create_node`'s warning. `latest` is
  history.
* `CommandLine`: one run of `wflow-do`: every command as programs of reads,
  walks, checks and writes, what a failing step does to the rest, `--dry-run`,
  and the exit status. An `edit` is up to two writes. A transaction checks each
  operation when its turn comes (`turn`), so that `RefuseTurn` may follow writes;
  the rollback's writes are `Transaction`'s and left out here.

`MCAnswers` composes these five and `NameIndex` by topic: `topic` is chosen in
`Init` and only its module moves, so one run checks all of them and the number of
states is the sum, not the product. Bounds: two items, days 1 to 4, due days 2
and 3, so that both items can be overdue by different spans, a list capped at one;
four nodes, two hops; three notes, the two canonicals sharing their prefix, so
that the index can refuse it in and out of scope; two tools and a ring of three;
three writes per command. With a hop cap of two, four nodes make
chains longer than the cap; with a ring of three and two tools beside
`create_node`, records are pushed out while they matter. `CHECK_DEADLOCK FALSE`:
a command that has exited and a clock at its end stop.

### Proof modules

`ComponentProofs` (of `NameIndex`, `Health`, `CommandLine`, `Audit`, `Ancestry`
and `Reports`), `ClientProofs` (of `ListingCache` and `RequestPath`),
`IndexStoreProofs`, `ToolServerProofs`, `TransactionProofs`, `SubtreeWalkProofs`
and `WorkflowsProofs` extend the modules they are about. `ListFacts` holds the
general lemmas: induction and recursion over the naturals, and facts about
sequences without repetition, `FlattenSeq`, and the operators of two small
modules the models share, `Lists` (`Keep`, the part of a sequence that lies in a
set, and `SortedBy`, a stable sort like `sort_by`) and `Reach` (`Reached`, what
can be reached along a relation). See *What is proved*.

## Runs

| run | expects | shows |
|---|---|---|
| `index_server` | pass | a server and a reindex, crashing anywhere, never publish a torn or foreign `.tmp`, and never take an unread file for read; a deletion tombstoned in time is not undone |
| `index_reindex` | pass | an old and a new binary lose no entry, never take the schema back, never wedge the lock |
| `listings` | pass | quiet listings are current under creates, edits, deletes and moves; `member_of` covers them; the cap holds |
| `transaction` | pass | refinement of `AtomicBatch`, containment of damage and of copies, termination |
| `requests` | pass | no token from before a 429 is used after it, no send before the time a 429 named, every call returns |
| `walk` | pass | complete is whole, partial names what it lacks, document order, every walk ends |
| `server` | pass | what a dropped handler leaves behind: index entry, walk counter, scopes; keyed retries write nothing; every call returns |
| `workflows` | pass | what is built is the payload, the source, the order asked for; a mirror's status is true |
| `answers` | pass | the four maps agree and short hashes resolve soundly after any operations; reports agree, exclusions and paths follow chains, audit findings are fair, warnings stand, exit 0 means done, refusals come before writes except in a transaction |
| `txn_deletes` | violation | a rolled-back transaction deletes a node nobody asked it to delete |
| `post_429_burst` | violation | a full bucket is ready when the window of a 429 closes |
| `recent_units` | violation | a node edited this instant is in no list of recent changes |

Deadlock is checked in every run but `server`, `answers` and `recent_units`, for
the reasons given above. The modules of the concurrent components state their
variables' types (`TypeOK`; `PathTypeOK` in `RequestPath`); the runs `answers`
(for `NameIndex`) and `requests` check them, and theorems establish them for those that are proved
about. In the others `TypeOK` documents the state.

## Divergences

Where the code does something a document, comment or tool description denies,
or what its reader would not expect. Three are runs that end with a
counterexample, and `PROJECT.json` quotes the sentences:

* the inverse of a move from the top level is skipped, because a top-level
  node's missing parent looks like an unread one; if the new parent was created
  by the same transaction, undoing that create deletes the moved node
  (`txn_deletes`);
* `compute_recent_changes` compares seconds with milliseconds (`recent_units`);
  so do the `since` tool and command (`server/mod.rs:4651`,
  `bin/wflow_do.rs:1514`), the project summary (`aggregation.rs:356`) and the
  daily review (`:525`);
* `drain` empties the bucket when a 429 arrives, but the bucket refills all
  through the window that follows, so that a burst is ready when it closes
  (`post_429_burst`); the comment (`rate_limiter.rs:107`), the README and the
  specification say that callers resume from zero tokens.

The others follow from the models' actions and were confirmed there or by
reading while modelling. They have no run of their own.

Index:

* `save_to_disk` stores `dirty = false` after its snapshot: what was ingested
  in between is in memory only, and the saver skips it (`name_index.rs:726`);
* `invalidate_node` tombstones only ids that are in memory and does so after the
  maps have changed, and a save clears the tombstones set after its snapshot: a
  merge that comes in between, or the next one, undoes the delete. What sticks is
  said by `DeletesStick`;
* a merge can put the file's older observation over a newer one ingested
  meanwhile (`SaveScan`, `WalkIngest`, `SaveAdopt`);
* the constant's comment says older schemas are discarded; they are migrated;
* `ingest` takes a changed parent for nothing new (`:250`), so that paths and
  exclusions follow the parent of the first observation;
* deleting a node leaves its descendants indexed;
* the index stores descriptions, which a comment (`server/mod.rs:4815`) denies;
* paths and scopes stop at 32 hops: a deeper descendant is denied, and in a
  cycle a path repeats names.

Cache and handlers:

* `get_children_cancellable` inserts what it fetched without asking whether a
  write was sent meanwhile (`client.rs:974`);
* the write funnel takes `{id}/move` for a node id, so that a move drops
  neither the node's listing nor the one that displays it; the `move_node`
  handler makes up for it, transactions and bulk updates do so only after the
  call (`client.rs:448`);
* bulk tools invalidate after their writes, where the comment at
  `server/mod.rs:1247` says before;
* a caller that waited for another's resolve walk reports a definitive miss even
  if that walk was cancelled or cut short (`:1350`);
* the walks of resolve, audit and copy are not counted as walks in flight;
* `last_unrecovered_failure` asks only the newest failure of all: an older
  failure of another tool is masked, also by one of `create_node` itself
  (`op_log.rs:158`); `batch_create_nodes` with failures counts as a success, and the
  comment that only reads and mutations count is not enforced;
* `tag_search` uses `parent_id` without resolving it;
* the wait for a token looks at no deadline (`client.rs:1892`).

Workflows:

* the inverse of an edit cannot remove a description (`workflows.rs:1196`);
* a malformed operation late in a transaction is found after the earlier ones
  were written (`Reject`, `RefuseTurn`), where the comment says it is refused up
  front; `RefusalsComeFirst` exempts the command (`RefusesLate`);
* a create whose reply was lost is posted again (`client.rs:1891`) and lands
  twice; a rollback deletes the node whose id was answered and leaves the copy;
* a copy puts siblings in reverse, where the comment (`:1765`) says their order
  is kept: creates without a priority go to the front (`:715`);
* a deep copy passes no context to `create_node`, where its comment says that
  the call honours a cancel (`:1874`);
* the advice to resume an insertion with the remaining lines builds another
  tree when the first of them is indented.

Answers:

* the daily review counts its overdue nodes after the cap; an edit exactly at the
  cut-off is a recent change but not one of today's; recent changes are cut to
  the limit before the completed ones are dropped;
* audit: a prefix that two ids share finds either; a prefix that two ids once
  shared stays refused when one is left (`name_index.rs:914`, `:524`), so that a
  mirror of the remaining one counts as BROKEN until the server is restarted; a stale index entry hides a
  BROKEN mirror; from the command line any failed fetch of a canonical out of
  scope counts as BROKEN;
* command line: `create-mirror`, `native-mirror-create` and `reindex` ignore
  `--dry-run`; `smart-insert` exits 0 where `insert` exits 1 on the same
  outcome; the batch commands exit 0 with failures and print how many
  (`Lenient` in `CommandLine`); several commands omit that a walk was cut short.

## What is proved

All theorems hold for every value of the constants under the modules' named
assumptions. Every safety property of a run that passes, invariant or action
property, has one, and so does the refinement of `AtomicBatch`.

*Induction over data.* The library states induction with an operator as a
parameter, which the provers cannot use. `ListFacts` goes round it with sets:
that `<` is well founded on the naturals gives every non-empty set of naturals a
least element (`Least`), so a set that holds 0 and with each number the next
holds them all (`Inductive`, and `SequenceInductive` for a set of sequences). A
recursive function is a `CHOOSE`, so that its equations must be earned: a
lemma shows that a function obeying them exists (`RecursionExists`), after which
it can be unfolded. On this rest the facts about `Reached`, `Keep`,
`FlattenSeq` and `SortedBy`, about the levels of a walk, the levels of a payload
and the `Goal` of a transaction.

*ComponentProofs, the index.* `IndexInvariant` is the strengthening of the three
map invariants: agreement of `by_name` and `by_id`, hash entries that name indexed
ids, and a prefix count that is never below the number of indexed ids that
share the prefix, which is what makes "count = 1" mean "unambiguous" although
the count never falls. From it: `TypeCorrect`, `MapsAlwaysAgree`,
`ResolutionIsSound`, `SuffixAlwaysResolves`.

*ComponentProofs, the answers.*

* `WarningAlwaysStands`, for any capacity and window: the newest record the ring
  holds of a tool is that tool's last finish, because a ring drops its oldest
  record first.
* `ExitStatusIsTrue` and `NothingIsHalfRefused` (of every command other than a
  transaction), for any number of writes. `Good`
  says of a program of steps, command by command, what may stand before and
  after a write; each command is shown to be good and each step to leave a good
  rest. `CliInv` adds what is known of the run so far: after a write no refusing
  step is ahead, and a command that copies or deletes a subtree has seen it
  whole.
* `AuditAlwaysFair`: the types and the form of the markers suffice; the argument
  is in which notes a reference, in full or by eight characters, can mean, and
  whether the index still answers for it.
* `ExclusionAlwaysFollows` and `PathsAlwaysAgree`, for any nodes and hop cap. The
  outline upstream is a forest and stays one (`AncestryInv`); the index's record
  need not be. Climbing from a node lists its chain up to the cap; descending
  from the excluded roots reaches exactly the nodes with a root on their chain,
  cycle or not; and the lines of an export stand under their parents.
* `ReportsAlwaysAgree`, for any outline, texts, days, limits and order of the walk. The
  types suffice; the work is in the lists: a stable sort keeps what there is and
  orders it, what two disjoint filters keep adds up to what their union keeps, a
  count is the length of the list it counts, and a cut at the cap drops none
  that is more urgent than one it leaves.

*IndexStoreProofs.* `StoreInvariant` says that the lock is held exactly while a
process is inside a save, that the file does not change under it, and that from
the scan on every entry of the file is in memory, about to be adopted, or
tombstoned (or about to be). From it: `WritersCompose` (no clobber, for any
number of processes and schemas), `SchemaNeverGoesBack`,
`RenamesPublishSnapshots`, `StampsAreHonest`. `DeletionsStick` has a
strengthening of its own (`SettledInvOf`): whatever is on its way from the file
into the memory of a process, or from its memory into the file, goes without the
ids that process has settled; and from its rename to the end of the save the
lock keeps others from writing them back.

*ClientProofs, the cache.* `CacheIsBounded` needs only the type invariant.
`CacheInvariant` says of every quiet listing that it is current, that
`member_of` leads to it from each node it shows, and that no write in flight
can change it unless that write is about to drop it; and of every read that no
write crossed that its answer is current. The argument is that a write marks
the reads it meets at its look at the cache, and at that moment `member_of`
leads it to every quiet listing it can change. `QuietListingsAreCurrent` and
`MembersAlwaysCover` assume `NoBareMoves`: every move comes from the handler
that invalidates for it. Without it they are false.

*ClientProofs, the request path.* For any number of tasks and any capacity,
rates, hints and deadlines. `TokensAreEarned` is not inductive, because a refill hands
out later what was earned before: `LedgerInv` counts what is left in the bucket
with what was taken from it, and only up to the last refill.
`RetryAfterIsHonoured` needs `WaitInv`: the sleep is chosen after the bucket was
drained and may be cut to the deadline, so until it sends again a call is past
the promised tick, or past its deadline (and then sends nothing), or bound to
wait for the earlier of the two.

*SubtreeWalkProofs.* For any trees, in which every node is listed once at most
(`TreesAreTrees`), and any caps, widths and numbers of waves. What a walk is to
return is defined level by level; `Outside` is what no skipped branch is above.
`InLevel` says that what has been returned is the levels so far with what is
below the skipped branches left out, that the branches still to be asked, those
that failed and those that answered divide the level, and that the listings that
arrived, in whatever order, are those of the branches that answered. The step
that matters is the end of a level: sorting what arrived by the place of the
parent gives the next level without the branches that were given up, and a
branch given up takes all that is below it and nothing else (`SkippedAbove`: it
stands above the level at hand). From it, at the end: `CompleteWalksAreWhole`,
`SkippedBranchesAccount`, and for every way to end `AnswersInDocumentOrder`, since
an answer cut short by the node cap, a deadline or a cancel is the whole answer
with nodes left out (`Sub`).

*WorkflowsProofs.* For any outline that is a forest (`TreeAssumption`) and any jobs,
while calls fail, land unanswered or twice, and another client writes. One
invariant per workflow, above a common account of the outline (`Shape`: who is
listed where, each once).

* `InsertInv`: the lines answered are the first ones; `StackBuilt` says that the
  stack holds, for each level, the last line written at it, with only deeper
  lines after, which is why the parent taken from it is the line above
  (`LineAbove`). That siblings come in the payload's order follows from ids that
  are given in turn and from creates that carry a priority and so go behind the
  siblings created before (`KidsInTurn`).
* `CopyInv`: what the walk saw is a tree below the source (`SeenTree`); the copied
  nodes are closed upwards and the queue is what hangs below them (`Frontier`),
  so that an empty queue means that everything seen has its copy, below the copy
  of its parent (`CopiesPlaced`).
* `ReorderInv`: the list is worked off from its end, each answered move puts its node
  before all that were placed and before all not listed, and those keep their
  order, whatever the other client takes away.
* `MirrorInv`: what is said of the marker is what was read or answered.

From them `InsertAlwaysBuildsPayload`, `CopyAlwaysBuildsSource`,
`ReorderAlwaysPlaces` and `MirrorStatusAlwaysTrue`.

*ToolServerProofs, calls.* For any number of calls and any set of programs that
meet `ProgramAssumption`, which TLC evaluates on every tool of `Tools`.
`GuardsHold`: a step changes the walk counter or a scope exactly with the
position of the call that makes it, also when the call is dropped; the counter
being the cardinality of a set of calls, one call's move changes it by one.
`RetriesWriteNothing` needs that a key is looked up before anything is created
(`KeyComesFirst`), so that of a call whose key is in the store either the lookup
is still ahead or the call is over, and that a key that leaves the store takes
`known` with it.

*ToolServerProofs, freshness.* `FreshnessHolds`, under `DropsForWrites` (also
evaluated on every tool): `Strand` says of the program a call has left that each
write that hits the subject is its last, and is preceded by an invalidation or,
in a bulk tool, followed by the footprint; and that whenever the entry is stale
some call is to blame, or will drop it with its next step.

*TransactionProofs.* For any outline in which every node hangs below another or
at the top (`Rooted`), and any list of operations. The *zone* is what was, at the
start, at or below a damaged node; everything is claimed of nodes outside it.
`CInv` keeps a ghost: a sequence of outlines, one before each operation whose
inverse is on the stack (`Chain`). The calls of an inverse write back every field
in which its two neighbours differ (`Restores`); the outline at hand is the last
of the sequence (`Agrees`), or that with an operation under way (`Begun`) or an
inverse under way (`Undoing`). Two things make it more than a stack of undo
records. Undoing a create removes whatever was moved under the new node:
`DeletionReaches` shows that this is a node of the zone, or one whose own inverse
is still on the stack and must fail, so that it is damaged before the rollback
ends (`Lost`). And a created node has nothing below it at first (`Childless`),
which is where `Rooted` is used. The copies are counted beside all this
(`Standing`): they hang below places that stand and that creates so far were for,
since whatever removes a place removes its copies. From `CInv` and `Standing`:
`DamageStaysContained` and `RollbackRestores`. `TransactionIsAtomic` is the refinement, `Spec =>
ImplementsBatch`. Its other half is `GInv`: there is a sequence of outlines, each
the one before with the next operation carried out, that starts at the outline
there was and ends at `Goal`; between operations the outline at hand is one of
them, and within an operation the calls still to make lead to the next
(`OnTheWay`). Each step is then the batch's commit, abort or break, or a stutter.

*Assumptions.* Those on constants are the bounds' types and what the API
guarantees of an outline: a node, which carries one `parent_id`, is listed once
(`TreesAreTrees`, Workflows' `TreeAssumption`), none is below itself, a parent
exists (`Rooted`). The others keep
stand-ins apart (`NodeAssumption`, `AuditConstants`, `AncestryConstants`,
`CommandConstants`) or give the form of a job's arguments (`JobAssumption`). TLC
evaluates all of them in the runs.

Model-checked only: liveness (`LockIsReleased`, `Terminates`,
`EveryCallReturns`, `WalkEnds`, `EveryToolReturns`). It needs fairness, that is
`ENABLED`, about which this prover cannot reason.

## Not modelled

* The job queue is constructed by tests only; the program runs no job.
* The usage log appends a line and nothing reads it. Configuration and defaults
  are constants: their values are the modules' constants.
* Parameter schemas, rendering, and the conversions of HTML, tags and links are
  string functions. A check that refuses arguments is a step of a tool's or a
  command's program. Of the classification of error texts only what it decides
  (retry or not) is modelled.
* `build_review` filters one walk; the percentiles per tool and the status
  payload are derived from the ring and read by nothing.
* Index lookups by name only read. Priorities of a transaction's nodes and the
  wording of answers are left out.
* The API is external: its state appears in each module as far as the program
  relies on it.

The plan of the first version (request path, walk, resolution, idempotent
create, the other workflows, the registries, the pure algorithms, their proofs)
is carried out in the modules above; resolution and idempotent create are part
of `ToolServer` because they share its handlers. What is left: type correctness
as theorems of their own for the modules whose proofs need no more than parts of
it (`Workflows`, `Audit`, `CommandLine`), and the hazards listed without a
property.
