------------------------------ MODULE IndexStore ------------------------------
(***************************************************************************)
(* Persistence of the name index (src/src/utils/name_index.rs): several    *)
(* processes -- long-running MCP servers and one-shot `wflow-do reindex`   *)
(* runs -- that each hold an index in memory and share one file, guarded   *)
(* by an advisory lock on a .lock sibling and replaced by rename.          *)
(*                                                                         *)
(* Inside a server the saver task, the request handlers (walks and         *)
(* mutations) and the refresh-on-miss path run concurrently, so save_to_   *)
(* disk and refresh_from_disk_if_changed are cut at every point where      *)
(* another task of the process can run.  A process may crash anywhere.     *)
(*                                                                         *)
(* An entry is abstracted to the version of the node it was observed at    *)
(* (0: no entry); NameIndex models the maps such an entry lives in.        *)
(***************************************************************************)
EXTENDS Naturals

CONSTANTS
  Ids,        \* Workflowy nodes
  Excluded,   \* nodes under WORKFLOWY_INDEX_EXCLUDE_SUBTREES
  Procs,      \* processes sharing the index file
  Clis,       \* those that are reindex runs: sequential, never deleting
  Schema,     \* PERSIST_SCHEMA_VERSION of the binary a process runs
  Free,       \* the save lock is not held
  MaxVersion, \* bound: edits of a node upstream
  MaxSaves    \* bound: renames of the index file

ASSUME ProcAssumption == Clis \subseteq Procs /\ Free \notin Procs
ASSUME SchemaAssumption == Schema \in [Procs -> Nat \ {0}]
ASSUME ExcludedAssumption == Excluded \subseteq Ids
ASSUME BoundAssumption == MaxVersion \in Nat \ {0}

VARIABLES
  tree,     \* upstream: current version of each node, 0 when deleted
  file,     \* the index file: kind, schema version, entries, mtime
  tmp,      \* the .tmp sibling
  lock,     \* holder of the save lock
  up,       \* process is running
  mem,      \* its entries
  dirty,    \* its dirty flag
  tomb,     \* its tombstones
  due,      \* ids removed from its maps, whose tombstone is not yet set
  marking,  \* ids tombstoned, for which the dirty flag is not yet set
  settled,  \* history: ids tombstoned before any merge under way looked for them
  stamp,    \* last_disk_refresh_mtime (0: None)
  save,     \* where its save_to_disk is
  adopt,    \* entries that save's merge decided to adopt
  snap,     \* entries it serialised last (at a load: what it loaded)
  refresh,  \* its refresh_from_disk_if_changed: phase, mtime read, adoptions
  walk,     \* a walk's response it has received and not yet ingested
  dropped   \* history: ids it invalidated and has not observed since

procVars == <<up, mem, dirty, tomb, due, marking, settled, stamp, save, adopt, snap, refresh,
              walk, dropped>>
vars == <<tree, file, tmp, lock, procVars>>

Versions == 0 .. MaxVersion
EntrySets == [Ids -> Versions]
NoEntries == [i \in Ids |-> 0]
Files == [kind : {"absent", "bad", "ok"}, schema : Nat, nodes : EntrySets, mtime : Nat]
TmpFiles == [state : {"none", "torn", "whole"}, nodes : EntrySets]
NoTmp == [state |-> "none", nodes |-> NoEntries]
TornTmp == [state |-> "torn", nodes |-> NoEntries]
SavePhases == {"idle", "locked", "scanned", "merged", "snapped", "written",
               "renamed", "cleaned"}
Refreshes == [phase : {"idle", "stat", "scanned"}, mtime : Nat, adopt : EntrySets]
NoRefresh == [phase |-> "idle", mtime |-> 0, adopt |-> NoEntries]
Servers == Procs \ Clis

TypeOK ==
  /\ tree \in EntrySets
  /\ file \in Files
  /\ tmp \in TmpFiles
  /\ lock \in Procs \cup {Free}
  /\ up \in [Procs -> BOOLEAN]
  /\ mem \in [Procs -> EntrySets]
  /\ dirty \in [Procs -> BOOLEAN]
  /\ tomb \in [Procs -> SUBSET Ids]
  /\ due \in [Procs -> SUBSET Ids]
  /\ marking \in [Procs -> SUBSET Ids]
  /\ settled \in [Procs -> SUBSET Ids]
  /\ stamp \in [Procs -> Nat]
  /\ save \in [Procs -> SavePhases]
  /\ adopt \in [Procs -> EntrySets]
  /\ snap \in [Procs -> EntrySets]
  /\ refresh \in [Procs -> Refreshes]
  /\ walk \in [Procs -> EntrySets]
  /\ dropped \in [Procs -> SUBSET Ids]

Init ==
  /\ tree \in [Ids -> {1}]
  /\ file \in {[kind |-> k, schema |-> 0, nodes |-> NoEntries, mtime |-> 0] : k \in {"absent", "bad"}}
  /\ tmp = NoTmp
  /\ lock = Free
  /\ up = [p \in Procs |-> FALSE]
  /\ mem = [p \in Procs |-> NoEntries]
  /\ dirty = [p \in Procs |-> FALSE]
  /\ tomb = [p \in Procs |-> {}]
  /\ due = [p \in Procs |-> {}]
  /\ marking = [p \in Procs |-> {}]
  /\ settled = [p \in Procs |-> {}]
  /\ stamp = [p \in Procs |-> 0]
  /\ save = [p \in Procs |-> "idle"]
  /\ adopt = [p \in Procs |-> NoEntries]
  /\ snap = [p \in Procs |-> NoEntries]
  /\ refresh = [p \in Procs |-> NoRefresh]
  /\ walk = [p \in Procs |-> NoEntries]
  /\ dropped = [p \in Procs |-> {}]

Readable(p) == file.kind = "ok" /\ file.schema <= Schema[p]
\* Mutant: the schema number is not looked at before a save.
NeverTooNew(p) == FALSE

TooNew(p) == file.kind = "ok" /\ file.schema > Schema[p]

-----------------------------------------------------------------------------
(* The tree upstream, changed by anybody.                                  *)

Edit(i) ==
  /\ tree[i] \in 1 .. MaxVersion - 1
  /\ tree' = [tree EXCEPT ![i] = @ + 1]
  /\ UNCHANGED <<file, tmp, lock, procVars>>

Delete(i) ==
  /\ tree[i] # 0
  /\ tree' = [tree EXCEPT ![i] = 0]
  /\ UNCHANGED <<file, tmp, lock, procVars>>

-----------------------------------------------------------------------------
(* Process life.                                                           *)

\* load_from_disk: a file that is absent, unreadable or newer than the binary
\* leaves the index empty.  dirty is cleared after the load's ingest.
Start(p) ==
  /\ ~up[p]
  /\ up' = [up EXCEPT ![p] = TRUE]
  /\ LET loaded == IF Readable(p) THEN file.nodes ELSE NoEntries IN
     /\ mem' = [mem EXCEPT ![p] = loaded]
     /\ snap' = [snap EXCEPT ![p] = loaded]
  /\ dirty' = [dirty EXCEPT ![p] = FALSE]
  /\ UNCHANGED <<tree, file, tmp, lock, tomb, due, marking, settled, stamp, save, adopt, refresh, walk, dropped>>

\* Mutant: a lock that outlives its holder (a lock file, not an OS lock).
CrashHoldingLock(p) ==
  /\ up[p]
  /\ up' = [up EXCEPT ![p] = FALSE]
  /\ mem' = [mem EXCEPT ![p] = NoEntries]
  /\ save' = [save EXCEPT ![p] = "idle"]
  /\ walk' = [walk EXCEPT ![p] = NoEntries]
  /\ UNCHANGED <<tree, file, tmp, lock, dirty, tomb, due, marking, settled, stamp, adopt, snap, refresh, dropped>>

\* Exit or kill at any point: memory is gone, and the lock goes with the handle.
Crash(p) ==
  /\ up[p]
  /\ up' = [up EXCEPT ![p] = FALSE]
  /\ mem' = [mem EXCEPT ![p] = NoEntries]
  /\ dirty' = [dirty EXCEPT ![p] = FALSE]
  /\ tomb' = [tomb EXCEPT ![p] = {}]
  /\ due' = [due EXCEPT ![p] = {}]
  /\ marking' = [marking EXCEPT ![p] = {}]
  /\ settled' = [settled EXCEPT ![p] = {}]
  /\ stamp' = [stamp EXCEPT ![p] = 0]
  /\ save' = [save EXCEPT ![p] = "idle"]
  /\ adopt' = [adopt EXCEPT ![p] = NoEntries]
  /\ snap' = [snap EXCEPT ![p] = NoEntries]
  /\ refresh' = [refresh EXCEPT ![p] = NoRefresh]
  /\ walk' = [walk EXCEPT ![p] = NoEntries]
  /\ dropped' = [dropped EXCEPT ![p] = {}]
  /\ lock' = IF lock = p THEN Free ELSE lock
  /\ UNCHANGED <<tree, file, tmp>>

-----------------------------------------------------------------------------
(* Request handlers.  A reindex run walks only between its saves.          *)

Sequential(p) == p \in Clis => save[p] = "idle"

\* A walk's HTTP response: some node as it is upstream now.
WalkFetch(p, i) ==
  /\ up[p] /\ Sequential(p)
  /\ walk[p] = NoEntries
  /\ tree[i] # 0
  /\ walk' = [walk EXCEPT ![p] = [NoEntries EXCEPT ![i] = tree[i]]]
  /\ UNCHANGED <<tree, file, tmp, lock, up, mem, dirty, tomb, due, marking, settled, stamp, save, adopt,
                 snap, refresh, dropped>>

\* ingest overwrites what it is given and leaves the rest.
Ingested(entries, batch) == [i \in Ids |-> IF batch[i] # 0 THEN batch[i] ELSE entries[i]]

WalkIngest(p) ==
  /\ up[p] /\ Sequential(p)
  /\ walk[p] # NoEntries
  /\ mem' = [mem EXCEPT ![p] = Ingested(@, walk[p])]
  /\ dirty' = [dirty EXCEPT ![p] = @ \/ Ingested(mem[p], walk[p]) # mem[p]]
  /\ dropped' = [dropped EXCEPT ![p] = {i \in @ : walk[p][i] = 0}]
  /\ settled' = [settled EXCEPT ![p] = {i \in @ : walk[p][i] = 0}]
  /\ walk' = [walk EXCEPT ![p] = NoEntries]
  /\ UNCHANGED <<tree, file, tmp, lock, up, tomb, due, marking, stamp, save, adopt, snap, refresh>>

\* invalidate_for_mutation, before the call that changes the node.  The id
\* leaves the maps under their locks; once those are dropped, an id that was in
\* memory is tombstoned, and then the index is marked dirty.
Invalidate(p, i) ==
  /\ up[p] /\ p \in Servers
  /\ mem' = [mem EXCEPT ![p][i] = 0]
  /\ due' = IF mem[p][i] # 0 THEN [due EXCEPT ![p] = @ \cup {i}] ELSE due
  /\ dropped' = [dropped EXCEPT ![p] = @ \cup {i}]
  /\ UNCHANGED <<tree, file, tmp, lock, up, dirty, tomb, marking, settled, stamp, save, adopt,
                 snap, refresh, walk>>

\* No merge of p has read the file and not yet adopted from it, and no snapshot
\* of p is on its way to the file.
NoneUnderWay(p) ==
  save[p] \in {"idle", "locked", "merged"} /\ refresh[p].phase # "scanned"

Entomb(p, i) ==
  /\ i \in due[p]
  /\ due' = [due EXCEPT ![p] = @ \ {i}]
  /\ tomb' = [tomb EXCEPT ![p] = @ \cup {i}]
  /\ marking' = [marking EXCEPT ![p] = @ \cup {i}]
  /\ settled' = IF NoneUnderWay(p) /\ mem[p][i] = 0
                THEN [settled EXCEPT ![p] = @ \cup {i}] ELSE settled
  /\ UNCHANGED <<tree, file, tmp, lock, up, mem, dirty, stamp, save, adopt, snap, refresh,
                 walk, dropped>>

MarkDirty(p, i) ==
  /\ i \in marking[p]
  /\ marking' = [marking EXCEPT ![p] = @ \ {i}]
  /\ dirty' = [dirty EXCEPT ![p] = TRUE]
  /\ UNCHANGED <<tree, file, tmp, lock, up, mem, tomb, due, settled, stamp, save, adopt, snap,
                 refresh, walk, dropped>>

-----------------------------------------------------------------------------
(* save_to_disk, one step per point another task can run at.               *)

Unsaved == <<tree, up, walk, dropped, refresh>>

\* Mutant: a try-lock whose failure is ignored.
SaveWithoutLock(p) ==
  /\ up[p] /\ save[p] = "idle"
  /\ p \in Servers => dirty[p]
  /\ file.mtime < MaxSaves
  /\ lock' = p
  /\ save' = [save EXCEPT ![p] = "locked"]
  /\ UNCHANGED <<file, tmp, mem, dirty, tomb, due, marking, settled, stamp, adopt, snap, Unsaved>>

\* The saver's tick saves a dirty index; a reindex run saves after each root.
\* The lock is a blocking one: the step waits for it.
SaveLock(p) ==
  /\ up[p] /\ save[p] = "idle" /\ lock = Free
  /\ p \in Servers => dirty[p]
  /\ file.mtime < MaxSaves
  /\ lock' = p
  /\ save' = [save EXCEPT ![p] = "locked"]
  /\ UNCHANGED <<file, tmp, mem, dirty, tomb, due, marking, settled, stamp, adopt, snap, Unsaved>>

\* Mutant: the merge looks at memory only.
AdoptableForgetful(p) ==
  [i \in Ids |-> IF Readable(p) /\ mem[p][i] = 0 THEN file.nodes[i] ELSE 0]

\* What merge_from_disk adopts: entries of the file the process has neither in
\* memory nor tombstoned, as both are now.
Adoptable(p) ==
  [i \in Ids |-> IF Readable(p) /\ mem[p][i] = 0 /\ i \notin tomb[p]
                 THEN file.nodes[i] ELSE 0]

SaveScan(p) ==
  /\ save[p] = "locked" /\ ~TooNew(p)
  /\ adopt' = [adopt EXCEPT ![p] = Adoptable(p)]
  /\ save' = [save EXCEPT ![p] = "scanned"]
  /\ UNCHANGED <<file, tmp, lock, mem, dirty, tomb, due, marking, settled, stamp, snap, Unsaved>>

\* A file of a newer schema makes the merge, and with it the save, fail.
SaveRefused(p) ==
  /\ save[p] = "locked" /\ TooNew(p)
  /\ save' = [save EXCEPT ![p] = "idle"]
  /\ lock' = Free
  /\ UNCHANGED <<file, tmp, mem, dirty, tomb, due, marking, settled, stamp, adopt, snap, Unsaved>>

SaveAdopt(p) ==
  /\ save[p] = "scanned"
  /\ mem' = [mem EXCEPT ![p] = Ingested(@, adopt[p])]
  /\ dirty' = [dirty EXCEPT ![p] = @ \/ Ingested(mem[p], adopt[p]) # mem[p]]
  /\ adopt' = [adopt EXCEPT ![p] = NoEntries]
  /\ save' = [save EXCEPT ![p] = "merged"]
  /\ UNCHANGED <<file, tmp, lock, tomb, due, marking, settled, stamp, snap, Unsaved>>

Persistable(entries) == [i \in Ids |-> IF i \in Excluded THEN 0 ELSE entries[i]]

SaveSnapshot(p) ==
  /\ save[p] = "merged"
  /\ snap' = [snap EXCEPT ![p] = Persistable(mem[p])]
  /\ save' = [save EXCEPT ![p] = "snapped"]
  /\ UNCHANGED <<file, tmp, lock, mem, dirty, tomb, due, marking, settled, stamp, adopt, Unsaved>>

SaveWriteTmp(p) ==
  /\ save[p] = "snapped"
  /\ tmp' = [state |-> "whole", nodes |-> snap[p]]
  /\ save' = [save EXCEPT ![p] = "written"]
  /\ UNCHANGED <<file, lock, mem, dirty, tomb, due, marking, settled, stamp, adopt, snap, Unsaved>>

\* Disk full: the .tmp is left half-written, the save returns the error.
SaveWriteFails(p) ==
  /\ save[p] = "snapped"
  /\ tmp' = TornTmp
  /\ lock' = Free
  /\ save' = [save EXCEPT ![p] = "idle"]
  /\ UNCHANGED <<file, mem, dirty, tomb, due, marking, settled, stamp, adopt, snap, Unsaved>>

SaveRename(p) ==
  /\ save[p] = "written" /\ tmp # NoTmp
  /\ file' = [kind |-> IF tmp = TornTmp THEN "bad" ELSE "ok", schema |-> Schema[p],
              nodes |-> tmp.nodes, mtime |-> file.mtime + 1]
  /\ tmp' = NoTmp
  /\ save' = [save EXCEPT ![p] = "renamed"]
  /\ UNCHANGED <<lock, mem, dirty, tomb, due, marking, settled, stamp, adopt, snap, Unsaved>>

\* last_disk_refresh_mtime := the new mtime; dirty := false, whatever happened
\* in memory since the snapshot.
SaveClean(p) ==
  /\ save[p] = "renamed"
  /\ stamp' = [stamp EXCEPT ![p] = file.mtime]
  /\ dirty' = [dirty EXCEPT ![p] = FALSE]
  /\ save' = [save EXCEPT ![p] = "cleaned"]
  /\ UNCHANGED <<file, tmp, lock, mem, tomb, due, marking, settled, adopt, snap, Unsaved>>

\* tombstones.clear(), then the guard drops.
SaveForget(p) ==
  /\ save[p] = "cleaned"
  /\ tomb' = [tomb EXCEPT ![p] = {}]
  /\ settled' = [settled EXCEPT ![p] = {}]
  /\ lock' = Free
  /\ save' = [save EXCEPT ![p] = "idle"]
  /\ UNCHANGED <<due, marking, file, tmp, mem, dirty, stamp, adopt, snap, Unsaved>>

SaveStep(p) ==
  \/ SaveScan(p) \/ SaveRefused(p) \/ SaveAdopt(p) \/ SaveSnapshot(p)
  \/ SaveWriteTmp(p) \/ SaveWriteFails(p) \/ SaveRename(p) \/ SaveClean(p)
  \/ SaveForget(p)

-----------------------------------------------------------------------------
(* refresh_from_disk_if_changed, on a short-hash miss; takes no lock.      *)

Unrefreshed == <<tree, file, tmp, lock, up, tomb, due, marking, settled, save, adopt, snap, walk, dropped>>

RefreshStat(p) ==
  /\ up[p] /\ p \in Servers /\ refresh[p].phase = "idle"
  /\ file.kind # "absent" /\ stamp[p] # file.mtime
  /\ refresh' = [refresh EXCEPT ![p] = [NoRefresh EXCEPT !.phase = "stat", !.mtime = file.mtime]]
  /\ UNCHANGED <<mem, dirty, stamp, Unrefreshed>>

RefreshScan(p) ==
  /\ refresh[p].phase = "stat"
  /\ refresh' = [refresh EXCEPT ![p] =
                   IF TooNew(p) THEN NoRefresh
                   ELSE [phase |-> "scanned", mtime |-> @.mtime, adopt |-> Adoptable(p)]]
  /\ UNCHANGED <<mem, dirty, stamp, Unrefreshed>>

\* Mutant: the mtime is read again after the merge.
RefreshRestat(p) ==
  /\ refresh[p].phase = "scanned"
  /\ mem' = [mem EXCEPT ![p] = Ingested(@, refresh[p].adopt)]
  /\ dirty' = [dirty EXCEPT ![p] = @ \/ Ingested(mem[p], refresh[p].adopt) # mem[p]]
  /\ stamp' = [stamp EXCEPT ![p] = file.mtime]
  /\ refresh' = [refresh EXCEPT ![p] = NoRefresh]
  /\ UNCHANGED Unrefreshed

RefreshFinish(p) ==
  /\ refresh[p].phase = "scanned"
  /\ mem' = [mem EXCEPT ![p] = Ingested(@, refresh[p].adopt)]
  /\ dirty' = [dirty EXCEPT ![p] = @ \/ Ingested(mem[p], refresh[p].adopt) # mem[p]]
  /\ stamp' = [stamp EXCEPT ![p] = refresh[p].mtime]
  /\ refresh' = [refresh EXCEPT ![p] = NoRefresh]
  /\ UNCHANGED Unrefreshed

-----------------------------------------------------------------------------
Handler(p) ==
  \/ \E i \in Ids : WalkFetch(p, i) \/ Invalidate(p, i) \/ Entomb(p, i) \/ MarkDirty(p, i)
  \/ WalkIngest(p)
  \/ RefreshStat(p) \/ RefreshScan(p) \/ RefreshFinish(p)

Next ==
  \/ \E i \in Ids : Edit(i) \/ Delete(i)
  \/ \E p \in Procs : Start(p) \/ Crash(p) \/ Handler(p) \/ SaveLock(p) \/ SaveStep(p)

\* A save that holds the lock is synchronous code: it runs to its end unless
\* its process dies.
Fairness == \A p \in Procs : WF_vars(SaveStep(p))

Spec == Init /\ [][Next]_vars /\ Fairness

-----------------------------------------------------------------------------
(* Concurrent writers compose: an entry leaves the file only in a save by  *)
(* a process that invalidated it (its tombstone set or about to be), or    *)
(* because it is excluded.  Never because another writer's copy was        *)
(* written over it.                                                        *)
NoClobber ==
  [][\A i \in Ids : file.nodes[i] # 0 /\ file'.nodes[i] = 0 =>
       i \in Excluded \/ (lock # Free /\ i \in tomb[lock] \cup due[lock])]_vars

(* A process running an older binary never replaces a newer binary's file. *)
NoDowngrade ==
  [][file.kind = "ok" => file'.kind = "ok" /\ file'.schema >= file.schema]_vars

(* What a rename publishes is exactly what that process serialised: no     *)
(* crash, failed write or second saver leaves another .tmp in its place.   *)
PublishesOwnSnapshot ==
  [][file' # file =>
       \E p \in Procs : save[p] = "written" /\ file'.kind = "ok" /\ file'.nodes = snap[p]]_vars

(* The mtime guard skips nothing unread: while a process's stamp is the    *)
(* file's mtime, every entry of the file is one it has, or one it has      *)
(* itself invalidated.                                                     *)
StampMeansMerged ==
  \A p \in Procs : up[p] /\ stamp[p] = file.mtime /\ Readable(p) /\ file.mtime # 0 =>
    \A i \in Ids : file.nodes[i] # 0 => mem[p][i] # 0 \/ i \in dropped[p]

(* A deletion whose tombstone is in place before a merge looks for it      *)
(* sticks: neither a save nor a refresh, its own or crossed by another     *)
(* process's, brings the node back into memory, the index stays dirty (or  *)
(* about to be) until a save has the node out of the file, and that save   *)
(* has it out when the tombstone goes.  Only a walk that observes the node *)
(* again, or a crash, ends it.                                             *)
DeletesStick ==
  \A p \in Procs : \A i \in settled[p] :
    /\ mem[p][i] = 0
    /\ save[p] # "cleaned" => dirty[p] \/ i \in marking[p]
    /\ save[p] \in {"renamed", "cleaned"} => file.nodes[i] = 0

(* A killed writer cannot wedge the index: whoever holds the save lock     *)
(* gives it up.                                                            *)
LockIsReleased == \A p \in Procs : lock = p ~> lock # p

=============================================================================
