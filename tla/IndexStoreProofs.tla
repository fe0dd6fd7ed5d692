--------------------------- MODULE IndexStoreProofs ---------------------------
(***************************************************************************)
(* Proofs that processes sharing the index file compose instead of         *)
(* clobbering each other, for any number of processes, nodes, binaries and *)
(* crashes.                                                                *)
(***************************************************************************)
EXTENDS IndexStore, TLAPS

LEMMA EntryFacts ==
  /\ NoEntries \in EntrySets
  /\ \A e, b \in EntrySets : Ingested(e, b) \in EntrySets
  /\ \A e \in EntrySets : Persistable(e) \in EntrySets
BY BoundAssumption DEF NoEntries, EntrySets, Versions, Ingested, Persistable

LEMMA AdoptableType ==
  ASSUME TypeOK, NEW p \in Procs
  PROVE  Adoptable(p) \in EntrySets
BY BoundAssumption DEF TypeOK, Adoptable, Files, EntrySets, Versions

LEMMA NoRefreshType == NoRefresh \in Refreshes
BY EntryFacts DEF NoRefresh, Refreshes

LEMMA InitType == Init => TypeOK
<1> SUFFICES ASSUME Init PROVE TypeOK
  OBVIOUS
<1>1. tree \in EntrySets
  BY BoundAssumption DEF Init, EntrySets, Versions
<1>2. file \in Files
  BY EntryFacts DEF Init, Files
<1>3. tmp \in TmpFiles
  BY EntryFacts DEF Init, TmpFiles, NoTmp
<1> QED
  BY <1>1, <1>2, <1>3, EntryFacts, NoRefreshType DEF Init, TypeOK, SavePhases

-----------------------------------------------------------------------------
LEMMA TypeStutter == TypeOK /\ UNCHANGED vars => TypeOK'
BY DEF TypeOK, vars, procVars

LEMMA TypeStep == TypeOK /\ [Next]_vars => TypeOK'
<1> SUFFICES ASSUME TypeOK, [Next]_vars PROVE TypeOK'
  OBVIOUS
<1> USE EntryFacts, AdoptableType, NoRefreshType, BoundAssumption, ProcAssumption, SchemaAssumption
<1>1. ASSUME NEW i \in Ids, Edit(i) \/ Delete(i) PROVE TypeOK'
  <2>1. CASE Edit(i)
    <3>1. tree[i] + 1 \in Versions /\ tree \in [Ids -> Versions]
      BY <2>1 DEF TypeOK, Edit, EntrySets, Versions
    <3> QED
      BY <2>1, <3>1 DEF TypeOK, Edit, EntrySets, procVars
  <2>2. CASE Delete(i)
    <3>1. 0 \in Versions /\ tree \in [Ids -> Versions]
      BY DEF TypeOK, EntrySets, Versions
    <3> QED
      BY <2>2, <3>1 DEF TypeOK, Delete, EntrySets, procVars
  <2> QED
    BY <1>1, <2>1, <2>2
<1>2. ASSUME NEW p \in Procs, Start(p) PROVE TypeOK'
  BY <1>2 DEF TypeOK, Start, Files
<1>3. ASSUME NEW p \in Procs, Crash(p) PROVE TypeOK'
  BY <1>3 DEF TypeOK, Crash, SavePhases
<1>4. ASSUME NEW p \in Procs, NEW i \in Ids, WalkFetch(p, i) PROVE TypeOK'
  <2>1. [NoEntries EXCEPT ![i] = tree[i]] \in EntrySets
    BY DEF TypeOK, EntrySets
  <2> QED
    BY <1>4, <2>1 DEF TypeOK, WalkFetch
<1>5. ASSUME NEW p \in Procs, WalkIngest(p) PROVE TypeOK'
  BY <1>5 DEF TypeOK, WalkIngest
<1>6. ASSUME NEW p \in Procs, NEW i \in Ids, Invalidate(p, i) PROVE TypeOK'
  <2>1. [mem[p] EXCEPT ![i] = 0] \in EntrySets
    BY DEF TypeOK, EntrySets, Versions
  <2>2. mem' = [mem EXCEPT ![p] = [mem[p] EXCEPT ![i] = 0]]
    BY <1>6 DEF TypeOK, Invalidate
  <2>3. mem' \in [Procs -> EntrySets]
    BY <2>1, <2>2 DEF TypeOK
  <2>4. due' \in [Procs -> SUBSET Ids]
    BY <1>6 DEF TypeOK, Invalidate
  <2>5. dropped' \in [Procs -> SUBSET Ids]
    BY <1>6 DEF TypeOK, Invalidate
  <2> QED
    BY <1>6, <2>3, <2>4, <2>5 DEF TypeOK, Invalidate
<1>6a. ASSUME NEW p \in Procs, NEW i \in Ids, Entomb(p, i) PROVE TypeOK'
  BY <1>6a DEF TypeOK, Entomb
<1>6b. ASSUME NEW p \in Procs, NEW i \in Ids, MarkDirty(p, i) PROVE TypeOK'
  BY <1>6b DEF TypeOK, MarkDirty
<1>7. ASSUME NEW p \in Procs, RefreshStat(p) PROVE TypeOK'
  <2>1. [NoRefresh EXCEPT !.phase = "stat", !.mtime = file.mtime] \in Refreshes
    BY DEF TypeOK, NoRefresh, Refreshes, Files
  <2> QED
    BY <1>7, <2>1 DEF TypeOK, RefreshStat, Unrefreshed
<1>8. ASSUME NEW p \in Procs, RefreshScan(p) PROVE TypeOK'
  <2>1. [phase |-> "scanned", mtime |-> refresh[p].mtime, adopt |-> Adoptable(p)] \in Refreshes
    BY DEF TypeOK, Refreshes
  <2> QED
    BY <1>8, <2>1 DEF TypeOK, RefreshScan, Unrefreshed
<1>9. ASSUME NEW p \in Procs, RefreshFinish(p) PROVE TypeOK'
  <2>1. refresh[p].adopt \in EntrySets /\ refresh[p].mtime \in Nat
    BY DEF TypeOK, Refreshes
  <2> QED
    BY <1>9, <2>1 DEF TypeOK, RefreshFinish, Unrefreshed
<1>10. ASSUME NEW p \in Procs, SaveLock(p) PROVE TypeOK'
  BY <1>10 DEF TypeOK, SaveLock, Unsaved, SavePhases
<1>11. ASSUME NEW p \in Procs, SaveScan(p) \/ SaveRefused(p) PROVE TypeOK'
  BY <1>11 DEF TypeOK, SaveScan, SaveRefused, Unsaved, SavePhases
<1>12. ASSUME NEW p \in Procs, SaveAdopt(p) \/ SaveSnapshot(p) PROVE TypeOK'
  <2>1. CASE SaveAdopt(p)
    BY <2>1 DEF TypeOK, SaveAdopt, Unsaved, SavePhases
  <2>2. CASE SaveSnapshot(p)
    BY <2>2 DEF TypeOK, SaveSnapshot, Unsaved, SavePhases
  <2> QED
    BY <1>12, <2>1, <2>2
<1>13. ASSUME NEW p \in Procs, SaveWriteTmp(p) \/ SaveWriteFails(p) PROVE TypeOK'
  BY <1>13 DEF TypeOK, SaveWriteTmp, SaveWriteFails, Unsaved, SavePhases, TmpFiles, TornTmp
<1>14. ASSUME NEW p \in Procs, SaveRename(p) PROVE TypeOK'
  <2>1. NoTmp \in TmpFiles
    BY DEF NoTmp, TmpFiles
  <2>2. file' \in Files
    BY <1>14 DEF TypeOK, SaveRename, Files, TmpFiles
  <2> QED
    BY <1>14, <2>1, <2>2 DEF TypeOK, SaveRename, Unsaved, SavePhases
<1>15. ASSUME NEW p \in Procs, SaveClean(p) \/ SaveForget(p) PROVE TypeOK'
  <2>1. file.mtime \in Nat
    BY DEF TypeOK, Files
  <2>2. CASE SaveClean(p)
    BY <2>1, <2>2 DEF TypeOK, SaveClean, Unsaved, SavePhases
  <2>3. CASE SaveForget(p)
    BY <2>3 DEF TypeOK, SaveForget, Unsaved, SavePhases
  <2> QED
    BY <1>15, <2>2, <2>3
<1>16. CASE UNCHANGED vars
  BY <1>16, TypeStutter
<1>17. ASSUME NEW p \in Procs, Handler(p) PROVE TypeOK'
  BY <1>4, <1>5, <1>6, <1>6a, <1>6b, <1>7, <1>8, <1>9, <1>17, Zenon DEF Handler
<1>18. ASSUME NEW p \in Procs, SaveStep(p) PROVE TypeOK'
  BY <1>11, <1>12, <1>13, <1>14, <1>15, <1>18, Zenon DEF SaveStep
<1> QED
  BY <1>1, <1>2, <1>3, <1>10, <1>16, <1>17, <1>18, Zenon DEF Next

(* Every variable keeps its type.                                          *)
THEOREM TypeCorrect == Spec => []TypeOK
BY InitType, TypeStep, PTL DEF Spec
-----------------------------------------------------------------------------
(* The strengthening.  A process is in the critical section exactly while  *)
(* it holds the lock; inside it, every entry of the file is accounted for  *)
(* by the state the save will publish or by a tombstone; and a process     *)
(* whose stamp is the file's mtime has seen what the file holds.           *)

LockInvOf(p) ==
  /\ save[p] # "idle" <=> lock = p
  /\ save[p] # "idle" => up[p]

FileInv == file.kind # "ok" => file.nodes = NoEntries

MergeInvOf(p) ==
  /\ save[p] \in {"scanned", "merged", "snapped", "written"} => ~TooNew(p)
  /\ save[p] = "scanned" => \A i \in Ids :
       file.nodes[i] # 0 => mem[p][i] # 0 \/ i \in tomb[p] \cup due[p] \/ adopt[p][i] # 0
  /\ save[p] = "merged" => \A i \in Ids :
       file.nodes[i] # 0 => mem[p][i] # 0 \/ i \in tomb[p] \cup due[p]
  /\ save[p] \in {"snapped", "written"} => \A i \in Ids :
       file.nodes[i] # 0 => snap[p][i] # 0 \/ i \in tomb[p] \cup due[p] \/ i \in Excluded
  /\ save[p] = "written" => tmp = [state |-> "whole", nodes |-> snap[p]]

Seen(p, i) == mem[p][i] # 0 \/ i \in dropped[p]

StampInvOf(p) ==
  /\ stamp[p] <= file.mtime /\ refresh[p].mtime <= file.mtime
  /\ ~up[p] => stamp[p] = 0 /\ refresh[p].phase = "idle" /\ tomb[p] = {} /\ due[p] = {}
  /\ \A i \in tomb[p] \cup due[p] : Seen(p, i)
  /\ save[p] \in {"snapped", "written", "renamed"} =>
       \A i \in Ids : snap[p][i] # 0 => Seen(p, i)
  /\ save[p] = "renamed" => file.nodes = snap[p]
  /\ refresh[p].phase = "scanned" /\ refresh[p].mtime = file.mtime =>
       \A i \in Ids : file.nodes[i] # 0 => Seen(p, i) \/ refresh[p].adopt[i] # 0
  /\ stamp[p] = file.mtime /\ file.mtime # 0 =>
       \A i \in Ids : file.nodes[i] # 0 => Seen(p, i)

IInv ==
  /\ TypeOK
  /\ FileInv
  /\ \A p \in Procs : LockInvOf(p) /\ MergeInvOf(p) /\ StampInvOf(p)
\* A step that leaves alone the files and everything of p leaves p's invariants.
LEMMA Frame ==
  ASSUME NEW p \in Procs, MergeInvOf(p), StampInvOf(p),
         UNCHANGED file, tmp' = tmp \/ save[p] # "written",
         up'[p] = up[p], mem'[p] = mem[p], tomb'[p] = tomb[p], due'[p] = due[p], stamp'[p] = stamp[p],
         save'[p] = save[p], adopt'[p] = adopt[p], snap'[p] = snap[p],
         refresh'[p] = refresh[p], dropped'[p] = dropped[p]
  PROVE  MergeInvOf(p)' /\ StampInvOf(p)'
<1>1. MergeInvOf(p)'
  BY DEF MergeInvOf, TooNew
<1>2. StampInvOf(p)'
  BY DEF StampInvOf, Seen
<1> QED
  BY <1>1, <1>2

LEMMA InitIInv == Init => IInv
<1> SUFFICES ASSUME Init PROVE IInv
  OBVIOUS
<1>1. TypeOK /\ FileInv
  BY InitType DEF Init, FileInv
<1>2. ASSUME NEW p \in Procs PROVE LockInvOf(p) /\ MergeInvOf(p) /\ StampInvOf(p)
  BY ProcAssumption DEF Init, LockInvOf, MergeInvOf, StampInvOf, NoRefresh
<1> QED
  BY <1>1, <1>2 DEF IInv

-----------------------------------------------------------------------------
\* Steps outside save_to_disk.
LEMMA OutsideStep ==
  ASSUME IInv, TypeOK', NEW q \in Procs,
         \/ \E i \in Ids : Edit(i) \/ Delete(i)
         \/ Start(q)
         \/ Crash(q)
         \/ Handler(q)
  PROVE  IInv'
<1> USE ProcAssumption
<1>0. TypeOK /\ FileInv /\ \A p \in Procs : LockInvOf(p) /\ MergeInvOf(p) /\ StampInvOf(p)
  BY DEF IInv
<1>a. UNCHANGED <<file, tmp>>
  BY DEF Edit, Delete, Start, Crash, Handler, WalkFetch, WalkIngest, Invalidate, Entomb, MarkDirty,
         RefreshStat, RefreshScan, RefreshFinish, Unrefreshed
<1>b. FileInv'
  BY <1>0, <1>a DEF FileInv
<1>1. ASSUME NEW i \in Ids, Edit(i) \/ Delete(i), NEW p \in Procs
      PROVE  LockInvOf(p)' /\ MergeInvOf(p)' /\ StampInvOf(p)'
  <2>1. UNCHANGED <<lock, procVars>>
    BY <1>1 DEF Edit, Delete
  <2> QED
    BY <1>0, <1>a, <2>1, Frame DEF procVars, LockInvOf
<1>2. ASSUME NEW p \in Procs, p # q, Start(q) \/ Crash(q) \/ Handler(q)
      PROVE  LockInvOf(p)' /\ MergeInvOf(p)' /\ StampInvOf(p)'
  <2>1. /\ up'[p] = up[p] /\ mem'[p] = mem[p] /\ tomb'[p] = tomb[p] /\ due'[p] = due[p] /\ stamp'[p] = stamp[p]
        /\ save'[p] = save[p] /\ adopt'[p] = adopt[p] /\ snap'[p] = snap[p]
        /\ refresh'[p] = refresh[p] /\ dropped'[p] = dropped[p]
    <3>1. CASE Start(q)
      BY <1>0, <1>2, <3>1 DEF TypeOK, Start
    <3>2. CASE Crash(q)
      BY <1>0, <1>2, <3>2 DEF TypeOK, Crash
    <3>3. CASE \E i \in Ids : WalkFetch(q, i) \/ Invalidate(q, i) \/ Entomb(q, i) \/ MarkDirty(q, i)
      BY <1>0, <1>2, <3>3 DEF TypeOK, WalkFetch, Invalidate, Entomb, MarkDirty
    <3>4. CASE WalkIngest(q)
      BY <1>0, <1>2, <3>4 DEF TypeOK, WalkIngest
    <3>5. CASE RefreshStat(q) \/ RefreshScan(q) \/ RefreshFinish(q)
      BY <1>0, <1>2, <3>5 DEF TypeOK, RefreshStat, RefreshScan, RefreshFinish, Unrefreshed
    <3> QED
      BY <1>2, <3>1, <3>2, <3>3, <3>4, <3>5 DEF Handler
  <2>2. lock' = p <=> lock = p
    BY <1>2 DEF Start, Crash, Handler, WalkFetch, WalkIngest, Invalidate, Entomb, MarkDirty,
               RefreshStat, RefreshScan, RefreshFinish, Unrefreshed
  <2> QED
    BY <1>0, <1>a, <2>1, <2>2, Frame DEF LockInvOf
<1>3. ASSUME Start(q) PROVE LockInvOf(q)' /\ MergeInvOf(q)' /\ StampInvOf(q)'
  <2>1. save[q] = "idle" /\ tomb[q] = {} /\ due[q] = {} /\ stamp[q] = 0 /\ refresh[q].phase = "idle"
    BY <1>0, <1>3 DEF Start, LockInvOf, StampInvOf
  <2>2. /\ save'[q] = "idle" /\ tomb'[q] = {} /\ due'[q] = {} /\ stamp'[q] = 0 /\ refresh'[q] = refresh[q]
        /\ lock' = lock /\ up'[q]
    BY <1>0, <1>3, <2>1 DEF Start, TypeOK
  <2> QED
    BY <1>0, <1>a, <2>1, <2>2 DEF LockInvOf, MergeInvOf, StampInvOf
<1>4. ASSUME Crash(q) PROVE LockInvOf(q)' /\ MergeInvOf(q)' /\ StampInvOf(q)'
  <2>1. /\ save'[q] = "idle" /\ tomb'[q] = {} /\ due'[q] = {} /\ stamp'[q] = 0 /\ refresh'[q] = NoRefresh
        /\ lock' # q
    BY <1>0, <1>4 DEF Crash, TypeOK
  <2>2. file'.mtime \in Nat
    BY <1>0, <1>a DEF TypeOK, Files
  <2> QED
    BY <2>1, <2>2 DEF LockInvOf, MergeInvOf, StampInvOf, NoRefresh
<1>5. ASSUME NEW i \in Ids, WalkFetch(q, i)
      PROVE  LockInvOf(q)' /\ MergeInvOf(q)' /\ StampInvOf(q)'
  BY <1>0, <1>a, <1>5, Frame DEF WalkFetch, LockInvOf
<1>6. ASSUME WalkIngest(q) PROVE LockInvOf(q)' /\ MergeInvOf(q)' /\ StampInvOf(q)'
  <2>1. mem'[q] = Ingested(mem[q], walk[q]) /\ dropped'[q] = {i \in dropped[q] : walk[q][i] = 0}
    BY <1>0, <1>6 DEF WalkIngest, TypeOK
  <2>2. \A i \in Ids : mem[q][i] # 0 => mem'[q][i] # 0
    BY <2>1 DEF Ingested
  <2>3. \A i \in Ids : Seen(q, i) => Seen(q, i)'
    BY <2>1 DEF Seen, Ingested
  <2>4. UNCHANGED <<lock, up, tomb, due, stamp, save, adopt, snap, refresh>>
    BY <1>6 DEF WalkIngest
  <2>5. tomb[q] \cup due[q] \subseteq Ids
    BY <1>0 DEF TypeOK
  <2>6. MergeInvOf(q)'
    BY <1>0, <1>a, <2>2, <2>4 DEF MergeInvOf, TooNew
  <2>7. StampInvOf(q)'
    BY <1>0, <1>a, <2>3, <2>4, <2>5 DEF StampInvOf
  <2> QED
    BY <1>0, <2>4, <2>6, <2>7 DEF LockInvOf
<1>7. ASSUME NEW i \in Ids, Invalidate(q, i)
      PROVE  LockInvOf(q)' /\ MergeInvOf(q)' /\ StampInvOf(q)'
  <2>1. \A j \in Ids : mem'[q][j] = IF j = i THEN 0 ELSE mem[q][j]
    BY <1>0, <1>7 DEF Invalidate, TypeOK, EntrySets
  <2>2. dropped'[q] = dropped[q] \cup {i}
    BY <1>0, <1>7 DEF Invalidate, TypeOK
  <2>3. due'[q] = (IF mem[q][i] # 0 THEN due[q] \cup {i} ELSE due[q])
    BY <1>0, <1>7 DEF Invalidate, TypeOK
  <2>4. UNCHANGED <<lock, up, tomb, stamp, save, adopt, snap, refresh>> /\ up[q]
    BY <1>7 DEF Invalidate
  <2>5. \A j \in Ids : Seen(q, j) => Seen(q, j)'
    BY <2>1, <2>2 DEF Seen
  <2>6. \A j \in Ids : mem[q][j] # 0 \/ j \in tomb[q] \cup due[q] =>
          mem'[q][j] # 0 \/ j \in tomb'[q] \cup due'[q]
    BY <2>1, <2>3, <2>4
  <2>7. /\ tomb[q] \cup due[q] \subseteq tomb'[q] \cup due'[q]
        /\ tomb'[q] \cup due'[q] \subseteq tomb[q] \cup due[q] \cup {i}
        /\ tomb[q] \cup due[q] \subseteq Ids
    BY <1>0, <2>3, <2>4 DEF TypeOK
  <2>8. MergeInvOf(q)'
    BY <1>0, <1>a, <2>4, <2>6, <2>7 DEF MergeInvOf, TooNew
  <2>9. \A j \in tomb'[q] \cup due'[q] : Seen(q, j)'
    BY <1>0, <2>2, <2>5, <2>7 DEF StampInvOf, Seen
  <2>10. StampInvOf(q)'
    BY <1>0, <1>a, <2>4, <2>5, <2>9 DEF StampInvOf
  <2> QED
    BY <1>0, <2>4, <2>8, <2>10 DEF LockInvOf
<1>7a. ASSUME NEW i \in Ids, Entomb(q, i)
       PROVE  LockInvOf(q)' /\ MergeInvOf(q)' /\ StampInvOf(q)'
  <2>1. UNCHANGED <<lock, up, mem, stamp, save, adopt, snap, refresh, dropped>>
    BY <1>7a DEF Entomb
  <2>2. tomb'[q] = tomb[q] \cup {i} /\ due'[q] = due[q] \ {i} /\ i \in due[q]
    BY <1>0, <1>7a DEF Entomb, TypeOK
  <2>3. tomb'[q] \cup due'[q] = tomb[q] \cup due[q]
    BY <2>2
  <2>4. MergeInvOf(q)'
    BY <1>0, <1>a, <2>1, <2>3 DEF MergeInvOf, TooNew
  <2>5. up[q]
    BY <1>0, <2>2 DEF StampInvOf
  <2>6. StampInvOf(q)'
    BY <1>0, <1>a, <2>1, <2>3, <2>5 DEF StampInvOf, Seen
  <2> QED
    BY <1>0, <2>1, <2>4, <2>6 DEF LockInvOf
<1>7b. ASSUME NEW i \in Ids, MarkDirty(q, i)
       PROVE  LockInvOf(q)' /\ MergeInvOf(q)' /\ StampInvOf(q)'
  BY <1>0, <1>a, <1>7b, Frame DEF MarkDirty, LockInvOf
<1>8. ASSUME RefreshStat(q) PROVE LockInvOf(q)' /\ MergeInvOf(q)' /\ StampInvOf(q)'
  <2>1. refresh'[q].phase = "stat" /\ refresh'[q].mtime = file.mtime
    BY <1>0, <1>8 DEF RefreshStat, TypeOK, NoRefresh
  <2>2. UNCHANGED <<lock, up, mem, tomb, due, stamp, save, adopt, snap, dropped>> /\ up[q]
    BY <1>8 DEF RefreshStat, Unrefreshed
  <2>3. file.mtime \in Nat
    BY <1>0 DEF TypeOK, Files
  <2> QED
    BY <1>0, <1>a, <2>1, <2>2, <2>3 DEF LockInvOf, MergeInvOf, StampInvOf, Seen, TooNew
<1>9. ASSUME RefreshScan(q) PROVE LockInvOf(q)' /\ MergeInvOf(q)' /\ StampInvOf(q)'
  <2>1. UNCHANGED <<lock, up, mem, tomb, due, stamp, save, adopt, snap, dropped>>
    BY <1>9 DEF RefreshScan, Unrefreshed
  <2>2. refresh[q].phase = "stat" /\ up[q]
    BY <1>0, <1>9 DEF RefreshScan, StampInvOf
  <2>3. CASE TooNew(q)
    <3>1. refresh'[q] = NoRefresh
      BY <1>0, <1>9, <2>3 DEF RefreshScan, TypeOK
    <3>2. file.mtime \in Nat
      BY <1>0 DEF TypeOK, Files
    <3> QED
      BY <1>0, <1>a, <2>1, <2>2, <3>1, <3>2 DEF LockInvOf, MergeInvOf, StampInvOf, Seen, NoRefresh, TooNew
  <2>4. CASE ~TooNew(q)
    <3>1. refresh'[q] = [phase |-> "scanned", mtime |-> refresh[q].mtime, adopt |-> Adoptable(q)]
      BY <1>0, <1>9, <2>4 DEF RefreshScan, TypeOK
    <3>2. \A i \in Ids : file.nodes[i] # 0 => Seen(q, i) \/ Adoptable(q)[i] # 0
      <4> SUFFICES ASSUME NEW i \in Ids, file.nodes[i] # 0, ~Seen(q, i)
                   PROVE  Adoptable(q)[i] # 0
        OBVIOUS
      <4>1. file.kind = "ok"
        BY <1>0 DEF FileInv, NoEntries
      <4>2. Readable(q)
        BY <1>0, <2>4, <4>1, SchemaAssumption DEF Readable, TooNew, TypeOK, Files
      <4>3. mem[q][i] = 0 /\ i \notin tomb[q] \cup due[q]
        BY <1>0 DEF StampInvOf, Seen
      <4> QED
        BY <4>2, <4>3 DEF Adoptable
    <3> QED
      BY <1>0, <1>a, <2>1, <2>2, <3>1, <3>2 DEF LockInvOf, MergeInvOf, StampInvOf, Seen, TooNew
  <2> QED
    BY <2>3, <2>4
<1>10. ASSUME RefreshFinish(q) PROVE LockInvOf(q)' /\ MergeInvOf(q)' /\ StampInvOf(q)'
  <2>1. /\ mem'[q] = Ingested(mem[q], refresh[q].adopt)
        /\ stamp'[q] = refresh[q].mtime /\ refresh'[q] = NoRefresh
    BY <1>0, <1>10 DEF RefreshFinish, TypeOK
  <2>2. UNCHANGED <<lock, up, tomb, due, save, adopt, snap, dropped>> /\ up[q]
    BY <1>0, <1>10 DEF RefreshFinish, Unrefreshed, StampInvOf
  <2>3. \A i \in Ids : mem[q][i] # 0 => mem'[q][i] # 0
    BY <2>1 DEF Ingested
  <2>4. \A i \in Ids : Seen(q, i) \/ refresh[q].adopt[i] # 0 => Seen(q, i)'
    BY <2>1, <2>2 DEF Seen, Ingested
  <2>5. tomb[q] \cup due[q] \subseteq Ids /\ file.mtime \in Nat
    BY <1>0 DEF TypeOK, Files
  <2>6. MergeInvOf(q)'
    BY <1>0, <1>a, <2>2, <2>3 DEF MergeInvOf, TooNew
  <2>7. refresh[q].phase = "scanned"
    BY <1>10 DEF RefreshFinish
  <2>8. StampInvOf(q)'
    BY <1>0, <1>a, <2>1, <2>2, <2>4, <2>5, <2>7 DEF StampInvOf, NoRefresh
  <2> QED
    BY <1>0, <2>2, <2>6, <2>8 DEF LockInvOf
<1>11. ASSUME Handler(q) PROVE LockInvOf(q)' /\ MergeInvOf(q)' /\ StampInvOf(q)'
  BY <1>5, <1>6, <1>7, <1>7a, <1>7b, <1>8, <1>9, <1>10, <1>11, Zenon DEF Handler
<1>12. ASSUME NEW p \in Procs PROVE LockInvOf(p)' /\ MergeInvOf(p)' /\ StampInvOf(p)'
  BY <1>1, <1>2, <1>3, <1>4, <1>11
<1> QED
  BY <1>b, <1>12 DEF IInv

-----------------------------------------------------------------------------
\* Steps of save_to_disk by q: what they leave of another process p.
LEMMA OthersDuringSave ==
  ASSUME IInv, NEW q \in Procs, NEW p \in Procs, p # q, SaveLock(q) \/ SaveStep(q)
  PROVE  /\ up'[p] = up[p] /\ mem'[p] = mem[p] /\ tomb'[p] = tomb[p] /\ due'[p] = due[p] /\ stamp'[p] = stamp[p]
         /\ save'[p] = save[p] /\ adopt'[p] = adopt[p] /\ snap'[p] = snap[p]
         /\ refresh'[p] = refresh[p] /\ dropped'[p] = dropped[p]
         /\ lock' # p /\ save[p] = "idle"
<1> USE ProcAssumption
<1>0. TypeOK /\ LockInvOf(p) /\ LockInvOf(q)
  BY DEF IInv
<1>1. CASE SaveLock(q)
  BY <1>0, <1>1 DEF TypeOK, SaveLock, Unsaved, LockInvOf
<1>2. CASE SaveScan(q) \/ SaveRefused(q)
  BY <1>0, <1>2 DEF TypeOK, SaveScan, SaveRefused, Unsaved, LockInvOf
<1>3. CASE SaveAdopt(q) \/ SaveSnapshot(q)
  BY <1>0, <1>3 DEF TypeOK, SaveAdopt, SaveSnapshot, Unsaved, LockInvOf
<1>4. CASE SaveWriteTmp(q) \/ SaveWriteFails(q)
  BY <1>0, <1>4 DEF TypeOK, SaveWriteTmp, SaveWriteFails, Unsaved, LockInvOf
<1>5. CASE SaveRename(q) \/ SaveClean(q) \/ SaveForget(q)
  BY <1>0, <1>5 DEF TypeOK, SaveRename, SaveClean, SaveForget, Unsaved, LockInvOf
<1> QED
  BY <1>1, <1>2, <1>3, <1>4, <1>5 DEF SaveStep

LEMMA SaveStepInv ==
  ASSUME IInv, TypeOK', NEW q \in Procs, SaveLock(q) \/ SaveStep(q)
  PROVE  IInv'
<1> USE ProcAssumption
<1>0. TypeOK /\ FileInv /\ \A p \in Procs : LockInvOf(p) /\ MergeInvOf(p) /\ StampInvOf(p)
  BY DEF IInv
<1>t. tomb[q] \cup due[q] \subseteq Ids /\ file.mtime \in Nat
  BY <1>0 DEF TypeOK, Files
<1>1. ASSUME SaveLock(q) PROVE LockInvOf(q)' /\ MergeInvOf(q)' /\ StampInvOf(q)'
  <2>1. /\ save'[q] = "locked" /\ lock' = q /\ up'[q]
        /\ UNCHANGED <<file, tmp, up, mem, tomb, due, stamp, adopt, snap, refresh, dropped>>
    BY <1>0, <1>1 DEF SaveLock, Unsaved, TypeOK
  <2> QED
    BY <1>0, <1>t, <2>1 DEF LockInvOf, MergeInvOf, StampInvOf, Seen
<1>2. ASSUME SaveScan(q) PROVE LockInvOf(q)' /\ MergeInvOf(q)' /\ StampInvOf(q)'
  <2>1. /\ save[q] = "locked" /\ save'[q] = "scanned" /\ adopt'[q] = Adoptable(q)
        /\ UNCHANGED <<file, tmp, lock, up, mem, tomb, due, stamp, snap, refresh, dropped>>
    BY <1>0, <1>2 DEF SaveScan, Unsaved, TypeOK
  <2>2. ASSUME NEW i \in Ids, file.nodes[i] # 0, mem[q][i] = 0, i \notin tomb[q] \cup due[q]
        PROVE  Adoptable(q)[i] # 0
    <3>1. file.kind = "ok"
      BY <1>0, <2>2 DEF FileInv, NoEntries
    <3>3. ~TooNew(q)
      BY <1>2 DEF SaveScan
    <3>2. Readable(q)
      BY <1>0, <3>1, <3>3, SchemaAssumption DEF Readable, TooNew, TypeOK, Files
    <3> QED
      BY <2>2, <3>2 DEF Adoptable
  <2>3. MergeInvOf(q)'
    BY <1>2, <2>1, <2>2 DEF MergeInvOf, SaveScan, TooNew
  <2> QED
    BY <1>0, <1>t, <2>1, <2>3 DEF LockInvOf, StampInvOf, Seen
<1>3. ASSUME SaveRefused(q) \/ SaveWriteFails(q) \/ SaveForget(q)
      PROVE  LockInvOf(q)' /\ MergeInvOf(q)' /\ StampInvOf(q)'
  <2>1. /\ save'[q] = "idle" /\ lock' = Free
        /\ tomb'[q] \subseteq tomb[q] /\ due'[q] = due[q]
        /\ UNCHANGED <<file, up, mem, stamp, snap, refresh, dropped>>
    BY <1>0, <1>3 DEF SaveRefused, SaveWriteFails, SaveForget, Unsaved, TypeOK
  <2> QED
    BY <1>0, <1>t, <2>1 DEF LockInvOf, MergeInvOf, StampInvOf, Seen
<1>4. ASSUME SaveAdopt(q) PROVE LockInvOf(q)' /\ MergeInvOf(q)' /\ StampInvOf(q)'
  <2>1. /\ save[q] = "scanned" /\ save'[q] = "merged" /\ mem'[q] = Ingested(mem[q], adopt[q])
        /\ UNCHANGED <<file, tmp, lock, up, tomb, due, stamp, snap, refresh, dropped>>
    BY <1>0, <1>4 DEF SaveAdopt, Unsaved, TypeOK
  <2>2. \A i \in Ids : mem[q][i] # 0 \/ adopt[q][i] # 0 => mem'[q][i] # 0
    BY <2>1 DEF Ingested
  <2>3. MergeInvOf(q)'
    BY <1>0, <2>1, <2>2 DEF MergeInvOf, TooNew
  <2> QED
    BY <1>0, <1>t, <2>1, <2>2, <2>3 DEF LockInvOf, StampInvOf, Seen
<1>5. ASSUME SaveSnapshot(q) PROVE LockInvOf(q)' /\ MergeInvOf(q)' /\ StampInvOf(q)'
  <2>1. /\ save[q] = "merged" /\ save'[q] = "snapped" /\ snap'[q] = Persistable(mem[q])
        /\ UNCHANGED <<file, tmp, lock, up, mem, tomb, due, stamp, refresh, dropped>>
    BY <1>0, <1>5 DEF SaveSnapshot, Unsaved, TypeOK
  <2>2. MergeInvOf(q)'
    BY <1>0, <2>1 DEF MergeInvOf, TooNew, Persistable
  <2>3. \A i \in Ids : snap'[q][i] # 0 => mem[q][i] # 0
    BY <2>1 DEF Persistable
  <2> QED
    BY <1>0, <1>t, <2>1, <2>2, <2>3 DEF LockInvOf, StampInvOf, Seen
<1>6. ASSUME SaveWriteTmp(q) PROVE LockInvOf(q)' /\ MergeInvOf(q)' /\ StampInvOf(q)'
  <2>1. /\ save[q] = "snapped" /\ save'[q] = "written"
        /\ tmp' = [state |-> "whole", nodes |-> snap[q]]
        /\ UNCHANGED <<file, lock, up, mem, tomb, due, stamp, snap, refresh, dropped>>
    BY <1>0, <1>6 DEF SaveWriteTmp, Unsaved, TypeOK
  <2>2. MergeInvOf(q)'
    BY <1>0, <2>1 DEF MergeInvOf, TooNew
  <2> QED
    BY <1>0, <1>t, <2>1, <2>2 DEF LockInvOf, StampInvOf, Seen
<1>7. ASSUME SaveRename(q) PROVE LockInvOf(q)' /\ MergeInvOf(q)' /\ StampInvOf(q)'
  <2>1. /\ save[q] = "written" /\ save'[q] = "renamed"
        /\ UNCHANGED <<lock, up, mem, tomb, due, stamp, snap, refresh, dropped>>
    BY <1>0, <1>7 DEF SaveRename, Unsaved, TypeOK
  <2>2. file'.mtime = file.mtime + 1 /\ file'.nodes = snap[q]
    BY <1>0, <1>7, <2>1 DEF SaveRename, MergeInvOf
  <2>3. stamp[q] \in Nat /\ refresh[q].mtime \in Nat
    BY <1>0 DEF TypeOK, Refreshes
  <2> QED
    BY <1>0, <1>t, <2>1, <2>2, <2>3 DEF LockInvOf, MergeInvOf, StampInvOf, Seen
<1>8. ASSUME SaveClean(q) PROVE LockInvOf(q)' /\ MergeInvOf(q)' /\ StampInvOf(q)'
  <2>1. /\ save[q] = "renamed" /\ save'[q] = "cleaned" /\ stamp'[q] = file.mtime
        /\ UNCHANGED <<file, tmp, lock, up, mem, tomb, due, adopt, snap, refresh, dropped>>
    BY <1>0, <1>8 DEF SaveClean, Unsaved, TypeOK
  <2> QED
    BY <1>0, <1>t, <2>1 DEF LockInvOf, MergeInvOf, StampInvOf, Seen
<1>9. LockInvOf(q)' /\ MergeInvOf(q)' /\ StampInvOf(q)'
  BY <1>1, <1>2, <1>3, <1>4, <1>5, <1>6, <1>7, <1>8, Zenon DEF SaveStep
<1>10. ASSUME NEW p \in Procs, p # q
       PROVE  LockInvOf(p)' /\ MergeInvOf(p)' /\ StampInvOf(p)'
  <2>1. LockInvOf(p)' /\ MergeInvOf(p)'
    BY <1>0, <1>10, OthersDuringSave DEF LockInvOf, MergeInvOf
  <2>2. CASE SaveRename(q)
    <3>1. file'.mtime = file.mtime + 1
      BY <2>2 DEF SaveRename
    <3>2. stamp[p] \in Nat /\ refresh[p].mtime \in Nat
      BY <1>0 DEF TypeOK, Refreshes
    <3> QED
      BY <1>0, <1>10, <1>t, <2>1, <3>1, <3>2, OthersDuringSave DEF StampInvOf, Seen
  <2>3. CASE ~SaveRename(q)
    <3>1. file' = file
      BY <2>3 DEF SaveLock, SaveStep, SaveScan, SaveRefused, SaveAdopt, SaveSnapshot,
                  SaveWriteTmp, SaveWriteFails, SaveClean, SaveForget
    <3> QED
      BY <1>0, <1>10, <2>1, <3>1, OthersDuringSave DEF StampInvOf, Seen
  <2> QED
    BY <2>2, <2>3
<1>11. FileInv'
  <2>1. CASE SaveRename(q)
    BY <1>0, <2>1 DEF SaveRename, MergeInvOf, FileInv, TornTmp
  <2>2. CASE ~SaveRename(q)
    BY <1>0, <2>2 DEF FileInv, SaveLock, SaveStep, SaveScan, SaveRefused, SaveAdopt,
                      SaveSnapshot, SaveWriteTmp, SaveWriteFails, SaveClean, SaveForget
  <2> QED
    BY <2>1, <2>2
<1> QED
  BY <1>9, <1>10, <1>11 DEF IInv

-----------------------------------------------------------------------------
LEMMA StutterInv == ASSUME IInv, UNCHANGED vars PROVE IInv'
<1>1. TypeOK' /\ FileInv'
  BY TypeStutter DEF IInv, vars, FileInv
<1>2. ASSUME NEW p \in Procs PROVE LockInvOf(p)' /\ MergeInvOf(p)' /\ StampInvOf(p)'
  <2>1. LockInvOf(p) /\ MergeInvOf(p) /\ StampInvOf(p)
    BY DEF IInv
  <2>2. LockInvOf(p)'
    BY <2>1 DEF LockInvOf, vars, procVars
  <2> QED
    BY <2>1, <2>2, Frame DEF vars, procVars
<1> QED
  BY <1>1, <1>2 DEF IInv

LEMMA StepIInv == IInv /\ [Next]_vars => IInv'
<1> SUFFICES ASSUME IInv, [Next]_vars PROVE IInv'
  OBVIOUS
<1>1. TypeOK'
  BY TypeStep DEF IInv
<1>2. ASSUME NEW i \in Ids, Edit(i) \/ Delete(i), NEW p \in Procs PROVE IInv'
  BY <1>1, <1>2, OutsideStep
<1>3. ASSUME NEW p \in Procs, Start(p) \/ Crash(p) \/ Handler(p) PROVE IInv'
  BY <1>1, <1>3, OutsideStep
<1>4. ASSUME NEW p \in Procs, SaveLock(p) \/ SaveStep(p) PROVE IInv'
  BY <1>1, <1>4, SaveStepInv
<1>5. CASE Procs = {}
  <2>1. FileInv' \/ ~\E i \in Ids : Edit(i) \/ Delete(i)
    BY DEF IInv, FileInv, Edit, Delete
  <2> QED
    BY <1>1, <1>5, <2>1, StutterInv DEF Next, IInv
<1> QED
  BY <1>2, <1>3, <1>4, <1>5, StutterInv DEF Next

(* The strengthening holds in every reachable state.                       *)
THEOREM StoreInvariant == Spec => []IInv
BY InitIInv, StepIInv, PTL DEF Spec

(* The mtime guard of the refresh skips nothing unread.                    *)
THEOREM StampsAreHonest == Spec => []StampMeansMerged
<1>1. IInv => StampMeansMerged
  BY DEF IInv, StampInvOf, Seen, StampMeansMerged
<1> QED
  BY StoreInvariant, <1>1, PTL

-----------------------------------------------------------------------------
LEMMA FileChange ==
  ASSUME IInv, [Next]_vars, file' # file
  PROVE  \E p \in Procs : lock = p /\ SaveRename(p) /\ LockInvOf(p) /\ MergeInvOf(p)
<1>1. ASSUME NEW p \in Procs, Start(p) \/ Crash(p) \/ Handler(p) PROVE FALSE
  BY <1>1 DEF Start, Crash, Handler, WalkFetch, WalkIngest, Invalidate, Entomb, MarkDirty,
              RefreshStat, RefreshScan, RefreshFinish, Unrefreshed
<1>2. ASSUME NEW p \in Procs, SaveLock(p) \/ SaveStep(p) PROVE SaveRename(p)
  BY <1>2 DEF SaveLock, SaveStep, SaveScan, SaveRefused, SaveAdopt, SaveSnapshot,
              SaveWriteTmp, SaveWriteFails, SaveClean, SaveForget
<1>3. ~UNCHANGED vars /\ ~\E i \in Ids : Edit(i) \/ Delete(i)
  BY DEF vars, Edit, Delete
<1>4. PICK p \in Procs : SaveRename(p)
  BY <1>1, <1>2, <1>3 DEF Next
<1> QED
  BY <1>4 DEF IInv, LockInvOf, SaveRename

(* No save removes another writer's entries from the file.                 *)
THEOREM WritersCompose == Spec => NoClobber
<1>1. IInv /\ [Next]_vars =>
        [\A i \in Ids : file.nodes[i] # 0 /\ file'.nodes[i] = 0 =>
           i \in Excluded \/ (lock # Free /\ i \in tomb[lock] \cup due[lock])]_vars
  <2> SUFFICES ASSUME IInv, [Next]_vars, NEW i \in Ids,
                      file.nodes[i] # 0, file'.nodes[i] = 0
               PROVE  i \in Excluded \/ (lock # Free /\ i \in tomb[lock] \cup due[lock])
    OBVIOUS
  <2>1. PICK p \in Procs : lock = p /\ SaveRename(p) /\ LockInvOf(p) /\ MergeInvOf(p)
    BY FileChange
  <2>2. file'.nodes = snap[p]
    BY <2>1 DEF SaveRename, MergeInvOf
  <2> QED
    BY <2>1, <2>2, ProcAssumption DEF MergeInvOf, SaveRename
<1> QED
  BY StoreInvariant, <1>1, PTL DEF Spec, NoClobber

(* An older binary never replaces a newer binary's file.                   *)
THEOREM SchemaNeverGoesBack == Spec => NoDowngrade
<1>1. IInv /\ [Next]_vars =>
        [file.kind = "ok" => file'.kind = "ok" /\ file'.schema >= file.schema]_vars
  <2> SUFFICES ASSUME IInv, [Next]_vars, file.kind = "ok"
               PROVE  file'.kind = "ok" /\ file'.schema >= file.schema
    OBVIOUS
  <2>0. file.schema \in Nat
    BY DEF IInv, TypeOK, Files
  <2>1. CASE file' = file
    BY <2>0, <2>1
  <2>2. CASE file' # file
    <3>1. PICK p \in Procs : lock = p /\ SaveRename(p) /\ LockInvOf(p) /\ MergeInvOf(p)
      BY <2>2, FileChange
    <3>2. ~TooNew(p)
      BY <3>1 DEF SaveRename, MergeInvOf
    <3>3. tmp # TornTmp
      BY <3>1 DEF SaveRename, MergeInvOf, TornTmp
    <3>4. file'.kind = "ok" /\ file'.schema = Schema[p]
      BY <3>1, <3>3 DEF SaveRename
    <3> QED
      BY <2>0, <3>2, <3>4, SchemaAssumption DEF TooNew
  <2> QED
    BY <2>1, <2>2
<1> QED
  BY StoreInvariant, <1>1, PTL DEF Spec, NoDowngrade

(* Every rename publishes what its own process serialised, whole.          *)
THEOREM RenamesPublishSnapshots == Spec => PublishesOwnSnapshot
<1>1. IInv /\ [Next]_vars =>
        [file' # file =>
           \E p \in Procs : save[p] = "written" /\ file'.kind = "ok" /\ file'.nodes = snap[p]]_vars
  <2> SUFFICES ASSUME IInv, [Next]_vars, file' # file
               PROVE  \E p \in Procs :
                        save[p] = "written" /\ file'.kind = "ok" /\ file'.nodes = snap[p]
    OBVIOUS
  <2>1. PICK p \in Procs : lock = p /\ SaveRename(p) /\ LockInvOf(p) /\ MergeInvOf(p)
    BY FileChange
  <2> QED
    BY <2>1 DEF SaveRename, MergeInvOf, TornTmp
<1> QED
  BY StoreInvariant, <1>1, PTL DEF Spec, PublishesOwnSnapshot
-----------------------------------------------------------------------------
(* Deletions.  Whatever is on its way from the file into p's memory, or    *)
(* from p's memory into the file, goes without the ids p has settled.      *)

SettledInvOf(p) ==
  /\ settled[p] \subseteq tomb[p]
  /\ \A i \in settled[p] :
       /\ mem[p][i] = 0
       /\ save[p] = "scanned" => adopt[p][i] = 0
       /\ refresh[p].phase = "scanned" => refresh[p].adopt[i] = 0
       /\ save[p] \in {"snapped", "written"} => snap[p][i] = 0
       /\ save[p] \in {"renamed", "cleaned"} => file.nodes[i] = 0
       /\ save[p] # "cleaned" => dirty[p] \/ i \in marking[p]

\* Nothing of p changes, and the file only while p is not about to clean up.
LEMMA SettledFrame ==
  ASSUME NEW p \in Procs, SettledInvOf(p),
         file' = file \/ save[p] \notin {"renamed", "cleaned"},
         mem'[p] = mem[p], dirty'[p] = dirty[p], tomb'[p] = tomb[p],
         marking'[p] = marking[p], settled'[p] = settled[p], save'[p] = save[p],
         adopt'[p] = adopt[p], snap'[p] = snap[p], refresh'[p] = refresh[p]
  PROVE  SettledInvOf(p)'
BY DEF SettledInvOf

LEMMA SettledOthers ==
  ASSUME IInv, NEW q \in Procs, NEW p \in Procs, p # q, SettledInvOf(p),
         Start(q) \/ Crash(q) \/ Handler(q) \/ SaveLock(q) \/ SaveStep(q)
  PROVE  SettledInvOf(p)'
<1> USE ProcAssumption
<1>0. TypeOK /\ LockInvOf(p) /\ LockInvOf(q)
  BY DEF IInv
<1> DEFINE Kept ==
      /\ mem'[p] = mem[p] /\ dirty'[p] = dirty[p] /\ tomb'[p] = tomb[p]
      /\ marking'[p] = marking[p] /\ settled'[p] = settled[p] /\ save'[p] = save[p]
      /\ adopt'[p] = adopt[p] /\ snap'[p] = snap[p] /\ refresh'[p] = refresh[p]
      /\ file' = file \/ save[p] = "idle"
<1>1. CASE Start(q) \/ Crash(q)
  <2>1. Kept
    BY <1>0, <1>1 DEF TypeOK, Start, Crash
  <2> QED
    BY <2>1, SettledFrame
<1>2. CASE \E i \in Ids : WalkFetch(q, i) \/ Invalidate(q, i) \/ Entomb(q, i) \/ MarkDirty(q, i)
  <2>1. Kept
    BY <1>0, <1>2 DEF TypeOK, WalkFetch, Invalidate, Entomb, MarkDirty
  <2> QED
    BY <2>1, SettledFrame
<1>3. CASE WalkIngest(q)
  <2>1. Kept
    BY <1>0, <1>3 DEF TypeOK, WalkIngest
  <2> QED
    BY <2>1, SettledFrame
<1>4. CASE RefreshStat(q) \/ RefreshScan(q) \/ RefreshFinish(q)
  <2>1. Kept
    BY <1>0, <1>4 DEF TypeOK, RefreshStat, RefreshScan, RefreshFinish, Unrefreshed
  <2> QED
    BY <2>1, SettledFrame
<1>5. CASE SaveLock(q) \/ SaveScan(q) \/ SaveRefused(q)
  <2>1. Kept
    BY <1>0, <1>5 DEF TypeOK, SaveLock, SaveScan, SaveRefused, Unsaved
  <2> QED
    BY <2>1, SettledFrame
<1>6. CASE SaveAdopt(q) \/ SaveSnapshot(q)
  <2>1. Kept
    BY <1>0, <1>6 DEF TypeOK, SaveAdopt, SaveSnapshot, Unsaved
  <2> QED
    BY <2>1, SettledFrame
<1>7. CASE SaveWriteTmp(q) \/ SaveWriteFails(q)
  <2>1. Kept
    BY <1>0, <1>7 DEF TypeOK, SaveWriteTmp, SaveWriteFails, Unsaved
  <2> QED
    BY <2>1, SettledFrame
<1>8. CASE SaveRename(q) \/ SaveClean(q) \/ SaveForget(q)
  <2>1. save[p] = "idle"
    BY <1>0, <1>8 DEF LockInvOf, SaveRename, SaveClean, SaveForget
  <2>2. Kept
    BY <1>0, <1>8, <2>1 DEF TypeOK, SaveRename, SaveClean, SaveForget, Unsaved
  <2> QED
    BY <2>1, <2>2, SettledFrame
<1> QED
  BY <1>1, <1>2, <1>3, <1>4, <1>5, <1>6, <1>7, <1>8 DEF Handler, SaveStep

LEMMA SettledLife ==
  ASSUME IInv, NEW q \in Procs, SettledInvOf(q), Start(q) \/ Crash(q)
  PROVE  SettledInvOf(q)'
<1>0. TypeOK /\ StampInvOf(q)
  BY DEF IInv
<1>1. settled'[q] = {}
  <2>1. CASE Start(q)
    BY <1>0, <2>1 DEF Start, StampInvOf, SettledInvOf
  <2>2. CASE Crash(q)
    BY <1>0, <2>2 DEF Crash, TypeOK
  <2> QED
    BY <2>1, <2>2
<1> QED
  BY <1>1 DEF SettledInvOf

LEMMA SettledHandler ==
  ASSUME IInv, NEW q \in Procs, SettledInvOf(q), Handler(q)
  PROVE  SettledInvOf(q)'
<1>0. TypeOK
  BY DEF IInv
<1>a. settled[q] \subseteq Ids
  BY <1>0 DEF TypeOK
<1>1. ASSUME NEW i \in Ids, WalkFetch(q, i) PROVE SettledInvOf(q)'
  BY <1>1, SettledFrame DEF WalkFetch
<1>2. ASSUME WalkIngest(q) PROVE SettledInvOf(q)'
  <2>1. /\ mem'[q] = Ingested(mem[q], walk[q])
        /\ settled'[q] = {i \in settled[q] : walk[q][i] = 0}
        /\ dirty[q] => dirty'[q]
    BY <1>0, <1>2 DEF WalkIngest, TypeOK
  <2>2. UNCHANGED <<file, tomb, marking, save, adopt, snap, refresh>>
    BY <1>2 DEF WalkIngest
  <2>3. \A i \in settled'[q] : i \in settled[q] /\ mem'[q][i] = mem[q][i]
    BY <1>a, <2>1 DEF Ingested
  <2> QED
    BY <2>1, <2>2, <2>3 DEF SettledInvOf
<1>3. ASSUME NEW i \in Ids, Invalidate(q, i) PROVE SettledInvOf(q)'
  <2>1. \A j \in Ids : mem'[q][j] = IF j = i THEN 0 ELSE mem[q][j]
    BY <1>0, <1>3 DEF Invalidate, TypeOK, EntrySets
  <2>2. UNCHANGED <<file, dirty, tomb, marking, settled, save, adopt, snap, refresh>>
    BY <1>3 DEF Invalidate
  <2> QED
    BY <1>a, <2>1, <2>2 DEF SettledInvOf
<1>4. ASSUME NEW i \in Ids, Entomb(q, i) PROVE SettledInvOf(q)'
  <2>1. UNCHANGED <<file, mem, dirty, save, adopt, snap, refresh>>
    BY <1>4 DEF Entomb
  <2>2. tomb'[q] = tomb[q] \cup {i} /\ marking'[q] = marking[q] \cup {i}
    BY <1>0, <1>4 DEF Entomb, TypeOK
  <2>3. CASE NoneUnderWay(q) /\ mem[q][i] = 0
    <3>1. settled'[q] = settled[q] \cup {i}
      BY <1>0, <1>4, <2>3 DEF Entomb, TypeOK
    <3> QED
      BY <2>1, <2>2, <2>3, <3>1 DEF SettledInvOf, NoneUnderWay
  <2>4. CASE ~(NoneUnderWay(q) /\ mem[q][i] = 0)
    <3>1. settled' = settled
      BY <1>4, <2>4 DEF Entomb
    <3> QED
      BY <2>1, <2>2, <3>1 DEF SettledInvOf
  <2> QED
    BY <2>3, <2>4
<1>5. ASSUME NEW i \in Ids, MarkDirty(q, i) PROVE SettledInvOf(q)'
  <2>1. UNCHANGED <<file, mem, tomb, settled, save, adopt, snap, refresh>> /\ dirty'[q]
    BY <1>0, <1>5 DEF MarkDirty, TypeOK
  <2> QED
    BY <2>1 DEF SettledInvOf
<1>6. ASSUME RefreshStat(q) PROVE SettledInvOf(q)'
  <2>1. refresh'[q].phase = "stat"
    BY <1>0, <1>6 DEF RefreshStat, TypeOK, NoRefresh
  <2>2. UNCHANGED <<file, mem, dirty, tomb, marking, settled, save, adopt, snap>>
    BY <1>6 DEF RefreshStat, Unrefreshed
  <2> QED
    BY <2>1, <2>2 DEF SettledInvOf
<1>7. ASSUME RefreshScan(q) PROVE SettledInvOf(q)'
  <2>1. UNCHANGED <<file, mem, dirty, tomb, marking, settled, save, adopt, snap>>
    BY <1>7 DEF RefreshScan, Unrefreshed
  <2>2. refresh'[q].phase = "scanned" => refresh'[q].adopt = Adoptable(q)
    BY <1>0, <1>7 DEF RefreshScan, TypeOK, NoRefresh
  <2>3. \A i \in tomb[q] : i \in Ids => Adoptable(q)[i] = 0
    BY DEF Adoptable
  <2> QED
    BY <1>a, <2>1, <2>2, <2>3 DEF SettledInvOf
<1>8. ASSUME RefreshFinish(q) PROVE SettledInvOf(q)'
  <2>1. /\ mem'[q] = Ingested(mem[q], refresh[q].adopt)
        /\ dirty[q] => dirty'[q]
        /\ refresh'[q].phase = "idle" /\ refresh[q].phase = "scanned"
    BY <1>0, <1>8 DEF RefreshFinish, TypeOK, NoRefresh
  <2>2. UNCHANGED <<file, tomb, marking, settled, save, adopt, snap>>
    BY <1>8 DEF RefreshFinish, Unrefreshed
  <2>3. \A i \in settled[q] : mem'[q][i] = 0
    BY <1>a, <2>1 DEF SettledInvOf, Ingested
  <2> QED
    BY <2>1, <2>2, <2>3 DEF SettledInvOf
<1> QED
  BY <1>1, <1>2, <1>3, <1>4, <1>5, <1>6, <1>7, <1>8, Zenon DEF Handler

LEMMA SettledSave ==
  ASSUME IInv, NEW q \in Procs, SettledInvOf(q), SaveLock(q) \/ SaveStep(q)
  PROVE  SettledInvOf(q)'
<1>0. TypeOK /\ MergeInvOf(q) /\ StampInvOf(q)
  BY DEF IInv
<1>a. settled[q] \subseteq Ids
  BY <1>0 DEF TypeOK
<1>1. ASSUME SaveLock(q) \/ SaveRefused(q) PROVE SettledInvOf(q)'
  <2>1. UNCHANGED <<file, mem, dirty, tomb, marking, settled, adopt, snap, refresh>>
        /\ save'[q] \in {"idle", "locked"}
        /\ save[q] # "cleaned"
    BY <1>0, <1>1 DEF SaveLock, SaveRefused, Unsaved, TypeOK
  <2> QED
    BY <2>1 DEF SettledInvOf
<1>2. ASSUME SaveScan(q) PROVE SettledInvOf(q)'
  <2>1. UNCHANGED <<file, mem, dirty, tomb, marking, settled, snap, refresh>>
        /\ save[q] = "locked" /\ save'[q] = "scanned" /\ adopt'[q] = Adoptable(q)
    BY <1>0, <1>2 DEF SaveScan, Unsaved, TypeOK
  <2>2. \A i \in tomb[q] : i \in Ids => Adoptable(q)[i] = 0
    BY DEF Adoptable
  <2> QED
    BY <1>a, <2>1, <2>2 DEF SettledInvOf
<1>3. ASSUME SaveAdopt(q) PROVE SettledInvOf(q)'
  <2>1. UNCHANGED <<file, tomb, marking, settled, snap, refresh>>
        /\ save[q] = "scanned" /\ save'[q] = "merged"
        /\ mem'[q] = Ingested(mem[q], adopt[q]) /\ (dirty[q] => dirty'[q])
    BY <1>0, <1>3 DEF SaveAdopt, Unsaved, TypeOK
  <2>2. \A i \in settled[q] : mem'[q][i] = 0
    BY <1>a, <2>1 DEF SettledInvOf, Ingested
  <2> QED
    BY <2>1, <2>2 DEF SettledInvOf
<1>4. ASSUME SaveSnapshot(q) PROVE SettledInvOf(q)'
  <2>1. UNCHANGED <<file, mem, dirty, tomb, marking, settled, adopt, refresh>>
        /\ save[q] = "merged" /\ save'[q] = "snapped" /\ snap'[q] = Persistable(mem[q])
    BY <1>0, <1>4 DEF SaveSnapshot, Unsaved, TypeOK
  <2>2. \A i \in settled[q] : snap'[q][i] = 0
    BY <1>a, <2>1 DEF SettledInvOf, Persistable
  <2> QED
    BY <2>1, <2>2 DEF SettledInvOf
<1>5. ASSUME SaveWriteTmp(q) \/ SaveWriteFails(q) PROVE SettledInvOf(q)'
  <2>1. UNCHANGED <<file, mem, dirty, tomb, marking, settled, adopt, snap, refresh>>
        /\ save[q] = "snapped" /\ save'[q] \in {"written", "idle"}
    BY <1>0, <1>5 DEF SaveWriteTmp, SaveWriteFails, Unsaved, TypeOK
  <2> QED
    BY <2>1 DEF SettledInvOf
<1>6. ASSUME SaveRename(q) PROVE SettledInvOf(q)'
  <2>1. UNCHANGED <<mem, dirty, tomb, marking, settled, adopt, snap, refresh>>
        /\ save[q] = "written" /\ save'[q] = "renamed"
    BY <1>0, <1>6 DEF SaveRename, Unsaved, TypeOK
  <2>2. file'.nodes = snap[q]
    BY <1>0, <1>6, <2>1 DEF SaveRename, MergeInvOf
  <2> QED
    BY <2>1, <2>2 DEF SettledInvOf
<1>7. ASSUME SaveClean(q) PROVE SettledInvOf(q)'
  <2>1. UNCHANGED <<file, mem, tomb, marking, settled, adopt, snap, refresh>>
        /\ save[q] = "renamed" /\ save'[q] = "cleaned"
    BY <1>0, <1>7 DEF SaveClean, Unsaved, TypeOK
  <2> QED
    BY <2>1 DEF SettledInvOf
<1>8. ASSUME SaveForget(q) PROVE SettledInvOf(q)'
  <2>1. settled'[q] = {}
    BY <1>0, <1>8 DEF SaveForget, TypeOK
  <2> QED
    BY <2>1 DEF SettledInvOf
<1> QED
  BY <1>1, <1>2, <1>3, <1>4, <1>5, <1>6, <1>7, <1>8, Zenon DEF SaveStep

(* Once its tombstone is set in time, a deletion survives every merge and  *)
(* every save of every process until the file has it, for any number of    *)
(* processes, nodes, crashes and failed writes.                            *)
THEOREM DeletionsStick == Spec => []DeletesStick
<1> DEFINE All == \A p \in Procs : SettledInvOf(p)
<1>1. Init => All
  BY DEF Init, SettledInvOf
<1>2. ASSUME IInv, All, [Next]_vars PROVE All'
  <2> SUFFICES ASSUME NEW p \in Procs PROVE SettledInvOf(p)'
    OBVIOUS
  <2>1. ASSUME NEW i \in Ids, Edit(i) \/ Delete(i) PROVE SettledInvOf(p)'
    BY <1>2, <2>1, SettledFrame DEF Edit, Delete, procVars
  <2>2. ASSUME NEW q \in Procs,
               Start(q) \/ Crash(q) \/ Handler(q) \/ SaveLock(q) \/ SaveStep(q)
        PROVE  SettledInvOf(p)'
    <3>1. CASE p # q
      BY <1>2, <2>2, <3>1, SettledOthers
    <3>2. CASE p = q
      BY <1>2, <2>2, <3>2, SettledLife, SettledHandler, SettledSave
    <3> QED
      BY <3>1, <3>2
  <2>3. CASE UNCHANGED vars
    BY <1>2, <2>3, SettledFrame DEF vars, procVars
  <2> QED
    BY <1>2, <2>1, <2>2, <2>3 DEF Next
<1>3. All => DeletesStick
  BY DEF SettledInvOf, DeletesStick
<1> QED
  BY StoreInvariant, <1>1, <1>2, <1>3, PTL DEF Spec
=============================================================================
