----------------------------- MODULE ToolServer -----------------------------
(* Concurrent tool calls on one server (server/mod.rs): each runs a program   *)
(* of Tools inside run_handler, which drops the handler's future on           *)
(* cancel_all or at the budget of its kind. The calls share the name index,   *)
(* the scopes of the resolve walks under way, the walk counter, the probe     *)
(* lock and the idempotency store. Of the tree one node, the subject, is      *)
(* looked at; a call's requests take effect at any time after they are sent.  *)
EXTENDS Tools, Integers, FiniteSets

CONSTANTS
  Calls,        \* tool calls
  Programs,     \* the programs they may run
  NoCall,
  Keys,         \* idempotency keys
  MaxEntries,   \* IdempotencyStore::max_entries
  MaxCancels    \* bound on calls of cancel_all

ASSUME CallAssumption == IsFiniteSet(Calls) /\ NoCall \notin Calls
\* A key that is recorded was looked up, before anything was created.
KeyComesFirst(steps) ==
  \A i \in DOMAIN steps :
    /\ steps[i].op = "record" => \E j \in 1..(i-1) : steps[j] = Keyed
    /\ steps[i] = Keyed => \A j \in 1..i : steps[j].op # "create"
WriteOps == {"change", "touch", "delete", "uproot", "create"}
\* A write that hits the subject is the last of its program. What the index says
\* of the subject is dropped before it, or, by a bulk tool, right after it.
DropsForWrites(kind, steps) ==
  \A i \in DOMAIN steps :
    /\ steps[i].op \in {"change", "delete", "uproot"} =>
         \A j \in DOMAIN steps : j > i => steps[j].op \notin WriteOps
    /\ steps[i].op \in {"change", "delete"} =>
         \/ \E j \in 1..(i-1) : steps[j].op = "drop"
         \/ /\ kind = "bulk" /\ i + 1 \in DOMAIN steps
            /\ steps[i + 1].op \in {"settle", "settleAll"}
ASSUME ProgramAssumption ==
  \A p \in Programs : /\ p \in [kind : Kinds, steps : Seq(Steps) \ {<<>>}]
                      /\ KeyComesFirst(p.steps)
                      /\ DropsForWrites(p.kind, p.steps)
ASSUME BoundAssumption == MaxEntries \in Nat \ {0} /\ MaxCancels \in Nat

VARIABLES
  entry,       \* what the name index says of the subject
  alive,       \* whether the subject exists
  generation,  \* of the cancel registry
  scopes,      \* inflight_resolve_walk_scopes
  walks,       \* in_flight_walks
  prober,      \* who holds the probe lock
  store,       \* keys of the idempotency store, oldest record first
  call,        \* call |-> the locals of its handler
  wire,        \* call |-> its write that is sent and has not landed
  result       \* call |-> "answer", a result or an error; or "dropped"

shared == <<entry, alive, generation, scopes, walks, prober, store>>
vars == <<shared, call, wire, result>>

\* "crossed": read before a write landed that another call had dropped for.
Entries == {"none", "current", "stale", "crossed"}
Scopes == {"root", "part"}
PCs == {"idle", "step", "asked", "primary", "waiting", "walked", "sent", "done"}
NoKey == "none"
ASSUME KeyAssumption == NoKey \notin Keys

\* seen: the subject in the answer under way. wrote: the last write it sent.
\* landed, dropped, answered, owed: of that write, and whether the footprint has
\* it. known: its key has been in the store since it started.
Fresh == [kind |-> "read", todo |-> <<>>, at |-> "idle", scope |-> "root",
          snapshot |-> 0, seen |-> "none", wrote |-> "none", landed |-> FALSE,
          dropped |-> FALSE, answered |-> FALSE, owed |-> FALSE,
          key |-> NoKey, known |-> FALSE]
CallStates == [kind : Kinds, todo : Seq(Steps), at : PCs, scope : Scopes,
               snapshot : 0..MaxCancels, seen : Entries, wrote : WriteOps \cup {"none"},
               landed : BOOLEAN, dropped : BOOLEAN, answered : BOOLEAN, owed : BOOLEAN,
               key : Keys \cup {NoKey}, known : BOOLEAN]

At(t, l) == call[t].at = l
Op(t) == IF call[t].todo = <<>> THEN "none" ELSE Head(call[t].todo).op
Doing(t, op) == At(t, "step") /\ Op(t) = op

-----------------------------------------------------------------------------
(* The shape of a handler.                                                   *)

Init ==
  /\ entry \in {"none", "current"} /\ alive = TRUE
  /\ generation = 0 /\ scopes = {} /\ walks = 0 /\ prober = NoCall /\ store = <<>>
  /\ call = [t \in Calls |-> Fresh]
  /\ wire = [t \in Calls |-> "none"]
  /\ result = [t \in Calls |-> "none"]

KeyOf(p) == IF \E i \in DOMAIN p.steps : p.steps[i] = Keyed THEN Keys ELSE {NoKey}
Recorded(k) == \E i \in DOMAIN store : store[i] = k

Start(t) ==
  /\ At(t, "idle")
  /\ \E p \in Programs, k \in Keys \cup {NoKey} :
       /\ k \in KeyOf(p)
       /\ call' = [call EXCEPT ![t] = [Fresh EXCEPT
            !.kind = p.kind, !.todo = p.steps, !.at = "step",
            !.snapshot = generation, !.key = k, !.known = Recorded(k)]]
  /\ UNCHANGED <<shared, wire, result>>

\* What is kept of a call that is over: its last write, if it made one.
Ended(c) == IF c.wrote = "none" THEN [Fresh EXCEPT !.at = "done"]
            ELSE [Fresh EXCEPT !.at = "done", !.kind = c.kind, !.wrote = c.wrote,
                    !.landed = c.landed, !.dropped = c.dropped, !.answered = c.answered]
Return(t, r) ==
  /\ call' = [call EXCEPT ![t] = Ended(@)]
  /\ result' = [result EXCEPT ![t] = r]

\* The step is over: the next one, or the answer.
Proceed(t, c) ==
  IF Len(c.todo) = 1
  THEN call' = [call EXCEPT ![t] = Ended(c)] /\ result' = [result EXCEPT ![t] = "answer"]
  ELSE /\ call' = [call EXCEPT ![t] = [c EXCEPT !.at = "step", !.todo = Tail(@),
                                         !.seen = "none", !.scope = "root"]]
       /\ UNCHANGED result
\* The step failed.
GiveUp(t) ==
  IF Head(call[t].todo).must THEN Return(t, "answer") ELSE Proceed(t, call[t])

LeaveMarker(t) ==
  /\ walks' = IF At(t, "asked") /\ Op(t) = "walk" THEN walks - 1 ELSE walks
  /\ UNCHANGED scopes

\* What drop guards release when a step ends, or its handler in the middle of it.
ReleaseGuards(t) ==
  /\ walks' = IF At(t, "asked") /\ Op(t) = "walk" THEN walks - 1 ELSE walks
  /\ scopes' = IF At(t, "primary") THEN scopes \ {call[t].scope} ELSE scopes

\* run_handler drops the handler's future: cancelled, or at its budget. What was
\* sent may still land.
Abandon(t) ==
  /\ call[t].at \notin {"idle", "done"} /\ call[t].kind # "bare"
  /\ generation # call[t].snapshot \/ call[t].kind # "walk"
  /\ Return(t, "dropped")
  /\ ReleaseGuards(t)
  /\ UNCHANGED <<entry, alive, generation, prober, store, wire>>

CheckStep(t) ==
  /\ Doing(t, "check")
  /\ Return(t, "answer") \/ Proceed(t, call[t])
  /\ UNCHANGED <<shared, wire>>

CancelStep(t) ==
  /\ Doing(t, "cancel")
  /\ generation' = IF generation < MaxCancels THEN generation + 1 ELSE generation
  /\ Proceed(t, call[t])
  /\ UNCHANGED <<entry, alive, scopes, walks, prober, store, wire>>

-----------------------------------------------------------------------------
(* References: the index, the file it persists in, one walk per scope.       *)

\* A full id, a bad one, or a hit in the index.
Resolve(t) ==
  /\ Doing(t, "ref")
  /\ Return(t, "answer") \/ Proceed(t, call[t])
  /\ UNCHANGED <<shared, wire>>

\* A short hash the index lacks may be in what another process has persisted.
Adopt(t) ==
  /\ Doing(t, "ref") /\ entry = "none"
  /\ entry' = "crossed"
  /\ Proceed(t, call[t])
  /\ UNCHANGED <<alive, generation, scopes, walks, prober, store, wire>>

\* Otherwise there is one walk for each scope: who finds none becomes its primary.
Claim(t) ==
  /\ Doing(t, "ref") \/ Doing(t, "link")
  /\ entry = "none"
  /\ \E s \in IF Doing(t, "ref") THEN {"root"} ELSE Scopes :
       IF s \in scopes
       THEN /\ call' = [call EXCEPT ![t].at = "waiting", ![t].scope = s]
            /\ UNCHANGED scopes
       ELSE /\ call' = [call EXCEPT ![t].at = "primary", ![t].scope = s,
                          ![t].seen = IF alive THEN "current" ELSE "none"]
            /\ scopes' = scopes \cup {s}
  /\ UNCHANGED <<entry, alive, generation, walks, prober, store, wire, result>>

\* A link whose hash the index has needs no walk.
LinkKnown(t) ==
  /\ Doing(t, "link") /\ entry # "none"
  /\ Proceed(t, call[t])
  /\ UNCHANGED <<shared, wire>>

\* The walk is over: whole, partial, failed, or stopped by its watcher because
\* the index has the hash. What it saw is ingested, then the marker goes.
PrimaryEnds(t) ==
  /\ At(t, "primary")
  /\ \E v \in {call[t].seen, "none"} : entry' = IF v = "none" THEN entry ELSE v
  /\ scopes' = scopes \ {call[t].scope}
  /\ call' = [call EXCEPT ![t].at = "walked", ![t].seen = "none"]
  /\ UNCHANGED <<alive, generation, walks, prober, store, wire, result>>

\* Mutant: only a hit ends the wait.
WaitForHit(t) ==
  /\ At(t, "waiting") /\ entry # "none"
  /\ call' = [call EXCEPT ![t].at = "walked"]
  /\ UNCHANGED <<shared, wire, result>>

\* Who waits polls the index and the marker, up to the budget of a walk.
StopWaiting(t) ==
  /\ At(t, "waiting")
  /\ call' = [call EXCEPT ![t].at = "walked"]
  /\ UNCHANGED <<shared, wire, result>>

\* The index is asked once more.
AfterWalk(t) ==
  /\ At(t, "walked")
  /\ IF entry # "none" THEN Proceed(t, call[t])
     ELSE Return(t, "answer")
  /\ UNCHANGED <<shared, wire>>

-----------------------------------------------------------------------------
(* Requests that read.                                                       *)

Reads == {"read", "fetch", "walk"}
Ask(t) ==
  /\ At(t, "step") /\ Op(t) \in Reads
  /\ call' = [call EXCEPT ![t].at = "asked",
                ![t].seen = IF alive /\ Op(t) # "read" THEN "current" ELSE "none"]
  /\ walks' = IF Op(t) = "walk" THEN walks + 1 ELSE walks
  /\ UNCHANGED <<entry, alive, generation, scopes, prober, store, wire, result>>

\* A walk may be partial: what it did not reach is not ingested.
Answer(t) ==
  /\ At(t, "asked") /\ Op(t) \in Reads
  /\ \E v \in {call[t].seen, "none"} : entry' = IF v = "none" THEN entry ELSE v
  /\ ReleaseGuards(t)
  /\ Proceed(t, call[t])
  /\ UNCHANGED <<alive, generation, prober, store, wire>>

AnswerFails(t) ==
  /\ At(t, "asked") /\ Op(t) \in Reads
  /\ ReleaseGuards(t)
  /\ GiveUp(t)
  /\ UNCHANGED <<entry, alive, generation, prober, store, wire>>

\* The lock is taken by one probe at a time; nothing bounds the wait for it.
TakeProbeLock(t) ==
  /\ Doing(t, "probe") /\ prober = NoCall
  /\ prober' = t
  /\ call' = [call EXCEPT ![t].at = "asked"]
  /\ UNCHANGED <<entry, alive, generation, scopes, walks, store, wire, result>>

\* One or two requests later, each with a deadline.
ProbeEnds(t) ==
  /\ At(t, "asked") /\ Op(t) = "probe"
  /\ prober' = NoCall
  /\ Proceed(t, call[t])
  /\ UNCHANGED <<entry, alive, generation, scopes, walks, store, wire>>

-----------------------------------------------------------------------------
(* Requests that write, and what the server forgets because of them.         *)

DropStep(t) ==
  /\ Doing(t, "drop")
  /\ entry' = "none"
  /\ Proceed(t, [call[t] EXCEPT !.dropped = TRUE])
  /\ UNCHANGED <<alive, generation, scopes, walks, prober, store, wire>>

Send(t) ==
  /\ At(t, "step") /\ Op(t) \in WriteOps /\ wire[t] = "none"
  /\ wire' = [wire EXCEPT ![t] = Op(t)]
  /\ call' = [call EXCEPT ![t].at = "sent", ![t].landed = FALSE,
                ![t].wrote = Op(t), ![t].answered = FALSE]
  /\ UNCHANGED <<shared, result>>

\* What the subject's entry is worth after a write: an entry that came back
\* after the drop was read by another call.
Outdated(t) == CASE entry = "none" -> "none"
                 [] entry = "crossed" \/ call[t].dropped -> "crossed"
                 [] OTHER -> "stale"

\* The write takes effect; what others read before is behind it.
Land(t) ==
  /\ wire[t] # "none"
  /\ wire' = [wire EXCEPT ![t] = "none"]
  /\ alive' = (alive /\ wire[t] \notin {"delete", "uproot"})
  /\ LET hit == alive /\ wire[t] \in {"change", "delete", "uproot"}
     IN /\ entry' = IF hit THEN Outdated(t) ELSE entry
        /\ call' = [u \in Calls |->
             [call[u] EXCEPT
               !.landed = IF u = t THEN TRUE ELSE @,
               !.seen = IF hit /\ @ = "current" THEN "crossed" ELSE @]]
  /\ UNCHANGED <<generation, scopes, walks, prober, store, result>>

\* It is lost on the way.
Lose(t) ==
  /\ wire[t] # "none"
  /\ wire' = [wire EXCEPT ![t] = "none"]
  /\ UNCHANGED <<shared, call, result>>

\* Mutant: an edit is left out of the footprint.
ConfirmedUnowed(t) ==
  /\ At(t, "sent") /\ call[t].landed
  /\ Proceed(t, [call[t] EXCEPT !.answered = TRUE,
                   !.owed = @ \/ Op(t) \in {"touch", "delete"}])
  /\ UNCHANGED <<shared, wire>>
Confirmed(t) ==
  /\ At(t, "sent") /\ call[t].landed
  /\ Proceed(t, [call[t] EXCEPT !.answered = TRUE,
                   !.owed = @ \/ Op(t) \in {"change", "touch", "delete"}])
  /\ UNCHANGED <<shared, wire>>

\* An error, or no answer in time: it may have landed, or land later.
Refused(t) ==
  /\ At(t, "sent")
  /\ GiveUp(t)
  /\ UNCHANGED <<shared, wire>>

\* The footprint names the nodes whose write was answered; a node deleted with
\* its ancestor is in none.
SettleStep(t) ==
  /\ At(t, "step") /\ Op(t) \in {"settle", "settleAll"}
  /\ entry' = IF Op(t) = "settleAll" \/ call[t].owed THEN "none" ELSE entry
  /\ Proceed(t, call[t])
  /\ UNCHANGED <<alive, generation, scopes, walks, prober, store, wire>>

-----------------------------------------------------------------------------
(* The idempotency store.                                                    *)

\* Mutant: the lookup finds nothing.
KeyedBlind(t) ==
  /\ Doing(t, "keyed")
  /\ Proceed(t, call[t])
  /\ UNCHANGED <<shared, wire>>

\* An unexpired record answers in place of the create.
KeyedStep(t) ==
  /\ Doing(t, "keyed")
  /\ IF Recorded(call[t].key) THEN Return(t, "answer") ELSE Proceed(t, call[t])
  /\ UNCHANGED <<shared, wire>>

StillKnown(c, kept) ==
  [u \in Calls |-> [c[u] EXCEPT !.known = @ /\ \E i \in DOMAIN kept : kept[i] = c[u].key]]
Newest(s) == IF Len(s) > MaxEntries THEN Tail(s) ELSE s

\* A key has one record.
Without(s, k) ==
  IF \E i \in DOMAIN s : s[i] = k
  THEN LET i == CHOOSE i \in DOMAIN s : s[i] = k
       IN SubSeq(s, 1, i - 1) \o SubSeq(s, i + 1, Len(s))
  ELSE s

\* The last step of a create: its key becomes the newest, the oldest goes.
RecordStep(t) ==
  /\ Doing(t, "record")
  /\ store' = Newest(Append(Without(store, call[t].key), call[t].key))
  /\ call' = StillKnown([call EXCEPT ![t] = Ended(@)], store')
  /\ result' = [result EXCEPT ![t] = "answer"]
  /\ UNCHANGED <<entry, alive, generation, scopes, walks, prober, wire>>

\* A key outlives its retention time: the next lookup or record prunes it.
Expire ==
  /\ store # <<>>
  /\ store' = Tail(store)
  /\ call' = StillKnown(call, store')
  /\ UNCHANGED <<entry, alive, generation, scopes, walks, prober, wire, result>>

-----------------------------------------------------------------------------
LocalStep(t) == CheckStep(t) \/ CancelStep(t) \/ DropStep(t) \/ SettleStep(t)
                \/ KeyedStep(t) \/ RecordStep(t)
ResolveStep(t) == Resolve(t) \/ Adopt(t) \/ Claim(t) \/ LinkKnown(t)
                  \/ PrimaryEnds(t) \/ StopWaiting(t) \/ AfterWalk(t)
RequestStep(t) == Ask(t) \/ Answer(t) \/ AnswerFails(t) \/ TakeProbeLock(t)
                  \/ ProbeEnds(t) \/ Send(t) \/ Confirmed(t) \/ Refused(t)
HandlerStep(t) == LocalStep(t) \/ ResolveStep(t) \/ RequestStep(t)
Delivery(t) == Land(t) \/ Lose(t)

Next ==
  \/ \E t \in Calls : Start(t) \/ HandlerStep(t) \/ Abandon(t) \/ Delivery(t)
  \/ Expire

Spec == Init /\ [][Next]_vars
\* A handler that can go on does, a request is delivered or lost; that anyone is
\* cancelled or runs out of its budget is not assumed.
FairSpec == Spec /\ \A t \in Calls : WF_vars(HandlerStep(t)) /\ WF_vars(Delivery(t))

-----------------------------------------------------------------------------
(* What is checked.                                                          *)

\* The variables keep their shape; in particular the walk counter, a usize that
\* drop guards decrement, never goes below zero.
TypeOK ==
  /\ entry \in Entries /\ alive \in BOOLEAN /\ generation \in 0..MaxCancels
  /\ scopes \subseteq Scopes /\ walks \in Nat /\ prober \in Calls \cup {NoCall}
  /\ store \in Seq(Keys) /\ Len(store) <= MaxEntries
  /\ call \in [Calls -> CallStates]
  /\ \A t \in Calls : call[t].todo = <<>> <=> call[t].at \in {"idle", "done"}
  /\ wire \in [Calls -> WriteOps \cup {"none"}]
  /\ result \in [Calls -> {"none", "answer", "dropped"}]

\* invalidate_for_mutation is there so that a handler dropped in the middle of
\* its write leaves nothing stale. What the index says of a node is overtaken by
\* a write only when that write is a bulk tool's, still at work, dropped, or
\* without an answer to its write, or when the node went with an ancestor.
MayStrand(t) ==
  /\ call[t].landed /\ ~call[t].dropped
  /\ \/ call[t].wrote = "uproot"
     \/ /\ call[t].kind = "bulk"
        /\ At(t, "done") => result[t] = "dropped" \/ ~call[t].answered
OnlyLateDropsStrand == entry = "stale" => \E t \in Calls : MayStrand(t)

\* WalkGuard and InflightResolveGuard: whatever way a handler ends, the counter
\* is the number of walks under way, and a scope is marked exactly while one
\* call walks it, so that nobody waits for a walk that is gone and no scope is
\* walked twice.
GuardsMatchWork ==
  /\ walks = Cardinality({t \in Calls : At(t, "asked") /\ Op(t) = "walk"})
  /\ scopes = {call[t].scope : t \in {u \in Calls : At(u, "primary")}}
  /\ \A t, u \in Calls :
       At(t, "primary") /\ At(u, "primary") /\ t # u => call[t].scope # call[u].scope

\* A create retried with a key that was recorded before it started, and is kept,
\* writes nothing.
KeyedRetryWritesNothing ==
  \A t \in Calls : call[t].known => call[t].wrote # "create"

\* Every call returns, though nobody cancels it and no budget is enforced: no
\* wait for another call's walk or probe is forever.
EveryToolReturns == \A t \in Calls : call[t].at # "idle" ~> At(t, "done")
=============================================================================
