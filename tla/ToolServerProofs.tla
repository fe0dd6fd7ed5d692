-------------------------- MODULE ToolServerProofs --------------------------
(***************************************************************************)
(* Proofs about the server, for any number of concurrent calls and any     *)
(* tools that are programs of these steps.                                 *)
(***************************************************************************)
EXTENDS ToolServer, FiniteSetTheorems, SequenceTheorems, TLAPS

-----------------------------------------------------------------------------
(* Calls, one at a time.                                                   *)

\* What TypeOK says of a call, and that it records only a key it was given.
GoodCall(c) ==
  /\ c \in CallStates
  /\ c.todo = <<>> <=> c.at \in {"idle", "done"}
  /\ \A i \in DOMAIN c.todo : c.todo[i].op = "record" => c.key \in Keys

TypeInv == TypeOK /\ \A t \in Calls : GoodCall(call[t])

Outcomes == {"none", "answer", "dropped"}

LEMMA FreshGood == GoodCall(Fresh)
BY BoundAssumption DEF GoodCall, Fresh, CallStates, Kinds, PCs, Scopes, Entries, WriteOps, NoKey

LEMMA EndedGood ==
  ASSUME NEW c \in CallStates
  PROVE  GoodCall(Ended(c)) /\ Ended(c).at = "done" /\ Ended(c).todo = <<>>
<1>1. Fresh \in CallStates /\ "done" \in PCs
  BY FreshGood DEF GoodCall, PCs
<1> DEFINE e == [Fresh EXCEPT !.at = "done"]
<1>2. e \in CallStates /\ e.todo = <<>> /\ e.at = "done"
  BY <1>1 DEF CallStates, Fresh
<1>3. CASE c.wrote = "none"
  BY <1>2, <1>3 DEF Ended, GoodCall
<1>4. CASE c.wrote # "none"
  <2> DEFINE f == [Fresh EXCEPT !.at = "done", !.kind = c.kind, !.wrote = c.wrote,
                    !.landed = c.landed, !.dropped = c.dropped, !.answered = c.answered]
  <2>1. /\ c.kind \in Kinds /\ c.wrote \in WriteOps \cup {"none"}
        /\ c.landed \in BOOLEAN /\ c.dropped \in BOOLEAN /\ c.answered \in BOOLEAN
    BY DEF CallStates
  <2>2. f \in CallStates
    BY <1>1, <2>1 DEF CallStates
  <2>3. f.todo = <<>> /\ f.at = "done"
    BY DEF Fresh
  <2> QED
    BY <1>4, <2>2, <2>3 DEF Ended, GoodCall
<1> QED
  BY <1>3, <1>4

\* The rest of a program of more than one step.
LEMMA RestOfSteps ==
  ASSUME NEW s \in Seq(Steps), s # <<>>, Len(s) # 1
  PROVE  /\ Tail(s) \in Seq(Steps) /\ Tail(s) # <<>>
         /\ \A i \in DOMAIN Tail(s) : i + 1 \in DOMAIN s /\ Tail(s)[i] = s[i + 1]
<1>1. Len(s) \in Nat /\ Len(s) # 0 /\ DOMAIN s = 1..Len(s)
  OBVIOUS
<1>2. Tail(s) \in Seq(Steps) /\ Len(Tail(s)) = Len(s) - 1
  BY <1>1
<1>3. DOMAIN Tail(s) = 1..(Len(s) - 1) /\ Len(Tail(s)) # 0
  BY <1>1, <1>2
<1>4. \A i \in 1..(Len(s) - 1) : Tail(s)[i] = s[i + 1]
  BY <1>2, HeadTailProperties
<1>6. \A i \in 1..(Len(s) - 1) : i + 1 \in DOMAIN s
  BY <1>1
<1> DEFINE rest == Tail(s)
<1>7. rest \in Seq(Steps) /\ Len(rest) # 0 /\ DOMAIN rest = 1..(Len(s) - 1)
  BY <1>2, <1>3
<1>8. \A i \in 1..(Len(s) - 1) : rest[i] = s[i + 1]
  BY <1>4
<1> HIDE DEF rest
<1>9. \A i \in DOMAIN rest : i + 1 \in DOMAIN s /\ rest[i] = s[i + 1]
  BY <1>6, <1>7, <1>8
<1>5. rest # <<>>
  BY <1>7, EmptySeq
<1> QED
  BY <1>5, <1>7, <1>9 DEF rest

LEMMA HeadOfSteps ==
  ASSUME NEW s \in Seq(Steps), s # <<>>
  PROVE  Head(s) \in Steps /\ 1 \in DOMAIN s /\ Head(s) = s[1]
<1>1. Len(s) \in Nat /\ Len(s) # 0
  OBVIOUS
<1>2. 1 \in DOMAIN s
  BY <1>1
<1>3. Head(s) = s[1]
  BY <1>2
<1> QED
  BY <1>2, <1>3

LEMMA NextGood ==
  ASSUME NEW c, GoodCall(c), c.todo # <<>>, Len(c.todo) # 1
  PROVE  /\ GoodCall([c EXCEPT !.at = "step", !.todo = Tail(@), !.seen = "none", !.scope = "root"])
         /\ [c EXCEPT !.at = "step", !.todo = Tail(@), !.seen = "none", !.scope = "root"].at = "step"
<1> DEFINE d == [c EXCEPT !.at = "step", !.todo = Tail(c.todo), !.seen = "none", !.scope = "root"]
<1>1. c \in CallStates /\ c.todo \in Seq(Steps)
  BY DEF GoodCall, CallStates
<1>2. /\ Tail(c.todo) \in Seq(Steps) /\ Tail(c.todo) # <<>>
      /\ \A i \in DOMAIN Tail(c.todo) : i + 1 \in DOMAIN c.todo /\ Tail(c.todo)[i] = c.todo[i + 1]
  BY <1>1, RestOfSteps
<1>3. "step" \in PCs /\ "none" \in Entries /\ "root" \in Scopes
  BY DEF PCs, Entries, Scopes
<1>4. d \in CallStates
  BY <1>1, <1>2, <1>3 DEF CallStates
<1>5. d.at = "step" /\ d.todo = Tail(c.todo) /\ d.key = c.key
  BY <1>1 DEF CallStates
<1>6. \A i \in DOMAIN d.todo : d.todo[i].op = "record" => d.key \in Keys
  BY <1>2, <1>5 DEF GoodCall
<1> QED
  BY <1>2, <1>4, <1>5, <1>6 DEF GoodCall

\* A step of t replaces t's call by a good one.
Replaces(t) ==
  /\ call' = [call EXCEPT ![t] = call'[t]]
  /\ GoodCall(call'[t])
  /\ result' \in [Calls -> Outcomes]

LEMMA ReturnReplaces ==
  ASSUME TypeInv, NEW t \in Calls, NEW r \in Outcomes, Return(t, r)
  PROVE  Replaces(t) /\ call'[t].at = "done" /\ call'[t] = Ended(call[t])
<1>1. call'[t] = Ended(call[t]) /\ call' = [call EXCEPT ![t] = call'[t]]
  BY DEF Return, TypeInv, TypeOK
<1>2. result' \in [Calls -> Outcomes]
  BY DEF Return, TypeInv, TypeOK, Outcomes
<1>3. call[t] \in CallStates
  BY DEF TypeInv, GoodCall
<1> QED
  BY <1>1, <1>2, <1>3, EndedGood DEF Replaces

LEMMA ProceedReplaces ==
  ASSUME TypeInv, NEW t \in Calls, NEW c, GoodCall(c), c.todo # <<>>, Proceed(t, c)
  PROVE  Replaces(t) /\ call'[t].at \in {"step", "done"}
<1>1. CASE Len(c.todo) = 1
  <2>1. call' = [call EXCEPT ![t] = Ended(c)] /\ result' = [result EXCEPT ![t] = "answer"]
    BY <1>1 DEF Proceed
  <2>2. call'[t] = Ended(c) /\ call' = [call EXCEPT ![t] = call'[t]]
    BY <2>1 DEF TypeInv, TypeOK
  <2>3. result' \in [Calls -> Outcomes]
    BY <2>1 DEF TypeInv, TypeOK, Outcomes
  <2>4. c \in CallStates
    BY DEF GoodCall
  <2> QED
    BY <2>2, <2>3, <2>4, EndedGood DEF Replaces
<1>2. CASE Len(c.todo) # 1
  <2> DEFINE d == [c EXCEPT !.at = "step", !.todo = Tail(@), !.seen = "none", !.scope = "root"]
  <2>1. call' = [call EXCEPT ![t] = d] /\ result' = result
    BY <1>2 DEF Proceed
  <2>2. GoodCall(d) /\ d.at = "step"
    BY <1>2, NextGood
  <2> HIDE DEF d
  <2>3. call'[t] = d /\ call' = [call EXCEPT ![t] = call'[t]]
    BY <2>1 DEF TypeInv, TypeOK
  <2>4. result' \in [Calls -> Outcomes]
    BY <2>1 DEF TypeInv, TypeOK, Outcomes
  <2> QED
    BY <2>2, <2>3, <2>4 DEF Replaces
<1> QED
  BY <1>1, <1>2

LEMMA GiveUpReplaces ==
  ASSUME TypeInv, NEW t \in Calls, call[t].todo # <<>>, GiveUp(t)
  PROVE  Replaces(t) /\ call'[t].at \in {"step", "done"}
<1>1. GoodCall(call[t]) /\ "answer" \in Outcomes
  BY DEF TypeInv, Outcomes
<1>2. CASE Return(t, "answer")
  BY <1>1, <1>2, ReturnReplaces
<1>3. CASE Proceed(t, call[t])
  BY <1>1, <1>3, ProceedReplaces
<1> QED
  BY <1>2, <1>3 DEF GiveUp

\* Another position in the same program.
LEMMA GoodLike ==
  ASSUME NEW c, GoodCall(c), c.todo # <<>>, NEW d \in CallStates,
         d.todo = c.todo, d.key = c.key, d.at \notin {"idle", "done"}
  PROVE  GoodCall(d)
BY DEF GoodCall

LEMMA PutReplaces ==
  ASSUME TypeInv, NEW t \in Calls, NEW c, GoodCall(c),
         call' = [call EXCEPT ![t] = c], result' = result
  PROVE  Replaces(t) /\ call'[t] = c
<1>1. call'[t] = c
  BY DEF TypeInv, TypeOK
<1> QED
  BY <1>1 DEF Replaces, TypeInv, TypeOK, Outcomes

LEMMA BusyCall ==
  ASSUME TypeInv, NEW t \in Calls
  PROVE  /\ call[t] \in CallStates /\ GoodCall(call[t])
         /\ call[t].at \notin {"idle", "done"} => call[t].todo # <<>>
         /\ Op(t) # "none" => call[t].todo # <<>>
BY DEF TypeInv, GoodCall, Op

-----------------------------------------------------------------------------
(* The guards. A step of t either leaves t with nothing to guard, and then   *)
(* what its guards held is released, or it takes a guard that was free.      *)

Walks(c) == c.at = "asked" /\ c.todo # <<>> /\ Head(c.todo).op = "walk"
Work == {t \in Calls : Walks(call[t])}
Primaries == {t \in Calls : call[t].at = "primary"}

LEMMA WorkIs == Work = {t \in Calls : At(t, "asked") /\ Op(t) = "walk"}
BY DEF Work, Walks, At, Op

LEMMA WorkFinite == IsFiniteSet(Work)
BY CallAssumption, FS_Subset DEF Work

\* GuardsMatchWork, in those words.
Guarded ==
  /\ walks = Cardinality(Work)
  /\ scopes = {call[t].scope : t \in Primaries}
  /\ \A t, u \in Primaries : t # u => call[t].scope # call[u].scope

LEMMA GuardedIs == Guarded <=> GuardsMatchWork
<1>1. Primaries = {u \in Calls : At(u, "primary")}
  BY DEF Primaries, At
<1>2. (\A t, u \in Primaries : t # u => call[t].scope # call[u].scope)
      <=> \A t, u \in Calls :
            At(t, "primary") /\ At(u, "primary") /\ t # u => call[t].scope # call[u].scope
  BY DEF Primaries, At
<1> QED
  BY <1>1, <1>2, WorkIs DEF Guarded, GuardsMatchWork

Released(t) ==
  /\ walks' = IF Walks(call[t]) THEN walks - 1 ELSE walks
  /\ scopes' = IF call[t].at = "primary" THEN scopes \ {call[t].scope} ELSE scopes

LEMMA ReleasedIs ==
  ASSUME NEW t
  PROVE  ReleaseGuards(t) <=> Released(t)
BY DEF ReleaseGuards, Released, Walks, At, Op

SamePlace(c, d) == c.at = d.at /\ c.todo = d.todo /\ c.scope = d.scope

\* t is left with nothing to guard.
LEMMA NothingToGuard ==
  ASSUME Guarded, NEW t \in Calls, Released(t), ~Walks(call'[t]), call'[t].at # "primary",
         \A u \in Calls : u # t => SamePlace(call'[u], call[u])
  PROVE  Guarded'
<1>0. \A u \in Calls : u # t => SamePlace(call'[u], call[u])
  OBVIOUS
<1>1. walks' = Cardinality(Work')
  <2>1. Work' = Work \ {t}
    <3>1. \A u \in Calls : u # t => (Walks(call'[u]) <=> Walks(call[u]))
      BY <1>0 DEF SamePlace, Walks
    <3> QED
      BY <3>1 DEF Work
  <2>2. t \in Work <=> Walks(call[t])
    BY DEF Work
  <2>3. Cardinality(Work \ {t}) = IF t \in Work THEN Cardinality(Work) - 1 ELSE Cardinality(Work)
    BY WorkFinite, FS_RemoveElement
  <2> QED
    BY <2>1, <2>2, <2>3 DEF Guarded, Released
<1>2. Primaries' = Primaries \ {t}
  BY <1>0 DEF Primaries, SamePlace
<1>3. scopes' = {call'[u].scope : u \in Primaries'}
  <2>1. {call'[u].scope : u \in Primaries'} = {call[u].scope : u \in Primaries \ {t}}
    <3>1. \A u \in Primaries \ {t} : call'[u].scope = call[u].scope
      BY <1>0 DEF Primaries, SamePlace
    <3> QED
      BY <1>2, <3>1
  <2>2. CASE call[t].at = "primary"
    <3>1. t \in Primaries
      BY <2>2 DEF Primaries
    <3>2. \A u \in Primaries \ {t} : call[u].scope # call[t].scope
      BY <3>1 DEF Guarded
    <3>3. {call[u].scope : u \in Primaries \ {t}} = {call[u].scope : u \in Primaries} \ {call[t].scope}
      BY <3>1, <3>2
    <3> QED
      BY <2>1, <2>2, <3>3 DEF Guarded, Released
  <2>3. CASE call[t].at # "primary"
    <3>1. Primaries \ {t} = Primaries
      BY <2>3 DEF Primaries
    <3> QED
      BY <2>1, <2>3, <3>1 DEF Guarded, Released
  <2> QED
    BY <2>2, <2>3
<1>4. \A v, u \in Primaries' : v # u => call'[v].scope # call'[u].scope
  <2>1. \A u \in Primaries' : u \in Primaries /\ call'[u].scope = call[u].scope
    BY <1>0, <1>2 DEF Primaries, SamePlace
  <2> QED
    BY <2>1 DEF Guarded
<1> QED
  BY <1>1, <1>3, <1>4 DEF Guarded

\* t starts a walk.
LEMMA OneMoreWalk ==
  ASSUME TypeInv, Guarded, NEW t \in Calls, Replaces(t), ~Walks(call[t]), Walks(call'[t]),
         call[t].at # "primary", walks' = walks + 1, scopes' = scopes
  PROVE  Guarded'
<1>0. \A u \in Calls : u # t => call'[u] = call[u]
  BY DEF Replaces, TypeInv, TypeOK
<1>1. walks' = Cardinality(Work')
  <2>1. Work' = Work \cup {t}
    <3>1. \A u \in Calls : u # t => (Walks(call'[u]) <=> Walks(call[u]))
      BY <1>0
    <3> QED
      BY <3>1 DEF Work
  <2>2. t \notin Work
    BY DEF Work
  <2> QED
    BY <2>1, <2>2, WorkFinite, FS_AddElement DEF Guarded
<1>2. call'[t].at # "primary"
  BY DEF Walks
<1>3. Primaries' = Primaries
  BY <1>0, <1>2 DEF Primaries
<1>4. \A u \in Primaries : call'[u] = call[u]
  BY <1>0 DEF Primaries
<1>5. {call'[u].scope : u \in Primaries'} = {call[u].scope : u \in Primaries}
  BY <1>3, <1>4
<1> QED
  BY <1>1, <1>3, <1>4, <1>5 DEF Guarded

\* t becomes the primary of a scope nobody walks.
LEMMA OneMorePrimary ==
  ASSUME TypeInv, Guarded, NEW t \in Calls, Replaces(t), ~Walks(call[t]), call[t].at # "primary",
         call'[t].at = "primary", call'[t].scope \notin scopes,
         walks' = walks, scopes' = scopes \cup {call'[t].scope}
  PROVE  Guarded'
<1>0. \A u \in Calls : u # t => call'[u] = call[u]
  BY DEF Replaces, TypeInv, TypeOK
<1>1. Work' = Work
  <2>1. ~Walks(call'[t])
    BY DEF Walks
  <2>2. \A u \in Calls : Walks(call'[u]) <=> Walks(call[u])
    BY <1>0, <2>1
  <2> QED
    BY <2>2 DEF Work
<1>2. Primaries' = Primaries \cup {t} /\ t \notin Primaries
  BY <1>0 DEF Primaries
<1>3. \A u \in Primaries : call'[u] = call[u] /\ call[u].scope \in scopes
  BY <1>0, <1>2 DEF Primaries, Guarded
<1>4. {call'[u].scope : u \in Primaries'} = {call[u].scope : u \in Primaries} \cup {call'[t].scope}
  BY <1>2, <1>3
<1>5. \A v, u \in Primaries' : v # u => call'[v].scope # call'[u].scope
  BY <1>2, <1>3 DEF Guarded
<1> QED
  BY <1>1, <1>4, <1>5 DEF Guarded

\* Nobody moves.
LEMMA NobodyMoves ==
  ASSUME Guarded, UNCHANGED <<walks, scopes>>,
         \A u \in Calls : /\ call'[u].at = call[u].at /\ call'[u].todo = call[u].todo
                          /\ call'[u].scope = call[u].scope
  PROVE  Guarded'
<1>1. Work' = Work
  BY DEF Work, Walks
<1>2. Primaries' = Primaries
  BY DEF Primaries
<1>3. \A u \in Primaries : call'[u].scope = call[u].scope
  BY DEF Primaries
<1>4. {call'[u].scope : u \in Primaries'} = {call[u].scope : u \in Primaries}
  BY <1>2, <1>3
<1> QED
  BY <1>1, <1>2, <1>3, <1>4 DEF Guarded

-----------------------------------------------------------------------------
(* The steps.                                                                *)

IInv == TypeInv /\ Guarded

OthersOK ==
  /\ entry \in Entries /\ alive \in BOOLEAN /\ generation \in 0..MaxCancels
  /\ prober \in Calls \cup {NoCall}
  /\ store \in Seq(Keys) /\ Len(store) <= MaxEntries
  /\ wire \in [Calls -> WriteOps \cup {"none"}]

\* A step of t that leaves it with nothing to guard.
Settles(t) ==
  /\ Replaces(t) /\ call'[t].at # "primary" /\ ~Walks(call'[t])
  /\ Released(t)
  /\ OthersOK'

LEMMA InvParts ==
  ASSUME IInv
  PROVE  OthersOK /\ scopes \subseteq Scopes /\ TypeOK /\ TypeInv /\ Guarded
BY DEF IInv, TypeInv, TypeOK, OthersOK

\* What the parts of a step amount to.
LEMMA PartsGiveInv ==
  ASSUME call' \in [Calls -> CallStates], result' \in [Calls -> Outcomes],
         \A u \in Calls : GoodCall(call'[u]), OthersOK', scopes' \subseteq Scopes, Guarded'
  PROVE  IInv'
<1>1. IsFiniteSet(Work')
  BY CallAssumption, FS_Subset DEF Work
<1>2. walks' \in Nat
  BY <1>1, FS_CardinalityType DEF Guarded
<1>3. \A u \in Calls : call'[u].todo = <<>> <=> call'[u].at \in {"idle", "done"}
  BY DEF GoodCall
<1>4. TypeOK'
  BY <1>2, <1>3 DEF TypeOK, OthersOK, Outcomes
<1>5. \A u \in Calls : GoodCall(call[u])'
  BY DEF GoodCall
<1> QED
  BY <1>4, <1>5 DEF IInv, TypeInv

LEMMA ReplacedTypes ==
  ASSUME TypeInv, NEW t \in Calls, Replaces(t)
  PROVE  call' \in [Calls -> CallStates] /\ \A u \in Calls : GoodCall(call'[u])
<1>1. \A u \in Calls : GoodCall(call'[u])
  <2>1. \A u \in Calls : u # t => call'[u] = call[u]
    BY DEF Replaces, TypeInv, TypeOK
  <2> QED
    BY <2>1 DEF Replaces, TypeInv
<1>2. call'[t] \in CallStates
  BY <1>1 DEF GoodCall
<1> QED
  BY <1>1, <1>2 DEF Replaces, TypeInv, TypeOK

LEMMA OthersInPlace ==
  ASSUME TypeInv, NEW t \in Calls, Replaces(t)
  PROVE  \A u \in Calls : u # t => SamePlace(call'[u], call[u])
BY DEF Replaces, TypeInv, TypeOK, SamePlace

LEMMA SettledKeepsInv ==
  ASSUME IInv, NEW t \in Calls, Settles(t)
  PROVE  IInv'
<1>1. Guarded'
  BY InvParts, NothingToGuard, OthersInPlace DEF Settles
<1>2. scopes' \subseteq Scopes
  BY InvParts DEF Settles, Released
<1>3. call' \in [Calls -> CallStates] /\ \A u \in Calls : GoodCall(call'[u])
  BY InvParts, ReplacedTypes DEF Settles
<1> QED
  BY <1>1, <1>2, <1>3, PartsGiveInv DEF Settles, Replaces

\* Steps that guard nothing before release nothing.
LEMMA NothingHeld ==
  ASSUME NEW t, ~Walks(call[t]), call[t].at # "primary", UNCHANGED <<scopes, walks>>
  PROVE  Released(t)
BY DEF Released

LEMMA ToStepOrDone ==
  ASSUME NEW c, c.at \in {"step", "done"}
  PROVE  c.at # "primary" /\ ~Walks(c)
BY DEF Walks

\* A step from outside the guarded positions that goes on, gives up or returns.
LEMMA PlainStep ==
  ASSUME IInv, NEW t \in Calls, call[t].at # "primary", ~Walks(call[t]),
         Replaces(t), call'[t].at \in {"step", "done", "waiting", "walked", "sent"},
         UNCHANGED <<scopes, walks>>, OthersOK'
  PROVE  Settles(t)
BY NothingHeld DEF Settles, Walks

LEMMA SentFrom ==
  ASSUME NEW t, At(t, "step") \/ At(t, "sent") \/ At(t, "walked") \/ At(t, "waiting")
  PROVE  call[t].at # "primary" /\ ~Walks(call[t]) /\ call[t].at \notin {"idle", "done"}
BY DEF At, Walks

LEMMA LocalSteps ==
  ASSUME IInv, NEW t \in Calls, CheckStep(t) \/ CancelStep(t) \/ SettleStep(t) \/ KeyedStep(t)
  PROVE  Settles(t)
<1>0. At(t, "step") /\ call[t].todo # <<>> /\ GoodCall(call[t]) /\ "answer" \in Outcomes
  BY InvParts, BusyCall, SentFrom DEF CheckStep, CancelStep, SettleStep, KeyedStep, Doing, Outcomes
<1>1. Proceed(t, call[t]) \/ Return(t, "answer")
  BY DEF CheckStep, CancelStep, SettleStep, KeyedStep
<1>2. Replaces(t) /\ call'[t].at \in {"step", "done"}
  BY <1>0, <1>1, InvParts, ProceedReplaces, ReturnReplaces
<1>3. UNCHANGED <<scopes, walks>>
  BY DEF CheckStep, CancelStep, SettleStep, KeyedStep, shared
<1>4. OthersOK'
  <2>1. CASE CancelStep(t)
    BY <2>1, InvParts, BoundAssumption DEF CancelStep, OthersOK
  <2>2. CASE SettleStep(t)
    BY <2>2, InvParts DEF SettleStep, OthersOK, Entries
  <2>3. CASE CheckStep(t) \/ KeyedStep(t)
    BY <2>3, InvParts DEF CheckStep, KeyedStep, OthersOK, shared
  <2> QED
    BY <2>1, <2>2, <2>3
<1> QED
  BY <1>0, <1>2, <1>3, <1>4, PlainStep, SentFrom

LEMMA DropSteps ==
  ASSUME IInv, NEW t \in Calls, DropStep(t)
  PROVE  Settles(t)
<1>0. At(t, "step") /\ call[t].todo # <<>> /\ GoodCall(call[t]) /\ call[t] \in CallStates
  BY InvParts, BusyCall, SentFrom DEF DropStep, Doing
<1> DEFINE c == [call[t] EXCEPT !.dropped = TRUE]
<1>1. c \in CallStates /\ c.todo = call[t].todo /\ c.key = call[t].key /\ c.at = call[t].at
  BY <1>0 DEF CallStates
<1>2. Proceed(t, c)
  BY DEF DropStep
<1> HIDE DEF c
<1>3. GoodCall(c) /\ c.todo # <<>>
  BY <1>0, <1>1, SentFrom, GoodLike
<1>4. Replaces(t) /\ call'[t].at \in {"step", "done"}
  BY <1>2, <1>3, InvParts, ProceedReplaces
<1>5. UNCHANGED <<scopes, walks>> /\ OthersOK'
  BY InvParts DEF DropStep, OthersOK, Entries
<1> QED
  BY <1>0, <1>4, <1>5, PlainStep, SentFrom

LEMMA ResolveSteps ==
  ASSUME IInv, NEW t \in Calls, Resolve(t) \/ Adopt(t) \/ LinkKnown(t) \/ AfterWalk(t)
  PROVE  Settles(t)
<1>0. (At(t, "step") \/ At(t, "walked")) /\ call[t].todo # <<>> /\ GoodCall(call[t]) /\ "answer" \in Outcomes
  BY InvParts, BusyCall, SentFrom DEF Resolve, Adopt, LinkKnown, AfterWalk, Doing, Outcomes
<1>1. Proceed(t, call[t]) \/ Return(t, "answer")
  BY DEF Resolve, Adopt, LinkKnown, AfterWalk
<1>2. Replaces(t) /\ call'[t].at \in {"step", "done"}
  BY <1>0, <1>1, InvParts, ProceedReplaces, ReturnReplaces
<1>3. UNCHANGED <<scopes, walks>> /\ OthersOK'
  BY InvParts DEF Resolve, Adopt, LinkKnown, AfterWalk, shared, OthersOK, Entries
<1> QED
  BY <1>0, <1>2, <1>3, PlainStep, SentFrom

LEMMA StopWaitingSettles ==
  ASSUME IInv, NEW t \in Calls, StopWaiting(t)
  PROVE  Settles(t)
<1>0. At(t, "waiting") /\ call[t].todo # <<>> /\ GoodCall(call[t]) /\ call[t] \in CallStates
  BY InvParts, BusyCall, SentFrom DEF StopWaiting
<1> DEFINE c == [call[t] EXCEPT !.at = "walked"]
<1>1. c \in CallStates /\ c.todo = call[t].todo /\ c.key = call[t].key /\ c.at = "walked"
  BY <1>0 DEF CallStates, PCs
<1>2. call' = [call EXCEPT ![t] = c] /\ result' = result
  BY InvParts DEF StopWaiting, TypeOK
<1> HIDE DEF c
<1>3. GoodCall(c)
  BY <1>0, <1>1, GoodLike
<1>4. Replaces(t) /\ call'[t].at = "walked"
  BY <1>1, <1>2, <1>3, InvParts, PutReplaces
<1>5. UNCHANGED <<scopes, walks>> /\ OthersOK'
  BY InvParts DEF StopWaiting, OthersOK, shared
<1> QED
  BY <1>0, <1>4, <1>5, PlainStep, SentFrom

LEMMA ClaimKeepsInv ==
  ASSUME IInv, NEW t \in Calls, Claim(t)
  PROVE  IInv'
<1>0. At(t, "step") /\ call[t].todo # <<>> /\ GoodCall(call[t]) /\ call[t] \in CallStates
  BY InvParts, BusyCall, SentFrom DEF Claim, Doing
<1>1. PICK s \in Scopes :
        IF s \in scopes
        THEN /\ call' = [call EXCEPT ![t].at = "waiting", ![t].scope = s]
             /\ UNCHANGED scopes
        ELSE /\ call' = [call EXCEPT ![t].at = "primary", ![t].scope = s,
                           ![t].seen = IF alive THEN "current" ELSE "none"]
             /\ scopes' = scopes \cup {s}
  BY DEF Claim, Scopes
<1>2. UNCHANGED walks /\ OthersOK' /\ result' = result
  BY InvParts DEF Claim, OthersOK
<1>3. CASE s \in scopes
  <2> DEFINE c == [call[t] EXCEPT !.at = "waiting", !.scope = s]
  <2>1. c \in CallStates /\ c.todo = call[t].todo /\ c.key = call[t].key /\ c.at = "waiting"
    BY <1>0 DEF CallStates, PCs
  <2>2. call' = [call EXCEPT ![t] = c] /\ UNCHANGED scopes
    BY <1>1, <1>3, InvParts DEF TypeOK
  <2> HIDE DEF c
  <2>3. GoodCall(c)
    BY <1>0, <2>1, GoodLike
  <2>4. Replaces(t) /\ call'[t].at = "waiting"
    BY <1>2, <2>1, <2>2, <2>3, InvParts, PutReplaces
  <2> QED
    BY <1>0, <1>2, <2>2, <2>4, PlainStep, SentFrom, SettledKeepsInv
<1>4. CASE s \notin scopes
  <2> DEFINE v == IF alive THEN "current" ELSE "none"
             c == [call[t] EXCEPT !.at = "primary", !.scope = s, !.seen = v]
  <2>0. v \in Entries
    BY DEF Entries
  <2>1. c \in CallStates /\ c.todo = call[t].todo /\ c.key = call[t].key /\ c.at = "primary"
        /\ c.scope = s
    BY <1>0, <2>0 DEF CallStates, PCs
  <2>2. call' = [call EXCEPT ![t] = c] /\ scopes' = scopes \cup {s}
    BY <1>1, <1>4, InvParts DEF TypeOK
  <2> HIDE DEF c
  <2>3. GoodCall(c)
    BY <1>0, <2>1, GoodLike
  <2>4. Replaces(t) /\ call'[t] = c
    BY <1>2, <2>2, <2>3, InvParts, PutReplaces
  <2>5. Guarded'
    BY <1>0, <1>2, <1>4, <2>1, <2>2, <2>4, InvParts, SentFrom, OneMorePrimary
  <2>6. scopes' \subseteq Scopes
    BY <2>2, InvParts
  <2> QED
    BY <1>2, <2>4, <2>5, <2>6, InvParts, ReplacedTypes, PartsGiveInv DEF Replaces
<1> QED
  BY <1>3, <1>4

LEMMA PrimaryEndsSettles ==
  ASSUME IInv, NEW t \in Calls, PrimaryEnds(t)
  PROVE  Settles(t)
<1>0. At(t, "primary")
  BY DEF PrimaryEnds
<1>1. call[t].todo # <<>> /\ GoodCall(call[t]) /\ call[t] \in CallStates /\ ~Walks(call[t])
  BY <1>0, InvParts, BusyCall DEF At, Walks
<1> DEFINE c == [call[t] EXCEPT !.at = "walked", !.seen = "none"]
<1>2. c \in CallStates /\ c.todo = call[t].todo /\ c.key = call[t].key /\ c.at = "walked"
  BY <1>1 DEF CallStates, PCs, Entries
<1>3. call' = [call EXCEPT ![t] = c] /\ result' = result
  BY InvParts DEF PrimaryEnds, TypeOK
<1> HIDE DEF c
<1>4. Replaces(t) /\ call'[t].at = "walked"
  BY <1>1, <1>2, <1>3, GoodLike, InvParts, PutReplaces
<1>5. Released(t)
  BY <1>0, <1>1 DEF PrimaryEnds, Released, At
<1>6. OthersOK'
  <2>1. entry' \in Entries
    BY <1>1, InvParts DEF PrimaryEnds, CallStates, Entries, OthersOK
  <2> QED
    BY <2>1, InvParts DEF PrimaryEnds, OthersOK
<1> QED
  BY <1>4, <1>5, <1>6 DEF Settles, Walks

LEMMA AskKeepsInv ==
  ASSUME IInv, NEW t \in Calls, Ask(t)
  PROVE  IInv'
<1>0. At(t, "step") /\ call[t].todo # <<>> /\ GoodCall(call[t]) /\ call[t] \in CallStates
  BY InvParts, BusyCall, SentFrom DEF Ask
<1> DEFINE v == IF alive /\ Op(t) # "read" THEN "current" ELSE "none"
           c == [call[t] EXCEPT !.at = "asked", !.seen = v]
<1>1. v \in Entries
  BY DEF Entries
<1>2. c \in CallStates /\ c.todo = call[t].todo /\ c.key = call[t].key /\ c.at = "asked"
  BY <1>0, <1>1 DEF CallStates, PCs
<1>3. call' = [call EXCEPT ![t] = c] /\ result' = result
  BY InvParts DEF Ask, TypeOK
<1> HIDE DEF c
<1>4. Replaces(t) /\ call'[t] = c
  BY <1>0, <1>2, <1>3, GoodLike, InvParts, PutReplaces
<1>5. scopes' = scopes /\ OthersOK'
  BY InvParts DEF Ask, OthersOK
<1>6. Walks(c) <=> Op(t) = "walk"
  BY <1>0, <1>2 DEF Walks, Op
<1>7. Guarded'
  <2>1. CASE Op(t) = "walk"
    <3>1. walks' = walks + 1
      BY <2>1 DEF Ask
    <3> QED
      BY <1>0, <1>4, <1>5, <1>6, <2>1, <3>1, InvParts, SentFrom, OneMoreWalk
  <2>2. CASE Op(t) # "walk"
    <3>1. walks' = walks
      BY <2>2 DEF Ask
    <3>2. Released(t)
      BY <1>0, <1>5, <3>1, SentFrom, NothingHeld
    <3>3. call'[t].at # "primary"
      BY <1>2, <1>4
    <3> QED
      BY <1>4, <1>6, <2>2, <3>2, <3>3, InvParts, NothingToGuard, OthersInPlace
  <2> QED
    BY <2>1, <2>2
<1> QED
  BY <1>4, <1>5, <1>7, InvParts, ReplacedTypes, PartsGiveInv DEF Replaces

LEMMA AnswersSettle ==
  ASSUME IInv, NEW t \in Calls, Answer(t) \/ AnswerFails(t)
  PROVE  Settles(t)
<1>0. At(t, "asked")
  BY DEF Answer, AnswerFails
<1>1. call[t].todo # <<>> /\ GoodCall(call[t]) /\ call[t] \in CallStates
  BY <1>0, InvParts, BusyCall DEF At
<1>2. Replaces(t) /\ call'[t].at \in {"step", "done"}
  <2>1. CASE Answer(t)
    BY <1>1, <2>1, InvParts, ProceedReplaces DEF Answer
  <2>2. CASE AnswerFails(t)
    BY <1>1, <2>2, InvParts, GiveUpReplaces DEF AnswerFails
  <2> QED
    BY <2>1, <2>2
<1>3. Released(t)
  BY ReleasedIs DEF Answer, AnswerFails
<1>4. OthersOK'
  <2>1. entry' \in Entries
    BY <1>1, InvParts DEF Answer, AnswerFails, CallStates, Entries, OthersOK
  <2> QED
    BY <2>1, InvParts DEF Answer, AnswerFails, OthersOK
<1> QED
  BY <1>2, <1>3, <1>4, ToStepOrDone DEF Settles

LEMMA ProbesSettle ==
  ASSUME IInv, NEW t \in Calls, TakeProbeLock(t) \/ ProbeEnds(t)
  PROVE  Settles(t)
<1>1. Op(t) = "probe"
  BY DEF TakeProbeLock, ProbeEnds, Doing
<1>2. call[t].todo # <<>> /\ GoodCall(call[t]) /\ call[t] \in CallStates
  BY <1>1, InvParts, BusyCall
<1>3. call[t].at \in {"step", "asked"} /\ ~Walks(call[t])
  BY <1>1 DEF TakeProbeLock, ProbeEnds, Doing, At, Op, Walks
<1>4. UNCHANGED <<scopes, walks>> /\ OthersOK'
  BY InvParts DEF TakeProbeLock, ProbeEnds, OthersOK
<1>5. Released(t)
  BY <1>3, <1>4, NothingHeld
<1>6. CASE TakeProbeLock(t)
  <2> DEFINE c == [call[t] EXCEPT !.at = "asked"]
  <2>1. c \in CallStates /\ c.todo = call[t].todo /\ c.key = call[t].key /\ c.at = "asked"
    BY <1>2 DEF CallStates, PCs
  <2>2. call' = [call EXCEPT ![t] = c] /\ result' = result
    BY <1>6, InvParts DEF TakeProbeLock, TypeOK
  <2> HIDE DEF c
  <2>3. Replaces(t) /\ call'[t] = c
    BY <1>2, <2>1, <2>2, GoodLike, InvParts, PutReplaces
  <2>4. ~Walks(c) /\ c.at # "primary"
    BY <1>1, <2>1 DEF Walks, Op
  <2> QED
    BY <1>4, <1>5, <2>3, <2>4 DEF Settles
<1>7. CASE ProbeEnds(t)
  <2>1. Replaces(t) /\ call'[t].at \in {"step", "done"}
    BY <1>2, <1>7, InvParts, ProceedReplaces DEF ProbeEnds
  <2> QED
    BY <1>4, <1>5, <2>1, ToStepOrDone DEF Settles
<1> QED
  BY <1>6, <1>7

LEMMA SendSettles ==
  ASSUME IInv, NEW t \in Calls, Send(t)
  PROVE  Settles(t)
<1>0. At(t, "step") /\ call[t].todo # <<>> /\ GoodCall(call[t]) /\ call[t] \in CallStates
  BY InvParts, BusyCall, SentFrom DEF Send
<1> DEFINE o == Op(t)
           c == [call[t] EXCEPT !.at = "sent", !.landed = FALSE, !.wrote = o, !.answered = FALSE]
<1>1. o \in WriteOps
  BY DEF Send
<1>2. call' = [call EXCEPT ![t] = c] /\ result' = result
  BY InvParts DEF Send, TypeOK
<1> HIDE DEF o
<1>3. c \in CallStates /\ c.todo = call[t].todo /\ c.key = call[t].key /\ c.at = "sent"
  BY <1>0, <1>1 DEF CallStates, PCs
<1> HIDE DEF c
<1>4. Replaces(t) /\ call'[t] = c
  BY <1>0, <1>2, <1>3, GoodLike, InvParts, PutReplaces
<1>5. UNCHANGED <<scopes, walks>> /\ OthersOK'
  BY InvParts DEF Send, OthersOK, shared
<1> QED
  BY <1>0, <1>3, <1>4, <1>5, PlainStep, SentFrom

LEMMA RepliesSettle ==
  ASSUME IInv, NEW t \in Calls, Confirmed(t) \/ Refused(t)
  PROVE  Settles(t)
<1>0. At(t, "sent")
  BY DEF Confirmed, Refused
<1>1. call[t].todo # <<>> /\ GoodCall(call[t]) /\ call[t] \in CallStates
  BY <1>0, InvParts, BusyCall DEF At
<1>2. UNCHANGED <<scopes, walks>> /\ OthersOK'
  BY InvParts DEF Confirmed, Refused, OthersOK, shared
<1>3. CASE Confirmed(t)
  <2> DEFINE b == call[t].owed \/ Op(t) \in {"change", "touch", "delete"}
             c == [call[t] EXCEPT !.answered = TRUE, !.owed = b]
  <2>1. Proceed(t, c)
    BY <1>3 DEF Confirmed
  <2>2. b \in BOOLEAN
    BY <1>1 DEF CallStates
  <2> HIDE DEF b
  <2>3. c \in CallStates /\ c.todo = call[t].todo /\ c.key = call[t].key /\ c.at = call[t].at
    BY <1>1, <2>2 DEF CallStates
  <2> HIDE DEF c
  <2>4. GoodCall(c)
    BY <1>0, <1>1, <2>3, GoodLike DEF At
  <2>5. Replaces(t) /\ call'[t].at \in {"step", "done"}
    BY <1>1, <2>1, <2>3, <2>4, InvParts, ProceedReplaces
  <2> QED
    BY <1>0, <1>2, <2>5, SentFrom, PlainStep
<1>4. CASE Refused(t)
  <2>1. Replaces(t) /\ call'[t].at \in {"step", "done"}
    BY <1>1, <1>4, InvParts, GiveUpReplaces DEF Refused
  <2> QED
    BY <1>0, <1>2, <2>1, SentFrom, PlainStep
<1> QED
  BY <1>3, <1>4

LEMMA AbandonSettles ==
  ASSUME IInv, NEW t \in Calls, Abandon(t)
  PROVE  Settles(t)
<1>1. Return(t, "dropped") /\ Released(t)
  BY ReleasedIs DEF Abandon
<1>2. Replaces(t) /\ call'[t].at = "done"
  BY <1>1, InvParts, ReturnReplaces DEF Outcomes
<1>3. OthersOK'
  BY InvParts DEF Abandon, OthersOK
<1> QED
  BY <1>1, <1>2, <1>3, ToStepOrDone DEF Settles

\* A step that leaves every call where it is.
LEMMA MovesNobody ==
  ASSUME IInv, UNCHANGED <<walks, scopes>>, OthersOK', result' \in [Calls -> Outcomes],
         call' \in [Calls -> CallStates],
         \A u \in Calls : /\ call'[u].at = call[u].at /\ call'[u].todo = call[u].todo
                          /\ call'[u].scope = call[u].scope /\ call'[u].key = call[u].key
  PROVE  IInv'
<1>1. Guarded'
  BY InvParts, NobodyMoves
<1>2. \A u \in Calls : GoodCall(call'[u])
  BY InvParts DEF TypeInv, GoodCall
<1> QED
  BY <1>1, <1>2, InvParts, PartsGiveInv

LEMMA LandKeepsInv ==
  ASSUME IInv, NEW t \in Calls, Land(t)
  PROVE  IInv'
<1> DEFINE hit == alive /\ wire[t] \in {"change", "delete", "uproot"}
           l(u) == IF u = t THEN TRUE ELSE call[u].landed
           s(u) == IF hit /\ call[u].seen = "current" THEN "crossed" ELSE call[u].seen
<1>1. call' = [u \in Calls |-> [call[u] EXCEPT !.landed = l(u), !.seen = s(u)]]
  BY DEF Land
<1>2. \A u \in Calls : call[u] \in CallStates
  BY InvParts DEF TypeInv, GoodCall
<1>3. \A u \in Calls : l(u) \in BOOLEAN /\ s(u) \in Entries
  BY <1>2 DEF CallStates, Entries
<1> HIDE DEF l, s, hit
<1>4. ASSUME NEW u \in Calls
      PROVE  /\ call'[u] \in CallStates /\ call'[u].at = call[u].at /\ call'[u].todo = call[u].todo
             /\ call'[u].scope = call[u].scope /\ call'[u].key = call[u].key
  <2>1. call'[u] = [call[u] EXCEPT !.landed = l(u), !.seen = s(u)]
    BY <1>1
  <2> DEFINE c == call[u]
  <2>2. c \in CallStates /\ l(u) \in BOOLEAN /\ s(u) \in Entries
    BY <1>2, <1>3
  <2> HIDE DEF c
  <2>3. [c EXCEPT !.landed = l(u), !.seen = s(u)] \in CallStates
    BY <2>2 DEF CallStates
  <2>4. /\ call'[u].at = c.at /\ call'[u].todo = c.todo /\ call'[u].scope = c.scope
        /\ call'[u].key = c.key
    BY <2>1, <2>2 DEF CallStates, c
  <2> QED
    BY <2>1, <2>3, <2>4 DEF c
<1>5. call' \in [Calls -> CallStates]
  BY <1>1, <1>4
<1>6. entry' \in Entries
  BY InvParts DEF Land, Outdated, Entries, OthersOK
<1>7. alive' \in BOOLEAN
  BY InvParts DEF Land, OthersOK
<1>8. UNCHANGED <<walks, scopes>> /\ OthersOK' /\ result' \in [Calls -> Outcomes]
  BY <1>6, <1>7, InvParts DEF Land, OthersOK, TypeOK, Outcomes
<1> QED
  BY <1>4, <1>5, <1>8, MovesNobody

LEMMA StillKnownKeeps ==
  ASSUME NEW c \in [Calls -> CallStates], NEW kept
  PROVE  /\ StillKnown(c, kept) \in [Calls -> CallStates]
         /\ \A u \in Calls :
              LET d == StillKnown(c, kept)[u]
              IN /\ d.at = c[u].at /\ d.todo = c[u].todo /\ d.scope = c[u].scope /\ d.key = c[u].key
                 /\ d.wrote = c[u].wrote
                 /\ d.known <=> c[u].known /\ \E i \in DOMAIN kept : kept[i] = c[u].key
<1> DEFINE k(u) == c[u].known /\ \E i \in DOMAIN kept : kept[i] = c[u].key
<1>1. StillKnown(c, kept) = [u \in Calls |-> [c[u] EXCEPT !.known = k(u)]]
  BY DEF StillKnown
<1>2. \A u \in Calls : k(u) \in BOOLEAN
  BY DEF CallStates
<1>3. \A u \in Calls : k(u) <=> c[u].known /\ \E i \in DOMAIN kept : kept[i] = c[u].key
  BY DEF CallStates
<1> HIDE DEF k
<1>4. ASSUME NEW u \in Calls
      PROVE  LET d == StillKnown(c, kept)[u]
             IN /\ d \in CallStates
                /\ d.at = c[u].at /\ d.todo = c[u].todo /\ d.scope = c[u].scope /\ d.key = c[u].key
                /\ d.wrote = c[u].wrote /\ d.known = k(u)
  <2>1. StillKnown(c, kept)[u] = [c[u] EXCEPT !.known = k(u)] /\ c[u] \in CallStates
    BY <1>1
  <2> QED
    BY <1>2, <2>1 DEF CallStates
<1>5. StillKnown(c, kept) \in [Calls -> CallStates]
  BY <1>1, <1>4
<1> QED
  BY <1>3, <1>4, <1>5

LEMMA ExpireKeepsInv ==
  ASSUME IInv, Expire
  PROVE  IInv'
<1>1. call \in [Calls -> CallStates] /\ store \in Seq(Keys) /\ store # <<>> /\ Len(store) <= MaxEntries
  BY InvParts DEF Expire, TypeOK
<1>2. store' \in Seq(Keys) /\ Len(store') <= MaxEntries
  BY <1>1, BoundAssumption, HeadTailProperties DEF Expire
<1>3. call' = StillKnown(call, store')
  BY DEF Expire
<1>4. UNCHANGED <<walks, scopes>> /\ OthersOK' /\ result' \in [Calls -> Outcomes]
  BY <1>2, InvParts DEF Expire, OthersOK, TypeOK, Outcomes
<1> QED
  BY <1>1, <1>3, <1>4, StillKnownKeeps, MovesNobody

LEMMA WithoutType ==
  ASSUME NEW s \in Seq(Keys), NEW k
  PROVE  Without(s, k) \in Seq(Keys) /\ Len(Without(s, k)) <= Len(s)
<1>1. CASE \E i \in DOMAIN s : s[i] = k
  <2> DEFINE i == CHOOSE i \in DOMAIN s : s[i] = k
  <2>1. i \in 1..Len(s) /\ Len(s) \in Nat
    BY <1>1, LenProperties
  <2> HIDE DEF i
  <2> DEFINE a == SubSeq(s, 1, i - 1)  b == SubSeq(s, i + 1, Len(s))
  <2>0. \A j \in 1..Len(s) : s[j] \in Keys
    BY ElementOfSeq
  <2>2. a \in Seq(Keys) /\ Len(a) = i - 1
    <3>1. 1 \in Int /\ i - 1 \in Int /\ \A j \in 1..(i - 1) : s[j] \in Keys
      BY <2>0, <2>1
    <3>2. a \in Seq(Keys) /\ Len(a) = IF 1 <= i - 1 THEN (i - 1) - 1 + 1 ELSE 0
      BY <3>1, SubSeqProperties
    <3> QED
      BY <2>1, <3>2
  <2>3. b \in Seq(Keys) /\ Len(b) = Len(s) - i
    <3>1. i + 1 \in Int /\ Len(s) \in Int /\ \A j \in (i + 1)..Len(s) : s[j] \in Keys
      BY <2>0, <2>1
    <3>2. b \in Seq(Keys) /\ Len(b) = IF i + 1 <= Len(s) THEN Len(s) - (i + 1) + 1 ELSE 0
      BY <3>1, SubSeqProperties
    <3> QED
      BY <2>1, <3>2
  <2> HIDE DEF a, b
  <2>7. a \o b \in Seq(Keys) /\ Len(a \o b) = Len(a) + Len(b)
    BY <2>2, <2>3, ConcatProperties, Zenon
  <2>4. a \o b \in Seq(Keys) /\ Len(a \o b) = (i - 1) + (Len(s) - i)
    BY <2>2, <2>3, <2>7
  <2>5. Len(a \o b) <= Len(s)
    BY <2>1, <2>4
  <2>6. Without(s, k) = a \o b
    BY <1>1 DEF Without, i, a, b
  <2> QED
    BY <2>4, <2>5, <2>6
<1>2. CASE ~ \E i \in DOMAIN s : s[i] = k
  BY <1>2 DEF Without
<1> QED
  BY <1>1, <1>2

LEMMA NewestType ==
  ASSUME NEW s \in Seq(Keys), NEW k \in Keys, Len(s) <= MaxEntries
  PROVE  /\ Newest(Append(Without(s, k), k)) \in Seq(Keys)
         /\ Len(Newest(Append(Without(s, k), k))) <= MaxEntries
<1> DEFINE f == Without(s, k)
           a == Append(f, k)
<1>1. f \in Seq(Keys) /\ Len(f) <= Len(s)
  BY WithoutType
<1> HIDE DEF f
<1>2. a \in Seq(Keys) /\ Len(a) = Len(f) + 1 /\ a # <<>>
  BY <1>1
<1> HIDE DEF a
<1>3. Tail(a) \in Seq(Keys) /\ Len(Tail(a)) = Len(a) - 1
  BY <1>2, HeadTailProperties
<1>4. Len(f) \in Nat /\ Len(s) \in Nat /\ MaxEntries \in Nat
  BY <1>1, BoundAssumption
<1>5. Newest(a) \in Seq(Keys) /\ Len(Newest(a)) <= MaxEntries
  BY <1>1, <1>2, <1>3, <1>4 DEF Newest
<1> QED
  BY <1>5 DEF a, f

LEMMA RecordKeepsInv ==
  ASSUME IInv, NEW t \in Calls, RecordStep(t)
  PROVE  IInv'
<1>0. At(t, "step") /\ call[t].todo # <<>> /\ GoodCall(call[t]) /\ call[t] \in CallStates
      /\ Head(call[t].todo).op = "record"
  BY InvParts, BusyCall, SentFrom DEF RecordStep, Doing, Op
<1>1. call[t].key \in Keys
  <2>1. call[t].todo \in Seq(Steps)
    BY <1>0 DEF CallStates
  <2> QED
    BY <1>0, <2>1, HeadOfSteps DEF GoodCall
<1>2. store' \in Seq(Keys) /\ Len(store') <= MaxEntries
  BY <1>1, InvParts, NewestType DEF RecordStep, TypeOK
<1> DEFINE ended == [call EXCEPT ![t] = Ended(call[t])]
<1>3. GoodCall(Ended(call[t])) /\ Ended(call[t]).at = "done" /\ Ended(call[t]) \in CallStates
  BY <1>0, EndedGood DEF GoodCall
<1>4. ended \in [Calls -> CallStates] /\ ended[t] = Ended(call[t])
      /\ \A u \in Calls : u # t => ended[u] = call[u]
  BY <1>3, InvParts DEF TypeOK
<1>5. call' = StillKnown(ended, store')
  BY DEF RecordStep
<1> HIDE DEF ended
<1>6. /\ call' \in [Calls -> CallStates]
      /\ \A u \in Calls : /\ call'[u].at = ended[u].at /\ call'[u].todo = ended[u].todo
                          /\ call'[u].scope = ended[u].scope /\ call'[u].key = ended[u].key
  BY <1>4, <1>5, StillKnownKeeps
<1>7. \A u \in Calls : u # t => SamePlace(call'[u], call[u])
  BY <1>4, <1>6 DEF SamePlace
<1>8. call'[t].at = "done"
  BY <1>3, <1>4, <1>6
<1>9. UNCHANGED <<walks, scopes>> /\ OthersOK' /\ result' \in [Calls -> Outcomes]
  BY <1>2, InvParts DEF RecordStep, OthersOK, TypeOK, Outcomes
<1>10. Guarded'
  BY <1>0, <1>7, <1>8, <1>9, InvParts, SentFrom, NothingHeld, ToStepOrDone, NothingToGuard
<1>11. \A u \in Calls : GoodCall(ended[u])
  BY <1>3, <1>4, InvParts DEF TypeInv
<1>12. \A u \in Calls : GoodCall(call'[u])
  BY <1>6, <1>11 DEF GoodCall
<1> QED
  BY <1>6, <1>9, <1>10, <1>12, InvParts, PartsGiveInv

LEMMA StartSettles ==
  ASSUME IInv, NEW t \in Calls, Start(t)
  PROVE  Settles(t)
<1>0. At(t, "idle") /\ ~Walks(call[t]) /\ call[t].at # "primary"
  BY DEF Start, At, Walks
<1>1. PICK p \in Programs, k \in Keys \cup {NoKey} :
        /\ k \in KeyOf(p)
        /\ call' = [call EXCEPT ![t] = [Fresh EXCEPT
             !.kind = p.kind, !.todo = p.steps, !.at = "step",
             !.snapshot = generation, !.key = k, !.known = Recorded(k)]]
  BY DEF Start
<1> DEFINE b == Recorded(k)
           c == [Fresh EXCEPT !.kind = p.kind, !.todo = p.steps, !.at = "step",
                              !.snapshot = generation, !.key = k, !.known = b]
<1>2. p.kind \in Kinds /\ p.steps \in Seq(Steps) /\ p.steps # <<>> /\ KeyComesFirst(p.steps)
  BY ProgramAssumption
<1>3. b \in BOOLEAN
  BY DEF Recorded
<1>4. call' = [call EXCEPT ![t] = c]
  BY <1>1
<1> HIDE DEF b
<1>5. c \in CallStates /\ c.todo = p.steps /\ c.key = k /\ c.at = "step"
  <2>1. Fresh \in CallStates /\ "step" \in PCs /\ generation \in 0..MaxCancels
    BY FreshGood, InvParts DEF GoodCall, PCs, TypeOK
  <2> QED
    BY <1>2, <1>3, <2>1 DEF CallStates, Fresh
<1>6. \A i \in DOMAIN c.todo : c.todo[i].op = "record" => c.key \in Keys
  <2> SUFFICES ASSUME NEW i \in DOMAIN p.steps, p.steps[i].op = "record" PROVE k \in Keys
    BY <1>5
  <2>1. PICK j \in 1..(i - 1) : p.steps[j] = Keyed
    BY <1>2 DEF KeyComesFirst
  <2>2. DOMAIN p.steps = 1..Len(p.steps) /\ Len(p.steps) \in Nat
    BY <1>2, LenProperties
  <2>3. j \in DOMAIN p.steps
    BY <2>2
  <2> QED
    BY <1>1, <2>1, <2>3 DEF KeyOf
<1> HIDE DEF c
<1>7. GoodCall(c)
  BY <1>2, <1>5, <1>6 DEF GoodCall
<1>8. UNCHANGED <<scopes, walks>> /\ result' = result /\ OthersOK'
  BY InvParts DEF Start, OthersOK, shared
<1>9. Replaces(t) /\ call'[t].at = "step"
  BY <1>4, <1>5, <1>7, <1>8, InvParts, PutReplaces
<1> QED
  BY <1>0, <1>8, <1>9, PlainStep

LEMMA InvInit == Init => IInv
<1> SUFFICES ASSUME Init PROVE IInv
  OBVIOUS
<1>1. call = [t \in Calls |-> Fresh] /\ GoodCall(Fresh) /\ Fresh \in CallStates
  BY FreshGood DEF Init, GoodCall
<1>2. \A t \in Calls : call[t] = Fresh
  BY <1>1
<1>3. Work = {} /\ Primaries = {}
  BY <1>2 DEF Work, Walks, Primaries, Fresh
<1>4. Guarded
  BY <1>3, FS_EmptySet DEF Guarded, Init
<1>5. <<>> \in Seq(Keys) /\ Len(<<>>) = 0
  BY EmptySeq
<1>6. TypeOK
  BY <1>1, <1>2, <1>5, BoundAssumption DEF TypeOK, Init, Entries, GoodCall
<1> QED
  BY <1>1, <1>2, <1>4, <1>6 DEF IInv, TypeInv

LEMMA InvStep == IInv /\ [Next]_vars => IInv'
<1> SUFFICES ASSUME IInv, [Next]_vars PROVE IInv'
  OBVIOUS
<1>1. ASSUME NEW t \in Calls, Start(t) \/ Abandon(t) PROVE IInv'
  BY <1>1, StartSettles, AbandonSettles, SettledKeepsInv
<1>2. ASSUME NEW t \in Calls, LocalStep(t) PROVE IInv'
  BY <1>2, LocalSteps, DropSteps, RecordKeepsInv, SettledKeepsInv DEF LocalStep
<1>3. ASSUME NEW t \in Calls, ResolveStep(t) PROVE IInv'
  BY <1>3, ResolveSteps, ClaimKeepsInv, PrimaryEndsSettles, StopWaitingSettles, SettledKeepsInv
     DEF ResolveStep
<1>4. ASSUME NEW t \in Calls, RequestStep(t) PROVE IInv'
  BY <1>4, AskKeepsInv, AnswersSettle, ProbesSettle, SendSettles, RepliesSettle, SettledKeepsInv
     DEF RequestStep
<1>5. ASSUME NEW t \in Calls, Delivery(t) PROVE IInv'
  <2>1. CASE Lose(t)
    <3>1. UNCHANGED <<walks, scopes>> /\ OthersOK' /\ call' = call /\ result' \in [Calls -> Outcomes]
      BY <2>1, InvParts DEF Lose, shared, OthersOK, TypeOK, Outcomes
    <3> QED
      BY <3>1, InvParts, MovesNobody DEF TypeOK
  <2> QED
    BY <1>5, <2>1, LandKeepsInv DEF Delivery
<1>6. CASE Expire
  BY <1>6, ExpireKeepsInv
<1>7. CASE UNCHANGED vars
  <2>1. UNCHANGED <<walks, scopes>> /\ OthersOK' /\ call' = call /\ result' \in [Calls -> Outcomes]
    BY <1>7, InvParts DEF vars, shared, OthersOK, TypeOK, Outcomes
  <2> QED
    BY <2>1, InvParts, MovesNobody DEF TypeOK
<1> QED
  BY <1>1, <1>2, <1>3, <1>4, <1>5, <1>6, <1>7 DEF Next, HandlerStep

(* Every variable keeps its type, whatever the tools are: in particular the  *)
(* walk counter never goes below zero and the store keeps to its cap.        *)
THEOREM ServerTyping == Spec => []TypeOK
<1>1. IInv => TypeOK
  BY DEF IInv, TypeInv
<1> QED
  BY InvInit, InvStep, <1>1, PTL DEF Spec

(* However handlers end, the walk counter is the number of walks under way   *)
(* and each marked scope is walked by exactly one call (WalkGuard,           *)
(* InflightResolveGuard).                                                    *)
THEOREM GuardsHold == Spec => []GuardsMatchWork
<1>1. IInv => GuardsMatchWork
  BY GuardedIs DEF IInv
<1> QED
  BY InvInit, InvStep, <1>1, PTL DEF Spec

-----------------------------------------------------------------------------
(* Idempotency. A call whose key is known still has its lookup before it,    *)
(* and nothing that creates comes before the lookup.                         *)

InStore(s, k) == \E i \in DOMAIN s : s[i] = k
LooksFirst(todo) ==
  \E i \in DOMAIN todo : todo[i] = Keyed /\ \A j \in 1..i : todo[j].op # "create"
KeyedOK(c, s) ==
  /\ c.at \in {"waiting", "primary", "walked", "sent"} => Head(c.todo).op # "keyed"
  /\ c.known => InStore(s, c.key) /\ c.wrote # "create" /\ LooksFirst(c.todo)
KeyInv == \A t \in Calls : KeyedOK(call[t], store)

LEMMA EndedKeyed ==
  ASSUME NEW c, NEW s
  PROVE  KeyedOK(Ended(c), s)
<1>1. Ended(c).at = "done" /\ Ended(c).known = FALSE
  BY DEF Ended, Fresh
<1> QED
  BY <1>1 DEF KeyedOK

LEMMA LookupStaysFirst ==
  ASSUME NEW todo \in Seq(Steps), todo # <<>>, Head(todo).op # "keyed", LooksFirst(todo)
  PROVE  Len(todo) # 1 /\ LooksFirst(Tail(todo))
<1>1. PICK i \in DOMAIN todo : todo[i] = Keyed /\ \A j \in 1..i : todo[j].op # "create"
  BY DEF LooksFirst
<1>2. i # 1
  BY <1>1, HeadOfSteps DEF Keyed, Must
<1>3. DOMAIN todo = 1..Len(todo) /\ Len(todo) \in Nat
  BY LenProperties
<1>4. Len(todo) # 1
  BY <1>2, <1>3
<1> DEFINE rest == Tail(todo)
<1>5. rest \in Seq(Steps) /\ Len(rest) = Len(todo) - 1
      /\ \A j \in 1..Len(rest) : rest[j] = todo[j + 1]
  BY HeadTailProperties
<1>6. DOMAIN rest = 1..Len(rest)
  BY <1>5, LenProperties
<1> HIDE DEF rest
<1>7. i - 1 \in DOMAIN rest /\ rest[i - 1] = Keyed
  BY <1>1, <1>2, <1>3, <1>5, <1>6
<1>8. ASSUME NEW j \in 1..(i - 1) PROVE rest[j].op # "create"
  <2>1. j \in 1..Len(rest) /\ j + 1 \in 1..i
    BY <1>3, <1>5
  <2>2. rest[j] = todo[j + 1]
    BY <1>5, <2>1
  <2> QED
    BY <1>1, <2>1, <2>2
<1>9. LooksFirst(rest)
  BY <1>7, <1>8 DEF LooksFirst
<1> QED
  BY <1>4, <1>9 DEF rest

\* Past a step that is not the lookup.
LEMMA ProceedKeyed ==
  ASSUME TypeInv, NEW t \in Calls, NEW c, GoodCall(c), c.todo # <<>>, Head(c.todo).op # "keyed",
         NEW s, KeyedOK(c, s), Proceed(t, c)
  PROVE  KeyedOK(call'[t], s)
<1>1. CASE Len(c.todo) = 1
  <2>1. call'[t] = Ended(c)
    BY <1>1 DEF Proceed, TypeInv, TypeOK
  <2> QED
    BY <2>1, EndedKeyed
<1>2. CASE Len(c.todo) # 1
  <2> DEFINE d == [c EXCEPT !.at = "step", !.todo = Tail(c.todo), !.seen = "none", !.scope = "root"]
  <2>1. call'[t] = d
    BY <1>2 DEF Proceed, TypeInv, TypeOK
  <2>2. c \in CallStates /\ c.todo \in Seq(Steps)
    BY DEF GoodCall, CallStates
  <2>3. d.at = "step" /\ d.todo = Tail(c.todo) /\ d.key = c.key /\ d.known = c.known
        /\ d.wrote = c.wrote
    BY <2>2 DEF CallStates
  <2> HIDE DEF d
  <2>4. c.known => LooksFirst(Tail(c.todo))
    BY <2>2, LookupStaysFirst DEF KeyedOK
  <2>5. KeyedOK(d, s)
    BY <2>3, <2>4 DEF KeyedOK
  <2> QED
    BY <2>1, <2>5
<1> QED
  BY <1>1, <1>2

LEMMA ReturnKeyed ==
  ASSUME TypeInv, NEW t \in Calls, NEW r, Return(t, r), NEW s
  PROVE  KeyedOK(call'[t], s)
BY EndedKeyed DEF Return, TypeInv, TypeOK

\* The same place of the program, or the same program elsewhere.
LEMMA LikeKeyed ==
  ASSUME NEW c, NEW d, NEW s, KeyedOK(c, s), d.todo = c.todo, d.key = c.key, d.known = c.known,
         d.wrote = c.wrote \/ d.wrote # "create",
         d.at \in {"waiting", "primary", "walked", "sent"} => Head(d.todo).op # "keyed"
  PROVE  KeyedOK(d, s)
BY DEF KeyedOK

\* What a step of t has to show.
KeyStep(t) == store' = store /\ KeyedOK(call'[t], store)
              /\ \A u \in Calls : u # t => call'[u] = call[u]

LEMMA KeyStepKeeps ==
  ASSUME KeyInv, NEW t \in Calls, KeyStep(t)
  PROVE  KeyInv'
BY DEF KeyInv, KeyStep

LEMMA OthersSame ==
  ASSUME TypeInv, NEW t \in Calls, NEW c, call' = [call EXCEPT ![t] = c]
  PROVE  call'[t] = c /\ \A u \in Calls : u # t => call'[u] = call[u]
BY DEF TypeInv, TypeOK

LEMMA EndOthers ==
  ASSUME TypeInv, NEW t \in Calls,
         (\E r : Return(t, r)) \/ (\E c : Proceed(t, c)) \/ GiveUp(t)
  PROVE  \A u \in Calls : u # t => call'[u] = call[u]
BY DEF Return, Proceed, GiveUp, TypeInv, TypeOK

\* The operation under way, from the program.
LEMMA OpIs ==
  ASSUME TypeInv, NEW t \in Calls, call[t].todo # <<>>
  PROVE  Head(call[t].todo).op = Op(t)
BY DEF Op

\* Steps that return, or go on from a place that is not the lookup.
LEMMA PlainKeyed ==
  ASSUME IInv, KeyInv, NEW t \in Calls, call[t].todo # <<>>, Head(call[t].todo).op # "keyed",
         (\E r : Return(t, r)) \/ Proceed(t, call[t]) \/ GiveUp(t), store' = store
  PROVE  KeyStep(t)
<1>1. GoodCall(call[t]) /\ KeyedOK(call[t], store)
  BY InvParts, BusyCall DEF KeyInv
<1>2. \A u \in Calls : u # t => call'[u] = call[u]
  BY InvParts, EndOthers
<1>3. (\E r : Return(t, r)) \/ Proceed(t, call[t])
  BY DEF GiveUp
<1>4. KeyedOK(call'[t], store)
  BY <1>1, <1>3, InvParts, ProceedKeyed, ReturnKeyed
<1> QED
  BY <1>2, <1>4 DEF KeyStep

LEMMA KeyLocal ==
  ASSUME IInv, KeyInv, NEW t \in Calls, CheckStep(t) \/ CancelStep(t) \/ SettleStep(t)
  PROVE  KeyStep(t)
<1>1. Op(t) # "keyed" /\ Op(t) # "none" /\ store' = store
  BY DEF CheckStep, CancelStep, SettleStep, Doing, shared
<1>2. call[t].todo # <<>> /\ Head(call[t].todo).op # "keyed"
  BY <1>1, InvParts, BusyCall, OpIs
<1>3. (\E r : Return(t, r)) \/ Proceed(t, call[t])
  BY DEF CheckStep, CancelStep, SettleStep
<1> QED
  BY <1>1, <1>2, <1>3, PlainKeyed

\* The lookup itself: a known key is found.
LEMMA KeyLookup ==
  ASSUME IInv, KeyInv, NEW t \in Calls, KeyedStep(t)
  PROVE  KeyStep(t)
<1>0. KeyedOK(call[t], store) /\ GoodCall(call[t]) /\ call[t].todo # <<>> /\ store' = store
      /\ call[t] \in CallStates
  BY InvParts, BusyCall DEF KeyInv, KeyedStep, Doing, shared
<1>1. CASE Recorded(call[t].key)
  <2>1. Return(t, "answer")
    BY <1>1 DEF KeyedStep
  <2> QED
    BY <1>0, <2>1, InvParts, ReturnKeyed, EndOthers DEF KeyStep
<1>2. CASE ~Recorded(call[t].key)
  <2>1. Proceed(t, call[t])
    BY <1>2 DEF KeyedStep
  <2>2. ~call[t].known
    BY <1>0, <1>2 DEF KeyedOK, InStore, Recorded
  <2>3. KeyedOK(call'[t], store)
    <3>1. CASE Len(call[t].todo) = 1
      <4>1. call'[t] = Ended(call[t])
        BY <2>1, <3>1, InvParts DEF Proceed, TypeOK
      <4> QED
        BY <4>1, EndedKeyed
    <3>2. CASE Len(call[t].todo) # 1
      <4> DEFINE d == [call[t] EXCEPT !.at = "step", !.todo = Tail(call[t].todo),
                                      !.seen = "none", !.scope = "root"]
      <4>1. call'[t] = d
        BY <2>1, <3>2, InvParts DEF Proceed, TypeOK
      <4>2. d.at = "step" /\ d.known = call[t].known
        BY <1>0 DEF CallStates
      <4> HIDE DEF d
      <4> QED
        BY <2>2, <4>1, <4>2 DEF KeyedOK
    <3> QED
      BY <3>1, <3>2
  <2> QED
    BY <1>0, <2>1, <2>3, InvParts, EndOthers DEF KeyStep
<1> QED
  BY <1>1, <1>2

LEMMA KeyDrop ==
  ASSUME IInv, KeyInv, NEW t \in Calls, DropStep(t)
  PROVE  KeyStep(t)
<1>0. At(t, "step") /\ Op(t) = "drop" /\ call[t].todo # <<>> /\ GoodCall(call[t])
      /\ call[t] \in CallStates /\ KeyedOK(call[t], store) /\ store' = store
  BY InvParts, BusyCall, SentFrom DEF DropStep, Doing, KeyInv
<1> DEFINE c == [call[t] EXCEPT !.dropped = TRUE]
<1>1. c \in CallStates /\ c.todo = call[t].todo /\ c.key = call[t].key /\ c.at = call[t].at
      /\ c.known = call[t].known /\ c.wrote = call[t].wrote
  BY <1>0 DEF CallStates
<1>2. Proceed(t, c)
  BY DEF DropStep
<1> HIDE DEF c
<1>3. GoodCall(c) /\ c.todo # <<>>
  BY <1>0, <1>1, SentFrom, GoodLike
<1>4. Head(c.todo).op # "keyed" /\ KeyedOK(c, store)
  <2>1. Head(c.todo).op # "keyed"
    BY <1>0, <1>1, InvParts, OpIs
  <2> QED
    BY <1>0, <1>1, <2>1, LikeKeyed
<1> QED
  BY <1>0, <1>2, <1>3, <1>4, InvParts, ProceedKeyed, EndOthers DEF KeyStep

LEMMA KeyResolve ==
  ASSUME IInv, KeyInv, NEW t \in Calls, Resolve(t) \/ Adopt(t) \/ LinkKnown(t) \/ AfterWalk(t)
  PROVE  KeyStep(t)
<1>1. store' = store /\ ((\E r : Return(t, r)) \/ Proceed(t, call[t]))
  BY DEF Resolve, Adopt, LinkKnown, AfterWalk, shared
<1>2. call[t].todo # <<>> /\ Head(call[t].todo).op # "keyed"
  <2>1. CASE At(t, "walked")
    BY <2>1, InvParts, BusyCall DEF At, KeyInv, KeyedOK
  <2>2. CASE ~At(t, "walked")
    <3>1. Op(t) \in {"ref", "link"}
      BY <2>2 DEF Resolve, Adopt, LinkKnown, AfterWalk, Doing
    <3> QED
      BY <3>1, InvParts, BusyCall, OpIs
  <2> QED
    BY <2>1, <2>2
<1> QED
  BY <1>1, <1>2, PlainKeyed

LEMMA KeyClaim ==
  ASSUME IInv, KeyInv, NEW t \in Calls, Claim(t)
  PROVE  KeyStep(t)
<1>0. Op(t) \in {"ref", "link"} /\ call[t].todo # <<>> /\ call[t] \in CallStates
      /\ KeyedOK(call[t], store) /\ store' = store
  BY InvParts, BusyCall DEF Claim, Doing, KeyInv
<1>1. PICK s \in Scopes, l \in {"waiting", "primary"}, v \in Entries :
        call' = [call EXCEPT ![t] = [call[t] EXCEPT !.at = l, !.scope = s, !.seen = v]]
  <2>1. PICK s \in Scopes :
          \/ call' = [call EXCEPT ![t].at = "waiting", ![t].scope = s]
          \/ call' = [call EXCEPT ![t].at = "primary", ![t].scope = s,
                        ![t].seen = IF alive THEN "current" ELSE "none"]
    BY DEF Claim, Scopes
  <2>2. CASE call' = [call EXCEPT ![t].at = "waiting", ![t].scope = s]
    <3>1. call[t].seen \in Entries /\ [call[t] EXCEPT !.at = "waiting", !.scope = s]
            = [call[t] EXCEPT !.at = "waiting", !.scope = s, !.seen = call[t].seen]
      BY <1>0 DEF CallStates
    <3>2. call' = [call EXCEPT ![t] = [call[t] EXCEPT !.at = "waiting", !.scope = s]]
      BY <2>2, InvParts DEF TypeOK
    <3> QED
      BY <3>1, <3>2
  <2>3. CASE call' = [call EXCEPT ![t].at = "primary", ![t].scope = s,
                        ![t].seen = IF alive THEN "current" ELSE "none"]
    <3> DEFINE v == IF alive THEN "current" ELSE "none"
    <3>1. v \in Entries
      BY DEF Entries
    <3>2. call' = [call EXCEPT ![t] = [call[t] EXCEPT !.at = "primary", !.scope = s, !.seen = v]]
      BY <2>3, InvParts DEF TypeOK
    <3> QED
      BY <3>1, <3>2
  <2> QED
    BY <2>1, <2>2, <2>3
<1> DEFINE c == [call[t] EXCEPT !.at = l, !.scope = s, !.seen = v]
<1>2. c.todo = call[t].todo /\ c.key = call[t].key /\ c.known = call[t].known
      /\ c.wrote = call[t].wrote
  BY <1>0 DEF CallStates
<1>3. call' = [call EXCEPT ![t] = c]
  BY <1>1
<1> HIDE DEF c
<1>4. Head(c.todo).op # "keyed"
  BY <1>0, <1>2, InvParts, OpIs
<1>5. KeyedOK(c, store)
  BY <1>0, <1>2, <1>4, LikeKeyed
<1> QED
  BY <1>0, <1>3, <1>5, InvParts, OthersSame DEF KeyStep

LEMMA KeyMove ==
  ASSUME IInv, KeyInv, NEW t \in Calls, StopWaiting(t) \/ PrimaryEnds(t)
  PROVE  KeyStep(t)
<1>0. call[t].at \in {"waiting", "primary"} /\ call[t] \in CallStates
      /\ KeyedOK(call[t], store) /\ store' = store
  BY InvParts, BusyCall DEF StopWaiting, PrimaryEnds, At, KeyInv, shared
<1>1. PICK v \in Entries :
        call' = [call EXCEPT ![t] = [call[t] EXCEPT !.at = "walked", !.seen = v]]
  <2>1. CASE StopWaiting(t)
    <3>1. call[t].seen \in Entries /\ [call[t] EXCEPT !.at = "walked"]
            = [call[t] EXCEPT !.at = "walked", !.seen = call[t].seen]
      BY <1>0 DEF CallStates
    <3>2. call' = [call EXCEPT ![t] = [call[t] EXCEPT !.at = "walked"]]
      BY <2>1, InvParts DEF StopWaiting, TypeOK
    <3> QED
      BY <3>1, <3>2
  <2>2. CASE PrimaryEnds(t)
    BY <2>2, InvParts DEF PrimaryEnds, TypeOK, Entries
  <2> QED
    BY <2>1, <2>2
<1> DEFINE c == [call[t] EXCEPT !.at = "walked", !.seen = v]
<1>2. c.todo = call[t].todo /\ c.key = call[t].key /\ c.known = call[t].known
      /\ c.wrote = call[t].wrote
  BY <1>0 DEF CallStates
<1>3. call' = [call EXCEPT ![t] = c]
  BY <1>1
<1> HIDE DEF c
<1>4. Head(c.todo).op # "keyed"
  BY <1>0, <1>2 DEF KeyedOK
<1>5. KeyedOK(c, store)
  BY <1>0, <1>2, <1>4, LikeKeyed
<1> QED
  BY <1>0, <1>3, <1>5, InvParts, OthersSame DEF KeyStep

LEMMA KeyAsk ==
  ASSUME IInv, KeyInv, NEW t \in Calls, Ask(t) \/ TakeProbeLock(t)
  PROVE  KeyStep(t)
<1>0. call[t] \in CallStates /\ KeyedOK(call[t], store) /\ store' = store
  BY InvParts, BusyCall DEF Ask, TakeProbeLock, KeyInv
<1>1. PICK v \in Entries :
        call' = [call EXCEPT ![t] = [call[t] EXCEPT !.at = "asked", !.seen = v]]
  <2>1. CASE TakeProbeLock(t)
    <3>1. call[t].seen \in Entries /\ [call[t] EXCEPT !.at = "asked"]
            = [call[t] EXCEPT !.at = "asked", !.seen = call[t].seen]
      BY <1>0 DEF CallStates
    <3>2. call' = [call EXCEPT ![t] = [call[t] EXCEPT !.at = "asked"]]
      BY <2>1, InvParts DEF TakeProbeLock, TypeOK
    <3> QED
      BY <3>1, <3>2
  <2>2. CASE Ask(t)
    <3> DEFINE v == IF alive /\ Op(t) # "read" THEN "current" ELSE "none"
    <3>1. v \in Entries
      BY DEF Entries
    <3>2. call' = [call EXCEPT ![t] = [call[t] EXCEPT !.at = "asked", !.seen = v]]
      BY <2>2, InvParts DEF Ask, TypeOK
    <3> QED
      BY <3>1, <3>2
  <2> QED
    BY <2>1, <2>2
<1> DEFINE c == [call[t] EXCEPT !.at = "asked", !.seen = v]
<1>2. c.todo = call[t].todo /\ c.key = call[t].key /\ c.known = call[t].known
      /\ c.wrote = call[t].wrote /\ c.at = "asked"
  BY <1>0 DEF CallStates, PCs
<1>3. call' = [call EXCEPT ![t] = c]
  BY <1>1
<1> HIDE DEF c
<1>4. KeyedOK(c, store)
  BY <1>0, <1>2, LikeKeyed
<1> QED
  BY <1>0, <1>3, <1>4, InvParts, OthersSame DEF KeyStep

LEMMA KeyAnswers ==
  ASSUME IInv, KeyInv, NEW t \in Calls,
         Answer(t) \/ AnswerFails(t) \/ ProbeEnds(t) \/ Refused(t)
  PROVE  KeyStep(t)
<1>1. call[t].todo # <<>> /\ Head(call[t].todo).op # "keyed"
  <2>1. CASE Refused(t)
    BY <2>1, InvParts, BusyCall DEF Refused, At, KeyInv, KeyedOK
  <2>2. CASE ~Refused(t)
    <3>1. Op(t) \in Reads \cup {"probe"}
      BY <2>2 DEF Answer, AnswerFails, ProbeEnds
    <3> QED
      BY <3>1, InvParts, BusyCall, OpIs DEF Reads
  <2> QED
    BY <2>1, <2>2
<1>2. store' = store /\ (Proceed(t, call[t]) \/ GiveUp(t))
  BY DEF Answer, AnswerFails, ProbeEnds, Refused, shared
<1> QED
  BY <1>1, <1>2, PlainKeyed

LEMMA KeySend ==
  ASSUME IInv, KeyInv, NEW t \in Calls, Send(t)
  PROVE  KeyStep(t)
<1> DEFINE o == Op(t)
           c == [call[t] EXCEPT !.at = "sent", !.landed = FALSE, !.wrote = o, !.answered = FALSE]
<1>0. call[t] \in CallStates /\ KeyedOK(call[t], store) /\ store' = store
      /\ o \in WriteOps /\ call[t].todo # <<>> /\ Head(call[t].todo).op = o
  BY InvParts, BusyCall, OpIs DEF Send, KeyInv, shared, WriteOps
<1>1. call' = [call EXCEPT ![t] = c]
  BY InvParts DEF Send, TypeOK
<1> HIDE DEF o
<1>2. c.todo = call[t].todo /\ c.key = call[t].key /\ c.known = call[t].known
      /\ c.wrote = o /\ c.at = "sent"
  BY <1>0 DEF CallStates
<1> HIDE DEF c
<1>3. call[t].known => o # "create"
  <2> SUFFICES ASSUME call[t].known PROVE o # "create"
    OBVIOUS
  <2>1. call[t].todo \in Seq(Steps) /\ LooksFirst(call[t].todo)
    BY <1>0 DEF KeyedOK, CallStates
  <2>2. PICK i \in DOMAIN call[t].todo : \A j \in 1..i : call[t].todo[j].op # "create"
    BY <2>1 DEF LooksFirst
  <2>3. i \in 1..Len(call[t].todo) /\ Len(call[t].todo) \in Nat
    BY <2>1, LenProperties
  <2>4. 1 \in 1..i
    BY <2>3
  <2> QED
    BY <1>0, <2>1, <2>2, <2>4, HeadOfSteps
<1>4. Head(c.todo).op # "keyed"
  BY <1>0, <1>2 DEF WriteOps
<1>5. KeyedOK(c, store)
  BY <1>0, <1>2, <1>3, <1>4 DEF KeyedOK
<1> QED
  BY <1>0, <1>1, <1>5, InvParts, OthersSame DEF KeyStep

LEMMA KeyConfirm ==
  ASSUME IInv, KeyInv, NEW t \in Calls, Confirmed(t)
  PROVE  KeyStep(t)
<1>0. At(t, "sent") /\ call[t].todo # <<>> /\ GoodCall(call[t]) /\ call[t] \in CallStates
      /\ KeyedOK(call[t], store) /\ store' = store
  BY InvParts, BusyCall DEF Confirmed, At, KeyInv, shared
<1> DEFINE b == call[t].owed \/ Op(t) \in {"change", "touch", "delete"}
           c == [call[t] EXCEPT !.answered = TRUE, !.owed = b]
<1>1. Proceed(t, c)
  BY DEF Confirmed
<1>2. b \in BOOLEAN
  BY <1>0 DEF CallStates
<1> HIDE DEF b
<1>3. c \in CallStates /\ c.todo = call[t].todo /\ c.key = call[t].key /\ c.at = call[t].at
      /\ c.known = call[t].known /\ c.wrote = call[t].wrote
  BY <1>0, <1>2 DEF CallStates
<1> HIDE DEF c
<1>4. GoodCall(c) /\ c.todo # <<>>
  BY <1>0, <1>3, GoodLike DEF At
<1>5. Head(c.todo).op # "keyed"
  BY <1>0, <1>3 DEF KeyedOK, At
<1>6. KeyedOK(c, store)
  BY <1>0, <1>3, <1>5, LikeKeyed
<1> QED
  BY <1>0, <1>1, <1>4, <1>5, <1>6, InvParts, ProceedKeyed, EndOthers DEF KeyStep

LEMMA KeyAbandon ==
  ASSUME IInv, KeyInv, NEW t \in Calls, Abandon(t)
  PROVE  KeyStep(t)
<1>1. Return(t, "dropped") /\ store' = store
  BY DEF Abandon
<1> QED
  BY <1>1, InvParts, ReturnKeyed, EndOthers DEF KeyStep

LEMMA KeyStart ==
  ASSUME IInv, KeyInv, NEW t \in Calls, Start(t)
  PROVE  KeyStep(t)
<1>1. PICK p \in Programs, k \in Keys \cup {NoKey} :
        /\ k \in KeyOf(p)
        /\ call' = [call EXCEPT ![t] = [Fresh EXCEPT
             !.kind = p.kind, !.todo = p.steps, !.at = "step",
             !.snapshot = generation, !.key = k, !.known = Recorded(k)]]
  BY DEF Start
<1> DEFINE b == Recorded(k)
           c == [Fresh EXCEPT !.kind = p.kind, !.todo = p.steps, !.at = "step",
                              !.snapshot = generation, !.key = k, !.known = b]
<1>2. call' = [call EXCEPT ![t] = c]
  BY <1>1
<1> HIDE DEF b
<1>3. c.todo = p.steps /\ c.key = k /\ c.known = b /\ c.wrote = "none" /\ c.at = "step"
  BY DEF Fresh
<1> HIDE DEF c
<1>4. b => InStore(store, k) /\ LooksFirst(p.steps)
  <2> SUFFICES ASSUME b PROVE InStore(store, k) /\ LooksFirst(p.steps)
    OBVIOUS
  <2>1. PICK i \in DOMAIN store : store[i] = k
    BY DEF b, Recorded
  <2>2. store \in Seq(Keys)
    BY InvParts DEF OthersOK
  <2>3. k \in Keys
    BY <2>1, <2>2, LenProperties, ElementOfSeq
  <2>4. \E j \in DOMAIN p.steps : p.steps[j] = Keyed
    BY <1>1, <2>3, KeyAssumption DEF KeyOf
  <2>5. LooksFirst(p.steps)
    BY <2>4, ProgramAssumption DEF KeyComesFirst, LooksFirst
  <2> QED
    BY <2>1, <2>5 DEF InStore
<1>5. KeyedOK(c, store)
  BY <1>3, <1>4 DEF KeyedOK
<1>6. store' = store
  BY DEF Start, shared
<1> QED
  BY <1>2, <1>5, <1>6, InvParts, OthersSame DEF KeyStep

\* The store moves: a call whose key goes is no longer known.
LEMMA StoreMoves ==
  ASSUME NEW c \in [Calls -> CallStates], NEW s,
         \A u \in Calls : KeyedOK(c[u], s), call' = StillKnown(c, store')
  PROVE  KeyInv'
<1> SUFFICES ASSUME NEW u \in Calls PROVE KeyedOK(call'[u], store')
  BY DEF KeyInv, KeyedOK
<1> DEFINE d == call'[u]
<1>1. /\ d.at = c[u].at /\ d.todo = c[u].todo /\ d.key = c[u].key /\ d.wrote = c[u].wrote
      /\ d.known <=> c[u].known /\ InStore(store', c[u].key)
  BY StillKnownKeeps DEF InStore
<1> HIDE DEF d
<1>2. KeyedOK(c[u], s)
  OBVIOUS
<1>3. KeyedOK(d, store')
  BY <1>1, <1>2 DEF KeyedOK
<1> QED
  BY <1>3 DEF d

LEMMA KeyStore ==
  ASSUME IInv, KeyInv
  PROVE  /\ Expire => KeyInv'
         /\ \A t \in Calls : RecordStep(t) => KeyInv'
<1>1. call \in [Calls -> CallStates] /\ \A u \in Calls : KeyedOK(call[u], store)
  BY InvParts DEF TypeOK, KeyInv
<1>2. ASSUME Expire PROVE KeyInv'
  BY <1>1, <1>2, StoreMoves DEF Expire
<1>3. ASSUME NEW t \in Calls, RecordStep(t) PROVE KeyInv'
  <2> DEFINE ended == [call EXCEPT ![t] = Ended(call[t])]
  <2>1. Ended(call[t]) \in CallStates
    BY <1>1, EndedGood DEF GoodCall
  <2>2. ended \in [Calls -> CallStates] /\ \A u \in Calls : KeyedOK(ended[u], store)
    BY <1>1, <2>1, EndedKeyed
  <2>3. call' = StillKnown(ended, store')
    BY <1>3 DEF RecordStep
  <2> HIDE DEF ended
  <2> QED
    BY <2>2, <2>3, StoreMoves
<1> QED
  BY <1>2, <1>3

LEMMA KeyLand ==
  ASSUME IInv, KeyInv, NEW t \in Calls, Land(t)
  PROVE  KeyInv'
<1> DEFINE hit == alive /\ wire[t] \in {"change", "delete", "uproot"}
           l(u) == IF u = t THEN TRUE ELSE call[u].landed
           s(u) == IF hit /\ call[u].seen = "current" THEN "crossed" ELSE call[u].seen
<1>1. call' = [u \in Calls |-> [call[u] EXCEPT !.landed = l(u), !.seen = s(u)]] /\ store' = store
  BY DEF Land
<1> HIDE DEF l, s, hit
<1>2. ASSUME NEW u \in Calls PROVE KeyedOK(call'[u], store')
  <2>1. call'[u] = [call[u] EXCEPT !.landed = l(u), !.seen = s(u)] /\ call[u] \in CallStates
    BY <1>1, InvParts DEF TypeOK
  <2>2. /\ call'[u].at = call[u].at /\ call'[u].todo = call[u].todo /\ call'[u].key = call[u].key
        /\ call'[u].known = call[u].known /\ call'[u].wrote = call[u].wrote
    BY <2>1 DEF CallStates
  <2> QED
    BY <1>1, <2>2 DEF KeyInv, KeyedOK
<1> QED
  BY <1>2 DEF KeyInv, KeyedOK

LEMMA KeyInit == Init => KeyInv
BY DEF Init, KeyInv, KeyedOK, Fresh

LEMMA KeyNext == IInv /\ KeyInv /\ [Next]_vars => KeyInv'
<1> SUFFICES ASSUME IInv, KeyInv, [Next]_vars PROVE KeyInv'
  OBVIOUS
<1>1. ASSUME NEW t \in Calls, Start(t) \/ Abandon(t) PROVE KeyInv'
  BY <1>1, KeyStart, KeyAbandon, KeyStepKeeps
<1>2. ASSUME NEW t \in Calls, LocalStep(t) PROVE KeyInv'
  BY <1>2, KeyLocal, KeyDrop, KeyLookup, KeyStore, KeyStepKeeps DEF LocalStep
<1>3. ASSUME NEW t \in Calls, ResolveStep(t) PROVE KeyInv'
  BY <1>3, KeyResolve, KeyClaim, KeyMove, KeyStepKeeps DEF ResolveStep
<1>4. ASSUME NEW t \in Calls, RequestStep(t) PROVE KeyInv'
  BY <1>4, KeyAsk, KeyAnswers, KeySend, KeyConfirm, KeyStepKeeps DEF RequestStep
<1>5. ASSUME NEW t \in Calls, Delivery(t) PROVE KeyInv'
  BY <1>5, KeyLand DEF Delivery, Lose, shared, KeyInv, KeyedOK
<1>6. CASE Expire
  BY <1>6, KeyStore
<1>7. CASE UNCHANGED vars
  BY <1>7 DEF vars, shared, KeyInv, KeyedOK
<1> QED
  BY <1>1, <1>2, <1>3, <1>4, <1>5, <1>6, <1>7 DEF Next, HandlerStep

(* A create retried with a key that is recorded, and stays so, writes        *)
(* nothing, whatever other calls and expiries do to the store meanwhile      *)
(* (IdempotencyStore, create_node).                                          *)
THEOREM RetriesWriteNothing == Spec => []KeyedRetryWritesNothing
<1>1. KeyInv => KeyedRetryWritesNothing
  BY DEF KeyInv, KeyedOK, KeyedRetryWritesNothing
<1> QED
  BY InvInit, InvStep, KeyInit, KeyNext, <1>1, PTL DEF Spec

-----------------------------------------------------------------------------
(* What may leave the name index overtaken by a write: OnlyLateDropsStrand,  *)
(* for any tools that drop what they write to, before or right after         *)
(* (DropsForWrites).                                                         *)

-----------------------------------------------------------------------------
Hits == {"change", "delete", "uproot"}
Settling == {"settle", "settleAll"}
Pending == {"asked", "primary", "waiting", "walked"}

\* DropsForWrites, of what is left of a program.
Covered(c) ==
  \A i \in DOMAIN c.todo :
    /\ c.todo[i].op \in Hits => \A j \in DOMAIN c.todo : j > i => c.todo[j].op \notin WriteOps
    /\ c.todo[i].op \in {"change", "delete"} =>
         \/ c.dropped
         \/ \E j \in 1..(i-1) : c.todo[j].op = "drop"
         \/ c.kind = "bulk" /\ i + 1 \in DOMAIN c.todo /\ c.todo[i + 1].op \in Settling

\* A call and its write on the wire.
Tidy(c, w) ==
  /\ c.seen # "stale"
  /\ c.at = "idle" => c.wrote = "none"
  /\ c.at = "sent" => Head(c.todo).op = c.wrote /\ c.wrote \in WriteOps
  /\ c.at \in Pending => Head(c.todo).op # "drop"
  /\ w # "none" => c.wrote = w /\ ~c.landed /\ ~c.answered
  /\ c.wrote \in {"change", "delete"} => c.dropped \/ c.kind = "bulk"
  /\ c.wrote \in Hits =>
       \A i \in DOMAIN c.todo : i > 1 \/ c.at # "sent" => c.todo[i].op \notin WriteOps
  /\ Covered(c)

\* MayStrand, and until it is over what will drop the entry comes next.
Blame(c, r) ==
  /\ c.landed /\ ~c.dropped
  /\ \/ c.wrote = "uproot"
     \/ /\ c.wrote \in {"change", "delete"} /\ c.kind = "bulk"
        /\ \/ ~c.answered
           \/ c.at = "done" /\ r = "dropped"
           \/ c.at = "step" /\ c.owed /\ c.todo # <<>> /\ Head(c.todo).op \in Settling

Strand ==
  /\ \A t \in Calls : Tidy(call[t], wire[t])
  /\ entry = "stale" => \E t \in Calls : Blame(call[t], result[t])

\* The same but for what the store knows.
Alike(d, c) ==
  /\ d.kind = c.kind /\ d.at = c.at /\ d.todo = c.todo /\ d.seen = c.seen /\ d.wrote = c.wrote
  /\ d.landed = c.landed /\ d.dropped = c.dropped /\ d.answered = c.answered /\ d.owed = c.owed

\* What a step of t has to show.
StrandStep(t) ==
  /\ \A u \in Calls : u # t => /\ Alike(call'[u], call[u])
                               /\ result'[u] = result[u] /\ wire'[u] = wire[u]
  /\ Tidy(call'[t], wire'[t])
  /\ entry' = "stale" =>
       entry = "stale" /\ (Blame(call[t], result[t]) => Blame(call'[t], result'[t]))

LEMMA AlikeTidy ==
  ASSUME NEW c, NEW d, Alike(d, c), NEW w, NEW r
  PROVE  /\ Tidy(c, w) => Tidy(d, w)
         /\ Blame(c, r) => Blame(d, r)
<1>1. Covered(c) => Covered(d)
  BY DEF Alike, Covered
<1> QED
  BY <1>1 DEF Alike, Tidy, Blame

LEMMA StrandStepKeeps ==
  ASSUME Strand, NEW t \in Calls, StrandStep(t)
  PROVE  Strand'
<1>1. ASSUME NEW u \in Calls PROVE Tidy(call'[u], wire'[u])
  BY AlikeTidy DEF Strand, StrandStep
<1>2. ASSUME entry' = "stale" PROVE \E u \in Calls : Blame(call'[u], result'[u])
  <2>1. PICK u \in Calls : Blame(call[u], result[u])
    BY <1>2 DEF Strand, StrandStep
  <2>2. Blame(call'[u], result'[u])
    BY <1>2, <2>1, AlikeTidy DEF StrandStep
  <2> QED
    BY <2>2
<1> QED
  BY <1>1, <1>2 DEF Strand

-----------------------------------------------------------------------------
(* A program goes on.                                                      *)

LEMMA CoveredRest ==
  ASSUME NEW c \in CallStates, NEW d, c.todo # <<>>, Len(c.todo) # 1, Covered(c),
         d.todo = Tail(c.todo), d.kind = c.kind, d.dropped = c.dropped,
         Head(c.todo).op # "drop" \/ c.dropped
  PROVE  Covered(d)
<1> DEFINE s == c.todo
           rest == Tail(c.todo)
<1>1. s \in Seq(Steps) /\ s # <<>> /\ Len(s) # 1
  BY DEF CallStates
<1>2. rest \in Seq(Steps) /\ \A i \in DOMAIN rest : i + 1 \in DOMAIN s /\ rest[i] = s[i + 1]
  BY <1>1, RestOfSteps
<1>3. s[1].op # "drop" \/ c.dropped
  BY <1>1, HeadOfSteps
<1>4. DOMAIN rest = 1..Len(rest) /\ Len(rest) \in Nat /\ DOMAIN s = 1..Len(s)
      /\ Len(s) = Len(rest) + 1
  BY <1>1, <1>2, LenProperties, HeadTailProperties
<1>5. d.todo = rest
  OBVIOUS
<1>6. Covered(c)
  OBVIOUS
<1> HIDE DEF rest
<1>7. ASSUME NEW i \in DOMAIN rest, rest[i].op \in Hits, NEW j \in DOMAIN rest, j > i
      PROVE  rest[j].op \notin WriteOps
  <2>1. i + 1 \in DOMAIN s /\ j + 1 \in DOMAIN s /\ j + 1 > i + 1
    BY <1>2, <1>4, <1>7
  <2> QED
    BY <1>2, <1>6, <1>7, <2>1 DEF Covered
<1>8. ASSUME NEW i \in DOMAIN rest, rest[i].op \in {"change", "delete"}, ~c.dropped
      PROVE  \/ \E j \in 1..(i-1) : rest[j].op = "drop"
             \/ c.kind = "bulk" /\ i + 1 \in DOMAIN rest /\ rest[i + 1].op \in Settling
  <2>1. i + 1 \in DOMAIN s /\ s[i + 1].op \in {"change", "delete"} /\ i \in Nat
    BY <1>2, <1>4, <1>8
  <2>2. \/ \E j \in 1..i : s[j].op = "drop"
        \/ c.kind = "bulk" /\ i + 2 \in DOMAIN s /\ s[i + 2].op \in Settling
    <3>1. (i + 1) - 1 = i /\ (i + 1) + 1 = i + 2
      BY <2>1
    <3>2. \/ \E j \in 1..((i + 1) - 1) : s[j].op = "drop"
          \/ c.kind = "bulk" /\ (i + 1) + 1 \in DOMAIN s /\ s[(i + 1) + 1].op \in Settling
      BY <1>6, <1>8, <2>1 DEF Covered
    <3> QED
      BY <3>1, <3>2
  <2>3. CASE \E j \in 1..i : s[j].op = "drop"
    <3>1. PICK j \in 1..i : s[j].op = "drop"
      BY <2>3
    <3>2. j # 1
      BY <1>3, <1>8, <3>1
    <3>3. j - 1 \in DOMAIN rest /\ j - 1 \in 1..(i-1)
      BY <1>4, <2>1, <3>2
    <3>4. rest[j - 1].op = "drop"
      BY <1>2, <3>1, <3>3
    <3> QED
      BY <3>3, <3>4
  <2>4. CASE c.kind = "bulk" /\ i + 2 \in DOMAIN s /\ s[i + 2].op \in Settling
    <3>1. i + 1 \in DOMAIN rest /\ (i + 1) + 1 = i + 2
      BY <1>4, <2>1, <2>4
    <3>2. rest[i + 1] = s[(i + 1) + 1]
      BY <1>2, <3>1
    <3> QED
      BY <2>4, <3>1, <3>2
  <2> QED
    BY <2>2, <2>3, <2>4
<1>9. d.todo = rest /\ d.kind = c.kind /\ d.dropped = c.dropped
  BY <1>5
<1> QED
  BY <1>7, <1>8, <1>9 DEF Covered

LEMMA EndedTidy ==
  ASSUME NEW c \in CallStates, NEW w, Tidy(c, w)
  PROVE  Tidy(Ended(c), w)
<1> DEFINE e == Ended(c)
<1>1. e.todo = <<>> /\ e.at = "done" /\ e \in CallStates
  BY EndedGood DEF GoodCall
<1>2. e.seen = "none" /\ e.wrote = c.wrote
  BY DEF Ended, Fresh
<1>3. c.wrote # "none" =>
        e.landed = c.landed /\ e.answered = c.answered /\ e.dropped = c.dropped /\ e.kind = c.kind
  BY DEF Ended, Fresh
<1> HIDE DEF e
<1>4. DOMAIN e.todo = {}
  BY <1>1
<1>5. Covered(e)
  BY <1>4 DEF Covered
<1>6. w # "none" => e.wrote = w /\ ~e.landed /\ ~e.answered
  BY <1>2, <1>3 DEF Tidy
<1>7. e.wrote \in {"change", "delete"} => e.dropped \/ e.kind = "bulk"
  BY <1>2, <1>3 DEF Tidy
<1>8. Tidy(e, w)
  BY <1>1, <1>2, <1>4, <1>5, <1>6, <1>7 DEF Tidy, Pending
<1> QED
  BY <1>8 DEF e

\* A call that is over is to blame as before, but for a drop that was to come.
LEMMA EndedBlame ==
  ASSUME NEW c \in CallStates, NEW r, NEW q, Blame(c, r), c.at # "done",
         \/ q = "dropped"
         \/ c.at # "step" \/ Head(c.todo).op \notin Settling
  PROVE  Blame(Ended(c), q)
<1> DEFINE e == Ended(c)
<1>1. e.at = "done"
  BY EndedGood
<1>2. c.wrote # "none"
  BY DEF Blame
<1>3. e.wrote = c.wrote /\ e.landed = c.landed /\ e.answered = c.answered
      /\ e.dropped = c.dropped /\ e.kind = c.kind
  BY <1>2 DEF Ended, Fresh
<1> HIDE DEF e
<1>4. Blame(e, q)
  BY <1>1, <1>3 DEF Blame
<1> QED
  BY <1>4 DEF e

LEMMA ProceedTidy ==
  ASSUME TypeInv, NEW t \in Calls, NEW c, GoodCall(c), c.todo # <<>>, NEW w, Tidy(c, w),
         Head(c.todo).op # "drop" \/ c.dropped, Proceed(t, c)
  PROVE  Tidy(call'[t], w)
<1>0. c \in CallStates /\ c.todo \in Seq(Steps)
  BY DEF GoodCall, CallStates
<1>1. CASE Len(c.todo) = 1
  <2>1. call'[t] = Ended(c)
    BY <1>1 DEF Proceed, TypeInv, TypeOK
  <2> QED
    BY <1>0, <2>1, EndedTidy
<1>2. CASE Len(c.todo) # 1
  <2> DEFINE d == [c EXCEPT !.at = "step", !.todo = Tail(c.todo), !.seen = "none", !.scope = "root"]
  <2>1. call'[t] = d
    BY <1>2 DEF Proceed, TypeInv, TypeOK
  <2>2. /\ d.at = "step" /\ d.todo = Tail(c.todo) /\ d.seen = "none" /\ d.kind = c.kind
        /\ d.wrote = c.wrote /\ d.landed = c.landed /\ d.answered = c.answered
        /\ d.dropped = c.dropped
    BY <1>0 DEF CallStates
  <2> HIDE DEF d
  <2>3. Covered(d)
    BY <1>0, <1>2, <2>2, CoveredRest DEF Tidy
  <2>4. c.wrote \in Hits => \A i \in DOMAIN d.todo : d.todo[i].op \notin WriteOps
    <3> SUFFICES ASSUME c.wrote \in Hits, NEW i \in DOMAIN d.todo PROVE d.todo[i].op \notin WriteOps
      OBVIOUS
    <3>1. i + 1 \in DOMAIN c.todo /\ d.todo[i] = c.todo[i + 1]
      BY <1>0, <1>2, <2>2, RestOfSteps
    <3>2. Tail(c.todo) \in Seq(Steps)
      BY <1>0, <1>2, RestOfSteps
    <3>3. i \in 1..Len(d.todo) /\ Len(d.todo) \in Nat
      BY <2>2, <3>2, LenProperties
    <3>4. i + 1 > 1
      BY <3>3
    <3> QED
      BY <3>1, <3>4 DEF Tidy
  <2>5. Tidy(d, w)
    BY <2>2, <2>3, <2>4 DEF Tidy, Pending
  <2> QED
    BY <2>1, <2>5
<1> QED
  BY <1>1, <1>2

LEMMA ProceedBlame ==
  ASSUME TypeInv, NEW t \in Calls, NEW c \in CallStates, c.at # "done", NEW r, Blame(c, r),
         c.at # "step" \/ Head(c.todo).op \notin Settling, Proceed(t, c)
  PROVE  Blame(call'[t], result'[t])
<1>1. CASE Len(c.todo) = 1
  <2>1. call'[t] = Ended(c) /\ result'[t] = "answer"
    BY <1>1 DEF Proceed, TypeInv, TypeOK
  <2> QED
    BY <2>1, EndedBlame
<1>2. CASE Len(c.todo) # 1
  <2> DEFINE d == [c EXCEPT !.at = "step", !.todo = Tail(c.todo), !.seen = "none", !.scope = "root"]
  <2>1. call'[t] = d
    BY <1>2 DEF Proceed, TypeInv, TypeOK
  <2>2. /\ d.kind = c.kind /\ d.wrote = c.wrote /\ d.landed = c.landed
        /\ d.answered = c.answered /\ d.dropped = c.dropped
    BY DEF CallStates
  <2> HIDE DEF d
  <2>3. Blame(d, result'[t])
    BY <2>2 DEF Blame
  <2> QED
    BY <2>1, <2>3
<1> QED
  BY <1>1, <1>2

\* The others, when t returns or goes on.
LEMMA EndLeavesOthers ==
  ASSUME TypeInv, NEW t \in Calls,
         (\E r : Return(t, r)) \/ (\E c : Proceed(t, c)) \/ GiveUp(t)
  PROVE  \A u \in Calls : u # t => Alike(call'[u], call[u]) /\ result'[u] = result[u]
<1>1. \A u \in Calls : u # t => call'[u] = call[u] /\ result'[u] = result[u]
  BY DEF Return, Proceed, GiveUp, TypeInv, TypeOK
<1> QED
  BY <1>1 DEF Alike

LEMMA PutLeavesOthers ==
  ASSUME TypeInv, NEW t \in Calls, NEW c, call' = [call EXCEPT ![t] = c], result' = result
  PROVE  /\ call'[t] = c
         /\ \A u \in Calls : u # t => Alike(call'[u], call[u]) /\ result'[u] = result[u]
BY DEF TypeInv, TypeOK, Alike

-----------------------------------------------------------------------------
(* The steps.                                                              *)

\* Steps that return, or go on, and drop nothing themselves.
LEMMA PlainStrand ==
  ASSUME IInv, Strand, NEW t \in Calls, call[t].todo # <<>>, call[t].at \notin {"idle", "done"},
         Head(call[t].todo).op # "drop",
         call[t].at # "step" \/ Head(call[t].todo).op \notin Settling,
         Return(t, "answer") \/ Proceed(t, call[t]) \/ GiveUp(t),
         wire' = wire, entry' = "stale" => entry = "stale"
  PROVE  StrandStep(t)
<1>0. GoodCall(call[t]) /\ call[t] \in CallStates /\ Tidy(call[t], wire[t]) /\ TypeInv
  BY InvParts, BusyCall DEF Strand
<1>1. \A u \in Calls : u # t => Alike(call'[u], call[u]) /\ result'[u] = result[u]
  BY <1>0, EndLeavesOthers
<1>2. Return(t, "answer") \/ Proceed(t, call[t])
  BY DEF GiveUp
<1>3. CASE Return(t, "answer")
  <2>1. call'[t] = Ended(call[t]) /\ result'[t] = "answer"
    BY <1>3, InvParts DEF Return, TypeOK
  <2>2. Tidy(call'[t], wire[t])
    BY <1>0, <2>1, EndedTidy
  <2>3. Blame(call[t], result[t]) => Blame(call'[t], result'[t])
    BY <1>0, <2>1, EndedBlame
  <2> QED
    BY <1>1, <2>2, <2>3 DEF StrandStep
<1>4. CASE Proceed(t, call[t])
  <2>1. Tidy(call'[t], wire[t])
    BY <1>0, <1>4, ProceedTidy
  <2>2. Blame(call[t], result[t]) => Blame(call'[t], result'[t])
    BY <1>0, <1>4, ProceedBlame
  <2> QED
    BY <1>1, <2>1, <2>2 DEF StrandStep
<1> QED
  BY <1>2, <1>3, <1>4

LEMMA StrandLocal ==
  ASSUME IInv, Strand, NEW t \in Calls, CheckStep(t) \/ CancelStep(t) \/ KeyedStep(t)
  PROVE  StrandStep(t)
<1>1. At(t, "step") /\ Op(t) \in {"check", "cancel", "keyed"} /\ wire' = wire /\ entry' = entry
  BY DEF CheckStep, CancelStep, KeyedStep, Doing, shared
<1>2. call[t].todo # <<>> /\ Head(call[t].todo).op = Op(t) /\ call[t].at \notin {"idle", "done"}
  BY <1>1, InvParts, BusyCall, OpIs DEF At
<1>3. Return(t, "answer") \/ Proceed(t, call[t])
  BY DEF CheckStep, CancelStep, KeyedStep
<1> QED
  BY <1>1, <1>2, <1>3, PlainStrand DEF Settling

LEMMA StrandResolve ==
  ASSUME IInv, Strand, NEW t \in Calls, Resolve(t) \/ Adopt(t) \/ LinkKnown(t) \/ AfterWalk(t)
  PROVE  StrandStep(t)
<1>1. wire' = wire /\ entry' \in {entry, "crossed"} /\ (Return(t, "answer") \/ Proceed(t, call[t]))
  BY DEF Resolve, Adopt, LinkKnown, AfterWalk, shared
<1>2. At(t, "walked") \/ (At(t, "step") /\ Op(t) \in {"ref", "link"})
  BY DEF Resolve, Adopt, LinkKnown, AfterWalk, Doing
<1>3. call[t].todo # <<>> /\ Head(call[t].todo).op = Op(t) /\ call[t].at \notin {"idle", "done"}
  BY <1>2, InvParts, BusyCall, OpIs DEF At
<1>4. Head(call[t].todo).op # "drop"
  BY <1>2, <1>3 DEF Strand, Tidy, At, Pending
<1>5. call[t].at # "step" \/ Head(call[t].todo).op \notin Settling
  BY <1>2, <1>3 DEF At, Settling
<1> QED
  BY <1>1, <1>3, <1>4, <1>5, PlainStrand

LEMMA StrandAnswers ==
  ASSUME IInv, Strand, NEW t \in Calls,
         Answer(t) \/ AnswerFails(t) \/ ProbeEnds(t) \/ Refused(t)
  PROVE  StrandStep(t)
<1>1. wire' = wire /\ (Proceed(t, call[t]) \/ GiveUp(t))
  BY DEF Answer, AnswerFails, ProbeEnds, Refused, shared
<1>2. call[t].at \in {"asked", "sent"}
  BY DEF Answer, AnswerFails, ProbeEnds, Refused, At
<1>3. call[t].todo # <<>> /\ Tidy(call[t], wire[t])
  BY <1>2, InvParts, BusyCall DEF Strand
<1>4. Head(call[t].todo).op # "drop"
  BY <1>2, <1>3 DEF Tidy, Pending, WriteOps
<1>5. entry' = "stale" => entry = "stale"
  <2>1. CASE Answer(t)
    BY <1>3, <2>1 DEF Answer, Tidy
  <2>2. CASE ~Answer(t)
    BY <2>2 DEF AnswerFails, ProbeEnds, Refused, shared
  <2> QED
    BY <2>1, <2>2
<1> QED
  BY <1>1, <1>2, <1>3, <1>4, <1>5, PlainStrand

LEMMA StrandDrop ==
  ASSUME IInv, Strand, NEW t \in Calls, DropStep(t)
  PROVE  StrandStep(t)
<1>0. At(t, "step") /\ call[t].todo # <<>> /\ GoodCall(call[t]) /\ call[t] \in CallStates
      /\ Tidy(call[t], wire[t]) /\ TypeInv /\ wire' = wire /\ entry' = "none"
  BY InvParts, BusyCall, SentFrom DEF DropStep, Doing, Strand
<1> DEFINE c == [call[t] EXCEPT !.dropped = TRUE]
<1>1. /\ c \in CallStates /\ c.todo = call[t].todo /\ c.key = call[t].key /\ c.at = call[t].at
      /\ c.seen = call[t].seen /\ c.wrote = call[t].wrote /\ c.landed = call[t].landed
      /\ c.answered = call[t].answered /\ c.kind = call[t].kind /\ c.dropped
  BY <1>0 DEF CallStates
<1>2. Proceed(t, c)
  BY DEF DropStep
<1> HIDE DEF c
<1>3. GoodCall(c) /\ c.todo # <<>>
  BY <1>0, <1>1, SentFrom, GoodLike
<1>4. Covered(c)
  BY <1>0, <1>1 DEF Tidy, Covered
<1>5. Tidy(c, wire[t])
  BY <1>0, <1>1, <1>4 DEF Tidy
<1>6. Tidy(call'[t], wire[t])
  BY <1>0, <1>1, <1>2, <1>3, <1>5, ProceedTidy
<1>7. \A u \in Calls : u # t => Alike(call'[u], call[u]) /\ result'[u] = result[u]
  BY <1>0, <1>2, EndLeavesOthers
<1> QED
  BY <1>0, <1>6, <1>7 DEF StrandStep

LEMMA StrandSettle ==
  ASSUME IInv, Strand, NEW t \in Calls, SettleStep(t)
  PROVE  StrandStep(t)
<1>0. At(t, "step") /\ Op(t) \in Settling /\ call[t].todo # <<>> /\ GoodCall(call[t])
      /\ call[t] \in CallStates /\ Tidy(call[t], wire[t]) /\ TypeInv /\ wire' = wire
      /\ Head(call[t].todo).op = Op(t) /\ Proceed(t, call[t])
  BY InvParts, BusyCall, SentFrom, OpIs DEF SettleStep, Strand, Settling
<1>1. Tidy(call'[t], wire[t])
  BY <1>0, ProceedTidy DEF Settling
<1>2. \A u \in Calls : u # t => Alike(call'[u], call[u]) /\ result'[u] = result[u]
  BY <1>0, EndLeavesOthers
<1>3. ASSUME entry' = "stale"
      PROVE  entry = "stale" /\ (Blame(call[t], result[t]) => Blame(call'[t], result'[t]))
  <2>1. entry = "stale" /\ ~call[t].owed
    BY <1>3 DEF SettleStep
  <2> SUFFICES ASSUME Blame(call[t], result[t]) PROVE Blame(call'[t], result'[t])
    BY <2>1
  <2>2. call[t].wrote = "uproot" \/ ~call[t].answered
    BY <1>0, <2>1 DEF Blame, At
  <2>3. CASE Len(call[t].todo) = 1
    <3>1. call'[t] = Ended(call[t])
      BY <1>0, <2>3 DEF Proceed, TypeInv, TypeOK
    <3>2. call[t].wrote # "none"
      BY DEF Blame
    <3>3. /\ call'[t].wrote = call[t].wrote /\ call'[t].landed = call[t].landed
          /\ call'[t].answered = call[t].answered /\ call'[t].dropped = call[t].dropped
          /\ call'[t].kind = call[t].kind
      BY <3>1, <3>2 DEF Ended, Fresh
    <3> QED
      BY <2>2, <3>3 DEF Blame
  <2>4. CASE Len(call[t].todo) # 1
    <3> DEFINE d == [call[t] EXCEPT !.at = "step", !.todo = Tail(call[t].todo),
                                    !.seen = "none", !.scope = "root"]
    <3>1. call'[t] = d
      BY <1>0, <2>4 DEF Proceed, TypeInv, TypeOK
    <3>2. /\ d.kind = call[t].kind /\ d.wrote = call[t].wrote /\ d.landed = call[t].landed
          /\ d.answered = call[t].answered /\ d.dropped = call[t].dropped
      BY <1>0 DEF CallStates
    <3> HIDE DEF d
    <3> QED
      BY <2>2, <3>1, <3>2 DEF Blame
  <2> QED
    BY <2>3, <2>4
<1> QED
  BY <1>0, <1>1, <1>2, <1>3 DEF StrandStep

\* t waits elsewhere at the same place of its program.
LEMMA MovedStrand ==
  ASSUME IInv, Strand, NEW t \in Calls, NEW c,
         call' = [call EXCEPT ![t] = c], result' = result, wire' = wire,
         entry' = "stale" => entry = "stale",
         call[t].at \notin {"idle", "done", "sent"},
         call[t].at = "step" => Head(call[t].todo).op \notin {"drop"} \cup Settling,
         c.todo = call[t].todo, c.kind = call[t].kind, c.wrote = call[t].wrote,
         c.landed = call[t].landed, c.answered = call[t].answered, c.dropped = call[t].dropped,
         c.at \in Pending, c.seen # "stale"
  PROVE  StrandStep(t)
<1>0. Tidy(call[t], wire[t]) /\ TypeInv /\ call[t] \in CallStates
  BY InvParts, BusyCall DEF Strand
<1>1. call'[t] = c /\ \A u \in Calls : u # t => Alike(call'[u], call[u]) /\ result'[u] = result[u]
  BY <1>0, PutLeavesOthers
<1>2. Covered(c)
  BY <1>0 DEF Tidy, Covered
<1>3. Head(c.todo).op # "drop"
  BY <1>0 DEF Tidy, Pending, CallStates, PCs
<1>4. Tidy(c, wire[t])
  BY <1>0, <1>2, <1>3 DEF Tidy, Pending
<1>5. Blame(call[t], result[t]) => Blame(c, result[t])
  BY DEF Blame
<1>6. result'[t] = result[t]
  OBVIOUS
<1> QED
  BY <1>1, <1>4, <1>5, <1>6 DEF StrandStep

LEMMA StrandClaim ==
  ASSUME IInv, Strand, NEW t \in Calls, Claim(t)
  PROVE  StrandStep(t)
<1>0. Op(t) \in {"ref", "link"} /\ call[t].todo # <<>> /\ call[t] \in CallStates
      /\ At(t, "step") /\ call[t].seen # "stale" /\ wire' = wire /\ entry' = entry
      /\ result' = result /\ Head(call[t].todo).op = Op(t)
  BY InvParts, BusyCall, OpIs DEF Claim, Doing, Strand, Tidy
<1>1. PICK s \in Scopes, l \in {"waiting", "primary"}, v \in Entries \ {"stale"} :
        call' = [call EXCEPT ![t] = [call[t] EXCEPT !.at = l, !.scope = s, !.seen = v]]
  <2>1. PICK s \in Scopes :
          \/ call' = [call EXCEPT ![t].at = "waiting", ![t].scope = s]
          \/ call' = [call EXCEPT ![t].at = "primary", ![t].scope = s,
                        ![t].seen = IF alive THEN "current" ELSE "none"]
    BY DEF Claim, Scopes
  <2>2. CASE call' = [call EXCEPT ![t].at = "waiting", ![t].scope = s]
    <3>1. call[t].seen \in Entries /\ [call[t] EXCEPT !.at = "waiting", !.scope = s]
            = [call[t] EXCEPT !.at = "waiting", !.scope = s, !.seen = call[t].seen]
      BY <1>0 DEF CallStates
    <3>2. call' = [call EXCEPT ![t] = [call[t] EXCEPT !.at = "waiting", !.scope = s]]
      BY <2>2, InvParts DEF TypeOK
    <3> QED
      BY <1>0, <3>1, <3>2
  <2>3. CASE call' = [call EXCEPT ![t].at = "primary", ![t].scope = s,
                        ![t].seen = IF alive THEN "current" ELSE "none"]
    <3> DEFINE v == IF alive THEN "current" ELSE "none"
    <3>1. v \in Entries \ {"stale"}
      BY DEF Entries
    <3>2. call' = [call EXCEPT ![t] = [call[t] EXCEPT !.at = "primary", !.scope = s, !.seen = v]]
      BY <2>3, InvParts DEF TypeOK
    <3> QED
      BY <3>1, <3>2
  <2> QED
    BY <2>1, <2>2, <2>3
<1> DEFINE c == [call[t] EXCEPT !.at = l, !.scope = s, !.seen = v]
<1>2. /\ c.todo = call[t].todo /\ c.kind = call[t].kind /\ c.wrote = call[t].wrote
      /\ c.landed = call[t].landed /\ c.answered = call[t].answered
      /\ c.dropped = call[t].dropped /\ c.at = l /\ c.seen = v
  BY <1>0 DEF CallStates
<1>3. call' = [call EXCEPT ![t] = c]
  BY <1>1
<1> HIDE DEF c
<1> QED
  BY <1>0, <1>2, <1>3, MovedStrand DEF At, Pending, Settling

LEMMA StrandMove ==
  ASSUME IInv, Strand, NEW t \in Calls, StopWaiting(t) \/ PrimaryEnds(t)
  PROVE  StrandStep(t)
<1>0. call[t].at \in {"waiting", "primary"} /\ call[t] \in CallStates /\ call[t].seen # "stale"
      /\ wire' = wire /\ result' = result
  BY InvParts, BusyCall DEF StopWaiting, PrimaryEnds, At, Strand, Tidy, shared
<1>1. PICK v \in Entries \ {"stale"} :
        call' = [call EXCEPT ![t] = [call[t] EXCEPT !.at = "walked", !.seen = v]]
  <2>1. CASE StopWaiting(t)
    <3>1. call[t].seen \in Entries /\ [call[t] EXCEPT !.at = "walked"]
            = [call[t] EXCEPT !.at = "walked", !.seen = call[t].seen]
      BY <1>0 DEF CallStates
    <3>2. call' = [call EXCEPT ![t] = [call[t] EXCEPT !.at = "walked"]]
      BY <2>1, InvParts DEF StopWaiting, TypeOK
    <3> QED
      BY <1>0, <3>1, <3>2
  <2>2. CASE PrimaryEnds(t)
    BY <2>2, InvParts DEF PrimaryEnds, TypeOK, Entries
  <2> QED
    BY <2>1, <2>2
<1> DEFINE c == [call[t] EXCEPT !.at = "walked", !.seen = v]
<1>2. /\ c.todo = call[t].todo /\ c.kind = call[t].kind /\ c.wrote = call[t].wrote
      /\ c.landed = call[t].landed /\ c.answered = call[t].answered
      /\ c.dropped = call[t].dropped /\ c.at = "walked" /\ c.seen = v
  BY <1>0 DEF CallStates
<1>3. call' = [call EXCEPT ![t] = c]
  BY <1>1
<1>4. entry' = "stale" => entry = "stale"
  BY <1>0 DEF StopWaiting, PrimaryEnds, shared
<1> HIDE DEF c
<1> QED
  BY <1>0, <1>2, <1>3, <1>4, MovedStrand DEF Pending

LEMMA StrandAsk ==
  ASSUME IInv, Strand, NEW t \in Calls, Ask(t) \/ TakeProbeLock(t)
  PROVE  StrandStep(t)
<1>0. call[t] \in CallStates /\ At(t, "step") /\ Op(t) \in Reads \cup {"probe"}
      /\ call[t].todo # <<>> /\ Head(call[t].todo).op = Op(t) /\ call[t].seen # "stale"
      /\ wire' = wire /\ result' = result /\ entry' = entry
  <2>1. At(t, "step") /\ Op(t) \in Reads \cup {"probe"} /\ wire' = wire /\ result' = result
        /\ entry' = entry
    BY DEF Ask, TakeProbeLock, Doing
  <2> QED
    BY <2>1, InvParts, BusyCall, OpIs DEF At, Strand, Tidy
<1>1. PICK v \in Entries \ {"stale"} :
        call' = [call EXCEPT ![t] = [call[t] EXCEPT !.at = "asked", !.seen = v]]
  <2>1. CASE TakeProbeLock(t)
    <3>1. call[t].seen \in Entries /\ [call[t] EXCEPT !.at = "asked"]
            = [call[t] EXCEPT !.at = "asked", !.seen = call[t].seen]
      BY <1>0 DEF CallStates
    <3>2. call' = [call EXCEPT ![t] = [call[t] EXCEPT !.at = "asked"]]
      BY <2>1, InvParts DEF TakeProbeLock, TypeOK
    <3> QED
      BY <1>0, <3>1, <3>2
  <2>2. CASE Ask(t)
    <3> DEFINE v == IF alive /\ Op(t) # "read" THEN "current" ELSE "none"
    <3>1. v \in Entries \ {"stale"}
      BY DEF Entries
    <3>2. call' = [call EXCEPT ![t] = [call[t] EXCEPT !.at = "asked", !.seen = v]]
      BY <2>2, InvParts DEF Ask, TypeOK
    <3> QED
      BY <3>1, <3>2
  <2> QED
    BY <2>1, <2>2
<1> DEFINE c == [call[t] EXCEPT !.at = "asked", !.seen = v]
<1>2. /\ c.todo = call[t].todo /\ c.kind = call[t].kind /\ c.wrote = call[t].wrote
      /\ c.landed = call[t].landed /\ c.answered = call[t].answered
      /\ c.dropped = call[t].dropped /\ c.at = "asked" /\ c.seen = v
  BY <1>0 DEF CallStates
<1>3. call' = [call EXCEPT ![t] = c]
  BY <1>1
<1> HIDE DEF c
<1> QED
  BY <1>0, <1>2, <1>3, MovedStrand DEF At, Pending, Settling, Reads

\* No program writes after a write that hits, so the one to blame sends nothing.
LEMMA StrandSend ==
  ASSUME IInv, Strand, NEW t \in Calls, Send(t)
  PROVE  StrandStep(t)
<1> DEFINE o == Op(t)
           c == [call[t] EXCEPT !.at = "sent", !.landed = FALSE, !.wrote = o, !.answered = FALSE]
<1>0. /\ call[t] \in CallStates /\ Tidy(call[t], wire[t]) /\ TypeInv /\ At(t, "step")
      /\ o \in WriteOps /\ call[t].todo # <<>> /\ Head(call[t].todo).op = o
  BY InvParts, BusyCall, OpIs DEF Send, Strand, WriteOps
<1>1. call' = [call EXCEPT ![t] = c] /\ result' = result /\ entry' = entry
  BY InvParts DEF Send, TypeOK, shared
<1>2. wire'[t] = o /\ \A u \in Calls : u # t => wire'[u] = wire[u]
  BY InvParts DEF Send, TypeOK
<1> HIDE DEF o
<1>3. /\ c.todo = call[t].todo /\ c.kind = call[t].kind /\ c.seen = call[t].seen /\ c.wrote = o
      /\ c.at = "sent" /\ ~c.landed /\ ~c.answered /\ c.dropped = call[t].dropped
  BY <1>0 DEF CallStates
<1> HIDE DEF c
<1>4. call[t].todo \in Seq(Steps) /\ 1 \in DOMAIN call[t].todo /\ call[t].todo[1].op = o
  BY <1>0, HeadOfSteps DEF CallStates
<1>5. Covered(call[t])
  BY <1>0 DEF Tidy
<1>6. Covered(c)
  BY <1>3, <1>5 DEF Covered
<1>7. o \in {"change", "delete"} => c.dropped \/ c.kind = "bulk"
  <2>1. ~ \E j \in 1..(1-1) : call[t].todo[j].op = "drop"
    OBVIOUS
  <2> QED
    BY <1>3, <1>4, <1>5, <2>1 DEF Covered
<1>8. o \in Hits => \A i \in DOMAIN c.todo : i > 1 => c.todo[i].op \notin WriteOps
  BY <1>3, <1>4, <1>5 DEF Covered
<1>9. Tidy(c, o)
  BY <1>0, <1>3, <1>6, <1>7, <1>8 DEF Tidy, Pending
<1>10. ~Blame(call[t], result[t])
  <2>1. call[t].wrote \notin Hits
    BY <1>0, <1>4 DEF Tidy, At
  <2> QED
    BY <2>1 DEF Blame, Hits
<1>11. call'[t] = c /\ \A u \in Calls : u # t => Alike(call'[u], call[u]) /\ result'[u] = result[u]
  BY <1>0, <1>1, PutLeavesOthers
<1> QED
  BY <1>1, <1>2, <1>9, <1>10, <1>11 DEF StrandStep

\* A write that was answered, and hit without a drop before, is settled next.
LEMMA StrandConfirm ==
  ASSUME IInv, Strand, NEW t \in Calls, Confirmed(t)
  PROVE  StrandStep(t)
<1>0. At(t, "sent") /\ call[t].todo # <<>> /\ GoodCall(call[t]) /\ call[t] \in CallStates
      /\ Tidy(call[t], wire[t]) /\ TypeInv /\ wire' = wire /\ entry' = entry
      /\ call[t].landed /\ Head(call[t].todo).op = Op(t)
  BY InvParts, BusyCall, OpIs DEF Confirmed, At, Strand, shared
<1> DEFINE b == call[t].owed \/ Op(t) \in {"change", "touch", "delete"}
           c == [call[t] EXCEPT !.answered = TRUE, !.owed = b]
<1>1. Proceed(t, c)
  BY DEF Confirmed
<1>2. b \in BOOLEAN
  BY <1>0 DEF CallStates
<1>3. Op(t) = call[t].wrote /\ call[t].wrote \in WriteOps /\ wire[t] = "none"
  BY <1>0 DEF Tidy, At
<1>4. call[t].wrote \in {"change", "delete"} => b
  BY <1>3
<1> HIDE DEF b
<1>5. /\ c \in CallStates /\ c.todo = call[t].todo /\ c.key = call[t].key /\ c.at = call[t].at
      /\ c.seen = call[t].seen /\ c.wrote = call[t].wrote /\ c.landed = call[t].landed
      /\ c.kind = call[t].kind /\ c.dropped = call[t].dropped /\ c.owed = b
  BY <1>0, <1>2 DEF CallStates
<1> HIDE DEF c
<1>6. GoodCall(c) /\ c.todo # <<>>
  BY <1>0, <1>5, GoodLike DEF At
<1>7. Covered(c)
  BY <1>0, <1>5 DEF Tidy, Covered
<1>8. Tidy(c, wire[t])
  BY <1>0, <1>3, <1>5, <1>7 DEF Tidy
<1>9. Head(c.todo).op # "drop"
  BY <1>0, <1>3, <1>5 DEF WriteOps
<1>10. Tidy(call'[t], wire[t])
  BY <1>0, <1>1, <1>6, <1>8, <1>9, ProceedTidy
<1>11. \A u \in Calls : u # t => Alike(call'[u], call[u]) /\ result'[u] = result[u]
  BY <1>0, <1>1, EndLeavesOthers
<1>12. ASSUME Blame(call[t], result[t]) PROVE Blame(call'[t], result'[t])
  <2>1. CASE call[t].wrote = "uproot"
    <3>1. Blame(c, result[t])
      BY <1>5, <1>12, <2>1 DEF Blame
    <3> QED
      BY <1>0, <1>1, <1>5, <3>1, ProceedBlame DEF At
  <2>2. CASE call[t].wrote \in {"change", "delete"}
    <3>1. c.kind = "bulk" /\ ~c.dropped
      BY <1>5, <1>12, <2>2 DEF Blame
    <3>2. c.todo \in Seq(Steps) /\ 1 \in DOMAIN c.todo /\ c.todo[1].op = c.wrote
      BY <1>0, <1>3, <1>5, <1>6, HeadOfSteps DEF CallStates
    <3>3. 1 + 1 \in DOMAIN c.todo /\ c.todo[1 + 1].op \in Settling
      <4>1. ~ \E j \in 1..(1-1) : c.todo[j].op = "drop"
        OBVIOUS
      <4> QED
        BY <1>5, <1>7, <2>2, <3>1, <3>2, <4>1 DEF Covered
    <3>4. Len(c.todo) # 1
      BY <3>2, <3>3, LenProperties
    <3> DEFINE d == [c EXCEPT !.at = "step", !.todo = Tail(c.todo), !.seen = "none", !.scope = "root"]
    <3>5. call'[t] = d
      BY <1>1, <3>4, InvParts DEF Proceed, TypeOK
    <3>6. /\ d.at = "step" /\ d.todo = Tail(c.todo) /\ d.kind = c.kind /\ d.wrote = c.wrote
          /\ d.landed = c.landed /\ d.dropped = c.dropped /\ d.owed = c.owed
      BY <1>5 DEF CallStates
    <3> HIDE DEF d
    <3>7. d.todo # <<>> /\ Head(d.todo).op \in Settling
      <4>1. d.todo \in Seq(Steps) /\ d.todo # <<>>
        BY <1>6, <3>2, <3>4, <3>6, RestOfSteps
      <4>2. 1 \in DOMAIN d.todo /\ Head(d.todo) = d.todo[1]
        BY <4>1, HeadOfSteps
      <4>3. d.todo[1] = c.todo[1 + 1]
        BY <1>6, <3>2, <3>4, <3>6, <4>2, RestOfSteps
      <4> QED
        BY <3>3, <4>1, <4>2, <4>3
    <3>8. d.landed /\ d.owed
      BY <1>0, <1>4, <1>5, <2>2, <3>6
    <3>9. Blame(d, result'[t])
      BY <1>5, <2>2, <3>1, <3>6, <3>7, <3>8 DEF Blame
    <3> QED
      BY <3>5, <3>9
  <2> QED
    BY <1>12, <2>1, <2>2 DEF Blame
<1> QED
  BY <1>0, <1>10, <1>11, <1>12 DEF StrandStep

LEMMA StrandAbandon ==
  ASSUME IInv, Strand, NEW t \in Calls, Abandon(t)
  PROVE  StrandStep(t)
<1>0. call[t] \in CallStates /\ Tidy(call[t], wire[t]) /\ TypeInv /\ wire' = wire /\ entry' = entry
      /\ call[t].at # "done" /\ Return(t, "dropped")
  BY InvParts, BusyCall DEF Abandon, Strand
<1>1. call'[t] = Ended(call[t]) /\ result'[t] = "dropped"
  BY <1>0, InvParts DEF Return, TypeOK
<1>2. Tidy(call'[t], wire[t])
  BY <1>0, <1>1, EndedTidy
<1>3. Blame(call[t], result[t]) => Blame(call'[t], result'[t])
  BY <1>0, <1>1, EndedBlame
<1>4. \A u \in Calls : u # t => Alike(call'[u], call[u]) /\ result'[u] = result[u]
  BY <1>0, EndLeavesOthers
<1> QED
  BY <1>0, <1>2, <1>3, <1>4 DEF StrandStep

LEMMA StrandStart ==
  ASSUME IInv, Strand, NEW t \in Calls, Start(t)
  PROVE  StrandStep(t)
<1>1. PICK p \in Programs, k \in Keys \cup {NoKey} :
        call' = [call EXCEPT ![t] = [Fresh EXCEPT
             !.kind = p.kind, !.todo = p.steps, !.at = "step",
             !.snapshot = generation, !.key = k, !.known = Recorded(k)]]
  BY DEF Start
<1> DEFINE b == Recorded(k)
           c == [Fresh EXCEPT !.kind = p.kind, !.todo = p.steps, !.at = "step",
                              !.snapshot = generation, !.key = k, !.known = b]
<1>2. call' = [call EXCEPT ![t] = c]
  BY <1>1
<1> HIDE DEF b
<1>3. /\ c.todo = p.steps /\ c.kind = p.kind /\ c.wrote = "none" /\ c.at = "step"
      /\ c.seen = "none"
  BY DEF Fresh
<1> HIDE DEF c
<1>4. Tidy(call[t], wire[t]) /\ At(t, "idle") /\ TypeInv
  BY InvParts DEF Strand, Start
<1>5. wire[t] = "none" /\ call[t].wrote = "none"
  BY <1>4 DEF Tidy, At
<1>6. Covered(c)
  BY <1>3, ProgramAssumption DEF DropsForWrites, Covered, Hits, Settling
<1>7. Tidy(c, wire[t])
  BY <1>3, <1>5, <1>6 DEF Tidy, Pending, Hits
<1>8. entry' = entry /\ wire' = wire /\ result' = result
  BY DEF Start, shared
<1>9. call'[t] = c /\ \A u \in Calls : u # t => Alike(call'[u], call[u]) /\ result'[u] = result[u]
  BY <1>2, <1>4, <1>8, PutLeavesOthers
<1>10. ~Blame(call[t], result[t])
  BY <1>5 DEF Blame
<1> QED
  BY <1>7, <1>8, <1>9, <1>10 DEF StrandStep

-----------------------------------------------------------------------------
(* Steps that touch every call.                                            *)

LEMMA KnownAlike ==
  ASSUME NEW c \in [Calls -> CallStates], NEW kept, NEW u \in Calls
  PROVE  Alike(StillKnown(c, kept)[u], c[u])
<1> DEFINE b == c[u].known /\ \E i \in DOMAIN kept : kept[i] = c[u].key
<1>1. StillKnown(c, kept)[u] = [c[u] EXCEPT !.known = b]
  BY DEF StillKnown
<1> HIDE DEF b
<1> QED
  BY <1>1 DEF CallStates, Alike

LEMMA StrandRecord ==
  ASSUME IInv, Strand, NEW t \in Calls, RecordStep(t)
  PROVE  StrandStep(t)
<1> DEFINE ended == [call EXCEPT ![t] = Ended(call[t])]
<1>0. call[t] \in CallStates /\ Tidy(call[t], wire[t]) /\ TypeInv /\ wire' = wire /\ entry' = entry
      /\ At(t, "step") /\ Op(t) = "record" /\ result' = [result EXCEPT ![t] = "answer"]
      /\ call' = StillKnown(ended, store')
  BY InvParts, BusyCall DEF RecordStep, Strand, Doing
<1>1. call[t].todo # <<>> /\ Head(call[t].todo).op = "record"
  BY <1>0, BusyCall, OpIs
<1>2. Ended(call[t]) \in CallStates
  BY <1>0, EndedGood DEF GoodCall
<1>3. ended \in [Calls -> CallStates] /\ ended[t] = Ended(call[t])
      /\ \A u \in Calls : u # t => ended[u] = call[u]
  BY <1>2, InvParts DEF TypeOK
<1> HIDE DEF ended
<1>4. \A u \in Calls : Alike(call'[u], ended[u])
  BY <1>0, <1>3, KnownAlike
<1>5. result'[t] = "answer" /\ \A u \in Calls : u # t => result'[u] = result[u]
  BY <1>0, InvParts DEF TypeOK
<1>6. Tidy(call'[t], wire[t])
  BY <1>0, <1>3, <1>4, EndedTidy, AlikeTidy
<1>7. ASSUME Blame(call[t], result[t]) PROVE Blame(call'[t], result'[t])
  <2>1. Blame(Ended(call[t]), result'[t])
    BY <1>0, <1>1, <1>7, EndedBlame DEF At, Settling
  <2> QED
    BY <1>3, <1>4, <2>1, AlikeTidy
<1> QED
  BY <1>0, <1>3, <1>4, <1>5, <1>6, <1>7 DEF StrandStep

LEMMA StrandExpire ==
  ASSUME IInv, Strand, Expire
  PROVE  Strand'
<1>1. \A u \in Calls : Alike(call'[u], call[u])
  BY InvParts, KnownAlike DEF Expire, TypeOK
<1>2. entry' = entry /\ wire' = wire /\ result' = result
  BY DEF Expire
<1> QED
  BY <1>1, <1>2, AlikeTidy DEF Strand

\* A write lands: only the call that sent it, without a drop, can be to blame.
LEMMA StrandLand ==
  ASSUME IInv, Strand, NEW t \in Calls, Land(t)
  PROVE  Strand'
<1> DEFINE hit == alive /\ wire[t] \in {"change", "delete", "uproot"}
           l(u) == IF u = t THEN TRUE ELSE call[u].landed
           s(u) == IF hit /\ call[u].seen = "current" THEN "crossed" ELSE call[u].seen
<1>1. call' = [u \in Calls |-> [call[u] EXCEPT !.landed = l(u), !.seen = s(u)]]
  BY DEF Land
<1>2. wire[t] # "none" /\ result' = result /\ entry' = (IF hit THEN Outdated(t) ELSE entry)
  BY DEF Land
<1>3. wire'[t] = "none" /\ \A u \in Calls : u # t => wire'[u] = wire[u]
  BY InvParts DEF Land, TypeOK
<1>4. ASSUME NEW u \in Calls PROVE s(u) # "stale"
  BY <1>4 DEF Strand, Tidy
<1>5. l(t) = TRUE /\ \A u \in Calls : u # t => l(u) = call[u].landed
  OBVIOUS
<1> HIDE DEF l, s
<1>6. ASSUME NEW u \in Calls
      PROVE  /\ call'[u].kind = call[u].kind /\ call'[u].at = call[u].at
             /\ call'[u].todo = call[u].todo /\ call'[u].wrote = call[u].wrote
             /\ call'[u].dropped = call[u].dropped /\ call'[u].answered = call[u].answered
             /\ call'[u].owed = call[u].owed /\ call'[u].seen = s(u) /\ call'[u].landed = l(u)
  <2>1. call'[u] = [call[u] EXCEPT !.landed = l(u), !.seen = s(u)] /\ call[u] \in CallStates
    BY <1>1, InvParts DEF TypeOK
  <2> QED
    BY <2>1 DEF CallStates
<1>7. ASSUME NEW u \in Calls PROVE Tidy(call'[u], wire'[u])
  <2>1. Tidy(call[u], wire[u])
    BY DEF Strand
  <2>2. Covered(call'[u])
    BY <1>6, <2>1 DEF Tidy, Covered
  <2>3. wire'[u] # "none" => call'[u].wrote = wire'[u] /\ ~call'[u].landed /\ ~call'[u].answered
    BY <1>3, <1>5, <1>6, <2>1 DEF Tidy
  <2> QED
    BY <1>4, <1>6, <2>1, <2>2, <2>3 DEF Tidy
<1>8. ASSUME entry' = "stale" PROVE \E u \in Calls : Blame(call'[u], result'[u])
  <2>1. CASE hit
    <3>1. Outdated(t) = "stale"
      BY <1>2, <1>8, <2>1
    <3>2. ~call[t].dropped
      BY <3>1 DEF Outdated
    <3>3. Tidy(call[t], wire[t]) /\ wire[t] \in {"change", "delete", "uproot"}
      BY <2>1 DEF Strand
    <3>4. call[t].wrote = wire[t] /\ ~call[t].answered
      BY <3>3 DEF Tidy
    <3>5. call[t].wrote \in {"change", "delete"} => call[t].kind = "bulk"
      BY <3>2, <3>3 DEF Tidy
    <3>6. Blame(call'[t], result'[t])
      BY <1>5, <1>6, <3>2, <3>3, <3>4, <3>5 DEF Blame
    <3> QED
      BY <3>6
  <2>2. CASE ~hit
    <3>1. entry = "stale"
      BY <1>2, <1>8, <2>2
    <3>2. PICK u \in Calls : Blame(call[u], result[u])
      BY <3>1 DEF Strand
    <3>3. u # t
      BY <1>2, <3>2 DEF Strand, Tidy, Blame
    <3>4. Blame(call'[u], result'[u])
      BY <1>2, <1>5, <1>6, <3>2, <3>3 DEF Blame
    <3> QED
      BY <3>4
  <2> QED
    BY <2>1, <2>2
<1> QED
  BY <1>7, <1>8 DEF Strand

LEMMA StrandLose ==
  ASSUME IInv, Strand, NEW t \in Calls, Lose(t)
  PROVE  Strand'
<1>1. wire'[t] = "none" /\ \A u \in Calls : u # t => wire'[u] = wire[u]
  BY InvParts DEF Lose, TypeOK
<1>2. call' = call /\ result' = result /\ entry' = entry
  BY DEF Lose, shared
<1>3. ASSUME NEW u \in Calls PROVE Tidy(call[u], wire'[u])
  BY <1>1 DEF Strand, Tidy
<1> QED
  BY <1>2, <1>3 DEF Strand

LEMMA StrandInit == Init => Strand
<1> SUFFICES ASSUME Init PROVE Strand
  OBVIOUS
<1>1. ASSUME NEW t \in Calls PROVE Tidy(call[t], wire[t])
  <2>1. call[t] = Fresh /\ wire[t] = "none"
    BY DEF Init
  <2>2. DOMAIN Fresh.todo = {}
    BY DEF Fresh
  <2> QED
    BY <2>1, <2>2 DEF Tidy, Covered, Fresh, Pending, Hits
<1>2. entry # "stale"
  BY DEF Init
<1> QED
  BY <1>1, <1>2 DEF Strand

LEMMA StrandNext == IInv /\ Strand /\ [Next]_vars => Strand'
<1> SUFFICES ASSUME IInv, Strand, [Next]_vars PROVE Strand'
  OBVIOUS
<1>1. ASSUME NEW t \in Calls, Start(t) \/ Abandon(t) PROVE Strand'
  BY <1>1, StrandStart, StrandAbandon, StrandStepKeeps
<1>2. ASSUME NEW t \in Calls, LocalStep(t) PROVE Strand'
  BY <1>2, StrandLocal, StrandDrop, StrandSettle, StrandRecord, StrandStepKeeps DEF LocalStep
<1>3. ASSUME NEW t \in Calls, ResolveStep(t) PROVE Strand'
  BY <1>3, StrandResolve, StrandClaim, StrandMove, StrandStepKeeps DEF ResolveStep
<1>4. ASSUME NEW t \in Calls, RequestStep(t) PROVE Strand'
  BY <1>4, StrandAsk, StrandAnswers, StrandSend, StrandConfirm, StrandStepKeeps DEF RequestStep
<1>5. ASSUME NEW t \in Calls, Delivery(t) PROVE Strand'
  BY <1>5, StrandLand, StrandLose DEF Delivery
<1>6. CASE Expire
  BY <1>6, StrandExpire
<1>7. CASE UNCHANGED vars
  BY <1>7 DEF vars, shared, Strand
<1> QED
  BY <1>1, <1>2, <1>3, <1>4, <1>5, <1>6, <1>7 DEF Next, HandlerStep

(* What the index says of a node is overtaken by a write only when that      *)
(* write is a bulk tool's, still at work, dropped, or without an answer, or  *)
(* when the node went with an ancestor, whatever calls run at once and       *)
(* wherever they are dropped (invalidate_for_mutation, apply_footprint).     *)
THEOREM FreshnessHolds == Spec => []OnlyLateDropsStrand
<1>1. Strand => OnlyLateDropsStrand
  <2>1. ASSUME NEW t \in Calls, Blame(call[t], result[t]) PROVE MayStrand(t)
    BY <2>1 DEF Blame, MayStrand, At
  <2> QED
    BY <2>1 DEF Strand, OnlyLateDropsStrand
<1> QED
  BY InvInit, InvStep, StrandInit, StrandNext, <1>1, PTL DEF Spec
=============================================================================
