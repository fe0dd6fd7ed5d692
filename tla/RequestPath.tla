----------------------------- MODULE RequestPath -----------------------------
(* The way every call takes to the API (api/client.rs): the rate-limit window *)
(* left by the last 429, the token bucket with its adaptive rate, the retry   *)
(* loop, and the two things that end a call early, cancel_all and a deadline. *)
(* Concurrent tasks share the window, the bucket and the cancel registry.     *)
(* Time is counted in ticks; deadlines and sleeps are the tick they end at.   *)
EXTENDS Integers, FiniteSets

CONSTANTS
  Tasks,         \* tasks, each with one call to make
  Guarded,       \* the tasks whose call takes a cancel guard
  Budget,        \* task |-> ticks until its call's deadline, or NoBudget
  NoBudget,
  Hints,         \* the retry_after values a 429 may carry
  NoHint,        \* a 429 without one
  MaxAttempts,   \* RetryConfig::max_attempts
  BaseDelay, MaxDelay,       \* RetryConfig, in ticks
  One,           \* a token, in the unit tokens are counted in
  Capacity,      \* burst size, in that unit
  FullRate, MinRate, RateStep,  \* units per tick: configured, floor, recovery
  HttpTimeout,   \* ticks until the HTTP client gives an exchange up
  Horizon,       \* bound: from then on time passes only when everybody waits
  MaxCancels     \* bound on calls of cancel_all

ASSUME TasksAssumption ==
  /\ Guarded \subseteq Tasks
  /\ NoBudget \notin Nat
  /\ Budget \in [Tasks -> Nat \cup {NoBudget}]
ASSUME ReplyAssumption ==
  /\ Hints \subseteq Nat
  /\ NoHint \notin Nat
  /\ MaxAttempts \in Nat \ {0}
  /\ BaseDelay \in Nat /\ MaxDelay \in Nat /\ HttpTimeout \in Nat
ASSUME BucketAssumption ==
  /\ One \in Nat \ {0} /\ Capacity \in Nat
  /\ FullRate \in Nat \ {0} /\ MinRate \in 1..FullRate /\ RateStep \in Nat
ASSUME BoundAssumption == Horizon \in Nat /\ MaxCancels \in Nat

VARIABLES
  now,
  last429, lastRetryAfter,   \* the two atomics of the window; 0: never, none
  tokens, rate, lastRefill,  \* the bucket
  generation,                \* of the cancel registry
  call,      \* task |-> the locals of its call, while it is in progress
  result,    \* task |-> what its call returned
  sends,     \* history: how often a task's call went out
  acquired, allowance, since \* history: tokens taken since the last drain,
                             \* what the bucket held then, and when that was

window == <<last429, lastRetryAfter>>
bucket == <<tokens, rate, lastRefill>>
ledger == <<acquired, allowance, since>>
pathVars == <<now, window, bucket, generation, call, result, sends, ledger>>

Results == {"none", "ok", "limited", "cancelled", "timeout", "failed", "exhausted"}
PCs == {"idle", "enter", "top", "token", "send", "sent", "stamp", "sleep", "done"}
Forever == -1    \* no deadline

\* snapshot: of the cancel guard. wake: the tick a wait ends at. stores: what of
\* a 429 has still to be stored, hint: its retry_after, notBefore: when that ends.
Fresh(l) == [pc |-> l, snapshot |-> 0, deadline |-> Forever, attempt |-> 0,
             wake |-> 0, stores |-> {}, hint |-> NoHint, notBefore |-> 0]
Calls == [pc : PCs, snapshot : Nat, deadline : Nat \cup {Forever}, attempt : Nat,
          wake : Int, stores : SUBSET {"stamp", "hint"},
          hint : Hints \cup {NoHint}, notBefore : Nat]
At(t, l) == call[t].pc = l

AtMost(a, b) == IF a <= b THEN a ELSE b
AtLeast(a, b) == IF a >= b THEN a ELSE b

-----------------------------------------------------------------------------
(* Reading the shared state.                                                 *)

InRetryWindow == last429 # 0 /\ lastRetryAfter # 0 /\ now < last429 + lastRetryAfter

Cancelled(t) == t \in Guarded /\ generation # call[t].snapshot
Late(t) == call[t].deadline # Forever /\ now >= call[t].deadline

\* Mutant: no cap on what a quiet time earns.
RefilledUncapped == tokens + (now - lastRefill) * rate
Refilled == AtMost(tokens + (now - lastRefill) * rate, Capacity)
WaitForToken(have) == ((One - have) + rate - 1) \div rate
\* The sleep slice of a waiter; with a guard it is cut to the poll interval.
Slice(t, have) == IF t \in Guarded THEN 1 ELSE AtLeast(WaitForToken(have), 1)

ParseRetryAfter(h) == AtLeast(h, 1)
Exponential(a) == AtMost(BaseDelay * 2^(a - 1), MaxDelay)
Backoffs(a) == LET jitter == Exponential(a) \div 10
               IN (Exponential(a) - jitter)..(Exponential(a) + jitter)

-----------------------------------------------------------------------------
PathInit ==
  /\ now = 1
  /\ last429 = 0 /\ lastRetryAfter = 0
  /\ tokens = Capacity /\ rate = FullRate /\ lastRefill = 1
  /\ generation = 0
  /\ call = [t \in Tasks |-> Fresh("idle")]
  /\ result = [t \in Tasks |-> "none"]
  /\ sends = [t \in Tasks |-> 0]
  /\ acquired = 0 /\ allowance = Capacity /\ since = 1

Goto(t, l) == call' = [call EXCEPT ![t].pc = l]
Return(t, r) ==
  call' = [call EXCEPT ![t] = Fresh("done")] /\ result' = [result EXCEPT ![t] = r]

\* A handler takes its guard and fixes its deadline, then makes its call.
Start(t) ==
  /\ At(t, "idle")
  /\ call' = [call EXCEPT ![t].pc = "enter", ![t].snapshot = generation,
                ![t].deadline = IF Budget[t] = NoBudget THEN Forever
                                ELSE now + Budget[t]]
  /\ UNCHANGED <<now, window, bucket, generation, result, sends, ledger>>

\* request_cancellable fails fast inside an open window. It looks only here.
Enter(t) ==
  /\ At(t, "enter")
  /\ IF InRetryWindow THEN Return(t, "limited")
     ELSE Goto(t, "top") /\ UNCHANGED result
  /\ UNCHANGED <<now, window, bucket, generation, sends, ledger>>

\* The head of the retry loop.
Top(t) ==
  /\ At(t, "top")
  /\ IF Cancelled(t) THEN Return(t, "cancelled")
     ELSE IF Late(t) THEN Return(t, "timeout")
     ELSE /\ call' = [call EXCEPT ![t].pc = "token", ![t].attempt = @ + 1]
          /\ UNCHANGED result
  /\ UNCHANGED <<now, window, bucket, generation, sends, ledger>>

\* acquire, acquire_cancellable: take a token and look at the deadline again.
Acquire(t) ==
  /\ At(t, "token") /\ now >= call[t].wake /\ ~Cancelled(t)
  /\ Refilled >= One
  /\ tokens' = Refilled - One /\ lastRefill' = now
  /\ acquired' = acquired + 1
  /\ IF Late(t) THEN Return(t, "timeout") ELSE Goto(t, "send") /\ UNCHANGED result
  /\ UNCHANGED <<now, window, rate, generation, sends, allowance, since>>

\* No token: sleep. The deadline does not cut this sleep.
AwaitToken(t) ==
  /\ At(t, "token") /\ now >= call[t].wake /\ ~Cancelled(t)
  /\ Refilled < One
  /\ tokens' = Refilled /\ lastRefill' = now
  /\ call' = [call EXCEPT ![t].wake = now + Slice(t, Refilled)]
  /\ UNCHANGED <<now, window, rate, generation, result, sends, ledger>>

\* try_request_cancellable: the select looks at the cancel and the deadline
\* before it first polls the send.
Transmit(t) ==
  /\ At(t, "send") /\ ~Cancelled(t) /\ ~Late(t)
  /\ call' = [call EXCEPT ![t].pc = "sent", ![t].wake = now + HttpTimeout]
  /\ sends' = [sends EXCEPT ![t] = @ + 1]
  /\ UNCHANGED <<now, window, bucket, generation, result, ledger>>

\* A cancel seen while waiting for a token, the answer, or the next attempt.
StopCancelled(t) ==
  /\ call[t].pc \in {"token", "send", "sent", "sleep"} /\ Cancelled(t)
  /\ Return(t, "cancelled")
  /\ UNCHANGED <<now, window, bucket, generation, sends, ledger>>

\* The deadline, seen before or during a send.
StopLate(t) ==
  /\ call[t].pc \in {"send", "sent"} /\ Late(t)
  /\ At(t, "send") => ~Cancelled(t)
  /\ Return(t, "timeout")
  /\ UNCHANGED <<now, window, bucket, generation, sends, ledger>>

-----------------------------------------------------------------------------
(* Answers. The deadline's branch of the select is polled before the answer; *)
(* the cancel is polled only now and then, so an answer may overtake it.     *)

Answerable(t) == At(t, "sent") /\ ~Late(t)

Rewarded == IF rate < FullRate THEN AtMost(rate + RateStep, FullRate) ELSE rate

Spent(t) == call[t].attempt >= MaxAttempts

\* After an error worth a retry: sleep_with_abort, cut to the deadline, or give up.
Retry(t, delays) ==
  IF Spent(t) THEN Return(t, "exhausted")
  ELSE IF Late(t) THEN Return(t, "timeout")
  ELSE /\ \E d \in delays :
            call' = [call EXCEPT ![t].pc = "sleep", ![t].hint = NoHint,
                       ![t].wake = IF call[t].deadline = Forever THEN now + d
                                    ELSE AtMost(now + d, call[t].deadline)]
       /\ UNCHANGED result

ReplyOk(t) ==
  /\ Answerable(t)
  /\ rate' = Rewarded
  /\ Return(t, "ok")
  /\ UNCHANGED <<now, window, tokens, lastRefill, generation, sends, ledger>>

\* A 2xx whose body does not arrive is a success for the bucket and an error
\* for the caller.
ReplyCut(t) ==
  /\ Answerable(t)
  /\ rate' = Rewarded
  /\ Retry(t, Backoffs(call[t].attempt))
  /\ UNCHANGED <<now, window, tokens, lastRefill, generation, sends, ledger>>

\* 5xx, or no answer.
ReplyError(t) ==
  /\ Answerable(t)
  /\ Retry(t, Backoffs(call[t].attempt))
  /\ UNCHANGED <<now, window, bucket, generation, sends, ledger>>

\* Any other 4xx.
ReplyRefused(t) ==
  /\ Answerable(t)
  /\ Return(t, "failed")
  /\ UNCHANGED <<now, window, bucket, generation, sends, ledger>>

Reply429(t, h) ==
  /\ Answerable(t)
  /\ call' = [call EXCEPT ![t].pc = "stamp", ![t].stores = {"stamp", "hint"},
                ![t].hint = h,
                ![t].notBefore = IF h = NoHint THEN now ELSE now + ParseRetryAfter(h)]
  /\ UNCHANGED <<now, window, bucket, generation, result, sends, ledger>>

\* stamp_rate_limited stores its two atomics relaxed: others may see either first.
StoreStamp(t) ==
  /\ At(t, "stamp") /\ "stamp" \in call[t].stores
  /\ call' = [call EXCEPT ![t].stores = @ \ {"stamp"}]
  /\ last429' = now
  /\ UNCHANGED <<now, lastRetryAfter, bucket, generation, result, sends, ledger>>

StoreHint(t) ==
  /\ At(t, "stamp") /\ "hint" \in call[t].stores
  /\ call' = [call EXCEPT ![t].stores = @ \ {"hint"}]
  /\ lastRetryAfter' = IF call[t].hint = NoHint THEN 0
                       ELSE ParseRetryAfter(call[t].hint)
  /\ UNCHANGED <<now, last429, bucket, generation, result, sends, ledger>>

\* Mutant: a 429 is retried like any other error.
DelaysWithoutHint(t) == Backoffs(call[t].attempt)
DelaysAfter429(t) ==
  IF call[t].hint = NoHint THEN Backoffs(call[t].attempt)
  ELSE {ParseRetryAfter(call[t].hint)}

\* Mutant: the rate is cut, the headroom stays.
TokensKept == tokens
DrainedTokens == 0

\* RateLimiter::drain, then the decision to retry.
Drain(t) ==
  /\ At(t, "stamp") /\ call[t].stores = {}
  /\ tokens' = DrainedTokens /\ lastRefill' = now
  /\ rate' = AtLeast(rate \div 2, MinRate)
  /\ acquired' = 0 /\ allowance' = 0 /\ since' = now
  /\ Retry(t, DelaysAfter429(t))
  /\ UNCHANGED <<now, window, generation, sends>>

\* The backoff is over; the deadline may have cut it short.
Wake(t) ==
  /\ At(t, "sleep") /\ now >= call[t].wake
  /\ IF Late(t) THEN Return(t, "timeout")
     ELSE /\ call' = [call EXCEPT ![t].pc = "top", ![t].wake = 0]
          /\ UNCHANGED result
  /\ UNCHANGED <<now, window, bucket, generation, sends, ledger>>

-----------------------------------------------------------------------------
CancelAll ==
  /\ generation < MaxCancels
  /\ generation' = generation + 1
  /\ UNCHANGED <<now, window, bucket, call, result, sends, ledger>>

Waiting(t) ==
  /\ call[t].pc \in {"token", "sent", "sleep"}
  /\ call[t].wake > now /\ ~Cancelled(t) /\ ~(At(t, "sent") /\ Late(t))

\* Up to the horizon time may pass between any two steps; after it, only while
\* every call in progress waits for time to pass.
Tick ==
  /\ \/ now < Horizon
     \/ /\ \E t \in Tasks : Waiting(t)
        /\ \A t \in Tasks : call[t].pc \in {"idle", "done"} \/ Waiting(t)
  /\ now' = now + 1
  /\ UNCHANGED <<window, bucket, generation, call, result, sends, ledger>>

\* Mutant: an HTTP client without a timeout.
NeverGivesUp(t) == FALSE
GivesUp(t) == now >= call[t].wake /\ ReplyError(t)

\* What the client does by itself; an exchange ends by HttpTimeout.
TaskStep(t) ==
  \/ Enter(t) \/ Top(t) \/ Acquire(t) \/ AwaitToken(t) \/ Transmit(t)
  \/ StopCancelled(t) \/ StopLate(t) \/ Wake(t)
  \/ StoreStamp(t) \/ StoreHint(t) \/ Drain(t)
  \/ GivesUp(t)

UpstreamStep(t) ==
  \/ ReplyOk(t) \/ ReplyCut(t) \/ ReplyError(t) \/ ReplyRefused(t)
  \/ \E h \in Hints \cup {NoHint} : Reply429(t, h)

Finished == (\A t \in Tasks : At(t, "done")) /\ UNCHANGED pathVars

PathNext ==
  \/ \E t \in Tasks : Start(t) \/ TaskStep(t) \/ UpstreamStep(t)
  \/ CancelAll \/ Tick \/ Finished

Fairness == WF_pathVars(Tick) /\ \A t \in Tasks : WF_pathVars(TaskStep(t))

PathSpec == PathInit /\ [][PathNext]_pathVars
FairSpec == PathSpec /\ Fairness

-----------------------------------------------------------------------------
(* Every variable has its type.                                             *)
PathTypeOK ==
  /\ now \in Nat /\ last429 \in Nat /\ lastRetryAfter \in Nat
  /\ tokens \in 0..Capacity /\ rate \in MinRate..FullRate /\ lastRefill \in 0..now
  /\ generation \in Nat
  /\ call \in [Tasks -> Calls]
  /\ result \in [Tasks -> Results]
  /\ sends \in [Tasks -> Nat]
  /\ acquired \in Nat /\ allowance \in Nat /\ since \in 0..now

(* Every token handed out since the last 429 was earned since then, at no     *)
(* more than the rate of now: the 429 leaves no headroom from before it, and  *)
(* halving the rate bites until rewards restore it, whatever refills,         *)
(* rewards, waits and failed acquires of other callers come in between        *)
(* (RateLimiter::drain, ::reward, TokenBucket::refill). It does not bound how *)
(* many go at one instant: see ResumesFromEmpty.                              *)
TokensAreEarned == acquired * One <= allowance + (now - since) * rate

(* When the window of a 429 closes there is no burst to fire into the fresh   *)
(* quota: the bucket has not two tokens to hand out at once. Draining "makes  *)
(* the post-window resume start from zero tokens" (RateLimiter::drain). The   *)
(* code does not keep this: the bucket refills all through the window.        *)
ResumesFromEmpty ==
  lastRetryAfter # 0 /\ (\A t \in Tasks : ~At(t, "stamp")) /\ now = last429 + lastRetryAfter => Refilled < 2 * One

(* A call that got a 429 with a retry_after does not send again before that   *)
(* time is up, although its sleep may have been cut to its deadline           *)
(* (sleep_with_abort, parse_retry_after).                                     *)
RetryAfterIsHonoured ==
  [][\A t \in Tasks : sends'[t] # sends[t] => now >= call[t].notBefore]_pathVars

(* Every call returns, even if the API never answers, while cancels, drained  *)
(* buckets and other callers delay it (request_cancellable, acquire).         *)
EveryCallReturns == \A t \in Tasks : At(t, "enter") ~> At(t, "done")

=============================================================================
