------------------------------ MODULE Admission ------------------------------
(***************************************************************************)
(* Admission control of POST /signals (app/routes/signals.py): the token   *)
(* bucket (ingestion/rate_limiter.py), the semaphore of requests in flight *)
(* and the publication to NATS.                                            *)
(*                                                                         *)
(* One event loop runs every request; an action is what a handler does     *)
(* between two awaits.  The bucket's lock is never held across an await of *)
(* anything but itself, so acquire is one action.  asyncio.Semaphore hands *)
(* a released permit to its oldest waiter: the waiter's future is done     *)
(* before the waiter runs, and its timeout may still come first.           *)
(*                                                                         *)
(* Time is counted in ticks, tokens in units of which a request costs      *)
(* Cost, so that a bucket may hold a fraction of a token.                  *)
(***************************************************************************)
EXTENDS Naturals, Sequences, SequencesExt, FiniteSets

CONSTANTS
  Requests,     \* the requests there may be at a time
  Capacity,     \* units the bucket holds (rate_limit_capacity)
  Rate,         \* units it gains per tick (rate_limit_refill_per_second)
  Cost,         \* units of one token
  MaxInFlight,  \* permits of the semaphore (max_in_flight_signals)
  MaxTime       \* bound: the clock stops here

ASSUME AdmissionAssumption ==
  /\ Capacity \in Nat
  /\ Rate \in Nat
  /\ Cost \in Nat \ {0}
  /\ MaxInFlight \in Nat \ {0}
  /\ MaxTime \in Nat

Phases == {"idle", "permit", "waiting", "granted", "publish", "202", "429", "500", "503"}

VARIABLES
  now,        \* the clock
  tokens,     \* TokenBucket.tokens, as of updatedAt
  updatedAt,  \* TokenBucket.updated_at
  phase,      \* Requests -> where its handler is, or what it has answered
  value,      \* Semaphore._value
  waiters,    \* Semaphore._waiters, those whose future is not done, oldest first
  inflight,   \* the gauge queue_inflight_signals
  markedAt,   \* history: an instant of the past
  admitted    \* history: the tokens acquired since

vars == <<now, tokens, updatedAt, phase, value, waiters, inflight, markedAt, admitted>>

bucketVars == <<tokens, updatedAt, admitted>>
semaphoreVars == <<value, waiters>>

TypeOK ==
  /\ now \in 0 .. MaxTime
  /\ tokens \in 0 .. Capacity
  /\ updatedAt \in 0 .. now
  /\ phase \in [Requests -> Phases]
  /\ value \in 0 .. MaxInFlight
  /\ waiters \in Seq(Requests)
  /\ inflight \in Nat
  /\ markedAt \in 0 .. now
  /\ admitted \in Nat

Init ==
  /\ now = 0
  /\ tokens = Capacity
  /\ updatedAt = 0
  /\ phase = [r \in Requests |-> "idle"]
  /\ value = MaxInFlight
  /\ waiters = <<>>
  /\ inflight = 0
  /\ markedAt = 0
  /\ admitted = 0

Lesser(a, b) == IF a <= b THEN a ELSE b

Goes(r, to) == phase' = [phase EXCEPT ![r] = to]

\* (mutant) The bucket fills beyond its capacity.
RefilledUnbounded == tokens + (now - updatedAt) * Rate

\* TokenBucket._refill: what the bucket holds now.
Refilled == Lesser(Capacity, tokens + (now - updatedAt) * Rate)
-------------------------------------------------------------------------------
\* TokenBucket.acquire returns False: 429.
RateLimited(r) ==
  /\ phase[r] = "idle"
  /\ Refilled < Cost
  /\ tokens' = Refilled
  /\ updatedAt' = now
  /\ Goes(r, "429")
  /\ UNCHANGED <<now, semaphoreVars, inflight, markedAt, admitted>>

\* TokenBucket.acquire returns True.
TokenAcquired(r) ==
  /\ phase[r] = "idle"
  /\ Refilled >= Cost
  /\ tokens' = Refilled - Cost
  /\ updatedAt' = now
  /\ admitted' = admitted + 1
  /\ Goes(r, "permit")
  /\ UNCHANGED <<now, semaphoreVars, inflight, markedAt>>

\* Semaphore.locked: no permit is left, or others wait for one.
Granted == {r \in Requests : phase[r] = "granted"}

Locked == value = 0 \/ waiters # <<>> \/ Granted # {}

\* Semaphore.acquire returns at once, and the gauge goes up.
PermitAcquired(r) ==
  /\ phase[r] = "permit"
  /\ ~Locked
  /\ value' = value - 1
  /\ inflight' = inflight + 1
  /\ Goes(r, "publish")
  /\ UNCHANGED <<now, bucketVars, waiters, markedAt>>

\* Or the request waits in line, until its timeout.
PermitAwaited(r) ==
  /\ phase[r] = "permit"
  /\ Locked
  /\ waiters' = Append(waiters, r)
  /\ Goes(r, "waiting")
  /\ UNCHANGED <<now, bucketVars, value, inflight, markedAt>>

\* The k oldest waiters are given a permit each, out of v that are free, while r goes on.
Wakes(r, to, v, line, k) ==
  /\ value' = v - k
  /\ waiters' = SubSeq(line, k + 1, Len(line))
  /\ phase' = [q \in Requests |->
       IF q = r THEN to
       ELSE IF \E i \in 1 .. k : line[i] = q THEN "granted" ELSE phase[q]]

\* What Semaphore.acquire does last, however the wait has ended: it wakes as many as
\* there are permits, for those that lined up behind a waiter already woken.
WakesAll(r, to, v, line) == Wakes(r, to, v, line, Lesser(v, Len(line)))

\* (mutant) It wakes nobody.
ReceivedAlone(r) == Goes(r, "publish") /\ UNCHANGED semaphoreVars

Received(r) == WakesAll(r, "publish", value, waiters)

\* The waiter whose future is done runs, and the gauge goes up.
PermitReceived(r) ==
  /\ phase[r] = "granted"
  /\ Received(r)
  /\ inflight' = inflight + 1
  /\ UNCHANGED <<now, bucketVars, markedAt>>

\* wait_for times out while the request is in line: 503, and the token is gone.
TimesOutWaiting(r) ==
  /\ phase[r] = "waiting"
  /\ \E i \in 1 .. Len(waiters) :
       /\ waiters[i] = r
       /\ WakesAll(r, "503", value, RemoveAt(waiters, i))
  /\ UNCHANGED <<now, bucketVars, inflight, markedAt>>

\* (mutant) A permit that came with the timeout is lost.
TimesOutGrantedLosing(r) ==
  /\ phase[r] = "granted"
  /\ WakesAll(r, "503", value, waiters)
  /\ UNCHANGED <<now, bucketVars, inflight, markedAt>>

\* wait_for times out after the permit was handed over: it is handed on.
TimesOutGranted(r) ==
  /\ phase[r] = "granted"
  /\ WakesAll(r, "503", value + 1, waiters)
  /\ UNCHANGED <<now, bucketVars, inflight, markedAt>>

\* (mutant) A publication that raises leaves its permit behind.
PublishEndsLeaking(r) ==
  /\ phase[r] = "publish"
  /\ inflight' = inflight - 1
  /\ \/ Wakes(r, "202", value + 1, waiters, Lesser(1, Len(waiters)))
     \/ Goes(r, "500") /\ UNCHANGED semaphoreVars
  /\ UNCHANGED <<now, bucketVars, markedAt>>

\* (mutant) publish waits for the broker, without an end.
PublishStalls(r) == phase[r] = "publish" /\ UNCHANGED vars

\* publish returns (202) or raises (500).  Either way the gauge goes down, and
\* Semaphore.release wakes the oldest waiter, if there is one.
PublishEnds(r) ==
  /\ phase[r] = "publish"
  /\ inflight' = inflight - 1
  /\ \E answer \in {"202", "500"} :
       Wakes(r, answer, value + 1, waiters, Lesser(1, Len(waiters)))
  /\ UNCHANGED <<now, bucketVars, markedAt>>

\* The response has left.
Respond(r) ==
  /\ phase[r] \in {"202", "429", "500", "503"}
  /\ Goes(r, "idle")
  /\ UNCHANGED <<now, bucketVars, semaphoreVars, inflight, markedAt>>

Tick ==
  /\ now < MaxTime
  /\ now' = now + 1
  /\ UNCHANGED <<bucketVars, phase, semaphoreVars, inflight, markedAt>>

\* History: the count starts again from this instant.
Mark ==
  /\ markedAt' = now
  /\ admitted' = 0
  /\ UNCHANGED <<now, tokens, updatedAt, phase, semaphoreVars, inflight>>

\* The steps of a handler that do not wait for another one.
Proceeds(r) ==
  \/ PermitAcquired(r)
  \/ PermitAwaited(r)
  \/ PermitReceived(r)
  \/ TimesOutWaiting(r)
  \/ TimesOutGranted(r)
  \/ PublishEnds(r)
  \/ Respond(r)

Next ==
  \/ \E r \in Requests : RateLimited(r) \/ TokenAcquired(r) \/ Proceeds(r)
  \/ Tick
  \/ Mark

Spec == Init /\ [][Next]_vars

\* Callbacks run in the order they became ready, a wait ends with its timeout at the
\* latest, and publish returns or raises.
FairSpec == Spec /\ \A r \in Requests : WF_vars(Proceeds(r))
-------------------------------------------------------------------------------
InPhase(p) == {r \in Requests : phase[r] = p}

\* Since any instant, no more requests were let through than a full bucket and what
\* flowed in since pay for, however requests, rejections and refills interleave.
RateBound == admitted * Cost <= Capacity + (now - markedAt) * Rate

\* Every permit is free, on its way to a waiter, or held by one request that publishes:
\* none is lost or made by a timeout that meets a release, or by a failed publication.
PermitsConserved ==
  /\ value + Cardinality(InPhase("granted")) + Cardinality(InPhase("publish")) = MaxInFlight
  /\ inflight = Cardinality(InPhase("publish"))

\* Nobody waits in line beside a free permit unless a waiter that was woken is about to
\* run, and will hand it on: no wake-up is lost.
NoLostWakeup == value > 0 /\ waiters # <<>> => Granted # {}

\* Every request that has its token is answered: a permit, the timeout of the wait, or the end
\* of its publication comes.  (The timeout would also hide a lost wake-up: see NoLostWakeup.)
RequestsAnswered == \A r \in Requests : (phase[r] # "idle") ~> (phase[r] = "idle")
==============================================================================
