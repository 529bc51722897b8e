---------------------------- MODULE PipelineProofs ----------------------------
(***************************************************************************)
(* Theorems about Pipeline, for every number of processes, contents and    *)
(* attempts, every window, and any bound on time and faults.               *)
(***************************************************************************)
EXTENDS Pipeline, TLAPS

\* A second is in the time bucket it is divided into.
LEMMA InBucket ==
  ASSUME NEW n \in Nat, NEW w \in Nat \ {0}
  PROVE  n \div w \in Nat /\ (n \div w) * w <= n /\ n < (n \div w) * w + w
BY SMT

LEMMA BucketsGrow ==
  ASSUME NEW n \in Nat, NEW m \in Nat, NEW w \in Nat \ {0}, n <= m
  PROVE  n \div w <= m \div w
BY SMT

LEMMA BucketType ==
  ASSUME PipelineTypeOK
  PROVE  /\ now \in Nat /\ now <= MaxTime
         /\ Bucket \in Buckets
         /\ Bucket * Window <= now /\ now < Bucket * Window + Window
<1>1. now \in Nat /\ now <= MaxTime /\ MaxTime \in Nat /\ Window \in Nat \ {0}
  BY PipelineAssumption DEF PipelineTypeOK, Time
<1>2. Bucket \in Nat /\ Bucket * Window <= now /\ now < Bucket * Window + Window
  BY <1>1, InBucket DEF Bucket
<1>3. Bucket <= MaxTime \div Window /\ MaxTime \div Window \in Nat
  BY <1>1, InBucket, BucketsGrow DEF Bucket
<1> QED
  BY <1>1, <1>2, <1>3 DEF Buckets

-------------------------------------------------------------------------------
LEMMA RunningCall ==
  ASSUME PipelineTypeOK, NEW w \in Workers, call[w] # Idle
  PROVE  /\ call[w] \in Call
         /\ Key(w) \in Contents \X Buckets
<1>1. call[w] \in Call
  BY DEF PipelineTypeOK
<1> QED
  BY <1>1 DEF Call, Key

LEMMA EndedType ==
  ASSUME PipelineTypeOK, NEW w \in Workers, call[w] # Idle, NEW result \in Results, Ended(w, result)
  PROVE  call' \in [Workers -> Call \union {Idle}]
<1>1. call[w] \in Call
  BY RunningCall
<1>2. [call[w] EXCEPT !.phase = "done", !.result = result] \in Call
  BY <1>1 DEF Call
<1>3. call' = [call EXCEPT ![w] = [call[w] EXCEPT !.phase = "done", !.result = result]]
  BY DEF Ended, PipelineTypeOK
<1> QED
  BY <1>2, <1>3 DEF PipelineTypeOK

LEMMA RetriedType ==
  ASSUME PipelineTypeOK, NEW w \in Workers, call[w] # Idle, Retried(w)
  PROVE  call' \in [Workers -> Call \union {Idle}]
<1>1. CASE call[w].attempt < Attempts
  <2>1. call[w] \in Call
    BY RunningCall
  <2>2. [call[w] EXCEPT !.attempt = @ + 1] \in Call
    BY <1>1, <2>1, PipelineAssumption DEF Call
  <2>3. call' = [call EXCEPT ![w] = [call[w] EXCEPT !.attempt = @ + 1]]
    BY <1>1 DEF Retried, PipelineTypeOK
  <2> QED
    BY <2>2, <2>3 DEF PipelineTypeOK
<1>2. CASE ~(call[w].attempt < Attempts)
  BY <1>2, EndedType DEF Retried, Results
<1> QED
  BY <1>1, <1>2

LEMMA ClaimedType ==
  ASSUME PipelineTypeOK, NEW w \in Workers, call[w] # Idle, Claimed(w)
  PROVE  /\ expires' \in [Contents \X Buckets -> 0 .. (MaxTime + Window)]
         /\ claims' \in [Contents \X Buckets -> [Timings -> Nat]]
<1> DEFINE key == Key(w)
           timing == Timing(w)
<1>1. key \in Contents \X Buckets /\ timing \in Timings
  BY RunningCall DEF Timing, Timings
<1>2. now + Ttl \in 0 .. (MaxTime + Window)
  BY BucketType, PipelineAssumption DEF Ttl
<1>3. [claims[key] EXCEPT ![timing] = @ + 1] \in [Timings -> Nat]
  BY <1>1 DEF PipelineTypeOK
<1>4. claims' = [claims EXCEPT ![key] = [claims[key] EXCEPT ![timing] = @ + 1]]
  BY DEF Claimed
<1>5. claims' \in [Contents \X Buckets -> [Timings -> Nat]]
  <2> HIDE DEF key, timing
  <2> QED
    BY <1>1, <1>3, <1>4 DEF PipelineTypeOK
<1>6. expires' \in [Contents \X Buckets -> 0 .. (MaxTime + Window)]
  <2>1. expires' = [expires EXCEPT ![key] = now + Ttl]
    BY DEF Claimed
  <2> HIDE DEF key
  <2> QED
    BY <1>1, <1>2, <2>1 DEF PipelineTypeOK
<1> QED
  BY <1>5, <1>6

LEMMA FaultType ==
  ASSUME PipelineTypeOK, Fault
  PROVE  faults' \in 0 .. MaxFaults /\ faults' > 0
BY PipelineAssumption DEF PipelineTypeOK, Fault

LEMMA ProcessStepType ==
  ASSUME PipelineTypeOK, NEW w \in Workers, ProcessStep(w)
  PROVE  PipelineTypeOK'
<1>1. call[w] # Idle
  BY DEF ProcessStep, CheckDuplicate, CheckRejected, CheckFirstSeen, CheckFails,
              CheckResent, StoreCreates, StoreConflicts, StoreFails,
              StoreAcknowledgementLost, InCall
<1>2. call[w] \in Call
  BY <1>1, RunningCall
<1>3. CASE CheckDuplicate(w)
  BY <1>1, <1>3, EndedType DEF CheckDuplicate, PipelineTypeOK, Results
<1>4. CASE CheckRejected(w)
  BY <1>1, <1>4, EndedType, ClaimedType DEF CheckRejected, PipelineTypeOK, Results
<1>5. CASE CheckFirstSeen(w)
  <2>1. [call[w] EXCEPT !.phase = "store"] \in Call
    BY <1>2 DEF Call
  <2>2. call' \in [Workers -> Call \union {Idle}]
    BY <1>5, <2>1 DEF CheckFirstSeen, PipelineTypeOK
  <2> QED
    BY <1>1, <1>5, <2>2, ClaimedType DEF CheckFirstSeen, PipelineTypeOK
<1>6. CASE CheckFails(w)
  <2>1. call' \in [Workers -> Call \union {Idle}] /\ faults' \in 0 .. MaxFaults
    BY <1>1, <1>6, EndedType, FaultType DEF CheckFails, Results
  <2>2. CASE UNCHANGED <<expires, claims>>
    BY <1>6, <2>1, <2>2 DEF CheckFails, PipelineTypeOK
  <2>3. CASE Claimed(w)
    BY <1>1, <1>6, <2>1, <2>3, ClaimedType DEF CheckFails, PipelineTypeOK
  <2> QED
    BY <1>6, <2>2, <2>3 DEF CheckFails
<1>7. CASE CheckResent(w)
  BY <1>1, <1>7, EndedType, ClaimedType, FaultType DEF CheckResent, PipelineTypeOK, Results
<1>8. call[w].content \in Contents
  BY <1>2 DEF Call
<1>9. CASE StoreCreates(w)
  BY <1>1, <1>8, <1>9, EndedType DEF StoreCreates, PipelineTypeOK, Results
<1>10. CASE StoreConflicts(w)
  BY <1>1, <1>10, RetriedType DEF StoreConflicts, PipelineTypeOK
<1>11. CASE StoreFails(w)
  BY <1>1, <1>11, RetriedType, FaultType DEF StoreFails, PipelineTypeOK
<1>12. CASE StoreAcknowledgementLost(w)
  BY <1>1, <1>8, <1>12, RetriedType, FaultType DEF StoreAcknowledgementLost, PipelineTypeOK
<1> QED
  BY <1>3, <1>4, <1>5, <1>6, <1>7, <1>9, <1>10, <1>11, <1>12 DEF ProcessStep

LEMMA CalledType ==
  ASSUME PipelineTypeOK, NEW w \in Workers, NEW content \in Contents,
         NEW bucket \in BodyBuckets \union {Bucket}, NEW acceptable \in BOOLEAN,
         Called(w, content, bucket, acceptable)
  PROVE  call' \in [Workers -> Call \union {Idle}]
<1>1. bucket \in Buckets
  BY BucketType, PipelineAssumption
<1>2. [phase |-> "check", content |-> content, bucket |-> bucket,
       acceptable |-> acceptable, attempt |-> 1, result |-> "none"] \in Call
  BY <1>1, PipelineAssumption DEF Call, Results
<1> QED
  BY <1>2 DEF Called, PipelineTypeOK

LEMMA TickType ==
  ASSUME PipelineTypeOK, Tick
  PROVE  PipelineTypeOK'
BY PipelineAssumption DEF Tick, PipelineTypeOK, Time

LEMMA PipelineTypeStep == PipelineTypeOK /\ [Next]_pipelineVars => PipelineTypeOK'
<1> SUFFICES ASSUME PipelineTypeOK, [Next]_pipelineVars
             PROVE  PipelineTypeOK'
  OBVIOUS
<1>1. ASSUME NEW w \in Workers, Submit(w)
      PROVE  PipelineTypeOK'
  <2>1. call' \in [Workers -> Call \union {Idle}]
    BY <1>1, CalledType DEF Submit
  <2> QED
    BY <1>1, <2>1 DEF Submit, PipelineTypeOK
<1>2. ASSUME NEW w \in Workers, Return(w)
      PROVE  PipelineTypeOK'
  BY <1>2 DEF Return, PipelineTypeOK
<1>3. ASSUME NEW w \in Workers, Die(w)
      PROVE  PipelineTypeOK'
  BY <1>3, FaultType DEF Die, PipelineTypeOK
<1>4. CASE UNCHANGED pipelineVars
  BY <1>4 DEF pipelineVars, PipelineTypeOK
<1> QED
  BY <1>1, <1>2, <1>3, <1>4, ProcessStepType, TickType DEF Next

LEMMA PipelineTypeInit == PipelineInit => PipelineTypeOK
BY PipelineAssumption DEF PipelineInit, PipelineTypeOK, Time

\* Redis, PostgreSQL and the calls have their types in every reachable state: no call
\* counts past its last attempt.
THEOREM PipelineTypeCorrect == Spec => []PipelineTypeOK
BY PipelineTypeInit, PipelineTypeStep, PTL DEF Spec

-------------------------------------------------------------------------------
\* Debounce keys change only when a call that does not find its key takes it.
ClaimChange ==
  \/ UNCHANGED <<expires, claims>>
  \/ \E w \in Workers : InCall(w, "check") /\ ~Live(w) /\ Claimed(w)

LEMMA ProcessStepClaims ==
  ASSUME NEW w \in Workers, ProcessStep(w)
  PROVE  ClaimChange
BY DEF ClaimChange, ProcessStep, CheckDuplicate, CheckRejected, CheckFirstSeen, CheckFails,
       CheckResent, StoreCreates, StoreConflicts, StoreFails, StoreAcknowledgementLost

LEMMA ClaimSteps ==
  ASSUME [Next]_pipelineVars
  PROVE  ClaimChange
BY ProcessStepClaims DEF ClaimChange, Next, Tick, Submit, Return, Die, pipelineVars

\* What taking a key does to every key.
LEMMA ClaimEffect ==
  ASSUME PipelineTypeOK, NEW w \in Workers, call[w] # Idle, Claimed(w),
         NEW key \in Contents \X Buckets
  PROVE  /\ expires'[key] = IF key = Key(w) THEN now + Window ELSE expires[key]
         /\ \A timing \in Timings :
              claims'[key][timing] = IF key = Key(w) /\ timing = Timing(w)
                                     THEN claims[key][timing] + 1 ELSE claims[key][timing]
<1>1. Key(w) \in Contents \X Buckets /\ Timing(w) \in Timings
  BY RunningCall DEF Timing, Timings
<1>2. expires' = [expires EXCEPT ![Key(w)] = now + Window]
  BY DEF Claimed, Ttl
<1>3. claims' = [claims EXCEPT ![Key(w)] =
        [claims[Key(w)] EXCEPT ![Timing(w)] = claims[Key(w)][Timing(w)] + 1]]
  BY DEF Claimed
<1> QED
  BY <1>1, <1>2, <1>3 DEF PipelineTypeOK

\* The key of a content let through inside a bucket lives to the end of that bucket: the
\* bound on the claims is not inductive without it.
ClaimInv ==
  \A key \in Contents \X Buckets :
    /\ claims[key]["inside"] <= 1
    /\ claims[key]["inside"] > 0 => key[2] * Window + Window <= expires[key]

LEMMA ClaimInvStep ==
  ASSUME PipelineTypeOK, ClaimInv, ClaimChange
  PROVE  ClaimInv'
<1>1. CASE UNCHANGED <<expires, claims>>
  BY <1>1 DEF ClaimInv
<1>2. ASSUME NEW w \in Workers, InCall(w, "check"), ~Live(w), Claimed(w),
             NEW key \in Contents \X Buckets
      PROVE  /\ claims'[key]["inside"] <= 1
             /\ claims'[key]["inside"] > 0 => key[2] * Window + Window <= expires'[key]
  <2>1. call[w] # Idle /\ "inside" \in Timings
    BY <1>2 DEF InCall, Timings
  <2>2. CASE key # Key(w)
    BY <1>2, <2>1, <2>2, ClaimEffect DEF ClaimInv
  <2>3. CASE key = Key(w)
    <3>1. expires'[key] = now + Window /\ expires[key] <= now
      BY <1>2, <2>1, <2>3, ClaimEffect DEF Live, PipelineTypeOK, Time
    <3>2. key[2] = call[w].bucket /\ key[2] \in Nat
      BY <2>1, <2>3, RunningCall DEF Key, Buckets
    <3>3. Window \in Nat /\ key[2] * Window \in Nat /\ now \in Nat
      BY <3>2, BucketType, PipelineAssumption
    <3>4. claims[key]["inside"] \in Nat /\ expires[key] \in Nat
      BY <2>1, PipelineAssumption DEF PipelineTypeOK
    <3>5. CASE call[w].bucket = Bucket
      <4>1. key[2] * Window <= now /\ now < key[2] * Window + Window
        BY <3>2, <3>5, BucketType
      <4>2. ~(claims[key]["inside"] > 0)
        BY <3>1, <3>3, <3>4, <4>1 DEF ClaimInv
      <4>3. claims'[key]["inside"] = claims[key]["inside"] + 1
        BY <1>2, <2>1, <2>3, <3>5, ClaimEffect DEF Timing
      <4> QED
        BY <3>1, <3>3, <3>4, <4>1, <4>2, <4>3
    <3>6. CASE call[w].bucket # Bucket
      <4>1. claims'[key]["inside"] = claims[key]["inside"]
        BY <1>2, <2>1, <3>6, ClaimEffect DEF Timing
      <4> QED
        BY <3>1, <3>3, <3>4, <4>1 DEF ClaimInv
    <3> QED
      BY <3>5, <3>6
  <2> QED
    BY <2>2, <2>3
<1>3. (\E w \in Workers : InCall(w, "check") /\ ~Live(w) /\ Claimed(w)) => ClaimInv'
  BY <1>2 DEF ClaimInv
<1> QED
  BY <1>1, <1>3 DEF ClaimChange

LEMMA ClaimInvInit == PipelineInit => ClaimInv
BY DEF PipelineInit, ClaimInv, Timings

\* Of the incidents with one content and time bucket that are checked within that bucket,
\* at most one is let through, by however many processes.
THEOREM AtMostOneClaim == Spec => []OneClaimPerBucket
<1>1. PipelineInit => ClaimInv
  BY ClaimInvInit
<1>2. PipelineTypeOK /\ ClaimInv /\ [Next]_pipelineVars => ClaimInv'
  BY ClaimInvStep, ClaimSteps
<1>3. ClaimInv => OneClaimPerBucket
  BY DEF ClaimInv, OneClaimPerBucket
<1> QED
  BY <1>1, <1>2, <1>3, PipelineTypeCorrect, PTL DEF Spec

-------------------------------------------------------------------------------
\* A content was let through twice, be it twice within one bucket: what a step is easily
\* seen to do.  With AtMostOneClaim it is PassedAgain.
PassedTwice(content) ==
  \E j, k \in Keys(content), s, t \in Timings :
    /\ claims[j][s] > 0 /\ claims[k][t] > 0
    /\ j = k /\ s = t => claims[k][t] > 1

LEMMA TwiceIsAgain ==
  ASSUME OneClaimPerBucket, PipelineTypeOK, NEW content \in Contents, PassedTwice(content)
  PROVE  PassedAgain(content)
<1>1. PICK j \in Keys(content), k \in Keys(content), s \in Timings, t \in Timings :
        /\ claims[j][s] > 0 /\ claims[k][t] > 0
        /\ j = k /\ s = t => claims[k][t] > 1
  BY DEF PassedTwice
<1>2. claims[k]["inside"] <= 1 /\ claims[k]["inside"] \in Nat
  BY <1>1 DEF OneClaimPerBucket, PipelineTypeOK, Keys, Timings
<1>3. j = k /\ s = t => t = "outside"
  BY <1>1, <1>2 DEF Timings
<1> QED
  BY <1>1, <1>3 DEF PassedAgain

\* A content that was let through stays so, and taking a key lets its content through, once
\* more if it was already.
LEMMA PassesGrow ==
  ASSUME PipelineTypeOK, ClaimChange, NEW content \in Contents
  PROVE  /\ Passed(content) => Passed(content)'
         /\ PassedTwice(content) => PassedTwice(content)'
<1>1. CASE UNCHANGED claims
  BY <1>1 DEF Passed, PassedTwice
<1>2. ASSUME NEW w \in Workers, InCall(w, "check"), Claimed(w)
      PROVE  \A key \in Contents \X Buckets, timing \in Timings :
               /\ claims[key][timing] \in Nat /\ claims'[key][timing] \in Nat
               /\ claims[key][timing] <= claims'[key][timing]
  <2> SUFFICES ASSUME NEW key \in Contents \X Buckets, NEW timing \in Timings
               PROVE  /\ claims[key][timing] \in Nat /\ claims'[key][timing] \in Nat
                      /\ claims[key][timing] <= claims'[key][timing]
    OBVIOUS
  <2>1. call[w] # Idle /\ claims[key][timing] \in Nat
    BY <1>2 DEF InCall, PipelineTypeOK
  <2>2. claims'[key][timing] \in {claims[key][timing], claims[key][timing] + 1}
    BY <1>2, <2>1, ClaimEffect
  <2> QED
    BY <2>1, <2>2
<1>3. ASSUME \A key \in Contents \X Buckets, timing \in Timings :
               /\ claims[key][timing] \in Nat /\ claims'[key][timing] \in Nat
               /\ claims[key][timing] <= claims'[key][timing]
      PROVE  /\ Passed(content) => Passed(content)'
             /\ PassedTwice(content) => PassedTwice(content)'
  <2>1. \A key \in Keys(content), timing \in Timings :
          /\ claims[key][timing] > 0 => claims'[key][timing] > 0
          /\ claims[key][timing] > 1 => claims'[key][timing] > 1
    BY <1>3 DEF Keys
  <2>2. Passed(content) => Passed(content)'
    BY <2>1 DEF Passed, Keys
  <2>3. PassedTwice(content) => PassedTwice(content)'
    BY <2>1 DEF PassedTwice, Keys
  <2> QED
    BY <2>2, <2>3
<1>4. ASSUME NEW w \in Workers, InCall(w, "check"), Claimed(w)
      PROVE  /\ Passed(content) => Passed(content)'
             /\ PassedTwice(content) => PassedTwice(content)'
  BY <1>2, <1>3, <1>4
<1> QED
  BY <1>1, <1>4 DEF ClaimChange

LEMMA ClaimPasses ==
  ASSUME PipelineTypeOK, NEW w \in Workers, call[w] # Idle, Claimed(w),
         NEW content, content = call[w].content
  PROVE  /\ Passed(content)'
         /\ Passed(content) => PassedTwice(content)'
<1>1. content \in Contents /\ call[w].bucket \in Buckets /\ Timing(w) \in Timings
      /\ Key(w) = <<content, call[w].bucket>>
  BY RunningCall DEF Call, Timing, Timings, Key
<1>2. claims'[Key(w)][Timing(w)] = claims[Key(w)][Timing(w)] + 1
      /\ claims[Key(w)][Timing(w)] \in Nat
  <2>1. Key(w) \in Contents \X Buckets
    BY <1>1
  <2>2. claims[Key(w)][Timing(w)] \in Nat
    BY <1>1, <2>1 DEF PipelineTypeOK
  <2> QED
    BY <1>1, <2>1, <2>2, ClaimEffect
<1>3. claims'[Key(w)][Timing(w)] > 0 /\ Key(w) \in Keys(content)
  BY <1>1, <1>2 DEF Keys
<1>4. Passed(content)'
  BY <1>1, <1>3 DEF Passed, Keys
<1>5. ASSUME Passed(content)
      PROVE  PassedTwice(content)'
  <2>1. PICK key \in Keys(content), timing \in Timings : claims[key][timing] > 0
    BY <1>5 DEF Passed
  <2>2. claims[key][timing] \in Nat
    BY <2>1 DEF PipelineTypeOK, Keys
  <2>3. claims'[key][timing] > 0 /\ (key = Key(w) /\ timing = Timing(w) => claims'[key][timing] > 1)
    BY <1>2, <2>1, <2>2, ClaimEffect DEF Keys
  <2> QED
    BY <1>1, <1>3, <2>3 DEF PassedTwice, Keys
<1> QED
  BY <1>4, <1>5

\* How far a call has come, and what that says of its content.
CallInv ==
  /\ \A content \in stored : Passed(content)
  /\ \A w \in Workers : InCall(w, "store") => Passed(call[w].content)
  /\ \A w \in Workers : InCall(w, "done") /\ call[w].result = "created" =>
       call[w].content \in stored

\* Without faults: whoever is about to store what is stored already, or what another call
\* is about to store, has a content that was let through twice.
FaultFreeInv ==
  faults = 0 =>
    /\ \A w \in Workers : InCall(w, "store") /\ call[w].content \in stored =>
         PassedTwice(call[w].content)
    /\ \A v, w \in Workers :
         /\ v # w
         /\ InCall(v, "store") /\ InCall(w, "store")
         /\ call[v].content = call[w].content
         => PassedTwice(call[w].content)

\* And whose call has failed has such a content, and it is stored.
Recurrent(w) ==
  faults = 0 /\ InCall(w, "done") /\ call[w].result = "error" =>
    call[w].content \in stored /\ PassedTwice(call[w].content)

\* What a step may do to the call of one process: begin it, drop it or end it for good,
BeginsOrGoes(w) ==
  /\ ~InCall(w, "store")' /\ ~InCall(w, "done")'
  /\ InCall(w, "check")' => call'[w].result = "none"
  /\ UNCHANGED stored
  /\ faults' = faults \/ faults' > 0

\* take it from the check to the store,
LetsThrough(w) ==
  /\ InCall(w, "check") /\ InCall(w, "store")'
  /\ call'[w].content = call[w].content /\ call'[w].result = call[w].result
  /\ Claimed(w)
  /\ UNCHANGED <<stored, faults>>

\* end it with the check,
EndsUnstored(w) ==
  /\ InCall(w, "check") /\ InCall(w, "done")'
  /\ call'[w].content = call[w].content
  /\ call'[w].result # "created"
  /\ call'[w].result \in {"dropped", "rejected"} => Live(w) \/ Claimed(w)
  /\ UNCHANGED stored
  /\ (call'[w].result # "error" /\ faults' = faults) \/ faults' > 0

\* end it with the store,
EndsStored(w) ==
  /\ InCall(w, "store") /\ InCall(w, "done")'
  /\ call'[w].content = call[w].content
  /\ call'[w].result = "created"
  /\ stored' = stored \union {call[w].content}
  /\ UNCHANGED faults

\* or fail to store.
GoesOn(w) ==
  /\ InCall(w, "store")
  /\ \/ InCall(w, "store")' /\ call'[w].result = call[w].result
     \/ InCall(w, "done")' /\ call'[w].result = "error"
  /\ call'[w].content = call[w].content

FailsToStore(w) ==
  /\ GoesOn(w)
  /\ \/ call[w].content \in stored /\ UNCHANGED <<stored, faults>>
     \/ stored' \in {stored, stored \union {call[w].content}} /\ faults' > 0

Alone(w) == \A v \in Workers : v # w => call'[v] = call[v]

CallEffect(w) ==
  /\ Alone(w)
  /\ BeginsOrGoes(w) \/ LetsThrough(w) \/ EndsUnstored(w) \/ EndsStored(w) \/ FailsToStore(w)

\* A call may also fail to store what is not there, where the database is closed.
GivesUp(w) == Alone(w) /\ GoesOn(w) /\ UNCHANGED <<stored, faults>>

\* Faults happen outside the calls, too.
CallsUntouched == UNCHANGED <<call, stored>> /\ (faults' = faults \/ faults' > 0)

CallChange == CallsUntouched \/ \E w \in Workers : CallEffect(w) \/ GivesUp(w)

LEMMA EndedEffect ==
  ASSUME PipelineTypeOK, NEW w \in Workers, call[w] # Idle, NEW result \in Results,
         Ended(w, result)
  PROVE  /\ InCall(w, "done")'
         /\ ~InCall(w, "check")' /\ ~InCall(w, "store")'
         /\ call'[w].result = result
         /\ call'[w].content = call[w].content
         /\ Alone(w)
<1>1. call[w] \in Call
  BY RunningCall
<1>2. call'[w] = [call[w] EXCEPT !.phase = "done", !.result = result]
  BY DEF Ended, PipelineTypeOK
<1>3. call'[w] \in Call
  BY <1>1, <1>2 DEF Call
<1>4. call'[w] # Idle
  BY <1>3, IdleAssumption
<1> QED
  BY <1>1, <1>2, <1>4 DEF Ended, PipelineTypeOK, InCall, Call, Alone

LEMMA RetriedEffect ==
  ASSUME PipelineTypeOK, NEW w \in Workers, InCall(w, "store"), Retried(w)
  PROVE  GoesOn(w) /\ Alone(w)
<1>1. call[w] # Idle /\ call[w] \in Call /\ call[w].phase = "store"
  BY RunningCall DEF InCall
<1>2. CASE call[w].attempt < Attempts
  <2>1. call' = [call EXCEPT ![w] = [call[w] EXCEPT !.attempt = @ + 1]]
    BY <1>2 DEF Retried, PipelineTypeOK
  <2>2. call'[w] = [call[w] EXCEPT !.attempt = @ + 1]
    BY <2>1 DEF PipelineTypeOK
  <2>3. call'[w] \in Call
    BY <1>1, <1>2, <2>2, PipelineAssumption DEF Call
  <2>4. call'[w] # Idle
    BY <2>3, IdleAssumption
  <2>5. call'[w].phase = "store" /\ call'[w].content = call[w].content
        /\ call'[w].result = call[w].result
    BY <1>1, <2>2 DEF Call
  <2>6. Alone(w)
    BY <2>1 DEF PipelineTypeOK, Alone
  <2> QED
    BY <2>4, <2>5, <2>6 DEF InCall, GoesOn
<1>3. CASE ~(call[w].attempt < Attempts)
  BY <1>1, <1>3, EndedEffect DEF Retried, Results, GoesOn
<1> QED
  BY <1>2, <1>3

LEMMA ProcessStepEffect ==
  ASSUME PipelineTypeOK, NEW w \in Workers, ProcessStep(w)
  PROVE  CallEffect(w)
<1>1. call[w] # Idle
  BY DEF ProcessStep, CheckDuplicate, CheckRejected, CheckFirstSeen, CheckFails,
              CheckResent, StoreCreates, StoreConflicts, StoreFails,
              StoreAcknowledgementLost, InCall
<1>2. call[w] \in Call
  BY <1>1, RunningCall
<1>3. CASE CheckDuplicate(w)
  BY <1>1, <1>3, EndedEffect DEF CheckDuplicate, Results, CallEffect, EndsUnstored
<1>4. CASE CheckRejected(w)
  BY <1>1, <1>4, EndedEffect DEF CheckRejected, Results, CallEffect, EndsUnstored
<1>5. CASE CheckFirstSeen(w)
  <2>1. call'[w] = [call[w] EXCEPT !.phase = "store"] /\ Alone(w)
    BY <1>5 DEF CheckFirstSeen, PipelineTypeOK, Alone
  <2>2. call'[w] \in Call
    BY <1>2, <2>1 DEF Call
  <2>3. call'[w] # Idle
    BY <2>2, IdleAssumption
  <2> QED
    BY <1>2, <1>5, <2>1, <2>3 DEF CheckFirstSeen, CallEffect, LetsThrough, InCall, Call
<1>6. CASE CheckFails(w)
  BY <1>1, <1>6, EndedEffect, FaultType DEF CheckFails, Results, CallEffect, EndsUnstored
<1>7. CASE CheckResent(w)
  BY <1>1, <1>7, EndedEffect, FaultType DEF CheckResent, Results, CallEffect, EndsUnstored
<1>8. CASE StoreCreates(w)
  BY <1>1, <1>8, EndedEffect DEF StoreCreates, Results, CallEffect, EndsStored
<1>9. CASE StoreConflicts(w)
  BY <1>9, RetriedEffect DEF StoreConflicts, CallEffect, FailsToStore
<1>10. CASE StoreFails(w)
  BY <1>10, RetriedEffect, FaultType DEF StoreFails, CallEffect, FailsToStore
<1>11. CASE StoreAcknowledgementLost(w)
  BY <1>11, RetriedEffect, FaultType DEF StoreAcknowledgementLost, CallEffect, FailsToStore
<1> QED
  BY <1>3, <1>4, <1>5, <1>6, <1>7, <1>8, <1>9, <1>10, <1>11 DEF ProcessStep

\* A call of process begins with its content and without a result.
LEMMA CalledStarts ==
  ASSUME PipelineTypeOK, NEW w \in Workers, NEW content \in Contents, NEW bucket \in Buckets,
         NEW acceptable \in BOOLEAN, Called(w, content, bucket, acceptable)
  PROVE  /\ call'[w] # Idle /\ call'[w].content = content /\ call'[w].result = "none"
         /\ Alone(w)
<1> DEFINE new == [phase |-> "check", content |-> content, bucket |-> bucket,
                   acceptable |-> acceptable, attempt |-> 1, result |-> "none"]
<1>1. new \in Call
  BY PipelineAssumption DEF Call, Results
<1>2. new # Idle /\ new.content = content /\ new.result = "none"
  BY <1>1, IdleAssumption
<1>3. call' = [call EXCEPT ![w] = new]
  BY DEF Called
<1> HIDE DEF new
<1>4. call'[w] = new /\ Alone(w)
  BY <1>3 DEF PipelineTypeOK, Alone
<1> QED
  BY <1>2, <1>4

LEMMA CalledEffect ==
  ASSUME PipelineTypeOK, NEW w \in Workers, UNCHANGED <<stored, faults>>,
         \E content \in Contents, bucket \in Buckets, acceptable \in BOOLEAN :
           Called(w, content, bucket, acceptable)
  PROVE  CallEffect(w)
BY DEF Called, PipelineTypeOK, CallEffect, Alone, BeginsOrGoes, InCall

LEMMA GoneEffect ==
  ASSUME PipelineTypeOK, NEW w \in Workers, call' = [call EXCEPT ![w] = Idle],
         UNCHANGED stored, faults' = faults \/ faults' > 0
  PROVE  CallEffect(w)
BY DEF PipelineTypeOK, CallEffect, Alone, BeginsOrGoes, InCall

\* No step does anything else.
LEMMA CallSteps ==
  ASSUME PipelineTypeOK, [Next]_pipelineVars
  PROVE  CallsUntouched \/ \E w \in Workers : CallEffect(w)
<1>1. ASSUME NEW w \in Workers, Submit(w)
      PROVE  CallEffect(w)
  <2>1. BodyBuckets \union {Bucket} \subseteq Buckets
    BY BucketType, PipelineAssumption
  <2> QED
    BY <1>1, <2>1, CalledEffect DEF Submit
<1>2. ASSUME NEW w \in Workers, Return(w) \/ Die(w)
      PROVE  CallEffect(w)
  BY <1>2, FaultType, GoneEffect DEF Return, Die
<1>3. CASE Tick \/ UNCHANGED pipelineVars
  BY <1>3 DEF Tick, pipelineVars, CallsUntouched
<1> QED
  BY <1>1, <1>2, <1>3, ProcessStepEffect DEF Next

\* What a run of process has done for its content when it is in a phase.
LEMMA ContentType ==
  ASSUME PipelineTypeOK, NEW w \in Workers, call[w] # Idle
  PROVE  call[w].content \in Contents
BY RunningCall DEF Call

LEMMA CallInvStep ==
  ASSUME PipelineTypeOK, PipelineTypeOK', CallInv, ClaimChange, CallChange
  PROVE  CallInv'
<1>1. \A content \in Contents : Passed(content) => Passed(content)'
  BY PassesGrow
<1>2. CASE CallsUntouched
  <2> USE <1>2 DEF CallsUntouched
  <2>1. \A content \in stored' : Passed(content)'
    BY <1>1, <1>2 DEF CallInv, PipelineTypeOK
  <2>2. ASSUME NEW w \in Workers, InCall(w, "store")'
        PROVE  \A content : content = call'[w].content => Passed(content)'
    BY <1>1, <1>2, <2>2, ContentType DEF CallInv, InCall
  <2> QED
    BY <1>2, <2>1, <2>2 DEF CallInv, InCall, Passed, Keys
<1>3. ASSUME NEW w \in Workers, CallEffect(w) \/ GivesUp(w)
      PROVE  CallInv'
  <2>1. \A content \in stored' : Passed(content)'
    <3>1. ASSUME NEW content \in stored', content \notin stored
          PROVE  InCall(w, "store") /\ content = call[w].content
      BY <1>3, <3>1 DEF CallEffect, BeginsOrGoes, LetsThrough, EndsUnstored, EndsStored,
                        FailsToStore, GoesOn, GivesUp
    <3> QED
      BY <1>1, <3>1, ContentType DEF CallInv, InCall, PipelineTypeOK
  <2>2. ASSUME NEW v \in Workers, InCall(v, "store")'
        PROVE  \A content : content = call'[v].content => Passed(content)'
    <3>1. CASE v = w /\ LetsThrough(w)
      BY <3>1, ClaimPasses DEF LetsThrough, InCall
    <3>2. CASE ~(v = w /\ LetsThrough(w))
      <4>1. InCall(v, "store") /\ call'[v].content = call[v].content
        BY <1>3, <2>2, <3>2 DEF CallEffect, Alone, BeginsOrGoes, EndsUnstored, EndsStored,
                                FailsToStore, GoesOn, GivesUp, InCall
      <4> QED
        BY <1>1, <4>1, ContentType DEF CallInv, InCall
    <3> QED
      BY <3>1, <3>2
  <2>3. ASSUME NEW v \in Workers, InCall(v, "done")', call'[v].result = "created"
        PROVE  call'[v].content \in stored'
    BY <1>3, <2>3 DEF CallEffect, Alone, BeginsOrGoes, LetsThrough, EndsUnstored, EndsStored,
                      FailsToStore, GoesOn, GivesUp, InCall, CallInv
  <2> QED
    BY <2>1, <2>2, <2>3 DEF CallInv, Passed, Keys
<1> QED
  BY <1>2, <1>3 DEF CallChange

LEMMA CallInvInit == PipelineInit => CallInv
BY DEF PipelineInit, CallInv, InCall

\* Nothing is stored that check did not let through, and a 201 is never said of an incident
\* that is not stored.
THEOREM StoredIsClaimed == Spec => []StoredWasClaimed
<1>1. PipelineTypeOK /\ PipelineTypeOK' /\ CallInv /\ [Next]_pipelineVars => CallInv'
  BY CallInvStep, ClaimSteps, CallSteps DEF CallChange
<1>2. CallInv => StoredWasClaimed
  BY DEF CallInv, StoredWasClaimed
<1> QED
  BY <1>1, <1>2, CallInvInit, PipelineTypeCorrect, PTL DEF Spec

-------------------------------------------------------------------------------
LEMMA FaultsStay ==
  ASSUME PipelineTypeOK, [Next]_pipelineVars, faults' = 0
  PROVE  faults = 0
<1>1. faults \in Nat
  BY PipelineAssumption DEF PipelineTypeOK
<1>2. faults' = faults \/ faults' = faults + 1
  BY DEF Next, ProcessStep, CheckDuplicate, CheckRejected, CheckFirstSeen, CheckFails,
         CheckResent, StoreCreates, StoreConflicts, StoreFails, StoreAcknowledgementLost,
         Tick, Submit, Return, Die, Fault, pipelineVars
<1> QED
  BY <1>1, <1>2

\* The step from a call that is let through to one that is about to store: if its content
\* is stored, or another call is about to store it, it had been let through before.
LEMMA FaultFreeInvStep ==
  ASSUME PipelineTypeOK, CallInv, FaultFreeInv, ClaimChange, CallChange,
         faults' = 0 => faults = 0
  PROVE  FaultFreeInv'
<1> DEFINE FaultFreeGoal ==
      /\ \A w \in Workers : \A content :
           InCall(w, "store")' /\ content = call'[w].content /\ content \in stored' =>
             PassedTwice(content)'
      /\ \A v, w \in Workers : \A content :
           /\ v # w
           /\ InCall(v, "store")' /\ InCall(w, "store")'
           /\ content = call'[v].content /\ content = call'[w].content
           => PassedTwice(content)'
<1> SUFFICES ASSUME faults' = 0
             PROVE  FaultFreeGoal
  BY DEF FaultFreeInv, PassedTwice, Keys
<1>1. faults = 0
  OBVIOUS
<1>2. \A content \in Contents : PassedTwice(content) => PassedTwice(content)'
  BY PassesGrow
<1>3. \A w \in Workers : call[w] # Idle => call[w].content \in Contents
  BY ContentType
<1>4. CASE CallsUntouched
  BY <1>1, <1>2, <1>3, <1>4 DEF FaultFreeInv, InCall, CallsUntouched
<1>5. ASSUME NEW w \in Workers, Alone(w), BeginsOrGoes(w) \/ EndsUnstored(w)
      PROVE  FaultFreeGoal
  <2>1. \A v \in Workers : InCall(v, "store")' => v # w
    BY <1>5 DEF BeginsOrGoes, EndsUnstored, InCall
  <2>2. \A v \in Workers : v # w => call'[v] = call[v]
    BY <1>5 DEF Alone
  <2>3. stored' = stored
    BY <1>5 DEF BeginsOrGoes, EndsUnstored
  <2> QED
    BY <1>1, <1>2, <1>3, <2>1, <2>2, <2>3 DEF FaultFreeInv, InCall
<1>6. ASSUME NEW w \in Workers, Alone(w), LetsThrough(w)
      PROVE  FaultFreeGoal
  <2>1. stored' = stored /\ call[w] # Idle /\ call'[w].content = call[w].content
    BY <1>6 DEF LetsThrough, InCall
  <2>2. \A v \in Workers : v # w => call'[v] = call[v]
    BY <1>6 DEF Alone
  <2>3. \A content : content = call[w].content /\ Passed(content) => PassedTwice(content)'
    BY <1>6, <2>1, ClaimPasses DEF LetsThrough
  <2>4. \A v \in Workers : InCall(v, "store") => Passed(call[v].content)
    BY DEF CallInv
  <2>5. \A content \in stored : Passed(content)
    BY DEF CallInv
  <2>6. ASSUME NEW v \in Workers, NEW content, InCall(v, "store")', content = call'[v].content,
               content \in stored'
        PROVE  PassedTwice(content)'
    <3>1. CASE v = w
      BY <2>1, <2>3, <2>5, <2>6, <3>1
    <3>2. CASE v # w
      BY <1>1, <1>2, <1>3, <2>1, <2>2, <2>6, <3>2 DEF FaultFreeInv, InCall
    <3> QED
      BY <3>1, <3>2
  <2>7. ASSUME NEW u \in Workers, NEW v \in Workers, NEW content, u # v,
               InCall(u, "store")', InCall(v, "store")',
               content = call'[u].content, content = call'[v].content
        PROVE  PassedTwice(content)'
    <3>1. CASE u = w \/ v = w
      <4>1. content = call[w].content /\ Passed(content)
        BY <2>1, <2>2, <2>4, <2>7, <3>1 DEF InCall
      <4> QED
        BY <2>3, <4>1
    <3>2. CASE u # w /\ v # w
      BY <1>1, <1>2, <1>3, <2>2, <2>7, <3>2 DEF FaultFreeInv, InCall
    <3> QED
      BY <3>1, <3>2
  <2> QED
    BY <2>6, <2>7
<1>7. ASSUME NEW w \in Workers, Alone(w), EndsStored(w)
      PROVE  FaultFreeGoal
  <2>1. /\ InCall(w, "store") /\ ~InCall(w, "store")'
        /\ stored' = stored \union {call[w].content}
    BY <1>7 DEF EndsStored, InCall
  <2>2. \A v \in Workers : v # w => call'[v] = call[v]
    BY <1>7 DEF Alone
  <2> QED
    BY <1>1, <1>2, <1>3, <2>1, <2>2 DEF FaultFreeInv, InCall
<1>8. ASSUME NEW w \in Workers, Alone(w), FailsToStore(w) \/ GivesUp(w)
      PROVE  FaultFreeGoal
  <2>1. /\ InCall(w, "store")
        /\ call'[w].content = call[w].content
        /\ stored' = stored
    BY <1>8 DEF FailsToStore, GivesUp, GoesOn
  <2>2. \A v \in Workers : v # w => call'[v] = call[v]
    BY <1>8 DEF Alone
  <2> QED
    BY <1>1, <1>2, <1>3, <2>1, <2>2 DEF FaultFreeInv, InCall
<1> QED
  BY <1>4, <1>5, <1>6, <1>7, <1>8 DEF CallChange, CallEffect, GivesUp

\* A call that does not give up fails on what is stored.
LEMMA RecurrentStep ==
  ASSUME PipelineTypeOK, FaultFreeInv, NEW v \in Workers, Recurrent(v), ClaimChange,
         CallsUntouched \/ \E w \in Workers : CallEffect(w) \/ (w # v /\ GivesUp(w)),
         faults' = 0 => faults = 0
  PROVE  Recurrent(v)'
<1> SUFFICES ASSUME faults' = 0, InCall(v, "done")', call'[v].result = "error",
                    NEW content, content = call'[v].content
             PROVE  content \in stored' /\ PassedTwice(content)'
  BY DEF Recurrent, PassedTwice, Keys
<1>1. \A c \in Contents : PassedTwice(c) => PassedTwice(c)'
  BY PassesGrow
<1>2. \A w \in Workers : call[w] # Idle => call[w].content \in Contents
  BY ContentType
<1>3. CASE call'[v] = call[v]
  <2>1. content \in stored /\ PassedTwice(content) /\ content \in Contents
    BY <1>2, <1>3 DEF Recurrent, InCall
  <2>2. stored \subseteq stored'
    BY DEF CallsUntouched, CallEffect, BeginsOrGoes, LetsThrough, EndsUnstored, EndsStored,
           FailsToStore, GivesUp
  <2> QED
    BY <1>1, <2>1, <2>2
<1>4. CASE call'[v] # call[v]
  <2>1. CallEffect(v)
    BY <1>4 DEF CallsUntouched, CallEffect, GivesUp, Alone
  <2>2. FailsToStore(v)
    BY <2>1 DEF CallEffect, BeginsOrGoes, LetsThrough, EndsUnstored, EndsStored, InCall
  <2>3. InCall(v, "store") /\ content = call[v].content /\ content \in stored /\ stored' = stored
    BY <2>2 DEF FailsToStore, GoesOn
  <2>4. PassedTwice(content) /\ content \in Contents
    BY <1>2, <2>3 DEF FaultFreeInv, InCall
  <2> QED
    BY <1>1, <2>3, <2>4
<1> QED
  BY <1>3, <1>4

\* Without faults, process fails only for a content that check let through in two time
\* buckets, or outside the bucket of its key: the UNIQUE hash outlives the debounce key, and
\* the incident is refused with a 500.
THEOREM ErrorsAreRecurrences == Spec => []ErrorMeansRecurrence
<1> DEFINE AllRecurrent == \A w \in Workers : Recurrent(w)
<1>1. PipelineInit => FaultFreeInv /\ AllRecurrent
  BY DEF PipelineInit, FaultFreeInv, Recurrent, InCall
<1>2. PipelineTypeOK /\ CallInv /\ FaultFreeInv /\ [Next]_pipelineVars => FaultFreeInv'
  BY FaultFreeInvStep, FaultsStay, ClaimSteps, CallSteps DEF CallChange
<1>3. PipelineTypeOK /\ FaultFreeInv /\ AllRecurrent /\ [Next]_pipelineVars => AllRecurrent'
  BY RecurrentStep, FaultsStay, ClaimSteps, CallSteps
<1>4. PipelineTypeOK /\ PipelineTypeOK' /\ CallInv /\ [Next]_pipelineVars => CallInv'
  BY CallInvStep, ClaimSteps, CallSteps DEF CallChange
<1>5. PipelineTypeOK /\ OneClaimPerBucket /\ AllRecurrent => ErrorMeansRecurrence
  BY TwiceIsAgain, ContentType DEF Recurrent, ErrorMeansRecurrence, InCall
<1> QED
  BY <1>1, <1>2, <1>3, <1>4, <1>5, CallInvInit, PipelineTypeCorrect, AtMostOneClaim, PTL DEF Spec
==============================================================================
