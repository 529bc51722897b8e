-------------------------- MODULE DeduplicationProofs --------------------------
(***************************************************************************)
(* Pipeline implements Deduplication, for every number of processes,       *)
(* contents and attempts, every window, and any bound on time and faults.  *)
(***************************************************************************)
EXTENDS PipelineProofs

\* A debounce key that was ever set was taken for its content, and a call has no result
\* before it is done.
KeysArePassed ==
  \A key \in Contents \X Buckets :
    expires[key] > 0 => \E timing \in Timings : claims[key][timing] > 0

ResultInv ==
  \A w \in Workers : InCall(w, "check") \/ InCall(w, "store") => call[w].result = "none"

LEMMA KeysStep ==
  ASSUME PipelineTypeOK, KeysArePassed, ClaimChange
  PROVE  KeysArePassed'
<1>1. CASE UNCHANGED <<expires, claims>>
  BY <1>1 DEF KeysArePassed
<1>2. ASSUME NEW w \in Workers, InCall(w, "check"), Claimed(w),
             NEW key \in Contents \X Buckets, expires'[key] > 0
      PROVE  \E timing \in Timings : claims'[key][timing] > 0
  <2>1. call[w] # Idle /\ Timing(w) \in Timings
    BY <1>2 DEF InCall, Timing, Timings
  <2>2. \A timing \in Timings : claims[key][timing] \in Nat
    BY DEF PipelineTypeOK
  <2>3. CASE key = Key(w)
    <3>1. claims'[key][Timing(w)] = claims[key][Timing(w)] + 1
      BY <1>2, <2>1, <2>3, ClaimEffect
    <3> QED
      BY <2>1, <2>2, <3>1
  <2>4. CASE key # Key(w)
    <3>1. expires[key] > 0
      BY <1>2, <2>1, <2>4, ClaimEffect
    <3>2. \A timing \in Timings : claims'[key][timing] = claims[key][timing]
      BY <1>2, <2>1, <2>4, ClaimEffect
    <3> QED
      BY <3>1, <3>2 DEF KeysArePassed
  <2> QED
    BY <2>3, <2>4
<1> QED
  BY <1>1, <1>2 DEF KeysArePassed, ClaimChange

LEMMA ResultStep ==
  ASSUME ResultInv, CallChange
  PROVE  ResultInv'
<1> SUFFICES ASSUME NEW v \in Workers, InCall(v, "check")' \/ InCall(v, "store")'
             PROVE  call'[v].result = "none"
  BY DEF ResultInv
<1>1. CASE call'[v] = call[v]
  BY <1>1 DEF ResultInv, InCall
<1>2. CASE call'[v] # call[v]
  <2>1. CallEffect(v) \/ GivesUp(v)
    BY <1>2 DEF CallChange, CallsUntouched, CallEffect, GivesUp, Alone
  <2> QED
    BY <2>1 DEF CallEffect, BeginsOrGoes, LetsThrough, EndsUnstored, EndsStored, FailsToStore,
                GivesUp, GoesOn, ResultInv, InCall
<1> QED
  BY <1>1, <1>2
-------------------------------------------------------------------------------
\* The state of Deduplication.
Asks == [w \in Workers |-> Ask(w)]
Known == {content \in Contents : Passed(content)}

LEMMA AsksSame == UNCHANGED call => Asks' = Asks
BY DEF Asks, Ask

LEMMA KnownSame == UNCHANGED claims => Known' = Known
BY DEF Known, Passed, Keys

\* A call has been answered, as its caller sees it.
LEMMA AsksEnded ==
  ASSUME PipelineTypeOK, NEW w \in Workers, call[w] # Idle, NEW result \in Results,
         Ended(w, result)
  PROVE  Asks' = [Asks EXCEPT ![w].answer = result]
<1>1. call'[w] # Idle /\ call'[w].result = result /\ call'[w].content = call[w].content
  BY EndedEffect DEF InCall
<1>2. \A v \in Workers : v # w => Ask(v)' = Ask(v)
  BY EndedEffect DEF Ask, Alone
<1>3. Ask(w)' = [Ask(w) EXCEPT !.answer = result]
  BY <1>1 DEF Ask
<1> QED
  BY <1>2, <1>3 DEF Asks

\* Taking a key makes its content known, and no other.
LEMMA KnownGrows ==
  ASSUME PipelineTypeOK, ClaimChange, NEW w \in Workers, InCall(w, "check"), Claimed(w),
         NEW content, content = call[w].content
  PROVE  Known' = Known \union {content}
<1>1. call[w] # Idle /\ content \in Contents /\ Passed(content)'
  BY ClaimPasses, ContentType DEF InCall
<1>2. \A c \in Contents : Passed(c) => Passed(c)'
  BY PassesGrow
<1>3. ASSUME NEW c \in Contents, c # content, Passed(c)'
      PROVE  Passed(c)
  <2>1. PICK key \in Keys(c), timing \in Timings : claims'[key][timing] > 0
    BY <1>3 DEF Passed, Keys
  <2>2. key \in Contents \X Buckets /\ key # Key(w)
    BY <1>3, <2>1 DEF Keys, Key
  <2>3. claims'[key][timing] = claims[key][timing]
    BY <1>1, <2>1, <2>2, ClaimEffect
  <2> QED
    BY <2>1, <2>3 DEF Passed
<1> QED
  BY <1>1, <1>2, <1>3 DEF Known

DedupInv == PipelineTypeOK /\ CallInv /\ ResultInv /\ KeysArePassed

\* Where the call of a process stands, as its caller sees it.
LEMMA AskOf ==
  ASSUME DedupInv, NEW w \in Workers, call[w] # Idle
  PROVE  /\ call[w].content \in Contents
         /\ Asks[w] = [content |-> call[w].content, answer |-> call[w].result]
         /\ Asks[w] # Idle
<1>1. call[w] \in Call /\ call[w].content \in Contents /\ call[w].result \in Results
  BY RunningCall DEF DedupInv, Call
<1> QED
  BY <1>1, IdleAssumption DEF Asks, Ask

LEMMA PendingAsk ==
  ASSUME DedupInv, NEW w \in Workers, InCall(w, "check") \/ InCall(w, "store")
  PROVE  Asks[w] # Idle /\ Asks[w].answer = "none" /\ Asks[w].content = call[w].content
<1>1. call[w] # Idle /\ call[w].result = "none"
  BY DEF DedupInv, ResultInv, InCall
<1>2. Asks[w] = [content |-> call[w].content, answer |-> "none"] /\ Asks[w] # Idle
  BY <1>1, AskOf
<1> QED
  BY <1>2

\* An attempt that fails leaves the caller waiting, or is the last.
LEMMA AsksRetried ==
  ASSUME DedupInv, NEW w \in Workers, InCall(w, "store"), Retried(w)
  PROVE  Asks' = Asks \/ Asks' = [Asks EXCEPT ![w].answer = "error"]
<1> USE DEF DedupInv
<1>1. CASE call[w].attempt < Attempts
  <2>1. call[w] # Idle /\ call[w] \in Call
    BY RunningCall DEF InCall
  <2>2. call' = [call EXCEPT ![w] = [call[w] EXCEPT !.attempt = @ + 1]]
    BY <1>1 DEF Retried, PipelineTypeOK
  <2>3. call'[w].content = call[w].content /\ call'[w].result = call[w].result
    BY <2>1, <2>2 DEF PipelineTypeOK, Call
  <2>4. call'[w] # Idle
    BY RetriedEffect DEF InCall, GoesOn
  <2>5. \A v \in Workers : v # w => call'[v] = call[v]
    BY <2>2 DEF PipelineTypeOK
  <2> QED
    BY <2>1, <2>3, <2>4, <2>5 DEF Asks, Ask
<1>2. CASE ~(call[w].attempt < Attempts)
  BY <1>2, AsksEnded DEF Retried, InCall, Results
<1> QED
  BY <1>1, <1>2

LEMMA RetriedImplements ==
  ASSUME DedupInv, NEW w \in Workers, InCall(w, "store"), Retried(w), UNCHANGED <<stored, claims>>
  PROVE  Dedup!DedupNext \/ UNCHANGED <<stored, Known, Asks>>
<1>1. Known' = Known
  BY KnownSame
<1>2. Dedup!Refuse(w) \/ UNCHANGED <<stored, Known, Asks>>
  BY <1>1, PendingAsk, AsksRetried
     DEF Dedup!Refuse, Dedup!Pending, Dedup!Answered, Asks, Known
<1> QED
  BY <1>2 DEF Dedup!DedupNext

LEMMA ProcessStepImplements ==
  ASSUME DedupInv, NEW w \in Workers, ProcessStep(w)
  PROVE  Dedup!DedupNext \/ UNCHANGED <<stored, Known, Asks>>
<1> USE DEF DedupInv
<1>1. ClaimChange
  BY ProcessStepClaims
<1>2. ASSUME InCall(w, "check"), Claimed(w)
      PROVE  Known' = Known \union {Asks[w].content} /\ Asks[w].content \in Known'
  <2>1. \A content : content = call[w].content => Known' = Known \union {content}
    BY <1>1, <1>2, KnownGrows
  <2> QED
    BY <1>2, <2>1, PendingAsk
<1>3. ASSUME CheckDuplicate(w)
      PROVE  Dedup!Refuse(w)
  <2>1. call[w].content \in Known
    <3>1. call[w] # Idle /\ Key(w) \in Contents \X Buckets
      BY <1>3, RunningCall DEF CheckDuplicate, InCall
    <3>2. expires[Key(w)] > 0
      BY <1>3, <3>1, PipelineAssumption DEF CheckDuplicate, Live, PipelineTypeOK, Time
    <3>3. PICK timing \in Timings : claims[Key(w)][timing] > 0
      BY <3>1, <3>2 DEF KeysArePassed
    <3> QED
      BY AskOf, <3>1, <3>3 DEF Known, Passed, Keys, Key
  <2>2. Asks' = [Asks EXCEPT ![w].answer = "dropped"]
    BY <1>3, AsksEnded DEF CheckDuplicate, InCall, Results
  <2>3. Known' = Known /\ stored' = stored
    BY <1>3, KnownSame DEF CheckDuplicate
  <2> QED
    BY PendingAsk, <1>3, <2>1, <2>2, <2>3
       DEF CheckDuplicate, Dedup!Refuse, Dedup!Pending, Dedup!Answered, Asks, Known
<1>4. ASSUME CheckRejected(w) \/ CheckResent(w)
      PROVE  Dedup!Refuse(w)
  <2>1. \/ Asks' = [Asks EXCEPT ![w].answer = "rejected"]
        \/ Asks' = [Asks EXCEPT ![w].answer = "dropped"]
    BY <1>4, AsksEnded DEF CheckRejected, CheckResent, InCall, Results
  <2>2. InCall(w, "check") /\ Claimed(w) /\ stored' = stored
    BY <1>4 DEF CheckRejected, CheckResent
  <2> QED
    BY PendingAsk, <1>2, <2>1, <2>2 DEF Dedup!Refuse, Dedup!Pending, Dedup!Answered, Asks, Known
<1>5. ASSUME CheckFirstSeen(w)
      PROVE  Dedup!Admit(w)
  <2>1. InCall(w, "check") /\ Claimed(w) /\ stored' = stored
    BY <1>5 DEF CheckFirstSeen
  <2>2. Asks' = Asks
    <3>1. call[w] # Idle /\ call[w] \in Call
      BY <2>1, RunningCall DEF InCall
    <3>2. call' = [call EXCEPT ![w] = [call[w] EXCEPT !.phase = "store"]]
      BY <1>5 DEF CheckFirstSeen, PipelineTypeOK
    <3>3. [call[w] EXCEPT !.phase = "store"] \in Call
      BY <3>1 DEF Call
    <3>4. call'[w] # Idle /\ call'[w].content = call[w].content
          /\ call'[w].result = call[w].result
      BY <3>1, <3>2, <3>3, IdleAssumption DEF PipelineTypeOK, Call
    <3>5. \A v \in Workers : v # w => call'[v] = call[v]
      BY <3>2 DEF PipelineTypeOK
    <3> QED
      BY <3>1, <3>4, <3>5 DEF Asks, Ask
  <2> QED
    BY PendingAsk, <1>2, <2>1, <2>2 DEF Dedup!Admit, Dedup!Pending, Asks, Known
<1>6. ASSUME CheckFails(w)
      PROVE  Dedup!Refuse(w)
  <2>1. InCall(w, "check") /\ stored' = stored /\ (UNCHANGED claims \/ Claimed(w))
    BY <1>6 DEF CheckFails
  <2>2. Asks' = [Asks EXCEPT ![w].answer = "error"]
    BY <1>6, AsksEnded DEF CheckFails, InCall, Results
  <2>3. Known' = Known \/ Known' = Known \union {Asks[w].content}
    BY <1>2, <2>1, KnownSame
  <2> QED
    BY PendingAsk, <2>1, <2>2, <2>3 DEF Dedup!Refuse, Dedup!Pending, Dedup!Answered, Asks, Known
<1>7. ASSUME StoreCreates(w)
      PROVE  Dedup!Create(w)
  <2>1. Asks' = [Asks EXCEPT ![w].answer = "created"]
    BY <1>7, AsksEnded DEF StoreCreates, InCall, Results
  <2>2. Asks[w].content \in Known \ stored /\ stored' = stored \union {Asks[w].content}
    BY AskOf, PendingAsk, <1>7 DEF StoreCreates, CallInv, Known, InCall
  <2>3. Known' = Known
    BY <1>7, KnownSame DEF StoreCreates
  <2> QED
    BY PendingAsk, <1>7, <2>1, <2>2, <2>3
       DEF StoreCreates, Dedup!Create, Dedup!Enter, Dedup!Pending, Dedup!Answered, Asks, Known
<1>8. CASE StoreConflicts(w) \/ StoreFails(w)
  BY <1>8, RetriedImplements DEF StoreConflicts, StoreFails
<1>9. ASSUME StoreAcknowledgementLost(w)
      PROVE  Dedup!CreateUnnoticed(w)
  <2>1. InCall(w, "store") /\ Retried(w) /\ UNCHANGED claims
    BY <1>9 DEF StoreAcknowledgementLost
  <2>2. Asks[w].content \in Known \ stored /\ stored' = stored \union {Asks[w].content}
    BY AskOf, PendingAsk, <1>9 DEF StoreAcknowledgementLost, CallInv, Known, InCall
  <2>3. Known' = Known
    BY <2>1, KnownSame
  <2> QED
    BY PendingAsk, AsksRetried, <2>1, <2>2, <2>3
       DEF Dedup!CreateUnnoticed, Dedup!Enter, Dedup!Pending, Dedup!Answered, Asks, Known
<1> QED
  BY <1>3, <1>4, <1>5, <1>6, <1>7, <1>8, <1>9 DEF ProcessStep, Dedup!DedupNext

LEMMA CalledImplements ==
  ASSUME DedupInv, NEW w \in Workers, call[w] = Idle, UNCHANGED <<stored, claims>>,
         NEW content \in Contents, NEW bucket \in Buckets, NEW acceptable \in BOOLEAN,
         Called(w, content, bucket, acceptable)
  PROVE  Dedup!DedupNext
<1> USE DEF DedupInv
<1>1. /\ call'[w].content = content /\ call'[w].result = "none" /\ call'[w] # Idle
      /\ \A v \in Workers : v # w => call'[v] = call[v]
  BY CalledStarts DEF Alone
<1>2. Asks[w] = Idle /\ Asks' = [Asks EXCEPT ![w] = [content |-> content, answer |-> "none"]]
  BY <1>1 DEF Asks, Ask
<1>3. Dedup!Ask(w)
  BY <1>2, KnownSame DEF Dedup!Ask, Asks, Known
<1> QED
  BY <1>3 DEF Dedup!DedupNext

LEMMA GoneImplements ==
  ASSUME DedupInv, NEW w \in Workers, call[w] # Idle, call' = [call EXCEPT ![w] = Idle],
         UNCHANGED <<stored, claims>>
  PROVE  Dedup!DedupNext
<1> USE DEF DedupInv
<1>1. Asks' = [Asks EXCEPT ![w] = Idle]
  BY DEF Asks, Ask, PipelineTypeOK
<1>2. Dedup!Leave(w)
  BY <1>1, AskOf, KnownSame DEF Dedup!Leave, Asks, Known
<1> QED
  BY <1>2 DEF Dedup!DedupNext

LEMMA StepImplements ==
  ASSUME DedupInv, [Next]_pipelineVars
  PROVE  Dedup!DedupNext \/ UNCHANGED <<stored, Known, Asks>>
<1>1. ASSUME NEW w \in Workers, Submit(w)
      PROVE  Dedup!DedupNext
  <2>1. BodyBuckets \union {Bucket} \subseteq Buckets
    BY BucketType, PipelineAssumption DEF DedupInv
  <2> QED
    BY <1>1, <2>1, CalledImplements DEF Submit
<1>2. ASSUME NEW w \in Workers, Return(w) \/ Die(w)
      PROVE  Dedup!DedupNext
  BY <1>2, GoneImplements DEF Return, Die, InCall
<1>3. CASE Tick \/ UNCHANGED pipelineVars
  BY <1>3, AsksSame, KnownSame DEF Tick, pipelineVars
<1> QED
  BY <1>1, <1>2, <1>3, ProcessStepImplements DEF Next

\* Whatever fails and whoever dies, for any number of processes, a content gets at most one
\* work item, announced by at most one 201, and a 204 or a 422 is only said of a content
\* that was let through: the calls of process implement Deduplication.
THEOREM ImplementsDedup == Spec => ImplementsDeduplication
<1>1. PipelineInit => ResultInv /\ KeysArePassed /\ Dedup!DedupInit
  BY DEF PipelineInit, ResultInv, KeysArePassed, InCall, Dedup!DedupInit, Ask, Passed, Keys, Timings
<1>2. PipelineTypeOK /\ ResultInv /\ [Next]_pipelineVars => ResultInv'
  BY ResultStep, CallSteps DEF CallChange
<1>3. PipelineTypeOK /\ KeysArePassed /\ [Next]_pipelineVars => KeysArePassed'
  BY KeysStep, ClaimSteps
<1>4. PipelineTypeOK /\ PipelineTypeOK' /\ CallInv /\ [Next]_pipelineVars => CallInv'
  BY CallInvStep, ClaimSteps, CallSteps DEF CallChange
<1>5. PipelineTypeOK /\ CallInv /\ ResultInv /\ KeysArePassed /\ [Next]_pipelineVars =>
        [Dedup!DedupNext]_(Dedup!dedupVars)
  BY StepImplements DEF DedupInv, Dedup!dedupVars, Asks, Known
<1>6. Spec => Dedup!DedupSpec
  BY <1>1, <1>2, <1>3, <1>4, <1>5, CallInvInit, PipelineTypeCorrect, PTL DEF Spec, Dedup!DedupSpec
<1> QED
  BY <1>6 DEF ImplementsDeduplication
===============================================================================
