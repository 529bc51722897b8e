---------------------------- MODULE ConsumerProofs ----------------------------
(***************************************************************************)
(* Theorems about SignalConsumer, for every set of processes, signals and  *)
(* components, any number of attempts, and any bound on time and faults.   *)
(***************************************************************************)
EXTENDS SignalConsumer, DeduplicationProofs, FiniteSetTheorems, SequenceTheorems

LEMMA ContentOfSignal ==
  ASSUME NEW s \in Signals
  PROVE  Component[s] \in Components /\ Content(s) \in Contents
BY ConsumerAssumption DEF Components

LEMMA RunningHandler ==
  ASSUME TypeOK, NEW w \in Workers, handler[w] # Idle
  PROVE  /\ handler[w] \in Handler
         /\ handler[w].phase \in {"look", "process", "link", "insert"}
         /\ handler[w].signal \in Signals
         /\ handler[w].item \in Contents \union {NoItem}
         /\ handler[w].attempt \in 1 .. Attempts
         /\ Content(handler[w].signal) \in Contents
         /\ ComponentOf(w) \in Components
         /\ TypeOf[ComponentOf(w)] = Content(handler[w].signal)
<1>1. handler[w] \in Handler
  BY DEF TypeOK
<1>2. handler[w].signal \in Signals
  BY <1>1 DEF Handler
<1> QED
  BY <1>1, <1>2, ContentOfSignal DEF Handler, ComponentOf, Content

-------------------------------------------------------------------------------
\* The other handlers are where they were.
OthersHandle(w) ==
  /\ handler' \in [Workers -> Handler \union {Idle}]
  /\ \A v \in Workers : v # w => handler'[v] = handler[v]

\* The handler of w runs, and handles the signal it did.
StillHandles(w) == handler'[w] # Idle /\ handler'[w].signal = handler[w].signal

LEMMA MovesEffect ==
  ASSUME TypeOK, NEW w \in Workers, handler[w] # Idle, NEW phase \in {"process", "link"},
         Moves(w, phase)
  PROVE  OthersHandle(w) /\ StillHandles(w) /\ handler'[w].phase = phase
<1>1. handler[w] \in Handler
  BY RunningHandler
<1>2. handler' = [handler EXCEPT ![w] = [handler[w] EXCEPT !.phase = phase]]
  BY DEF Moves, TypeOK
<1>3. [handler[w] EXCEPT !.phase = phase] \in Handler
  BY <1>1 DEF Handler
<1>4. handler'[w] = [handler[w] EXCEPT !.phase = phase]
  BY <1>2 DEF TypeOK
<1>5. handler'[w] # Idle
  BY <1>3, <1>4, HandlerAssumption
<1>6. handler'[w].signal = handler[w].signal /\ handler'[w].phase = phase
  BY <1>1, <1>4 DEF Handler
<1>7. OthersHandle(w)
  BY <1>2, <1>3 DEF TypeOK, OthersHandle
<1> QED
  BY <1>5, <1>6, <1>7 DEF StillHandles

LEMMA InsertsEffect ==
  ASSUME TypeOK, NEW w \in Workers, handler[w] # Idle, NEW item \in Contents \union {NoItem},
         InsertsWith(w, item)
  PROVE  /\ OthersHandle(w) /\ StillHandles(w)
         /\ handler'[w].phase = "insert" /\ handler'[w].item = item
<1>1. handler[w] \in Handler
  BY RunningHandler
<1>2. handler' = [handler EXCEPT ![w] =
        [handler[w] EXCEPT !.phase = "insert", !.item = item, !.attempt = 1]]
  BY DEF InsertsWith, TypeOK
<1>3. [handler[w] EXCEPT !.phase = "insert", !.item = item, !.attempt = 1] \in Handler
  <2>1. 1 \in 1 .. Attempts
    BY PipelineAssumption
  <2> QED
    BY <1>1, <2>1 DEF Handler
<1>4. handler'[w] = [handler[w] EXCEPT !.phase = "insert", !.item = item, !.attempt = 1]
  BY <1>2 DEF TypeOK
<1>5. handler'[w] # Idle
  BY <1>3, <1>4, HandlerAssumption
<1>6. /\ handler'[w].signal = handler[w].signal
      /\ handler'[w].phase = "insert" /\ handler'[w].item = item
  BY <1>1, <1>4 DEF Handler
<1>7. OthersHandle(w)
  BY <1>2, <1>3 DEF TypeOK, OthersHandle
<1> QED
  BY <1>5, <1>6, <1>7 DEF StillHandles

LEMMA FinishesEffect ==
  ASSUME TypeOK, NEW w \in Workers, handler[w] # Idle, Finishes(w)
  PROVE  /\ OthersHandle(w) /\ handler'[w] = Idle
         /\ handled' \in [Workers -> SUBSET Signals]
         /\ handled'[w] = handled[w] \union {handler[w].signal}
         /\ \A v \in Workers : v # w => handled'[v] = handled[v]
BY RunningHandler DEF Finishes, TypeOK, OthersHandle

LEMMA InsertRetriedEffect ==
  ASSUME TypeOK, NEW w \in Workers, Handling(w, "insert"), InsertRetried(w)
  PROVE  \/ /\ OthersHandle(w) /\ StillHandles(w)
            /\ handler'[w].phase = "insert" /\ handler'[w].item = handler[w].item
            /\ UNCHANGED handled
         \/ Finishes(w)
<1>1. handler[w] # Idle /\ handler[w] \in Handler /\ handler[w].phase = "insert"
  BY RunningHandler DEF Handling
<1>2. CASE handler[w].attempt < Attempts
  <2>1. handler' = [handler EXCEPT ![w] = [handler[w] EXCEPT !.attempt = @ + 1]]
        /\ UNCHANGED handled
    BY <1>2 DEF InsertRetried, TypeOK
  <2>2. [handler[w] EXCEPT !.attempt = @ + 1] \in Handler
    BY <1>1, <1>2, PipelineAssumption DEF Handler
  <2>3. handler'[w] = [handler[w] EXCEPT !.attempt = @ + 1]
    BY <2>1 DEF TypeOK
  <2>4. handler'[w] # Idle
    BY <2>2, <2>3, HandlerAssumption
  <2>5. /\ handler'[w].signal = handler[w].signal
        /\ handler'[w].phase = "insert" /\ handler'[w].item = handler[w].item
    BY <1>1, <2>3 DEF Handler
  <2>6. OthersHandle(w)
    BY <2>1, <2>2 DEF TypeOK, OthersHandle
  <2> QED
    BY <2>1, <2>4, <2>5, <2>6 DEF StillHandles
<1>3. CASE ~(handler[w].attempt < Attempts)
  BY <1>3 DEF InsertRetried
<1> QED
  BY <1>2, <1>3

LEMMA DocumentEffect ==
  ASSUME TypeOK, NEW w \in Workers, handler[w] # Idle, Document(w)
  PROVE  /\ docs' \in [Signals -> Seq(Contents \union {NoItem})]
         /\ \A s \in Signals : s # handler[w].signal => docs'[s] = docs[s]
         /\ \A s \in Signals : s = handler[w].signal =>
              /\ Len(docs'[s]) = Len(docs[s]) + 1
              /\ \A i \in 1 .. Len(docs[s]) : docs'[s][i] = docs[s][i]
              /\ docs'[s][Len(docs[s]) + 1] = handler[w].item
<1> DEFINE signal == handler[w].signal
           item == handler[w].item
           longer == Append(docs[signal], item)
<1>1. signal \in Signals /\ item \in Contents \union {NoItem}
  BY RunningHandler
<1>2. docs[signal] \in Seq(Contents \union {NoItem})
  BY <1>1 DEF TypeOK
<1>3. /\ longer \in Seq(Contents \union {NoItem})
      /\ Len(longer) = Len(docs[signal]) + 1
      /\ \A i \in 1 .. Len(docs[signal]) : longer[i] = docs[signal][i]
      /\ longer[Len(docs[signal]) + 1] = item
  BY <1>1, <1>2, AppendProperties
<1>4. docs' = [docs EXCEPT ![signal] = longer]
  BY DEF Document
<1> HIDE DEF signal, item, longer
<1>5. /\ docs' \in [Signals -> Seq(Contents \union {NoItem})]
      /\ docs'[signal] = longer
      /\ \A s \in Signals : s # signal => docs'[s] = docs[s]
  BY <1>1, <1>3, <1>4 DEF TypeOK
<1> QED
  BY <1>3, <1>5 DEF signal, item
-------------------------------------------------------------------------------
(* What a step does to Redis, PostgreSQL and the calls of process.         *)

\* It leaves them alone,
CallsAside ==
  /\ UNCHANGED <<now, expires, stored, call, claims>>
  /\ UNCHANGED faults \/ Fault

\* returns from the call of w, or drops it,
CallGone(w) ==
  /\ call' = [call EXCEPT ![w] = Idle]
  /\ UNCHANGED <<now, expires, stored, claims>>
  /\ UNCHANGED faults \/ Fault

\* or calls process.
CallBegins(w) ==
  /\ \E content \in Contents, bucket \in BodyBuckets \union {Bucket}, acceptable \in BOOLEAN :
       Called(w, content, bucket, acceptable)
  /\ UNCHANGED <<now, expires, stored, faults, claims>>

LEMMA PublishCalls == ASSUME NEW s \in Signals, Publish(s) PROVE CallsAside
<1>1. UNCHANGED faults \/ Fault
  BY DEF Publish
<1> QED
  BY <1>1 DEF Publish, CallsAside

LEMMA HandlerCalls ==
  ASSUME TypeOK, NEW w \in Workers, HandlerStep(w)
  PROVE  CallsAside \/ CallGone(w) \/ (Handling(w, "look") /\ CallBegins(w))
<1>1. CASE LookFinds(w) \/ SetLink(w) \/ InsertReturns(w) \/ InsertRefused(w)
  BY <1>1 DEF LookFinds, SetLink, InsertReturns, InsertRefused, pipelineVars, CallsAside
<1>2. CASE RedisFails(w) \/ InsertFails(w)
  BY <1>2 DEF RedisFails, InsertFails, CallsAside
<1>3. CASE ProcessCreated(w) \/ ProcessRefused(w) \/ ProcessRaised(w)
  BY <1>3 DEF ProcessCreated, ProcessRefused, ProcessRaised, CallGone
<1>4. CASE LookMisses(w)
  <2>1. Content(handler[w].signal) \in Contents
    BY <1>4, RunningHandler DEF LookMisses, Handling
  <2> QED
    BY <1>4, <2>1 DEF LookMisses, CallBegins
<1> QED
  BY <1>1, <1>2, <1>3, <1>4 DEF HandlerStep

LEMMA RouteCalls ==
  ASSUME NEW w \in Workers, SubmitByRoute(w)
  PROVE  LoopFree(w) /\ CallBegins(w)
BY ConsumerAssumption DEF SubmitByRoute, CallBegins

LEMMA ConsumerCalls ==
  ASSUME TypeOK, [ConsumerNext]_vars
  PROVE  \/ CallsAside
         \/ Tick
         \/ \E w \in Workers :
              \/ CallGone(w)
              \/ (LoopFree(w) \/ Handling(w, "look")) /\ CallBegins(w)
              \/ PipelineStep(w)
<1>1. CASE UNCHANGED vars
  BY <1>1 DEF vars, pipelineVars, CallsAside
<1>2. ASSUME NEW w \in Workers, Receive(w) \/ Shutdown(w) \/ Restart(w)
      PROVE  CallsAside
  BY <1>2 DEF Receive, Shutdown, Restart, pipelineVars, CallsAside
<1>3. ASSUME NEW w \in Workers, Crash(w) \/ ReturnToRoute(w)
      PROVE  CallGone(w)
  BY <1>3 DEF Crash, ReturnToRoute, Return, CallGone
<1> QED
  BY <1>1, <1>2, <1>3, PublishCalls, HandlerCalls, RouteCalls DEF ConsumerNext

\* The steps of a call that the closed connection makes raise.
StoreRefused(w) ==
  /\ w \in closing
  /\ InCall(w, "store")
  /\ Retried(w)
  /\ UNCHANGED <<now, expires, stored, faults, claims>>

LEMMA PipelineStepIs ==
  ASSUME NEW w \in Workers, PipelineStep(w)
  PROVE  StoreRefused(w) \/ ProcessStep(w)
BY DEF PipelineStep, StoreRefused

LEMMA CallsType ==
  ASSUME TypeOK, [ConsumerNext]_vars
  PROVE  PipelineTypeOK'
<1> USE DEF TypeOK
<1>1. CASE CallsAside
  BY <1>1, FaultType DEF CallsAside, PipelineTypeOK
<1>2. CASE Tick
  BY <1>2, TickType
<1>3. ASSUME NEW w \in Workers, CallGone(w)
      PROVE  PipelineTypeOK'
  BY <1>3, FaultType DEF CallGone, PipelineTypeOK
<1>4. ASSUME NEW w \in Workers, CallBegins(w)
      PROVE  PipelineTypeOK'
  <2>1. PICK content \in Contents, bucket \in BodyBuckets \union {Bucket}, acceptable \in BOOLEAN :
          Called(w, content, bucket, acceptable)
    BY <1>4 DEF CallBegins
  <2>2. PipelineTypeOK
    OBVIOUS
  <2>3. call' \in [Workers -> Call \union {Idle}]
    <3> HIDE DEF TypeOK
    <3> QED
      BY <2>1, <2>2, CalledType
  <2> QED
    BY <1>4, <2>3 DEF CallBegins, PipelineTypeOK
<1>5. ASSUME NEW w \in Workers, StoreRefused(w)
      PROVE  PipelineTypeOK'
  <2>1. call' \in [Workers -> Call \union {Idle}]
    BY <1>5, RetriedType DEF StoreRefused, InCall
  <2> QED
    BY <1>5, <2>1 DEF StoreRefused, PipelineTypeOK
<1> QED
  BY <1>1, <1>2, <1>3, <1>4, <1>5, ConsumerCalls, PipelineStepIs, ProcessStepType

LEMMA CallsClaim ==
  ASSUME TypeOK, [ConsumerNext]_vars
  PROVE  ClaimChange
BY ConsumerCalls, PipelineStepIs, ProcessStepClaims
   DEF CallsAside, Tick, CallGone, CallBegins, StoreRefused, ClaimChange

\* Only a closing process gives up.
LEMMA CallsChange ==
  ASSUME TypeOK, [ConsumerNext]_vars
  PROVE  CallsUntouched \/ \E w \in Workers : CallEffect(w) \/ (w \in closing /\ GivesUp(w))
<1> USE DEF TypeOK
<1>1. CASE CallsAside \/ Tick
  BY <1>1, FaultType DEF CallsAside, Tick, CallsUntouched
<1>2. ASSUME NEW w \in Workers, CallGone(w)
      PROVE  CallEffect(w)
  BY <1>2, FaultType, GoneEffect DEF CallGone
<1>3. ASSUME NEW w \in Workers, CallBegins(w)
      PROVE  CallEffect(w)
  <2>1. BodyBuckets \union {Bucket} \subseteq Buckets
    BY BucketType, PipelineAssumption
  <2> QED
    BY <1>3, <2>1, CalledEffect DEF CallBegins
<1>4. ASSUME NEW w \in Workers, StoreRefused(w)
      PROVE  w \in closing /\ GivesUp(w)
  BY <1>4, RetriedEffect DEF StoreRefused, GivesUp
<1> QED
  BY <1>1, <1>2, <1>3, <1>4, ConsumerCalls, PipelineStepIs, ProcessStepEffect

LEMMA CallsFault ==
  ASSUME TypeOK, [ConsumerNext]_vars, faults' = 0
  PROVE  faults = 0
<1>1. faults \in Nat
  BY PipelineAssumption DEF TypeOK, PipelineTypeOK
<1>2. faults' = faults \/ Fault
  BY ConsumerCalls, PipelineStepIs
     DEF CallsAside, Tick, CallGone, CallBegins, StoreRefused,
         ProcessStep, CheckDuplicate, CheckRejected, CheckFirstSeen, CheckFails,
         CheckResent, StoreCreates, StoreConflicts, StoreFails, StoreAcknowledgementLost
<1> QED
  BY <1>1, <1>2 DEF Fault

\* A work item stays.
LEMMA StoredGrows ==
  ASSUME TypeOK, [ConsumerNext]_vars
  PROVE  stored \subseteq stored'
BY CallsChange DEF CallsUntouched, CallEffect, BeginsOrGoes, LetsThrough, EndsUnstored,
                   EndsStored, FailsToStore, GivesUp
-------------------------------------------------------------------------------
(* What a step does to the messages and the handlers.                      *)

LEMMA PublishEffect ==
  ASSUME TypeOK, NEW s \in Signals, Publish(s)
  PROVE  /\ inbox' \in [Workers -> Seq(Signals)]
         /\ \A w \in Workers :
              \/ inbox'[w] = inbox[w]
              \/ w \notin closing /\ inbox'[w] = Append(inbox[w], s)
<1>1. PICK W \in SUBSET (Workers \ closing) :
        inbox' = [w \in Workers |-> IF w \in W THEN Append(inbox[w], s) ELSE inbox[w]]
  BY DEF Publish
<1>2. \A w \in Workers : inbox[w] \in Seq(Signals) /\ Append(inbox[w], s) \in Seq(Signals)
  BY AppendProperties DEF TypeOK
<1> QED
  BY <1>1, <1>2

LEMMA ReceiveEffect ==
  ASSUME TypeOK, NEW w \in Workers, Receive(w)
  PROVE  /\ OthersHandle(w)
         /\ handler[w] = Idle /\ call[w] = Idle
         /\ handler'[w] # Idle /\ handler'[w].phase = "look"
         /\ 1 \in 1 .. Len(inbox[w]) /\ handler'[w].signal = inbox[w][1]
         /\ inbox' \in [Workers -> Seq(Signals)]
         /\ \A v \in Workers : v # w => inbox'[v] = inbox[v]
         /\ \A i \in 1 .. Len(inbox'[w]) :
              i + 1 \in 1 .. Len(inbox[w]) /\ inbox'[w][i] = inbox[w][i + 1]
<1>1. inbox[w] \in Seq(Signals) /\ inbox[w] # <<>>
  BY DEF Receive, TypeOK
<1>2. /\ Head(inbox[w]) \in Signals
      /\ Tail(inbox[w]) \in Seq(Signals)
      /\ Len(Tail(inbox[w])) = Len(inbox[w]) - 1
      /\ \A i \in 1 .. Len(Tail(inbox[w])) : Tail(inbox[w])[i] = inbox[w][i + 1]
  BY <1>1, HeadTailProperties
<1>3. Len(inbox[w]) \in Nat \ {0} /\ Head(inbox[w]) = inbox[w][1]
  BY <1>1, EmptySeq
<1> DEFINE new == [phase |-> "look", signal |-> Head(inbox[w]), item |-> NoItem, attempt |-> 1]
<1>4. new \in Handler
  <2>1. 1 \in 1 .. Attempts
    BY PipelineAssumption
  <2> QED
    BY <1>2, <2>1 DEF Handler
<1>5. new # Idle /\ new.phase = "look" /\ new.signal = Head(inbox[w])
  BY <1>4, HandlerAssumption
<1>6. handler' = [handler EXCEPT ![w] = new] /\ inbox' = [inbox EXCEPT ![w] = Tail(inbox[w])]
  BY DEF Receive
<1> HIDE DEF new
<1>7. OthersHandle(w) /\ handler'[w] = new
  BY <1>4, <1>6 DEF TypeOK, OthersHandle
<1>8. /\ inbox' \in [Workers -> Seq(Signals)]
      /\ inbox'[w] = Tail(inbox[w])
      /\ \A v \in Workers : v # w => inbox'[v] = inbox[v]
  BY <1>2, <1>6 DEF TypeOK
<1>9. \A i \in 1 .. Len(inbox'[w]) :
        i + 1 \in 1 .. Len(inbox[w]) /\ inbox'[w][i] = inbox[w][i + 1]
  BY <1>2, <1>3, <1>8
<1>10. handler[w] = Idle /\ call[w] = Idle
  BY DEF Receive, LoopFree
<1> QED
  BY <1>3, <1>5, <1>7, <1>8, <1>9, <1>10

LEMMA CrashEffect ==
  ASSUME TypeOK, NEW w \in Workers, Crash(w)
  PROVE  /\ OthersHandle(w) /\ handler'[w] = Idle
         /\ inbox' \in [Workers -> Seq(Signals)] /\ inbox'[w] = <<>>
         /\ \A v \in Workers : v # w => inbox'[v] = inbox[v]
         /\ handled' \in [Workers -> SUBSET Signals]
         /\ \A v \in Workers : v # w => handled'[v] = handled[v]
         /\ \A s \in handled'[w] :
              \/ s \in handled[w]
              \/ handler[w] # Idle /\ s = handler[w].signal
              \/ \E i \in 1 .. Len(inbox[w]) : inbox[w][i] = s
<1> DEFINE dying == IF handler[w] = Idle THEN {} ELSE {handler[w].signal}
<1>1. inbox[w] \in Seq(Signals) /\ \A i \in 1 .. Len(inbox[w]) : inbox[w][i] \in Signals
  BY ElementOfSeq DEF TypeOK
<1>2. ToSet(inbox[w]) = {inbox[w][i] : i \in 1 .. Len(inbox[w])}
  BY <1>1, LenProperties DEF ToSet
<1>3. ToSet(inbox[w]) \subseteq Signals /\ dying \subseteq Signals
  BY <1>1, <1>2, RunningHandler
<1>4. handled' = [handled EXCEPT ![w] = handled[w] \union ToSet(inbox[w]) \union dying]
  BY DEF Crash
<1>5. /\ handled' \in [Workers -> SUBSET Signals]
      /\ handled'[w] = handled[w] \union ToSet(inbox[w]) \union dying
      /\ \A v \in Workers : v # w => handled'[v] = handled[v]
  <2> HIDE DEF dying
  <2> QED
    BY <1>3, <1>4 DEF TypeOK
<1>6. /\ OthersHandle(w) /\ handler'[w] = Idle
      /\ inbox' \in [Workers -> Seq(Signals)] /\ inbox'[w] = <<>>
      /\ \A v \in Workers : v # w => inbox'[v] = inbox[v]
  BY DEF Crash, TypeOK, OthersHandle
<1> QED
  BY <1>2, <1>5, <1>6
-------------------------------------------------------------------------------
\* The types of what SignalConsumer adds to Pipeline.
ConsumerTypeOK ==
  /\ published \subseteq Signals
  /\ inbox \in [Workers -> Seq(Signals)]
  /\ handler \in [Workers -> Handler \union {Idle}]
  /\ linkTo \in [Components -> Contents \union {NoItem}]
  /\ linkUntil \in [Components -> 0 .. (MaxTime + LinkWindow)]
  /\ docs \in [Signals -> Seq(Contents \union {NoItem})]
  /\ closing \subseteq Workers
  /\ handled \in [Workers -> SUBSET Signals]
  /\ late \subseteq Signals

\* setex, with its reply or without.
LEMMA LinkedEffect ==
  ASSUME TypeOK, NEW w \in Workers, handler[w] # Idle, Linked(w)
  PROVE  /\ linkTo' \in [Components -> Contents \union {NoItem}]
         /\ linkUntil' \in [Components -> 0 .. (MaxTime + LinkWindow)]
         /\ linkTo'[ComponentOf(w)] = Content(handler[w].signal)
         /\ \A c \in Components : c # ComponentOf(w) =>
              linkTo'[c] = linkTo[c] /\ linkUntil'[c] = linkUntil[c]
<1>1. ComponentOf(w) \in Components /\ Content(handler[w].signal) \in Contents
  BY RunningHandler
<1>2. now + LinkWindow \in 0 .. (MaxTime + LinkWindow)
  BY BucketType, PipelineAssumption, ConsumerAssumption DEF TypeOK
<1> QED
  BY <1>1, <1>2 DEF Linked, TypeOK

LEMMA SetLinkEffect ==
  ASSUME TypeOK, NEW w \in Workers, SetLink(w)
  PROVE  /\ handler[w] # Idle /\ Linked(w)
         /\ OthersHandle(w) /\ StillHandles(w)
         /\ handler'[w].phase = "insert" /\ handler'[w].item = Content(handler[w].signal)
<1>1. handler[w] # Idle /\ Linked(w) /\ InsertsWith(w, Content(handler[w].signal))
  BY DEF SetLink, Handling
<1>2. Content(handler[w].signal) \in Contents
  BY <1>1, RunningHandler
<1> QED
  BY <1>1, <1>2, InsertsEffect

LEMMA LookFindsEffect ==
  ASSUME TypeOK, NEW w \in Workers, LookFinds(w)
  PROVE  /\ OthersHandle(w) /\ StillHandles(w)
         /\ handler'[w].phase = "insert" /\ handler'[w].item = linkTo[ComponentOf(w)]
<1>1. handler[w] # Idle
  BY DEF LookFinds, Handling
<1>2. linkTo[ComponentOf(w)] \in Contents \union {NoItem}
  BY <1>1, RunningHandler DEF TypeOK
<1> QED
  BY <1>1, <1>2, InsertsEffect DEF LookFinds

LEMMA HandlerStepType ==
  ASSUME TypeOK, NEW w \in Workers, HandlerStep(w)
  PROVE  ConsumerTypeOK'
<1>1. handler[w] # Idle
  BY DEF HandlerStep, LookFinds, LookMisses, ProcessCreated, ProcessRefused, ProcessRaised,
         SetLink, RedisFails, InsertReturns, InsertFails, InsertRefused, Handling
<1>2. ConsumerTypeOK
  BY DEF TypeOK, ConsumerTypeOK
<1>3. CASE LookFinds(w)
  BY <1>2, <1>3, LookFindsEffect DEF LookFinds, ConsumerTypeOK, OthersHandle, lifespanVars
<1>4. CASE LookMisses(w)
  BY <1>1, <1>2, <1>4, MovesEffect DEF LookMisses, ConsumerTypeOK, OthersHandle, lifespanVars
<1>5. CASE ProcessCreated(w)
  BY <1>1, <1>2, <1>5, MovesEffect DEF ProcessCreated, ConsumerTypeOK, OthersHandle, lifespanVars
<1>6. CASE ProcessRefused(w)
  BY <1>1, <1>2, <1>6, InsertsEffect DEF ProcessRefused, ConsumerTypeOK, OthersHandle, lifespanVars
<1>7. CASE ProcessRaised(w)
  BY <1>1, <1>2, <1>7, FinishesEffect DEF ProcessRaised, ConsumerTypeOK, OthersHandle, lifespanVars
<1>8. CASE SetLink(w)
  BY <1>2, <1>8, SetLinkEffect, LinkedEffect DEF SetLink, ConsumerTypeOK, OthersHandle, lifespanVars
<1>9. CASE RedisFails(w)
  <2>1. /\ linkTo' \in [Components -> Contents \union {NoItem}]
        /\ linkUntil' \in [Components -> 0 .. (MaxTime + LinkWindow)]
    BY <1>1, <1>2, <1>9, LinkedEffect DEF RedisFails, ConsumerTypeOK
  <2> QED
    BY <1>1, <1>2, <1>9, <2>1, FinishesEffect
       DEF RedisFails, ConsumerTypeOK, OthersHandle, lifespanVars
<1>10. CASE InsertReturns(w)
  BY <1>1, <1>2, <1>10, FinishesEffect, DocumentEffect
     DEF InsertReturns, ConsumerTypeOK, OthersHandle, lifespanVars
<1>11. CASE InsertFails(w) \/ InsertRefused(w)
  <2>1. /\ handler' \in [Workers -> Handler \union {Idle}]
        /\ handled' \in [Workers -> SUBSET Signals]
    <3>1. handled \in [Workers -> SUBSET Signals]
      BY <1>2 DEF ConsumerTypeOK
    <3>2. Handling(w, "insert") /\ InsertRetried(w)
      BY <1>11 DEF InsertFails, InsertRefused
    <3> QED
      BY <1>1, <3>1, <3>2, InsertRetriedEffect, FinishesEffect DEF OthersHandle
  <2>2. docs' \in [Signals -> Seq(Contents \union {NoItem})]
    BY <1>1, <1>2, <1>11, DocumentEffect DEF InsertFails, InsertRefused, ConsumerTypeOK
  <2> QED
    BY <1>2, <1>11, <2>1, <2>2 DEF InsertFails, InsertRefused, ConsumerTypeOK, lifespanVars
<1> QED
  BY <1>3, <1>4, <1>5, <1>6, <1>7, <1>8, <1>9, <1>10, <1>11 DEF HandlerStep

LEMMA ConsumerTypeStep ==
  ASSUME TypeOK, [ConsumerNext]_vars
  PROVE  TypeOK'
<1>1. ConsumerTypeOK
  BY DEF TypeOK, ConsumerTypeOK
<1>2. ASSUME UNCHANGED vars
      PROVE  ConsumerTypeOK'
  BY <1>1, <1>2 DEF vars, consumerVars, lifespanVars, ConsumerTypeOK
<1>3. ASSUME UNCHANGED consumerVars
      PROVE  ConsumerTypeOK'
  BY <1>1, <1>3 DEF consumerVars, lifespanVars, ConsumerTypeOK
<1>4. ASSUME NEW s \in Signals, Publish(s)
      PROVE  ConsumerTypeOK'
  BY <1>1, <1>4, PublishEffect DEF Publish, lifespanVars, ConsumerTypeOK
<1>5. ASSUME NEW w \in Workers, Receive(w)
      PROVE  ConsumerTypeOK'
  BY <1>1, <1>5, ReceiveEffect DEF Receive, OthersHandle, lifespanVars, ConsumerTypeOK
<1>6. ASSUME NEW w \in Workers, Crash(w)
      PROVE  ConsumerTypeOK'
  BY <1>1, <1>6, CrashEffect DEF Crash, OthersHandle, lifespanVars, ConsumerTypeOK
<1>7. ASSUME NEW w \in Workers, Shutdown(w)
      PROVE  ConsumerTypeOK'
  <2>1. ToSet(inbox[w]) \subseteq Signals
    <3>1. \A i \in DOMAIN inbox[w] : inbox[w][i] \in Signals
      BY <1>1, ElementOfSeq, LenProperties DEF ConsumerTypeOK
    <3> QED
      BY <3>1 DEF ToSet
  <2>2. handler[w] # Idle => handler[w].signal \in Signals
    BY RunningHandler
  <2>3. late' \subseteq Signals
    BY <1>1, <1>7, <2>1, <2>2 DEF Shutdown, ConsumerTypeOK
  <2> QED
    BY <1>1, <1>7, <2>3 DEF Shutdown, ConsumerTypeOK
<1>8. ASSUME NEW w \in Workers, Restart(w)
      PROVE  ConsumerTypeOK'
  BY <1>1, <1>8 DEF Restart, ConsumerTypeOK
<1>9. ConsumerTypeOK'
  BY <1>2, <1>3, <1>4, <1>5, <1>6, <1>7, <1>8, HandlerStepType
     DEF ConsumerNext, PipelineStep, SubmitByRoute, ReturnToRoute
<1> QED
  BY <1>9, CallsType DEF TypeOK, ConsumerTypeOK

LEMMA ConsumerTypeInit == ConsumerInit => TypeOK
<1> SUFFICES ASSUME ConsumerInit
             PROVE  TypeOK
  OBVIOUS
<1>1. PipelineTypeOK
  BY PipelineTypeInit DEF ConsumerInit
<1>2. <<>> \in Seq(Signals) /\ <<>> \in Seq(Contents \union {NoItem})
  BY EmptySeq
<1>3. 0 \in 0 .. (MaxTime + LinkWindow)
  BY PipelineAssumption, ConsumerAssumption
<1> QED
  BY <1>1, <1>2, <1>3 DEF ConsumerInit, TypeOK

\* The messages, the handlers, the links and the documents have their types in every
\* reachable state: no insert counts past its last attempt.
THEOREM ConsumerTypeCorrect == ConsumerSpec => []TypeOK
BY ConsumerTypeInit, ConsumerTypeStep, PTL DEF ConsumerSpec
-------------------------------------------------------------------------------
(* The invariants of the links, the handlers and the documents.  They hold *)
(* together: the handler takes its work item from a link or from process,  *)
(* and links and documents are written from the handler.                   *)

\* The contents that were let through twice.
Twice == {content \in Contents : PassedTwice(content)}

\* A link that was ever set names the work item of the type of its component.
LinkInv ==
  \A c \in Components :
    IF linkTo[c] = NoItem THEN linkUntil[c] = 0
    ELSE linkTo[c] = TypeOf[c] /\ linkTo[c] \in stored

\* What the handler of w knows of its signal in each phase.
HandlerOK(w) ==
  handler[w] # Idle =>
    LET content == Content(handler[w].signal)
    IN /\ handler[w].phase = "process" => call[w] # Idle /\ call[w].content = content
       /\ handler[w].phase \in {"look", "link"} => call[w] = Idle
       /\ handler[w].phase = "link" => content \in stored
       /\ handler[w].phase = "insert" =>
            IF handler[w].item = NoItem THEN content \in Known
            ELSE handler[w].item = content /\ content \in stored

HandlerInv == \A w \in Workers : HandlerOK(w)

\* Only an incident that was let through is dropped or rejected.
RefusedInv ==
  \A w \in Workers : InCall(w, "done") /\ call[w].result \in {"dropped", "rejected"} =>
    call[w].content \in Known

DocsInv ==
  \A s \in Signals : \A i \in 1 .. Len(docs[s]) :
    IF docs[s][i] = NoItem THEN Content(s) \in Known
    ELSE docs[s][i] = Content(s) /\ docs[s][i] \in stored

LEMMA KnownStays ==
  ASSUME TypeOK, [ConsumerNext]_vars
  PROVE  Known \subseteq Known' /\ Twice \subseteq Twice'
<1>1. PipelineTypeOK /\ ClaimChange
  BY CallsClaim DEF TypeOK
<1>2. \A content \in Contents :
        /\ Passed(content) => Passed(content)'
        /\ PassedTwice(content) => PassedTwice(content)'
  BY <1>1, PassesGrow
<1> QED
  BY <1>2 DEF Known, Twice

LEMMA RefusedInvStep ==
  ASSUME PipelineTypeOK, KeysArePassed, RefusedInv, ClaimChange, CallChange,
         Known \subseteq Known'
  PROVE  RefusedInv'
<1> SUFFICES ASSUME NEW w \in Workers, InCall(w, "done")',
                    call'[w].result \in {"dropped", "rejected"},
                    NEW content, content = call'[w].content
             PROVE  content \in Known'
  BY DEF RefusedInv
<1>1. CASE call'[w] = call[w]
  BY <1>1 DEF RefusedInv, InCall
<1>2. CASE call'[w] # call[w]
  <2>1. CallEffect(w) \/ GivesUp(w)
    BY <1>2 DEF CallChange, CallsUntouched, CallEffect, GivesUp, Alone
  <2>2. ~GoesOn(w) /\ ~EndsStored(w)
    BY DEF GoesOn, EndsStored, InCall
  <2>3. EndsUnstored(w)
    BY <2>1, <2>2 DEF CallEffect, BeginsOrGoes, LetsThrough, FailsToStore, GivesUp, InCall
  <2>4. call[w] # Idle /\ content = call[w].content /\ (Live(w) \/ Claimed(w))
    BY <2>3 DEF EndsUnstored, InCall
  <2>5. call[w].content \in Contents /\ Key(w) \in Contents \X Buckets
    BY <2>4, RunningCall DEF Call
  <2>6. CASE Live(w)
    <3>1. expires[Key(w)] > 0
      BY <2>5, <2>6, PipelineAssumption DEF Live, PipelineTypeOK, Time
    <3>2. PICK timing \in Timings : claims[Key(w)][timing] > 0
      BY <2>5, <3>1 DEF KeysArePassed
    <3> QED
      BY <2>4, <2>5, <3>2 DEF Known, Passed, Keys, Key
  <2>7. CASE Claimed(w)
    BY <2>4, <2>5, <2>7, ClaimPasses DEF Known
  <2> QED
    BY <2>4, <2>6, <2>7
<1> QED
  BY <1>1, <1>2

LEMMA LinkInvStep ==
  ASSUME TypeOK, LinkInv, HandlerInv, [ConsumerNext]_vars
  PROVE  LinkInv'
<1>1. stored \subseteq stored'
  BY StoredGrows
<1>2. CASE UNCHANGED <<linkTo, linkUntil>>
  BY <1>1, <1>2 DEF LinkInv
<1>3. ASSUME NEW w \in Workers, Handling(w, "link"), Linked(w)
      PROVE  LinkInv'
  <2>1. handler[w] # Idle /\ handler[w].phase = "link"
    BY <1>3 DEF Handling
  <2>2. /\ TypeOf[ComponentOf(w)] = Content(handler[w].signal)
        /\ Content(handler[w].signal) \in stored
    BY <2>1, RunningHandler DEF HandlerInv, HandlerOK
  <2>3. Content(handler[w].signal) # NoItem
    BY <2>1, RunningHandler, ConsumerAssumption
  <2> QED
    BY <1>1, <1>3, <2>1, <2>2, <2>3, LinkedEffect DEF LinkInv
<1>4. ASSUME NEW w \in Workers, SetLink(w) \/ RedisFails(w)
      PROVE  LinkInv'
  BY <1>2, <1>3, <1>4 DEF SetLink, RedisFails
<1> QED
  BY <1>2, <1>4
     DEF ConsumerNext, vars, consumerVars, Publish, Receive, HandlerStep, LookFinds, LookMisses,
         ProcessCreated, ProcessRefused, ProcessRaised, InsertReturns, InsertFails,
         InsertRefused, Shutdown, Restart, Crash, PipelineStep, SubmitByRoute, ReturnToRoute

LEMMA DocsInvStep ==
  ASSUME TypeOK, DocsInv, HandlerInv, [ConsumerNext]_vars
  PROVE  DocsInv'
<1>1. stored \subseteq stored' /\ Known \subseteq Known'
  BY StoredGrows, KnownStays
<1>2. CASE UNCHANGED docs
  BY <1>1, <1>2 DEF DocsInv
<1>3. ASSUME NEW w \in Workers, Handling(w, "insert"), Document(w)
      PROVE  DocsInv'
  <2>1. handler[w] # Idle /\ handler[w].phase = "insert"
    BY <1>3 DEF Handling
  <2>2. IF handler[w].item = NoItem THEN Content(handler[w].signal) \in Known
        ELSE /\ handler[w].item = Content(handler[w].signal)
             /\ handler[w].item \in stored
    BY <2>1 DEF HandlerInv, HandlerOK
  <2> SUFFICES ASSUME NEW s \in Signals, NEW i \in 1 .. Len(docs'[s])
               PROVE  IF docs'[s][i] = NoItem THEN Content(s) \in Known'
                      ELSE docs'[s][i] = Content(s) /\ docs'[s][i] \in stored'
    BY DEF DocsInv
  <2>3. CASE s # handler[w].signal
    BY <1>1, <1>3, <2>1, <2>3, DocumentEffect DEF DocsInv
  <2>4. CASE s = handler[w].signal
    <3>1. Len(docs[s]) \in Nat
      BY LenProperties DEF TypeOK
    <3>2. /\ Len(docs'[s]) = Len(docs[s]) + 1
          /\ \A j \in 1 .. Len(docs[s]) : docs'[s][j] = docs[s][j]
          /\ docs'[s][Len(docs[s]) + 1] = handler[w].item
      BY <1>3, <2>1, <2>4, DocumentEffect
    <3>3. CASE i \in 1 .. Len(docs[s])
      BY <1>1, <3>2, <3>3 DEF DocsInv
    <3>4. CASE i = Len(docs[s]) + 1
      BY <1>1, <2>2, <2>4, <3>2, <3>4
    <3> QED
      BY <3>1, <3>2, <3>3, <3>4
  <2> QED
    BY <2>3, <2>4
<1> QED
  BY <1>2, <1>3
     DEF ConsumerNext, vars, consumerVars, Publish, Receive, HandlerStep, LookFinds, LookMisses,
         ProcessCreated, ProcessRefused, ProcessRaised, SetLink, RedisFails, InsertReturns,
         InsertFails, InsertRefused, Shutdown, Restart, Crash, PipelineStep, SubmitByRoute,
         ReturnToRoute

\* A step of process goes on with its call.
LEMMA ProcessStepKeeps ==
  ASSUME TypeOK, NEW w \in Workers, PipelineStep(w)
  PROVE  /\ call[w] # Idle /\ call'[w] # Idle /\ call'[w].content = call[w].content
         /\ Alone(w)
<1>1. PipelineTypeOK
  BY DEF TypeOK
<1>2. CASE StoreRefused(w)
  BY <1>1, <1>2, RetriedEffect DEF StoreRefused, GoesOn, InCall
<1>3. ASSUME ProcessStep(w)
      PROVE  InCall(w, "store")' \/ InCall(w, "done")'
  <2>1. CASE CheckDuplicate(w) \/ CheckRejected(w) \/ CheckFails(w) \/ CheckResent(w)
             \/ StoreCreates(w)
    BY <1>1, <2>1, EndedEffect
       DEF CheckDuplicate, CheckRejected, CheckFails, CheckResent, StoreCreates, InCall, Results
  <2>2. CASE StoreConflicts(w) \/ StoreFails(w) \/ StoreAcknowledgementLost(w)
    BY <1>1, <2>2, RetriedEffect
       DEF StoreConflicts, StoreFails, StoreAcknowledgementLost, GoesOn
  <2>3. CASE CheckFirstSeen(w)
    <3>1. call[w] \in Call /\ call' = [call EXCEPT ![w] = [call[w] EXCEPT !.phase = "store"]]
      BY <1>1, <2>3, RunningCall DEF CheckFirstSeen, InCall, PipelineTypeOK
    <3>2. call'[w] = [call[w] EXCEPT !.phase = "store"]
      BY <1>1, <3>1 DEF PipelineTypeOK
    <3>3. call'[w] \in Call /\ call'[w].phase = "store"
      BY <3>1, <3>2 DEF Call
    <3> QED
      BY <3>3, IdleAssumption DEF InCall
  <2> QED
    BY <1>3, <2>1, <2>2, <2>3 DEF ProcessStep
<1>4. ProcessStep(w) => CallEffect(w)
  BY <1>1, ProcessStepEffect
<1> QED
  BY <1>2, <1>3, <1>4, PipelineStepIs
     DEF CallEffect, BeginsOrGoes, LetsThrough, EndsUnstored, EndsStored, FailsToStore, GoesOn, InCall

\* A handler and a call that a step leaves alone.
LEMMA HandlerStays ==
  ASSUME TypeOK, [ConsumerNext]_vars, NEW w \in Workers, HandlerOK(w),
         handler'[w] = handler[w], call'[w] = call[w]
  PROVE  HandlerOK(w)'
<1>1. stored \subseteq stored' /\ Known \subseteq Known'
  BY StoredGrows, KnownStays
<1> QED
  BY <1>1 DEF HandlerOK, Content

LEMMA HandlerInvStep ==
  ASSUME TypeOK, CallInv, LinkInv, RefusedInv, HandlerInv, [ConsumerNext]_vars
  PROVE  HandlerInv'
<1>1. stored \subseteq stored' /\ Known \subseteq Known'
  BY StoredGrows, KnownStays
<1>2. \A w \in Workers : HandlerOK(w)
  BY DEF HandlerInv
<1>3. ASSUME UNCHANGED <<handler, call>>
      PROVE  HandlerInv'
  BY <1>2, <1>3, HandlerStays DEF HandlerInv
<1>4. ASSUME NEW w \in Workers, OthersHandle(w), Alone(w), HandlerOK(w)'
      PROVE  HandlerInv'
  <2>1. \A v \in Workers : v # w => HandlerOK(v)'
    BY <1>2, <1>4, HandlerStays DEF OthersHandle, Alone
  <2> QED
    BY <1>4, <2>1 DEF HandlerInv
<1>5. ASSUME NEW w \in Workers, UNCHANGED call \/ call' = [call EXCEPT ![w] = Idle]
      PROVE  Alone(w)
  BY <1>5 DEF TypeOK, PipelineTypeOK, Alone
<1>6. ASSUME NEW w \in Workers, Receive(w)
      PROVE  HandlerInv'
  <2>1. UNCHANGED call
    BY <1>6 DEF Receive, pipelineVars
  <2>2. HandlerOK(w)'
    BY <1>6, <2>1, ReceiveEffect DEF HandlerOK
  <2> QED
    BY <1>4, <1>5, <1>6, <2>1, <2>2, ReceiveEffect
<1>7. ASSUME NEW w \in Workers, Crash(w)
      PROVE  HandlerInv'
  <2>1. HandlerOK(w)'
    BY <1>7, CrashEffect DEF HandlerOK
  <2> QED
    BY <1>4, <1>5, <1>7, <2>1, CrashEffect DEF Crash
<1>8. ASSUME NEW w \in Workers, UNCHANGED handler, Alone(w),
             handler[w] # Idle => handler[w].phase = "insert"
      PROVE  HandlerInv'
  <2>1. HandlerOK(w)'
    BY <1>1, <1>2, <1>8 DEF HandlerOK, Content
  <2> QED
    BY <1>4, <1>8, <2>1 DEF OthersHandle, TypeOK
<1>9. ASSUME NEW w \in Workers, SubmitByRoute(w)
      PROVE  HandlerInv'
  <2>1. UNCHANGED handler /\ (handler[w] # Idle => handler[w].phase = "insert")
    BY <1>9 DEF SubmitByRoute, consumerVars, LoopFree, Handling
  <2>2. Alone(w)
    BY <1>9 DEF SubmitByRoute, Called, TypeOK, PipelineTypeOK, Alone
  <2> QED
    BY <1>8, <2>1, <2>2
<1>10. ASSUME NEW w \in Workers, ReturnToRoute(w)
       PROVE  HandlerInv'
  <2>1. UNCHANGED handler /\ call' = [call EXCEPT ![w] = Idle] /\ call[w] # Idle
    BY <1>10 DEF ReturnToRoute, Return, consumerVars, InCall
  <2>2. handler[w] # Idle => handler[w].phase = "insert"
    BY <1>2, <1>10, <2>1, RunningHandler DEF ReturnToRoute, Handling, HandlerOK
  <2> QED
    BY <1>5, <1>8, <2>1, <2>2
<1>11. ASSUME NEW w \in Workers, PipelineStep(w)
       PROVE  HandlerInv'
  <2>1. UNCHANGED handler
    BY <1>11 DEF PipelineStep, consumerVars
  <2>2. HandlerOK(w)'
    BY <1>1, <1>2, <1>11, <2>1, ProcessStepKeeps, RunningHandler DEF HandlerOK, Content
  <2> QED
    BY <1>4, <1>11, <2>1, <2>2, ProcessStepKeeps DEF OthersHandle, TypeOK
<1>12. ASSUME NEW w \in Workers, HandlerStep(w)
       PROVE  HandlerInv'
  <2>1. handler[w] # Idle
    BY <1>12 DEF HandlerStep, LookFinds, LookMisses, ProcessCreated, ProcessRefused, ProcessRaised,
           SetLink, RedisFails, InsertReturns, InsertFails, InsertRefused, Handling
  <2>2. Content(handler[w].signal) \in Contents /\ Content(handler[w].signal) # NoItem
    BY <2>1, RunningHandler, ConsumerAssumption
  <2>3. ASSUME OthersHandle(w), handler'[w] = Idle,
               UNCHANGED call \/ call' = [call EXCEPT ![w] = Idle]
        PROVE  HandlerInv'
    BY <1>4, <1>5, <2>3 DEF HandlerOK
  <2>4. CASE LookFinds(w)
    <3>1. now < linkUntil[ComponentOf(w)] /\ UNCHANGED call
      BY <2>4 DEF LookFinds, pipelineVars
    <3>2. ComponentOf(w) \in Components /\ TypeOf[ComponentOf(w)] = Content(handler[w].signal)
      BY <2>1, RunningHandler
    <3>3. now \in Nat
      BY BucketType DEF TypeOK
    <3>4. /\ linkTo[ComponentOf(w)] = Content(handler[w].signal)
          /\ Content(handler[w].signal) \in stored
      BY <3>1, <3>2, <3>3 DEF LinkInv
    <3>5. /\ OthersHandle(w) /\ StillHandles(w)
          /\ handler'[w].phase = "insert" /\ handler'[w].item = Content(handler[w].signal)
      BY <2>4, <3>4, LookFindsEffect
    <3>6. HandlerOK(w)'
      BY <1>1, <2>2, <3>4, <3>5 DEF HandlerOK, StillHandles, Content
    <3> QED
      BY <1>4, <1>5, <3>1, <3>5, <3>6
  <2>5. CASE LookMisses(w)
    <3>1. OthersHandle(w) /\ StillHandles(w) /\ handler'[w].phase = "process"
      BY <2>1, <2>5, MovesEffect DEF LookMisses
    <3>2. Called(w, Content(handler[w].signal), Bucket, Content(handler[w].signal) \notin Refused)
      BY <2>5 DEF LookMisses
    <3>3. PipelineTypeOK /\ Bucket \in Buckets
      BY BucketType DEF TypeOK
    <3>4. Alone(w) /\ call'[w] # Idle /\ call'[w].content = Content(handler[w].signal)
      BY <2>2, <3>2, <3>3, CalledStarts
    <3>5. HandlerOK(w)'
      BY <3>1, <3>4 DEF HandlerOK, StillHandles, Content
    <3> QED
      BY <1>4, <3>1, <3>4, <3>5
  <2>6. CASE ProcessCreated(w)
    <3>1. /\ handler[w].phase = "process" /\ InCall(w, "done") /\ call[w].result = "created"
          /\ call' = [call EXCEPT ![w] = Idle]
      BY <2>6 DEF ProcessCreated, Handling
    <3>2. call[w].content = Content(handler[w].signal) /\ call[w].content \in stored
      BY <1>2, <2>1, <3>1 DEF HandlerOK, CallInv
    <3>3. OthersHandle(w) /\ StillHandles(w) /\ handler'[w].phase = "link"
      BY <2>1, <2>6, MovesEffect DEF ProcessCreated
    <3>4. call'[w] = Idle
      BY <3>1 DEF TypeOK, PipelineTypeOK
    <3>5. HandlerOK(w)'
      BY <1>1, <3>2, <3>3, <3>4 DEF HandlerOK, StillHandles, Content
    <3> QED
      BY <1>4, <1>5, <3>1, <3>3, <3>5
  <2>7. CASE ProcessRefused(w)
    <3>1. /\ handler[w].phase = "process" /\ InCall(w, "done")
          /\ call[w].result \in {"dropped", "rejected"}
          /\ call' = [call EXCEPT ![w] = Idle]
      BY <2>7 DEF ProcessRefused, Handling
    <3>2. call[w].content = Content(handler[w].signal) /\ call[w].content \in Known
      BY <1>2, <2>1, <3>1 DEF HandlerOK, RefusedInv
    <3>3. /\ OthersHandle(w) /\ StillHandles(w)
          /\ handler'[w].phase = "insert" /\ handler'[w].item = NoItem
      BY <2>1, <2>7, InsertsEffect DEF ProcessRefused
    <3>4. HandlerOK(w)'
      BY <1>1, <3>2, <3>3 DEF HandlerOK, StillHandles, Content
    <3> QED
      BY <1>4, <1>5, <3>1, <3>3, <3>4
  <2>8. CASE SetLink(w)
    <3>1. handler[w].phase = "link" /\ UNCHANGED call
      BY <2>8 DEF SetLink, Handling, pipelineVars
    <3>2. Content(handler[w].signal) \in stored
      BY <1>2, <2>1, <3>1 DEF HandlerOK
    <3>3. HandlerOK(w)'
      BY <1>1, <2>2, <2>8, <3>2, SetLinkEffect DEF HandlerOK, StillHandles, Content
    <3> QED
      BY <1>4, <1>5, <2>8, <3>1, <3>3, SetLinkEffect
  <2>9. CASE InsertFails(w) \/ InsertRefused(w)
    <3>1. Handling(w, "insert") /\ InsertRetried(w) /\ UNCHANGED call
      BY <2>9 DEF InsertFails, InsertRefused, pipelineVars
    <3>2. CASE Finishes(w)
      BY <2>1, <2>3, <3>1, <3>2, FinishesEffect
    <3>3. CASE ~Finishes(w)
      <4>1. /\ OthersHandle(w) /\ StillHandles(w)
            /\ handler'[w].phase = "insert" /\ handler'[w].item = handler[w].item
        BY <3>1, <3>3, InsertRetriedEffect
      <4>2. HandlerOK(w)'
        BY <1>1, <1>2, <2>1, <3>1, <4>1 DEF HandlerOK, StillHandles, Content, Handling
      <4> QED
        BY <1>4, <1>5, <3>1, <4>1, <4>2
    <3> QED
      BY <3>2, <3>3
  <2>10. CASE ProcessRaised(w) \/ RedisFails(w) \/ InsertReturns(w)
    <3>1. Finishes(w) /\ (UNCHANGED call \/ call' = [call EXCEPT ![w] = Idle])
      BY <2>10 DEF ProcessRaised, RedisFails, InsertReturns, pipelineVars
    <3> QED
      BY <2>1, <2>3, <3>1, FinishesEffect
  <2> QED
    BY <1>12, <2>4, <2>5, <2>6, <2>7, <2>8, <2>9, <2>10 DEF HandlerStep
<1> QED
  BY <1>3, <1>6, <1>7, <1>9, <1>10, <1>11, <1>12
     DEF ConsumerNext, vars, consumerVars, pipelineVars, Tick, Publish, Shutdown, Restart

\* The links, the handlers and the documents, with what they need of the calls.
RecordInv ==
  /\ TypeOK /\ CallInv /\ KeysArePassed /\ RefusedInv
  /\ LinkInv /\ HandlerInv /\ DocsInv

LEMMA RecordInvInit == ConsumerInit => RecordInv
<1> SUFFICES ASSUME ConsumerInit
             PROVE  RecordInv
  OBVIOUS
<1>1. TypeOK /\ CallInv
  BY ConsumerTypeInit, CallInvInit DEF ConsumerInit
<1>2. KeysArePassed /\ RefusedInv /\ LinkInv /\ HandlerInv
  BY DEF ConsumerInit, PipelineInit, KeysArePassed, RefusedInv, InCall, LinkInv, HandlerInv,
         HandlerOK
<1>3. DocsInv
  BY EmptySeq DEF ConsumerInit, DocsInv
<1> QED
  BY <1>1, <1>2, <1>3 DEF RecordInv

LEMMA RecordInvStep ==
  ASSUME RecordInv, [ConsumerNext]_vars
  PROVE  RecordInv'
<1> USE DEF RecordInv
<1>1. TypeOK' /\ PipelineTypeOK /\ PipelineTypeOK' /\ ClaimChange /\ CallChange
  BY ConsumerTypeStep, CallsClaim, CallsChange DEF TypeOK, CallChange
<1>2. CallInv' /\ KeysArePassed' /\ RefusedInv'
  BY <1>1, CallInvStep, KeysStep, RefusedInvStep, KnownStays
<1> QED
  BY <1>1, <1>2, LinkInvStep, HandlerInvStep, DocsInvStep

LEMMA RecordInvariant == ConsumerSpec => []RecordInv
BY RecordInvInit, RecordInvStep, PTL DEF ConsumerSpec

\* A signal-link key names the work item of the type of its component, and it is in the
\* database, whatever process set it and whatever failed since.
THEOREM LinksAreTrue == ConsumerSpec => []LinkRefersToItem
<1>1. RecordInv => LinkRefersToItem
  BY DEF RecordInv, LinkInv, LinkRefersToItem
<1> QED
  BY <1>1, RecordInvariant, PTL

\* A document names the work item of the type of its signal's component, and it is in the
\* database.
THEOREM DocumentsAreTrue == ConsumerSpec => []DocsReferToItem
<1>1. RecordInv => DocsReferToItem
  BY DEF RecordInv, DocsInv, DocsReferToItem
<1> QED
  BY <1>1, RecordInvariant, PTL

\* A signal is stored without a work item only when one of its type was let through.
THEOREM UnlinkedAreKnown == ConsumerSpec => []UnlinkedWasPassed
<1>1. RecordInv => UnlinkedWasPassed
  BY DEF RecordInv, DocsInv, UnlinkedWasPassed, Known
<1> QED
  BY <1>1, RecordInvariant, PTL

\* The debounce key holds against the consumer's calls as it does against the routes'.
THEOREM ConsumerClaimsOnce == ConsumerSpec => []OneClaimPerBucket
<1>1. ConsumerInit => ClaimInv
  BY ClaimInvInit DEF ConsumerInit
<1>2. TypeOK /\ ClaimInv /\ [ConsumerNext]_vars => ClaimInv'
  BY ClaimInvStep, CallsClaim DEF TypeOK
<1>3. ClaimInv => OneClaimPerBucket
  BY DEF ClaimInv, OneClaimPerBucket
<1> QED
  BY <1>1, <1>2, <1>3, ConsumerTypeCorrect, PTL DEF ConsumerSpec
-------------------------------------------------------------------------------
(* The messages: each process gets a signal at most once.                  *)

\* The handler of w goes on with its signal, or has returned.
Stays(w) == handler[w] # Idle /\ OthersHandle(w) /\ StillHandles(w) /\ UNCHANGED <<inbox, handled>>
Ends(w) == handler[w] # Idle /\ Finishes(w) /\ UNCHANGED inbox

MessageChange ==
  \/ UNCHANGED <<published, inbox, handler, handled>>
  \/ \E s \in Signals : Publish(s)
  \/ UNCHANGED published /\ \E w \in Workers : Receive(w) \/ Stays(w) \/ Ends(w) \/ Crash(w)

LEMMA HandlerMessages ==
  ASSUME TypeOK, NEW w \in Workers, HandlerStep(w)
  PROVE  UNCHANGED <<published, lifespanVars>> /\ (Stays(w) \/ Ends(w))
<1>1. handler[w] # Idle /\ UNCHANGED <<published, inbox, lifespanVars>>
  BY DEF HandlerStep, LookFinds, LookMisses, ProcessCreated, ProcessRefused, ProcessRaised,
         SetLink, RedisFails, InsertReturns, InsertFails, InsertRefused, Handling
<1>2. CASE LookFinds(w)
  BY <1>1, <1>2, LookFindsEffect DEF LookFinds, Stays
<1>3. CASE LookMisses(w) \/ ProcessCreated(w)
  BY <1>1, <1>3, MovesEffect DEF LookMisses, ProcessCreated, Stays
<1>4. CASE ProcessRefused(w)
  BY <1>1, <1>4, InsertsEffect DEF ProcessRefused, Stays
<1>5. CASE SetLink(w)
  BY <1>1, <1>5, SetLinkEffect DEF SetLink, Stays
<1>6. CASE ProcessRaised(w) \/ RedisFails(w) \/ InsertReturns(w)
  BY <1>1, <1>6 DEF ProcessRaised, RedisFails, InsertReturns, Ends
<1>7. CASE InsertFails(w) \/ InsertRefused(w)
  BY <1>1, <1>7, InsertRetriedEffect DEF InsertFails, InsertRefused, Stays, Ends
<1> QED
  BY <1>1, <1>2, <1>3, <1>4, <1>5, <1>6, <1>7 DEF HandlerStep


LEMMA MessageSteps ==
  ASSUME TypeOK, [ConsumerNext]_vars
  PROVE  /\ MessageChange
         /\ \/ UNCHANGED lifespanVars
            \/ /\ UNCHANGED <<pipelineVars, inbox, handler>>
               /\ \E w \in Workers : Shutdown(w) \/ Restart(w)
<1>1. ASSUME UNCHANGED consumerVars
      PROVE  UNCHANGED lifespanVars /\ MessageChange
  BY <1>1 DEF consumerVars, MessageChange
<1>2. ASSUME NEW s \in Signals, Publish(s)
      PROVE  UNCHANGED lifespanVars /\ MessageChange
  BY <1>2 DEF Publish, MessageChange
<1>3. ASSUME NEW w \in Workers, Receive(w) \/ Crash(w)
      PROVE  UNCHANGED lifespanVars /\ MessageChange
  BY <1>3 DEF Receive, Crash, MessageChange
<1>4. ASSUME NEW w \in Workers, HandlerStep(w)
      PROVE  UNCHANGED lifespanVars /\ MessageChange
  BY <1>4, HandlerMessages DEF MessageChange
<1>5. ASSUME NEW w \in Workers, Shutdown(w) \/ Restart(w)
      PROVE  UNCHANGED <<pipelineVars, inbox, handler>> /\ MessageChange
  BY <1>5 DEF Shutdown, Restart, MessageChange
<1> QED
  BY <1>1, <1>2, <1>3, <1>4, <1>5
     DEF ConsumerNext, vars, PipelineStep, SubmitByRoute, ReturnToRoute

\* The messages in an inbox and in the hands of its process are published, different, and
\* new to the process.
OnceOK(w) ==
  /\ handled[w] \subseteq published
  /\ \A i, j \in 1 .. Len(inbox[w]) : inbox[w][i] = inbox[w][j] => i = j
  /\ \A i \in 1 .. Len(inbox[w]) : inbox[w][i] \in published \ handled[w]
  /\ handler[w] # Idle =>
       /\ handler[w].signal \in published \ handled[w]
       /\ \A i \in 1 .. Len(inbox[w]) : inbox[w][i] # handler[w].signal

OnceInv == \A w \in Workers : OnceOK(w)

LEMMA OnceStays ==
  ASSUME NEW w \in Workers, OnceOK(w), published \subseteq published',
         inbox'[w] = inbox[w], handler'[w] = handler[w], handled'[w] = handled[w]
  PROVE  OnceOK(w)'
BY DEF OnceOK

LEMMA OnceInvStep ==
  ASSUME TypeOK, OnceInv, MessageChange
  PROVE  OnceInv'
<1>1. CASE UNCHANGED <<published, inbox, handler, handled>>
  BY <1>1, OnceStays DEF OnceInv
<1>2. ASSUME NEW s \in Signals, Publish(s), NEW w \in Workers
      PROVE  OnceOK(w)'
  <2>1. s \notin published /\ published' = published \union {s}
    BY <1>2 DEF Publish
  <2>2. UNCHANGED <<handler, handled>>
    BY <1>2 DEF Publish
  <2>3. CASE inbox'[w] = inbox[w]
    BY <2>1, <2>2, <2>3, OnceStays DEF OnceInv
  <2>4. CASE inbox'[w] = Append(inbox[w], s)
    <3>1. /\ Len(inbox[w]) \in Nat /\ Len(inbox'[w]) = Len(inbox[w]) + 1
          /\ \A i \in 1 .. Len(inbox[w]) : inbox'[w][i] = inbox[w][i]
          /\ inbox'[w][Len(inbox[w]) + 1] = s
      BY <2>4, AppendProperties, LenProperties DEF TypeOK
    <3>2. \A i \in 1 .. Len(inbox'[w]) : i \in 1 .. Len(inbox[w]) \/ i = Len(inbox[w]) + 1
      BY <3>1
    <3>3. OnceOK(w)
      BY DEF OnceInv
    <3>4. \A i \in 1 .. Len(inbox[w]) : inbox[w][i] # s
      BY <2>1, <3>3 DEF OnceOK
    <3>5. \A i, j \in 1 .. Len(inbox'[w]) : inbox'[w][i] = inbox'[w][j] => i = j
      BY <3>1, <3>2, <3>3, <3>4 DEF OnceOK
    <3>6. \A i \in 1 .. Len(inbox'[w]) : inbox'[w][i] \in published' \ handled'[w]
      BY <2>1, <2>2, <3>1, <3>2, <3>3 DEF OnceOK
    <3>7. handler'[w] # Idle =>
            /\ handler'[w].signal \in published' \ handled'[w]
            /\ \A i \in 1 .. Len(inbox'[w]) : inbox'[w][i] # handler'[w].signal
      BY <2>1, <2>2, <3>1, <3>2, <3>3 DEF OnceOK
    <3> QED
      BY <2>1, <2>2, <3>3, <3>5, <3>6, <3>7 DEF OnceOK
  <2> QED
    BY <1>2, <2>3, <2>4, PublishEffect
<1>3. ASSUME NEW w \in Workers, Receive(w), UNCHANGED published
      PROVE  OnceInv'
  <2>1. UNCHANGED handled
    BY <1>3 DEF Receive
  <2>2. \A v \in Workers : v # w => OnceOK(v)'
    BY <1>3, <2>1, ReceiveEffect, OnceStays DEF OnceInv, OthersHandle
  <2>3. OnceOK(w)
    BY DEF OnceInv
  <2>4. /\ handler'[w].signal = inbox[w][1] /\ 1 \in 1 .. Len(inbox[w])
        /\ \A i \in 1 .. Len(inbox'[w]) :
             i + 1 \in 1 .. Len(inbox[w]) /\ inbox'[w][i] = inbox[w][i + 1]
    BY <1>3, ReceiveEffect
  <2>5. \A i \in 1 .. Len(inbox'[w]) : i + 1 # 1
    OBVIOUS
  <2>6. OnceOK(w)'
    <3>1. \A i, j \in 1 .. Len(inbox'[w]) : inbox'[w][i] = inbox'[w][j] => i = j
      <4> SUFFICES ASSUME NEW i \in 1 .. Len(inbox'[w]), NEW j \in 1 .. Len(inbox'[w]),
                          inbox'[w][i] = inbox'[w][j]
                   PROVE  i = j
        OBVIOUS
      <4>1. i + 1 = j + 1
        BY <2>3, <2>4 DEF OnceOK
      <4> QED
        BY <4>1
    <3>2. \A i \in 1 .. Len(inbox'[w]) : inbox'[w][i] # handler'[w].signal
      BY <2>3, <2>4, <2>5 DEF OnceOK
    <3> QED
      BY <1>3, <2>1, <2>3, <2>4, <3>1, <3>2 DEF OnceOK
  <2> QED
    BY <2>2, <2>6 DEF OnceInv
<1>4. ASSUME NEW w \in Workers, Stays(w), UNCHANGED published
      PROVE  OnceInv'
  <2>1. \A v \in Workers : v # w => OnceOK(v)'
    BY <1>4, OnceStays DEF OnceInv, Stays, OthersHandle
  <2>2. OnceOK(w)'
    BY <1>4 DEF OnceInv, OnceOK, Stays, StillHandles
  <2> QED
    BY <2>1, <2>2 DEF OnceInv
<1>5. ASSUME NEW w \in Workers, Ends(w), UNCHANGED published
      PROVE  OnceInv'
  <2>1. /\ OthersHandle(w) /\ handler'[w] = Idle
        /\ handled'[w] = handled[w] \union {handler[w].signal}
        /\ \A v \in Workers : v # w => handled'[v] = handled[v]
    BY <1>5, FinishesEffect DEF Ends
  <2>2. \A v \in Workers : v # w => OnceOK(v)'
    BY <1>5, <2>1, OnceStays DEF OnceInv, Ends, OthersHandle
  <2>3. OnceOK(w)'
    BY <1>5, <2>1 DEF OnceInv, OnceOK, Ends
  <2> QED
    BY <2>2, <2>3 DEF OnceInv
<1>6. ASSUME NEW w \in Workers, Crash(w), UNCHANGED published
      PROVE  OnceInv'
  <2>1. \A v \in Workers : v # w => OnceOK(v)'
    BY <1>6, CrashEffect, OnceStays DEF OnceInv, OthersHandle
  <2>2. inbox'[w] = <<>> /\ handler'[w] = Idle
    BY <1>6, CrashEffect
  <2>3. handled'[w] \subseteq published'
    <3>1. \A s \in handled'[w] :
            \/ s \in handled[w]
            \/ handler[w] # Idle /\ s = handler[w].signal
            \/ \E i \in 1 .. Len(inbox[w]) : inbox[w][i] = s
      BY <1>6, CrashEffect
    <3>2. OnceOK(w)
      BY DEF OnceInv
    <3> QED
      BY <1>6, <3>1, <3>2 DEF OnceOK
  <2>4. Len(inbox'[w]) = 0
    BY <2>2, EmptySeq
  <2>5. OnceOK(w)'
    BY <2>2, <2>3, <2>4 DEF OnceOK
  <2> QED
    BY <2>1, <2>5 DEF OnceInv
<1> QED
  BY <1>1, <1>2, <1>3, <1>4, <1>5, <1>6 DEF MessageChange, OnceInv
-------------------------------------------------------------------------------
(* What is lost: the signals of the processes that are closing, and those  *)
(* whose incident could not be created.                                    *)

\* Every message a closing process has still to handle is late.
LateInv ==
  \A w \in closing :
    /\ \A i \in 1 .. Len(inbox[w]) : inbox[w][i] \in late
    /\ handler[w] # Idle => handler[w].signal \in late

\* A closing process calls process for its messages only.
DrainInv == \A w \in closing : call[w] # Idle => Handling(w, "process")

LEMMA LateInvStep ==
  ASSUME TypeOK, LateInv, [ConsumerNext]_vars
  PROVE  LateInv'
<1>1. CASE UNCHANGED lifespanVars
  <2>1. closing' = closing /\ late' = late /\ closing \subseteq Workers
    BY <1>1 DEF lifespanVars, TypeOK
  <2> SUFFICES ASSUME NEW v \in closing
               PROVE  /\ \A i \in 1 .. Len(inbox'[v]) : inbox'[v][i] \in late
                      /\ handler'[v] # Idle => handler'[v].signal \in late
    BY <2>1 DEF LateInv
  <2>2. ASSUME inbox'[v] = inbox[v], handler'[v] = handler[v]
        PROVE  /\ \A i \in 1 .. Len(inbox'[v]) : inbox'[v][i] \in late
               /\ handler'[v] # Idle => handler'[v].signal \in late
    BY <2>2 DEF LateInv
  <2>3. ASSUME NEW s \in Signals, Publish(s)
        PROVE  inbox'[v] = inbox[v] /\ handler'[v] = handler[v]
    BY <2>1, <2>3, PublishEffect DEF Publish
  <2>4. ASSUME NEW w \in Workers, Receive(w) \/ Stays(w) \/ Ends(w) \/ Crash(w), v # w
        PROVE  inbox'[v] = inbox[v] /\ handler'[v] = handler[v]
    BY <2>1, <2>4, ReceiveEffect, FinishesEffect, CrashEffect DEF OthersHandle, Stays, Ends
  <2>5. CASE Receive(v)
    <3>1. \A i \in 1 .. Len(inbox[v]) : inbox[v][i] \in late
      BY DEF LateInv
    <3>2. /\ 1 \in 1 .. Len(inbox[v]) /\ handler'[v].signal = inbox[v][1]
          /\ \A i \in 1 .. Len(inbox'[v]) :
               i + 1 \in 1 .. Len(inbox[v]) /\ inbox'[v][i] = inbox[v][i + 1]
      BY <2>1, <2>5, ReceiveEffect
    <3> QED
      BY <3>1, <3>2
  <2>6. CASE Stays(v) \/ Ends(v)
    BY <2>1, <2>6, FinishesEffect DEF LateInv, Stays, StillHandles, Ends
  <2>7. CASE Crash(v)
    BY <2>1, <2>7, CrashEffect, EmptySeq
  <2> QED
    BY <2>2, <2>3, <2>4, <2>5, <2>6, <2>7, MessageSteps DEF MessageChange
<1>2. ASSUME NEW w \in Workers, Shutdown(w)
      PROVE  LateInv'
  <2>1. /\ closing' = closing \union {w}
        /\ late' = late \union ToSet(inbox[w])
             \union (IF handler[w] = Idle THEN {} ELSE {handler[w].signal})
        /\ UNCHANGED <<inbox, handler>>
    BY <1>2 DEF Shutdown
  <2>2. \A i \in 1 .. Len(inbox[w]) : inbox[w][i] \in ToSet(inbox[w])
    BY LenProperties DEF ToSet, TypeOK
  <2> QED
    BY <2>1, <2>2 DEF LateInv
<1>3. ASSUME NEW w \in Workers, Restart(w)
      PROVE  LateInv'
  BY <1>3 DEF Restart, LateInv
<1> QED
  BY <1>1, <1>2, <1>3, MessageSteps

LEMMA DrainInvStep ==
  ASSUME TypeOK, HandlerInv, DrainInv, [ConsumerNext]_vars
  PROVE  DrainInv'
<1>0. closing \subseteq Workers
  BY DEF TypeOK
<1>1. ASSUME UNCHANGED <<closing, call, handler>>
      PROVE  DrainInv'
  BY <1>1 DEF DrainInv, Handling
<1>2. ASSUME UNCHANGED closing, NEW w \in Workers,
             \A v \in Workers : v # w => handler'[v] = handler[v] /\ call'[v] = call[v],
             w \in closing /\ call'[w] # Idle => Handling(w, "process")'
      PROVE  DrainInv'
  BY <1>0, <1>2 DEF DrainInv, Handling
<1>3. ASSUME NEW w \in Workers, UNCHANGED call \/ call' = [call EXCEPT ![w] = Idle]
      PROVE  Alone(w)
  BY <1>3 DEF TypeOK, PipelineTypeOK, Alone
<1>4. ASSUME NEW w \in Workers, Receive(w)
      PROVE  DrainInv'
  <2>1. UNCHANGED <<closing, call>>
    BY <1>4 DEF Receive, pipelineVars, lifespanVars
  <2> QED
    BY <1>2, <1>4, <2>1, ReceiveEffect DEF OthersHandle
<1>5. ASSUME NEW w \in Workers, Crash(w)
      PROVE  DrainInv'
  <2>1. UNCHANGED closing /\ call' = [call EXCEPT ![w] = Idle]
    BY <1>5 DEF Crash, lifespanVars
  <2>2. call'[w] = Idle /\ Alone(w)
    BY <1>3, <2>1 DEF TypeOK, PipelineTypeOK
  <2> QED
    BY <1>2, <1>5, <2>1, <2>2, CrashEffect DEF OthersHandle, Alone
<1>6. ASSUME NEW w \in Workers, SubmitByRoute(w) \/ ReturnToRoute(w) \/ PipelineStep(w)
      PROVE  DrainInv'
  <2>1. UNCHANGED <<closing, handler>>
    BY <1>6 DEF SubmitByRoute, ReturnToRoute, PipelineStep, consumerVars, lifespanVars
  <2>2. Alone(w)
    <3>1. CASE SubmitByRoute(w)
      BY <3>1 DEF SubmitByRoute, Called, TypeOK, PipelineTypeOK, Alone
    <3>2. CASE ReturnToRoute(w)
      BY <1>3, <3>2 DEF ReturnToRoute, Return
    <3> QED
      BY <1>6, <3>1, <3>2, ProcessStepKeeps
  <2>3. w \in closing /\ call'[w] # Idle => Handling(w, "process")
    <3>1. CASE SubmitByRoute(w)
      BY <3>1 DEF SubmitByRoute
    <3>2. CASE ReturnToRoute(w)
      BY <3>2 DEF ReturnToRoute, Return, TypeOK, PipelineTypeOK
    <3>3. CASE PipelineStep(w)
      BY <3>3, ProcessStepKeeps DEF DrainInv
    <3> QED
      BY <1>6, <3>1, <3>2, <3>3
  <2>4. Handling(w, "process") => Handling(w, "process")'
    BY <2>1 DEF Handling
  <2> QED
    BY <1>2, <2>1, <2>2, <2>3, <2>4 DEF Alone
<1>7. ASSUME NEW w \in Workers, HandlerStep(w)
      PROVE  DrainInv'
  <2>1. UNCHANGED closing /\ (Stays(w) \/ Ends(w))
    BY <1>7, HandlerMessages DEF lifespanVars
  <2>2. OthersHandle(w)
    BY <2>1, FinishesEffect DEF Stays, Ends
  <2>3. CASE LookMisses(w)
    <3>1. handler[w] # Idle /\ Handling(w, "process")'
      BY <2>3, MovesEffect DEF LookMisses, StillHandles, Handling
    <3>2. Alone(w)
      BY <2>3 DEF LookMisses, Called, TypeOK, PipelineTypeOK, Alone
    <3> QED
      BY <1>2, <2>1, <2>2, <3>1, <3>2 DEF OthersHandle, Alone
  <2>4. CASE ProcessCreated(w) \/ ProcessRefused(w) \/ ProcessRaised(w)
    <3>1. call' = [call EXCEPT ![w] = Idle]
      BY <2>4 DEF ProcessCreated, ProcessRefused, ProcessRaised
    <3>2. call'[w] = Idle /\ Alone(w)
      BY <1>3, <3>1 DEF TypeOK, PipelineTypeOK
    <3> QED
      BY <1>2, <2>1, <2>2, <3>2 DEF OthersHandle, Alone
  <2>5. CASE LookFinds(w) \/ SetLink(w) \/ RedisFails(w) \/ InsertReturns(w) \/ InsertFails(w)
             \/ InsertRefused(w)
    <3>1. UNCHANGED call /\ ~Handling(w, "process")
      BY <2>5 DEF LookFinds, SetLink, RedisFails, InsertReturns, InsertFails, InsertRefused,
                  pipelineVars, Handling
    <3>2. w \in closing => call[w] = Idle
      BY <3>1 DEF DrainInv
    <3> QED
      BY <1>2, <2>1, <2>2, <3>1, <3>2 DEF OthersHandle
  <2> QED
    BY <1>7, <2>3, <2>4, <2>5 DEF HandlerStep
<1>8. ASSUME NEW w \in Workers, Shutdown(w)
      PROVE  DrainInv'
  BY <1>8 DEF Shutdown, LoopFree, pipelineVars, DrainInv, Handling
<1>9. ASSUME NEW w \in Workers, Restart(w)
      PROVE  DrainInv'
  BY <1>9 DEF Restart, pipelineVars, DrainInv, Handling
<1> QED
  BY <1>1, <1>4, <1>5, <1>6, <1>7, <1>8, <1>9
     DEF ConsumerNext, vars, consumerVars, lifespanVars, pipelineVars, Tick, Publish

\* Where the database is open, a call fails on what is stored, as in Pipeline.
RecurInv == \A w \in Workers \ closing : Recurrent(w)

LEMMA RecurInvStep ==
  ASSUME TypeOK, FaultFreeInv, DrainInv, RecurInv, [ConsumerNext]_vars
  PROVE  RecurInv'
<1> SUFFICES ASSUME NEW v \in Workers, v \notin closing'
             PROVE  Recurrent(v)'
  BY DEF RecurInv
<1>1. CASE v \notin closing
  <2>1. CallsUntouched \/ \E w \in Workers : CallEffect(w) \/ (w # v /\ GivesUp(w))
    BY <1>1, CallsChange
  <2> QED
    BY <1>1, <2>1, CallsClaim, CallsFault, RecurrentStep DEF RecurInv, TypeOK
<1>2. CASE v \in closing
  <2>1. PICK w \in Workers : Shutdown(w) \/ Restart(w)
    BY <1>2, MessageSteps DEF lifespanVars
  <2>2. Restart(v)
    BY <1>2, <2>1 DEF Shutdown, Restart
  <2>3. call[v] = Idle /\ UNCHANGED call
    BY <1>2, <2>2 DEF Restart, DrainInv, Handling, pipelineVars
  <2> QED
    BY <2>3 DEF Recurrent, InCall
<1> QED
  BY <1>1, <1>2

\* The processes that have finished with a signal.
Finished(s) == {w \in Workers : s \in handled[w]}

FinishedInv == \A s \in Signals : IsFiniteSet(Finished(s))

\* The documents of a signal against the processes that have finished with it.
CountOK(s) ==
  LET times == Cardinality(Finished(s))
  IN /\ Len(docs[s]) <= times
     /\ Len(docs[s]) < times => s \in late \/ Content(s) \in Twice

CountInv == faults = 0 => \A s \in Signals : CountOK(s)

\* One process more, or nobody, has finished with a signal.
LEMMA FinishedGrows ==
  ASSUME TypeOK, [ConsumerNext]_vars, NEW s \in Signals
  PROVE  \/ Finished(s)' = Finished(s)
         \/ \E w \in Workers : Finished(s)' \subseteq Finished(s) \union {w}
<1>1. CASE UNCHANGED handled
  BY <1>1 DEF Finished
<1>2. ASSUME NEW w \in Workers, \A v \in Workers : v # w => handled'[v] = handled[v]
      PROVE  Finished(s)' \subseteq Finished(s) \union {w}
  BY <1>2 DEF Finished
<1> QED
  BY <1>1, <1>2, MessageSteps, FinishesEffect, CrashEffect
     DEF MessageChange, Publish, Receive, Stays, Ends

LEMMA FinishedInvStep ==
  ASSUME TypeOK, FinishedInv, [ConsumerNext]_vars
  PROVE  FinishedInv'
<1> SUFFICES ASSUME NEW s \in Signals
             PROVE  IsFiniteSet(Finished(s)')
  BY DEF FinishedInv
<1>1. IsFiniteSet(Finished(s))
  BY DEF FinishedInv
<1>2. ASSUME NEW w \in Workers, Finished(s)' \subseteq Finished(s) \union {w}
      PROVE  IsFiniteSet(Finished(s)')
  <2>1. IsFiniteSet(Finished(s) \union {w})
    BY <1>1, FS_AddElement
  <2> QED
    BY <1>2, <2>1, FS_Subset
<1> QED
  BY <1>1, <1>2, FinishedGrows

\* Without faults, a handler ends with its document, or without for one of two reasons.
EndsWithDocument(w) == Ends(w) /\ Document(w)

EndsWithout(w) ==
  /\ Ends(w)
  /\ UNCHANGED docs
  /\ w \in closing \/ (Handling(w, "process") /\ InCall(w, "done") /\ call[w].result = "error")

LEMMA CountChange ==
  ASSUME TypeOK, [ConsumerNext]_vars, faults' = 0
  PROVE  \/ UNCHANGED <<docs, handled>>
         \/ \E w \in Workers : EndsWithDocument(w) \/ EndsWithout(w)
<1>1. ~Fault
  BY FaultType DEF TypeOK
<1>2. ASSUME NEW w \in Workers, HandlerStep(w)
      PROVE  UNCHANGED <<docs, handled>> \/ EndsWithDocument(w) \/ EndsWithout(w)
  <2>1. CASE LookFinds(w) \/ LookMisses(w) \/ ProcessCreated(w) \/ ProcessRefused(w) \/ SetLink(w)
    BY <2>1 DEF LookFinds, LookMisses, ProcessCreated, ProcessRefused, SetLink
  <2>2. CASE ProcessRaised(w)
    BY <2>2 DEF ProcessRaised, EndsWithout, Ends, Handling
  <2>3. CASE InsertReturns(w)
    BY <2>3 DEF InsertReturns, EndsWithDocument, Ends, Handling
  <2>4. CASE InsertRefused(w)
    BY <2>4, InsertRetriedEffect DEF InsertRefused, EndsWithout, Ends, Handling
  <2> QED
    BY <1>1, <1>2, <2>1, <2>2, <2>3, <2>4 DEF HandlerStep, RedisFails, InsertFails
<1> QED
  BY <1>1, <1>2
     DEF ConsumerNext, vars, consumerVars, Publish, Receive, Crash, Shutdown, Restart,
         PipelineStep, SubmitByRoute, ReturnToRoute

\* A process finishes with a signal once.
LEMMA EndsOnce ==
  ASSUME TypeOK, OnceInv, FinishedInv, NEW w \in Workers, Ends(w), NEW s \in Signals
  PROVE  IF s = handler[w].signal
         THEN Cardinality(Finished(s)') = Cardinality(Finished(s)) + 1
         ELSE Finished(s)' = Finished(s)
<1>1. /\ handled'[w] = handled[w] \union {handler[w].signal}
      /\ \A v \in Workers : v # w => handled'[v] = handled[v]
  BY FinishesEffect DEF Ends
<1>2. CASE s = handler[w].signal
  <2>1. w \notin Finished(s)
    BY <1>2 DEF OnceInv, OnceOK, Ends, Finished
  <2>2. Finished(s)' = Finished(s) \union {w}
    BY <1>1, <1>2 DEF Finished
  <2> QED
    BY <1>2, <2>1, <2>2, FS_AddElement DEF FinishedInv
<1>3. CASE s # handler[w].signal
  BY <1>1, <1>3 DEF Finished
<1> QED
  BY <1>2, <1>3

LEMMA CountInvStep ==
  ASSUME RecordInv, OnceInv, FinishedInv, LateInv, RecurInv, CountInv, [ConsumerNext]_vars
  PROVE  CountInv'
<1> USE DEF RecordInv
<1> SUFFICES ASSUME faults' = 0, NEW s \in Signals
             PROVE  CountOK(s)'
  BY DEF CountInv
<1>1. CountOK(s) /\ faults = 0
  BY CallsFault DEF CountInv
<1>2. Twice \subseteq Twice' /\ late \subseteq late'
  BY KnownStays, MessageSteps DEF lifespanVars, Shutdown, Restart
<1>3. /\ Len(docs[s]) \in Nat
      /\ Cardinality(Finished(s)) \in Nat
  BY LenProperties, FS_CardinalityType DEF FinishedInv, TypeOK
<1>4. ASSUME docs'[s] = docs[s], Finished(s)' = Finished(s)
      PROVE  CountOK(s)'
  BY <1>1, <1>2, <1>4 DEF CountOK, Content
<1>5. CASE UNCHANGED <<docs, handled>>
  BY <1>4, <1>5 DEF Finished
<1>6. ASSUME NEW w \in Workers, EndsWithDocument(w)
      PROVE  CountOK(s)'
  <2>1. handler[w] # Idle /\ Document(w) /\ Ends(w)
    BY <1>6 DEF EndsWithDocument, Ends
  <2>2. CASE s # handler[w].signal
    BY <1>4, <2>1, <2>2, DocumentEffect, EndsOnce
  <2>3. CASE s = handler[w].signal
    <3>1. /\ Len(docs'[s]) = Len(docs[s]) + 1
          /\ Cardinality(Finished(s)') = Cardinality(Finished(s)) + 1
      BY <2>1, <2>3, DocumentEffect, EndsOnce
    <3>2. /\ Len(docs[s]) <= Cardinality(Finished(s))
          /\ Len(docs[s]) < Cardinality(Finished(s)) => s \in late' \/ Content(s) \in Twice'
      BY <1>1, <1>2 DEF CountOK
    <3>3. /\ Len(docs'[s]) <= Cardinality(Finished(s)')
          /\ Len(docs'[s]) < Cardinality(Finished(s)') => s \in late' \/ Content(s) \in Twice'
      BY <1>3, <3>1, <3>2
    <3> QED
      BY <3>3 DEF CountOK, Content
  <2> QED
    BY <2>2, <2>3
<1>7. ASSUME NEW w \in Workers, EndsWithout(w)
      PROVE  CountOK(s)'
  <2>1. handler[w] # Idle /\ UNCHANGED docs /\ Ends(w)
    BY <1>7 DEF EndsWithout, Ends
  <2>2. CASE s # handler[w].signal
    BY <1>4, <2>1, <2>2, EndsOnce
  <2>3. CASE s = handler[w].signal
    <3>1. s \in late \/ Content(s) \in Twice
      <4>1. CASE w \in closing
        BY <2>1, <2>3, <4>1 DEF LateInv
      <4>2. CASE w \notin closing
        <5>1. Handling(w, "process") /\ InCall(w, "done") /\ call[w].result = "error"
          BY <1>7, <4>2 DEF EndsWithout
        <5>2. call[w].content = Content(s) /\ PassedTwice(call[w].content)
          BY <1>1, <2>3, <4>2, <5>1 DEF HandlerInv, HandlerOK, Handling, RecurInv, Recurrent
        <5> QED
          BY <5>2, ContentOfSignal DEF Twice
      <4> QED
        BY <4>1, <4>2
    <3>2. Cardinality(Finished(s)') = Cardinality(Finished(s)) + 1 /\ docs'[s] = docs[s]
      BY <2>1, <2>3, EndsOnce
    <3>3. Len(docs[s]) <= Cardinality(Finished(s))
      BY <1>1 DEF CountOK
    <3>4. /\ Len(docs'[s]) <= Cardinality(Finished(s)')
          /\ s \in late' \/ Content(s) \in Twice'
      BY <1>2, <1>3, <3>1, <3>2, <3>3
    <3> QED
      BY <3>4 DEF CountOK, Content
  <2> QED
    BY <2>2, <2>3
<1> QED
  BY <1>5, <1>6, <1>7, CountChange

\* What the count of the documents needs of the messages, the shutdowns and the calls.
LossInv ==
  /\ RecordInv
  /\ OnceInv /\ FinishedInv
  /\ LateInv /\ DrainInv
  /\ FaultFreeInv /\ RecurInv
  /\ CountInv

LEMMA LossInvInit == ConsumerInit => LossInv
<1> SUFFICES ASSUME ConsumerInit
             PROVE  LossInv
  OBVIOUS
<1>1. OnceInv
  <2> SUFFICES ASSUME NEW w \in Workers
               PROVE  OnceOK(w)
    BY DEF OnceInv
  <2>1. Len(inbox[w]) = 0 /\ handler[w] = Idle /\ handled[w] = {}
    BY EmptySeq DEF ConsumerInit
  <2> QED
    BY <2>1 DEF OnceOK
<1>2. \A s \in Signals : Finished(s) = {} /\ Len(docs[s]) = 0
  BY EmptySeq DEF ConsumerInit, Finished
<1>3. FinishedInv /\ CountInv
  <2>1. \A s \in Signals :
          IsFiniteSet(Finished(s)) /\ Cardinality(Finished(s)) = 0 /\ Len(docs[s]) = 0
    BY <1>2, FS_EmptySet
  <2>2. \A s \in Signals : CountOK(s)
    BY <2>1 DEF CountOK
  <2> QED
    BY <2>1, <2>2 DEF FinishedInv, CountInv
<1>4. LateInv /\ DrainInv
  BY DEF ConsumerInit, LateInv, DrainInv
<1>5. FaultFreeInv /\ RecurInv
  BY DEF ConsumerInit, PipelineInit, FaultFreeInv, RecurInv, Recurrent, InCall
<1> QED
  BY <1>1, <1>3, <1>4, <1>5, RecordInvInit DEF LossInv

LEMMA LossInvStep ==
  ASSUME LossInv, [ConsumerNext]_vars
  PROVE  LossInv'
<1> USE DEF LossInv
<1>1. TypeOK /\ CallInv /\ HandlerInv /\ PipelineTypeOK /\ RecordInv'
  BY RecordInvStep DEF RecordInv, TypeOK
<1>2. OnceInv' /\ FinishedInv'
  BY <1>1, OnceInvStep, MessageSteps, FinishedInvStep
<1>3. LateInv' /\ DrainInv' /\ RecurInv' /\ CountInv'
  BY <1>1, LateInvStep, DrainInvStep, RecurInvStep, CountInvStep
<1>4. FaultFreeInv'
  BY <1>1, CallsClaim, CallsChange, CallsFault, FaultFreeInvStep DEF CallChange
<1> QED
  BY <1>1, <1>2, <1>3, <1>4

\* Without faults, a process stores one document for every signal it has handled: one is
\* missing only when check let the type of its component through again, or a process had
\* still to handle it when it was shut down, and there is never one too many.
THEOREM LossesAreKnown == ConsumerSpec => []LostOnlyByRecurrence
<1>1. LossInv /\ OneClaimPerBucket => LostOnlyByRecurrence
  <2> SUFFICES ASSUME LossInv, OneClaimPerBucket, faults = 0, NEW s \in Signals
               PROVE  LET times == Cardinality({w \in Workers : s \in handled[w]})
                      IN \/ Len(docs[s]) = times
                         \/ Len(docs[s]) < times /\ (PassedAgain(Content(s)) \/ s \in late)
    BY DEF LostOnlyByRecurrence
  <2>1. Len(docs[s]) \in Nat /\ Cardinality(Finished(s)) \in Nat
    BY LenProperties, FS_CardinalityType DEF LossInv, RecordInv, TypeOK, FinishedInv
  <2>2. /\ Len(docs[s]) <= Cardinality(Finished(s))
        /\ Len(docs[s]) < Cardinality(Finished(s)) => s \in late \/ Content(s) \in Twice
    BY DEF LossInv, CountInv, CountOK
  <2>3. Content(s) \in Twice => PassedAgain(Content(s))
    BY TwiceIsAgain, ContentOfSignal DEF Twice, LossInv, RecordInv, TypeOK
  <2> QED
    BY <2>1, <2>2, <2>3 DEF Finished
<1> QED
  BY <1>1, LossInvInit, LossInvStep, ConsumerClaimsOnce, PTL DEF ConsumerSpec
-------------------------------------------------------------------------------
(* The consumer's calls, and those of the routes beside it, of processes   *)
(* that shut down and start again, implement Deduplication as well.        *)

LEMMA ConsumerImplements ==
  ASSUME TypeOK, DedupInv, HandlerInv, [ConsumerNext]_vars
  PROVE  Dedup!DedupNext \/ UNCHANGED <<stored, Known, Asks>>
<1>1. CASE CallsAside \/ Tick
  BY <1>1, AsksSame, KnownSame DEF CallsAside, Tick
<1>2. ASSUME NEW w \in Workers, CallGone(w)
      PROVE  Dedup!DedupNext \/ UNCHANGED <<stored, Known, Asks>>
  <2>1. CASE call[w] = Idle
    <3>1. UNCHANGED <<stored, call, claims>>
      BY <1>2, <2>1 DEF CallGone, TypeOK, PipelineTypeOK
    <3> QED
      BY <3>1, AsksSame, KnownSame
  <2>2. CASE call[w] # Idle
    BY <1>2, <2>2, GoneImplements DEF CallGone
  <2> QED
    BY <2>1, <2>2
<1>3. ASSUME NEW w \in Workers, LoopFree(w) \/ Handling(w, "look"), CallBegins(w)
      PROVE  Dedup!DedupNext
  <2>1. call[w] = Idle
    BY <1>3 DEF LoopFree, Handling, HandlerInv, HandlerOK
  <2>2. BodyBuckets \union {Bucket} \subseteq Buckets
    BY BucketType, PipelineAssumption DEF TypeOK
  <2> QED
    BY <1>3, <2>1, <2>2, CalledImplements DEF CallBegins
<1>4. ASSUME NEW w \in Workers, PipelineStep(w)
      PROVE  Dedup!DedupNext \/ UNCHANGED <<stored, Known, Asks>>
  <2>1. CASE StoreRefused(w)
    BY <2>1, RetriedImplements DEF StoreRefused
  <2> QED
    BY <1>4, <2>1, PipelineStepIs, ProcessStepImplements
<1> QED
  BY <1>1, <1>2, <1>3, <1>4, ConsumerCalls

\* Whatever fails, dies, shuts down and starts again, the calls of the consumer and of the
\* routes together implement Deduplication: a content gets at most one work item, announced
\* by at most one 201, and no call is dropped or rejected for a content nobody was let
\* through with.
THEOREM ConsumerDeduplicates == ConsumerSpec => ImplementsDeduplication
<1>1. ConsumerInit => ResultInv /\ Dedup!DedupInit
  BY DEF ConsumerInit, PipelineInit, ResultInv, InCall, Dedup!DedupInit, Ask, Passed, Keys, Timings
<1>2. TypeOK /\ ResultInv /\ [ConsumerNext]_vars => ResultInv'
  BY ResultStep, CallsChange DEF CallChange
<1>3. RecordInv => TypeOK
  BY DEF RecordInv
<1>4. RecordInv /\ ResultInv /\ [ConsumerNext]_vars => [Dedup!DedupNext]_(Dedup!dedupVars)
  BY ConsumerImplements DEF RecordInv, DedupInv, TypeOK, Dedup!dedupVars, Asks, Known
<1>5. ConsumerSpec => Dedup!DedupSpec
  BY <1>1, <1>2, <1>3, <1>4, RecordInvariant, PTL DEF ConsumerSpec, Dedup!DedupSpec
<1> QED
  BY <1>5 DEF ImplementsDeduplication
===============================================================================
