------------------------------- MODULE Pipeline -------------------------------
(***************************************************************************)
(* IncidentPipeline.process (incident_pipeline/pipeline.py): debounce in   *)
(* Redis, validate the RCA, store in PostgreSQL.  It is synchronous, so a  *)
(* process runs at most one call of it; several processes share Redis and  *)
(* PostgreSQL, and each of their accesses to them is one action.           *)
(*                                                                         *)
(* Incidents are told apart by their content (source, title, description,  *)
(* normalised).  The debounce key is the content and the time bucket of    *)
(* created_at; the hash that is UNIQUE in PostgreSQL is the content alone, *)
(* so a content has at most one work item, and stands for it.  created_at  *)
(* is the time the incident was built, unless the body of the request has  *)
(* another; from then to the check nothing is awaited, but time may pass.  *)
(* The cache writes after the store swallow their errors and nothing here  *)
(* reads the cache; they are left out.                                     *)
(***************************************************************************)
EXTENDS Naturals

CONSTANTS
  Workers,    \* the API processes
  Contents,   \* the contents incidents may have
  Window,     \* settings.debounce_window_seconds (30)
  BodyBuckets, \* the time buckets of the created_at that bodies bring along
  Attempts,   \* with_retry's attempts (3)
  MaxTime,    \* bound: the clock stops here
  MaxFaults,  \* bound: failed accesses, lost acknowledgements and crashes
  Idle        \* the value of a process that runs no call

Time == 0 .. MaxTime
Buckets == 0 .. (MaxTime \div Window)

ASSUME PipelineAssumption ==
  /\ Window \in Nat \ {0}
  /\ Attempts \in Nat \ {0}
  /\ MaxTime \in Nat
  /\ MaxFaults \in Nat
  /\ BodyBuckets \subseteq Buckets

\* History: a check runs inside the bucket of its incident's created_at, or not.
Timings == {"inside", "outside"}

Results == {"none", "dropped", "rejected", "created", "error"}

Call ==
  [phase : {"check", "store", "done"}, content : Contents, bucket : Buckets,
   acceptable : BOOLEAN, attempt : 1 .. Attempts, result : Results]

ASSUME IdleAssumption ==
  /\ Idle \notin Call
  /\ Idle \notin [content : Contents, answer : Results]

VARIABLES
  now,      \* the clock, in seconds
  expires,  \* when the debounce key of a content and bucket expires (0: never set)
  stored,   \* the contents that have a work item in PostgreSQL
  call,     \* Workers -> the call of process it runs, or Idle
  faults,   \* faults so far
  claims    \* history: how often check said first_seen for a content and bucket, in
            \* that bucket and outside it

pipelineVars == <<now, expires, stored, call, faults, claims>>

PipelineTypeOK ==
  /\ now \in Time
  /\ expires \in [Contents \X Buckets -> 0 .. (MaxTime + Window)]
  /\ stored \subseteq Contents
  /\ call \in [Workers -> Call \union {Idle}]
  /\ faults \in 0 .. MaxFaults
  /\ claims \in [Contents \X Buckets -> [Timings -> Nat]]

PipelineInit ==
  /\ now = 0
  /\ expires = [k \in Contents \X Buckets |-> 0]
  /\ stored = {}
  /\ call = [w \in Workers |-> Idle]
  /\ faults = 0
  /\ claims = [k \in Contents \X Buckets |-> [t \in Timings |-> 0]]

InCall(w, phase) == call[w] # Idle /\ call[w].phase = phase

\* _debounce_key's time_bucket, for an incident created now.
Bucket == now \div Window

\* (mutant) The key expires a second before its bucket may end.
TtlShort == Window - 1

\* SET ... EX=window
Ttl == Window

\* process is called, by a route or by the consumer.
Called(w, content, bucket, acceptable) ==
  call' = [call EXCEPT ![w] =
    [phase |-> "check", content |-> content, bucket |-> bucket,
     acceptable |-> acceptable, attempt |-> 1, result |-> "none"]]

\* The debounce key of w's call.
Key(w) == <<call[w].content, call[w].bucket>>

\* (mutant) A key counts only once its incident is stored.
LiveIfStored(w) ==
  now < expires[Key(w)] /\ call[w].content \in stored

\* The debounce key of w's call is there.
Live(w) == now < expires[Key(w)]

\* The call ends with a result.
Ended(w, result) ==
  call' = [call EXCEPT ![w].phase = "done", ![w].result = result]

\* There is room for one more fault.
Fault == faults < MaxFaults /\ faults' = faults + 1
-------------------------------------------------------------------------------
\* Debouncer.check, SET NX EX: the key is live, and the incident is dropped (204);
CheckDuplicate(w) ==
  /\ InCall(w, "check")
  /\ Live(w)
  /\ Ended(w, "dropped")
  /\ UNCHANGED <<now, expires, stored, faults, claims>>

Timing(w) == IF call[w].bucket = Bucket THEN "inside" ELSE "outside"

\* or it is not, and this call takes it.
Claimed(w) ==
  /\ expires' = [expires EXCEPT ![Key(w)] = now + Ttl]
  /\ claims' = [claims EXCEPT ![Key(w)][Timing(w)] = @ + 1]

\* The key stays taken when the RCA is rejected (422) ...
CheckRejected(w) ==
  /\ InCall(w, "check")
  /\ ~Live(w)
  /\ ~call[w].acceptable
  /\ Claimed(w)
  /\ Ended(w, "rejected")
  /\ UNCHANGED <<now, stored, faults>>

\* ... and when it is accepted and the call goes on to store.
CheckFirstSeen(w) ==
  /\ InCall(w, "check")
  /\ ~Live(w)
  /\ call[w].acceptable
  /\ Claimed(w)
  /\ call' = [call EXCEPT ![w].phase = "store"]
  /\ UNCHANGED <<now, stored, faults>>

\* Redis fails: the exception leaves process (500).  SET may have been applied.
CheckFails(w) ==
  /\ InCall(w, "check")
  /\ Fault
  /\ Ended(w, "error")
  /\ \/ UNCHANGED <<expires, claims>>
     \/ ~Live(w) /\ Claimed(w)
  /\ UNCHANGED <<now, stored>>

\* The reply to SET is lost and the Redis client sends it again, as the later of the
\* client versions the project admits do: the call finds the key it has just set.
CheckResent(w) ==
  /\ InCall(w, "check")
  /\ Fault
  /\ ~Live(w)
  /\ Claimed(w)
  /\ Ended(w, "dropped")
  /\ UNCHANGED <<now, stored>>

\* IncidentStore.create: the INSERT commits (201).
StoreCreates(w) ==
  /\ InCall(w, "store")
  /\ call[w].content \notin stored
  /\ stored' = stored \union {call[w].content}
  /\ Ended(w, "created")
  /\ UNCHANGED <<now, expires, faults, claims>>

\* (mutant) One attempt too many.
RetriedPastEnd(w) ==
  IF call[w].attempt <= Attempts
  THEN call' = [call EXCEPT ![w].attempt = @ + 1]
  ELSE Ended(w, "error")

\* (mutant) The attempts are not counted.
RetriedForEver(w) == InCall(w, "store") /\ UNCHANGED call

\* with_retry after an exception: once more, or the last one is raised (500).
Retried(w) ==
  IF call[w].attempt < Attempts
  THEN call' = [call EXCEPT ![w].attempt = @ + 1]
  ELSE Ended(w, "error")

\* (mutant) The conflict is taken for a success.
StoreConflictsUnnoticed(w) ==
  /\ InCall(w, "store")
  /\ call[w].content \in stored
  /\ Ended(w, "created")
  /\ UNCHANGED <<now, expires, stored, faults, claims>>

\* The INSERT violates UNIQUE (hash): retried like any other exception.
StoreConflicts(w) ==
  /\ InCall(w, "store")
  /\ call[w].content \in stored
  /\ Retried(w)
  /\ UNCHANGED <<now, expires, stored, faults, claims>>

\* (mutant) The failure is taken for a success.
StoreFailsUnnoticed(w) ==
  /\ InCall(w, "store")
  /\ Fault
  /\ Ended(w, "created")
  /\ UNCHANGED <<now, expires, stored, claims>>

\* The database fails, and the transaction is rolled back ...
StoreFails(w) ==
  /\ InCall(w, "store")
  /\ Fault
  /\ Retried(w)
  /\ UNCHANGED <<now, expires, stored, claims>>

\* ... or was committed and its acknowledgement is lost.  (The connection is then gone, and what
\* the later attempts raise comes from it.  Here they may also meet StoreConflicts, or
\* StoreFails: another exception, and the same answer.  PgConnection has the connection.)
StoreAcknowledgementLost(w) ==
  /\ InCall(w, "store")
  /\ call[w].content \notin stored
  /\ Fault
  /\ stored' = stored \union {call[w].content}
  /\ Retried(w)
  /\ UNCHANGED <<now, expires, claims>>

\* A second passes.
Tick ==
  /\ now < MaxTime
  /\ now' = now + 1
  /\ UNCHANGED <<expires, stored, call, faults, claims>>

ProcessStep(w) ==
  \/ CheckDuplicate(w)
  \/ CheckRejected(w)
  \/ CheckFirstSeen(w)
  \/ CheckFails(w)
  \/ CheckResent(w)
  \/ StoreCreates(w)
  \/ StoreConflicts(w)
  \/ StoreFails(w)
  \/ StoreAcknowledgementLost(w)
-------------------------------------------------------------------------------
(* The route POST /incidents alone, in every process.                      *)

\* create_incident hands a body to process.
Submit(w) ==
  /\ call[w] = Idle
  /\ \E content \in Contents, bucket \in BodyBuckets \union {Bucket}, acceptable \in BOOLEAN :
       Called(w, content, bucket, acceptable)
  /\ UNCHANGED <<now, expires, stored, faults, claims>>

\* The response leaves: 201, 204, 422 or 500.
Return(w) ==
  /\ InCall(w, "done")
  /\ call' = [call EXCEPT ![w] = Idle]
  /\ UNCHANGED <<now, expires, stored, faults, claims>>

\* The process dies and its call with it.
Die(w) ==
  /\ call[w] # Idle
  /\ Fault
  /\ call' = [call EXCEPT ![w] = Idle]
  /\ UNCHANGED <<now, expires, stored, claims>>

Next ==
  \/ Tick
  \/ \E w \in Workers : ProcessStep(w) \/ Submit(w) \/ Return(w) \/ Die(w)

Spec == PipelineInit /\ [][Next]_pipelineVars

\* Every access to Redis or PostgreSQL returns or raises.
FairSpec == Spec /\ \A w \in Workers : WF_pipelineVars(ProcessStep(w) \/ Return(w))
-------------------------------------------------------------------------------
\* Of the incidents with one content and time bucket that are checked within their bucket,
\* check lets at most one through, in whatever process: the key outlives the bucket it is
\* named after.  It does so by no margin: one that is built at the end of its bucket and
\* checked a moment later may be let through again.
OneClaimPerBucket == \A key \in Contents \X Buckets : claims[key]["inside"] <= 1

\* A content was let through under one of its keys; it was let through again, under another
\* key or, the bucket of the key being over or not yet there, under the same.
Keys(content) == {key \in Contents \X Buckets : key[1] = content}

Passed(content) == \E key \in Keys(content), timing \in Timings : claims[key][timing] > 0

PassedAgain(content) ==
  \E j, k \in Keys(content), s, t \in Timings :
    /\ claims[j][s] > 0 /\ claims[k][t] > 0
    /\ j = k /\ s = t => t = "outside" /\ claims[k][t] > 1

\* Without faults, a call fails only because the content recurred in another time bucket, or
\* outside the one it is keyed by, and has its work item: copies of an incident that are
\* checked together never fail on each other's INSERT.
ErrorMeansRecurrence ==
  faults = 0 =>
    \A w \in Workers : InCall(w, "done") /\ call[w].result = "error" =>
      /\ call[w].content \in stored
      /\ PassedAgain(call[w].content)

\* Nothing is stored that was not let through, and a 201 is the truth.
StoredWasClaimed ==
  /\ \A content \in stored : Passed(content)
  /\ \A w \in Workers : InCall(w, "done") /\ call[w].result = "created" =>
       call[w].content \in stored

\* Whatever fails and whoever dies, the calls implement Deduplication: one work item per
\* content, announced by at most one 201, and no 204 or 422 for a content that was never let
\* through.  One 201 is what the UNIQUE hash makes of process, across all windows; it is not
\* what src/backend/tests/test_pipeline.py:87 asserts, which is AcceptedAsNew.
Ask(w) ==
  IF call[w] = Idle THEN Idle ELSE [content |-> call[w].content, answer |-> call[w].result]

Dedup == INSTANCE Deduplication WITH
  items <- stored,
  known <- {content \in Contents : Passed(content)},
  asks <- [w \in Workers |-> Ask(w)]

ImplementsDeduplication == Dedup!DedupSpec

\* Without faults, an incident with an acceptable RCA that was let through, after the windows of
\* all earlier ones with its content, is accepted as new with a 201: so says
\* test_duplicate_after_window_expiry of src/backend/tests/test_pipeline.py.
WindowsOver(w) == \A key \in Keys(call[w].content) \ {Key(w)} : now >= expires[key]

AcceptedAsNew ==
  faults = 0 =>
    \A w \in Workers :
      InCall(w, "done") /\ call[w].acceptable /\ call[w].result # "dropped" /\ WindowsOver(w) =>
        call[w].result = "created"

\* An incident is dropped as a duplicate only if one with its content was processed.
DroppedWasProcessed ==
  \A w \in Workers : InCall(w, "done") /\ call[w].result = "dropped" =>
    call[w].content \in stored

\* Every call is answered, or its process dies.
CallsReturn == \A w \in Workers : (call[w] # Idle) ~> (call[w] = Idle)
==============================================================================
