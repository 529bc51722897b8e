------------------------------- MODULE Workflow -------------------------------
(***************************************************************************)
(* The work items in PostgreSQL and the routes that write them             *)
(* (app/routes/incidents.py over db/store.py): creation, the state         *)
(* transition with its alerts, and the RCA submission.                     *)
(*                                                                         *)
(* A worker is one API process.  Its handlers run on one event loop and    *)
(* call the database synchronously, so between two awaits nothing else of  *)
(* the same worker runs; another worker may.  transition_state is the one  *)
(* handler in which that matters: it reads the incident and checks the     *)
(* transition, then locks and writes the row, then awaits the alert        *)
(* strategies one by one.  Read and write belong to one PostgreSQL         *)
(* transaction, but the read takes no lock, and at READ COMMITTED the      *)
(* later statements see what others have committed in between: the read    *)
(* is one action, and the lock, the write and the commit are another.      *)
(* PgConnection has the transactions themselves.                           *)
(***************************************************************************)
EXTENDS Sequences, StateMachine, RcaPolicy

CONSTANTS
  Incidents,   \* the work items there may be
  Workers,     \* the API processes
  Requests,    \* the transition requests that may be in flight at a time
  Severities,  \* the severities a work item may have
  Texts,       \* the texts operators submit
  NoRow,       \* the value of an incident that is not in the database
  Idle         \* the value of a request slot that is not in use

Row == [state : States, severity : Severities, root_cause : Text,
        rca_description : Text, rca_verified_by : BOOLEAN]

\* The alert strategies there are.
Channels == {"pagerduty", "slack", "email"}

Phases == {"write", "dispatch", "ok", "error"}

Request ==
  [worker : Workers, phase : Phases, id : Incidents, target : States,
   incident : Row, left : Seq(Channels), attempted : Seq(Channels)]

ASSUME WorkflowAssumption ==
  /\ Severities \subseteq {"P0", "P1", "P2", "P3"}
  /\ Texts \subseteq Text
  /\ NoRow \notin Row
  /\ Idle \notin Request

VARIABLES
  rows,  \* the incidents table: Incidents -> Row, or NoRow
  req    \* the handlers of PATCH /{id}/state: Requests -> Request, or Idle

vars == <<rows, req>>

TypeOK ==
  /\ rows \in [Incidents -> Row \union {NoRow}]
  /\ req \in [Requests -> Request \union {Idle}]

Init ==
  /\ rows = [i \in Incidents |-> NoRow]
  /\ req = [r \in Requests |-> Idle]

InPhase(r, phase) == req[r] # Idle /\ req[r].phase = phase

\* (mutant) A handler that keeps the others out until it has answered.
LoopHeldByDispatch(w) ==
  \A r \in Requests : (InPhase(r, "write") \/ InPhase(r, "dispatch")) => req[r].worker # w

\* (mutant) An await between the read and the write.
LoopNeverHeld(w) == w \in Workers

\* No handler of worker w is between its read and its write: its event loop is
\* free to run another one.
LoopFree(w) == \A r \in Requests : InPhase(r, "write") => req[r].worker # w

\* The strategies bootstrap_defaults registers, in the order dispatch awaits them.
StrategyMap(severity) ==
  CASE severity = "P0" -> <<"pagerduty", "slack">>
    [] severity = "P1" -> <<"slack">>
    [] severity = "P2" -> <<"email">>
    [] OTHER -> <<>>
-------------------------------------------------------------------------------
\* (mutant) The description is not looked at.
AdmissibleByRootCause(row) == CheckField(row.root_cause)

\* RcaPolicy.validate on the two texts of a work item.
Admissible(row) == Validate(row.root_cause, row.rca_description)

\* A 201 of IncidentPipeline.process.  The body (or the map of components) gives
\* every field, the state included; only the RCA texts are validated.
Create(w, i) ==
  /\ LoopFree(w)
  /\ rows[i] = NoRow
  /\ \E state \in States, severity \in Severities, rootCause \in Texts,
        description \in Texts, verified \in BOOLEAN :
       LET row == [state |-> state, severity |-> severity, root_cause |-> rootCause,
                   rca_description |-> description, rca_verified_by |-> verified]
       IN /\ Admissible(row)
          /\ rows' = [rows EXCEPT ![i] = row]
  /\ UNCHANGED req

\* transition_state up to its write: get_by_id finds the incident, without a lock, and
\* transition_or_raise accepts.  A 404 or a 400 changes nothing.
BeginTransition(w, r, i, target) ==
  /\ LoopFree(w)
  /\ req[r] = Idle
  /\ rows[i] # NoRow
  /\ Accepts(rows[i].state, target, rows[i])
  /\ req' = [req EXCEPT ![r] =
       [worker |-> w, phase |-> "write", id |-> i, target |-> target,
        incident |-> rows[i], left |-> <<>>, attempted |-> <<>>]]
  /\ UNCHANGED rows

\* (mutant) The name of the new state is written in place of its value.
WrittenByName(r) == [rows EXCEPT ![req[r].id].state = "resolved"]

\* IncidentStore.transition_state: SELECT ... FOR UPDATE, UPDATE, commit, without a
\* look at the state it has locked.
Written(r) == [rows EXCEPT ![req[r].id].state = req[r].target]

CommitTransition(r) ==
  /\ InPhase(r, "write")
  /\ rows' = Written(r)
  /\ req' = [req EXCEPT
       ![r].phase = "dispatch",
       ![r].incident = Written(r)[req[r].id],
       ![r].left = StrategyMap(rows[req[r].id].severity)]

\* The transaction fails and is rolled back: a 500.
WriteFails(r) ==
  /\ InPhase(r, "write")
  /\ req' = [req EXCEPT ![r].phase = "error"]
  /\ UNCHANGED rows

\* The transaction commits and the acknowledgement is lost: a 500 all the same.
AcknowledgementLost(r) ==
  /\ InPhase(r, "write")
  /\ rows' = Written(r)
  /\ req' = [req EXCEPT ![r].phase = "error"]

\* AlertRouter.dispatch, one strategy: the send returns (its value is not looked at)
SendReturns(r) ==
  /\ InPhase(r, "dispatch")
  /\ LoopFree(req[r].worker)
  /\ req[r].left # <<>>
  /\ req' = [req EXCEPT
       ![r].left = Tail(@),
       ![r].attempted = Append(@, Head(req[r].left))]
  /\ UNCHANGED rows

\* (mutant) An exception of a strategy is swallowed.
SendRaisesSwallowed(r) ==
  /\ InPhase(r, "dispatch")
  /\ req[r].left # <<>>
  /\ req' = [req EXCEPT ![r].left = Tail(@)]
  /\ UNCHANGED rows

\* ... or raises, and the strategies after it are skipped: a 500.
SendRaises(r) ==
  /\ InPhase(r, "dispatch")
  /\ LoopFree(req[r].worker)
  /\ req[r].left # <<>>
  /\ req' = [req EXCEPT ![r].phase = "error"]
  /\ UNCHANGED rows

DispatchReturns(r) ==
  /\ InPhase(r, "dispatch")
  /\ LoopFree(req[r].worker)
  /\ req[r].left = <<>>
  /\ req' = [req EXCEPT ![r].phase = "ok"]
  /\ UNCHANGED rows

\* The response has left, and the slot is free.
Respond(r) ==
  /\ InPhase(r, "ok") \/ InPhase(r, "error")
  /\ req' = [req EXCEPT ![r] = Idle]
  /\ UNCHANGED rows

\* (mutant) The submission reopens the work item.
WithRcaReopened(row, rootCause, description, verified) ==
  [row EXCEPT !.root_cause = rootCause, !.rca_description = description,
              !.rca_verified_by = verified, !.state = "RESOLVED"]

\* submit_rca with a body the policy accepts.  No await separates its read from its
\* write and rows are never deleted, so it is one action.  The state is neither
\* looked at nor changed, and the old RCA, verifier included, is replaced.
WithRca(row, rootCause, description, verified) ==
  [row EXCEPT !.root_cause = rootCause, !.rca_description = description,
              !.rca_verified_by = verified]

SubmitRca(w, i) ==
  /\ LoopFree(w)
  /\ rows[i] # NoRow
  /\ \E rootCause \in Texts, fix \in Texts, prevention \in Texts, verified \in BOOLEAN :
       LET row == WithRca(rows[i], rootCause, Merged(fix, prevention), verified)
       IN /\ Admissible(row)
          /\ rows' = [rows EXCEPT ![i] = row]
  /\ UNCHANGED req

\* The process dies: its handlers with it, and a transaction it had not committed.
Crash(w) ==
  /\ \E r \in Requests : req[r] # Idle /\ req[r].worker = w
  /\ req' = [r \in Requests |->
       IF req[r] # Idle /\ req[r].worker = w THEN Idle ELSE req[r]]
  /\ UNCHANGED rows

HandlerStep(r) ==
  \/ CommitTransition(r)
  \/ WriteFails(r)
  \/ AcknowledgementLost(r)
  \/ SendReturns(r)
  \/ SendRaises(r)
  \/ DispatchReturns(r)
  \/ Respond(r)

WorkerStep(w) ==
  \/ \E i \in Incidents : Create(w, i) \/ SubmitRca(w, i)
  \/ \E r \in Requests, i \in Incidents, target \in States : BeginTransition(w, r, i, target)
  \/ Crash(w)

Next ==
  \/ \E w \in Workers : WorkerStep(w)
  \/ \E r \in Requests : HandlerStep(r)

Spec == Init /\ [][Next]_vars

\* Database calls return or raise, every send has a timeout, and the event loop runs
\* its ready callbacks in the order they became ready.  Other handlers of the worker
\* may occupy the loop over and over in between, hence strong fairness.
FairSpec == Spec /\ \A r \in Requests : SF_vars(HandlerStep(r))
-------------------------------------------------------------------------------
\* Every stored incident carries an RCA that RcaPolicy accepts, whichever route wrote
\* it: process and submit_rca both validate what they store.  So the two text checks of
\* RcaGuard.can_close never decide: an incident can be closed iff it has a verifier.
StoredRcaPassesPolicy ==
  \A i \in Incidents : rows[i] # NoRow =>
    /\ Validate(rows[i].root_cause, rows[i].rca_description)
    /\ CanClose(rows[i]) <=> rows[i].rca_verified_by

\* A handler about to write holds a transition its snapshot justifies, and (with one
\* process) the snapshot still is the row: get_by_id and transition_state of the store
\* are called with no await in between.
WriteIsJustified ==
  \A r \in Requests : InPhase(r, "write") =>
    Accepts(req[r].incident.state, req[r].target, req[r].incident)

SnapshotIsFresh ==
  \A r \in Requests : InPhase(r, "write") => rows[req[r].id] = req[r].incident

\* A 200 means that every strategy registered for the incident's severity was tried,
\* in order: dispatch awaits them one by one and lets an exception through.
OkMeansAlerted ==
  \A r \in Requests : InPhase(r, "ok") =>
    req[r].attempted = StrategyMap(req[r].incident.severity)

\* A change of the state of a stored incident
Moved(i) == rows[i] # NoRow /\ rows'[i].state # rows[i].state

\* follows an edge of the table of validate_transition, and closes only what can be
\* closed.
LegalMove(i) ==
  /\ ValidTransition(rows[i].state, rows'[i].state)
  /\ rows'[i].state = "CLOSED" => CanClose(rows[i])

\* No step moves an incident along an edge that is not there, or closes it without an
\* RCA, although the write itself checks nothing.
LegalMoves == [][\A i \in Incidents : Moved(i) => LegalMove(i)]_vars

\* Whatever the number of processes: an illegal move is always the write of a handler
\* whose snapshot is out of date.
IllegalOnlyIfStale ==
  [][\A i \in Incidents : Moved(i) /\ ~LegalMove(i) =>
       \E r \in Requests :
         /\ InPhase(r, "write")
         /\ ~InPhase(r, "write")'
         /\ req[r].id = i
         /\ req[r].incident # rows[i]]_vars

\* A closed incident stays closed: ClosedState accepts no transition.
ClosedIsTerminal ==
  [][\A i \in Incidents : Moved(i) => rows[i].state # "CLOSED"]_vars

\* Every transition request is answered, or its process dies.
RequestsFinish == \A r \in Requests : (req[r] # Idle) ~> (req[r] = Idle)

\* The abstract life cycle this implements when there is one process.
Life == INSTANCE Lifecycle WITH
  status <- [i \in Incidents |-> IF rows[i] = NoRow THEN "ABSENT" ELSE rows[i].state],
  complete <- [i \in Incidents |-> rows[i] # NoRow /\ CanClose(rows[i])]

ImplementsLifecycle == Life!LifecycleSpec
==============================================================================
