---------------------------- MODULE WorkflowProofs ----------------------------
(***************************************************************************)
(* Theorems about Workflow, for every set of incidents, requests, texts    *)
(* and (unless said otherwise) processes.                                  *)
(***************************************************************************)
EXTENDS Workflow, TLAPS

\* The State classes of state_machine.py accept exactly the moves of the table of
\* validate_transition, but for the guard on CLOSED.
THEOREM AcceptsMatchesTable ==
  ASSUME NEW from \in States, NEW to \in States, NEW incident
  PROVE  Accepts(from, to, incident) <=>
           ValidTransition(from, to) /\ (to = "CLOSED" => CanClose(incident))
BY DEF States, Accepts, ValidTransition, Allowed

\* The headings alone satisfy the minimum length: on the RCA route RcaPolicy never finds
\* the description too short, even when both parts are blank.
THEOREM MergedNeverTooShort ==
  ASSUME NEW fix \in Text, NEW prevention \in Text
  PROVE  /\ Merged(fix, prevention) \in Text
         /\ Merged(fix, prevention).len >= MinLength
         /\ ~Blank(Merged(fix, prevention))
BY PolicyAssumption DEF Text, Merged, Blank

\* What the policy accepts is not blank, so the text checks of can_close are subsumed.
LEMMA AdmissibleCanClose ==
  ASSUME NEW row \in Row, Validate(row.root_cause, row.rca_description)
  PROVE  CanClose(row) <=> row.rca_verified_by
BY PolicyAssumption DEF Row, Text, Validate, CheckField, CanClose

-------------------------------------------------------------------------------
LEMMA StrategyMapType ==
  ASSUME NEW severity
  PROVE  StrategyMap(severity) \in Seq(Channels)
<1>1. <<"pagerduty", "slack">> \in Seq(Channels)
  BY DEF Channels
<1>2. <<"slack">> \in Seq(Channels) /\ <<"email">> \in Seq(Channels)
  BY DEF Channels
<1>3. <<>> \in Seq(Channels)
  OBVIOUS
<1> QED
  BY <1>1, <1>2, <1>3, Zenon DEF StrategyMap

LEMMA WrittenType ==
  ASSUME TypeOK, NEW r \in Requests, InPhase(r, "write"), rows[req[r].id] # NoRow
  PROVE  /\ Written(r) \in [Incidents -> Row \union {NoRow}]
         /\ Written(r)[req[r].id] \in Row
<1>1. req[r] \in Request
  BY DEF TypeOK, InPhase
<1>2. req[r].id \in Incidents /\ req[r].target \in States
  BY <1>1 DEF Request
<1>3. rows[req[r].id] \in Row
  BY <1>2 DEF TypeOK
<1>4. [rows[req[r].id] EXCEPT !.state = req[r].target] \in Row
  BY <1>2, <1>3 DEF Row
<1> QED
  BY <1>2, <1>4 DEF Written, TypeOK

\* A handler past its read has a row to write: work items are never deleted.
RowExists == \A r \in Requests : req[r] # Idle => rows[req[r].id] # NoRow

TypeInv == TypeOK /\ RowExists

LEMMA TypeInvStep == TypeInv /\ [Next]_vars => TypeInv'
<1> SUFFICES ASSUME TypeInv, [Next]_vars
             PROVE  TypeInv'
  OBVIOUS
<1> USE DEF TypeInv, TypeOK, RowExists
<1>1. ASSUME NEW w \in Workers, NEW i \in Incidents, Create(w, i)
      PROVE  TypeInv'
  <2>1. PICK row \in Row : rows' = [rows EXCEPT ![i] = row]
    BY <1>1, WorkflowAssumption DEF Create, Row
  <2> QED
    BY <1>1, <2>1, WorkflowAssumption DEF Create, Request
<1>2. ASSUME NEW w \in Workers, NEW i \in Incidents, SubmitRca(w, i)
      PROVE  TypeInv'
  <2>1. PICK rootCause \in Texts, fix \in Texts, prevention \in Texts, verified \in BOOLEAN :
          rows' = [rows EXCEPT ![i] =
            WithRca(rows[i], rootCause, Merged(fix, prevention), verified)]
    BY <1>2 DEF SubmitRca
  <2>2. rows[i] \in Row
    BY <1>2 DEF SubmitRca
  <2>3. WithRca(rows[i], rootCause, Merged(fix, prevention), verified) \in Row
    BY <2>2, WorkflowAssumption, MergedNeverTooShort DEF WithRca, Row
  <2> QED
    BY <1>2, <2>1, <2>3, WorkflowAssumption DEF SubmitRca, Request
<1>3. ASSUME NEW w \in Workers, NEW r \in Requests, NEW i \in Incidents,
             NEW target \in States, BeginTransition(w, r, i, target)
      PROVE  TypeInv'
  <2>1. [worker |-> w, phase |-> "write", id |-> i, target |-> target,
         incident |-> rows[i], left |-> <<>>, attempted |-> <<>>] \in Request
    BY <1>3 DEF BeginTransition, Request, Phases
  <2> QED
    BY <1>3, <2>1 DEF BeginTransition
<1>4. ASSUME NEW w \in Workers, Crash(w)
      PROVE  TypeInv'
  BY <1>4 DEF Crash
<1>5. ASSUME NEW r \in Requests, HandlerStep(r)
      PROVE  TypeInv'
  <2>1. ASSUME InPhase(r, "write"), rows' = Written(r)
        PROVE  /\ rows' \in [Incidents -> Row \union {NoRow}]
               /\ \A i \in Incidents : rows[i] # NoRow => rows'[i] # NoRow
    <3>1. rows[req[r].id] # NoRow /\ req[r].id \in Incidents
      BY <2>1 DEF InPhase, Request
    <3> QED
      BY <2>1, <3>1, WrittenType, WorkflowAssumption DEF Written
  <2>2. ASSUME NEW request \in Request, req[r] # Idle, request.id = req[r].id,
               req' = [req EXCEPT ![r] = request]
        PROVE  /\ req' \in [Requests -> Request \union {Idle}]
               /\ \A q \in Requests : req'[q] # Idle => req[q] # Idle /\ req'[q].id = req[q].id
    BY <2>2
  <2>3. \A q \in Requests : req[q] # Idle => req[q] \in Request /\ req[q].id \in Incidents
    BY DEF Request
  <2>4. CASE CommitTransition(r)
    <3> DEFINE request == [req[r] EXCEPT !.phase = "dispatch",
                             !.incident = Written(r)[req[r].id],
                             !.left = StrategyMap(rows[req[r].id].severity)]
    <3>1. InPhase(r, "write") /\ req[r] # Idle
      BY <2>4 DEF CommitTransition, InPhase
    <3>2. request \in Request /\ request.id = req[r].id
      BY <3>1, <2>3, WrittenType, StrategyMapType DEF Request, Phases
    <3>3. req' = [req EXCEPT ![r] = request]
      BY <2>4 DEF CommitTransition
    <3> QED
      BY <2>1, <2>2, <2>3, <2>4, <3>1, <3>2, <3>3 DEF CommitTransition
  <2>5. CASE WriteFails(r) \/ SendRaises(r)
    <3> DEFINE request == [req[r] EXCEPT !.phase = "error"]
    <3>1. req[r] # Idle /\ UNCHANGED rows
      BY <2>5 DEF WriteFails, SendRaises, InPhase
    <3>2. request \in Request /\ request.id = req[r].id
      BY <3>1, <2>3 DEF Request, Phases
    <3>3. req' = [req EXCEPT ![r] = request]
      BY <2>5 DEF WriteFails, SendRaises
    <3> QED
      BY <2>2, <2>3, <3>1, <3>2, <3>3
  <2>6. CASE AcknowledgementLost(r)
    <3> DEFINE request == [req[r] EXCEPT !.phase = "error"]
    <3>1. InPhase(r, "write") /\ req[r] # Idle
      BY <2>6 DEF AcknowledgementLost, InPhase
    <3>2. request \in Request /\ request.id = req[r].id
      BY <3>1, <2>3 DEF Request, Phases
    <3>3. req' = [req EXCEPT ![r] = request]
      BY <2>6 DEF AcknowledgementLost
    <3> QED
      BY <2>1, <2>2, <2>3, <2>6, <3>1, <3>2, <3>3 DEF AcknowledgementLost
  <2>7. CASE SendReturns(r)
    <3> DEFINE request == [req[r] EXCEPT !.left = Tail(@),
                             !.attempted = Append(@, Head(req[r].left))]
    <3>1. req[r] # Idle /\ req[r].left # <<>> /\ UNCHANGED rows
      BY <2>7 DEF SendReturns, InPhase
    <3>2. req[r].left \in Seq(Channels) /\ req[r].attempted \in Seq(Channels)
      BY <3>1, <2>3 DEF Request
    <3>3. /\ Tail(req[r].left) \in Seq(Channels)
          /\ Append(req[r].attempted, Head(req[r].left)) \in Seq(Channels)
      BY <3>1, <3>2
    <3>4. request \in Request /\ request.id = req[r].id
      BY <3>1, <3>3, <2>3 DEF Request
    <3>5. req' = [req EXCEPT ![r] = request]
      BY <2>7 DEF SendReturns
    <3> QED
      BY <2>2, <2>3, <3>1, <3>4, <3>5
  <2>8. CASE DispatchReturns(r)
    <3> DEFINE request == [req[r] EXCEPT !.phase = "ok"]
    <3>1. req[r] # Idle /\ UNCHANGED rows
      BY <2>8 DEF DispatchReturns, InPhase
    <3>2. request \in Request /\ request.id = req[r].id
      BY <3>1, <2>3 DEF Request, Phases
    <3>3. req' = [req EXCEPT ![r] = request]
      BY <2>8 DEF DispatchReturns
    <3> QED
      BY <2>2, <2>3, <3>1, <3>2, <3>3
  <2>9. CASE Respond(r)
    BY <2>9 DEF Respond
  <2> QED
    BY <1>5, <2>4, <2>5, <2>6, <2>7, <2>8, <2>9 DEF HandlerStep
<1>6. CASE UNCHANGED vars
  BY <1>6 DEF vars
<1> QED
  BY <1>1, <1>2, <1>3, <1>4, <1>5, <1>6 DEF Next, WorkerStep

LEMMA TypeInvInit == Init => TypeInv
BY DEF Init, TypeInv, TypeOK, RowExists

LEMMA TypeInvariant == Spec => []TypeInv
BY TypeInvInit, TypeInvStep, PTL DEF Spec

\* Rows and handlers have their types in every reachable state.
THEOREM TypeCorrect == Spec => []TypeOK
BY TypeInvariant, PTL DEF TypeInv

-------------------------------------------------------------------------------
\* What a step may do to the row of an incident that has one: nothing, a write of a
\* justified or unjustified transition, or a new RCA in the same state.
LEMMA RowSteps ==
  ASSUME TypeInv, TypeInv', [Next]_vars, NEW i \in Incidents, rows[i] # NoRow
  PROVE  \/ rows'[i] = rows[i]
         \/ \E r \in Requests :
              /\ CommitTransition(r) \/ AcknowledgementLost(r)
              /\ req[r].id = i
              /\ rows'[i] = [rows[i] EXCEPT !.state = req[r].target]
         \/ \E rootCause \in Text, description \in Text, verified \in BOOLEAN :
              /\ Validate(rootCause, description)
              /\ rows'[i] = WithRca(rows[i], rootCause, description, verified)
<1> USE DEF TypeInv, TypeOK, RowExists
<1>1. ASSUME NEW w \in Workers, NEW j \in Incidents, Create(w, j)
      PROVE  rows'[i] = rows[i]
  BY <1>1 DEF Create
<1>2. ASSUME NEW w \in Workers, NEW j \in Incidents, SubmitRca(w, j)
      PROVE  \/ rows'[i] = rows[i]
             \/ \E rootCause \in Text, description \in Text, verified \in BOOLEAN :
                  /\ Validate(rootCause, description)
                  /\ rows'[i] = WithRca(rows[i], rootCause, description, verified)
  <2>1. PICK rootCause \in Texts, fix \in Texts, prevention \in Texts, verified \in BOOLEAN :
          /\ Admissible(WithRca(rows[j], rootCause, Merged(fix, prevention), verified))
          /\ rows' = [rows EXCEPT ![j] =
               WithRca(rows[j], rootCause, Merged(fix, prevention), verified)]
    BY <1>2 DEF SubmitRca
  <2>2. rows[j] \in Row
    BY <1>2 DEF SubmitRca
  <2>3. Merged(fix, prevention) \in Text /\ rootCause \in Text
    BY MergedNeverTooShort, WorkflowAssumption
  <2>4. Validate(rootCause, Merged(fix, prevention))
    BY <2>1, <2>2 DEF Admissible, WithRca, Row
  <2> QED
    BY <2>1, <2>3, <2>4
<1>3. ASSUME NEW r \in Requests, HandlerStep(r)
      PROVE  \/ rows'[i] = rows[i]
             \/ /\ CommitTransition(r) \/ AcknowledgementLost(r)
                /\ req[r].id = i
                /\ rows'[i] = [rows[i] EXCEPT !.state = req[r].target]
  <2>1. CASE CommitTransition(r) \/ AcknowledgementLost(r)
    BY <2>1 DEF CommitTransition, AcknowledgementLost, Written
  <2>2. CASE ~(CommitTransition(r) \/ AcknowledgementLost(r))
    BY <1>3, <2>2 DEF HandlerStep, WriteFails, SendReturns, SendRaises, DispatchReturns, Respond
  <2> QED
    BY <2>1, <2>2
<1>4. ASSUME NEW w \in Workers, NEW r \in Requests, NEW j \in Incidents,
             NEW target \in States, BeginTransition(w, r, j, target)
      PROVE  rows'[i] = rows[i]
  BY <1>4 DEF BeginTransition
<1>5. ASSUME NEW w \in Workers, Crash(w)
      PROVE  rows'[i] = rows[i]
  BY <1>5 DEF Crash
<1>6. CASE UNCHANGED vars
  BY <1>6 DEF vars
<1> QED
  BY <1>1, <1>2, <1>3, <1>4, <1>5, <1>6 DEF Next, WorkerStep

\* An incident enters the table by Create, with an RCA the policy accepts.
LEMMA RowEnters ==
  ASSUME TypeInv, [Next]_vars, NEW i \in Incidents, rows[i] = NoRow, rows'[i] # NoRow
  PROVE  Validate(rows'[i].root_cause, rows'[i].rca_description)
<1> USE DEF TypeInv, TypeOK, RowExists
<1>1. ASSUME NEW w \in Workers, NEW j \in Incidents, Create(w, j)
      PROVE  Validate(rows'[i].root_cause, rows'[i].rca_description)
  BY <1>1 DEF Create, Admissible
<1>2. ASSUME NEW w \in Workers, NEW j \in Incidents, SubmitRca(w, j)
      PROVE  rows'[i] = rows[i]
  BY <1>2 DEF SubmitRca
<1>3. ASSUME NEW r \in Requests, HandlerStep(r)
      PROVE  rows'[i] = rows[i]
  BY <1>3 DEF HandlerStep, CommitTransition, AcknowledgementLost, Written, InPhase,
              WriteFails, SendReturns, SendRaises, DispatchReturns, Respond
<1> QED
  BY <1>1, <1>2, <1>3 DEF Next, WorkerStep, BeginTransition, Crash, vars

\* Every stored incident carries an RCA the policy accepts, and so can be closed iff it
\* has a verifier, for any number of processes.
THEOREM RcaAlwaysAccepted == Spec => []StoredRcaPassesPolicy
<1> DEFINE RcaInv == \A i \in Incidents :
      rows[i] # NoRow => Validate(rows[i].root_cause, rows[i].rca_description)
<1>1. Init => RcaInv
  BY DEF Init
<1>2. TypeInv /\ TypeInv' /\ RcaInv /\ [Next]_vars => RcaInv'
  <2> SUFFICES ASSUME TypeInv, TypeInv', RcaInv, [Next]_vars,
                      NEW i \in Incidents, rows'[i] # NoRow
               PROVE  Validate(rows'[i].root_cause, rows'[i].rca_description)
    OBVIOUS
  <2>1. CASE rows[i] = NoRow
    BY <2>1, RowEnters
  <2>2. CASE rows[i] # NoRow
    <3>1. rows[i] \in Row /\ Validate(rows[i].root_cause, rows[i].rca_description)
      BY <2>2 DEF TypeInv, TypeOK
    <3>2. ASSUME NEW state, rows'[i] = [rows[i] EXCEPT !.state = state]
          PROVE  Validate(rows'[i].root_cause, rows'[i].rca_description)
      BY <3>1, <3>2 DEF Row
    <3>3. ASSUME NEW rootCause, NEW description, NEW verified,
                 Validate(rootCause, description),
                 rows'[i] = WithRca(rows[i], rootCause, description, verified)
          PROVE  Validate(rows'[i].root_cause, rows'[i].rca_description)
      BY <3>1, <3>3 DEF Row, WithRca
    <3> QED
      BY <2>2, <3>1, <3>2, <3>3, RowSteps
  <2> QED
    BY <2>1, <2>2
<1>3. TypeInv /\ RcaInv => StoredRcaPassesPolicy
  BY AdmissibleCanClose DEF TypeInv, TypeOK, StoredRcaPassesPolicy
<1> QED
  BY <1>1, <1>2, <1>3, TypeInvariant, PTL DEF Spec

-------------------------------------------------------------------------------
\* A handler that is about to write holds a transition its snapshot justifies.
LEMMA WriteIsJustifiedStep ==
  ASSUME TypeInv, WriteIsJustified, [Next]_vars
  PROVE  WriteIsJustified'
<1> SUFFICES ASSUME NEW r \in Requests, InPhase(r, "write")'
             PROVE  Accepts(req'[r].incident.state, req'[r].target, req'[r].incident)
  BY DEF WriteIsJustified
<1> USE DEF TypeInv, TypeOK, InPhase
<1>1. ASSUME req'[r] = req[r]
      PROVE  Accepts(req'[r].incident.state, req'[r].target, req'[r].incident)
  BY <1>1 DEF WriteIsJustified
<1>2. ASSUME NEW w \in Workers, NEW q \in Requests, NEW i \in Incidents,
             NEW target \in States, BeginTransition(w, q, i, target)
      PROVE  Accepts(req'[r].incident.state, req'[r].target, req'[r].incident)
  <2>1. CASE q = r
    BY <1>2, <2>1 DEF BeginTransition
  <2>2. CASE q # r
    BY <1>1, <1>2, <2>2 DEF BeginTransition
  <2> QED
    BY <2>1, <2>2
<1>3. ASSUME NEW q \in Requests, HandlerStep(q)
      PROVE  req'[r] = req[r]
  <2>1. CASE q = r
    <3>1. req[r] # Idle => req[r] \in Request
      OBVIOUS
    <3> QED
      BY <1>3, <2>1, <3>1 DEF HandlerStep, CommitTransition, WriteFails, AcknowledgementLost,
                  SendReturns, SendRaises, DispatchReturns, Respond, Request
  <2>2. CASE q # r
    BY <1>3, <2>2 DEF HandlerStep, CommitTransition, WriteFails, AcknowledgementLost,
                SendReturns, SendRaises, DispatchReturns, Respond
  <2> QED
    BY <2>1, <2>2
<1>4. ASSUME NEW w \in Workers, Crash(w)
      PROVE  req'[r] = req[r]
  BY <1>4 DEF Crash
<1> QED
  BY <1>1, <1>2, <1>3, <1>4 DEF Next, WorkerStep, Create, SubmitRca, vars

THEOREM WritesAreJustified == Spec => []WriteIsJustified
<1>1. Init => WriteIsJustified
  BY DEF Init, WriteIsJustified, InPhase
<1> QED
  BY <1>1, WriteIsJustifiedStep, TypeInvariant, PTL DEF Spec

\* Whatever the number of processes, a move that is illegal is the write of a handler
\* whose snapshot no longer is the row.
THEOREM IllegalMovesAreStale == Spec => IllegalOnlyIfStale
<1> DEFINE A == \A i \in Incidents : Moved(i) /\ ~LegalMove(i) =>
      \E r \in Requests : /\ InPhase(r, "write")
                          /\ ~InPhase(r, "write")'
                          /\ req[r].id = i
                          /\ req[r].incident # rows[i]
<1>1. ASSUME TypeInv, TypeInv', WriteIsJustified, [Next]_vars
      PROVE  A
  <2> SUFFICES ASSUME NEW i \in Incidents, Moved(i), ~LegalMove(i)
               PROVE  \E r \in Requests : /\ InPhase(r, "write")
                                          /\ ~InPhase(r, "write")'
                                          /\ req[r].id = i
                                          /\ req[r].incident # rows[i]
    OBVIOUS
  <2>1. rows[i] \in Row
    BY <1>1 DEF Moved, TypeInv, TypeOK
  <2>2. ASSUME NEW rootCause, NEW description, NEW verified
        PROVE  rows'[i] # WithRca(rows[i], rootCause, description, verified)
    BY <2>1 DEF Moved, WithRca, Row
  <2>3. PICK r \in Requests :
          /\ CommitTransition(r) \/ AcknowledgementLost(r)
          /\ req[r].id = i
          /\ rows'[i] = [rows[i] EXCEPT !.state = req[r].target]
    BY <1>1, <2>2, RowSteps DEF Moved
  <2>4. InPhase(r, "write") /\ ~InPhase(r, "write")'
    <3>1. req[r] \in Request /\ InPhase(r, "write")
      BY <1>1, <2>3 DEF CommitTransition, AcknowledgementLost, InPhase, TypeInv, TypeOK
    <3> QED
      BY <1>1, <2>3, <3>1 DEF CommitTransition, AcknowledgementLost, InPhase, Request, TypeInv, TypeOK
  <2>5. rows'[i].state = req[r].target /\ req[r].target \in States
    BY <1>1, <2>1, <2>3, <2>4 DEF Row, InPhase, Request, TypeInv, TypeOK
  <2>6. ASSUME req[r].incident = rows[i]
        PROVE  LegalMove(i)
    <3>1. Accepts(rows[i].state, req[r].target, rows[i])
      BY <1>1, <2>4, <2>6 DEF WriteIsJustified
    <3> QED
      BY <2>1, <2>5, <3>1, AcceptsMatchesTable DEF LegalMove, Row
  <2> QED
    BY <2>3, <2>4, <2>6
<1>2. TypeInv /\ TypeInv' /\ WriteIsJustified /\ [Next]_vars => [A]_vars
  BY <1>1
<1>3. Spec => [][A]_vars
  BY <1>2, TypeInvariant, WritesAreJustified, PTL DEF Spec
<1> QED
  BY <1>3 DEF IllegalOnlyIfStale

-------------------------------------------------------------------------------
\* A handler other than the one whose step it is, and what its own step leaves of it.
LEMMA HandlerStepEffect ==
  ASSUME TypeInv, NEW q \in Requests, HandlerStep(q)
  PROVE  /\ ~InPhase(q, "write")'
         /\ \A r \in Requests : r # q => req'[r] = req[r]
         /\ InPhase(q, "write") \/ UNCHANGED rows
<1>1. req[q] # Idle => req[q] \in Request
  BY DEF TypeInv, TypeOK
<1> QED
  BY <1>1 DEF TypeInv, TypeOK, InPhase, HandlerStep, CommitTransition, WriteFails,
              AcknowledgementLost, SendReturns, SendRaises, DispatchReturns, Respond, Request

\* At most one handler of a process is between its read and its write.  That is the event
\* loop's doing, which LoopFree assumes; the proof of SnapshotsAreFresh needs it as an invariant.
LoopExclusive ==
  \A q, r \in Requests :
    InPhase(q, "write") /\ InPhase(r, "write") /\ req[q].worker = req[r].worker => q = r

LEMMA HandlersExclude == Spec => []LoopExclusive
<1>1. Init => LoopExclusive
  BY DEF Init, LoopExclusive, InPhase
<1>2. TypeInv /\ LoopExclusive /\ [Next]_vars => LoopExclusive'
  <2> SUFFICES ASSUME TypeInv, LoopExclusive, [Next]_vars, NEW q \in Requests, NEW r \in Requests,
                      InPhase(q, "write")', InPhase(r, "write")', req'[q].worker = req'[r].worker,
                      q # r
               PROVE  FALSE
    BY DEF LoopExclusive
  <2> USE DEF TypeInv, TypeOK, InPhase
  <2>1. req'[q] # req[q] \/ req'[r] # req[r]
    BY DEF LoopExclusive
  <2>2. ASSUME NEW w \in Workers, NEW p \in Requests, NEW i \in Incidents,
               NEW target \in States, BeginTransition(w, p, i, target)
        PROVE  FALSE
    <3>1. req'[p].worker = w /\ LoopFree(w)
      BY <2>2 DEF BeginTransition
    <3>2. \A s \in Requests : s # p => req'[s] = req[s]
      BY <2>2 DEF BeginTransition
    <3> QED
      BY <2>1, <3>1, <3>2 DEF LoopFree
  <2>3. ASSUME NEW p \in Requests, HandlerStep(p)
        PROVE  FALSE
    BY <2>1, <2>3, HandlerStepEffect
  <2>4. ASSUME NEW w \in Workers, Crash(w)
        PROVE  FALSE
    BY <2>1, <2>4 DEF Crash
  <2> QED
    BY <2>1, <2>2, <2>3, <2>4 DEF Next, WorkerStep, Create, SubmitRca, vars
<1> QED
  BY <1>1, <1>2, TypeInvariant, PTL DEF Spec

\* The application as it is deployed: one process.
OneProcess == \A v, w \in Workers : v = w

LEMMA SnapshotIsFreshStep ==
  ASSUME OneProcess, TypeInv, LoopExclusive, SnapshotIsFresh, [Next]_vars
  PROVE  SnapshotIsFresh'
<1> SUFFICES ASSUME NEW r \in Requests, InPhase(r, "write")'
             PROVE  rows'[req'[r].id] = req'[r].incident
  BY DEF SnapshotIsFresh
<1> USE DEF TypeInv, TypeOK, InPhase
<1>1. ASSUME req'[r] = req[r]
      PROVE  ~LoopFree(req[r].worker)
  BY <1>1 DEF LoopFree
<1>2. ASSUME NEW w \in Workers, req'[r] = req[r]
      PROVE  ~LoopFree(w)
  BY <1>1, <1>2 DEF OneProcess, Request
<1>3. ASSUME NEW w \in Workers, NEW i \in Incidents, Create(w, i) \/ SubmitRca(w, i)
      PROVE  rows'[req'[r].id] = req'[r].incident
  BY <1>2, <1>3 DEF Create, SubmitRca
<1>4. ASSUME NEW w \in Workers, NEW q \in Requests, NEW i \in Incidents,
             NEW target \in States, BeginTransition(w, q, i, target)
      PROVE  rows'[req'[r].id] = req'[r].incident
  <2>1. q = r
    BY <1>2, <1>4 DEF BeginTransition
  <2> QED
    BY <1>4, <2>1 DEF BeginTransition
<1>5. ASSUME NEW q \in Requests, HandlerStep(q)
      PROVE  rows'[req'[r].id] = req'[r].incident
  <2>1. q # r /\ req'[r] = req[r]
    BY <1>5, HandlerStepEffect
  <2>2. ~InPhase(q, "write")
    <3>1. SUFFICES ASSUME InPhase(q, "write") PROVE req[q].worker = req[r].worker
      BY <2>1, <3>1 DEF LoopExclusive
    <3> QED
      BY <2>1, <3>1 DEF OneProcess, Request
  <2> QED
    BY <1>5, <2>1, <2>2, HandlerStepEffect DEF SnapshotIsFresh
<1>6. ASSUME NEW w \in Workers, Crash(w)
      PROVE  rows'[req'[r].id] = req'[r].incident
  BY <1>6 DEF Crash, SnapshotIsFresh
<1> QED
  BY <1>3, <1>4, <1>5, <1>6 DEF Next, WorkerStep, SnapshotIsFresh, vars

\* With one process, what a handler has read is what it overwrites.
THEOREM SnapshotsAreFresh ==
  ASSUME OneProcess
  PROVE  Spec => []SnapshotIsFresh
<1>1. Init => SnapshotIsFresh
  BY DEF Init, SnapshotIsFresh, InPhase
<1>2. TypeInv /\ LoopExclusive /\ SnapshotIsFresh /\ [Next]_vars => SnapshotIsFresh'
  BY SnapshotIsFreshStep
<1> QED
  BY <1>1, <1>2, TypeInvariant, HandlersExclude, PTL DEF Spec

\* With one process, no incident leaves the life cycle, and none is closed without an
\* RCA: the write itself checks nothing, but a stale write needs a second process.
THEOREM MovesAreLegal ==
  ASSUME OneProcess
  PROVE  Spec => LegalMoves
<1> DEFINE A == \A i \in Incidents : Moved(i) => LegalMove(i)
           Stale == \A i \in Incidents : Moved(i) /\ ~LegalMove(i) =>
             \E r \in Requests : /\ InPhase(r, "write")
                                 /\ ~InPhase(r, "write")'
                                 /\ req[r].id = i
                                 /\ req[r].incident # rows[i]
<1>1. SnapshotIsFresh /\ [Stale]_vars => [A]_vars
  BY DEF SnapshotIsFresh
<1>2. Spec => [][Stale]_vars
  BY IllegalMovesAreStale DEF IllegalOnlyIfStale
<1>3. Spec => [][A]_vars
  BY <1>1, <1>2, SnapshotsAreFresh, PTL
<1> QED
  BY <1>3 DEF LegalMoves

\* A process on its own keeps a closed incident closed.  With two it does not: the write of
\* the one may follow the close of the other.
THEOREM ClosedStaysClosed ==
  ASSUME OneProcess
  PROVE  Spec => ClosedIsTerminal
<1> DEFINE A == \A i \in Incidents : Moved(i) => LegalMove(i)
           B == \A i \in Incidents : Moved(i) => rows[i].state # "CLOSED"
<1>1. A => B
  BY DEF LegalMove, ValidTransition, Allowed
<1>2. LegalMoves <=> [][A]_vars
  BY DEF LegalMoves
<1>3. ClosedIsTerminal <=> [][B]_vars
  BY DEF ClosedIsTerminal
<1> HIDE DEF A, B
<1> QED
  BY <1>1, <1>2, <1>3, MovesAreLegal, PTL

-------------------------------------------------------------------------------
\* One row changes at a time.
LEMMA OneRowChanges ==
  ASSUME TypeInv, [Next]_vars, NEW i \in Incidents, NEW j \in Incidents,
         rows'[i] # rows[i], rows'[j] # rows[j]
  PROVE  i = j
<1> USE DEF TypeInv, TypeOK
<1>1. ASSUME NEW r \in Requests, HandlerStep(r)
      PROVE  i = j
  BY <1>1 DEF HandlerStep, CommitTransition, AcknowledgementLost, Written,
              WriteFails, SendReturns, SendRaises, DispatchReturns, Respond
<1>2. ASSUME NEW w \in Workers, NEW k \in Incidents, Create(w, k) \/ SubmitRca(w, k)
      PROVE  i = j
  BY <1>2 DEF Create, SubmitRca
<1> QED
  BY <1>1, <1>2 DEF Next, WorkerStep, BeginTransition, Crash, vars

\* A step that changes the row of i and is legal is a step of the life cycle of i.
LEMMA LifecycleStep ==
  ASSUME TypeInv, TypeInv', [Next]_vars, NEW i \in Incidents, rows'[i] # rows[i],
         Moved(i) => LegalMove(i)
  PROVE  Life!LifecycleNext
<1> USE DEF TypeInv, TypeOK
<1> DEFINE status == [k \in Incidents |-> IF rows[k] = NoRow THEN "ABSENT" ELSE rows[k].state]
           complete == [k \in Incidents |-> rows[k] # NoRow /\ CanClose(rows[k])]
<1>1. \A k \in Incidents : k # i => rows'[k] = rows[k]
  BY OneRowChanges
<1>2. status' = [status EXCEPT ![i] = status'[i]]
  BY <1>1
<1>3. complete' = [complete EXCEPT ![i] = complete'[i]]
  BY <1>1
<1>4. complete'[i] \in BOOLEAN
  BY Zenon DEF CanClose
<1>5. CASE rows[i] = NoRow
  <2>1. rows'[i] \in Row /\ status'[i] \in States /\ status[i] = "ABSENT"
    BY <1>5 DEF Row
  <2>2. Life!Enter(i)
    BY <2>1, <1>2, <1>3, <1>4 DEF Life!Enter, Life!Absent, Life!States, States
  <2> QED
    BY <2>2 DEF Life!LifecycleNext
<1>6. CASE rows[i] # NoRow
  <2>1. rows[i] \in Row
    BY <1>6
  <2>2. /\ rows'[i] \in Row
        /\ Moved(i) => CanClose(rows'[i]) = CanClose(rows[i])
    <3>1. ASSUME NEW s \in States, rows'[i] = [rows[i] EXCEPT !.state = s]
          PROVE  /\ rows'[i] \in Row
                 /\ CanClose(rows'[i]) = CanClose(rows[i])
      BY <2>1, <3>1 DEF Row, CanClose
    <3>2. ASSUME NEW rootCause \in Text, NEW description \in Text, NEW verified \in BOOLEAN,
                 rows'[i] = WithRca(rows[i], rootCause, description, verified)
          PROVE  rows'[i] \in Row /\ ~Moved(i)
      BY <2>1, <3>2 DEF Row, WithRca, Moved
    <3>3. ASSUME NEW r \in Requests, CommitTransition(r) \/ AcknowledgementLost(r)
          PROVE  req[r].target \in States
      BY <3>3 DEF CommitTransition, AcknowledgementLost, InPhase, Request
    <3> QED
      BY <1>6, <2>1, <3>1, <3>2, <3>3, RowSteps DEF Moved
  <2>3. rows'[i] # NoRow /\ status[i] = rows[i].state /\ status'[i] = rows'[i].state
    BY <1>6, <2>2, WorkflowAssumption
  <2>4. CASE Moved(i)
    <3>1. rows'[i].state \in Allowed(status[i]) /\ (rows'[i].state = "CLOSED" => complete[i])
      BY <1>6, <2>3, <2>4 DEF LegalMove, ValidTransition
    <3>2. status' = [status EXCEPT ![i] = rows'[i].state]
      BY <1>2, <2>3
    <3>3. complete'[i] = complete[i]
      BY <1>6, <2>2, <2>3, <2>4, Zenon
    <3>4. UNCHANGED complete
      BY <1>3, <3>3
    <3>5. Life!Allowed(status[i]) = Allowed(status[i])
      BY DEF Life!Allowed, Allowed
    <3>6. Life!Move(i)
      BY <3>1, <3>2, <3>4, <3>5, Zenon DEF Life!Move
    <3> QED
      BY <3>6 DEF Life!LifecycleNext
  <2>5. CASE ~Moved(i)
    <3>1. status[i] # "ABSENT"
      BY <2>1, <2>3 DEF Row, States
    <3>2. UNCHANGED status
      BY <1>2, <1>6, <2>3, <2>5 DEF Moved
    <3>3. Life!Attach(i)
      BY <1>3, <1>4, <3>1, <3>2 DEF Life!Attach, Life!Absent
    <3> QED
      BY <3>3 DEF Life!LifecycleNext
  <2> QED
    BY <2>4, <2>5
<1> QED
  BY <1>5, <1>6

\* With one process, the routes implement the abstract life cycle.
THEOREM ImplementsLife ==
  ASSUME OneProcess
  PROVE  Spec => ImplementsLifecycle
<1> DEFINE A == \A i \in Incidents : Moved(i) => LegalMove(i)
<1>1. Init => Life!LifecycleInit
  BY DEF Init, Life!LifecycleInit, Life!Absent
<1>2. TypeInv /\ TypeInv' /\ [Next]_vars /\ [A]_vars => [Life!LifecycleNext]_Life!lifecycleVars
  <2> SUFFICES ASSUME TypeInv, TypeInv', [Next]_vars, [A]_vars
               PROVE  [Life!LifecycleNext]_Life!lifecycleVars
    OBVIOUS
  <2>1. CASE UNCHANGED rows
    BY <2>1 DEF Life!lifecycleVars
  <2>2. CASE ~UNCHANGED rows
    <3>1. PICK i \in Incidents : rows'[i] # rows[i]
      BY <2>2 DEF TypeInv, TypeOK
    <3>2. Moved(i) => LegalMove(i)
      BY <2>2 DEF vars
    <3> QED
      BY <3>1, <3>2, LifecycleStep
  <2> QED
    BY <2>1, <2>2
<1>3. Spec => [][A]_vars
  BY MovesAreLegal DEF LegalMoves
<1>4. Spec => Life!LifecycleSpec
  BY <1>1, <1>2, <1>3, TypeInvariant, PTL DEF Spec, Life!LifecycleSpec
<1> QED
  BY <1>4 DEF ImplementsLifecycle

-------------------------------------------------------------------------------
\* While a handler dispatches, what it has tried and what it has left make up the
\* strategies of the incident's severity.
AlertInv ==
  \A r \in Requests :
    /\ InPhase(r, "write") => req[r].attempted = <<>>
    /\ InPhase(r, "dispatch") =>
         req[r].attempted \o req[r].left = StrategyMap(req[r].incident.severity)
    /\ InPhase(r, "ok") => req[r].attempted = StrategyMap(req[r].incident.severity)

LEMMA MoveHead ==
  ASSUME NEW S, NEW s \in Seq(S), NEW t \in Seq(S), t # <<>>
  PROVE  Append(s, Head(t)) \o Tail(t) = s \o t
OBVIOUS

LEMMA AlertInvStep ==
  ASSUME TypeInv, AlertInv, [Next]_vars
  PROVE  AlertInv'
<1> USE DEF TypeInv, TypeOK, InPhase
<1> DEFINE Good(r) ==
      /\ InPhase(r, "write") => req[r].attempted = <<>>
      /\ InPhase(r, "dispatch") =>
           req[r].attempted \o req[r].left = StrategyMap(req[r].incident.severity)
      /\ InPhase(r, "ok") => req[r].attempted = StrategyMap(req[r].incident.severity)
<1>1. \A r \in Requests : req'[r] = req[r] \/ req'[r] = Idle => Good(r)'
  BY DEF AlertInv
<1>2. ASSUME NEW w \in Workers, NEW q \in Requests, NEW i \in Incidents,
             NEW target \in States, BeginTransition(w, q, i, target)
      PROVE  AlertInv'
  BY <1>1, <1>2 DEF BeginTransition, AlertInv
<1>3. ASSUME NEW q \in Requests, HandlerStep(q)
      PROVE  Good(q)'
  <2>1. req[q] # Idle => req[q] \in Request
    OBVIOUS
  <2>2. CASE CommitTransition(q)
    <3>1. Written(q)[req[q].id].severity = rows[req[q].id].severity
      BY <2>1, <2>2 DEF CommitTransition, Written, RowExists, Row, Request
    <3>2. req[q].attempted = <<>> /\ req[q].incident \in Row
      BY <2>1, <2>2 DEF CommitTransition, AlertInv, Request
    <3>3. <<>> \o StrategyMap(rows[req[q].id].severity) = StrategyMap(rows[req[q].id].severity)
      BY StrategyMapType
    <3> QED
      BY <2>1, <2>2, <3>1, <3>2, <3>3 DEF CommitTransition, Request
  <2>3. CASE SendReturns(q)
    <3>1. /\ req[q].left \in Seq(Channels) /\ req[q].attempted \in Seq(Channels)
          /\ req[q].left # <<>>
      BY <2>1, <2>3 DEF SendReturns, Request
    <3>2. req[q].attempted \o req[q].left = StrategyMap(req[q].incident.severity)
      BY <2>3 DEF SendReturns, AlertInv
    <3>3. Append(req[q].attempted, Head(req[q].left)) \o Tail(req[q].left)
            = req[q].attempted \o req[q].left
      BY <3>1, MoveHead
    <3> QED
      BY <2>1, <2>3, <3>2, <3>3 DEF SendReturns, Request
  <2>4. CASE DispatchReturns(q)
    <3>1. req[q].attempted \in Seq(Channels) /\ req[q].left = <<>>
      BY <2>1, <2>4 DEF DispatchReturns, Request
    <3>2. req[q].attempted \o <<>> = req[q].attempted
      BY <3>1
    <3>3. req[q].attempted = StrategyMap(req[q].incident.severity)
      BY <2>4, <3>1, <3>2 DEF DispatchReturns, AlertInv
    <3> QED
      BY <2>1, <2>4, <3>3 DEF DispatchReturns, Request
  <2>5. CASE WriteFails(q) \/ AcknowledgementLost(q) \/ SendRaises(q)
    BY <2>1, <2>5 DEF WriteFails, AcknowledgementLost, SendRaises, Request
  <2>6. CASE Respond(q)
    BY <2>6 DEF Respond
  <2> QED
    BY <1>3, <2>2, <2>3, <2>4, <2>5, <2>6 DEF HandlerStep
<1>4. ASSUME NEW q \in Requests, HandlerStep(q)
      PROVE  AlertInv'
  BY <1>1, <1>3, <1>4, HandlerStepEffect DEF AlertInv
<1>5. ASSUME NEW w \in Workers, Crash(w)
      PROVE  AlertInv'
  BY <1>1, <1>5 DEF Crash, AlertInv
<1> QED
  BY <1>1, <1>2, <1>4, <1>5 DEF Next, WorkerStep, Create, SubmitRca, AlertInv, vars

\* A handler answers 200 only after every strategy of the incident's severity was tried.
THEOREM OkIsAlerted == Spec => []OkMeansAlerted
<1>1. Init => AlertInv
  BY DEF Init, AlertInv, InPhase
<1>2. AlertInv => OkMeansAlerted
  BY DEF AlertInv, OkMeansAlerted
<1> QED
  BY <1>1, <1>2, AlertInvStep, TypeInvariant, PTL DEF Spec
==============================================================================
