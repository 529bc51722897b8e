--------------------------- MODULE ConnectionProofs ---------------------------
(***************************************************************************)
(* Theorems about PgConnection, for every number of processes, rows and    *)
(* attempts (two at least), and any bound on time and faults.              *)
(***************************************************************************)
EXTENDS PgConnection, TLAPS

LEMMA Running ==
  ASSUME TypeOK, NEW w \in Workers, op[w] # Idle
  PROVE  /\ op[w] \in Operation
         /\ op[w].item \in Incidents /\ op[w].attempt \in Nat
<1>1. op[w] \in Operation
  BY DEF TypeOK
<1> QED
  BY <1>1, ConnectionAssumption DEF Operation

LEMMA FaultType == TypeOK /\ Fault => faults' \in 0 .. MaxFaults
BY ConnectionAssumption DEF TypeOK, Fault

\* What the steps are made of has its type.
LEMMA OperationType ==
  ASSUME TypeOK, NEW w \in Workers, NEW operation \in Operation \union {Idle},
         op' = [op EXCEPT ![w] = operation]
  PROVE  op' \in [Workers -> Operation \union {Idle}]
BY DEF TypeOK

LEMMA MovesType ==
  ASSUME TypeOK, NEW w \in Workers, op[w] # Idle,
         NEW phase \in {"lock", "commit", "rollback"}, Moves(w, phase)
  PROVE  op' \in [Workers -> Operation \union {Idle}]
<1>1. [op[w] EXCEPT !.phase = phase] \in Operation
  BY Running DEF Operation
<1>2. op' = [op EXCEPT ![w] = [op[w] EXCEPT !.phase = phase]]
  BY DEF Moves
<1> QED
  BY <1>1, <1>2, OperationType

LEMMA EndsType ==
  ASSUME TypeOK, NEW w \in Workers, op[w] # Idle,
         NEW result \in {"ok", "refused", "error"}, Ends(w, result)
  PROVE  op' \in [Workers -> Operation \union {Idle}]
<1>1. [op[w] EXCEPT !.phase = "done", !.result = result] \in Operation
  BY Running DEF Operation, Results
<1>2. op' = [op EXCEPT ![w] = [op[w] EXCEPT !.phase = "done", !.result = result]]
  BY DEF Ends
<1> QED
  BY <1>1, <1>2, OperationType

LEMMA RaisedType ==
  ASSUME TypeOK, NEW w \in Workers, op[w] # Idle, Raised(w)
  PROVE  op' \in [Workers -> Operation \union {Idle}]
<1>1. CASE op[w].kind = "create" /\ op[w].attempt < Attempts
  <2>1. op[w] \in Operation
    BY Running
  <2>2. [op[w] EXCEPT !.phase = "insert", !.attempt = @ + 1] \in Operation
    <3>1. op[w].attempt + 1 \in 1 .. Attempts
      BY <1>1, <2>1, ConnectionAssumption DEF Operation
    <3> QED
      BY <2>1, <3>1 DEF Operation
  <2>3. op' = [op EXCEPT ![w] = [op[w] EXCEPT !.phase = "insert", !.attempt = @ + 1]]
    BY <1>1 DEF Raised, Retried, TypeOK
  <2> QED
    BY <2>2, <2>3, OperationType
<1>2. CASE ~(op[w].kind = "create" /\ op[w].attempt < Attempts)
  BY <1>2, EndsType DEF Raised, Retried
<1> QED
  BY <1>1, <1>2

LEMMA AfterFailureType ==
  ASSUME TypeOK, NEW w \in Workers, NEW operation \in Operation, AfterFailure(w, operation)
  PROVE  op' \in [Workers -> Operation \union {Idle}]
<1>1. /\ [operation EXCEPT !.phase = "done", !.result = "error"] \in Operation
      /\ [operation EXCEPT !.phase = "rollback"] \in Operation
  BY DEF Operation, Results
<1> QED
  BY <1>1, OperationType DEF AfterFailure

LEMMA StruckType ==
  ASSUME TypeOK, NEW w \in Workers, op[w] # Idle
  PROVE  [op[w] EXCEPT !.faulted = TRUE] \in Operation
BY Running DEF Operation

LEMMA LeavesType ==
  ASSUME TypeOK, NEW w \in Workers, NEW state \in Connection, Leaves(w, state)
  PROVE  /\ conn' \in [Workers -> Connection]
         /\ began' \in [Workers -> Time]
         /\ lock' \in [Incidents -> Workers \union {NoOne}]
BY ConnectionAssumption DEF TypeOK, Leaves, Time

LEMMA InTransactionType ==
  ASSUME TypeOK, NEW w \in Workers, InTransaction(w)
  PROVE  /\ conn' \in [Workers -> Connection]
         /\ began' \in [Workers -> Time]
BY DEF TypeOK, InTransaction, Connection

LEMMA WrittenType ==
  ASSUME TypeOK, NEW w \in Workers, op[w] # Idle, Written(w)
  PROVE  rows' \in [Incidents -> Row \union {NoRow}]
<1>1. [stamp |-> began[w], at |-> now, writer |-> w] \in Row
  BY DEF TypeOK, Row
<1> QED
  BY <1>1 DEF Written, TypeOK

LEMMA TypeStep == TypeOK /\ [Next]_vars => TypeOK'
<1> SUFFICES ASSUME TypeOK, [Next]_vars
             PROVE  TypeOK'
  OBVIOUS
<1>1. ASSUME NEW w \in Workers, OperationStep(w)
      PROVE  TypeOK'
  <2>1. op[w] # Idle
    BY <1>1 DEF OperationStep, Select, SelectForWrite, Write, InsertConflicts, StatementRefused,
                StatementFails, ConnectionRefuses, Commit, CommitUnacknowledged, Rollback,
                Return, InPhase
  <2>2. CASE Select(w)
    BY <2>1, <2>2, InTransactionType, EndsType DEF Select, TypeOK
  <2>3. CASE SelectForWrite(w)
    BY <2>1, <2>3, InTransactionType, EndsType, MovesType DEF SelectForWrite, TypeOK
  <2>4. CASE Write(w)
    BY <2>1, <2>4, InTransactionType, MovesType, Running DEF Write, TypeOK
  <2>5. CASE InsertConflicts(w)
    BY <2>1, <2>5, MovesType DEF InsertConflicts, TypeOK, Connection
  <2>6. CASE StatementRefused(w)
    BY <2>1, <2>6, AfterFailureType, Running DEF StatementRefused, TypeOK
  <2>7. CASE StatementFails(w)
    BY <2>1, <2>7, AfterFailureType, StruckType, FaultType DEF StatementFails, TypeOK, Connection
  <2>8. CASE ConnectionRefuses(w)
    BY <2>1, <2>8, RaisedType DEF ConnectionRefuses, TypeOK
  <2>9. CASE Commit(w)
    BY <2>1, <2>9, LeavesType, WrittenType, EndsType DEF Commit, TypeOK, Connection
  <2>10. CASE CommitUnacknowledged(w)
    <3>1. op' \in [Workers -> Operation \union {Idle}]
      BY <2>1, <2>10, StruckType, OperationType DEF CommitUnacknowledged
    <3> QED
      BY <2>1, <2>10, <3>1, LeavesType, WrittenType, FaultType
         DEF CommitUnacknowledged, TypeOK, Connection
  <2>11. CASE Rollback(w)
    BY <2>1, <2>11, LeavesType, RaisedType DEF Rollback, TypeOK, Connection
  <2>12. CASE Return(w)
    BY <2>12 DEF Return, TypeOK
  <2> QED
    BY <1>1, <2>2, <2>3, <2>4, <2>5, <2>6, <2>7, <2>8, <2>9, <2>10, <2>11, <2>12
       DEF OperationStep
<1>2. ASSUME NEW w \in Workers, Begin(w)
      PROVE  TypeOK'
  <2>1. PICK kind \in Kinds, i \in Incidents :
          op' = [op EXCEPT ![w] =
            [kind |-> kind, item |-> i, attempt |-> 1, result |-> "none", faulted |-> FALSE,
             phase |-> IF kind = "create" THEN "insert" ELSE "select"]]
    BY <1>2 DEF Begin
  <2>2. [kind |-> kind, item |-> i, attempt |-> 1, result |-> "none", faulted |-> FALSE,
         phase |-> IF kind = "create" THEN "insert" ELSE "select"] \in Operation
    BY ConnectionAssumption DEF Operation, Results
  <2>3. op' \in [Workers -> Operation \union {Idle}]
    BY <2>1, <2>2, OperationType
  <2> QED
    BY <1>2, <2>3 DEF Begin, TypeOK
<1>3. ASSUME NEW w \in Workers, Start(w) \/ Exit(w)
      PROVE  TypeOK'
  BY <1>3 DEF Start, Exit, TypeOK, Connection
<1>4. ASSUME NEW w \in Workers, Stop(w)
      PROVE  TypeOK'
  BY <1>4, LeavesType DEF Stop, TypeOK, Connection
<1>5. ASSUME NEW w \in Workers, ConnectionLost(w)
      PROVE  TypeOK'
  <2>1. op' \in [Workers -> Operation \union {Idle}]
    BY <1>5, StruckType, OperationType DEF ConnectionLost, TypeOK
  <2> QED
    BY <1>5, <2>1, LeavesType, FaultType DEF ConnectionLost, TypeOK, Connection
<1>6. ASSUME NEW w \in Workers, Die(w)
      PROVE  TypeOK'
  BY <1>6, LeavesType, FaultType DEF Die, TypeOK, Connection
<1>7. CASE Tick
  BY <1>7, ConnectionAssumption DEF Tick, TypeOK, Time
<1>8. CASE UNCHANGED vars
  BY <1>8 DEF vars, TypeOK
<1> QED
  BY <1>1, <1>2, <1>3, <1>4, <1>5, <1>6, <1>7, <1>8 DEF Next

LEMMA TypeInit == Init => TypeOK
BY ConnectionAssumption DEF Init, TypeOK, Connection, Time

\* Connections, transactions, locks, rows and operations have their types in every reachable
\* state; no operation counts past its last attempt.
THEOREM TypeCorrect == Spec => []TypeOK
BY TypeInit, TypeStep, PTL DEF Spec

-------------------------------------------------------------------------------
\* A step of one process, and what it leaves alone.
ProcessStep(w) ==
  \/ OperationStep(w) \/ Begin(w)
  \/ Start(w) \/ Stop(w) \/ Exit(w) \/ ConnectionLost(w) \/ Die(w)

LEMMA OthersStay ==
  ASSUME TypeOK, NEW v \in Workers, NEW w \in Workers, v # w, ProcessStep(v)
  PROVE  op'[w] = op[w] /\ conn'[w] = conn[w] /\ began'[w] = began[w]
<1>1. CASE OperationStep(v)
  BY <1>1 DEF OperationStep, Select, SelectForWrite, Write, InsertConflicts, StatementRefused,
              StatementFails, ConnectionRefuses, Commit, CommitUnacknowledged, Rollback,
              Return, Moves, Ends, InTransaction, Leaves, AfterFailure, Raised, Retried, TypeOK
<1>2. CASE Begin(v)
  BY <1>2 DEF Begin, TypeOK
<1>3. CASE Start(v) \/ Stop(v) \/ Exit(v) \/ ConnectionLost(v) \/ Die(v)
  BY <1>3 DEF Start, Stop, Exit, ConnectionLost, Die, Leaves, TypeOK
<1> QED
  BY <1>1, <1>2, <1>3 DEF ProcessStep

\* Rows change only by a commit, and never vanish.
LEMMA RowsChange ==
  ASSUME NEW v \in Workers, ProcessStep(v)
  PROVE  UNCHANGED rows \/ Commit(v) \/ CommitUnacknowledged(v)
BY DEF ProcessStep, OperationStep, Select, SelectForWrite, Write, InsertConflicts,
       StatementRefused, StatementFails, ConnectionRefuses, Rollback, Return, Begin, Start, Stop,
       Exit, ConnectionLost, Die

LEMMA RowsStay ==
  ASSUME TypeOK, NEW v \in Workers, ProcessStep(v), NEW i \in Incidents, rows[i] # NoRow
  PROVE  rows'[i] # NoRow
<1>1. [stamp |-> began[v], at |-> now, writer |-> v] # NoRow
  BY ConnectionAssumption DEF TypeOK, Row
<1>2. ASSUME Written(v)
      PROVE  rows'[i] # NoRow
  BY <1>1, <1>2 DEF Written, TypeOK
<1> QED
  BY <1>2, RowsChange DEF Commit, CommitUnacknowledged

\* What the operation of a process and its connection have to do with each other.
OperationInv(w) ==
  op[w] # Idle =>
    /\ conn[w] # "down"
    /\ op[w].kind = "read" => op[w].phase \in {"select", "done"}
    /\ op[w].kind = "create" => op[w].phase \notin {"select", "lock"}
    /\ op[w].kind = "modify" => op[w].phase # "insert"
    /\ op[w].phase \in {"lock", "commit"} => conn[w] \in {"open", "lost"}
    /\ op[w].phase = "rollback" => conn[w] \in {"aborted", "lost"}
    /\ op[w].kind = "modify" /\ op[w].phase = "rollback" => op[w].faulted
    /\ op[w].kind = "create" /\ op[w].phase = "insert" /\ op[w].attempt >= 2 =>
         conn[w] \notin {"open", "aborted"}
    /\ op[w].kind = "create" /\ op[w].phase = "rollback" /\ op[w].attempt >= 2 =>
         op[w].faulted \/ rows[op[w].item] # NoRow
    /\ op[w].kind = "create" /\ op[w].phase = "done" => conn[w] \notin {"open", "aborted"}
    /\ Unstruck(w) =>
         \/ Conflicts(w)
         \/ conn[w] \in {"lost", "closed"}
         \/ conn[w] = "aborted" /\ op[w].kind # "create"

LEMMA OthersInv ==
  ASSUME TypeOK, NEW v \in Workers, NEW w \in Workers, v # w, ProcessStep(v), OperationInv(w)
  PROVE  OperationInv(w)'
<1>1. op'[w] = op[w] /\ conn'[w] = conn[w]
  BY OthersStay
<1>2. op[w] # Idle => (rows[op[w].item] # NoRow => rows'[op[w].item] # NoRow)
  BY RowsStay, Running
<1> QED
  BY <1>1, <1>2 DEF OperationInv, Unstruck, Conflicts, InPhase

\* What becomes of an operation that raises.
LEMMA RaisedEffect ==
  ASSUME TypeOK, NEW w \in Workers, op[w] # Idle, Raised(w)
  PROVE  /\ op'[w] # Idle
         /\ op'[w].kind = op[w].kind /\ op'[w].item = op[w].item
         /\ op'[w].faulted = op[w].faulted
         /\ \/ /\ op[w].kind = "create"
               /\ op'[w].phase = "insert" /\ op'[w].attempt = op[w].attempt + 1
            \/ /\ op'[w].phase = "done" /\ op'[w].attempt = op[w].attempt
               /\ op[w].kind = "create" => op[w].attempt >= Attempts
<1>1. op[w] \in Operation /\ op[w].attempt \in Nat
  BY Running
<1>2. CASE op[w].kind = "create" /\ op[w].attempt < Attempts
  <2>1. op'[w] = [op[w] EXCEPT !.phase = "insert", !.attempt = @ + 1]
    BY <1>2 DEF Raised, Retried, TypeOK
  <2>2. op'[w] # Idle
    <3>1. op[w].attempt + 1 \in 1 .. Attempts
      BY <1>1, <1>2, ConnectionAssumption DEF Operation
    <3>2. op'[w] \in Operation
      BY <1>1, <2>1, <3>1 DEF Operation
    <3> QED
      BY <3>2, ConnectionAssumption
  <2> QED
    BY <1>1, <1>2, <2>1, <2>2 DEF Operation
<1>3. CASE ~(op[w].kind = "create" /\ op[w].attempt < Attempts)
  <2>1. op'[w] = [op[w] EXCEPT !.phase = "done", !.result = "error"]
    BY <1>3 DEF Raised, Retried, Ends, TypeOK
  <2>2. op'[w] # Idle
    <3>1. op'[w] \in Operation
      BY <1>1, <2>1 DEF Operation, Results
    <3> QED
      BY <3>1, ConnectionAssumption
  <2> QED
    BY <1>1, <1>3, <2>1, <2>2, ConnectionAssumption DEF Operation
<1> QED
  BY <1>2, <1>3

LEMMA RaisedInv ==
  ASSUME TypeOK, NEW w \in Workers, OperationInv(w), op[w] # Idle, Raised(w), UNCHANGED rows,
         \/ conn'[w] \in {"lost", "closed"}
         \/ InPhase(w, "rollback") /\ conn'[w] = "idle"
  PROVE  OperationInv(w)'
<1>1. op[w].kind \in Kinds /\ op[w].attempt \in Nat
  BY Running DEF Operation
<1>2. CASE conn'[w] = "idle"
  <2>1. op[w].kind = "create" \/ (op[w].kind = "modify" /\ op[w].faulted)
    BY <1>1, <1>2 DEF Kinds, OperationInv, InPhase
  <2>2. CASE op'[w].phase = "insert" /\ op[w].kind = "create"
    BY <1>2, <2>2, RaisedEffect DEF OperationInv, Unstruck, Conflicts, InPhase
  <2>3. CASE op'[w].phase = "done"
    BY <1>1, <1>2, <2>1, <2>3, RaisedEffect, ConnectionAssumption
       DEF OperationInv, Unstruck, Conflicts, InPhase
  <2> QED
    BY <2>2, <2>3, RaisedEffect
<1>3. CASE conn'[w] \in {"lost", "closed"}
  <2>1. CASE op'[w].phase = "insert" /\ op[w].kind = "create"
    BY <1>3, <2>1, RaisedEffect DEF OperationInv, Unstruck, Conflicts, InPhase
  <2>2. CASE op'[w].phase = "done"
    BY <1>3, <2>2, RaisedEffect DEF OperationInv, Unstruck, Conflicts, InPhase
  <2> QED
    BY <2>1, <2>2, RaisedEffect
<1> QED
  BY <1>2, <1>3

LEMMA OwnInv ==
  ASSUME TypeOK, NEW w \in Workers, ProcessStep(w), OperationInv(w)
  PROVE  OperationInv(w)'
<1> USE DEF TypeOK, OperationInv, Unstruck, Conflicts, InPhase
<1>1. CASE Select(w)
  BY <1>1 DEF Select, InTransaction, Ends
<1>2. CASE SelectForWrite(w)
  <2>1. CASE Moves(w, "lock")
    BY <1>2, <2>1 DEF SelectForWrite, InTransaction, Moves
  <2>2. CASE Ends(w, "refused")
    BY <1>2, <2>2 DEF SelectForWrite, InTransaction, Ends
  <2> QED
    BY <1>2, <2>1, <2>2 DEF SelectForWrite
<1>3. CASE Write(w)
  BY <1>3 DEF Write, InTransaction, Moves
<1>4. CASE InsertConflicts(w)
  BY <1>4 DEF InsertConflicts, Moves
<1>5. CASE StatementRefused(w)
  BY <1>5 DEF StatementRefused, AfterFailure
<1>6. CASE StatementFails(w)
  BY <1>6 DEF StatementFails, AfterFailure
<1>7. CASE ConnectionRefuses(w)
  BY <1>7, RaisedInv DEF ConnectionRefuses
<1>8. CASE Commit(w)
  BY <1>8 DEF Commit, Leaves, Ends
<1>9. CASE CommitUnacknowledged(w)
  BY <1>9 DEF CommitUnacknowledged, Leaves
<1>10. CASE Rollback(w)
  <2>1. conn'[w] = "idle"
    BY <1>10 DEF Rollback, Leaves
  <2> QED
    BY <1>10, <2>1, RaisedInv DEF Rollback
<1>11. CASE Return(w)
  BY <1>11 DEF Return
<1>12. CASE Begin(w)
  BY <1>12 DEF Begin
<1>13. CASE Start(w) \/ Stop(w) \/ Exit(w)
  BY <1>13 DEF Start, Stop, Exit, Leaves
<1>14. CASE ConnectionLost(w)
  BY <1>14 DEF ConnectionLost, Leaves
<1>15. CASE Die(w)
  BY <1>15 DEF Die, Leaves
<1> QED
  BY <1>1, <1>2, <1>3, <1>4, <1>5, <1>6, <1>7, <1>8, <1>9, <1>10, <1>11, <1>12, <1>13, <1>14,
     <1>15 DEF ProcessStep, OperationStep

LEMMA ProcessStepOrTick == [Next]_vars <=> \/ \E w \in Workers : ProcessStep(w)
                                           \/ Tick
                                           \/ UNCHANGED vars
BY DEF Next, ProcessStep

OperationsInv == \A w \in Workers : OperationInv(w)

LEMMA OperationsInit == Init => OperationsInv
BY DEF Init, OperationsInv, OperationInv

LEMMA OperationsStep == TypeOK /\ OperationsInv /\ [Next]_vars => OperationsInv'
<1> SUFFICES ASSUME TypeOK, OperationsInv, [Next]_vars, NEW w \in Workers
             PROVE  OperationInv(w)'
  BY DEF OperationsInv
<1>1. OperationInv(w)
  BY DEF OperationsInv
<1>2. CASE \E v \in Workers : ProcessStep(v)
  BY <1>1, <1>2, OwnInv, OthersInv
<1>3. CASE Tick \/ UNCHANGED vars
  <2>1. UNCHANGED <<conn, rows, op>>
    BY <1>3 DEF Tick, vars
  <2> QED
    BY <1>1, <2>1 DEF OperationInv, Unstruck, Conflicts, InPhase
<1> QED
  BY <1>2, <1>3, ProcessStepOrTick

\* The errors of the routes have the causes ErrorHasCause lists, whatever the number of
\* attempts: a create that found its transaction aborted has rolled back before its second.
THEOREM ErrorsHaveCauses == Spec => []ErrorHasCause
<1>1. OperationsInv => ErrorHasCause
  BY DEF OperationsInv, OperationInv, ErrorHasCause, Unstruck, InPhase
<1> QED
  BY <1>1, TypeInit, TypeStep, OperationsInit, OperationsStep, PTL DEF Spec

\* create leaves no transaction behind, in any interleaving of any number of processes.
THEOREM CreatesEndTransactions == Spec => []CreateEndsTransaction
<1>1. OperationsInv => CreateEndsTransaction
  BY DEF OperationsInv, OperationInv, CreateEndsTransaction, InPhase
<1> QED
  BY <1>1, TypeInit, TypeStep, OperationsInit, OperationsStep, PTL DEF Spec
-------------------------------------------------------------------------------
\* What w must be doing to hold the row of i.
Holds(w, i) ==
  /\ InPhase(w, "commit") \/ InPhase(w, "rollback")
  /\ op[w].kind \in {"modify", "create"}
  /\ op[w].item = i
  /\ conn[w] \in {"open", "aborted"}

\* A step of v leaves a row with whoever held it, frees it, or gives v a free one.
LEMMA LockChanges ==
  ASSUME TypeOK, NEW v \in Workers, ProcessStep(v), NEW i \in Incidents, lock'[i] # NoOne
  PROVE  lock'[i] = lock[i] \/ (lock'[i] = v /\ Write(v) /\ op[v].item = i)
<1>1. CASE Write(v)
  BY <1>1, Running DEF Write, TypeOK, InPhase
<1>2. CASE ~Write(v)
  <2>1. UNCHANGED lock \/ \E state \in Connection : Leaves(v, state)
    BY <1>2 DEF ProcessStep, OperationStep, Select, SelectForWrite, InsertConflicts,
       StatementRefused, StatementFails, ConnectionRefuses, Commit, CommitUnacknowledged,
       Rollback, Return, Begin, Start, Stop, Exit, ConnectionLost, Die, Connection
  <2> QED
    BY <2>1 DEF Leaves
<1> QED
  BY <1>1, <1>2

\* A process that steps while it holds a row still holds it, or has freed it.
LEMMA HolderSteps ==
  ASSUME TypeOK, NEW w \in Workers, ProcessStep(w), OperationInv(w),
         NEW i \in Incidents, lock[i] = w, lock'[i] = w, Holds(w, i)
  PROVE  Holds(w, i)'
<1> USE DEF Holds, InPhase
<1>0. w # NoOne
  BY ConnectionAssumption
<1>1. ASSUME NEW state \in Connection, Leaves(w, state)
      PROVE  FALSE
  BY <1>0, <1>1 DEF Leaves
<1>2. CASE StatementFails(w)
  <2>1. op[w] \in Operation /\ op[w].phase # "select"
    BY Running
  <2>2. op'[w] = [[op[w] EXCEPT !.faulted = TRUE] EXCEPT !.phase = "rollback"]
    BY <1>2, <2>1 DEF StatementFails, AfterFailure, TypeOK, Operation
  <2>3. op'[w] # Idle /\ op'[w].phase = "rollback" /\ op'[w].kind = op[w].kind
        /\ op'[w].item = op[w].item
    <3>1. op'[w] \in Operation
      BY <2>1, <2>2 DEF Operation
    <3> QED
      BY <2>1, <2>2, <3>1, ConnectionAssumption DEF Operation
  <2>4. conn'[w] = "aborted"
    BY <1>2 DEF StatementFails, TypeOK
  <2> QED
    BY <2>3, <2>4
<1>3. CASE ~StatementFails(w)
  BY <1>1, <1>3
     DEF ProcessStep, OperationStep, Select, SelectForWrite, Write, InsertConflicts,
         StatementRefused, ConnectionRefuses, Commit, CommitUnacknowledged, Rollback, Return,
         Begin, Start, Stop, Exit, ConnectionLost, Die, Connection
<1> QED
  BY <1>2, <1>3

LEMMA LocksInit == Init => LocksAreHeldByWriters
BY DEF Init, LocksAreHeldByWriters

LEMMA LocksStep ==
  TypeOK /\ OperationsInv /\ LocksAreHeldByWriters /\ [Next]_vars => LocksAreHeldByWriters'
<1> SUFFICES ASSUME TypeOK, OperationsInv, LocksAreHeldByWriters, [Next]_vars,
                    NEW i \in Incidents, lock'[i] # NoOne
             PROVE  Holds(lock[i], i)'
  BY DEF LocksAreHeldByWriters, Holds, InPhase
<1>1. lock[i] # NoOne => lock[i] \in Workers /\ Holds(lock[i], i)
  BY DEF TypeOK, LocksAreHeldByWriters, Holds
<1>2. ASSUME NEW v \in Workers, ProcessStep(v)
      PROVE  Holds(lock[i], i)'
  <2>1. CASE lock'[i] = v /\ Write(v) /\ op[v].item = i
    <3>1. op'[v] = [op[v] EXCEPT !.phase = "commit"] /\ op[v] \in Operation
      BY <2>1, Running DEF Write, Moves, InPhase, TypeOK
    <3>2. op'[v] \in Operation /\ op'[v].phase = "commit"
          /\ op'[v].kind = op[v].kind /\ op'[v].item = i
      BY <2>1, <3>1 DEF Operation
    <3>3. op[v].kind \in {"modify", "create"}
      BY <2>1, <3>1 DEF OperationsInv, OperationInv, Write, InPhase, Operation, Kinds
    <3>4. conn'[v] = "open"
      BY <2>1 DEF Write, InTransaction, TypeOK
    <3> QED
      BY <2>1, <3>2, <3>3, <3>4, ConnectionAssumption DEF Holds, InPhase
  <2>2. CASE lock'[i] = lock[i] /\ lock[i] = v
    BY <1>1, <1>2, <2>2, HolderSteps DEF OperationsInv
  <2>3. CASE lock'[i] = lock[i] /\ lock[i] # v
    BY <1>1, <1>2, <2>3, OthersStay DEF Holds, InPhase
  <2> QED
    BY <1>2, <2>1, <2>2, <2>3, LockChanges
<1>3. CASE Tick \/ UNCHANGED vars
  BY <1>1, <1>3 DEF Tick, vars, Holds, InPhase
<1> QED
  BY <1>2, <1>3, ProcessStepOrTick

\* Only a writer between its locking statement and the end of its transaction holds a row, in
\* any number of processes: no read, and no process that is gone, keeps another one waiting.
THEOREM LocksHeldByWriters == Spec => []LocksAreHeldByWriters
BY TypeInit, TypeStep, OperationsInit, OperationsStep, LocksInit, LocksStep, PTL DEF Spec
-------------------------------------------------------------------------------
\* No commit is later than now, and a transaction that is open began no earlier than the last
\* commit of its process: began is set anew by the first statement after it.
CommitsInOrder ==
  \A i \in Incidents : rows[i] # NoRow =>
    /\ rows[i].at <= now
    /\ conn[rows[i].writer] = "open" => rows[i].at <= began[rows[i].writer]

LEMMA CommitsInit == Init => CommitsInOrder
BY DEF Init, CommitsInOrder

\* What the commit of v writes into row i.
LEMMA WrittenRow ==
  ASSUME TypeOK, NEW v \in Workers, Commit(v) \/ CommitUnacknowledged(v), NEW i \in Incidents,
         rows'[i] # rows[i]
  PROVE  /\ rows'[i] = [stamp |-> began[v], at |-> now, writer |-> v]
         /\ conn'[v] # "open"
BY DEF Commit, CommitUnacknowledged, Written, Leaves, TypeOK

\* A transaction goes on with the time it began at, or begins now.
LEMMA OpenTransaction ==
  ASSUME TypeOK, NEW v \in Workers, ProcessStep(v), conn'[v] = "open"
  PROVE  \/ conn[v] = "open" /\ began'[v] = began[v]
         \/ began'[v] = now
<1>1. ASSUME NEW state \in {"idle", "lost", "closed", "down"}, Leaves(v, state)
      PROVE  FALSE
  BY <1>1 DEF Leaves, TypeOK
<1>2. CASE InTransaction(v)
  BY <1>2 DEF InTransaction, Usable, TypeOK
<1>3. CASE UNCHANGED <<conn, began>>
  BY <1>3
<1>4. CASE conn' = [conn EXCEPT ![v] = "aborted"] \/ conn' = [conn EXCEPT ![v] = "idle"]
           \/ conn' = [conn EXCEPT ![v] = "down"]
  BY <1>4 DEF TypeOK
<1> QED
  BY <1>1, <1>2, <1>3, <1>4
     DEF ProcessStep, OperationStep, Select, SelectForWrite, Write, InsertConflicts,
         StatementRefused, StatementFails, ConnectionRefuses, Commit, CommitUnacknowledged,
         Rollback, Return, Begin, Start, Stop, Exit, ConnectionLost, Die

LEMMA CommitsStep == TypeOK /\ CommitsInOrder /\ [Next]_vars => CommitsInOrder'
<1> SUFFICES ASSUME TypeOK, CommitsInOrder, [Next]_vars,
                    NEW i \in Incidents, rows'[i] # NoRow
             PROVE  /\ rows'[i].at <= now'
                    /\ conn'[rows'[i].writer] = "open" => rows'[i].at <= began'[rows'[i].writer]
  BY DEF CommitsInOrder
<1>0. now \in Nat /\ (rows[i] # NoRow => rows[i] \in Row /\ rows[i].at \in Nat)
  BY ConnectionAssumption DEF TypeOK, Row, Time
<1>1. ASSUME NEW v \in Workers, ProcessStep(v)
      PROVE  /\ rows'[i].at <= now'
             /\ conn'[rows'[i].writer] = "open" => rows'[i].at <= began'[rows'[i].writer]
  <2>1. now' = now
    BY <1>1 DEF ProcessStep, OperationStep, Select, SelectForWrite, Write, InsertConflicts,
         StatementRefused, StatementFails, ConnectionRefuses, Commit, CommitUnacknowledged,
         Rollback, Return, Begin, Start, Stop, Exit, ConnectionLost, Die
  <2>2. CASE rows'[i] # rows[i]
    <3>1. Commit(v) \/ CommitUnacknowledged(v)
      BY <1>1, <2>2, RowsChange
    <3>2. rows'[i] = [stamp |-> began[v], at |-> now, writer |-> v] /\ conn'[v] # "open"
      BY <2>2, <3>1, WrittenRow
    <3>3. rows'[i].at = now /\ rows'[i].writer = v
      BY <3>2
    <3> QED
      BY <1>0, <2>1, <3>2, <3>3
  <2>3. CASE rows'[i] = rows[i]
    <3>1. rows[i].at <= now /\ rows[i].writer \in Workers
      BY <1>0, <2>3 DEF CommitsInOrder, Row
    <3>2. CASE rows[i].writer = v
      <4>1. conn[v] = "open" => rows[i].at <= began[v]
        BY <2>3, <3>2 DEF CommitsInOrder
      <4>2. conn'[v] = "open" => rows[i].at <= began'[v]
        BY <1>1, <3>1, <4>1, OpenTransaction
      <4> QED
        BY <2>1, <2>3, <3>1, <3>2, <4>2
    <3>3. CASE rows[i].writer # v
      BY <1>1, <2>1, <2>3, <3>1, <3>3, OthersStay DEF CommitsInOrder
    <3> QED
      BY <3>2, <3>3
  <2> QED
    BY <2>2, <2>3
<1>2. CASE Tick
  BY <1>0, <1>2 DEF Tick, CommitsInOrder
<1>3. CASE UNCHANGED vars
  BY <1>3 DEF vars, CommitsInOrder
<1> QED
  BY <1>1, <1>2, <1>3, ProcessStepOrTick

StampFollows(i) ==
  rows[i] # NoRow /\ rows'[i] # rows[i] /\ rows'[i].writer = rows[i].writer =>
    rows'[i].stamp >= rows[i].at

LEMMA StampsStep ==
  TypeOK /\ OperationsInv /\ CommitsInOrder /\ [Next]_vars =>
    [\A i \in Incidents : StampFollows(i)]_vars
<1> SUFFICES ASSUME TypeOK, OperationsInv, CommitsInOrder, [Next]_vars, NEW i \in Incidents,
                    rows[i] # NoRow, rows'[i] # rows[i], rows'[i].writer = rows[i].writer
             PROVE  rows'[i].stamp >= rows[i].at
  BY DEF StampFollows
<1>1. PICK v \in Workers : ProcessStep(v)
  BY ProcessStepOrTick DEF Tick, vars
<1>2. Commit(v) \/ CommitUnacknowledged(v)
  BY <1>1, RowsChange
<1>3. rows'[i].stamp = began[v] /\ rows[i].writer = v
  <2>1. rows'[i] = [stamp |-> began[v], at |-> now, writer |-> v]
    BY <1>2, WrittenRow
  <2>2. rows'[i].writer = v
    BY <2>1
  <2> QED
    BY <2>1, <2>2
<1>4. conn[v] = "open"
  BY <1>2 DEF OperationsInv, OperationInv, Commit, CommitUnacknowledged, InPhase, Usable
<1>5. began[v] \in Nat /\ rows[i].at \in Nat
  BY ConnectionAssumption DEF TypeOK, Row, Time
<1> QED
  BY <1>3, <1>4, <1>5 DEF CommitsInOrder

\* A process never stamps a row with a time before its last write of it committed, although
\* NOW() is the time of whatever statement began its transaction.
THEOREM StampsInOrder == Spec => StampsFollowCommits
<1>1. [\A i \in Incidents : StampFollows(i)]_vars =>
        [\A i \in Incidents :
           rows[i] # NoRow /\ rows'[i] # rows[i] /\ rows'[i].writer = rows[i].writer =>
             rows'[i].stamp >= rows[i].at]_vars
  BY DEF StampFollows
<1>2. Spec => [][\A i \in Incidents :
           rows[i] # NoRow /\ rows'[i] # rows[i] /\ rows'[i].writer = rows[i].writer =>
             rows'[i].stamp >= rows[i].at]_vars
  BY <1>1, TypeInit, TypeStep, OperationsInit, OperationsStep, CommitsInit, CommitsStep,
     StampsStep, PTL DEF Spec
<1> QED
  BY <1>2 DEF StampsFollowCommits
===============================================================================
