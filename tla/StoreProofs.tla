------------------------------ MODULE StoreProofs ------------------------------
(***************************************************************************)
(* The operations of PgConnection implement AtomicStore, for any number of *)
(* processes and rows, whatever fails: an operation is one step on its     *)
(* row, although its statements run between those of other processes.      *)
(***************************************************************************)
EXTENDS ConnectionProofs

\* What a write in progress relies on: the row is its own until it commits, and is there, or
\* is not, as it was when the operation looked.
WriteInv(w) ==
  op[w] # Idle =>
    /\ op[w].phase = "commit" /\ conn[w] = "open" =>
         /\ lock[op[w].item] = w
         /\ op[w].kind = "create" => rows[op[w].item] = NoRow
    /\ op[w].kind = "modify" /\ op[w].phase \in {"lock", "commit"} =>
         rows[op[w].item] # NoRow

WritesInv == \A w \in Workers : WriteInv(w)

\* No process frees a row that another one has locked.
LEMMA LockKept ==
  ASSUME TypeOK, NEW v \in Workers, NEW w \in Workers, v # w, ProcessStep(v),
         NEW i \in Incidents, lock[i] = w
  PROVE  lock'[i] = w
<1>1. ASSUME NEW state \in Connection, Leaves(v, state)
      PROVE  lock'[i] = w
  BY <1>1 DEF Leaves
<1>2. CASE Write(v)
  BY <1>2, ConnectionAssumption DEF Write, TypeOK
<1>3. CASE ~Write(v)
  BY <1>1, <1>3
     DEF ProcessStep, OperationStep, Select, SelectForWrite, InsertConflicts, StatementRefused,
         StatementFails, ConnectionRefuses, Commit, CommitUnacknowledged, Rollback, Return, Begin,
         Start, Stop, Exit, ConnectionLost, Die, Connection
<1> QED
  BY <1>2, <1>3

\* Who commits has locked the row and commits the one it was asked for.
LEMMA CommitsLocked ==
  ASSUME TypeOK, NEW v \in Workers, OperationInv(v), WriteInv(v),
         Commit(v) \/ CommitUnacknowledged(v)
  PROVE  /\ op[v] # Idle /\ op[v].phase = "commit" /\ conn[v] = "open"
         /\ lock[op[v].item] = v
         /\ op[v].kind \in {"modify", "create"}
         /\ rows[op[v].item] = NoRow <=> op[v].kind = "create"
         /\ rows' = [rows EXCEPT ![op[v].item] =
                       [stamp |-> began[v], at |-> now, writer |-> v]]
<1>1. op[v] # Idle /\ op[v].phase = "commit" /\ conn[v] = "open"
  BY DEF Commit, CommitUnacknowledged, InPhase, Usable, OperationInv
<1>2. op[v].kind \in {"modify", "create"}
  BY <1>1, Running DEF OperationInv, Operation, Kinds
<1> QED
  BY <1>1, <1>2 DEF WriteInv, Commit, CommitUnacknowledged, Written

LEMMA OthersWriteInv ==
  ASSUME TypeOK, NEW v \in Workers, NEW w \in Workers, v # w, ProcessStep(v),
         OperationInv(v), WriteInv(v), WriteInv(w)
  PROVE  WriteInv(w)'
<1> SUFFICES ASSUME op[w] # Idle
             PROVE  WriteInv(w)'
  BY OthersStay DEF WriteInv
<1>1. op'[w] = op[w] /\ conn'[w] = conn[w]
  BY OthersStay
<1>2. op[w].item \in Incidents
  BY Running
<1>3. rows[op[w].item] # NoRow => rows'[op[w].item] # NoRow
  BY <1>2, RowsStay
<1>4. lock[op[w].item] = w => lock'[op[w].item] = w /\ rows'[op[w].item] = rows[op[w].item]
  <2> SUFFICES ASSUME lock[op[w].item] = w
               PROVE  lock'[op[w].item] = w /\ rows'[op[w].item] = rows[op[w].item]
    OBVIOUS
  <2>1. lock'[op[w].item] = w
    BY <1>2, LockKept
  <2>2. CASE Commit(v) \/ CommitUnacknowledged(v)
    <3>1. /\ lock[op[v].item] = v
          /\ rows' = [rows EXCEPT ![op[v].item] =
                        [stamp |-> began[v], at |-> now, writer |-> v]]
      BY <2>2, CommitsLocked
    <3>2. op[v].item # op[w].item
      BY <3>1
    <3> QED
      BY <1>2, <2>1, <3>1, <3>2 DEF TypeOK
  <2> QED
    BY <2>1, <2>2, RowsChange
<1> QED
  BY <1>1, <1>3, <1>4 DEF WriteInv

LEMMA OwnWriteInv ==
  ASSUME TypeOK, NEW w \in Workers, ProcessStep(w), OperationInv(w), WriteInv(w)
  PROVE  WriteInv(w)'
<1> USE DEF WriteInv
<1>1. CASE Write(w)
  <2>1. op[w] # Idle /\ op[w] \in Operation
    BY <1>1, Running DEF Write, InPhase
  <2>2. op'[w] = [op[w] EXCEPT !.phase = "commit"] /\ UNCHANGED rows
    BY <1>1 DEF Write, Moves, TypeOK
  <2>3. op'[w].kind = op[w].kind /\ op'[w].item = op[w].item
    BY <2>1, <2>2 DEF Operation
  <2>4. lock'[op[w].item] = w
    BY <1>1, <2>1, Running DEF Write, TypeOK
  <2>5. /\ op[w].kind = "create" => rows[op[w].item] = NoRow
        /\ op[w].kind = "modify" => rows[op[w].item] # NoRow
    BY <1>1, <2>1 DEF Write, InPhase, OperationInv
  <2> QED
    BY <2>2, <2>3, <2>4, <2>5
<1>2. CASE SelectForWrite(w)
  <2>1. op[w] # Idle /\ op[w] \in Operation /\ op[w].kind = "modify" /\ UNCHANGED rows
    BY <1>2, Running DEF SelectForWrite, InPhase
  <2>2. CASE rows[op[w].item] # NoRow /\ Moves(w, "lock")
    <3>1. op'[w] = [op[w] EXCEPT !.phase = "lock"]
      BY <2>2 DEF Moves, TypeOK
    <3>2. op'[w].item = op[w].item /\ op'[w].phase = "lock"
      BY <2>1, <3>1 DEF Operation
    <3> QED
      BY <2>1, <2>2, <3>2
  <2>3. CASE Ends(w, "refused")
    <3>1. op'[w].phase = "done"
      BY <2>1, <2>3 DEF Ends, TypeOK, Operation
    <3> QED
      BY <3>1
  <2> QED
    BY <1>2, <2>2, <2>3 DEF SelectForWrite
<1>3. CASE ConnectionRefuses(w) \/ Rollback(w)
  <2>1. op[w] # Idle /\ Raised(w)
    BY <1>3 DEF ConnectionRefuses, Rollback, InPhase
  <2>2. op'[w].phase \in {"insert", "done"}
    BY <2>1, RaisedEffect
  <2> QED
    BY <2>2
<1>4. CASE StatementRefused(w) \/ StatementFails(w)
  <2>1. PICK operation \in Operation : AfterFailure(w, operation)
    BY <1>4, Running, StruckType DEF StatementRefused, StatementFails
  <2>2. op'[w].phase \in {"done", "rollback"}
    BY <2>1 DEF AfterFailure, TypeOK, Operation
  <2> QED
    BY <2>2
<1>5. CASE Select(w) \/ InsertConflicts(w) \/ Commit(w)
  <2>1. op[w] # Idle /\ op[w] \in Operation
    BY <1>5, Running DEF Select, InsertConflicts, Commit, InPhase
  <2>2. op'[w].phase \in {"done", "rollback"}
    BY <1>5, <2>1 DEF Select, InsertConflicts, Commit, Ends, Moves, TypeOK, Operation
  <2> QED
    BY <2>2
<1>6. CASE CommitUnacknowledged(w)
  <2>1. op[w] # Idle /\ op[w] \in Operation
    BY <1>6, Running DEF CommitUnacknowledged, InPhase
  <2>2. conn'[w] = "lost" /\ op'[w] = [op[w] EXCEPT !.faulted = TRUE]
    BY <1>6 DEF CommitUnacknowledged, Leaves, TypeOK
  <2>3. op'[w].kind = op[w].kind /\ op'[w].item = op[w].item
    BY <2>1, <2>2 DEF Operation
  <2>4. rows[op[w].item] # NoRow => rows'[op[w].item] # NoRow
    BY <1>6, <2>1, RowsStay, Running
  <2>5. op[w].kind = "modify" => rows[op[w].item] # NoRow
    BY <1>6, CommitsLocked
  <2> QED
    BY <2>2, <2>3, <2>4, <2>5
<1>7. CASE Begin(w)
  <2>1. PICK kind \in Kinds, i \in Incidents :
          op'[w] = [kind |-> kind, item |-> i, attempt |-> 1, result |-> "none",
                    faulted |-> FALSE, phase |-> IF kind = "create" THEN "insert" ELSE "select"]
    BY <1>7 DEF Begin, TypeOK
  <2> QED
    BY <2>1
<1>8. CASE Return(w) \/ Die(w) \/ Stop(w) \/ Exit(w)
  <2>1. op'[w] = Idle
    BY <1>8 DEF Return, Die, Stop, Exit, TypeOK
  <2> QED
    BY <2>1
<1>9. CASE Start(w)
  BY <1>9 DEF Start, OperationInv
<1>10. CASE ConnectionLost(w)
  <2>1. conn'[w] = "lost" /\ UNCHANGED rows
    BY <1>10 DEF ConnectionLost, Leaves, TypeOK
  <2>2. CASE op[w] = Idle \/ InPhase(w, "done")
    BY <1>10, <2>1, <2>2 DEF ConnectionLost
  <2>3. CASE ~(op[w] = Idle \/ InPhase(w, "done"))
    <3>1. op[w] # Idle /\ op[w] \in Operation /\ op'[w] = [op[w] EXCEPT !.faulted = TRUE]
      BY <1>10, <2>3, Running DEF ConnectionLost, TypeOK
    <3>2. op'[w].kind = op[w].kind /\ op'[w].item = op[w].item /\ op'[w].phase = op[w].phase
      BY <3>1 DEF Operation
    <3> QED
      BY <2>1, <3>1, <3>2
  <2> QED
    BY <2>2, <2>3
<1> QED
  BY <1>1, <1>2, <1>3, <1>4, <1>5, <1>6, <1>7, <1>8, <1>9, <1>10 DEF ProcessStep, OperationStep

LEMMA WritesInit == Init => WritesInv
BY DEF Init, WritesInv, WriteInv

LEMMA WritesStep == TypeOK /\ OperationsInv /\ WritesInv /\ [Next]_vars => WritesInv'
<1> SUFFICES ASSUME TypeOK, OperationsInv, WritesInv, [Next]_vars, NEW w \in Workers
             PROVE  WriteInv(w)'
  BY DEF WritesInv
<1>1. CASE \E v \in Workers : ProcessStep(v)
  BY <1>1, OwnWriteInv, OthersWriteInv DEF OperationsInv, WritesInv
<1>2. CASE Tick \/ UNCHANGED vars
  <2>1. UNCHANGED <<conn, lock, rows, op>>
    BY <1>2 DEF Tick, vars
  <2> QED
    BY <2>1 DEF WritesInv, WriteInv
<1> QED
  BY <1>1, <1>2, ProcessStepOrTick
-------------------------------------------------------------------------------
\* What others have asked for, a step leaves as it is.
LEMMA AsksChange ==
  ASSUME TypeOK, NEW v \in Workers, ProcessStep(v)
  PROVE  Asks' = [Asks EXCEPT ![v] = Ask(v)']
<1>1. \A w \in Workers : w # v => Ask(w)' = Ask(w)
  BY OthersStay DEF Ask, Outcome, InPhase
<1> QED
  BY <1>1 DEF Asks

\* The record that stands for the operation of v.
LEMMA AskOf ==
  ASSUME TypeOK, NEW v \in Workers
  PROVE  /\ Asks[v] = Ask(v)
         /\ op[v] = Idle <=> Ask(v) = Idle
         /\ op[v] # Idle =>
              /\ Ask(v).kind = op[v].kind /\ Ask(v).item = op[v].item
              /\ Ask(v).answer = Outcome(v)
<1>1. ASSUME op[v] # Idle
      PROVE  Idle # [kind |-> op[v].kind, item |-> op[v].item, answer |-> Outcome(v)]
  <2>1. /\ op[v].kind \in Kinds /\ op[v].item \in Incidents
        /\ Outcome(v) \in Results \union {"unsure"}
    BY <1>1, Running DEF Operation, Outcome, Results
  <2> QED
    BY <2>1, ConnectionAssumption
<1> QED
  BY <1>1 DEF Asks, Ask

\* A step that changes nothing of the operation but what has come of it.
LEMMA AnswersAs ==
  ASSUME TypeOK, NEW v \in Workers, ProcessStep(v), op[v] # Idle, op'[v] # Idle,
         op'[v].kind = op[v].kind, op'[v].item = op[v].item
  PROVE  Asks' = [Asks EXCEPT ![v].answer = Outcome(v)']
<1>1. Ask(v) = [kind |-> op[v].kind, item |-> op[v].item, answer |-> Outcome(v)]
  BY DEF Ask
<1>2. Ask(v)' = [kind |-> op[v].kind, item |-> op[v].item, answer |-> Outcome(v)']
  BY DEF Ask
<1>3. Asks[v] = Ask(v)
  BY DEF Asks
<1>4. Ask(v)' = [Asks[v] EXCEPT !.answer = Outcome(v)']
  BY <1>1, <1>2, <1>3
<1>5. Asks' = [Asks EXCEPT ![v] = Ask(v)']
  BY AsksChange
<1> QED
  BY <1>4, <1>5

\* Nothing has come of it: the abstract store does not move.
LEMMA AsksStay ==
  ASSUME TypeOK, NEW v \in Workers, ProcessStep(v), op[v] # Idle, op'[v] # Idle,
         op'[v].kind = op[v].kind, op'[v].item = op[v].item, Outcome(v)' = Outcome(v)
  PROVE  Asks' = Asks
<1>1. Ask(v)' = Ask(v)
  BY DEF Ask
<1>2. Asks' = [Asks EXCEPT ![v] = Ask(v)]
  BY <1>1, AsksChange
<1> QED
  BY <1>2 DEF Asks

\* An operation that raises goes on, or ends with the error that its caller sees.
LEMMA RaisedImplements ==
  ASSUME TypeOK, NEW w \in Workers, ProcessStep(w), op[w] # Idle, op[w].phase # "done",
         Raised(w), UNCHANGED rows, conn'[w] = "lost" <=> conn[w] = "lost"
  PROVE  Store!Fail(w) \/ Asks' = Asks
<1>1. /\ op'[w] # Idle
      /\ op'[w].kind = op[w].kind /\ op'[w].item = op[w].item
      /\ op'[w].faulted = op[w].faulted
  BY RaisedEffect
<1>2. CASE op'[w].phase = "insert"
  <2>1. Outcome(w)' = Outcome(w)
    BY <1>1, <1>2 DEF Outcome, InPhase
  <2> QED
    BY <1>1, <2>1, AsksStay
<1>3. CASE op'[w].phase = "done"
  <2>1. op'[w].result = "error"
    BY <1>3, Running DEF Raised, Retried, Ends, TypeOK, Operation
  <2>2. Asks' = [Asks EXCEPT ![w].answer = "error"]
    BY <1>1, <1>3, <2>1, AnswersAs DEF Outcome, InPhase
  <2>3. Outcome(w) \in {"none", "unsure"}
    BY DEF Outcome, InPhase
  <2> QED
    BY <2>2, <2>3, AskOf DEF Store!Fail, Store!Answered
<1> QED
  BY <1>2, <1>3, RaisedEffect

\* A step that says nothing to the caller of w: its operation goes on.
Silent(w) ==
  /\ op[w] # Idle /\ op'[w] # Idle
  /\ op'[w].kind = op[w].kind /\ op'[w].item = op[w].item
  /\ UNCHANGED rows
  /\ Outcome(w)' = Outcome(w)

LEMMA SilentStutters ==
  ASSUME TypeOK, NEW w \in Workers, ProcessStep(w), Silent(w)
  PROVE  UNCHANGED <<rows, Asks>>
BY AsksStay DEF Silent

LEMMA StatementImplements ==
  ASSUME TypeOK, NEW w \in Workers, OperationInv(w),
         Select(w) \/ SelectForWrite(w) \/ Write(w) \/ InsertConflicts(w)
  PROVE  Silent(w) \/ Store!Read(w) \/ Store!Refuse(w)
<1>1. op[w] # Idle /\ op[w] \in Operation /\ op[w].phase # "done" /\ conn[w] # "lost"
  BY Running DEF Select, SelectForWrite, Write, InsertConflicts, InPhase, Usable, InTransaction
<1>2. Outcome(w) = "none" /\ UNCHANGED rows /\ ProcessStep(w)
  BY <1>1 DEF Outcome, InPhase, Select, SelectForWrite, Write, InsertConflicts, ProcessStep,
              OperationStep
<1>3. conn'[w] \in {"open", "aborted"}
  BY DEF Select, SelectForWrite, Write, InsertConflicts, InTransaction, TypeOK
<1>4. ASSUME NEW phase \in {"lock", "commit", "rollback"}, Moves(w, phase)
      PROVE  Silent(w)
  <2>1. op'[w] = [op[w] EXCEPT !.phase = phase]
    BY <1>4 DEF Moves, TypeOK
  <2>2. op'[w] \in Operation /\ op'[w].phase # "done"
        /\ op'[w].kind = op[w].kind /\ op'[w].item = op[w].item
    BY <1>1, <2>1 DEF Operation
  <2> QED
    BY <1>1, <1>2, <1>3, <2>2, ConnectionAssumption DEF Silent, Outcome, InPhase
<1>5. ASSUME NEW result \in {"ok", "refused"}, Ends(w, result)
      PROVE  Asks' = [Asks EXCEPT ![w].answer = result]
  <2>1. op'[w] = [op[w] EXCEPT !.phase = "done", !.result = result]
    BY <1>5 DEF Ends, TypeOK
  <2>2. op'[w] \in Operation /\ op'[w].phase = "done" /\ op'[w].result = result
        /\ op'[w].kind = op[w].kind /\ op'[w].item = op[w].item
    BY <1>1, <2>1 DEF Operation, Results
  <2>3. op'[w] # Idle /\ Outcome(w)' = result
    BY <2>2, ConnectionAssumption DEF Outcome, InPhase
  <2> QED
    BY <1>1, <1>2, <2>2, <2>3, AnswersAs
<1>6. Asks[w] # Idle /\ Asks[w].answer = "none" /\ Asks[w].kind = op[w].kind
  BY <1>1, <1>2, AskOf
<1>7. CASE Select(w)
  BY <1>2, <1>5, <1>6, <1>7 DEF Select, Store!Read, Store!Pending, Store!Answered
<1>8. CASE SelectForWrite(w)
  BY <1>2, <1>4, <1>5, <1>6, <1>8
     DEF SelectForWrite, Store!Refuse, Store!Pending, Store!Answered
<1>9. CASE Write(w) \/ InsertConflicts(w)
  BY <1>4, <1>9 DEF Write, InsertConflicts
<1> QED
  BY <1>7, <1>8, <1>9

\* A failure is an error for the caller of a read, and for the others if the operation raises;
\* before that they roll back.
LEMMA FailureImplements ==
  ASSUME TypeOK, NEW w \in Workers, OperationInv(w),
         StatementRefused(w) \/ StatementFails(w) \/ ConnectionRefuses(w) \/ Rollback(w)
  PROVE  Store!Fail(w) \/ UNCHANGED <<rows, Asks>>
<1>1. op[w] # Idle /\ op[w] \in Operation /\ op[w].phase # "done"
  BY Running DEF StatementRefused, StatementFails, ConnectionRefuses, Rollback, InPhase
<1>2. UNCHANGED rows /\ ProcessStep(w)
  BY DEF StatementRefused, StatementFails, ConnectionRefuses, Rollback, ProcessStep,
         OperationStep
<1>3. CASE ConnectionRefuses(w) \/ Rollback(w)
  <2>1. conn'[w] = "lost" <=> conn[w] = "lost"
    BY <1>3 DEF ConnectionRefuses, Rollback, Leaves, TypeOK
  <2>2. Raised(w)
    BY <1>3 DEF ConnectionRefuses, Rollback
  <2> QED
    BY <1>1, <1>2, <2>1, <2>2, RaisedImplements
<1>4. CASE StatementRefused(w) \/ StatementFails(w)
  <2>1. conn[w] # "lost" /\ conn'[w] = "aborted"
    BY <1>4 DEF StatementRefused, StatementFails, Usable, TypeOK
  <2>2. PICK operation \in Operation :
          /\ AfterFailure(w, operation)
          /\ operation.kind = op[w].kind /\ operation.item = op[w].item
          /\ operation.phase = op[w].phase
    <3>1. CASE StatementRefused(w)
      BY <1>1, <3>1 DEF StatementRefused
    <3>2. CASE StatementFails(w)
      <4>1. [op[w] EXCEPT !.faulted = TRUE] \in Operation
        BY <1>1, StruckType
      <4>2. /\ [op[w] EXCEPT !.faulted = TRUE].kind = op[w].kind
            /\ [op[w] EXCEPT !.faulted = TRUE].item = op[w].item
            /\ [op[w] EXCEPT !.faulted = TRUE].phase = op[w].phase
        BY <1>1 DEF Operation
      <4> QED
        BY <3>2, <4>1, <4>2 DEF StatementFails
    <3> QED
      BY <1>4, <3>1, <3>2
  <2>3. CASE operation.phase = "select"
    <3>1. op'[w] = [operation EXCEPT !.phase = "done", !.result = "error"]
      BY <2>2, <2>3 DEF AfterFailure, TypeOK
    <3>2. op'[w] \in Operation /\ op'[w].phase = "done" /\ op'[w].result = "error"
          /\ op'[w].kind = op[w].kind /\ op'[w].item = op[w].item
      BY <2>2, <3>1 DEF Operation, Results
    <3>3. op'[w] # Idle /\ Outcome(w)' = "error"
      BY <3>2, ConnectionAssumption DEF Outcome, InPhase
    <3>4. Asks' = [Asks EXCEPT ![w].answer = "error"]
      BY <1>1, <1>2, <3>2, <3>3, AnswersAs
    <3>5. Asks[w] # Idle /\ Asks[w].answer = "none"
      BY <1>1, <2>1, AskOf DEF Outcome, InPhase
    <3> QED
      BY <1>2, <3>4, <3>5 DEF Store!Fail, Store!Answered
  <2>4. CASE operation.phase # "select"
    <3>1. op'[w] = [operation EXCEPT !.phase = "rollback"]
      BY <2>2, <2>4 DEF AfterFailure, TypeOK
    <3>2. op'[w] \in Operation /\ op'[w].phase = "rollback"
          /\ op'[w].kind = op[w].kind /\ op'[w].item = op[w].item
      BY <2>2, <3>1 DEF Operation
    <3>3. Outcome(w) = "none" /\ Outcome(w)' = "none"
      BY <1>1, <2>1, <3>2 DEF Outcome, InPhase
    <3> QED
      BY <1>1, <1>2, <3>2, <3>3, SilentStutters, ConnectionAssumption DEF Silent
  <2> QED
    BY <2>3, <2>4
<1> QED
  BY <1>3, <1>4

\* The commit is the step on the row, whether or not it is acknowledged.
LEMMA CommitImplements ==
  ASSUME TypeOK, NEW w \in Workers, OperationInv(w), WriteInv(w),
         Commit(w) \/ CommitUnacknowledged(w)
  PROVE  Store!Succeed(w) \/ Store!SucceedUnnoticed(w)
<1>1. op[w] # Idle /\ op[w] \in Operation /\ op[w].phase = "commit" /\ conn[w] = "open"
  BY CommitsLocked, Running
<1>2. ProcessStep(w)
  BY DEF ProcessStep, OperationStep
<1>3. /\ Asks[w] # Idle /\ Asks[w].answer = "none"
      /\ Asks[w].kind = op[w].kind /\ Asks[w].item = op[w].item
  BY <1>1, AskOf DEF Outcome, InPhase
<1>4. Store!TakesEffect(w)
  <2>1. [stamp |-> began[w], at |-> now, writer |-> w] \in Row
    BY DEF TypeOK, Row
  <2>2. /\ op[w].kind \in {"modify", "create"}
        /\ rows[op[w].item] = NoRow <=> op[w].kind = "create"
        /\ rows' = [rows EXCEPT ![op[w].item] = [stamp |-> began[w], at |-> now, writer |-> w]]
    BY CommitsLocked
  <2> QED
    BY <1>3, <2>1, <2>2 DEF Store!TakesEffect, Store!Pending
<1>5. CASE Commit(w)
  <2>1. op'[w] = [op[w] EXCEPT !.phase = "done", !.result = "ok"]
    BY <1>5 DEF Commit, Ends, TypeOK
  <2>2. op'[w] \in Operation /\ op'[w].phase = "done" /\ op'[w].result = "ok"
        /\ op'[w].kind = op[w].kind /\ op'[w].item = op[w].item
    BY <1>1, <2>1 DEF Operation, Results
  <2>3. op'[w] # Idle /\ Outcome(w)' = "ok"
    BY <2>2, ConnectionAssumption DEF Outcome, InPhase
  <2> QED
    BY <1>1, <1>2, <1>4, <2>2, <2>3, AnswersAs DEF Store!Succeed, Store!Answered
<1>6. CASE CommitUnacknowledged(w)
  <2>1. op'[w] = [op[w] EXCEPT !.faulted = TRUE] /\ conn'[w] = "lost"
    BY <1>6 DEF CommitUnacknowledged, Leaves, TypeOK
  <2>2. op'[w] \in Operation /\ op'[w].phase = "commit" /\ op'[w].faulted
        /\ op'[w].kind = op[w].kind /\ op'[w].item = op[w].item
    BY <1>1, <2>1 DEF Operation
  <2>3. op'[w] # Idle /\ Outcome(w)' = "unsure"
    BY <2>1, <2>2, ConnectionAssumption DEF Outcome, InPhase
  <2> QED
    BY <1>1, <1>2, <1>4, <2>2, <2>3, AnswersAs DEF Store!SucceedUnnoticed, Store!Answered
<1> QED
  BY <1>5, <1>6

\* Operations begin and end, processes start, stop and die, and connections break.
LEMMA CallerImplements ==
  ASSUME TypeOK, NEW w \in Workers,
         \/ Begin(w) \/ Return(w) \/ Die(w) \/ ConnectionLost(w)
         \/ Start(w) \/ Stop(w) \/ Exit(w)
  PROVE  \/ Store!Ask(w) \/ Store!Leave(w) \/ Store!Break(w)
         \/ UNCHANGED <<rows, Asks>>
<1>1. UNCHANGED rows /\ ProcessStep(w)
  BY DEF Begin, Return, Die, ConnectionLost, Start, Stop, Exit, ProcessStep, OperationStep
<1>2. Asks' = [Asks EXCEPT ![w] = Ask(w)'] /\ Asks[w] = Ask(w)
  BY <1>1, AsksChange, AskOf
<1>3. ASSUME Ask(w)' = Ask(w)
      PROVE  UNCHANGED <<rows, Asks>>
  BY <1>1, <1>2, <1>3 DEF Asks
<1>4. CASE Begin(w)
  <2>1. op[w] = Idle
    BY <1>4 DEF Begin
  <2>2. PICK kind \in Kinds, i \in Incidents :
          op'[w] = [kind |-> kind, item |-> i, attempt |-> 1, result |-> "none",
                    faulted |-> FALSE, phase |-> IF kind = "create" THEN "insert" ELSE "select"]
    BY <1>4 DEF Begin, TypeOK
  <2>3. op'[w] \in Operation
    BY <2>2, ConnectionAssumption DEF Operation, Results
  <2>4. op'[w] # Idle /\ Outcome(w)' = "none"
    <3>1. op'[w].phase # "done" /\ ~op'[w].faulted
      BY <2>2
    <3> QED
      BY <2>3, <3>1, ConnectionAssumption DEF Outcome, InPhase
  <2>5. Ask(w)' = [kind |-> kind, item |-> i, answer |-> "none"]
    BY <2>2, <2>4 DEF Ask
  <2>6. Asks[w] = Idle
    BY <1>2, <2>1 DEF Ask
  <2> QED
    BY <1>1, <1>2, <2>5, <2>6 DEF Store!Ask, Kinds
<1>5. CASE Return(w) \/ Die(w)
  <2>1. op'[w] = Idle
    BY <1>5 DEF Return, Die, TypeOK
  <2>2. Ask(w)' = Idle
    BY <2>1 DEF Ask
  <2>3. CASE op[w] = Idle
    BY <1>3, <2>2, <2>3 DEF Ask
  <2>4. CASE op[w] # Idle
    BY <1>1, <1>2, <2>2, <2>4, AskOf DEF Store!Leave
  <2> QED
    BY <2>3, <2>4
<1>6. CASE ConnectionLost(w)
  <2>1. conn[w] # "lost" /\ conn'[w] = "lost"
    BY <1>6 DEF ConnectionLost, Leaves, TypeOK
  <2>2. CASE op[w] = Idle \/ InPhase(w, "done")
    BY <1>3, <1>6, <2>2 DEF ConnectionLost, Ask, Outcome, InPhase
  <2>3. CASE op[w] # Idle /\ op[w].phase # "done"
    <3>1. op[w] \in Operation /\ op'[w] = [op[w] EXCEPT !.faulted = TRUE]
      BY <1>6, <2>3, Running DEF ConnectionLost, InPhase, TypeOK
    <3>2. op'[w] \in Operation /\ op'[w].phase # "done" /\ op'[w].faulted
          /\ op'[w].kind = op[w].kind /\ op'[w].item = op[w].item
      BY <2>3, <3>1 DEF Operation
    <3>3. op'[w] # Idle /\ Outcome(w)' = "unsure"
      BY <2>1, <3>2, ConnectionAssumption DEF Outcome, InPhase
    <3>4. Asks' = [Asks EXCEPT ![w].answer = "unsure"]
      BY <1>1, <2>3, <3>2, <3>3, AnswersAs
    <3>5. Asks[w] # Idle /\ Asks[w].answer = "none" /\ Asks[w].kind \in Kinds
      BY <2>1, <2>3, <3>1, AskOf DEF Outcome, InPhase, Operation
    <3> QED
      BY <1>1, <3>4, <3>5 DEF Store!Break, Store!Pending, Store!Answered, Kinds
  <2> QED
    BY <2>2, <2>3 DEF InPhase
<1>7. CASE Start(w) \/ Stop(w) \/ Exit(w)
  <2>1. op' = op /\ (op[w] # Idle => conn[w] = "down" /\ conn'[w] = "idle")
    BY <1>7 DEF Start, Stop, Exit, TypeOK
  <2> QED
    BY <1>3, <2>1 DEF Ask, Outcome, InPhase
<1> QED
  BY <1>4, <1>5, <1>6, <1>7

LEMMA StoreStep ==
  ASSUME TypeOK, OperationsInv, WritesInv, [Next]_vars
  PROVE  [Store!StoreNext]_(Store!storeVars)
<1>1. ASSUME NEW w \in Workers, ProcessStep(w)
      PROVE  Store!StoreNext \/ UNCHANGED <<rows, Asks>>
  <2>0. OperationInv(w) /\ WriteInv(w)
    BY DEF OperationsInv, WritesInv
  <2>1. CASE Select(w) \/ SelectForWrite(w) \/ Write(w) \/ InsertConflicts(w)
    BY <1>1, <2>0, <2>1, StatementImplements, SilentStutters DEF Store!StoreNext
  <2>2. CASE StatementRefused(w) \/ StatementFails(w) \/ ConnectionRefuses(w) \/ Rollback(w)
    BY <2>0, <2>2, FailureImplements DEF Store!StoreNext
  <2>3. CASE Commit(w) \/ CommitUnacknowledged(w)
    BY <2>0, <2>3, CommitImplements DEF Store!StoreNext
  <2>4. CASE \/ Begin(w) \/ Return(w) \/ Die(w) \/ ConnectionLost(w)
             \/ Start(w) \/ Stop(w) \/ Exit(w)
    BY <2>4, CallerImplements DEF Store!StoreNext
  <2> QED
    BY <1>1, <2>1, <2>2, <2>3, <2>4 DEF ProcessStep, OperationStep
<1>2. CASE Tick \/ UNCHANGED vars
  <2>1. UNCHANGED <<conn, rows, op>>
    BY <1>2 DEF Tick, vars
  <2> QED
    BY <2>1 DEF Store!storeVars, Asks, Ask, Outcome, InPhase
<1> QED
  BY <1>1, <1>2, ProcessStepOrTick DEF Store!storeVars

\* Whatever fails and however the processes interleave, an operation of IncidentStore is one
\* step on its row: a create on one that is not there, an update on one that is, each at most
\* once in all its attempts; a success was such a step, and an error was none unless the
\* connection broke under the operation.
THEOREM ImplementsStore == Spec => ImplementsAtomicStore
<1>1. Init => Store!StoreInit
  BY DEF Init, Store!StoreInit, Asks, Ask
<1>2. Spec => Store!StoreSpec
  BY <1>1, TypeInit, TypeStep, OperationsInit, OperationsStep, WritesInit, WritesStep, StoreStep,
     PTL DEF Spec, Store!StoreSpec
<1> QED
  BY <1>2 DEF ImplementsAtomicStore
===============================================================================
