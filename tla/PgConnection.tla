----------------------------- MODULE PgConnection -----------------------------
(***************************************************************************)
(* The one psycopg2 connection of a process (app/main.py), under the       *)
(* operations of IncidentStore (incident_pipeline/db/store.py), with_retry *)
(* (db/retry.py) and the health probe (observability/health.py).           *)
(*                                                                         *)
(* The connection opens at start-up and is never opened again.  It is not  *)
(* in autocommit mode: the first statement begins a transaction, which the *)
(* operations that only read neither commit nor roll back.  A statement    *)
(* that fails leaves the transaction aborted, and PostgreSQL refuses every *)
(* further one until a rollback.  NOW() is the time the transaction began. *)
(*                                                                         *)
(* psycopg2 blocks the event loop, so a process runs one operation at a    *)
(* time; the operations of several processes interleave statement by       *)
(* statement.  Statements of one operation between which nothing can be    *)
(* observed are one action: an UPDATE is part of taking its row's lock.    *)
(* The server ends the session of a lost connection at once.               *)
(***************************************************************************)
EXTENDS Naturals

CONSTANTS
  Workers,    \* the API processes
  Incidents,  \* the contents, each a row or none of the table incidents
  Attempts,   \* with_retry's attempts (3)
  MaxTime,    \* bound: the clock stops here
  MaxFaults,  \* bound: failed statements, lost connections, dead processes
  Idle,       \* the value of a process that runs no operation
  NoRow,      \* the value of an incident that is not in the table
  NoOne       \* the holder of a lock nobody holds

Time == 0 .. MaxTime

\* No connection; no transaction; in one; in one that is aborted; broken without the
\* process having closed it; closed by the end of lifespan.
Connection == {"down", "idle", "open", "aborted", "lost", "closed"}

\* get_by_id, list_all, throughput_timeseries and check_postgres; PATCH and POST .../rca with
\* their read and their write; create.
Kinds == {"read", "modify", "create"}

Results == {"none", "ok", "refused", "error"}

Operation ==
  [kind : Kinds, item : Incidents, attempt : 1 .. Attempts,
   phase : {"select", "lock", "insert", "commit", "rollback", "done"},
   result : Results, faulted : BOOLEAN]

Row == [stamp : Time, at : Time, writer : Workers]

ASSUME ConnectionAssumption ==
  /\ Attempts \in Nat /\ Attempts >= 2
  /\ MaxTime \in Nat
  /\ MaxFaults \in Nat
  /\ Idle \notin Operation
  /\ Idle \notin [kind : Kinds, item : Incidents, answer : Results \union {"unsure"}]
  /\ NoRow \notin Row
  /\ NoOne \notin Workers

VARIABLES
  now,     \* the clock
  conn,    \* Workers -> the state of the connection
  began,   \* Workers -> NOW() of its transaction (0: none)
  lock,    \* Incidents -> the process whose transaction has locked or inserted the row
  rows,    \* Incidents -> updated_at of the row; history: when and by whom it was written
  op,      \* Workers -> the operation it runs, or Idle
  faults   \* faults so far

vars == <<now, conn, began, lock, rows, op, faults>>

TypeOK ==
  /\ now \in Time
  /\ conn \in [Workers -> Connection]
  /\ began \in [Workers -> Time]
  /\ lock \in [Incidents -> Workers \union {NoOne}]
  /\ rows \in [Incidents -> Row \union {NoRow}]
  /\ op \in [Workers -> Operation \union {Idle}]
  /\ faults \in 0 .. MaxFaults

Init ==
  /\ now = 0
  /\ conn = [w \in Workers |-> "down"]
  /\ began = [w \in Workers |-> 0]
  /\ lock = [i \in Incidents |-> NoOne]
  /\ rows = [i \in Incidents |-> NoRow]
  /\ op = [w \in Workers |-> Idle]
  /\ faults = 0

InPhase(w, phase) == op[w] # Idle /\ op[w].phase = phase

Moves(w, phase) == op' = [op EXCEPT ![w].phase = phase]

Ends(w, result) == op' = [op EXCEPT ![w].phase = "done", ![w].result = result]

Usable(w) == conn[w] \in {"idle", "open"}

\* (mutant) The stamp is evaluated once, when the process starts.
InTransactionUndated(w) ==
  /\ Usable(w)
  /\ conn' = [conn EXCEPT ![w] = "open"]
  /\ UNCHANGED began

\* A statement succeeds; the first one begins the transaction.
InTransaction(w) ==
  /\ Usable(w)
  /\ conn' = [conn EXCEPT ![w] = "open"]
  /\ began' = [began EXCEPT ![w] = IF conn[w] = "idle" THEN now ELSE @]

\* (mutant) The locks are kept.
LeavesKeepingLocks(w, state) ==
  /\ conn' = [conn EXCEPT ![w] = state]
  /\ began' = [began EXCEPT ![w] = 0]
  /\ UNCHANGED lock

\* The transaction of w is over, its locks are released, and the connection is in state.
Leaves(w, state) ==
  /\ conn' = [conn EXCEPT ![w] = state]
  /\ began' = [began EXCEPT ![w] = 0]
  /\ lock' = [i \in Incidents |-> IF lock[i] = w THEN NoOne ELSE lock[i]]

\* There is room for one more fault.
Fault == faults < MaxFaults /\ faults' = faults + 1

\* (mutant) One attempt too many.
RetriedPastEnd(w) ==
  IF op[w].attempt <= Attempts
  THEN op' = [op EXCEPT ![w].phase = "insert", ![w].attempt = @ + 1]
  ELSE Ends(w, "error")

\* (mutant) The last attempt is never made.
RetriedTooSeldom(w) ==
  IF op[w].attempt + 1 < Attempts
  THEN op' = [op EXCEPT ![w].phase = "insert", ![w].attempt = @ + 1]
  ELSE Ends(w, "error")

\* with_retry after an exception of create: the INSERT once more, on the same connection, or
\* the exception is raised.
Retried(w) ==
  IF op[w].attempt < Attempts
  THEN op' = [op EXCEPT ![w].phase = "insert", ![w].attempt = @ + 1]
  ELSE Ends(w, "error")

\* An exception leaves the function that talks to the database.
Raised(w) == IF op[w].kind = "create" THEN Retried(w) ELSE Ends(w, "error")
-------------------------------------------------------------------------------
\* lifespan: psycopg2.connect, at start-up only;
Start(w) ==
  /\ conn[w] = "down"
  /\ conn' = [conn EXCEPT ![w] = "idle"]
  /\ UNCHANGED <<now, began, lock, rows, op, faults>>

\* after the last request, db.close(), before the messages still to be handled are drained;
Stop(w) ==
  /\ op[w] = Idle
  /\ conn[w] \notin {"down", "closed"}
  /\ Leaves(w, "closed")
  /\ UNCHANGED <<now, rows, op, faults>>

\* and the process ends.
Exit(w) ==
  /\ op[w] = Idle
  /\ conn[w] = "closed"
  /\ conn' = [conn EXCEPT ![w] = "down"]
  /\ UNCHANGED <<now, began, lock, rows, op, faults>>

\* An operation begins; a closing process has only its consumer left, which creates.
Begin(w) ==
  /\ op[w] = Idle
  /\ conn[w] # "down"
  /\ \E kind \in Kinds, i \in Incidents :
       /\ conn[w] = "closed" => kind = "create"
       /\ op' = [op EXCEPT ![w] =
            [kind |-> kind, item |-> i, attempt |-> 1, result |-> "none", faulted |-> FALSE,
             phase |-> IF kind = "create" THEN "insert" ELSE "select"]]
  /\ UNCHANGED <<now, conn, began, lock, rows, faults>>

\* (mutant) A read that returns leaves the row locked.
SelectLocks(w) ==
  /\ InPhase(w, "select")
  /\ op[w].kind = "read"
  /\ InTransaction(w)
  /\ lock' = [lock EXCEPT ![op[w].item] = w]
  /\ Ends(w, "ok")
  /\ UNCHANGED <<now, rows, faults>>

\* SELECT of a read; nothing ends the transaction it is part of.
Select(w) ==
  /\ InPhase(w, "select")
  /\ op[w].kind = "read"
  /\ InTransaction(w)
  /\ Ends(w, "ok")
  /\ UNCHANGED <<now, lock, rows, faults>>

\* get_by_id of a PATCH or an RCA: the route goes on to write, or answers 404, 400 or 422 ...
SelectForWrite(w) ==
  /\ InPhase(w, "select")
  /\ op[w].kind = "modify"
  /\ InTransaction(w)
  /\ \/ rows[op[w].item] # NoRow /\ Moves(w, "lock")
     \/ Ends(w, "refused")
  /\ UNCHANGED <<now, lock, rows, faults>>

\* (mutant) No statement waits for another transaction.
WriteUnlocked(w) ==
  /\ \/ InPhase(w, "lock")
     \/ InPhase(w, "insert") /\ rows[op[w].item] = NoRow
  /\ InTransaction(w)
  /\ lock' = [lock EXCEPT ![op[w].item] = w]
  /\ Moves(w, "commit")
  /\ UNCHANGED <<now, rows, faults>>

\* ... in the same transaction: SELECT ... FOR UPDATE and the UPDATE.  Or create, its INSERT.
\* Both wait for the process that holds the row: the UNIQUE hash makes an INSERT wait for
\* another's INSERT of the same,
Write(w) ==
  /\ \/ InPhase(w, "lock")
     \/ InPhase(w, "insert") /\ rows[op[w].item] = NoRow
  /\ lock[op[w].item] = NoOne
  /\ InTransaction(w)
  /\ lock' = [lock EXCEPT ![op[w].item] = w]
  /\ Moves(w, "commit")
  /\ UNCHANGED <<now, rows, faults>>

\* and refuse one that is there and that nobody is about to change.
InsertConflicts(w) ==
  /\ InPhase(w, "insert")
  /\ rows[op[w].item] # NoRow
  /\ lock[op[w].item] = NoOne
  /\ Usable(w)
  /\ conn' = [conn EXCEPT ![w] = "aborted"]
  /\ Moves(w, "rollback")
  /\ UNCHANGED <<now, began, lock, rows, faults>>

\* (mutant) No operation rolls back.
AfterFailureRaised(w, operation) ==
  op' = [op EXCEPT ![w] = [operation EXCEPT !.phase = "done", !.result = "error"]]

\* A statement has failed: the writers roll back, the readers only raise.
AfterFailure(w, operation) ==
  op' = [op EXCEPT ![w] =
    IF operation.phase = "select"
    THEN [operation EXCEPT !.phase = "done", !.result = "error"]
    ELSE [operation EXCEPT !.phase = "rollback"]]

\* The transaction is aborted already: the statement is refused.
StatementRefused(w) ==
  /\ op[w] # Idle /\ op[w].phase \in {"select", "insert"}
  /\ conn[w] = "aborted"
  /\ AfterFailure(w, op[w])
  /\ UNCHANGED <<now, conn, began, lock, rows, faults>>

\* PostgreSQL fails the statement, or the commit, and keeps the connection.
StatementFails(w) ==
  /\ op[w] # Idle /\ op[w].phase \in {"select", "lock", "insert", "commit"}
  /\ Usable(w)
  /\ Fault
  /\ conn' = [conn EXCEPT ![w] = "aborted"]
  /\ AfterFailure(w, [op[w] EXCEPT !.faulted = TRUE])
  /\ UNCHANGED <<now, began, lock, rows>>

\* The connection is gone or closed: the statement raises, and so does the rollback.
ConnectionRefuses(w) ==
  /\ op[w] # Idle /\ op[w].phase # "done"
  /\ conn[w] \in {"lost", "closed"}
  /\ Raised(w)
  /\ UNCHANGED <<now, conn, began, lock, rows, faults>>

\* The row of w's operation, written in the transaction that commits now.
Written(w) ==
  rows' = [rows EXCEPT ![op[w].item] = [stamp |-> began[w], at |-> now, writer |-> w]]

\* The commit is acknowledged,
Commit(w) ==
  /\ InPhase(w, "commit")
  /\ Usable(w)
  /\ Written(w)
  /\ Leaves(w, "idle")
  /\ Ends(w, "ok")
  /\ UNCHANGED <<now, faults>>

\* or the connection breaks before the acknowledgement arrives.
CommitUnacknowledged(w) ==
  /\ InPhase(w, "commit")
  /\ Usable(w)
  /\ Fault
  /\ Written(w)
  /\ Leaves(w, "lost")
  /\ op' = [op EXCEPT ![w].faulted = TRUE]
  /\ UNCHANGED now

\* rollback() of the writers, on a connection that still is one.
Rollback(w) ==
  /\ InPhase(w, "rollback")
  /\ conn[w] = "aborted"
  /\ Leaves(w, "idle")
  /\ Raised(w)
  /\ UNCHANGED <<now, rows, faults>>

\* The response, the log line or the answer of the probe.
Return(w) ==
  /\ InPhase(w, "done")
  /\ op' = [op EXCEPT ![w] = Idle]
  /\ UNCHANGED <<now, conn, began, lock, rows, faults>>

\* The server restarts, or the network breaks.
ConnectionLost(w) ==
  /\ conn[w] \in {"idle", "open", "aborted"}
  /\ Fault
  /\ Leaves(w, "lost")
  /\ op' = IF op[w] = Idle \/ InPhase(w, "done") THEN op ELSE [op EXCEPT ![w].faulted = TRUE]
  /\ UNCHANGED <<now, rows>>

\* The process dies.
Die(w) ==
  /\ conn[w] # "down"
  /\ Fault
  /\ Leaves(w, "down")
  /\ op' = [op EXCEPT ![w] = Idle]
  /\ UNCHANGED <<now, rows>>

Tick ==
  /\ now < MaxTime
  /\ now' = now + 1
  /\ UNCHANGED <<conn, began, lock, rows, op, faults>>

OperationStep(w) ==
  \/ Select(w)
  \/ SelectForWrite(w)
  \/ Write(w)
  \/ InsertConflicts(w)
  \/ StatementRefused(w)
  \/ StatementFails(w)
  \/ ConnectionRefuses(w)
  \/ Commit(w)
  \/ CommitUnacknowledged(w)
  \/ Rollback(w)
  \/ Return(w)

Next ==
  \/ Tick
  \/ \E w \in Workers :
       \/ OperationStep(w) \/ Begin(w)
       \/ Start(w) \/ Stop(w) \/ Exit(w) \/ ConnectionLost(w) \/ Die(w)

Spec == Init /\ [][Next]_vars

\* Statements return or raise, and PostgreSQL hands a row's lock to those that wait for it
\* in turn, so that a statement that could run again and again does: strong fairness.
FairSpec == Spec /\ \A w \in Workers : SF_vars(OperationStep(w))
-------------------------------------------------------------------------------
\* The transactions that reads and refused requests leave open lock nothing: a row is locked
\* only between the statement of a writer that locks it and its commit or rollback.
LocksAreHeldByWriters ==
  \A i \in Incidents : lock[i] # NoOne =>
    LET w == lock[i]
    IN /\ InPhase(w, "commit") \/ InPhase(w, "rollback")
       /\ op[w].kind \in {"modify", "create"}
       /\ op[w].item = i
       /\ conn[w] \in {"open", "aborted"}

\* The error of w's operation, which no fault struck; and one that comes from the UNIQUE hash.
Unstruck(w) == InPhase(w, "done") /\ op[w].result = "error" /\ ~op[w].faulted

Conflicts(w) == op[w].kind = "create" /\ rows[op[w].item] # NoRow

\* An operation that no fault struck ends in an error only because the connection it was
\* given is gone or aborted, or because it creates what exists; and the two attempts of a
\* create are enough to get over an aborted one.

ErrorHasCause ==
  \A w \in Workers : Unstruck(w) =>
    \/ Conflicts(w)
    \/ conn[w] \in {"lost", "closed"}
    \/ conn[w] = "aborted" /\ op[w].kind # "create"

\* Whatever a create meets, it leaves no transaction behind, neither open nor aborted: it is
\* what clears the transaction a failed read has left.  A PATCH or an RCA does not, because
\* it begins with a read.
CreateEndsTransaction ==
  \A w \in Workers : InPhase(w, "done") /\ op[w].kind = "create" =>
    conn[w] \notin {"open", "aborted"}

\* A row that a process writes again is stamped no earlier than its last write committed.
\* The stamp itself is the time of whatever read began the transaction, and may be older
\* than the request; between processes stamps may even go backwards.
StampsFollowCommits ==
  [][\A i \in Incidents :
       rows[i] # NoRow /\ rows'[i] # rows[i] /\ rows'[i].writer = rows[i].writer =>
         rows'[i].stamp >= rows[i].at]_vars

\* Every operation ends, or its process dies, however long other processes lock its row.
OperationsEnd == \A w \in Workers : (op[w] # Idle) ~> (op[w] = Idle)

\* What has come of w's operation: nothing yet, an answer, or a connection that broke under it.
Outcome(w) ==
  IF InPhase(w, "done") THEN op[w].result
  ELSE IF op[w].faulted /\ conn[w] = "lost" THEN "unsure"
  ELSE "none"

Ask(w) ==
  IF op[w] = Idle THEN Idle
  ELSE [kind |-> op[w].kind, item |-> op[w].item, answer |-> Outcome(w)]

Asks == [w \in Workers |-> Ask(w)]

\* Statement by statement, between the statements of other processes and whatever fails, an
\* operation takes effect in one step: a row is created once, no retry writes again, a
\* success was a write and an error was none, unless the connection broke.
Store == INSTANCE AtomicStore WITH Versions <- Row, asks <- Asks

ImplementsAtomicStore == Store!StoreSpec

\* Operations that no fault strikes succeed: a transient fault of the database is over with
\* the operation it struck.
SelfHeals == \A w \in Workers : Unstruck(w) => Conflicts(w)
==============================================================================
