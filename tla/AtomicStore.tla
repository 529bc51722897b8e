----------------------------- MODULE AtomicStore -----------------------------
(***************************************************************************)
(* What IncidentStore promises the routes and the pipeline, without        *)
(* connections, transactions, locks, attempts and the clock: an operation  *)
(* is one step on its row.  A create takes effect on a row that is not     *)
(* there, an update on one that is, each at most once; whoever is told     *)
(* that it succeeded has had it take effect, and an error leaves it open   *)
(* only for an operation whose connection broke under it.                  *)
(***************************************************************************)
CONSTANTS
  Workers,    \* those who call
  Incidents,  \* the rows there may be
  Versions,   \* what a row may hold
  NoRow,      \* the value of a row that is not there
  Idle        \* the value of a caller that waits for nothing

VARIABLES
  rows,  \* Incidents -> a version, or NoRow
  asks   \* Workers -> an operation and the answer to it, or Idle

storeVars == <<rows, asks>>

StoreInit ==
  /\ rows = [i \in Incidents |-> NoRow]
  /\ asks = [w \in Workers |-> Idle]

\* The operation of w, of which nothing has come yet.
Pending(w, kinds) == asks[w] # Idle /\ asks[w].answer = "none" /\ asks[w].kind \in kinds

Answered(w, answer) == asks' = [asks EXCEPT ![w].answer = answer]
-------------------------------------------------------------------------------
Ask(w) ==
  /\ asks[w] = Idle
  /\ \E kind \in {"read", "modify", "create"}, i \in Incidents :
       asks' = [asks EXCEPT ![w] = [kind |-> kind, item |-> i, answer |-> "none"]]
  /\ UNCHANGED rows

\* The step on the row.
TakesEffect(w) ==
  /\ Pending(w, {"modify", "create"})
  /\ rows[asks[w].item] = NoRow <=> asks[w].kind = "create"
  /\ \E version \in Versions : rows' = [rows EXCEPT ![asks[w].item] = version]

\* The caller is told of it,
Succeed(w) == TakesEffect(w) /\ Answered(w, "ok")

\* or its connection breaks,
SucceedUnnoticed(w) == TakesEffect(w) /\ Answered(w, "unsure")

\* as it may before anything has happened: all that is left then is an error.
Break(w) ==
  /\ Pending(w, {"read", "modify", "create"})
  /\ Answered(w, "unsure")
  /\ UNCHANGED rows

\* An error is the end; unless the connection broke, there was no step.
Fail(w) ==
  /\ asks[w] # Idle /\ asks[w].answer \in {"none", "unsure"}
  /\ Answered(w, "error")
  /\ UNCHANGED rows

\* A read, and an update that the route refuses, do nothing to the row.
Read(w) == Pending(w, {"read"}) /\ Answered(w, "ok") /\ UNCHANGED rows

Refuse(w) == Pending(w, {"modify"}) /\ Answered(w, "refused") /\ UNCHANGED rows

\* The caller has its answer, or is gone.
Leave(w) ==
  /\ asks[w] # Idle
  /\ asks' = [asks EXCEPT ![w] = Idle]
  /\ UNCHANGED rows

StoreNext ==
  \E w \in Workers :
    \/ Ask(w)
    \/ Succeed(w) \/ SucceedUnnoticed(w)
    \/ Break(w) \/ Fail(w)
    \/ Read(w) \/ Refuse(w)
    \/ Leave(w)

StoreSpec == StoreInit /\ [][StoreNext]_storeVars
==============================================================================
