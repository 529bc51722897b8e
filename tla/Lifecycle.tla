------------------------------ MODULE Lifecycle ------------------------------
(***************************************************************************)
(* What the workflow engine promises of every incident, with no request,   *)
(* transaction or process in it: an incident enters once, moves along the  *)
(* edges of the life cycle one at a time, closes only while a complete RCA *)
(* is attached, and has its RCA replaced without changing state.           *)
(***************************************************************************)
EXTENDS StateMachine

CONSTANT Incidents

Absent == "ABSENT"

VARIABLES
  status,    \* Incidents -> States, or Absent
  complete   \* Incidents -> whether RcaGuard.can_close holds

lifecycleVars == <<status, complete>>

LifecycleTypeOK ==
  /\ status \in [Incidents -> States \union {Absent}]
  /\ complete \in [Incidents -> BOOLEAN]

LifecycleInit ==
  /\ status = [i \in Incidents |-> Absent]
  /\ complete = [i \in Incidents |-> FALSE]

Enter(i) ==
  /\ status[i] = Absent
  /\ \E s \in States : status' = [status EXCEPT ![i] = s]
  /\ \E c \in BOOLEAN : complete' = [complete EXCEPT ![i] = c]

Move(i) ==
  /\ \E s \in Allowed(status[i]) :
       /\ s = "CLOSED" => complete[i]
       /\ status' = [status EXCEPT ![i] = s]
  /\ UNCHANGED complete

Attach(i) ==
  /\ status[i] # Absent
  /\ \E c \in BOOLEAN : complete' = [complete EXCEPT ![i] = c]
  /\ UNCHANGED status

LifecycleNext == \E i \in Incidents : Enter(i) \/ Move(i) \/ Attach(i)

LifecycleSpec == LifecycleInit /\ [][LifecycleNext]_lifecycleVars
==============================================================================
