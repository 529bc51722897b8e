----------------------------- MODULE StateMachine -----------------------------
(***************************************************************************)
(* The incident life cycle as workflow/state_machine.py codes it, twice:   *)
(* as State classes (OpenState ... ClosedState, behind transition_or_raise)*)
(* and as a table (validate_transition).  The close guard is               *)
(* workflow/rca_guard.py.                                                  *)
(***************************************************************************)
LOCAL INSTANCE Naturals

States == {"OPEN", "INVESTIGATING", "RESOLVED", "CLOSED"}

\* RcaGuard.can_close: two texts that are not blank and a verifier.
CanClose(incident) ==
  /\ incident.root_cause.len > 0
  /\ incident.rca_description.len > 0
  /\ incident.rca_verified_by

\* (mutant) ResolvedState without its guard.
AcceptsUnguarded(from, to, incident) ==
  \/ from = "OPEN" /\ to = "INVESTIGATING"
  \/ from = "INVESTIGATING" /\ to = "RESOLVED"
  \/ from = "RESOLVED" /\ to \in {"INVESTIGATING", "CLOSED"}

\* transition_or_raise(from, to, incident) returns; otherwise it raises
\* InvalidTransitionError.  One disjunct per branch of the State classes;
\* ClosedState has none.
Accepts(from, to, incident) ==
  \/ from = "OPEN" /\ to = "INVESTIGATING"
  \/ from = "INVESTIGATING" /\ to = "RESOLVED"
  \/ from = "RESOLVED" /\ to = "INVESTIGATING"
  \/ from = "RESOLVED" /\ to = "CLOSED" /\ CanClose(incident)

\* validate_transition: the table.
Allowed(from) ==
  CASE from = "OPEN" -> {"INVESTIGATING"}
    [] from = "INVESTIGATING" -> {"RESOLVED"}
    [] from = "RESOLVED" -> {"INVESTIGATING", "CLOSED"}
    [] OTHER -> {}

ValidTransition(from, to) == to \in Allowed(from)
==============================================================================
