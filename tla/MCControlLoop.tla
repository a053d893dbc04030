---------------------------- MODULE MCControlLoop ----------------------------
(* ControlLoop with deadlines in the proportions of phase_deadline.        *)
EXTENDS ControlLoop

MCDeadline ==
  [p \in Phases |-> IF p \in {"io_apply", "events"} THEN 1 ELSE 2]

(* Deadlines no phase reaches, for the runs that are not about phases.     *)
MCLoose == [p \in Phases |-> Horizon]
=============================================================================
