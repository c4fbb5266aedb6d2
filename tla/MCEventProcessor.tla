-------------------------- MODULE MCEventProcessor --------------------------
(* Model values for the runs of EventProcessor. *)
EXTENDS EventProcessor

=============================================================================
