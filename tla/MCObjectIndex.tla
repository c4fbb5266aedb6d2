---------------------------- MODULE MCObjectIndex ----------------------------
(* Model values for the runs of ObjectIndex. *)
EXTENDS ObjectIndex

=============================================================================
