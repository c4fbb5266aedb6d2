---------------------------- MODULE MCAlarmStore ----------------------------
(* Model values for the run of AlarmStore. *)
EXTENDS AlarmStore

=============================================================================
