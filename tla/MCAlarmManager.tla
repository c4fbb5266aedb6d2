--------------------------- MODULE MCAlarmManager ---------------------------
(* Model values and symmetry for the runs of AlarmManager. *)
EXTENDS AlarmManager, TLC

Symmetry == Permutations(Thread)

=============================================================================
