---------------------------- MODULE MCThreadPool ----------------------------
(* Model values for the run of ThreadPool. *)
EXTENDS ThreadPool

=============================================================================
