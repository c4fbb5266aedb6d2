-------------------------- MODULE MCConnectionPool --------------------------
(* Model values for the run of ConnectionPool. *)
EXTENDS ConnectionPool

=============================================================================
