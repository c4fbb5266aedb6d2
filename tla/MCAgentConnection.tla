------------------------- MODULE MCAgentConnection -------------------------
(* Model values and symmetry for the run of AgentConnection. *)
EXTENDS AgentConnection, TLC

Symmetry == Permutations(Client)

=============================================================================
