-------------------------- MODULE MCAgentDelivery --------------------------
(***************************************************************************)
(* Model values for AgentDelivery.                                         *)
(***************************************************************************)
EXTENDS AgentDelivery

\* The oldest observation is the one the server rejects, so it is always in
\* front of the others.
OldestIsPoison == {1}
=============================================================================
