-------------------------------- MODULE Chain ------------------------------
(***************************************************************************)
(* An agent whose collector is a Proxy: two durable queues, one behind the *)
(* other.  What the agent takes for the server that records its            *)
(* observations (AgentDelivery) is then the Proxy, of which this module    *)
(* knows the promise of EventDelivery, which ProxyForwarder implements:    *)
(* what the Proxy has answered with 202 is what it has committed to.  The  *)
(* two together promise the same towards Main.                             *)
(***************************************************************************)
EXTENDS AgentDelivery

VARIABLES
    forwarding,  \* observations in the Proxy's table
    stored       \* observations Main has stored

Proxy == INSTANCE EventDelivery WITH
    Events <- Events,
    committed <- recorded,
    recorded <- stored,
    kept <- forwarding

Whole == INSTANCE EventDelivery WITH
    Events <- Events,
    committed <- accepted,
    recorded <- stored,
    kept <- queued \union forwarding

\* The agent and the Proxy are two processes with a database each: a step
\* changes the rows of one.  The Proxy's commit is both its own step and the
\* agent's record.
OneDatabaseAtATime ==
    [][\/ UNCHANGED <<accepted, queued>>
       \/ UNCHANGED <<forwarding, stored>>]_<<accepted, queued, forwarding, stored>>

Chained == Safety /\ Proxy!Spec /\ OneDatabaseAtATime

----------------------------------------------------------------------------
(* Properties *)

\* An observation the agent accepted is in one of the two queues or stored by
\* Main (ARCHITECTURE.md:69).
NothingLostOnTheWay == accepted \subseteq queued \union forwarding \union stored

\* The two queues in series implement one.
ImplementsOneQueue == Whole!Spec
=============================================================================
