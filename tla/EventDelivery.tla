--------------------------- MODULE EventDelivery ---------------------------
(***************************************************************************)
(* What a durable queue on the way to the PIB Server promises, without     *)
(* saying how: an observation that was committed to the queue is recorded  *)
(* at the next station, and the queue lets it go only afterwards.          *)
(*                                                                         *)
(*   FlashControlAgent/build/README.md:76-89                               *)
(*   FlashControlProxy/README.md:5-8                                       *)
(*   ARCHITECTURE.md:69                                                    *)
(*                                                                         *)
(* AgentDelivery and ProxyForwarder implement this specification, and      *)
(* Chain puts one behind the other.                                        *)
(***************************************************************************)

CONSTANT Events   \* the observations that may ever be produced

VARIABLES
    committed,    \* observations the queue has accepted
    recorded,     \* observations the next station has stored
    kept          \* observations the queue still holds

vars == <<committed, recorded, kept>>

Init ==
    /\ committed = {}
    /\ recorded = {}
    /\ kept = {}

\* A payload is accepted as a whole; a sender may repeat what was accepted.
Commit(payload) ==
    /\ committed' = committed \union payload
    /\ kept' = kept \union payload
    /\ UNCHANGED recorded

Record(e) ==
    /\ e \in committed \ recorded
    /\ recorded' = recorded \union {e}
    /\ UNCHANGED <<committed, kept>>

Forget(e) ==
    /\ e \in kept \intersect recorded
    /\ kept' = kept \ {e}
    /\ UNCHANGED <<committed, recorded>>

Next ==
    \/ \E payload \in SUBSET Events : Commit(payload)
    \/ \E e \in Events : Record(e) \/ Forget(e)

Spec == Init /\ [][Next]_vars
=============================================================================
