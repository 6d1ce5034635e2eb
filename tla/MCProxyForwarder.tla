-------------------------- MODULE MCProxyForwarder -------------------------
(***************************************************************************)
(* Model values for ProxyForwarder.                                        *)
(***************************************************************************)
EXTENDS ProxyForwarder

CONSTANTS o1, o2, a1

TwoObservations == {o1, o2}
OneObservation == {o1}
OneAgent == {a1}
FirstIsPoison == {o1}
=============================================================================
