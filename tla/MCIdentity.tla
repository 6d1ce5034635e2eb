----------------------------- MODULE MCIdentity ----------------------------
(***************************************************************************)
(* Model values for Identity.                                              *)
(***************************************************************************)
EXTENDS Identity, TLC

CONSTANTS e1, e2, e3, c1, c2, a1, h1, m1, s1

ThreeEvents == {e1, e2, e3}
TwoComputers == {c1, c2}
OneAgent == {a1}
OneHardware == {h1}
OneMedia == {m1}
OneSerial == {s1}

Report(hardware, software, serials, times) ==
    [computer : Computers, hardware : {hardware}, software : {software},
     serials : {serials}, time : times]

\* What tells the rules apart: both hashes, no media hash, no hardware hash.
\* Between them every pair of results occurs: the second and the third have
\* nothing but a serial in common.
TellingFacts ==
    Report(h1, m1, {}, Times) \union Report(h1, NoHash, {s1}, {1})
        \union Report(NoHash, m1, {s1}, {MaxTime})

\* Observations, computers and agents are interchangeable.
Interchangeable ==
    Permutations(EventIds) \union Permutations(Computers) \union Permutations(Hardware)
=============================================================================
