----------------------------- MODULE MCIngestTxn --------------------------
(***************************************************************************)
(* Model values for IngestTxn: two computers, one disk.                    *)
(***************************************************************************)
EXTENDS IngestTxn, TLC

CONSTANTS e1, e2, e3, c1, c2, h1, m1

MCEvents == {e1, e2, e3}
MCComputers == {c1, c2}
MCHardware == {h1}
MCSoftware == {m1}

Report(c, software, time) ==
    [computer |-> c, hardware |-> h1, software |-> software, serials |-> {}, time |-> time]

\* One computer reports the disk three times, twice and once without a media
\* hash, or twice while another computer reports it.
MCPayloads ==
    LET new == Report(c1, m1, 2)
        old == Report(c1, m1, 1)
    IN  {e1 :> old @@ e2 :> new @@ e3 :> old,
         e1 :> new @@ e2 :> old @@ e3 :> Report(c1, NoHash, 1),
         e1 :> new @@ e2 :> old @@ e3 :> Report(c2, m1, 1)}

MCReports == UNION {{p[e] : e \in MCEvents} : p \in MCPayloads}
=============================================================================
