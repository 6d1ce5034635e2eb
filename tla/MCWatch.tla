------------------------------- MODULE MCWatch ----------------------------
(* Two USB disks and one that is on the USB bus by its parents alone (UAS), *)
(* sharing two drive numbers.                                               *)
EXTENDS Watch
CONSTANTS a, b, uas
MCDisks == {a, b, uas}
MCUsbBus == {a, b}
===========================================================================
