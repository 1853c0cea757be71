---------------------------- MODULE MCVmControl ----------------------------
(* Instances of VmControl for TLC: one device thread, one frontend.        *)
EXTENDS VmControl

CONSTANTS k1, s1

MCKickers == {k1}
MCStoppers == {s1}
=============================================================================
