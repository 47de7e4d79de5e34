--------------------------- MODULE MCRebuildGate ---------------------------
(***************************************************************************)
(* Instances of RebuildGate for TLC.                                       *)
(***************************************************************************)
EXTENDS RebuildGate

CONSTANTS p1, p2, t1, t2, q1, q2
=============================================================================
