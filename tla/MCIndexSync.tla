---------------------------- MODULE MCIndexSync ----------------------------
(***************************************************************************)
(* Instances of IndexSync for TLC: model values for the calls, symmetric   *)
(* among calls of a kind, and the sets of faults the runs turn on.         *)
(***************************************************************************)
EXTENDS IndexSync, TLC

CONSTANTS o1, o2, d1, d2, r1, r2, s1, s2

AllFaults == FaultPoints

Interchangeable ==
    Permutations(Observations) \cup Permutations(Decisions)
        \cup Permutations(Rebuilds) \cup Permutations(Searches)
=============================================================================
