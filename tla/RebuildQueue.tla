---------------------------- MODULE RebuildQueue ---------------------------
(***************************************************************************)
(* What the rebuild gate of IndexSyncManager amounts to: rebuilds that are *)
(* asked for run one at a time.  One that is asked for waits as long as    *)
(* another runs; it may also end without having run (an error, a poisoned  *)
(* lock, a restart).                                                       *)
(***************************************************************************)
CONSTANT Rebuilds

VARIABLE phase   \* phase[r]: how far the request for r has come

Init == phase = [r \in Rebuilds |-> "idle"]

Step(r, from, to) ==
    /\ phase[r] = from
    /\ phase' = [phase EXCEPT ![r] = to]

Ask(r) == Step(r, "idle", "asked")

Begin(r) ==
    /\ \A other \in Rebuilds : phase[other] # "rebuilding"
    /\ Step(r, "asked", "rebuilding")

GiveUp(r) == Step(r, "asked", "over")

End(r) == Step(r, "rebuilding", "over")

Restart ==
    phase' = [r \in Rebuilds |->
                 IF phase[r] \in {"asked", "rebuilding"} THEN "over"
                 ELSE phase[r]]

Next ==
    \/ \E r \in Rebuilds : Ask(r) \/ Begin(r) \/ GiveUp(r) \/ End(r)
    \/ Restart

Spec == Init /\ [][Next]_phase
=============================================================================
