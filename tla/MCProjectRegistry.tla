------------------------- MODULE MCProjectRegistry -------------------------
(***************************************************************************)
(* Instances of ProjectRegistry for TLC.  "My Project" and "my/project"    *)
(* share a slug; the third project is called "my project 2", so that its   *)
(* slug is the first one's second candidate.                               *)
(***************************************************************************)
EXTENDS ProjectRegistry, TLC

CONSTANTS c1, c2, l1, x, y, spaced, slashed, numbered,
          my, my2, my3, my22, my23

SlugCandidates ==
    [n \in Names |->
        IF n = numbered
        THEN <<my2, my22, my23>>
        ELSE <<my, my2, my3>>]

\* The subject is the entity, a project or was never stored.
OneLink == {<<my2, my>>}

Interchangeable ==
    Permutations(Creates) \cup Permutations(Links) \cup Permutations(Comments)
=============================================================================
