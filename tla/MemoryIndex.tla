---------------------------- MODULE MemoryIndex ----------------------------
(***************************************************************************)
(* What the lexical search index promises to the rest of zakhor: it is a   *)
(* projection of the Tracker store that only ever changes in two ways,     *)
(* whole documents at a time.  An incremental add puts one more entry for  *)
(* one document in it; a rebuild replaces all of it, in one step, by one   *)
(* entry for each document of a set read from the store.  Decisions are    *)
(* indexed after they are stored and no rebuild ever drops one that was    *)
(* indexed.  Nothing of the sort is promised for observations, which are   *)
(* stored and indexed concurrently.                                        *)
(***************************************************************************)
EXTENDS Naturals

CONSTANTS
    Observations,  \* ids of the observations that callers may store
    Decisions      \* ids of the decisions that callers may record

VARIABLES
    store,         \* the documents in the Tracker store, the source of truth
    index          \* index[d] is the number of entries of d in the index

Docs == Observations \cup Decisions

\* An index with exactly one entry for each document of S.
OneEntryEach(S) == [d \in Docs |-> IF d \in S THEN 1 ELSE 0]

Init ==
    /\ store = {}
    /\ index = OneEntryEach({})

Persist(d) ==
    /\ store' = store \cup {d}
    /\ UNCHANGED index

Add(d) ==
    /\ d \in Decisions => d \in store
    /\ index' = [index EXCEPT ![d] = @ + 1]
    /\ UNCHANGED store

Replace(S) ==
    /\ S \subseteq store
    /\ \A d \in Decisions : index[d] > 0 => d \in S
    /\ index' = OneEntryEach(S)
    /\ UNCHANGED store

Next ==
    \/ \E d \in Docs : Persist(d) \/ Add(d)
    \/ \E S \in SUBSET store : Replace(S)

Spec == Init /\ [][Next]_<<store, index>>
=============================================================================
