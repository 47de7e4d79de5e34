---------------------------- MODULE MemoryGraph ----------------------------
(***************************************************************************)
(* What the knowledge graph promises to those who write to it: a memory to *)
(* which each call adds all it has to say at once, and once, or nothing at *)
(* all.  What was said is never taken back, and a decision goes one way:   *)
(* a call supersedes it, then the maintenance marks it.  That statuses and *)
(* scores are replaced, that a call is made in several steps and that the  *)
(* maintenance reads and writes row by row cannot be seen.                 *)
(***************************************************************************)
CONSTANTS
    Calls,       \* identifiers of the calls
    Says,        \* Says[c]: what c may have to say, [facts, decided] each
    Supersedes   \* Supersedes[c]: the decisions c may supersede

VARIABLES
    answer,      \* answer[c]: "open" as long as the call has had no effect
    facts,       \* all that was said, apart from statuses
    decided,     \* nodes that were given a status
    superseded,  \* those whose status is that they are superseded
    marked       \* those the maintenance has marked as stale

memory == <<answer, facts, decided, superseded, marked>>

Init ==
    /\ answer = [c \in Calls |-> "open"]
    /\ superseded \subseteq decided
    /\ marked \subseteq superseded

End(c, how) ==
    /\ answer[c] = "open"
    /\ answer' = [answer EXCEPT ![c] = how]

Store(c) ==
    /\ End(c, "stored")
    /\ \E said \in Says[c] :
          /\ facts' = facts \cup said.facts
          /\ decided' = decided \cup said.decided
    /\ UNCHANGED <<superseded, marked>>

\* What has no status cannot be superseded; the call succeeds all the same.
Supersede(c) ==
    /\ End(c, "stored")
    /\ \E d \in Supersedes[c] : superseded' = superseded \cup ({d} \cap decided)
    /\ UNCHANGED <<facts, decided, marked>>

Refuse(c) ==
    /\ End(c, "refused")
    /\ UNCHANGED <<facts, decided, superseded, marked>>

Mark(d) ==
    /\ d \in superseded
    /\ marked' = marked \cup {d}
    /\ UNCHANGED <<answer, facts, decided, superseded>>

Next ==
    \/ \E c \in Calls : Store(c) \/ Supersede(c) \/ Refuse(c)
    \/ \E d \in superseded : Mark(d)

Spec == Init /\ [][Next]_memory
=============================================================================
