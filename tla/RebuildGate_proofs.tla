------------------------- MODULE RebuildGate_proofs -------------------------
(***************************************************************************)
(* Theorems about RebuildGate, for any number of requests and of workers.  *)
(***************************************************************************)
EXTENDS RebuildGate, FiniteSetTheorems, TLAPS

\* What TypeOK says of the workers, with the finiteness its proof needs.
WorkersOK ==
    /\ onWorker \subseteq Posts \cup Probes
    /\ IsFiniteSet(onWorker)
    /\ Cardinality(onWorker) <= Workers

\* Handlers never occupy more workers than there are.
LEMMA StepWorkers == WorkersOK /\ [Next]_vars => WorkersOK'
<1> SUFFICES ASSUME WorkersOK, [Next]_vars PROVE WorkersOK'
  OBVIOUS
<1> USE SomeWorker DEF WorkersOK
<1>0. Cardinality(onWorker) \in Nat
  BY FS_CardinalityType
<1>1. ASSUME NEW t \in Posts \cup Probes, Schedule(t) PROVE WorkersOK'
  <2>1. onWorker' = onWorker \cup {t} /\ Cardinality(onWorker) < Workers
    BY <1>1 DEF Schedule, WorkerFree
  <2>2. /\ IsFiniteSet(onWorker \cup {t})
        /\ \/ Cardinality(onWorker \cup {t}) = Cardinality(onWorker)
           \/ Cardinality(onWorker \cup {t}) = Cardinality(onWorker) + 1
    BY FS_AddElement
  <2> QED
    BY <1>0, <2>1, <2>2
<1>2. ASSUME NEW t, onWorker' = onWorker \ {t} PROVE WorkersOK'
  <2>1. /\ IsFiniteSet(onWorker \ {t})
        /\ Cardinality(onWorker \ {t}) <= Cardinality(onWorker)
    BY FS_Subset, onWorker \ {t} \in SUBSET onWorker
  <2>2. Cardinality(onWorker \ {t}) \in Nat
    BY <2>1, FS_CardinalityType
  <2> QED
    BY <1>0, <1>2, <2>1, <2>2
<1>3. ASSUME NEW t \in Requests,
             AnswerStatus(t) \/ AnswerPost(t) \/ Refuse(t) \/ Finish(t) \/ Panic(t)
      PROVE  WorkersOK'
  BY <1>2, <1>3 DEF AnswerStatus, AnswerPost, AfterHandler, Refuse, Finish,
                    Panic
<1>4. CASE UNCHANGED onWorker
  BY <1>4
<1>5. ASSUME NEW t \in Requests,
             \/ ArriveHandler(t) \/ CallTool(t) \/ ProbeStatus(t) \/ Acquire(t)
             \/ LockSemantic(t)
      PROVE  UNCHANGED onWorker
  BY <1>5 DEF ArriveHandler, CallTool, ProbeStatus, Acquire, LockSemantic
<1> QED
  BY <1>1, <1>3, <1>4, <1>5
  DEF Next, StatusStep, RebuildStep, Quiescent, vars, Requests, Rebuilders

\* Where a request may stand.
Labels == {"off", "queued", "probe", "count", "conflict", "spawned", "lock",
           "lexical", "semantic", "ok", "err", "answered"}

\* The mutex belongs to the rebuild that runs.  Its flag is set exactly while
\* one does, except after a panic, when the mutex is poisoned for good.
GateOK ==
    /\ pc \in [Requests -> Labels]
    /\ gate \in Rebuilders \cup {NoThread}
    /\ flag \in BOOLEAN
    /\ poisoned \in BOOLEAN
    /\ semantic \in Rebuilders \cup {NoThread}
    /\ \A t \in Rebuilders : pc[t] \in RunningLabels <=> gate = t
    /\ ~poisoned => (flag <=> gate # NoThread)
    /\ poisoned => gate = NoThread

\* Every step preserves it.
LEMMA StepGate == GateOK /\ [Next]_vars => GateOK'
<1> SUFFICES ASSUME GateOK, [Next]_vars PROVE GateOK'
  OBVIOUS
<1> USE RequestsDisjoint DEF GateOK, Goto, Labels, RunningLabels, Requests,
                             Rebuilders
<1>1. ASSUME NEW t \in Posts \cup Probes, ArriveHandler(t) PROVE GateOK'
  BY <1>1 DEF ArriveHandler
<1>2. ASSUME NEW t \in Requests, Schedule(t) PROVE GateOK'
  BY <1>2 DEF Schedule
<1>3. ASSUME NEW t \in Tools, CallTool(t) PROVE GateOK'
  BY <1>3 DEF CallTool
<1>4. ASSUME NEW t \in Requests, AnswerPost(t) PROVE GateOK'
  BY <1>4 DEF AnswerPost
<1>5. ASSUME NEW t \in Requests, StatusStep(t) PROVE GateOK'
  BY <1>5 DEF StatusStep, ProbeStatus, AnswerStatus
<1>6. ASSUME NEW t \in Rebuilders, Acquire(t) PROVE GateOK'
  BY <1>6 DEF Acquire, HoldGate
<1>7. ASSUME NEW t \in Rebuilders, Refuse(t) PROVE GateOK'
  BY <1>7 DEF Refuse
<1>8. ASSUME NEW t \in Rebuilders, Finish(t) PROVE GateOK'
  BY <1>8 DEF Finish, SemanticWithout
<1>9. ASSUME NEW t \in Rebuilders, Panic(t) PROVE GateOK'
  BY <1>9 DEF Panic, SemanticWithout
<1>10. ASSUME NEW t \in Rebuilders, LockSemantic(t) PROVE GateOK'
  BY <1>10 DEF LockSemantic
<1>11. CASE UNCHANGED vars
  BY <1>11 DEF vars
<1> QED
  BY <1>1, <1>2, <1>3, <1>4, <1>5, <1>6, <1>7, <1>8, <1>9, <1>10, <1>11
  DEF Next, RebuildStep, Quiescent

\* Nobody has asked for anything yet.
LEMMA InitGate == Init => WorkersOK /\ GateOK
<1>1. Init => WorkersOK
  BY SomeWorker, FS_EmptySet DEF Init, WorkersOK
<1>2. Init => GateOK
  BY RequestsDisjoint
  DEF Init, GateOK, Labels, RunningLabels, Requests, Rebuilders
<1> QED
  BY <1>1, <1>2

\* Both hold in every state.
THEOREM GateInvariant == Spec => [](WorkersOK /\ GateOK)
BY InitGate, StepWorkers, StepGate, PTL DEF Spec

\* Every variable keeps its type, and no more workers are busy than exist.
THEOREM TypeCorrect == Spec => []TypeOK
<1>1. WorkersOK /\ GateOK => TypeOK
  BY DEF WorkersOK, GateOK, Labels, TypeOK
<1> QED
  BY <1>1, GateInvariant, PTL

\* A POST is accepted only when no rebuild is running.
THEOREM AcceptedWhenIdle == Spec => AcceptedOnlyWhenIdle
<1> DEFINE Accepts == \A t \in Posts :
               pc[t] = "probe" /\ pc'[t] = "spawned" => Running = {}
<1>1. GateOK /\ [Next]_vars => [Accepts]_vars
  <2> SUFFICES ASSUME GateOK, Next, NEW t \in Posts,
                      pc[t] = "probe", pc'[t] = "spawned"
               PROVE  Running = {}
    OBVIOUS
  <2>1. gate = NoThread
    BY RequestsDisjoint
    DEF Next, ArriveHandler, Schedule, CallTool, AnswerPost, StatusStep,
        ProbeStatus, AnswerStatus, RebuildStep, Acquire, Refuse, LockSemantic,
        Finish, Panic, Quiescent, vars, Goto, GateOK, Requests, Rebuilders
  <2> QED
    BY <2>1, RequestsDisjoint DEF GateOK, Running, Requests
<1>2. AcceptedOnlyWhenIdle <=> [][Accepts]_vars
  BY DEF AcceptedOnlyWhenIdle
<1> QED
  BY <1>1, <1>2, GateInvariant, PTL DEF Spec

-----------------------------------------------------------------------------
(* Refinement of RebuildQueue.                                             *)

\* A step that moves one request moves its phase along.
LEMMA PhaseMoves ==
    ASSUME GateOK, NEW t \in Requests, NEW label, Goto(t, label)
    PROVE  [r \in Rebuilders |-> PhaseOf(pc[r])]' =
               [r \in Rebuilders |->
                   IF r = t THEN PhaseOf(label) ELSE PhaseOf(pc[r])]
BY DEF GateOK, Goto, Requests

\* Rebuilds are serial: each step of a request is one of RebuildQueue or leaves
\* every phase alone.
THEOREM GateRefinesQueue == Spec => RebuildsAreSerial
<1>1. Init => Queue!Init
  BY DEF Init, Queue!Init, Phase, PhaseOf, RunningLabels, Requests
<1>2. GateOK /\ [Next]_vars => [Queue!Next]_Phase
  <2> SUFFICES ASSUME GateOK, [Next]_vars PROVE [Queue!Next]_Phase
    OBVIOUS
  <2>1. ASSUME NEW t \in Rebuilders, NEW label, Goto(t, label)
        PROVE  Phase' = [Phase EXCEPT ![t] = PhaseOf(label)]
    BY <2>1, PhaseMoves DEF Phase, Requests
  <2>2. ASSUME NEW t \in Requests, NEW label, Goto(t, label),
               PhaseOf(label) = PhaseOf(pc[t])
        PROVE  Phase' = Phase
    BY <2>2, PhaseMoves DEF Phase
  <2>3. ASSUME NEW t \in Requests \ Rebuilders, NEW label, Goto(t, label)
        PROVE  Phase' = Phase
    BY <2>3, PhaseMoves DEF Phase
  <2>4. ASSUME NEW t \in Rebuilders, PhaseOf(pc[t]) = "idle", Goto(t, "lock")
        PROVE  Queue!Next
    <3>1. Phase[t] = "idle" /\ Phase' = [Phase EXCEPT ![t] = "asked"]
      BY <2>1, <2>4 DEF Phase, PhaseOf, RunningLabels
    <3> QED
      BY <3>1 DEF Queue!Next, Queue!Ask, Queue!Step
  <2>5. ASSUME NEW t \in Rebuilders, Acquire(t) PROVE Queue!Next
    <3>1. Phase[t] = "asked" /\ Phase' = [Phase EXCEPT ![t] = "rebuilding"]
      BY <2>1, <2>5 DEF Acquire, Phase, PhaseOf, RunningLabels
    <3>2. \A other \in Rebuilders : Phase[other] # "rebuilding"
      BY <2>5, RequestsDisjoint DEF Acquire, GateOK, Phase, PhaseOf, RunningLabels,
                                     Requests
    <3> QED
      BY <3>1, <3>2 DEF Queue!Next, Queue!Begin, Queue!Step
  <2>6. ASSUME NEW t \in Rebuilders, Refuse(t) PROVE Queue!Next
    <3>1. Phase[t] = "asked" /\ Phase' = [Phase EXCEPT ![t] = "over"]
      BY <2>1, <2>6 DEF Refuse, Phase, PhaseOf, RunningLabels
    <3> QED
      BY <3>1 DEF Queue!Next, Queue!GiveUp, Queue!Step
  <2>7. ASSUME NEW t \in Rebuilders, Finish(t) \/ Panic(t) PROVE Queue!Next
    <3>1. Phase[t] = "rebuilding" /\ Phase' = [Phase EXCEPT ![t] = "over"]
      BY <2>1, <2>7 DEF Finish, Panic, Phase, PhaseOf, RunningLabels
    <3> QED
      BY <3>1 DEF Queue!Next, Queue!End, Queue!Step
  <2>8. ASSUME NEW t \in Posts \cup Probes, ArriveHandler(t)
        PROVE  Phase' = Phase
    BY <2>2, <2>8 DEF ArriveHandler, PhaseOf, RunningLabels, Requests, Rebuilders
  <2>9. ASSUME NEW t \in Posts \cup Probes, Schedule(t)
        PROVE  Queue!Next \/ Phase' = Phase
    <3>1. CASE pc[t] = "queued"
      <4>1. Goto(t, "probe")
        BY <2>9, <3>1 DEF Schedule
      <4> QED
        BY <2>2, <3>1, <4>1 DEF PhaseOf, RunningLabels, Requests, Rebuilders
    <3>2. CASE pc[t] = "spawned"
      <4>1. Goto(t, "lock") /\ PhaseOf(pc[t]) = "idle"
        BY <2>9, <3>2 DEF Schedule, PhaseOf, RunningLabels
      <4> QED
        BY <2>3, <2>4, <4>1 DEF Requests, Rebuilders
    <3> QED
      BY <2>9, <3>1, <3>2 DEF Schedule
  <2>10. ASSUME NEW t \in Tools, CallTool(t) PROVE Queue!Next
    BY <2>4, <2>10 DEF CallTool, PhaseOf, RunningLabels, Rebuilders
  <2>11. ASSUME NEW t \in Posts, AnswerPost(t) PROVE Phase' = Phase
    <3>1. pc[t] = "probe" /\ (Goto(t, "conflict") \/ Goto(t, "spawned"))
      BY <2>11 DEF AnswerPost
    <3> QED
      BY <2>2, <3>1 DEF PhaseOf, RunningLabels, Requests, Rebuilders
  <2>12. ASSUME NEW t \in Probes, StatusStep(t) PROVE Phase' = Phase
    BY <2>3, <2>12, RequestsDisjoint
    DEF StatusStep, ProbeStatus, AnswerStatus, Requests
  <2>13. ASSUME NEW t \in Rebuilders, LockSemantic(t) PROVE Phase' = Phase
    <3>1. pc[t] = "lexical" /\ Goto(t, "semantic")
      BY <2>13 DEF LockSemantic
    <3> QED
      BY <2>2, <3>1 DEF PhaseOf, RunningLabels, Requests
  <2>14. CASE UNCHANGED vars
    BY <2>14 DEF vars, Phase
  <2> QED
    BY <2>5, <2>6, <2>7, <2>8, <2>9, <2>10, <2>11, <2>12, <2>13, <2>14
    DEF Next, RebuildStep, Quiescent
<1> QED
  BY <1>1, <1>2, GateInvariant, PTL DEF Spec, RebuildsAreSerial, Queue!Spec
=============================================================================
