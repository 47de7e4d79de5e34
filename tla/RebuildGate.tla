----------------------------- MODULE RebuildGate ---------------------------
(***************************************************************************)
(* Who may start a rebuild, and on which threads: the MCP tool (a blocking *)
(* task), POST /admin/rebuild-indexes (a handler that probes the gate and  *)
(* then spawns the rebuild) and GET /admin/status (a handler that probes   *)
(* the gate and then counts the vectors behind the semantic index's mutex, *)
(* which a rebuild holds for its second half).  Handlers and the spawned   *)
(* rebuild run on tokio's workers, of which there are few, and block them  *)
(* while they wait for one of the two std mutexes or while they rebuild.   *)
(*                                                                         *)
(* Source: crates/zakhor-search/src/sync/manager.rs (rebuild_all,          *)
(* is_rebuild_in_progress), crates/zakhor-api/src/api/admin.rs,            *)
(* crates/zakhor-api/src/tools/rebuild_indexes.rs.  What a rebuild does    *)
(* inside the gate is IndexSync; here it succeeds, fails or panics.        *)
(***************************************************************************)
EXTENDS Naturals, FiniteSets

CONSTANTS
    Posts,       \* POST requests, and the rebuild each one spawns
    Tools,       \* calls of the MCP tool rebuild_indexes
    Probes,      \* GET status requests
    NoThread,    \* nobody owns the mutex
    Workers,     \* number of worker threads of the runtime
    MayPanic     \* whether a rebuild may panic (embedding library)

Rebuilders == Posts \cup Tools
Requests   == Rebuilders \cup Probes

ASSUME RequestsDisjoint ==
    /\ Posts \cap Tools = {}
    /\ Rebuilders \cap Probes = {}
    /\ NoThread \notin Requests
ASSUME SomeWorker == Workers \in Nat \ {0}
ASSUME PanicFlag == MayPanic \in BOOLEAN

VARIABLES
    gate,        \* owner of the rebuild_in_progress mutex
    flag,        \* the flag behind it
    poisoned,    \* the mutex was unlocked by a panic
    semantic,    \* owner of the Mutex<SemanticIndex>
    onWorker,    \* requests whose code occupies a worker
    pc           \* pc[t]: where a request stands

vars == <<gate, flag, poisoned, semantic, onWorker, pc>>

Goto(t, label) == pc' = [pc EXCEPT ![t] = label]

Ended(t) == pc[t] \in {"conflict", "answered", "ok", "err"}

RunningLabels == {"lexical", "semantic"}

Running == {t \in Rebuilders : pc[t] \in RunningLabels}

Init ==
    /\ gate = NoThread
    /\ flag = FALSE
    /\ poisoned = FALSE
    /\ semantic = NoThread
    /\ onWorker = {}
    /\ pc = [t \in Requests |-> "off"]

-----------------------------------------------------------------------------
(* The runtime.                                                            *)

\* A handler arrives and waits for a worker.
ArriveHandler(t) ==
    /\ pc[t] = "off"
    /\ Goto(t, "queued")
    /\ UNCHANGED <<gate, flag, poisoned, semantic, onWorker>>

\* The tool's closure gets a blocking thread of its own and calls rebuild_all.
CallTool(t) ==
    /\ pc[t] = "off"
    /\ Goto(t, "lock")
    /\ UNCHANGED <<gate, flag, poisoned, semantic, onWorker>>

\* Seeded: handlers are started whether or not a worker is free.
NoLimit == TRUE

WorkerFree == Cardinality(onWorker) < Workers

\* A worker picks up a handler, or the task that a POST handler has spawned.
Schedule(t) ==
    /\ pc[t] \in {"queued", "spawned"}
    /\ WorkerFree
    /\ onWorker' = onWorker \cup {t}
    /\ Goto(t, IF pc[t] = "queued" THEN "probe" ELSE "lock")
    /\ UNCHANGED <<gate, flag, poisoned, semantic>>

-----------------------------------------------------------------------------
(* is_rebuild_in_progress: waits for the mutex; a poisoned one counts as   *)
(* "no rebuild".                                                           *)

InProgress == flag /\ ~poisoned

\* Seeded: the POST handler blocks its worker until the rebuild has ended.
WaitsForSpawned(t) == IF t \in Posts THEN onWorker ELSE onWorker \ {t}

\* The handler returns, its worker is free.
AfterHandler(t) == onWorker \ {t}

ProbeStatus(t) ==
    /\ pc[t] = "probe"
    /\ gate = NoThread
    /\ Goto(t, "count")
    /\ UNCHANGED <<gate, flag, poisoned, semantic, onWorker>>

\* semantic_len waits for the semantic index.
AnswerStatus(t) ==
    /\ pc[t] = "count"
    /\ semantic = NoThread
    /\ onWorker' = AfterHandler(t)
    /\ Goto(t, "answered")
    /\ UNCHANGED <<gate, flag, poisoned, semantic>>

AnswerPost(t) ==
    /\ pc[t] = "probe"
    /\ gate = NoThread
    /\ onWorker' = AfterHandler(t)
    /\ Goto(t, IF InProgress THEN "conflict" ELSE "spawned")
    /\ UNCHANGED <<gate, flag, poisoned, semantic>>

-----------------------------------------------------------------------------
(* rebuild_all.                                                            *)

\* Seeded: the mutex is locked to look at the flag only, and the flag is not
\* set before the rebuild.
CheckOnly(t) == [owner |-> NoThread, set |-> FALSE]

\* The guard is held, and the flag set, until the rebuild has ended.
HoldGate(t) == [owner |-> t, set |-> TRUE]

Acquire(t) ==
    /\ pc[t] = "lock"
    /\ gate = NoThread
    /\ ~poisoned
    /\ ~flag
    /\ gate' = HoldGate(t).owner
    /\ flag' = HoldGate(t).set
    /\ Goto(t, "lexical")
    /\ UNCHANGED <<poisoned, semantic, onWorker>>

\* The flag is found set, or the mutex poisoned.
Refuse(t) ==
    /\ pc[t] = "lock"
    /\ gate = NoThread
    /\ flag \/ poisoned
    /\ onWorker' = onWorker \ {t}
    /\ Goto(t, "err")
    /\ UNCHANGED <<gate, flag, poisoned, semantic>>

\* With embeddings, the second half holds the semantic index to the end.
LockSemantic(t) ==
    /\ pc[t] = "lexical"
    /\ semantic = NoThread
    /\ semantic' = t
    /\ Goto(t, "semantic")
    /\ UNCHANGED <<gate, flag, poisoned, onWorker>>

\* What t had locked of the semantic index is free again.
SemanticWithout(t) == IF semantic = t THEN NoThread ELSE semantic

\* Success or an error, in either half.
Finish(t) ==
    /\ pc[t] \in RunningLabels
    /\ gate' = NoThread
    /\ flag' = FALSE
    /\ semantic' = SemanticWithout(t)
    /\ onWorker' = onWorker \ {t}
    /\ \E outcome \in {"ok", "err"} : Goto(t, outcome)
    /\ UNCHANGED poisoned

\* The guards are dropped by the unwinding, with the flag still set.
Panic(t) ==
    /\ MayPanic
    /\ pc[t] \in RunningLabels
    /\ gate' = NoThread
    /\ poisoned' = TRUE
    /\ semantic' = SemanticWithout(t)
    /\ onWorker' = onWorker \ {t}
    /\ Goto(t, "err")
    /\ UNCHANGED flag

\* Every request has been answered.
Quiescent ==
    /\ \A t \in Requests : Ended(t)
    /\ UNCHANGED vars

-----------------------------------------------------------------------------
StatusStep(t) == ProbeStatus(t) \/ AnswerStatus(t)

RebuildStep(t) ==
    Acquire(t) \/ Refuse(t) \/ LockSemantic(t) \/ Finish(t) \/ Panic(t)

Next ==
    \/ \E t \in Posts \cup Probes : ArriveHandler(t) \/ Schedule(t)
    \/ \E t \in Tools : CallTool(t)
    \/ \E t \in Posts : AnswerPost(t)
    \/ \E t \in Probes : StatusStep(t)
    \/ \E t \in Rebuilders : RebuildStep(t)
    \/ Quiescent

Spec == Init /\ [][Next]_vars

\* Requests arrive as they like.  Workers take tasks from a queue, and the
\* operating system schedules the threads that hold or wait for the mutex.
Fairness ==
    /\ \A t \in Posts \cup Probes : WF_vars(Schedule(t))
    /\ \A t \in Posts : WF_vars(AnswerPost(t))
    /\ \A t \in Probes : WF_vars(StatusStep(t))
    /\ \A t \in Rebuilders : WF_vars(RebuildStep(t))

FairSpec == Spec /\ Fairness

-----------------------------------------------------------------------------
(* Properties.                                                             *)

TypeOK ==
    /\ gate \in Rebuilders \cup {NoThread}
    /\ flag \in BOOLEAN
    /\ poisoned \in BOOLEAN
    /\ semantic \in Rebuilders \cup {NoThread}
    /\ onWorker \subseteq Posts \cup Probes
    /\ Cardinality(onWorker) <= Workers
    /\ pc \in [Requests -> {"off", "queued", "probe", "count", "conflict",
                            "spawned", "lock", "lexical", "semantic", "ok",
                            "err", "answered"}]

\* POST answers "accepted" only at a moment when no rebuild is running, so
\* what it accepts is never refused because of the flag.
AcceptedOnlyWhenIdle ==
    [][\A t \in Posts :
          pc[t] = "probe" /\ pc'[t] = "spawned" => Running = {}]_vars

\* No worker is ever blocked for good: although handlers and rebuilds wait
\* for a std Mutex on the runtime's own threads, every request that arrives
\* is answered and every rebuild that was accepted ends.
EveryRequestEnds == \A t \in Requests : pc[t] # "off" ~> Ended(t)

\* How far a request for a rebuild has come; a POST asks for one only once its
\* spawned task runs.
PhaseOf(label) ==
    CASE label = "lock"          -> "asked"
      [] label \in RunningLabels -> "rebuilding"
      [] label \in {"ok", "err"} -> "over"
      [] OTHER                   -> "idle"

Phase == [t \in Rebuilders |-> PhaseOf(pc[t])]

\* Rebuilds run one at a time, wherever they were asked for, panics included.
Queue == INSTANCE RebuildQueue WITH
    Rebuilds <- Rebuilders,
    phase <- Phase
RebuildsAreSerial == Queue!Spec
=============================================================================
