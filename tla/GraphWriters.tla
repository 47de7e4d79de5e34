----------------------------- MODULE GraphWriters ---------------------------
(***************************************************************************)
(* Everyone who writes to the knowledge graph at the same time: tool calls *)
(* that store observations and decisions, library calls that supersede     *)
(* decisions or record tool calls and code, and the background worker that *)
(* refreshes the ranking and tombstones superseded decisions.  A single    *)
(* update is atomic; what an operation reads before one is not.            *)
(*                                                                         *)
(* Source: crates/zakhor-model/src/pipeline.rs, ingest.rs, background.rs,  *)
(* ranking/core.rs, decision/model.rs, crates/zakhor-api/src/              *)
(* tool_capture.rs, tools/.  The index sync that runs beside the persist   *)
(* stage is IndexSync.                                                     *)
(***************************************************************************)
EXTENDS KnowledgeGraph, Extraction

CONSTANTS
    Request,   \* the calls a client may make, by the identifier of what they store
    Resolver,  \* the pipeline's entity resolver (an empty one resolves nothing)
    CallUris,  \* nodes of tool calls, one per millisecond
    Batch,     \* LIMIT of the cleanup query
    Stored,    \* the graph that earlier runs of the program have left
    MaxFaults  \* bound: queries and updates that fail for no visible reason

ASSUME BatchPositive == Batch \in Nat \ {0}
ASSUME FaultsBounded == MaxFaults \in Nat

Requests == DOMAIN Request

-----------------------------------------------------------------------------
(* What calls store.                                                       *)

\* The entities and relations of a call: given, or made of the model's answer.
Entities(q) == IF q.kind = "extract" THEN EntitiesOf(q.spans) ELSE q.entities

Relations(q) == IF q.kind = "extract" THEN RelationsOf(q.found, Entities(q)) ELSE q.relations

\* The observation that stage 3 makes of a call.
Content(q) == [text      |-> q.text,
               entities  |-> ResolveEntities(Entities(q), Resolver),
               relations |-> Relations(q)]

\* Nodes that a call says something about, apart from the one it is named after.
Subjects(q) ==
    CASE q.kind \in {"observe", "extract"} ->
              {e.uri : e \in ToSet(Content(q).entities)}
              \cup {n.subject : n \in ToSet(Content(q).relations)}
      [] q.kind = "link"      -> {q.call}
      [] q.kind = "container" -> {q.path}
      [] q.kind = "symbol"    -> {q.name}
      [] OTHER                -> {}

Calls == UNION {Request[r] : r \in Requests}

\* What an earlier run has left: triples the store accepts, of each decision one
\* status that is a text, tombstones on superseded ones.
StoredByTheProgram ==
    /\ \A t \in Stored : t = <<t[1], t[2], t[3]>> /\ t[2] \in Declared
    /\ \A t \in Stored : t[2] = "decisionStatus" =>
          t[3] \in {Literal("active"), Literal("superseded")} \/ t[3][1] = "iri"
    /\ \A t \in Stored : ~({Literal("active"), Literal("superseded")} \subseteq Statuses(Stored, t[1]))
    /\ \A t \in Stored : t[2] = "tombstone" /\ t[3] = Tombstone =>
          Literal("superseded") \in Statuses(Stored, t[1])

ASSUME EarlierRuns == StoredByTheProgram

\* An observation or a decision gets a new random identifier when it is stored,
\* and the node of a tool call is named otherwise.
ASSUME IdentifiersAreNew ==
    /\ \A t \in Stored : t[1] \notin Requests
    /\ CallUris \cap Requests = {}

VARIABLES
    graph,    \* the triple store
    pc,       \* where each request stands
    prepared, \* its observation after stages 1 to 3
    tracked,  \* provenance its pipeline keeps in memory
    worker,   \* the background task: idle, or what it has read and must write
    faults

writers == <<pc, prepared, tracked>>
vars    == <<graph, pc, prepared, tracked, worker, faults>>

Idle == [at |-> "idle", todo |-> {}, count |-> [e \in {} |-> 0], among |-> 0]

NoObservation == [text |-> Blank, entities |-> <<>>, relations |-> <<>>]

Init ==
    /\ graph = Stored
    /\ pc = [r \in Requests |-> "asked"]
    /\ prepared = [r \in Requests |-> NoObservation]
    /\ tracked = [r \in Requests |-> {}]
    /\ worker = Idle
    /\ faults = 0

Known(g, n) == \E t \in g : t[1] = n

\* A client makes one of its calls.  A new identifier it can only have from the
\* graph, so what it says of one comes later than the node.
Makes(r, q, kind) ==
    /\ pc[r] = "asked" /\ q \in Request[r] /\ q.kind = kind
    /\ \A n \in Subjects(q) \cap Requests : Known(graph, n)

Goes(r, where) == pc' = [pc EXCEPT ![r] = where]

Fault == faults < MaxFaults /\ faults' = faults + 1

\* A statement the store executes, and one it refuses or fails to execute.
Updates(new) == Accepts(new) /\ graph' = new /\ UNCHANGED faults

UpdateFails(new) ==
    /\ \/ ~Accepts(new) /\ UNCHANGED faults
       \/ Fault
    /\ UNCHANGED graph

-----------------------------------------------------------------------------
(* Observations, given or extracted.                                       *)

\* Stages 1 to 3: validate, resolve, build.  No identifier may be had.
Prepare(r, q) ==
    /\ \/ /\ q.text = Blank /\ UNCHANGED faults
          /\ Goes(r, "failed") /\ UNCHANGED prepared
       \/ /\ q.text # Blank /\ Fault
          /\ Goes(r, "failed") /\ UNCHANGED prepared
       \/ /\ q.text # Blank /\ UNCHANGED faults
          /\ Goes(r, "persisting") /\ prepared' = [prepared EXCEPT ![r] = Content(q)]
    /\ UNCHANGED tracked

Ingest(r, q) ==
    /\ Makes(r, q, "observe")
    /\ Prepare(r, q)
    /\ UNCHANGED <<graph, worker>>

ExtractAndIngest(r, q) ==
    /\ Makes(r, q, "extract")
    /\ Inference(q.text, q.labels, "answered") = "answered"
    /\ Prepare(r, q)
    /\ UNCHANGED <<graph, worker>>

ExtractionFails(r, q) ==
    /\ Makes(r, q, "extract")
    /\ \/ /\ Inference(q.text, q.labels, "answered") = "refused"
          /\ UNCHANGED faults
       \/ Fault
    /\ Goes(r, "failed")
    /\ UNCHANGED <<graph, prepared, tracked, worker>>

\* Seeded: the references to entities are inserted by a second statement.
PersistInTwo(r) ==
    LET all   == ObservationTriples(r, prepared[r])
        first == {t \in all : t[1] = r /\ t[2] # "hasEntity"}
    IN /\ pc[r] = "persisting"
       /\ Updates(graph \cup (IF first \subseteq graph THEN all ELSE first))
       /\ Goes(r, IF first \subseteq graph THEN "persisted" ELSE "persisting")
       /\ UNCHANGED <<prepared, tracked, worker>>

\* Stage 4, one INSERT DATA.
Persist(r) ==
    /\ pc[r] = "persisting"
    /\ Updates(graph \cup ObservationTriples(r, prepared[r]))
    /\ Goes(r, "persisted")
    /\ UNCHANGED <<prepared, tracked, worker>>

PersistFails(r) ==
    /\ pc[r] = "persisting"
    /\ UpdateFails(graph \cup ObservationTriples(r, prepared[r]))
    /\ Goes(r, "failed")
    /\ UNCHANGED <<prepared, tracked, worker>>

\* Seeded: the provenance is tracked without waiting for the store.
TrackBeforePersist(r) ==
    /\ pc[r] \in {"persisting", "persisted"}
    /\ tracked' = [tracked EXCEPT ![r] = ProvenanceTriples(r, prepared[r])]
    /\ pc' = [pc EXCEPT ![r] = IF @ = "persisted" THEN "done" ELSE @]
    /\ UNCHANGED <<graph, prepared, worker, faults>>

\* Stage 5, once the persist task has been joined.
Track(r) ==
    /\ pc[r] = "persisted"
    /\ tracked' = [tracked EXCEPT ![r] = ProvenanceTriples(r, prepared[r])]
    /\ Goes(r, "done")
    /\ UNCHANGED <<graph, prepared, worker, faults>>

-----------------------------------------------------------------------------
(* Operations of one statement each.                                       *)

\* Identifiers are checked first; then the one statement succeeds or fails.
Execute(r, identifiers, new) ==
    /\ \/ /\ identifiers \cap Unusable = {}
          /\ Updates(new)
          /\ Goes(r, "done")
       \/ /\ identifiers \cap Unusable = {}
          /\ UpdateFails(new)
          /\ Goes(r, "failed")
       \/ /\ identifiers \cap Unusable # {}
          /\ Goes(r, "failed")
          /\ UNCHANGED <<graph, faults>>
    /\ UNCHANGED <<prepared, tracked, worker>>

RecordDecision(r, q) ==
    /\ Makes(r, q, "decide")
    /\ Execute(r, q.edges["belongsToProject"],
               graph \cup DecisionTriples(r, q))

Supersede(r, q) ==
    /\ Makes(r, q, "supersede")
    /\ Execute(r, {}, SupersedeIn(graph, q.decision))

\* The clock decides the node: two calls in a millisecond share it.
CaptureToolCall(r, q) ==
    /\ Makes(r, q, "capture")
    /\ \E uri \in CallUris : Execute(r, {}, graph \cup ToolCallTriples(uri, q))

LinkToolCall(r, q) ==
    /\ Makes(r, q, "link")
    /\ Execute(r, {q.call, q.decision},
               graph \cup EvidenceTriples(q.call, q.decision))

CreateContainer(r, q) ==
    /\ Makes(r, q, "container")
    /\ Execute(r, {}, graph \cup ContainerTriples(q.path))

CreateSymbol(r, q) ==
    /\ Makes(r, q, "symbol")
    /\ Execute(r, {}, graph \cup SymbolTriples(q.name, q.container))

-----------------------------------------------------------------------------
(* The background worker: one task, one tick at a time.                    *)

\* refresh_ranking reads the labelled nodes, then counts node by node.
RankTick ==
    /\ worker = Idle
    /\ Labelled(graph) # {}
    /\ worker' = [Idle EXCEPT !.at = "counting", !.todo = Labelled(graph),
                              !.among = Cardinality(Labelled(graph))]
    /\ UNCHANGED <<graph, writers, faults>>

CountNode(e) ==
    /\ worker.at = "counting"
    /\ e \in worker.todo
    /\ LET counted == [n \in DOMAIN worker.count \cup {e} |->
                          IF n = e THEN Cardinality(Connected(graph, e))
                          ELSE worker.count[n]]
       IN worker' =
            IF worker.todo = {e}
            THEN [worker EXCEPT !.at = "writing", !.todo = DOMAIN counted, !.count = counted]
            ELSE [worker EXCEPT !.todo = @ \ {e}, !.count = counted]
    /\ UNCHANGED <<graph, writers, faults>>

\* Seeded: a tick whose items are all done does not end.
NeverIdle(item) == [worker EXCEPT !.todo = @ \ {item}]

\* The worker has dealt with one of its items.
WithDone(item) ==
    IF worker.todo = {item} THEN Idle ELSE [worker EXCEPT !.todo = @ \ {item}]

\* By connectivity, highest first.
Foremost(e) == e \in worker.todo /\ \A n \in worker.todo : worker.count[n] <= worker.count[e]

Scored(e) == ScoreSet(graph, e, ScoreOf(worker.count[e], worker.among))

WriteScore(e) ==
    /\ worker.at = "writing"
    /\ Foremost(e)
    /\ Updates(Scored(e))
    /\ worker' = WithDone(e)
    /\ UNCHANGED writers

\* Logged, and left to the next refresh.
WriteScoreFails(e) ==
    /\ worker.at = "writing"
    /\ Foremost(e)
    /\ UpdateFails(Scored(e))
    /\ worker' = WithDone(e)
    /\ UNCHANGED writers

\* cleanup_stale_data asks for a batch; which one is the store's choice.
CleanupTick ==
    /\ worker = Idle
    /\ \E rows \in SUBSET StaleDecisions(graph) :
          /\ rows # {}
          /\ \/ Cardinality(rows) = Batch
             \/ rows = StaleDecisions(graph) /\ Cardinality(rows) <= Batch
          /\ worker' = [Idle EXCEPT !.at = "tombstoning", !.todo = rows,
                                    !.among = Cardinality(rows)]
    /\ UNCHANGED <<graph, writers, faults>>

\* The cursor stays open while the rows are marked, so below its LIMIT it may
\* come upon a decision that was superseded, or whose update failed, meanwhile.
CursorSees(d) ==
    /\ worker.at = "tombstoning"
    /\ worker.among < Batch
    /\ d \in StaleDecisions(graph) \ worker.todo
    /\ worker' = [worker EXCEPT !.todo = @ \cup {d}, !.among = @ + 1]
    /\ UNCHANGED <<graph, writers, faults>>

Tombstoned(d) == graph \cup {<<d, "tombstone", Tombstone>>}

TombstoneRow(d) ==
    /\ worker.at = "tombstoning"
    /\ d \in worker.todo
    /\ Updates(Tombstoned(d))
    /\ worker' = WithDone(d)
    /\ UNCHANGED writers

\* An update may fail at any time because of the open cursor (project.rs warns of
\* it); the row is left to a later round.
TombstoneFails(d) ==
    /\ worker.at = "tombstoning"
    /\ d \in worker.todo
    /\ worker' = WithDone(d)
    /\ UNCHANGED <<graph, writers, faults>>

\* A query or its cursor fails: the tick ends, what it wrote so far stays.
TickFails ==
    /\ worker.at \in {"counting", "tombstoning"}
    /\ Fault
    /\ worker' = Idle
    /\ UNCHANGED <<graph, writers>>

-----------------------------------------------------------------------------
RequestStep(r) ==
    \/ \E q \in Request[r] :
          \/ Ingest(r, q) \/ ExtractAndIngest(r, q) \/ ExtractionFails(r, q)
          \/ RecordDecision(r, q) \/ Supersede(r, q)
          \/ CaptureToolCall(r, q) \/ LinkToolCall(r, q)
          \/ CreateContainer(r, q) \/ CreateSymbol(r, q)
    \/ Persist(r) \/ PersistFails(r) \/ Track(r)

WorkerStep ==
    \/ \E e \in worker.todo : CountNode(e) \/ WriteScore(e) \/ WriteScoreFails(e)
    \/ \E d \in worker.todo : TombstoneRow(d) \/ TombstoneFails(d)
    \/ \E d \in Decisions(graph) : CursorSees(d)
    \/ TickFails

Next == (\E r \in Requests : RequestStep(r)) \/ RankTick \/ CleanupTick \/ WorkerStep

Spec == Init /\ [][Next]_vars

\* The worker goes on with what it has begun.  Neither timer loses its ticks
\* and the select takes a random one of those that are due, so each comes round
\* however often the other one does.  That anyone calls the program, or that a
\* call goes on, is not assumed.
FairSpec == Spec /\ WF_vars(WorkerStep) /\ SF_vars(RankTick) /\ SF_vars(CleanupTick)

-----------------------------------------------------------------------------
(* Properties.                                                             *)

Bare(triples) == {<<t[1], t[2], t[3][2]>> : t \in triples}

Observed == {r \in Requests : \A q \in Request[r] : q.kind \in {"observe", "extract"}}

\* Types of all variables; the worker has something to do unless it is idle,
\* and while it writes scores it has a count for every node it still has to do.
TypeOK ==
    /\ \A t \in graph : Len(t) = 3 /\ t[2] \in Declared
    /\ pc \in [Requests -> {"asked", "persisting", "persisted", "done", "failed"}]
    /\ DOMAIN prepared = Requests /\ DOMAIN tracked = Requests
    /\ worker.at \in {"idle", "counting", "writing", "tombstoning"}
    /\ worker.todo \subseteq Labelled(graph) \cup Decisions(graph)
    /\ (worker = Idle) = (worker.todo = {})
    /\ worker.at = "counting" => worker.todo \cap DOMAIN worker.count = {}
    /\ worker.at = "writing" => worker.todo \subseteq DOMAIN worker.count
    /\ faults \in 0..MaxFaults

\* An observation is in the graph completely or not at all, and the provenance
\* that its pipeline keeps, built by another function, holds exactly the triples
\* that were written: no other operation may take one of them away, unless a
\* relation uses a property whose values the program replaces, and nothing is
\* tracked of an observation the store refused.
ProvenanceIsWhatWasWritten ==
    \A r \in Observed :
        LET triples == ObservationTriples(r, prepared[r])
        IN IF pc[r] \in {"persisted", "done"}
           THEN /\ {t \in triples : t[2] \notin Replaced} \subseteq graph
                /\ pc[r] = "done" => tracked[r] = Bare(triples)
           ELSE /\ tracked[r] = {}
                /\ ~\E t \in graph : t[1] = r

\* A decision with a tombstone has been superseded, although the worker selects
\* the decisions first and marks them later, one by one.
TombstonesOnlyOnSuperseded ==
    \A d \in Decisions(graph) :
        Tombstone \in Objects(graph, d, "tombstone") =>
            Literal("superseded") \in Statuses(graph, d)

\* A set of triples as MemoryGraph sees it: what is said for good, and the nodes
\* that it gives a status, makes superseded and marks.
Passing(t) == t[2] = "decisionStatus" /\ t[3] = Literal("superseded")
Marking(t) == t[2] = "tombstone" /\ t[3] = Tombstone

Facts(triples)   == {t \in triples : t[2] \notin Replaced /\ ~Marking(t)}
Decided(triples) == {t[1] : t \in {u \in triples : u[2] = "decisionStatus"}}
Passed(triples)  == {t[1] : t \in {u \in triples : Passing(u)}}
Marked(triples)  == {t[1] : t \in {u \in triples : Marking(u)}}

\* Whether a call has a text, labels and identifiers that can be used.
Admissible(q) ==
    CASE q.kind = "observe" -> q.text # Blank
      [] q.kind = "extract" -> Inference(q.text, q.labels, "answered") = "answered"
      [] q.kind = "decide"  -> q.edges["belongsToProject"] \cap Unusable = {}
      [] q.kind = "link"    -> {q.call, q.decision} \cap Unusable = {}
      [] OTHER              -> TRUE

\* What a call stores, if it does not replace a status.
Statements(r, q) ==
    CASE q.kind \in {"observe", "extract"} -> {ObservationTriples(r, Content(q))}
      [] q.kind = "decide"    -> {DecisionTriples(r, q)}
      [] q.kind = "capture"   -> {ToolCallTriples(uri, q) : uri \in CallUris}
      [] q.kind = "link"      -> {EvidenceTriples(q.call, q.decision)}
      [] q.kind = "container" -> {ContainerTriples(q.path)}
      [] q.kind = "symbol"    -> {SymbolTriples(q.name, q.container)}
      [] OTHER                -> {}

MaySay ==
    [r \in Requests |->
        {[facts |-> Facts(s), decided |-> Decided(s)] :
            s \in UNION {Statements(r, q) : q \in {c \in Request[r] : Admissible(c)}}}]

MaySupersede ==
    [r \in Requests |-> {q.decision : q \in {c \in Request[r] : c.kind = "supersede"}}]

AnswerOf(where) ==
    CASE where \in {"asked", "persisting"} -> "open"
      [] where = "failed"                  -> "refused"
      [] OTHER                             -> "stored"

Answers == [r \in Requests |-> AnswerOf(pc[r])]

\* Calls take effect as MemoryGraph promises: all of a call or nothing of it, in
\* one step between two steps of the others, although it is prepared, stored and
\* tracked in stages; what is stored stays, whatever updates replace; and all
\* the worker can be seen to do is to mark decisions that are superseded.
Promise == INSTANCE MemoryGraph WITH
    Calls      <- Requests,
    Says       <- MaySay,
    Supersedes <- MaySupersede,
    answer     <- Answers,
    facts      <- Facts(graph),
    decided    <- Decided(graph),
    superseded <- Passed(graph),
    marked     <- Marked(graph)
CallsTakeEffectAtOnce == Promise!Spec

\* Once nobody changes the graph any more, each labelled node has one score and
\* it is the right one: counts read before a change are replaced by a later
\* refresh, and the scores the worker itself writes do not feed into the counts.
RankingSettles ==
    <>[](\A e \in Labelled(graph) :
            Objects(graph, e, "graphImportance") =
                {ScoreOf(Cardinality(Connected(graph, e)), Cardinality(Labelled(graph)))})
=============================================================================
