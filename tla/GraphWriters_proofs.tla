------------------------- MODULE GraphWriters_proofs ------------------------
(***************************************************************************)
(* Theorems about GraphWriters, for any calls, any graph that earlier runs *)
(* have left, any ontology, batch size and number of faults.               *)
(***************************************************************************)
EXTENDS GraphWriters, TLAPS

Active     == Literal("active")
Superseded == Literal("superseded")

-----------------------------------------------------------------------------
(* The inductive invariant.                                                *)

\* Triples have three components and a property the store knows.
GraphTyped == \A t \in graph : t = <<t[1], t[2], t[3]>> /\ t[2] \in Declared

\* Until a call has stored what is named after it, no triple is about it.
Open == {"asked", "persisting", "failed"}

OpenUnwritten == \A r \in Requests : pc[r] \in Open => \A t \in graph : t[1] # r

\* What is prepared is what stage 3 makes of one of the calls.
PreparedKnown ==
    \A r \in Requests :
        \/ prepared[r] = NoObservation
        \/ \E q \in Request[r] : q.kind \in {"observe", "extract"} /\ prepared[r] = Content(q)

\* An observation that is about to be stored is about nodes that are not new, or
\* are in the graph already.
NamesKnown ==
    \A r \in Requests : pc[r] = "persisting" =>
        \A t \in ObservationTriples(r, prepared[r]) :
            t[1] = r \/ t[1] \notin Requests \/ Known(graph, t[1])

\* A status that is no node is one of two, and no decision has both.
OneStatus ==
    /\ \A t \in graph : t[2] = "decisionStatus" =>
          t[3] \in {Active, Superseded} \/ t[3][1] = "iri"
    /\ \A d : ~({Active, Superseded} \subseteq Statuses(graph, d))

TombstonesDeserved ==
    \A t \in graph : t[2] = "tombstone" /\ t[3] = Tombstone =>
        Superseded \in Statuses(graph, t[1])

\* What the worker has read and not yet dealt with is still as it was read.
WorkerKnows ==
    /\ worker = [at |-> worker.at, todo |-> worker.todo,
                 count |-> worker.count, among |-> worker.among]
    /\ worker.at \in {"idle", "counting", "writing", "tombstoning"}
    /\ (worker = Idle) = (worker.todo = {})
    /\ worker.at = "idle" => worker.todo = {}
    /\ worker.at = "counting" =>
          /\ worker.todo \cup DOMAIN worker.count \subseteq Labelled(graph)
          /\ worker.todo \cap DOMAIN worker.count = {}
    /\ worker.at = "writing" =>
          worker.todo \subseteq DOMAIN worker.count \cap Labelled(graph)
    /\ worker.at = "tombstoning" =>
          \A d \in worker.todo : d \in Decisions(graph) /\ Superseded \in Statuses(graph, d)

CallsTyped ==
    /\ pc \in [Requests -> {"asked", "persisting", "persisted", "done", "failed"}]
    /\ DOMAIN prepared = Requests /\ DOMAIN tracked = Requests
    /\ prepared = [r \in Requests |-> prepared[r]]
    /\ tracked = [r \in Requests |-> tracked[r]]
    /\ faults \in 0..MaxFaults

\* All an observation says is in the graph, but for what the program replaces.
Written(g, triples) == \A t \in triples : t[2] \notin Replaced => t \in g

WrittenAndTracked ==
    \A r \in Observed :
        IF pc[r] \in {"persisted", "done"}
        THEN /\ Written(graph, ObservationTriples(r, prepared[r]))
             /\ tracked[r] = IF pc[r] = "done" THEN ProvenanceTriples(r, prepared[r]) ELSE {}
        ELSE tracked[r] = {}

IInv ==
    /\ GraphTyped /\ OpenUnwritten /\ PreparedKnown /\ NamesKnown /\ OneStatus
    /\ TombstonesDeserved /\ WorkerKnows /\ CallsTyped /\ WrittenAndTracked

-----------------------------------------------------------------------------
(* What an update does to the graph.  Values are only ever replaced by the *)
(* statements for a status and for a score; what is new is about a node    *)
(* that is known, or that is no identifier of a call, or is named.         *)

Changes(old, new, named) ==
    /\ \A t \in new : t = <<t[1], t[2], t[3]>>
    /\ \A t \in old : t[2] \notin Replaced => t \in new
    /\ \A n : Known(old, n) => Known(new, n)
    /\ \A t \in new : Known(old, t[1]) \/ t[1] \notin Requests \/ t[1] \in named
    /\ \A d : Superseded \in Statuses(old, d) => Superseded \in Statuses(new, d)
    /\ \A t \in new : t[2] = "decisionStatus" =>
          \/ t \in old
          \/ t[3][1] = "iri"
          \/ t[3] = Superseded /\ Statuses(new, t[1]) = {Superseded}
          \/ t[3] = Active /\ Superseded \notin Statuses(new, t[1])
    /\ \A t \in new : t[2] = "tombstone" /\ t[3] = Tombstone =>
          t \in old \/ Superseded \in Statuses(old, t[1])

Shaped(g) == \A t \in g : t = <<t[1], t[2], t[3]>>

\* The values of a property, triple by triple.
LEMMA ObjectsAre ==
    ASSUME NEW g, NEW s, NEW p, NEW x
    PROVE  x \in Objects(g, s, p) <=> \E t \in g : t[1] = s /\ t[2] = p /\ t[3] = x
  BY DEF Objects

\* An insert that gives no decision a status, or only makes a node its status.
LEMMA AddsOnly ==
    ASSUME NEW old, NEW added, NEW named, Shaped(old), Shaped(added),
           \A t \in added :
               /\ t[2] = "decisionStatus" => t[3][1] = "iri"
               /\ t[2] = "tombstone" /\ t[3] = Tombstone =>
                     Superseded \in Statuses(old, t[1])
               /\ Known(old, t[1]) \/ t[1] \notin Requests \/ t[1] \in named
    PROVE  Changes(old, old \cup added, named)
  <1> DEFINE new == old \cup added
  <1>1. \A t \in new : t = <<t[1], t[2], t[3]>>
    BY DEF Shaped
  <1>2. \A t \in new : Known(old, t[1]) \/ t[1] \notin Requests \/ t[1] \in named
    BY DEF Known
  <1>3. \A d : Superseded \in Statuses(old, d) => Superseded \in Statuses(new, d)
    BY DEF Statuses, Objects
  <1>4. \A n : Known(old, n) => Known(new, n)
    BY DEF Known
  <1>5. \A t \in new : t[2] = "decisionStatus" => t \in old \/ t[3][1] = "iri"
    OBVIOUS
  <1>6. \A t \in new : t[2] = "tombstone" /\ t[3] = Tombstone =>
            t \in old \/ Superseded \in Statuses(old, t[1])
    OBVIOUS
  <1>7. old \subseteq new
    OBVIOUS
  <1> HIDE DEF new
  <1> QED
    <2>1. Changes(old, new, named)
      BY <1>1, <1>2, <1>3, <1>4, <1>5, <1>6, <1>7 DEF Changes
    <2> QED
      BY <2>1 DEF new

\* The insert of a decision nobody has written about.
LEMMA AddsDecision ==
    ASSUME NEW old, NEW r \in Requests, NEW q, Shaped(old), ~Known(old, r)
    PROVE  Changes(old, old \cup DecisionTriples(r, q), {r})
  <1> DEFINE added == DecisionTriples(r, q)
             new   == old \cup added
  <1>1. \A t \in added : t = <<t[1], t[2], t[3]>> /\ t[1] = r
    BY DEF DecisionTriples
  <1>2. \A t \in added : t[2] = "decisionStatus" => t[3] = Active \/ t[3][1] = "iri"
    BY DEF DecisionTriples, Active, Iri
  <1>3. \A t \in added : t[3] # Tombstone
    BY DEF DecisionTriples, Tombstone, Iri, Literal
  <1> HIDE DEF added
  <1>4. \A t \in old : t[1] # r
    BY DEF Known
  <1>5. Superseded \notin Statuses(new, r)
    <2>1. \A t \in new : t[1] = r /\ t[2] = "decisionStatus" => t[3] # Superseded
      BY <1>2, <1>4 DEF Active, Superseded, Literal
    <2> QED
      BY <2>1, ObjectsAre DEF Statuses
  <1> QED
    <2>1. \A t \in new : t = <<t[1], t[2], t[3]>>
      BY <1>1 DEF Shaped
    <2>2. \A t \in new : Known(old, t[1]) \/ t[1] \notin Requests \/ t[1] \in {r}
      BY <1>1 DEF Known
    <2>3. \A d : Superseded \in Statuses(old, d) => Superseded \in Statuses(new, d)
      BY DEF Statuses, Objects
    <2>4. \A n : Known(old, n) => Known(new, n)
      BY DEF Known
    <2>5. \A t \in new : t[2] = "decisionStatus" =>
              t \in old \/ t[3][1] = "iri" \/ (t[3] = Active /\ Superseded \notin Statuses(new, t[1]))
      BY <1>1, <1>2, <1>5
    <2>6. \A t \in new : t[2] = "tombstone" /\ t[3] = Tombstone => t \in old
      BY <1>3
    <2>7. old \subseteq new
      OBVIOUS
    <2> HIDE DEF new
    <2>8. Changes(old, new, {r})
      BY <2>1, <2>2, <2>3, <2>4, <2>5, <2>6, <2>7 DEF Changes
    <2> QED
      BY <2>8 DEF new, added

\* The update that supersedes a decision, if there is one.
LEMMA ReplacesStatus ==
    ASSUME NEW old, NEW d, Shaped(old), NEW named
    PROVE  Changes(old, SupersedeIn(old, d), named)
  <1> DEFINE new == SupersedeIn(old, d)
  <1>1. CASE Statuses(old, d) = {}
    <2>1. new = old
      BY <1>1 DEF SupersedeIn
    <2>2. \A t \in old : Known(old, t[1])
      BY DEF Known
    <2> QED
      BY <2>1, <2>2 DEF Changes, Shaped
  <1>2. CASE Statuses(old, d) # {}
    <2>1. new = {t \in old : t[1] # d \/ t[2] # "decisionStatus"}
                \cup {<<d, "decisionStatus", Superseded>>}
      BY <1>2 DEF SupersedeIn, Superseded
    <2>2. Known(old, d)
      BY <1>2 DEF Statuses, Objects, Known
    <2> HIDE DEF new
    <2>3. \A t \in new : t = <<t[1], t[2], t[3]>>
      BY <2>1 DEF Shaped
    <2>4. \A t \in old : t[2] \notin Replaced => t \in new
      BY <2>1 DEF Replaced
    <2>5. \A t \in new : Known(old, t[1])
      BY <2>1, <2>2 DEF Known
    <2>6. Statuses(new, d) = {Superseded}
      <3>1. \A t \in new : t[1] = d /\ t[2] = "decisionStatus" => t[3] = Superseded
        BY <2>1
      <3>2. <<d, "decisionStatus", Superseded>> \in new
        BY <2>1
      <3>3. \A x : x \in Statuses(new, d) <=> x = Superseded
        BY <3>1, <3>2, ObjectsAre DEF Statuses
      <3> QED
        BY <3>3
    <2>7. ASSUME NEW e, e # d
          PROVE  Statuses(new, e) = Statuses(old, e)
      BY <2>1, <2>7 DEF Statuses, Objects
    <2>8. \A e : Superseded \in Statuses(old, e) => Superseded \in Statuses(new, e)
      BY <2>6, <2>7
    <2>9. \A t \in new : t[2] = "tombstone" => t \in old
      BY <2>1
    <2>10. ASSUME NEW n, Known(old, n)
           PROVE  Known(new, n)
      <3>1. PICK t \in old : t[1] = n
        BY <2>10 DEF Known
      <3>2. CASE t \in new
        BY <3>1, <3>2 DEF Known
      <3>3. CASE t \notin new
        <4>1. n = d
          BY <2>1, <3>1, <3>3
        <4>2. <<d, "decisionStatus", Superseded>> \in new /\ <<d, "decisionStatus", Superseded>>[1] = d
          BY <2>1
        <4> QED
          BY <4>1, <4>2 DEF Known
      <3> QED
        BY <3>2, <3>3
    <2>11. \A t \in new : t[2] = "decisionStatus" =>
              t \in old \/ (t[3] = Superseded /\ Statuses(new, t[1]) = {Superseded})
      BY <2>1, <2>6
    <2>12. Changes(old, new, named)
      BY <2>3, <2>4, <2>5, <2>8, <2>9, <2>10, <2>11 DEF Changes
    <2> QED
      BY <2>12 DEF new
  <1> QED
    BY <1>1, <1>2

\* The update that replaces a score.
LEMMA ReplacesScore ==
    ASSUME NEW old, NEW e, NEW score, Shaped(old), Known(old, e), NEW named
    PROVE  Changes(old, ScoreSet(old, e, score), named)
  <1> DEFINE new == ScoreSet(old, e, score)
  <1>1. new = {t \in old : t[1] # e \/ t[2] # "graphImportance"}
              \cup {<<e, "graphImportance", score>>}
    BY DEF ScoreSet
  <1> HIDE DEF new
  <1>2. \A t \in new : t = <<t[1], t[2], t[3]>>
    BY <1>1 DEF Shaped
  <1>3. \A t \in old : t[2] \notin Replaced => t \in new
    BY <1>1 DEF Replaced
  <1>4. \A t \in new : Known(old, t[1])
    BY <1>1 DEF Known
  <1>5. ASSUME NEW d
        PROVE  Statuses(new, d) = Statuses(old, d)
    <2>1. \A x : x \in Statuses(new, d) <=> x \in Statuses(old, d)
      BY <1>1, ObjectsAre DEF Statuses
    <2> QED
      BY <2>1 DEF Statuses, Objects
  <1>6. \A t \in new : t[2] \in {"decisionStatus", "tombstone"} => t \in old
    BY <1>1
  <1>7. ASSUME NEW n, Known(old, n)
        PROVE  Known(new, n)
    <2>1. PICK t \in old : t[1] = n
      BY <1>7 DEF Known
    <2>2. CASE t \in new
      BY <2>1, <2>2 DEF Known
    <2>3. CASE t \notin new
      <3>1. n = e
        BY <1>1, <2>1, <2>3
      <3>2. <<e, "graphImportance", score>> \in new /\ <<e, "graphImportance", score>>[1] = e
        BY <1>1
      <3> QED
        BY <3>1, <3>2 DEF Known
    <2> QED
      BY <2>2, <2>3
  <1>8. Changes(old, new, named)
    BY <1>2, <1>3, <1>4, <1>5, <1>6, <1>7 DEF Changes
  <1> QED
    BY <1>8 DEF new

-----------------------------------------------------------------------------
(* The steps.                                                              *)

\* Where a triple of an observation comes from.
LEMMA ObservationHas ==
    ASSUME NEW o, NEW args, NEW t
    PROVE  t \in ObservationTriples(o, args) <=>
               \/ t \in {<<o, "type", Iri("InformationElement")>>,
                         <<o, "identifier", Literal(o)>>,
                         <<o, "plainTextContent", Literal(args.text)>>}
               \/ \E e \in ToSet(args.entities) :
                     t \in {<<o, "hasEntity", Iri(e.uri)>>,
                            <<e.uri, "type", Iri("Entity")>>,
                            <<e.uri, "label", Literal(e.label)>>}
               \/ \E n \in ToSet(args.relations) : t = <<n.subject, n.predicate, Iri(n.object)>>
  BY DEF ObservationTriples

\* No observation marks a decision or gives it a status that is a text.
LEMMA ObservationsLeave ==
    ASSUME NEW o, NEW args
    PROVE  \A t \in ObservationTriples(o, args) :
               /\ t = <<t[1], t[2], t[3]>>
               /\ t[2] = "decisionStatus" => t[3][1] = "iri"
               /\ t[3] # Tombstone
  <1> TAKE t \in ObservationTriples(o, args)
  <1>1. CASE t \in {<<o, "type", Iri("InformationElement")>>,
                    <<o, "identifier", Literal(o)>>,
                    <<o, "plainTextContent", Literal(args.text)>>}
    BY <1>1 DEF Tombstone, Iri, Literal
  <1>2. ASSUME NEW e \in ToSet(args.entities),
               t \in {<<o, "hasEntity", Iri(e.uri)>>,
                      <<e.uri, "type", Iri("Entity")>>,
                      <<e.uri, "label", Literal(e.label)>>}
        PROVE  /\ t = <<t[1], t[2], t[3]>> /\ t[2] # "decisionStatus" /\ t[3] # Tombstone
    BY <1>2 DEF Tombstone, Iri, Literal
  <1>3. ASSUME NEW n \in ToSet(args.relations), t = <<n.subject, n.predicate, Iri(n.object)>>
        PROVE  /\ t = <<t[1], t[2], t[3]>> /\ t[3][1] = "iri" /\ t[3] # Tombstone
    BY <1>3 DEF Tombstone, Iri
  <1> QED
    BY <1>1, <1>2, <1>3, ObservationHas

\* What an observation is about is what its call names, and itself.
LEMMA ObservationNames ==
    ASSUME NEW o, NEW q, q.kind \in {"observe", "extract"}
    PROVE  \A t \in ObservationTriples(o, Content(q)) : t[1] = o \/ t[1] \in Subjects(q)
  <1> DEFINE c == Content(q)
  <1>1. Subjects(q) = {e.uri : e \in ToSet(c.entities)} \cup {n.subject : n \in ToSet(c.relations)}
    BY DEF Subjects
  <1> HIDE DEF c
  <1>2. \A t \in ObservationTriples(o, c) : t[1] = o \/ t[1] \in Subjects(q)
    BY <1>1, ObservationHas
  <1> QED
    BY <1>2 DEF c

\* What any step does to the graph: nothing, or an update that names only calls
\* which are done with their writing.
GraphStep ==
    \/ graph' = graph
    \/ \E named \in SUBSET Requests :
          /\ Changes(graph, graph', named)
          /\ Accepts(graph')
          /\ \A r \in named : pc'[r] \notin Open

\* The operations of one statement.
LEMMA ExecuteStep ==
    ASSUME IInv, NEW r \in Requests, NEW identifiers, NEW new,
           pc[r] = "asked", Execute(r, identifiers, new),
           Changes(graph, new, {r})
    PROVE  /\ GraphStep
           /\ \E where \in {"done", "failed"} : pc' = [pc EXCEPT ![r] = where]
           /\ UNCHANGED <<prepared, tracked, worker>>
           /\ faults' \in 0..MaxFaults
  <1>1. pc \in [Requests -> {"asked", "persisting", "persisted", "done", "failed"}]
    BY DEF IInv, CallsTyped
  <1>2. faults \in 0..MaxFaults
    BY DEF IInv, CallsTyped
  <1>3. \/ Updates(new) /\ Goes(r, "done")
        \/ UpdateFails(new) /\ Goes(r, "failed")
        \/ Goes(r, "failed") /\ UNCHANGED <<graph, faults>>
    BY DEF Execute
  <1>4. UNCHANGED <<prepared, tracked, worker>>
    BY DEF Execute
  <1>5. CASE Updates(new) /\ Goes(r, "done")
    <2>1. pc'[r] \notin Open
      BY <1>1, <1>5 DEF Goes, Open
    <2>2. Changes(graph, graph', {r}) /\ Accepts(graph')
      BY <1>5 DEF Updates
    <2> QED
      BY <1>2, <1>4, <1>5, <2>1, <2>2 DEF GraphStep, Updates, Goes
  <1>6. CASE UpdateFails(new) /\ Goes(r, "failed")
    BY <1>2, <1>4, <1>6, FaultsBounded DEF GraphStep, UpdateFails, Fault, Goes
  <1>7. CASE Goes(r, "failed") /\ UNCHANGED <<graph, faults>>
    BY <1>2, <1>4, <1>7 DEF GraphStep, Goes
  <1> QED
    BY <1>3, <1>5, <1>6, <1>7

\* Each of them makes one of the updates above.
LEMMA OneStatement ==
    ASSUME IInv, NEW r \in Requests, NEW q \in Request[r],
           \/ RecordDecision(r, q) \/ Supersede(r, q)
           \/ CaptureToolCall(r, q) \/ LinkToolCall(r, q)
           \/ CreateContainer(r, q) \/ CreateSymbol(r, q)
    PROVE  /\ GraphStep
           /\ pc[r] = "asked" /\ q.kind \notin {"observe", "extract"}
           /\ \E where \in {"done", "failed"} : pc' = [pc EXCEPT ![r] = where]
           /\ UNCHANGED <<prepared, tracked, worker>>
           /\ faults' \in 0..MaxFaults
  <1>1. Shaped(graph)
    BY DEF IInv, GraphTyped, Shaped
  <1>2. pc[r] = "asked" /\ q.kind \notin {"observe", "extract"}
    BY DEF RecordDecision, Supersede, CaptureToolCall, LinkToolCall,
           CreateContainer, CreateSymbol, Makes
  <1>3. \A n \in Subjects(q) : n \notin Requests \/ Known(graph, n)
    BY DEF RecordDecision, Supersede, CaptureToolCall, LinkToolCall,
           CreateContainer, CreateSymbol, Makes
  <1>4. CASE RecordDecision(r, q)
    <2>1. ~Known(graph, r)
      BY <1>2 DEF IInv, OpenUnwritten, Open, Known
    <2>2. Changes(graph, graph \cup DecisionTriples(r, q), {r})
      BY <1>1, <2>1, AddsDecision
    <2> QED
      BY <1>2, <1>4, <2>2, ExecuteStep DEF RecordDecision
  <1>5. CASE Supersede(r, q)
    BY <1>1, <1>2, <1>5, ReplacesStatus, ExecuteStep DEF Supersede
  <1>6. CASE CaptureToolCall(r, q)
    <2>1. PICK uri \in CallUris : Execute(r, {}, graph \cup ToolCallTriples(uri, q))
      BY <1>6 DEF CaptureToolCall
    <2>2. uri \notin Requests
      BY IdentifiersAreNew
    <2>3. \A t \in ToolCallTriples(uri, q) :
              /\ t = <<t[1], t[2], t[3]>> /\ t[1] = uri
              /\ t[2] \notin {"decisionStatus", "tombstone"}
      BY DEF ToolCallTriples
    <2>4. Changes(graph, graph \cup ToolCallTriples(uri, q), {r})
      <3> HIDE DEF Shaped
      <3>1. Shaped(ToolCallTriples(uri, q))
        BY <2>3 DEF Shaped
      <3> QED
        BY <1>1, <2>2, <2>3, <3>1, AddsOnly
    <2> QED
      BY <1>2, <2>1, <2>4, ExecuteStep
  <1>7. CASE LinkToolCall(r, q)
    <2>1. q.call \notin Requests \/ Known(graph, q.call)
      BY <1>3, <1>7 DEF Subjects, LinkToolCall, Makes
    <2>2. EvidenceTriples(q.call, q.decision) = {<<q.call, "evidenceFor", Iri(q.decision)>>}
      BY DEF EvidenceTriples
    <2>3. Changes(graph, graph \cup EvidenceTriples(q.call, q.decision), {r})
      <3>1. Shaped(EvidenceTriples(q.call, q.decision))
        BY <2>2 DEF Shaped
      <3> QED
        BY <1>1, <2>1, <2>2, <3>1, AddsOnly
    <2> QED
      BY <1>2, <1>7, <2>3, ExecuteStep DEF LinkToolCall
  <1>8. CASE CreateContainer(r, q)
    <2>1. q.path \notin Requests \/ Known(graph, q.path)
      BY <1>3, <1>8 DEF Subjects, CreateContainer, Makes
    <2>2. \A t \in ContainerTriples(q.path) :
              /\ t = <<t[1], t[2], t[3]>> /\ t[1] = q.path
              /\ t[2] \notin {"decisionStatus", "tombstone"}
      BY DEF ContainerTriples
    <2>3. Changes(graph, graph \cup ContainerTriples(q.path), {r})
      <3>1. Shaped(ContainerTriples(q.path))
        BY <2>2 DEF Shaped
      <3> QED
        BY <1>1, <2>1, <2>2, <3>1, AddsOnly
    <2> QED
      BY <1>2, <1>8, <2>3, ExecuteStep DEF CreateContainer
  <1>9. CASE CreateSymbol(r, q)
    <2>1. q.name \notin Requests \/ Known(graph, q.name)
      BY <1>3, <1>9 DEF Subjects, CreateSymbol, Makes
    <2>2. \A t \in SymbolTriples(q.name, q.container) :
              /\ t = <<t[1], t[2], t[3]>> /\ t[1] = q.name
              /\ t[2] \notin {"decisionStatus", "tombstone"}
      BY DEF SymbolTriples
    <2>3. Changes(graph, graph \cup SymbolTriples(q.name, q.container), {r})
      <3>1. Shaped(SymbolTriples(q.name, q.container))
        BY <2>2 DEF Shaped
      <3> QED
        BY <1>1, <2>1, <2>2, <3>1, AddsOnly
    <2> QED
      BY <1>2, <1>9, <2>3, ExecuteStep DEF CreateSymbol
  <1> QED
    BY <1>4, <1>5, <1>6, <1>7, <1>8, <1>9

\* The steps of an observation before it is stored, and those that track it.
LEMMA ObservationStep ==
    ASSUME IInv, NEW r \in Requests, NEW q \in Request[r],
           Ingest(r, q) \/ ExtractAndIngest(r, q) \/ ExtractionFails(r, q)
    PROVE  /\ UNCHANGED <<graph, tracked, worker>>
           /\ pc[r] = "asked" /\ q.kind \in {"observe", "extract"}
           /\ \A n \in Subjects(q) \cap Requests : Known(graph, n)
           /\ \/ /\ pc' = [pc EXCEPT ![r] = "persisting"]
                 /\ prepared' = [prepared EXCEPT ![r] = Content(q)]
              \/ pc' = [pc EXCEPT ![r] = "failed"] /\ UNCHANGED prepared
           /\ faults' \in 0..MaxFaults
  <1>1. faults \in 0..MaxFaults
    BY DEF IInv, CallsTyped
  <1> QED
    BY <1>1, FaultsBounded DEF Ingest, ExtractAndIngest, ExtractionFails, Makes, Prepare, Goes, Fault

\* An observation is stored whole, about nodes that its call may name.
LEMMA PersistStep ==
    ASSUME IInv, NEW r \in Requests, Persist(r)
    PROVE  GraphStep /\ Written(graph', ObservationTriples(r, prepared[r]))
  <1> DEFINE o == ObservationTriples(r, prepared[r])
  <1>1. Shaped(graph)
    BY DEF IInv, GraphTyped, Shaped
  <1>2. \A t \in o : /\ t = <<t[1], t[2], t[3]>>
                     /\ t[2] = "decisionStatus" => t[3][1] = "iri"
                     /\ t[3] # Tombstone
    BY ObservationsLeave
  <1>3. \A t \in o : t[1] = r \/ t[1] \notin Requests \/ Known(graph, t[1])
    BY DEF IInv, NamesKnown, Persist
  <1>4. graph' = graph \cup o /\ Accepts(graph') /\ pc' = [pc EXCEPT ![r] = "persisted"]
    BY DEF Persist, Updates, Goes
  <1> HIDE DEF o
  <1>5. Changes(graph, graph \cup o, {r})
    <2>1. Shaped(o)
      BY <1>2 DEF Shaped
    <2> QED
      BY <1>1, <1>2, <1>3, <2>1, AddsOnly
  <1>6. pc'[r] \notin Open
    BY <1>4 DEF IInv, CallsTyped, Open
  <1> QED
    BY <1>4, <1>5, <1>6 DEF GraphStep, Written, o

\* What the worker has read names nodes that are in the graph.
LEMMA WorkerUpdates ==
    ASSUME IInv, NEW e \in worker.todo,
           \/ worker.at = "writing" /\ Updates(Scored(e))
           \/ worker.at = "tombstoning" /\ Updates(Tombstoned(e))
    PROVE  GraphStep
  <1>1. Shaped(graph)
    BY DEF IInv, GraphTyped, Shaped
  <1>2. CASE worker.at = "writing" /\ Updates(Scored(e))
    <2>1. Known(graph, e)
      BY <1>2 DEF IInv, WorkerKnows, Labelled, Known
    <2>2. Changes(graph, Scored(e), {})
      BY <1>1, <2>1, ReplacesScore DEF Scored
    <2> QED
      BY <1>2, <2>2 DEF GraphStep, Updates
  <1>3. CASE worker.at = "tombstoning" /\ Updates(Tombstoned(e))
    <2>1. e \in Decisions(graph) /\ Superseded \in Statuses(graph, e)
      BY <1>3 DEF IInv, WorkerKnows
    <2>2. Known(graph, e)
      BY <2>1 DEF Decisions, Known
    <2>3. Changes(graph, graph \cup {<<e, "tombstone", Tombstone>>}, {})
      <3>1. Shaped({<<e, "tombstone", Tombstone>>})
        BY DEF Shaped
      <3> QED
        BY <1>1, <2>1, <2>2, <3>1, AddsOnly
    <2> QED
      BY <1>3, <2>3 DEF GraphStep, Updates, Tombstoned
  <1> QED
    BY <1>2, <1>3

\* What follows of a step for everything the invariant says about the graph.
Kept ==
    /\ \A t \in graph : t[2] \notin Replaced => t \in graph'
    /\ Labelled(graph) \subseteq Labelled(graph')
    /\ Decisions(graph) \subseteq Decisions(graph')
    /\ \A n : Known(graph, n) => Known(graph', n)
    /\ \A d : Superseded \in Statuses(graph, d) => Superseded \in Statuses(graph', d)

\* The parts of the invariant that speak of the graph survive each update.
LEMMA GraphAfter ==
    ASSUME IInv, GraphStep, \A r \in Requests : pc'[r] \in Open => pc[r] \in Open
    PROVE  /\ (GraphTyped /\ OpenUnwritten /\ OneStatus /\ TombstonesDeserved)'
           /\ Kept
  <1>1. GraphTyped /\ OpenUnwritten /\ OneStatus /\ TombstonesDeserved
    BY DEF IInv
  <1>2. CASE graph' = graph
    <2>1. Kept
      BY <1>2 DEF Kept
    <2>2. OpenUnwritten'
      BY <1>1, <1>2 DEF OpenUnwritten
    <2> QED
      BY <1>1, <1>2, <2>1, <2>2 DEF GraphTyped, OneStatus, TombstonesDeserved
  <1>3. ASSUME NEW named \in SUBSET Requests,
               Changes(graph, graph', named), Accepts(graph'),
               \A r \in named : pc'[r] \notin Open
        PROVE  /\ (GraphTyped /\ OpenUnwritten /\ OneStatus /\ TombstonesDeserved)'
               /\ Kept
    <2>1. GraphTyped'
      BY <1>3 DEF GraphTyped, Changes, Accepts
    <2>2. OpenUnwritten'
      <3> SUFFICES ASSUME NEW r \in Requests, pc'[r] \in Open, NEW t \in graph', t[1] = r
                   PROVE  FALSE
        BY DEF OpenUnwritten
      <3>1. ~Known(graph, r)
        BY <1>1 DEF OpenUnwritten, Known
      <3> QED
        BY <1>3, <3>1 DEF Changes
    <2>3. \A t \in graph' : t[2] = "decisionStatus" =>
              \/ t \in graph
              \/ t[3][1] = "iri"
              \/ t[3] = Superseded /\ Statuses(graph', t[1]) = {Superseded}
              \/ t[3] = Active /\ Superseded \notin Statuses(graph', t[1])
      BY <1>3 DEF Changes
    <2>4. /\ \A d : Superseded \in Statuses(graph, d) => Superseded \in Statuses(graph', d)
          /\ \A n : Known(graph, n) => Known(graph', n)
      BY <1>3 DEF Changes
    <2>5. OneStatus'
      <3>1. \A t \in graph' : t[2] = "decisionStatus" =>
                t[3] \in {Active, Superseded} \/ t[3][1] = "iri"
        BY <1>1, <2>3 DEF OneStatus
      <3>2. ASSUME NEW d, Active \in Statuses(graph', d), Superseded \in Statuses(graph', d)
            PROVE  FALSE
        <4>1. PICK a \in graph' : a[1] = d /\ a[2] = "decisionStatus" /\ a[3] = Active
          BY <3>2, ObjectsAre DEF Statuses
        <4>2. PICK s \in graph' : s[1] = d /\ s[2] = "decisionStatus" /\ s[3] = Superseded
          BY <3>2, ObjectsAre DEF Statuses
        <4>3. Active # Superseded /\ Active[1] # "iri" /\ Superseded[1] # "iri"
          BY DEF Active, Superseded, Literal
        <4>4. s \in graph
          BY <2>3, <3>2, <4>2, <4>3
        <4>5. a \in graph
          BY <2>3, <3>2, <4>1, <4>3
        <4>6. Active \in Statuses(graph, d) /\ Superseded \in Statuses(graph, d)
          BY <4>1, <4>2, <4>4, <4>5, ObjectsAre DEF Statuses
        <4> QED
          BY <1>1, <4>6 DEF OneStatus
      <3> QED
        BY <3>1, <3>2 DEF OneStatus
    <2>6. TombstonesDeserved'
      <3> SUFFICES ASSUME NEW t \in graph', t[2] = "tombstone", t[3] = Tombstone
                   PROVE  Superseded \in Statuses(graph', t[1])
        BY DEF TombstonesDeserved
      <3>1. t \in graph \/ Superseded \in Statuses(graph, t[1])
        BY <1>3 DEF Changes
      <3> QED
        BY <1>1, <2>4, <3>1 DEF TombstonesDeserved
    <2>7. \A t \in graph : t[2] \notin Replaced => t \in graph'
      BY <1>3 DEF Changes
    <2>8. Labelled(graph) \subseteq Labelled(graph') /\ Decisions(graph) \subseteq Decisions(graph')
      BY <2>7 DEF Labelled, Decisions, Replaced
    <2> QED
      BY <2>1, <2>2, <2>4, <2>5, <2>6, <2>7, <2>8 DEF Kept
  <1> QED
    BY <1>2, <1>3 DEF GraphStep

\* A request is somewhere else than it was.
LEMMA PcAfter ==
    ASSUME IInv, NEW r \in Requests, NEW where, pc' = [pc EXCEPT ![r] = where]
    PROVE  /\ pc'[r] = where
           /\ \A s \in Requests : s # r => pc'[s] = pc[s]
           /\ where \in {"asked", "persisting", "persisted", "done", "failed"} =>
                 pc' \in [Requests -> {"asked", "persisting", "persisted", "done", "failed"}]
  BY DEF IInv, CallsTyped

\* While the worker rests, what it knows stays true.
LEMMA WorkerStillKnows ==
    ASSUME IInv, Kept, UNCHANGED worker
    PROVE  WorkerKnows'
  BY DEF IInv, Kept, WorkerKnows

\* Dealing with an item leaves the others.
LEMMA WorkerDone ==
    ASSUME IInv, Kept, NEW e \in worker.todo, worker.at # "counting", worker' = WithDone(e)
    PROVE  WorkerKnows'
  <1>1. WorkerKnows /\ Idle.at = "idle" /\ Idle.todo = {}
    BY DEF IInv, Idle
  <1>2. CASE worker.todo = {e}
    <2>1. worker' = Idle
      BY <1>2 DEF WithDone
    <2> QED
      BY <2>1 DEF WorkerKnows, Idle
  <1>3. CASE worker.todo # {e}
    <2>1. worker' = [worker EXCEPT !.todo = @ \ {e}]
      BY <1>3 DEF WithDone
    <2>2. /\ worker'.at = worker.at /\ worker'.todo = worker.todo \ {e}
          /\ worker'.count = worker.count /\ worker'.among = worker.among
          /\ worker' = [at |-> worker'.at, todo |-> worker'.todo,
                        count |-> worker'.count, among |-> worker'.among]
      BY <1>1, <2>1 DEF WorkerKnows
    <2>3. worker'.todo # {}
      BY <1>3, <2>2
    <2> QED
      BY <1>1, <2>2, <2>3 DEF WorkerKnows, Kept, Idle
  <1> QED
    BY <1>2, <1>3

\* Written observations stay written, whoever else takes a step, and what one is
\* about stays known.
LEMMA StillWritten ==
    ASSUME Kept, NEW triples, Written(graph, triples)
    PROVE  Written(graph', triples)
  BY DEF Kept, Written

\* What an observation in flight is about stays known.
LEMMA StillNamed ==
    ASSUME IInv, Kept, UNCHANGED prepared,
           \A r \in Requests : pc'[r] = "persisting" => pc[r] = "persisting"
    PROVE  NamesKnown'
  BY DEF IInv, Kept, NamesKnown

\* A step in which no observation moves.
LEMMA OthersWritten ==
    ASSUME IInv, Kept, UNCHANGED <<prepared, tracked>>,
           \A r \in Observed : pc'[r] = pc[r]
    PROVE  WrittenAndTracked'
  <1>1. WrittenAndTracked
    BY DEF IInv
  <1>2. ASSUME NEW r \in Observed
        PROVE  IF pc'[r] \in {"persisted", "done"}
               THEN /\ Written(graph', ObservationTriples(r, prepared[r]))
                    /\ tracked[r] = IF pc'[r] = "done" THEN ProvenanceTriples(r, prepared[r]) ELSE {}
               ELSE tracked[r] = {}
    BY <1>1, StillWritten DEF WrittenAndTracked
  <1>3. Observed' = Observed
    BY DEF Observed, Requests
  <1> QED
    BY <1>2, <1>3 DEF WrittenAndTracked

\* Every step of a call preserves the invariant and loses nothing.
LEMMA RequestStepInductive ==
    ASSUME IInv, NEW r \in Requests, RequestStep(r)
    PROVE  IInv' /\ Kept
  <1> USE DEF Open
  <1>1. PreparedKnown /\ CallsTyped /\ WrittenAndTracked
    BY DEF IInv
  <1>2. ASSUME NEW q \in Request[r],
               Ingest(r, q) \/ ExtractAndIngest(r, q) \/ ExtractionFails(r, q)
        PROVE  IInv' /\ Kept
    <2>1. /\ UNCHANGED <<graph, tracked, worker>>
          /\ pc[r] = "asked" /\ q.kind \in {"observe", "extract"}
          /\ \A n \in Subjects(q) \cap Requests : Known(graph, n)
          /\ \/ /\ pc' = [pc EXCEPT ![r] = "persisting"]
                /\ prepared' = [prepared EXCEPT ![r] = Content(q)]
             \/ pc' = [pc EXCEPT ![r] = "failed"] /\ UNCHANGED prepared
          /\ faults' \in 0..MaxFaults
      BY <1>2, ObservationStep
    <2>2. /\ pc'[r] \in {"persisting", "failed"}
          /\ \A s \in Requests : s # r => pc'[s] = pc[s]
          /\ pc' \in [Requests -> {"asked", "persisting", "persisted", "done", "failed"}]
      BY <2>1, PcAfter
    <2>3. \A s \in Requests : pc'[s] \in Open => pc[s] \in Open
      BY <2>1, <2>2
    <2>4. GraphStep
      BY <2>1 DEF GraphStep
    <2>5. (GraphTyped /\ OpenUnwritten /\ OneStatus /\ TombstonesDeserved)' /\ Kept
      BY <2>3, <2>4, GraphAfter
    <2>6. /\ prepared' = [s \in Requests |-> prepared'[s]] /\ DOMAIN prepared' = Requests
          /\ \A s \in Requests : s # r => prepared'[s] = prepared[s]
          /\ prepared'[r] \in {prepared[r], Content(q)}
      BY <1>1, <2>1 DEF CallsTyped
    <2>7. PreparedKnown'
      BY <1>1, <2>1, <2>6 DEF PreparedKnown
    <2>8. WorkerKnows'
      BY <2>1, <2>5, WorkerStillKnows
    <2>9. CallsTyped'
      BY <1>1, <2>1, <2>2, <2>6 DEF CallsTyped
    <2>10. WrittenAndTracked'
      <3>1. \A s \in Observed : s \in Requests
        BY DEF Observed
      <3>2. tracked[r] = {} \/ r \notin Observed
        BY <1>1, <2>1 DEF WrittenAndTracked
      <3>3. \A s \in Observed : s # r /\ pc[s] \in {"persisted", "done"} =>
                Written(graph', ObservationTriples(s, prepared[s]))
        BY <1>1, <2>1 DEF WrittenAndTracked
      <3> QED
        BY <1>1, <2>1, <2>2, <2>6, <3>1, <3>2, <3>3 DEF WrittenAndTracked
    <2>11. NamesKnown'
      <3>1. ASSUME NEW s \in Requests, pc'[s] = "persisting"
            PROVE  \A t \in ObservationTriples(s, prepared'[s]) :
                       t[1] = s \/ t[1] \notin Requests \/ Known(graph', t[1])
        <4>1. CASE s = r
          <5>1. prepared'[r] = Content(q)
            BY <1>1, <2>1, <2>2, <3>1, <4>1 DEF CallsTyped
          <5> QED
            BY <2>1, <4>1, <5>1, ObservationNames
        <4>2. CASE s # r
          BY <2>1, <2>2, <2>6, <3>1, <4>2 DEF IInv, NamesKnown
        <4> QED
          BY <4>1, <4>2
      <3> QED
        BY <3>1 DEF NamesKnown
    <2> QED
      BY <2>5, <2>7, <2>8, <2>9, <2>10, <2>11 DEF IInv
  <1>3. ASSUME NEW q \in Request[r],
               \/ RecordDecision(r, q) \/ Supersede(r, q)
               \/ CaptureToolCall(r, q) \/ LinkToolCall(r, q)
               \/ CreateContainer(r, q) \/ CreateSymbol(r, q)
        PROVE  IInv' /\ Kept
    <2>1. /\ GraphStep
          /\ pc[r] = "asked" /\ q.kind \notin {"observe", "extract"}
          /\ \E where \in {"done", "failed"} : pc' = [pc EXCEPT ![r] = where]
          /\ UNCHANGED <<prepared, tracked, worker>>
          /\ faults' \in 0..MaxFaults
      BY <1>3, OneStatement
    <2>2. /\ pc'[r] # "persisting"
          /\ \A s \in Requests : s # r => pc'[s] = pc[s]
          /\ pc' \in [Requests -> {"asked", "persisting", "persisted", "done", "failed"}]
      BY <2>1, PcAfter
    <2>3. \A s \in Requests : pc'[s] \in Open => pc[s] \in Open
      BY <2>1, <2>2
    <2>4. (GraphTyped /\ OpenUnwritten /\ OneStatus /\ TombstonesDeserved)' /\ Kept
      BY <2>1, <2>3, GraphAfter
    <2>5. r \notin Observed
      BY <2>1 DEF Observed
    <2>6. WrittenAndTracked'
      <3>1. \A s \in Observed : pc'[s] = pc[s]
        BY <2>2, <2>5 DEF Observed
      <3> QED
        BY <2>1, <2>4, <3>1, OthersWritten
    <2>7. WorkerKnows'
      BY <2>1, <2>4, WorkerStillKnows
    <2>8. PreparedKnown' /\ CallsTyped'
      BY <1>1, <2>1, <2>2 DEF PreparedKnown, CallsTyped
    <2>9. NamesKnown'
      BY <2>1, <2>2, <2>4, StillNamed
    <2> QED
      BY <2>4, <2>6, <2>7, <2>8, <2>9 DEF IInv
  <1>4. CASE Persist(r)
    <2>1. GraphStep /\ Written(graph', ObservationTriples(r, prepared[r]))
      BY <1>4, PersistStep
    <2>2. /\ pc[r] = "persisting" /\ pc' = [pc EXCEPT ![r] = "persisted"]
          /\ UNCHANGED <<prepared, tracked, worker>>
          /\ faults' = faults
      BY <1>4 DEF Persist, Goes, Updates
    <2>3. /\ pc'[r] = "persisted"
          /\ \A s \in Requests : s # r => pc'[s] = pc[s]
          /\ pc' \in [Requests -> {"asked", "persisting", "persisted", "done", "failed"}]
      BY <2>2, PcAfter
    <2>4. (GraphTyped /\ OpenUnwritten /\ OneStatus /\ TombstonesDeserved)' /\ Kept
      BY <2>1, <2>3, GraphAfter
    <2>5. WrittenAndTracked'
      <3>1. ASSUME NEW s \in Observed
            PROVE  IF pc'[s] \in {"persisted", "done"}
                   THEN /\ Written(graph', ObservationTriples(s, prepared[s]))
                        /\ tracked[s] = IF pc'[s] = "done" THEN ProvenanceTriples(s, prepared[s]) ELSE {}
                   ELSE tracked[s] = {}
        <4>1. CASE s = r
          BY <1>1, <2>1, <2>2, <2>3, <4>1 DEF WrittenAndTracked
        <4>2. CASE s # r
          <5>1. pc'[s] = pc[s]
            BY <2>3, <4>2 DEF Observed
          <5> QED
            BY <1>1, <2>4, <5>1, StillWritten DEF WrittenAndTracked
        <4> QED
          BY <4>1, <4>2
      <3> QED
        BY <2>2, <3>1 DEF WrittenAndTracked
    <2>6. WorkerKnows'
      BY <2>2, <2>4, WorkerStillKnows
    <2>7. PreparedKnown' /\ CallsTyped'
      BY <1>1, <2>2, <2>3 DEF PreparedKnown, CallsTyped
    <2>8. NamesKnown'
      BY <2>2, <2>3, <2>4, StillNamed
    <2> QED
      BY <2>4, <2>5, <2>6, <2>7, <2>8 DEF IInv
  <1>5. CASE PersistFails(r)
    <2>1. /\ pc[r] = "persisting" /\ pc' = [pc EXCEPT ![r] = "failed"]
          /\ UNCHANGED <<graph, prepared, tracked, worker>>
          /\ faults' \in 0..MaxFaults
      BY <1>1, <1>5, FaultsBounded DEF PersistFails, Goes, UpdateFails, Fault, CallsTyped
    <2>2. /\ pc'[r] = "failed"
          /\ \A s \in Requests : s # r => pc'[s] = pc[s]
          /\ pc' \in [Requests -> {"asked", "persisting", "persisted", "done", "failed"}]
      BY <2>1, PcAfter
    <2>3. GraphStep
      BY <2>1 DEF GraphStep
    <2>4. (GraphTyped /\ OpenUnwritten /\ OneStatus /\ TombstonesDeserved)' /\ Kept
      BY <2>1, <2>2, <2>3, GraphAfter
    <2>5. WrittenAndTracked'
      BY <1>1, <2>1, <2>2 DEF WrittenAndTracked, Observed
    <2>6. WorkerKnows'
      BY <2>1, <2>4, WorkerStillKnows
    <2>7. PreparedKnown' /\ CallsTyped'
      BY <1>1, <2>1, <2>2 DEF PreparedKnown, CallsTyped
    <2>8. NamesKnown'
      BY <2>1, <2>2, <2>4, StillNamed
    <2> QED
      BY <2>4, <2>5, <2>6, <2>7, <2>8 DEF IInv
  <1>6. CASE Track(r)
    <2>1. /\ pc[r] = "persisted" /\ pc' = [pc EXCEPT ![r] = "done"]
          /\ tracked' = [tracked EXCEPT ![r] = ProvenanceTriples(r, prepared[r])]
          /\ UNCHANGED <<graph, prepared, worker, faults>>
      BY <1>6 DEF Track, Goes
    <2>2. /\ pc'[r] = "done"
          /\ \A s \in Requests : s # r => pc'[s] = pc[s]
          /\ pc' \in [Requests -> {"asked", "persisting", "persisted", "done", "failed"}]
      BY <2>1, PcAfter
    <2>3. GraphStep
      BY <2>1 DEF GraphStep
    <2>4. (GraphTyped /\ OpenUnwritten /\ OneStatus /\ TombstonesDeserved)' /\ Kept
      BY <2>1, <2>2, <2>3, GraphAfter
    <2>5. /\ tracked' = [s \in Requests |-> tracked'[s]] /\ DOMAIN tracked' = Requests
          /\ tracked'[r] = ProvenanceTriples(r, prepared[r])
          /\ \A s \in Requests : s # r => tracked'[s] = tracked[s]
      BY <1>1, <2>1 DEF CallsTyped
    <2>6. WrittenAndTracked'
      <3>1. \A s \in Observed : s \in Requests
        BY DEF Observed
      <3> QED
        BY <1>1, <2>1, <2>2, <2>5, <3>1 DEF WrittenAndTracked
    <2>7. WorkerKnows'
      BY <2>1, <2>4, WorkerStillKnows
    <2>8. PreparedKnown' /\ CallsTyped'
      BY <1>1, <2>1, <2>2, <2>5 DEF PreparedKnown, CallsTyped
    <2>9. NamesKnown'
      BY <2>1, <2>2, <2>4, StillNamed
    <2> QED
      BY <2>4, <2>6, <2>7, <2>8, <2>9 DEF IInv
  <1> QED
    BY <1>2, <1>3, <1>4, <1>5, <1>6 DEF RequestStep

\* No step of the worker moves a request or touches what it keeps.
LEMMA WorkerStepInductive ==
    ASSUME IInv, UNCHANGED writers, faults' \in 0..MaxFaults, GraphStep,
           Kept => WorkerKnows'
    PROVE  IInv' /\ Kept
  <1>1. UNCHANGED <<pc, prepared, tracked>>
    BY DEF writers
  <1>2. (GraphTyped /\ OpenUnwritten /\ OneStatus /\ TombstonesDeserved)' /\ Kept
    BY <1>1, GraphAfter
  <1>3. WrittenAndTracked'
    BY <1>1, <1>2, OthersWritten
  <1>4. PreparedKnown' /\ CallsTyped'
    BY <1>1 DEF IInv, PreparedKnown, CallsTyped
  <1>5. NamesKnown'
    BY <1>1, <1>2, StillNamed
  <1> QED
    BY <1>2, <1>3, <1>4, <1>5 DEF IInv

\* A refresh has read the labelled nodes and counts one after the other.
LEMMA CountKnows ==
    ASSUME IInv, NEW e \in worker.todo, CountNode(e)
    PROVE  WorkerKnows'
  <1> DEFINE counted == [n \in DOMAIN worker.count \cup {e} |->
                            IF n = e THEN Cardinality(Connected(graph, e)) ELSE worker.count[n]]
  <1>1. WorkerKnows /\ worker.at = "counting" /\ graph' = graph
    BY DEF IInv, CountNode
  <1>2. DOMAIN counted = DOMAIN worker.count \cup {e}
    OBVIOUS
  <1> HIDE DEF counted
  <1>3. Idle.at = "idle"
    BY DEF Idle
  <1>4. CASE worker.todo = {e}
    <2>1. worker' = [worker EXCEPT !.at = "writing", !.todo = DOMAIN counted, !.count = counted]
      BY <1>4 DEF CountNode, counted
    <2>2. /\ worker'.at = "writing" /\ worker'.todo = DOMAIN counted /\ worker'.count = counted
          /\ worker' = [at |-> worker'.at, todo |-> worker'.todo,
                        count |-> worker'.count, among |-> worker'.among]
      BY <1>1, <2>1 DEF WorkerKnows
    <2>3. worker'.todo # {} /\ worker' # Idle
      BY <1>2, <1>3, <2>2
    <2>4. DOMAIN counted \subseteq Labelled(graph)
      BY <1>1, <1>2 DEF WorkerKnows
    <2> QED
      BY <1>1, <2>2, <2>3, <2>4 DEF WorkerKnows
  <1>5. CASE worker.todo # {e}
    <2>1. worker' = [worker EXCEPT !.todo = @ \ {e}, !.count = counted]
      BY <1>5 DEF CountNode, counted
    <2>2. /\ worker'.at = "counting" /\ worker'.todo = worker.todo \ {e} /\ worker'.count = counted
          /\ worker' = [at |-> worker'.at, todo |-> worker'.todo,
                        count |-> worker'.count, among |-> worker'.among]
      BY <1>1, <2>1 DEF WorkerKnows
    <2>3. worker'.todo # {}
      BY <1>5, <2>2
    <2>4. worker' # Idle
      BY <1>3, <2>2
    <2>5. /\ worker'.todo \cup DOMAIN counted \subseteq Labelled(graph)
          /\ worker'.todo \cap DOMAIN counted = {}
      BY <1>1, <1>2, <2>2 DEF WorkerKnows
    <2> QED
      BY <1>1, <2>2, <2>3, <2>4, <2>5 DEF WorkerKnows
  <1> QED
    BY <1>4, <1>5

\* What the cleanup selects has been superseded.
LEMMA StaleAreSuperseded ==
    ASSUME IInv, NEW d \in StaleDecisions(graph)
    PROVE  d \in Decisions(graph) /\ Superseded \in Statuses(graph, d)
  <1>1. PICK s \in Statuses(graph, d) : Equals(s, InEnglish("superseded"))
    BY DEF StaleDecisions
  <1>2. PICK t \in graph : t[1] = d /\ t[2] = "decisionStatus" /\ t[3] = s
    BY <1>1, ObjectsAre DEF Statuses
  <1>3. s \in {Active, Superseded} \/ s[1] = "iri"
    BY <1>2 DEF IInv, OneStatus
  <1>4. s # Active /\ s[1] # "iri"
    BY <1>1 DEF Equals, InEnglish, Active, Literal
  <1> QED
    BY <1>1, <1>3, <1>4 DEF StaleDecisions

\* So does every step of the worker.
LEMMA WorkerInductive ==
    ASSUME IInv, RankTick \/ CleanupTick \/ WorkerStep
    PROVE  IInv' /\ Kept
  <1>1. WorkerKnows /\ faults \in 0..MaxFaults
    BY DEF IInv, CallsTyped
  <1>2. Idle.at = "idle" /\ Idle.todo = {} /\ DOMAIN Idle.count = {}
        /\ Idle = [at |-> Idle.at, todo |-> Idle.todo, count |-> Idle.count, among |-> Idle.among]
    BY DEF Idle
  <1>3. worker' = Idle => WorkerKnows'
    BY <1>2 DEF WorkerKnows
  <1>4. CASE RankTick
    <2>1. /\ UNCHANGED <<graph, writers, faults>> /\ Labelled(graph) # {}
          /\ worker' = [Idle EXCEPT !.at = "counting", !.todo = Labelled(graph),
                                    !.among = Cardinality(Labelled(graph))]
      BY <1>4 DEF RankTick
    <2>2. /\ worker'.at = "counting" /\ worker'.todo = Labelled(graph) /\ worker'.count = Idle.count
          /\ worker' = [at |-> worker'.at, todo |-> worker'.todo,
                        count |-> worker'.count, among |-> worker'.among]
      BY <1>2, <2>1
    <2>3. worker' # Idle
      BY <1>2, <2>2
    <2>4. WorkerKnows'
      BY <1>2, <2>1, <2>2, <2>3 DEF WorkerKnows
    <2> QED
      BY <1>1, <2>1, <2>4, WorkerStepInductive DEF GraphStep
  <1>5. CASE CleanupTick
    <2>1. PICK rows \in SUBSET StaleDecisions(graph) :
              rows # {} /\ worker' = [Idle EXCEPT !.at = "tombstoning", !.todo = rows,
                                                 !.among = Cardinality(rows)]
      BY <1>5 DEF CleanupTick
    <2>2. UNCHANGED <<graph, writers, faults>>
      BY <1>5 DEF CleanupTick
    <2>3. /\ worker'.at = "tombstoning" /\ worker'.todo = rows
          /\ worker' = [at |-> worker'.at, todo |-> worker'.todo,
                        count |-> worker'.count, among |-> worker'.among]
      BY <1>2, <2>1
    <2>4. worker' # Idle
      BY <1>2, <2>3
    <2>5. \A d \in rows : d \in Decisions(graph) /\ Superseded \in Statuses(graph, d)
      BY <2>1, StaleAreSuperseded
    <2>6. WorkerKnows'
      BY <2>1, <2>2, <2>3, <2>4, <2>5 DEF WorkerKnows
    <2> QED
      BY <1>1, <2>2, <2>6, WorkerStepInductive DEF GraphStep
  <1>6. ASSUME NEW e \in worker.todo, CountNode(e)
        PROVE  IInv' /\ Kept
    <2>1. UNCHANGED <<graph, writers, faults>>
      BY <1>6 DEF CountNode
    <2> QED
      BY <1>1, <1>6, <2>1, CountKnows, WorkerStepInductive DEF GraphStep
  <1>7. ASSUME NEW e \in worker.todo,
               WriteScore(e) \/ WriteScoreFails(e) \/ TombstoneRow(e) \/ TombstoneFails(e)
        PROVE  IInv' /\ Kept
    <2>1. UNCHANGED writers /\ worker' = WithDone(e) /\ worker.at # "counting"
      BY <1>7 DEF WriteScore, WriteScoreFails, TombstoneRow, TombstoneFails
    <2>2. GraphStep
      <3>1. CASE WriteScore(e) \/ TombstoneRow(e)
        BY <3>1, WorkerUpdates DEF WriteScore, TombstoneRow
      <3>2. CASE WriteScoreFails(e) \/ TombstoneFails(e)
        BY <3>2 DEF GraphStep, WriteScoreFails, TombstoneFails, UpdateFails
      <3> QED
        BY <1>7, <3>1, <3>2
    <2>3. faults' \in 0..MaxFaults
      BY <1>1, <1>7, FaultsBounded
      DEF WriteScore, WriteScoreFails, TombstoneRow, TombstoneFails, Updates, UpdateFails, Fault
    <2> QED
      BY <2>1, <2>2, <2>3, WorkerDone, WorkerStepInductive
  <1>8. CASE TickFails
    BY <1>1, <1>3, <1>8, FaultsBounded, WorkerStepInductive DEF TickFails, GraphStep, Fault
  <1>9. ASSUME NEW d \in Decisions(graph), CursorSees(d)
        PROVE  IInv' /\ Kept
    <2>1. /\ worker.at = "tombstoning" /\ UNCHANGED <<graph, writers, faults>>
          /\ worker' = [worker EXCEPT !.todo = @ \cup {d}, !.among = @ + 1]
      BY <1>9 DEF CursorSees
    <2>2. worker = [at |-> worker.at, todo |-> worker.todo,
                    count |-> worker.count, among |-> worker.among]
      BY <1>1 DEF WorkerKnows
    <2>3. /\ worker'.at = "tombstoning" /\ worker'.todo = worker.todo \cup {d}
          /\ worker' = [at |-> worker'.at, todo |-> worker'.todo,
                        count |-> worker'.count, among |-> worker'.among]
      BY <2>1, <2>2
    <2>4. worker' # Idle
      BY <1>2, <2>3
    <2>5. Superseded \in Statuses(graph, d)
      BY <1>9, StaleAreSuperseded DEF CursorSees
    <2>6. WorkerKnows'
      BY <1>1, <2>1, <2>3, <2>4, <2>5 DEF WorkerKnows
    <2> QED
      BY <1>1, <2>1, <2>6, WorkerStepInductive DEF GraphStep
  <1> QED
    BY <1>4, <1>5, <1>6, <1>7, <1>8, <1>9 DEF WorkerStep

-----------------------------------------------------------------------------
(* The theorems.                                                           *)

\* Earlier runs leave a graph in which the invariant holds.
LEMMA Initially ==
    ASSUME Init
    PROVE  IInv
  <1>1. graph = Stored /\ worker = Idle
    BY DEF Init
  <1>2. \A r \in Requests : \A t \in graph : t[1] # r
    BY <1>1, IdentifiersAreNew
  <1>3. GraphTyped /\ OneStatus /\ TombstonesDeserved
    <2>1. GraphTyped /\ TombstonesDeserved
      BY <1>1, EarlierRuns DEF StoredByTheProgram, GraphTyped, TombstonesDeserved, Superseded
    <2>2. \A t \in graph : t[2] = "decisionStatus" =>
              t[3] \in {Active, Superseded} \/ t[3][1] = "iri"
      BY <1>1, EarlierRuns DEF StoredByTheProgram, Active, Superseded
    <2>3. ASSUME NEW d, {Active, Superseded} \subseteq Statuses(graph, d)
          PROVE  FALSE
      <3>1. PICK t \in graph : t[1] = d
        BY <2>3, ObjectsAre DEF Statuses
      <3> QED
        BY <1>1, <2>3, <3>1, EarlierRuns DEF StoredByTheProgram, Active, Superseded
    <2> QED
      BY <2>1, <2>2, <2>3 DEF OneStatus
  <1>4. WorkerKnows
    BY <1>1 DEF WorkerKnows, Idle
  <1>5. CallsTyped
    BY FaultsBounded DEF Init, CallsTyped
  <1> QED
    BY <1>2, <1>3, <1>4, <1>5
    DEF Init, IInv, OpenUnwritten, PreparedKnown, NamesKnown, WrittenAndTracked, Observed

\* The invariant is inductive.
LEMMA Inductive ==
    ASSUME IInv, [Next]_vars
    PROVE  IInv' /\ Kept
  <1>1. CASE UNCHANGED vars
    <2>1. UNCHANGED <<graph, writers, worker, faults>>
      BY <1>1 DEF vars, writers
    <2>2. faults \in 0..MaxFaults
      BY DEF IInv, CallsTyped
    <2> QED
      BY <2>1, <2>2, WorkerStillKnows, WorkerStepInductive DEF GraphStep
  <1>2. CASE Next
    BY <1>2, RequestStepInductive, WorkerInductive DEF Next
  <1> QED
    BY <1>1, <1>2

\* The inductive invariant behind the theorems below holds of every behaviour:
\* what calls, the worker and the store know of each other between their steps.
THEOREM Invariance == Spec => []IInv
  <1>1. Init => IInv
    BY Initially
  <1>2. IInv /\ [Next]_vars => IInv'
    BY Inductive
  <1> QED
    BY <1>1, <1>2, PTL DEF Spec

\* Types of all variables: whatever is asked, the worker has something to do
\* unless it is idle, everything it still has to do is a labelled node or a
\* decision of the graph as it is now, and it has counts for what it writes.
THEOREM TypeCorrect == Spec => []TypeOK
  <1>1. ASSUME IInv
        PROVE  TypeOK
    <2>1. \A t \in graph : Len(t) = 3 /\ t[2] \in Declared
      <3> SUFFICES ASSUME NEW t \in graph
                   PROVE  Len(t) = 3 /\ t[2] \in Declared
        OBVIOUS
      <3>1. t = <<t[1], t[2], t[3]>> /\ t[2] \in Declared
        BY <1>1 DEF IInv, GraphTyped
      <3>2. Len(<<t[1], t[2], t[3]>>) = 3
        OBVIOUS
      <3> QED
        BY <3>1, <3>2
    <2>2. worker.todo \subseteq Labelled(graph) \cup Decisions(graph)
      <3>1. worker.at = "idle" => worker.todo = {}
        BY <1>1 DEF IInv, WorkerKnows
      <3> QED
        BY <1>1, <3>1 DEF IInv, WorkerKnows
    <2> QED
      BY <1>1, <2>1, <2>2 DEF IInv, CallsTyped, WorkerKnows, TypeOK
  <1> QED
    BY <1>1, Invariance, PTL

\* A decision with a tombstone has been superseded, although the worker selects
\* decisions first and marks them later, while calls go on to change the graph.
THEOREM OnlySupersededAreMarked == Spec => []TombstonesOnlyOnSuperseded
  <1>1. ASSUME IInv
        PROVE  TombstonesOnlyOnSuperseded
    <2> SUFFICES ASSUME NEW d \in Decisions(graph),
                        Tombstone \in Objects(graph, d, "tombstone")
                 PROVE  Superseded \in Statuses(graph, d)
      BY DEF TombstonesOnlyOnSuperseded, Superseded
    <2>1. PICK t \in graph : t[1] = d /\ t[2] = "tombstone" /\ t[3] = Tombstone
      BY ObjectsAre
    <2> QED
      BY <1>1, <2>1 DEF IInv, TombstonesDeserved
  <1> QED
    BY <1>1, Invariance, PTL

\* The two functions that list an observation's triples agree on every
\* observation, the one for the store and the one for the provenance.
LEMMA SameTriples ==
    ASSUME NEW o, NEW args
    PROVE  Bare(ObservationTriples(o, args)) = ProvenanceTriples(o, args)
  <1>1. ASSUME NEW x
        PROVE  x \in ProvenanceTriples(o, args) <=>
                   \/ x \in {<<o, "type", "InformationElement">>, <<o, "identifier", o>>,
                             <<o, "plainTextContent", args.text>>}
                   \/ \E e \in ToSet(args.entities) :
                         x \in {<<o, "hasEntity", e.uri>>, <<e.uri, "type", "Entity">>,
                                <<e.uri, "label", e.label>>}
                   \/ \E n \in ToSet(args.relations) : x = <<n.subject, n.predicate, n.object>>
    BY DEF ProvenanceTriples
  <1>2. ASSUME NEW x
        PROVE  x \in Bare(ObservationTriples(o, args)) <=>
                   \E t \in ObservationTriples(o, args) : x = <<t[1], t[2], t[3][2]>>
    BY DEF Bare
  <1>3. ASSUME NEW t \in ObservationTriples(o, args)
        PROVE  <<t[1], t[2], t[3][2]>> \in ProvenanceTriples(o, args)
    BY <1>1, ObservationHas DEF Iri, Literal
  <1>4. ASSUME NEW x \in ProvenanceTriples(o, args)
        PROVE  \E t \in ObservationTriples(o, args) : x = <<t[1], t[2], t[3][2]>>
    <2>1. CASE x \in {<<o, "type", "InformationElement">>, <<o, "identifier", o>>,
                      <<o, "plainTextContent", args.text>>}
      <3>1. {<<o, "type", Iri("InformationElement")>>, <<o, "identifier", Literal(o)>>,
             <<o, "plainTextContent", Literal(args.text)>>} \subseteq ObservationTriples(o, args)
        BY ObservationHas
      <3> QED
        BY <2>1, <3>1 DEF Iri, Literal
    <2>2. ASSUME NEW e \in ToSet(args.entities),
                 x \in {<<o, "hasEntity", e.uri>>, <<e.uri, "type", "Entity">>,
                        <<e.uri, "label", e.label>>}
          PROVE  \E t \in ObservationTriples(o, args) : x = <<t[1], t[2], t[3][2]>>
      <3>1. {<<o, "hasEntity", Iri(e.uri)>>, <<e.uri, "type", Iri("Entity")>>,
             <<e.uri, "label", Literal(e.label)>>} \subseteq ObservationTriples(o, args)
        BY ObservationHas
      <3> QED
        BY <2>2, <3>1 DEF Iri, Literal
    <2>3. ASSUME NEW n \in ToSet(args.relations), x = <<n.subject, n.predicate, n.object>>
          PROVE  \E t \in ObservationTriples(o, args) : x = <<t[1], t[2], t[3][2]>>
      <3>1. <<n.subject, n.predicate, Iri(n.object)>> \in ObservationTriples(o, args)
        BY ObservationHas
      <3> QED
        BY <2>3, <3>1 DEF Iri
    <2> QED
      BY <1>1, <2>1, <2>2, <2>3
  <1> QED
    BY <1>2, <1>3, <1>4

\* An observation is in the graph completely or not at all, whatever the calls
\* and the worker beside it do, and its pipeline tracks exactly what was written;
\* only a client that sets a status or a score by a relation may see it replaced.
THEOREM ProvenanceIsRight == Spec => []ProvenanceIsWhatWasWritten
  <1>1. ASSUME IInv
        PROVE  ProvenanceIsWhatWasWritten
    <2>1. ASSUME NEW r \in Observed, pc[r] \in {"persisted", "done"}
          PROVE  LET triples == ObservationTriples(r, prepared[r])
                 IN  /\ {t \in triples : t[2] \notin Replaced} \subseteq graph
                     /\ pc[r] = "done" => tracked[r] = Bare(triples)
      BY <1>1, <2>1, SameTriples DEF IInv, WrittenAndTracked, Written
    <2>2. ASSUME NEW r \in Observed, pc[r] \notin {"persisted", "done"}
          PROVE  tracked[r] = {} /\ ~\E t \in graph : t[1] = r
      BY <1>1, <2>2 DEF IInv, WrittenAndTracked, OpenUnwritten, Open, CallsTyped, Observed
    <2> QED
      BY <2>1, <2>2 DEF ProvenanceIsWhatWasWritten
  <1> QED
    BY <1>1, Invariance, PTL

\* Nothing that was stored is lost: no step takes a triple away except an old
\* status or an old score, and a decision that is superseded stays so, although
\* two of the updates replace values and run between all others.
THEOREM NothingIsLost ==
    Spec => [][/\ \A t \in graph : t[2] \notin Replaced => t \in graph'
               /\ WithStatus(graph, "superseded") \subseteq WithStatus(graph', "superseded")]_vars
  <1>1. ASSUME IInv, [Next]_vars
        PROVE  /\ \A t \in graph : t[2] \notin Replaced => t \in graph'
               /\ WithStatus(graph, "superseded") \subseteq WithStatus(graph', "superseded")
    <2>1. Kept
      BY <1>1, Inductive
    <2> QED
      BY <2>1 DEF Kept, WithStatus, Superseded
  <1> QED
    BY <1>1, Invariance, PTL DEF Spec

\* A decision is never both active and superseded, and no other text is ever its
\* status, although a decision is inserted, superseded, selected and written
\* about by different actors and the store checks none of it.
THEOREM DecisionsHaveOneStatus == Spec => []OneStatus
  <1>1. IInv => OneStatus
    BY DEF IInv
  <1> QED
    BY <1>1, Invariance, PTL
=============================================================================
