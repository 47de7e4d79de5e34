---------------------- MODULE GraphWritersMemory_proofs ----------------------
(***************************************************************************)
(* GraphWriters implements MemoryGraph, for any calls and any store to     *)
(* begin with: the interleaved stages, statements and replacements of      *)
(* calls and worker amount to calls that add all they say at once.         *)
(***************************************************************************)
EXTENDS GraphWriters_proofs

-----------------------------------------------------------------------------
(* What the updates do to a graph as MemoryGraph sees it.                  *)

\* The four views of a graph, triple by triple.
LEMMA Views ==
    ASSUME NEW g, NEW x
    PROVE  /\ x \in Facts(g) <=> x \in g /\ x[2] \notin Replaced /\ ~Marking(x)
           /\ x \in Decided(g) <=> \E t \in g : t[1] = x /\ t[2] = "decisionStatus"
           /\ x \in Passed(g) <=> \E t \in g : t[1] = x /\ Passing(t)
           /\ x \in Marked(g) <=> \E t \in g : t[1] = x /\ Marking(t)
  BY DEF Facts, Decided, Passed, Marked

\* An insert adds its own views.
LEMMA InsertViews ==
    ASSUME NEW g, NEW s
    PROVE  /\ Facts(g \cup s) = Facts(g) \cup Facts(s)
           /\ Decided(g \cup s) = Decided(g) \cup Decided(s)
           /\ Passed(g \cup s) = Passed(g) \cup Passed(s)
           /\ Marked(g \cup s) = Marked(g) \cup Marked(s)
  <1>1. Facts(g \cup s) = Facts(g) \cup Facts(s)
    BY DEF Facts
  <1>2. Decided(g \cup s) = Decided(g) \cup Decided(s)
    BY DEF Decided
  <1>3. Passed(g \cup s) = Passed(g) \cup Passed(s)
    BY DEF Passed
  <1>4. Marked(g \cup s) = Marked(g) \cup Marked(s)
    BY DEF Marked
  <1> QED
    BY <1>1, <1>2, <1>3, <1>4

\* What only speaks makes nothing superseded and marks nothing.
Speaks(s) == \A t \in s : ~Passing(t) /\ ~Marking(t)

LEMMA SpeechViews ==
    ASSUME NEW s, Speaks(s)
    PROVE  Passed(s) = {} /\ Marked(s) = {}
  BY DEF Speaks, Passed, Marked

\* Superseding changes nothing but which of the decided nodes are superseded.
LEMMA SupersedeViews ==
    ASSUME NEW g, NEW d, Shaped(g)
    PROVE  LET new == SupersedeIn(g, d)
           IN /\ Facts(new) = Facts(g)
              /\ Decided(new) = Decided(g)
              /\ Passed(new) = Passed(g) \cup ({d} \cap Decided(g))
              /\ Marked(new) = Marked(g)
  <1> DEFINE new == SupersedeIn(g, d)
             put == <<d, "decisionStatus", Superseded>>
  <1>1. Statuses(g, d) = {} <=> d \notin Decided(g)
    BY DEF Statuses, Objects, Decided
  <1>2. CASE d \notin Decided(g)
    BY <1>1, <1>2 DEF SupersedeIn
  <1>3. CASE d \in Decided(g)
    <2>1. new = {t \in g : t[1] # d \/ t[2] # "decisionStatus"} \cup {put}
      BY <1>1, <1>3 DEF SupersedeIn, Superseded
    <2>2. put[1] = d /\ put[2] = "decisionStatus" /\ Passing(put) /\ ~Marking(put)
      BY DEF Passing, Marking, Superseded
    <2>3. \A t : t \in new <=> (t \in g /\ (t[1] # d \/ t[2] # "decisionStatus")) \/ t = put
      BY <2>1
    <2>4. "decisionStatus" \in Replaced
      BY DEF Replaced
    <2> HIDE DEF new, put
    <2>5. Facts(new) = Facts(g)
      BY <2>2, <2>3, <2>4 DEF Facts
    <2>6. Decided(new) = Decided(g)
      <3>1. ASSUME NEW x PROVE x \in Decided(new) <=> x \in Decided(g)
        BY <1>3, <2>2, <2>3, Views
      <3> QED
        BY <3>1
    <2>7. Passed(new) = Passed(g) \cup {d}
      <3>1. ASSUME NEW x PROVE x \in Passed(new) <=> x \in Passed(g) \/ x = d
        <4>1. CASE x = d
          BY <2>2, <2>3, <4>1, Views
        <4>2. CASE x # d
          BY <2>2, <2>3, <4>2, Views
        <4> QED
          BY <4>1, <4>2
      <3> QED
        BY <3>1
    <2>8. Marked(new) = Marked(g)
      <3>1. ASSUME NEW x PROVE x \in Marked(new) <=> x \in Marked(g)
        BY <2>2, <2>3, Views DEF Marking
      <3> QED
        BY <3>1
    <2> QED
      BY <1>3, <2>5, <2>6, <2>7, <2>8 DEF new
  <1> QED
    BY <1>2, <1>3

\* A score cannot be seen.
LEMMA ScoreViews ==
    ASSUME NEW g, NEW e, NEW score
    PROVE  LET new == ScoreSet(g, e, score)
           IN /\ Facts(new) = Facts(g)
              /\ Decided(new) = Decided(g)
              /\ Passed(new) = Passed(g)
              /\ Marked(new) = Marked(g)
  <1> DEFINE new == ScoreSet(g, e, score)
             put == <<e, "graphImportance", score>>
  <1>1. \A t : t \in new <=> (t \in g /\ (t[1] # e \/ t[2] # "graphImportance")) \/ t = put
    BY DEF ScoreSet
  <1>2. put[2] = "graphImportance" /\ "graphImportance" \in Replaced
    BY DEF Replaced
  <1> HIDE DEF new, put
  <1>3. \A t : t[2] # "graphImportance" => (t \in new <=> t \in g)
    BY <1>1, <1>2
  <1>4. Facts(new) = Facts(g)
    BY <1>2, <1>3 DEF Facts
  <1>5. Decided(new) = Decided(g)
    BY <1>3 DEF Decided
  <1>6. Passed(new) = Passed(g)
    BY <1>3 DEF Passed, Passing
  <1>7. Marked(new) = Marked(g)
    BY <1>3 DEF Marked, Marking
  <1> QED
    BY <1>4, <1>5, <1>6, <1>7 DEF new

\* A tombstone marks its decision and says nothing.
LEMMA TombstoneViews ==
    ASSUME NEW g, NEW d
    PROVE  LET new == g \cup {<<d, "tombstone", Tombstone>>}
           IN /\ Facts(new) = Facts(g)
              /\ Decided(new) = Decided(g)
              /\ Passed(new) = Passed(g)
              /\ Marked(new) = Marked(g) \cup {d}
  <1> DEFINE put == <<d, "tombstone", Tombstone>>
             s   == {put}
  <1>1. put[1] = d /\ put[2] = "tombstone" /\ Marking(put) /\ ~Passing(put)
    BY DEF Passing, Marking
  <1> HIDE DEF put
  <1>2. Facts(s) = {}
    BY <1>1 DEF Facts
  <1>3. Decided(s) = {}
    BY <1>1 DEF Decided
  <1>4. Passed(s) = {}
    BY <1>1 DEF Passed
  <1>5. Marked(s) = {d}
    BY <1>1 DEF Marked
  <1> HIDE DEF s
  <1>6. /\ Facts(g \cup s) = Facts(g)
        /\ Decided(g \cup s) = Decided(g)
        /\ Passed(g \cup s) = Passed(g)
        /\ Marked(g \cup s) = Marked(g) \cup {d}
    <2>1. /\ Facts(g \cup s) = Facts(g) \cup Facts(s)
          /\ Decided(g \cup s) = Decided(g) \cup Decided(s)
          /\ Passed(g \cup s) = Passed(g) \cup Passed(s)
          /\ Marked(g \cup s) = Marked(g) \cup Marked(s)
      BY InsertViews
    <2> QED
      BY <1>2, <1>3, <1>4, <1>5, <2>1
  <1> QED
    BY <1>6 DEF s, put

-----------------------------------------------------------------------------
(* What a call stores is what it may say.                                  *)

\* No call makes anything superseded by what it inserts, or marks anything.
LEMMA StatementsSpeak ==
    ASSUME NEW r \in Requests, NEW q, NEW s \in Statements(r, q)
    PROVE  Speaks(s)
  <1>1. Literal("superseded")[1] # "iri" /\ Literal("superseded") # Literal("active")
    BY DEF Literal
  <1>2. CASE q.kind \in {"observe", "extract"}
    <2>1. s = ObservationTriples(r, Content(q))
      BY <1>2 DEF Statements
    <2> QED
      BY <1>1, <2>1, ObservationsLeave DEF Speaks, Passing, Marking
  <1>3. CASE q.kind = "decide"
    <2>1. s = DecisionTriples(r, q)
      BY <1>3 DEF Statements
    <2>2. \A t \in s : t[2] = "decisionStatus" => t[3] = Literal("active") \/ t[3][1] = "iri"
      BY <2>1 DEF DecisionTriples, Iri
    <2>3. \A t \in s : t[3] # Tombstone
      BY <2>1 DEF DecisionTriples, Tombstone, Iri, Literal
    <2> QED
      BY <1>1, <2>2, <2>3 DEF Speaks, Passing, Marking
  <1>4. CASE q.kind \in {"capture", "link", "container", "symbol"}
    <2>1. \A t \in s : t[2] \notin {"decisionStatus", "tombstone"}
      BY <1>4 DEF Statements, ToolCallTriples, EvidenceTriples, ContainerTriples, SymbolTriples
    <2> QED
      BY <2>1 DEF Speaks, Passing, Marking
  <1>5. q.kind \in {"observe", "extract", "decide", "capture", "link", "container", "symbol"}
    BY DEF Statements
  <1> QED
    BY <1>2, <1>3, <1>4, <1>5

\* A request is somewhere else than it was, and so is its answer.
LEMMA AnswersAfter ==
    ASSUME IInv, NEW r \in Requests, NEW where, pc' = [pc EXCEPT ![r] = where]
    PROVE  Answers' = [Answers EXCEPT ![r] = AnswerOf(where)]
  BY DEF IInv, CallsTyped, Answers

\* An insert of what an admissible call says, by that call, is its effect.
LEMMA StoreRefines ==
    ASSUME IInv, NEW r \in Requests, NEW q \in Request[r], Admissible(q),
           NEW s \in Statements(r, q), graph' = graph \cup s,
           pc[r] \in {"asked", "persisting"},
           NEW where \in {"persisted", "done"}, pc' = [pc EXCEPT ![r] = where]
    PROVE  Promise!Next
  <1>1. Answers[r] = "open" /\ Answers' = [Answers EXCEPT ![r] = "stored"]
    BY AnswersAfter DEF Answers, AnswerOf
  <1>2. [facts |-> Facts(s), decided |-> Decided(s)] \in MaySay[r]
    BY DEF MaySay
  <1>3. Passed(s) = {} /\ Marked(s) = {}
    BY StatementsSpeak, SpeechViews
  <1>4. /\ Facts(graph') = Facts(graph) \cup Facts(s)
        /\ Decided(graph') = Decided(graph) \cup Decided(s)
        /\ Passed(graph') = Passed(graph) \cup Passed(s)
        /\ Marked(graph') = Marked(graph) \cup Marked(s)
    BY InsertViews
  <1>5. Promise!Store(r)
    BY <1>1, <1>2, <1>3, <1>4 DEF Promise!Store, Promise!End
  <1> QED
    BY <1>5 DEF Promise!Next

\* A call that fails has no effect.
LEMMA RefusalRefines ==
    ASSUME IInv, NEW r \in Requests, UNCHANGED graph,
           pc[r] \in {"asked", "persisting"}, pc' = [pc EXCEPT ![r] = "failed"]
    PROVE  Promise!Next
  <1>1. Answers[r] = "open" /\ Answers' = [Answers EXCEPT ![r] = "refused"]
    BY AnswersAfter DEF Answers, AnswerOf
  <1>2. Promise!Refuse(r)
    BY <1>1 DEF Promise!Refuse, Promise!End
  <1> QED
    BY <1>2 DEF Promise!Next

\* The operations of one statement either fail or store it.
LEMMA ExecuteRefines ==
    ASSUME IInv, NEW r \in Requests, NEW q \in Request[r], NEW identifiers,
           pc[r] = "asked", NEW s \in Statements(r, q),
           Execute(r, identifiers, graph \cup s),
           identifiers \cap Unusable = {} => Admissible(q)
    PROVE  Promise!Next
  <1>1. CASE /\ identifiers \cap Unusable = {}
             /\ Updates(graph \cup s) /\ Goes(r, "done")
    BY <1>1, StoreRefines DEF Updates, Goes
  <1>2. CASE UNCHANGED graph /\ Goes(r, "failed")
    BY <1>2, RefusalRefines DEF Goes
  <1> QED
    BY <1>1, <1>2 DEF Execute, UpdateFails

LEMMA SupersedeRefines ==
    ASSUME IInv, NEW r \in Requests, NEW q \in Request[r], Supersede(r, q)
    PROVE  Promise!Next
  <1>1. pc[r] = "asked" /\ q.kind = "supersede" /\ Execute(r, {}, SupersedeIn(graph, q.decision))
    BY DEF Supersede, Makes
  <1>2. CASE graph' = SupersedeIn(graph, q.decision) /\ Goes(r, "done")
    <2>1. Answers[r] = "open" /\ Answers' = [Answers EXCEPT ![r] = "stored"]
      BY <1>1, <1>2, AnswersAfter DEF Answers, AnswerOf, Goes
    <2>2. q.decision \in MaySupersede[r]
      BY <1>1 DEF MaySupersede
    <2>3. Shaped(graph)
      BY DEF IInv, GraphTyped, Shaped
    <2>4. /\ Facts(graph') = Facts(graph)
          /\ Decided(graph') = Decided(graph)
          /\ Passed(graph') = Passed(graph) \cup ({q.decision} \cap Decided(graph))
          /\ Marked(graph') = Marked(graph)
      BY <1>2, <2>3, SupersedeViews
    <2>5. Promise!Supersede(r)
      BY <2>1, <2>2, <2>4 DEF Promise!Supersede, Promise!End
    <2> QED
      BY <2>5 DEF Promise!Next
  <1>3. CASE UNCHANGED graph /\ Goes(r, "failed")
    BY <1>1, <1>3, RefusalRefines DEF Goes
  <1> QED
    BY <1>1, <1>2, <1>3 DEF Execute, Updates, UpdateFails

-----------------------------------------------------------------------------
(* What is about to be stored comes from an admissible call.               *)

PreparedAdmissible ==
    \A r \in Requests : pc[r] = "persisting" =>
        \E q \in Request[r] :
            /\ q.kind \in {"observe", "extract"} /\ Admissible(q)
            /\ prepared[r] = Content(q)

MInv == IInv /\ PreparedAdmissible

LEMMA PreparationInductive ==
    ASSUME IInv, PreparedAdmissible, [Next]_vars
    PROVE  PreparedAdmissible'
  <1>1. ASSUME NEW r \in Requests, NEW q \in Request[r], Ingest(r, q) \/ ExtractAndIngest(r, q)
        PROVE  PreparedAdmissible'
    <2>1. Prepare(r, q)
      BY <1>1 DEF Ingest, ExtractAndIngest
    <2>2. CASE q.text = Blank
      <3>1. pc' = [pc EXCEPT ![r] = "failed"] /\ UNCHANGED prepared
        BY <2>1, <2>2 DEF Prepare, Goes
      <3> QED
        BY <3>1, PcAfter DEF PreparedAdmissible
    <2>4. CASE q.text # Blank /\ Goes(r, "failed") /\ UNCHANGED prepared
      BY <2>4, PcAfter DEF PreparedAdmissible, Goes
    <2>3. CASE q.text # Blank /\ ~(Goes(r, "failed") /\ UNCHANGED prepared)
      <3>1. /\ pc' = [pc EXCEPT ![r] = "persisting"]
            /\ prepared' = [prepared EXCEPT ![r] = Content(q)]
        BY <2>1, <2>3 DEF Prepare, Goes
      <3>2. q.kind \in {"observe", "extract"} /\ Admissible(q)
        BY <1>1, <2>3 DEF Ingest, ExtractAndIngest, Makes, Admissible
      <3>3. prepared'[r] = Content(q) /\ \A s \in Requests : s # r => prepared'[s] = prepared[s]
        BY <3>1 DEF IInv, CallsTyped
      <3> HIDE DEF Admissible
      <3> QED
        BY <3>1, <3>2, <3>3, PcAfter DEF PreparedAdmissible
    <2> QED
      BY <2>2, <2>3, <2>4
  <1>2. ASSUME NEW r \in Requests, NEW where, where # "persisting",
               pc' = [pc EXCEPT ![r] = where], UNCHANGED prepared
        PROVE  PreparedAdmissible'
    BY <1>2, PcAfter DEF PreparedAdmissible
  <1>3. CASE UNCHANGED <<pc, prepared>>
    BY <1>3 DEF PreparedAdmissible
  <1>4. ASSUME NEW r \in Requests, RequestStep(r)
        PROVE  PreparedAdmissible'
    <2>1. ASSUME NEW q \in Request[r],
                 \/ RecordDecision(r, q) \/ Supersede(r, q)
                 \/ CaptureToolCall(r, q) \/ LinkToolCall(r, q)
                 \/ CreateContainer(r, q) \/ CreateSymbol(r, q)
          PROVE  PreparedAdmissible'
      BY <1>2, <2>1, OneStatement
    <2>2. ASSUME NEW q \in Request[r], ExtractionFails(r, q)
          PROVE  PreparedAdmissible'
      BY <1>2, <2>2 DEF ExtractionFails, Goes
    <2>3. CASE Persist(r) \/ PersistFails(r) \/ Track(r)
      BY <1>2, <2>3 DEF Persist, PersistFails, Track, Goes
    <2> QED
      BY <1>1, <1>4, <2>1, <2>2, <2>3 DEF RequestStep
  <1>5. CASE RankTick \/ CleanupTick \/ WorkerStep
    BY <1>3, <1>5 DEF RankTick, CleanupTick, WorkerStep, CountNode, WriteScore, WriteScoreFails,
                      TombstoneRow, TombstoneFails, CursorSees, TickFails, writers
  <1> QED
    BY <1>3, <1>4, <1>5 DEF Next, vars

-----------------------------------------------------------------------------
(* The steps.                                                              *)

LEMMA RequestRefines ==
    ASSUME MInv, NEW r \in Requests, RequestStep(r)
    PROVE  Promise!Next \/ UNCHANGED <<Answers, graph>>
  <1>1. IInv /\ PreparedAdmissible
    BY DEF MInv
  <1>2. ASSUME NEW q \in Request[r],
               Ingest(r, q) \/ ExtractAndIngest(r, q) \/ ExtractionFails(r, q)
        PROVE  Promise!Next \/ UNCHANGED <<Answers, graph>>
    <2>1. UNCHANGED graph /\ pc[r] = "asked"
      BY <1>1, <1>2, ObservationStep
    <2>2. CASE pc' = [pc EXCEPT ![r] = "persisting"]
      <3>1. Answers' = [Answers EXCEPT ![r] = "open"]
        BY <1>1, <2>2, AnswersAfter DEF AnswerOf
      <3>2. Answers[r] = "open" /\ Answers = [s \in Requests |-> Answers[s]]
        BY <2>1 DEF Answers, AnswerOf
      <3> QED
        BY <2>1, <3>1, <3>2
    <2>3. CASE pc' = [pc EXCEPT ![r] = "failed"]
      BY <1>1, <2>1, <2>3, RefusalRefines
    <2> QED
      BY <1>1, <1>2, <2>2, <2>3, ObservationStep
  <1>3. ASSUME NEW q \in Request[r], RecordDecision(r, q)
        PROVE  Promise!Next
    <2>1. q.kind = "decide" /\ pc[r] = "asked"
      BY <1>3 DEF RecordDecision, Makes
    <2>2. DecisionTriples(r, q) \in Statements(r, q)
      BY <2>1 DEF Statements
    <2>3. q.edges["belongsToProject"] \cap Unusable = {} => Admissible(q)
      BY <2>1 DEF Admissible
    <2> QED
      BY <1>1, <1>3, <2>1, <2>2, <2>3, ExecuteRefines DEF RecordDecision
  <1>4. ASSUME NEW q \in Request[r], CaptureToolCall(r, q)
        PROVE  Promise!Next
    <2>1. q.kind = "capture" /\ pc[r] = "asked"
      BY <1>4 DEF CaptureToolCall, Makes
    <2>2. PICK uri \in CallUris : Execute(r, {}, graph \cup ToolCallTriples(uri, q))
      BY <1>4 DEF CaptureToolCall
    <2>3. ToolCallTriples(uri, q) \in Statements(r, q)
      BY <2>1 DEF Statements
    <2>4. Admissible(q)
      BY <2>1 DEF Admissible
    <2> QED
      BY <1>1, <2>1, <2>2, <2>3, <2>4, ExecuteRefines
  <1>5. ASSUME NEW q \in Request[r], LinkToolCall(r, q)
        PROVE  Promise!Next
    <2>1. q.kind = "link" /\ pc[r] = "asked"
      BY <1>5 DEF LinkToolCall, Makes
    <2>2. EvidenceTriples(q.call, q.decision) \in Statements(r, q)
      BY <2>1 DEF Statements
    <2>3. {q.call, q.decision} \cap Unusable = {} => Admissible(q)
      BY <2>1 DEF Admissible
    <2> QED
      BY <1>1, <1>5, <2>1, <2>2, <2>3, ExecuteRefines DEF LinkToolCall
  <1>6. ASSUME NEW q \in Request[r], CreateContainer(r, q)
        PROVE  Promise!Next
    <2>1. q.kind = "container" /\ pc[r] = "asked"
      BY <1>6 DEF CreateContainer, Makes
    <2>2. ContainerTriples(q.path) \in Statements(r, q) /\ Admissible(q)
      BY <2>1 DEF Statements, Admissible
    <2> QED
      BY <1>1, <1>6, <2>1, <2>2, ExecuteRefines DEF CreateContainer
  <1>7. ASSUME NEW q \in Request[r], CreateSymbol(r, q)
        PROVE  Promise!Next
    <2>1. q.kind = "symbol" /\ pc[r] = "asked"
      BY <1>7 DEF CreateSymbol, Makes
    <2>2. SymbolTriples(q.name, q.container) \in Statements(r, q) /\ Admissible(q)
      BY <2>1 DEF Statements, Admissible
    <2> QED
      BY <1>1, <1>7, <2>1, <2>2, ExecuteRefines DEF CreateSymbol
  <1>8. CASE Persist(r)
    <2>1. /\ pc[r] = "persisting" /\ pc' = [pc EXCEPT ![r] = "persisted"]
          /\ graph' = graph \cup ObservationTriples(r, prepared[r])
      BY <1>8 DEF Persist, Updates, Goes
    <2>2. PICK q \in Request[r] : /\ q.kind \in {"observe", "extract"} /\ Admissible(q)
                                  /\ prepared[r] = Content(q)
      BY <1>1, <2>1 DEF PreparedAdmissible
    <2>3. ObservationTriples(r, prepared[r]) \in Statements(r, q)
      BY <2>2 DEF Statements
    <2> QED
      BY <1>1, <2>1, <2>2, <2>3, StoreRefines
  <1>9. CASE PersistFails(r)
    BY <1>1, <1>9, RefusalRefines DEF PersistFails, UpdateFails, Goes
  <1>10. CASE Track(r)
    <2>1. pc[r] = "persisted" /\ pc' = [pc EXCEPT ![r] = "done"] /\ UNCHANGED graph
      BY <1>10 DEF Track, Goes
    <2>2. Answers' = [Answers EXCEPT ![r] = "stored"]
      <3>1. AnswerOf("done") = "stored"
        BY DEF AnswerOf
      <3> QED
        BY <1>1, <2>1, <3>1, AnswersAfter
    <2>3. Answers[r] = "stored" /\ Answers = [s \in Requests |-> Answers[s]]
      BY <2>1 DEF Answers, AnswerOf
    <2> QED
      BY <2>1, <2>2, <2>3
  <1> QED
    BY <1>1, <1>2, <1>3, <1>4, <1>5, <1>6, <1>7, <1>8, <1>9, <1>10, SupersedeRefines
    DEF RequestStep

\* The worker is seen only when it marks a decision, which is superseded still.
LEMMA WorkerRefines ==
    ASSUME IInv, RankTick \/ CleanupTick \/ WorkerStep
    PROVE  Promise!Next \/ UNCHANGED Promise!memory
  <1>1. UNCHANGED Answers
    BY DEF RankTick, CleanupTick, WorkerStep, CountNode, WriteScore, WriteScoreFails,
           TombstoneRow, TombstoneFails, CursorSees, TickFails, writers, Answers
  <1>2. CASE UNCHANGED graph
    BY <1>1, <1>2 DEF Promise!memory
  <1>3. ASSUME NEW e \in worker.todo, WriteScore(e)
        PROVE  UNCHANGED Promise!memory
    <2>1. graph' = ScoreSet(graph, e, ScoreOf(worker.count[e], worker.among))
      BY <1>3 DEF WriteScore, Updates, Scored
    <2> QED
      BY <1>1, <2>1, ScoreViews DEF Promise!memory
  <1>4. ASSUME NEW d \in worker.todo, TombstoneRow(d)
        PROVE  Promise!Next
    <2>1. graph' = graph \cup {<<d, "tombstone", Tombstone>>} /\ worker.at = "tombstoning"
      BY <1>4 DEF TombstoneRow, Updates, Tombstoned
    <2>2. d \in Passed(graph)
      BY <2>1, ObjectsAre, Views DEF IInv, WorkerKnows, Statuses, Passing, Superseded
    <2>3. Promise!Mark(d)
      BY <1>1, <2>1, <2>2, TombstoneViews DEF Promise!Mark
    <2> QED
      BY <2>2, <2>3 DEF Promise!Next
  <1> QED
    BY <1>2, <1>3, <1>4
    DEF RankTick, CleanupTick, WorkerStep, CountNode, WriteScoreFails, UpdateFails,
        TombstoneFails, CursorSees, TickFails

\* GraphWriters implements MemoryGraph: a call that is prepared, stored and
\* tracked in stages beside others takes effect at once, with all its client
\* said, or not at all; nothing said is ever lost to the updates that replace
\* values; and only what is superseded is marked.
THEOREM WritersRefineMemory == Spec => CallsTakeEffectAtOnce
  <1>1. Init => Promise!Init /\ PreparedAdmissible
    <2> SUFFICES ASSUME Init PROVE Promise!Init /\ PreparedAdmissible
      OBVIOUS
    <2>1. Answers = [r \in Requests |-> "open"] /\ PreparedAdmissible
      BY DEF Init, Answers, AnswerOf, PreparedAdmissible
    <2>2. Passed(graph) \subseteq Decided(graph)
      BY DEF Passed, Decided, Passing
    <2>3. Marked(graph) \subseteq Passed(graph)
      <3> SUFFICES ASSUME NEW d \in Marked(graph) PROVE d \in Passed(graph)
        OBVIOUS
      <3>1. PICK t \in graph : t[1] = d /\ t[2] = "tombstone" /\ t[3] = Tombstone
        BY Views DEF Marking
      <3>2. Literal("superseded") \in Statuses(graph, d)
        BY <3>1, EarlierRuns DEF Init, StoredByTheProgram
      <3> QED
        BY <3>2, ObjectsAre, Views DEF Statuses, Passing
    <2> QED
      BY <2>1, <2>2, <2>3 DEF Promise!Init
  <1>2. MInv /\ [Next]_vars => [Promise!Next]_(Promise!memory)
    <2> SUFFICES ASSUME MInv, [Next]_vars
                 PROVE  Promise!Next \/ UNCHANGED Promise!memory
      OBVIOUS
    <2>1. UNCHANGED <<Answers, graph>> => UNCHANGED Promise!memory
      BY DEF Promise!memory
    <2>2. CASE UNCHANGED vars
      BY <2>1, <2>2 DEF vars, Answers
    <2>3. CASE Next
      BY <2>1, <2>3, RequestRefines, WorkerRefines DEF Next, MInv
    <2> QED
      BY <2>2, <2>3
  <1>3. IInv /\ PreparedAdmissible /\ [Next]_vars => PreparedAdmissible'
    BY PreparationInductive
  <1>4. Spec => []MInv
    <2>1. IInv /\ PreparedAdmissible <=> MInv
      BY DEF MInv
    <2> QED
      BY <1>1, <1>3, <2>1, Invariance, PTL DEF Spec
  <1> QED
    BY <1>1, <1>2, <1>4, PTL DEF Spec, CallsTakeEffectAtOnce, Promise!Spec
=============================================================================
