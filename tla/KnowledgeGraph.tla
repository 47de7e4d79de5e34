---------------------------- MODULE KnowledgeGraph --------------------------
(***************************************************************************)
(* The statements the program sends to the triple store, as functions of   *)
(* the graph: what each insert adds, what each update replaces and what    *)
(* the maintenance queries select.  A graph is a set of triples            *)
(* <<subject, predicate, object>>; a subject or predicate is a node, an    *)
(* object is a tagged term.                                                *)
(*                                                                         *)
(* Source: crates/zakhor-model/src (sparql_builder, decision/model,        *)
(* ranking/core, background), crates/zakhor-api/src/tool_capture.rs,       *)
(* crates/zakhor-code/src/code_index.rs.                                   *)
(***************************************************************************)
EXTENDS Naturals, Sequences, FiniteSets, SequencesExt

CONSTANTS
    Declared,    \* predicates and classes the store knows; it refuses others
    OneValue,    \* predicates the store allows one value of per subject
    TagsMatter   \* whether "x" and "x"@en are different values to a query

Iri(x)        == <<"iri", x>>
Literal(x)    == <<"literal", x>>
InEnglish(x)  == <<"en", x>>
ScoreOf(c, n) == <<"score", ToString(<<c, n>>)>>  \* the float c / n, as text

Objects(graph, s, p) == {t[3] : t \in {u \in graph : u[1] = s /\ u[2] = p}}

\* What the ontology of the program declares, and what the ontologies that come
\* with the store do: classes, then properties.
Ontology ==
    {"InformationElement", "Entity", "Decision", "Project", "Repository", "Issue",
     "Constraint", "Observation", "ToolCall",
     "type", "label", "identifier", "plainTextContent",
     "hasEntity", "hasRelation", "provenanceGraph",
     "decisionContext", "decisionOutcome", "alternative", "decisionRationale",
     "decisionStatus", "conflictsWith", "dependsOn", "supersedes",
     "belongsToProject", "belongsToRepository", "evidenceFor",
     "toolName", "toolArguments", "sessionId", "timestamp"}

\* Properties whose values the program replaces; of all others it only adds.
Replaced == {"decisionStatus", "graphImportance"}

\* What the store makes of a finished update: all of it or an error.
Accepts(graph) ==
    /\ \A t \in graph : t[2] \in Declared /\ (t[2] = "type" => t[3][2] \in Declared)
    /\ \A t \in {u \in graph : u[2] \in OneValue} :
          Objects(graph, t[1], t[2]) = {t[3]}

-----------------------------------------------------------------------------
(* Observations.                                                           *)

ObservationTriples(o, args) ==
    {<<o, "type", Iri("InformationElement")>>,
     <<o, "identifier", Literal(o)>>,
     <<o, "plainTextContent", Literal(args.text)>>}
    \cup (UNION {{<<o, "hasEntity", Iri(e.uri)>>,
                  <<e.uri, "type", Iri("Entity")>>,
                  <<e.uri, "label", Literal(e.label)>>} : e \in ToSet(args.entities)})
    \cup {<<r.subject, r.predicate, Iri(r.object)>> : r \in ToSet(args.relations)}

\* The same triples collected by a second function, as untyped strings; nothing
\* depends on their order.
ProvenanceTriples(o, args) ==
    {<<o, "type", "InformationElement">>, <<o, "identifier", o>>,
     <<o, "plainTextContent", args.text>>}
    \cup (UNION {{<<o, "hasEntity", e.uri>>, <<e.uri, "type", "Entity">>,
                  <<e.uri, "label", e.label>>} : e \in ToSet(args.entities)})
    \cup {<<r.subject, r.predicate, r.object>> : r \in ToSet(args.relations)}

-----------------------------------------------------------------------------
(* Decisions.                                                              *)

\* A decision's optional edges are sets of nodes under the edge's name.
DecisionTriples(d, args) ==
    {<<d, "type", Iri("Decision")>>,
     <<d, "decisionContext", Literal(args.context)>>,
     <<d, "decisionOutcome", Literal(args.outcome)>>,
     <<d, "decisionRationale", Literal(args.rationale)>>,
     <<d, "decisionStatus", Literal("active")>>}
    \cup {<<d, "alternative", Literal(a)>> : a \in ToSet(args.alternatives)}
    \cup UNION {{<<d, p, Iri(n)>> : n \in args.edges[p]} : p \in DOMAIN args.edges}

Statuses(graph, d) == Objects(graph, d, "decisionStatus")

\* DELETE old INSERT "superseded" WHERE the decision has a status.
SupersedeIn(graph, d) ==
    IF Statuses(graph, d) = {} THEN graph
    ELSE {t \in graph : t[1] # d \/ t[2] # "decisionStatus"}
         \cup {<<d, "decisionStatus", Literal("superseded")>>}

Equals(term, tagged) ==
    term = tagged \/ (~TagsMatter /\ term[1] = "literal" /\ term[2] = tagged[2])

Decisions(graph) == {t[1] : t \in {u \in graph : u[2] = "type" /\ u[3] = Iri("Decision")}}

WithStatus(graph, status) == {d \in Decisions(graph) : Literal(status) \in Statuses(graph, d)}

Tombstone == <<"boolean", "true">>

\* Seeded: any decision without a tombstone is stale.
Untombstoned(graph) ==
    {d \in Decisions(graph) : Tombstone \notin Objects(graph, d, "tombstone")}

\* What cleanup_stale_data selects, before its LIMIT.
StaleDecisions(graph) ==
    {d \in Decisions(graph) :
        /\ \E s \in Statuses(graph, d) : Equals(s, InEnglish("superseded"))
        /\ Tombstone \notin Objects(graph, d, "tombstone")}

-----------------------------------------------------------------------------
(* Tool calls and code.  A tool call's node is named by its millisecond.   *)

ToolCallTriples(uri, call) ==
    {<<uri, "type", Iri("ToolCall")>>,
     <<uri, "toolName", InEnglish(call.tool)>>,
     <<uri, "toolArguments", InEnglish(call.arguments)>>,
     <<uri, "sessionId", InEnglish(call.session)>>,
     <<uri, "timestamp", Literal(uri)>>}

EvidenceTriples(call, decision) == {<<call, "evidenceFor", Iri(decision)>>}

\* A container is named by its path, a symbol by its name alone.
ContainerTriples(path) ==
    {<<path, "type", Iri("CodeContainer")>>, <<path, "codeLocation", InEnglish(path)>>}

SymbolTriples(name, container) ==
    {<<name, "type", Iri("CodeSymbol")>>, <<name, "label", InEnglish(name)>>,
     <<name, "codeLocation", Iri(container)>>}

Containers(graph) ==
    {t[1] : t \in {u \in graph : /\ u[2] = "type" /\ u[3] = Iri("CodeContainer")
                                 /\ Objects(graph, u[1], "codeLocation") # {}}}

-----------------------------------------------------------------------------
(* Ranking.                                                                *)

Labelled(graph) == {t[1] : t \in {u \in graph : u[2] = "label"}}

OutOf(graph, s) == {t[3][2] : t \in {u \in graph : u[1] = s /\ u[3][1] = "iri"}}

\* Nodes one step away in either direction, or two steps forward.
Connected(graph, e) ==
    (OutOf(graph, e)
     \cup {t[1] : t \in {u \in graph : u[3] = Iri(e)}}
     \cup UNION {OutOf(graph, m) : m \in OutOf(graph, e)}) \ {e}

\* Seeded: the old score stays.
ScoreAdded(graph, e, score) == graph \cup {<<e, "graphImportance", score>>}

\* DELETE old INSERT new WHERE OPTIONAL old.
ScoreSet(graph, e, score) ==
    {t \in graph : t[1] # e \/ t[2] # "graphImportance"}
    \cup {<<e, "graphImportance", score>>}

\* Rows of ?decision provenanceGraph e and ?decision evidenceFor e, in tenths,
\* ten at most.
ProvenanceQuality(graph, e) ==
    LET rows == {t \in graph : t[2] \in {"provenanceGraph", "evidenceFor"} /\ t[3] = Iri(e)}
    IN IF Cardinality(rows) > 10 THEN 10 ELSE Cardinality(rows)

\* The boost of a search result, in twentieths: 1 + 0.3 q + 0.2 q.
Boost(graph, id) == 20 + ProvenanceQuality(graph, id)

\* rank_search_results: a stable sort by boosted score, best first.
Reranked(results, graph) ==
    LET boosted == [i \in DOMAIN results |->
                       [id |-> results[i].id,
                        score |-> results[i].score * Boost(graph, results[i].id),
                        at |-> i]]
    IN SortSeq(boosted, LAMBDA a, b :
                  a.score > b.score \/ (a.score = b.score /\ a.at < b.at))
=============================================================================
