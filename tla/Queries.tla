------------------------------- MODULE Queries ------------------------------
(***************************************************************************)
(* The calls that read the knowledge graph while others write to it: the   *)
(* traversal, the lists and the detail pages.  One query sees one state of *)
(* the store; a traversal, a page with its total, a client that turns      *)
(* pages and a detail page take several queries, and the calls of          *)
(* GraphWriters go on between them.  The reads that take a single query    *)
(* are operators.                                                          *)
(*                                                                         *)
(* Source: crates/zakhor-api/src (handler.rs, tools/, api/, project.rs).   *)
(***************************************************************************)
EXTENDS GraphWriters

CONSTANTS
    Reading,      \* the reads a client may make, by the name of the client
    Memory,       \* names that begin with http://zakhor/ns/
    Order,        \* all names that lists are sorted by, as the store sorts them
    MaxTriples,   \* MAX_TRAVERSE_TRIPLES
    MaxPage,      \* 100 in the code
    MaxRelated    \* LIMIT of an entity's observations, 50 in the code

Readers == DOMAIN Reading

ASSUME LimitsPositive == {MaxTriples, MaxPage, MaxRelated} \subseteq Nat \ {0}

\* Depths and limits are unsigned.
ASSUME ReadsAreTyped ==
    \A r \in Readers : \A q \in Reading[r] :
        /\ q.kind \in {"walk", "list", "decision", "observation", "entity",
                      "related", "entities", "projects"}
        /\ q.kind = "walk" => q.depth \in Nat
        /\ q.kind \in {"list", "entities"} => q.limit \in Nat

\* The store sorts whatever has been or may be stored.
ASSUME OrderIsTotal ==
    /\ Order \in Seq(ToSet(Order)) /\ IsInjective(Order)
    /\ \A t \in Stored : t[1] \in ToSet(Order)
    /\ Requests \cup CallUris \subseteq ToSet(Order)
    /\ \A q \in Calls : Subjects(q) \subseteq ToSet(Order)

\* One call stores so many triples.
ASSUME CallsAreFinite ==
    /\ IsFiniteSet(Stored)
    /\ \A r \in Requests : \A q \in Request[r] :
          /\ q.kind \in {"observe", "extract"} => IsFiniteSet(ObservationTriples(r, Content(q)))
          /\ q.kind = "decide" => IsFiniteSet(DecisionTriples(r, q))

VARIABLES
    call,   \* what each reader has asked for
    at,     \* where its call stands
    walk,   \* its traversal: the nodes of this level and of the next, ...
    answer, \* the rows it has so far, how many there are in total, truncated
    since,  \* the triples that have been in the graph ever since the call began
    ever    \* those that have been in it at some time since

readers == <<call, at, walk, answer, since, ever>>

NoCall == [kind |-> "none"]
NoWalk == [level |-> {}, next |-> {}, visited |-> {}, left |-> 0]
NoRows == [rows |-> {}, offset |-> 0, total |-> 0, truncated |-> FALSE]

QueriesInit ==
    /\ Init
    /\ call = [r \in Readers |-> NoCall]
    /\ at = [r \in Readers |-> "idle"]
    /\ walk = [r \in Readers |-> NoWalk]
    /\ answer = [r \in Readers |-> NoRows]
    /\ since = [r \in Readers |-> {}]
    /\ ever = [r \in Readers |-> {}]

Clamp(n, least, most) == Max({least, Min({n, most})})

\* A row of a result is text: whether an object was a node or a literal is lost.
Row(t) == <<t[1], t[2], t[3][2]>>

Rows(triples) == {Row(t) : t \in triples}

-----------------------------------------------------------------------------
(* Queries.                                                                *)

\* edge_types is a list, a filter by predicate when it is not empty.
Passes(t, edges) == edges = <<>> \/ t[2] \in ToSet(edges)

Says(t, name) == t[3] \in {Iri(name), Literal(name), InEnglish(name)}

\* build_traverse_query of one hop, as a set.
Around(g, node, edges) ==
    Rows({t \in g : (t[1] = node \/ Says(t, node)) /\ Passes(t, edges)})

\* How often that query returns a row: from its subject and its object, once by
\* the text and, unless the depth is 0, once more by the node.
Copies(g, node, depth, row) ==
    LET from  == {t \in g : Row(t) = row /\ t[1] = node}
        to    == {t \in g : Row(t) = row /\ Says(t, node)}
        hops  == {t \in to : t[3] = Iri(node)}
    IN Cardinality(from) + Cardinality(to)
       + (IF depth = 0 THEN 0 ELSE Cardinality(from) + Cardinality(hops))

\* How many results so many rows are.
Results(g, node, depth, some) ==
    Cardinality(UNION {{row} \X (1..Copies(g, node, depth, row)) : row \in some})

\* The nodes to go on with from a node, as far as they are the program's own.
Near(g, node, edges) ==
    LET rows == Around(g, node, edges)
    IN ({w[1] : w \in rows} \cup {w[3] : w \in rows}) \cap Memory

\* "IN (a b)" is no SPARQL: the store refuses a filter for two predicates, be they
\* the same.
Understood(edges) == Len(edges) <= 1

Instances(g, class) == {t[1] : t \in {u \in g : u[2] = "type" /\ u[3] = Iri(class)}}

\* Decisions of a status other than "active" are filtered by FILTER(false),
\* active ones not at all: nothing looks at a decision's status.  A store that
\* does not know what the query names refuses it, which the handler takes for a
\* list of nothing, page and total.
ListedDecisions(g, q) ==
    {d \in Instances(g, "Decision") :
        /\ {"Decision", "decisionOutcome"} \subseteq Declared
        /\ q.status = "active"
        /\ q.pattern = Blank \/ Literal(q.pattern) \in Objects(g, d, "decisionOutcome")}

ListedObservations(g) ==
    {o \in Instances(g, "InformationElement") :
        Objects(g, o, "identifier") # {} /\ Objects(g, o, "plainTextContent") # {}}

Listed(g, q) ==
    IF q.class = "Decision" THEN ListedDecisions(g, q) ELSE ListedObservations(g)

\* Observations are counted whether or not they have an identifier and a text.
Counted(g, q) ==
    IF q.class = "Decision" THEN ListedDecisions(g, q) ELSE Instances(g, "InformationElement")

Place(n) == CHOOSE i \in DOMAIN Order : Order[i] = n

UpTo(n, nodes)   == {m \in nodes : Place(m) <= Place(n)}
DownTo(n, nodes) == {m \in nodes : Place(m) >= Place(n)}

\* Seeded: no ORDER BY, the store answers in an order that changes as it grows.
RankInStore(n, nodes, q) ==
    IF Cardinality(nodes) % 2 = 0 THEN Cardinality(UpTo(n, nodes))
    ELSE Cardinality(DownTo(n, nodes))

\* ORDER BY the node: which row it is, from 1; only decisions by creation are
\* ascending.
Rank(n, nodes, q) ==
    IF q.class = "Decision" /\ q.sort = "created" THEN Cardinality(UpTo(n, nodes))
    ELSE Cardinality(DownTo(n, nodes))

\* The REST handlers bound the limit of a page, the tool does not.
PageSize(q) == IF q.via = "rest" THEN Clamp(q.limit, 1, MaxPage) ELSE q.limit

PageOf(g, q, offset) ==
    {n \in Listed(g, q) :
        Rank(n, Listed(g, q), q) \in (offset + 1)..(offset + PageSize(q))}

\* query_entities and list_entities: a row that is no IRI is left out.
EntitiesLike(g, pattern) ==
    {Row(t) : t \in {u \in g :
        /\ u[2] = "label" /\ u[1] \in Instances(g, "Entity") \ Unusable
        /\ pattern \in {Blank, u[3][2]}}}

\* The projects with their names; one name may belong to several nodes.
ProjectNames(g) ==
    {Row(t) : t \in {u \in g : u[2] = "label" /\ u[1] \in Instances(g, "Project") \ Unusable}}

ObservationsOf(g, entity) ==
    {Row(t) : t \in {u \in g : u[2] = "plainTextContent" /\ u[1] \notin Unusable
                                /\ Iri(entity) \in Objects(g, u[1], "hasEntity")}}

EntityRelations(g, entity) ==
    Rows({t \in g : /\ t[1] = entity \/ t[3] = Iri(entity)
                    /\ t[2] \notin {"type", "label"}
                    /\ t[3][1] = "iri"
                    /\ {t[1], t[3][2]} \cap Unusable = {}})

Of(g, node, predicates) == Rows({t \in g : t[1] = node /\ t[2] \in predicates})

\* Some rows up to a LIMIT without an order: which ones is the store's choice.
Limited(rows, limit) == kSubset(Min({limit, Cardinality(rows)}), rows)

-----------------------------------------------------------------------------
(* A call begins; nothing has been read yet.                               *)

\* The tool takes any depth, the REST handler one of 1 to 3.
Hops(q) == IF q.via = "rest" THEN Clamp(q.depth, 1, 3) ELSE q.depth

Identifiers(q) ==
    IF q.kind = "walk" THEN {q.start} \cup ToSet(q.edges)
    ELSE IF q.kind = "list" THEN {q.entity} \ {Blank}
    ELSE IF q.kind \in {"entities", "projects"} THEN {}
    ELSE {q.id}

KnownStatuses == {"active", "superseded", "proposed", "archived"}
Sorts == {"modified", "created", "referenced", "confidence"}

Invalid(q) ==
    \/ Identifiers(q) \cap (Unusable \cup {Blank}) # {}
    \/ q.kind = "list" /\ q.class = "Decision" /\ (q.status \notin KnownStatuses \/ q.sort \notin Sorts)

\* Observations of an entity are not listed, whatever the entity.
FirstStage(q) ==
    IF Invalid(q) THEN "refused"
    ELSE IF q.kind = "walk" THEN IF Hops(q) <= 1 THEN "direct" ELSE "walking"
    ELSE IF q.kind = "list" THEN IF q.entity = Blank THEN "counting" ELSE "done"
    ELSE IF q.kind \in {"decision", "observation", "entity"} THEN "finding"
    ELSE "asking"

Ask(r, q) ==
    /\ at[r] = "idle"
    /\ call' = [call EXCEPT ![r] = q]
    /\ at' = [at EXCEPT ![r] = FirstStage(q)]
    /\ walk' = [walk EXCEPT ![r] =
            IF FirstStage(q) = "walking"
            THEN [level |-> {q.start}, next |-> {}, visited |-> {q.start}, left |-> Hops(q)]
            ELSE NoWalk]
    /\ since' = [since EXCEPT ![r] = graph]
    /\ ever' = [ever EXCEPT ![r] = graph]
    /\ UNCHANGED <<answer, graph, pc, prepared, tracked, worker, faults>>

\* One query of a call: the reader moves on, the store stays as it is.
Reads(r, from, to) ==
    /\ at[r] = from
    /\ at' = [at EXCEPT ![r] = to]
    /\ UNCHANGED <<call, since, ever, graph, pc, prepared, tracked, worker, faults>>

Gets(r, rows) == answer' = [answer EXCEPT ![r].rows = @ \cup rows]

Cut(r, rows) == answer' = [answer EXCEPT ![r].rows = @ \cup rows, ![r].truncated = TRUE]

-----------------------------------------------------------------------------
(* Traversal.                                                              *)

\* One hop takes a single query, whose rows count as often as they come.
Direct(r) ==
    LET q    == call[r]
        rows == Around(graph, q.start, q.edges)
        size(some) == Results(graph, q.start, Hops(q), some)
    IN /\ Reads(r, "direct", "done")
       /\ Understood(q.edges)
       /\ \/ size(rows) <= MaxTriples /\ Gets(r, rows)
          \/ /\ size(rows) > MaxTriples
             /\ \E some \in SUBSET rows :
                   /\ Cardinality(some) <= MaxTriples
                   /\ MaxTriples <= size(some)
                   /\ Cut(r, some)
       /\ UNCHANGED walk

\* A query that the store refuses is a warning here and an error in a walk.
DirectRefused(r) ==
    /\ Reads(r, "direct", "warned")
    /\ ~Understood(call[r].edges)
    /\ UNCHANGED <<walk, answer>>

WalkRefused(r) ==
    /\ Reads(r, "walking", "failed")
    /\ ~Understood(call[r].edges)
    /\ walk' = [walk EXCEPT ![r] = NoWalk]
    /\ UNCHANGED answer

\* Seeded: a node's neighbours replace those of the nodes before it.
OverwritesNext(w, node, found) ==
    IF w.level = {node}
    THEN [level |-> found, next |-> {}, visited |-> w.visited \cup found, left |-> w.left - 1]
    ELSE [w EXCEPT !.level = @ \ {node}, !.next = found, !.visited = @ \cup found]

\* The walk after a node: its neighbours are for the next level.
Walked(w, node, found) ==
    IF w.level = {node}
    THEN [level |-> w.next \cup found, next |-> {}, visited |-> w.visited \cup found,
          left |-> w.left - 1]
    ELSE [w EXCEPT !.level = @ \ {node}, !.next = @ \cup found, !.visited = @ \cup found]

\* Seeded: the cap is looked at before a node's rows are added.
HasRoom(r, new) == Cardinality(answer[r].rows) <= MaxTriples

Fits(r, new) == Cardinality(answer[r].rows) + Cardinality(new) <= MaxTriples

Visit(r, node) ==
    LET rows  == Around(graph, node, call[r].edges)
        new   == rows \ answer[r].rows
        found == Near(graph, node, call[r].edges) \ walk[r].visited
        after == Walked(walk[r], node, found)
        over  == after.left = 0 \/ after.level = {}
    IN /\ node \in walk[r].level
       /\ Understood(call[r].edges)
       /\ Fits(r, new)
       /\ Reads(r, "walking", IF over THEN "done" ELSE "walking")
       /\ walk' = [walk EXCEPT ![r] = IF over THEN NoWalk ELSE after]
       /\ Gets(r, new)

\* The walk stops in the middle of a level.
Truncate(r, node) ==
    LET new == Around(graph, node, call[r].edges) \ answer[r].rows
    IN /\ node \in walk[r].level
       /\ Understood(call[r].edges)
       /\ ~Fits(r, new)
       /\ Reads(r, "walking", "done")
       /\ \E some \in kSubset(MaxTriples - Cardinality(answer[r].rows), new) : Cut(r, some)
       /\ walk' = [walk EXCEPT ![r] = NoWalk]

-----------------------------------------------------------------------------
(* Lists: the total, then the page.  The client turns pages until one is   *)
(* not full.                                                               *)

Count(r) ==
    /\ Reads(r, "counting", "paging")
    /\ answer' = [answer EXCEPT ![r].total = Cardinality(Counted(graph, call[r]))]
    /\ UNCHANGED walk

TurnPage(r) ==
    LET page == PageOf(graph, call[r], answer[r].offset)
    IN /\ Reads(r, "paging", IF Cardinality(page) < PageSize(call[r]) THEN "done" ELSE "counting")
       /\ answer' = [answer EXCEPT ![r].rows = @ \cup page, ![r].offset = @ + Cardinality(page)]
       /\ UNCHANGED walk

-----------------------------------------------------------------------------
(* Details, and what takes one query.                                      *)

FindObservation(r) ==
    LET id == call[r].id
    IN /\ call[r].kind = "observation"
       /\ Reads(r, "finding", IF id \in ListedObservations(graph) THEN "references" ELSE "absent")
       /\ Gets(r, Of(graph, id, IF id \in ListedObservations(graph) THEN {"plainTextContent"} ELSE {}))
       /\ UNCHANGED walk

ReadReferences(r) ==
    /\ Reads(r, "references", IF "hasEntity" \in Declared THEN "done" ELSE "failed")
    /\ Gets(r, Of(graph, call[r].id, {"hasEntity"}))
    /\ UNCHANGED walk

FindDecision(r) ==
    LET id == call[r].id
        known == id \in Instances(graph, "Decision")
    IN /\ call[r].kind = "decision"
       /\ Reads(r, "finding", IF known THEN "alternatives" ELSE "absent")
       /\ Gets(r, IF known
                  THEN Of(graph, id, {"decisionOutcome", "decisionContext", "decisionRationale"})
                  ELSE {})
       /\ UNCHANGED walk

\* A store that does not know the property refuses the query.
ReadAlternatives(r) ==
    /\ Reads(r, "alternatives", IF "decisionAlternative" \in Declared THEN "done" ELSE "failed")
    /\ Gets(r, Of(graph, call[r].id, {"decisionAlternative"}))
    /\ UNCHANGED walk

FindEntity(r) ==
    LET id == call[r].id
        known == id \in Instances(graph, "Entity") \/ Objects(graph, id, "label") # {}
    IN /\ call[r].kind = "entity"
       /\ Reads(r, "finding", IF known THEN "observations" ELSE "absent")
       /\ Gets(r, IF known THEN Of(graph, id, {"type", "label"}) ELSE {})
       /\ UNCHANGED walk

ReadObservations(r) ==
    /\ Reads(r, "observations", "relations")
    /\ \E some \in Limited(ObservationsOf(graph, call[r].id), MaxRelated) : Gets(r, some)
    /\ UNCHANGED walk

ReadRelations(r) ==
    /\ Reads(r, "relations", "done")
    /\ Gets(r, EntityRelations(graph, call[r].id))
    /\ UNCHANGED walk

\* A class that the store does not know is an empty list to the REST handler of
\* the entities and an error to the tools.  A property it does not know nothing
\* in it has, which comes to the empty list of an entity's observations.
AskOnce(r) ==
    LET q == call[r]
        class == IF q.kind = "entities" /\ q.via = "tool" THEN {"Entity"}
                 ELSE IF q.kind = "projects" THEN {"Project"} ELSE {}
        rows == IF q.kind = "entities" THEN Limited(EntitiesLike(graph, q.pattern), PageSize(q))
                ELSE IF q.kind = "related" THEN Limited(ObservationsOf(graph, q.id), MaxRelated)
                ELSE {ProjectNames(graph)}
    IN /\ Reads(r, "asking", IF class \subseteq Declared THEN "done" ELSE "failed")
       /\ \E some \in rows : Gets(r, some)
       /\ UNCHANGED walk

Ends == {"done", "warned", "absent", "refused", "failed"}

Stages == {"direct", "walking", "counting", "paging", "finding", "references",
             "alternatives", "observations", "relations", "asking"}

\* A query or its cursor fails.
QueryFails(r) ==
    /\ at[r] \in Stages
    /\ Fault
    /\ at' = [at EXCEPT ![r] = "failed"]
    /\ walk' = [walk EXCEPT ![r] = NoWalk]
    /\ UNCHANGED <<call, answer, since, ever, graph, pc, prepared, tracked, worker>>

-----------------------------------------------------------------------------
ReaderStep(r) ==
    \/ \E q \in Reading[r] : Ask(r, q)
    \/ Direct(r) \/ DirectRefused(r) \/ WalkRefused(r)
    \/ \E node \in walk[r].level : Visit(r, node) \/ Truncate(r, node)
    \/ Count(r) \/ TurnPage(r)
    \/ FindObservation(r) \/ ReadReferences(r)
    \/ FindDecision(r) \/ ReadAlternatives(r)
    \/ FindEntity(r) \/ ReadObservations(r) \/ ReadRelations(r)
    \/ AskOnce(r)
    \/ QueryFails(r)

\* Other calls write, and the readers that are not done have one more graph behind
\* them.  The background worker rests: it replaces literals as supersede does.
WriterStep ==
    /\ \E w \in Requests : RequestStep(w)
    /\ since' = [r \in Readers |-> IF at[r] \in Ends THEN since[r] ELSE since[r] \cap graph']
    /\ ever' = [r \in Readers |-> IF at[r] \in Ends \cup {"idle"} THEN ever[r]
                                  ELSE ever[r] \cup graph']
    /\ UNCHANGED <<call, at, walk, answer>>

QueriesNext == WriterStep \/ \E r \in Readers : ReaderStep(r)

QueriesSpec == QueriesInit /\ [][QueriesNext]_<<readers, vars>>

-----------------------------------------------------------------------------
(* Properties.                                                             *)

Done(r, kind) == at[r] = "done" /\ call[r].kind = kind

\* Nodes to go along from the start of a walk.
Paths(g, q, hops) ==
    {p \in [0..hops -> Memory \cup {q.start}] :
        /\ p[0] = q.start
        /\ \A i \in 1..hops : p[i] \in Near(g, p[i - 1], q.edges)}

\* The nodes a walk may expand within so many hops of a graph.
Ball(g, q, hops) == UNION {{p[k] : p \in Paths(g, q, k)} : k \in 0..hops}

Neighbourhood(g, q) ==
    UNION {Around(g, n, q.edges) : n \in Ball(g, q, Max({0, Hops(q) - 1}))}

\* The same without going on from a class or a property, whose names begin like
\* those of the program's own nodes; an edge that leads to one is still there.
SchemaFree(g, q, hops) ==
    {p \in Paths(g, q, hops) : \A i \in 1..hops : p[i] \notin Declared}

MemoryFacts(g, q) ==
    UNION {UNION {Around(g, p[k], q.edges) : p \in SchemaFree(g, q, k)} :
              k \in 0..Max({0, Hops(q) - 1})}

\* Types of the readers' variables; nobody has more rows of a traversal than the
\* cap, a walk that goes on has hops left and nodes to visit that it has not
\* lost, and a client that turns pages has no more rows than its offset counts.
QueriesTypeOK ==
    /\ at \in [Readers -> Stages \cup Ends \cup {"idle"}]
    /\ \A r \in Readers :
          /\ call[r] \in Reading[r] \cup {NoCall}
          /\ (at[r] = "idle") = (call[r] = NoCall)
          /\ (at[r] = "walking") = (walk[r].level # {})
          /\ (at[r] = "walking") = (walk[r].left \in Nat \ {0})
          /\ walk[r].level \cup walk[r].next \subseteq walk[r].visited
          /\ walk[r].visited \subseteq Memory \cup {n.start : n \in {q \in Reading[r] : q.kind = "walk"}}
          /\ (at[r] = "walking") = (walk[r] # NoWalk)
          /\ answer[r].offset \in Nat /\ answer[r].total \in Nat /\ answer[r].truncated \in BOOLEAN
          /\ (at[r] # "idle" /\ call[r].kind = "walk") => Cardinality(answer[r].rows) <= MaxTriples
          /\ (at[r] # "idle" /\ call[r].kind = "list") =>
                Cardinality(answer[r].rows) <= answer[r].offset
          /\ since[r] \subseteq ever[r]

\* A traversal that does not say it was cut shows all rows around all nodes it
\* could reach over triples that were there all the time without going on from
\* the schema, and no row of a node it could not have reached: whatever is
\* written between its queries, nothing is lost and nothing is made up.  A walk
\* that says it was cut is full and lacks a row; a single query that says so
\* shows as many results as the cap, a row perhaps more than once.
WalksAreComplete ==
    \A r \in Readers : Done(r, "walk") =>
        LET q    == call[r]
            rows == answer[r].rows
        IN /\ rows \subseteq Neighbourhood(ever[r], q)
           /\ ~answer[r].truncated => MemoryFacts(since[r], q) \subseteq rows
           /\ answer[r].truncated /\ Hops(q) > 1 =>
                 Cardinality(rows) = MaxTriples /\ rows # Neighbourhood(ever[r], q)
           /\ answer[r].truncated /\ Hops(q) <= 1 =>
                 MaxTriples <= Results(ever[r], q.start, Hops(q), rows)

\* A client that turns pages by offset until one is not full has seen everything
\* that was listed all the time, although what is stored in between moves the
\* rest to later pages, and nothing that was never listed; what is listed is
\* what the handler's query selects, which is not what a status promises.  The
\* total each page of decisions came with was never too high; that of
\* observations counts what no page shows.
PagesMissNothing ==
    \A r \in Readers : Done(r, "list") /\ call[r].entity = Blank =>
        /\ Listed(since[r], call[r]) \subseteq answer[r].rows
        /\ answer[r].rows \subseteq Listed(ever[r], call[r])
        /\ call[r].class = "Decision" => answer[r].total <= answer[r].offset

Texts == {"plainTextContent", "hasEntity"}

\* What a call stores, or would store, as its observation.
Own(o) == IF o \in Observed THEN ObservationTriples(o, prepared[o]) ELSE {}

\* An observation is shown with its text and all its entities, though they are
\* read by two queries, or it was not there when it was asked for; what a client
\* says of it meanwhile may be shown or not.
ObservationsShownWhole ==
    \A r \in Readers : at[r] # "idle" /\ call[r].kind = "observation" =>
        LET id == call[r].id
        IN /\ at[r] = "done" =>
                 /\ Of(since[r] \cup Own(id), id, Texts) \subseteq answer[r].rows
                 /\ answer[r].rows \subseteq Of(graph, id, Texts)
           /\ at[r] = "absent" => id \notin ListedObservations(since[r])

\* A decision that is stored can be opened and is shown with the alternatives
\* that were recorded.
DecisionsShownWhole ==
    \A r \in Readers : at[r] # "idle" /\ call[r].kind = "decision" =>
        /\ at[r] = "failed" => faults > 0
        /\ at[r] = "done" => Of(graph, call[r].id, {"alternative"}) \subseteq answer[r].rows
=============================================================================
