------------------------------ MODULE MCQueries -----------------------------
(***************************************************************************)
(* Instances of Queries for TLC, and the fusion of two rankings over small *)
(* inputs.                                                                 *)
(***************************************************************************)
EXTENDS Queries, HybridSearch

NoEdges == [belongsToProject |-> {}]

Decision(outcome, edges) ==
    [kind |-> "decide", context |-> "why", outcome |-> outcome, rationale |-> "because",
     alternatives |-> <<"other">>, edges |-> edges]

Observation(text, entities, relations) ==
    [kind |-> "observe", text |-> text, entities |-> entities, relations |-> relations]

Uses(a, b) == [subject |-> a, predicate |-> "uses", object |-> b]

Ann  == [uri |-> "Person", label |-> "Ann"]
Tool == [uri |-> "Product", label |-> "Tool"]

\* What earlier runs have left: two observations, two decisions, one of them of
\* a project, and what the ontology says of a class.
StoredGraph ==
    ObservationTriples("o1", Observation("said", <<Ann>>, <<>>))
    \cup ObservationTriples("o3", Observation("told", <<>>,
              <<Uses("Person", "Method"), Uses("Method", "Task"), Uses("Task", "Data")>>))
    \cup DecisionTriples("d1", Decision("one", [belongsToProject |-> {"p1"}]))
    \cup DecisionTriples("d3", Decision("two", NoEdges))
    \cup {<<"Entity", "subClassOf", Iri("Resource")>>}

\* As much of it as a store has that knows the program's ontology and no more.
DeclaredGraph == {t \in StoredGraph : t[2] \in Ontology}

\* What is written meanwhile falls between the others in every list and gives
\* Person, Product and the project new neighbours, the new observation a second
\* entity, and makes a node an observation that has no text.
Meanwhile ==
    [o2 |-> {Observation("heard", <<Ann, Tool>>, <<Uses("Product", "Person")>>)},
     d2 |-> {Decision("three", [belongsToProject |-> {"p1"}])},
     s1 |-> {[kind |-> "supersede", decision |-> "d1"],
             Observation("also", <<>>,
                 <<[subject |-> "o2", predicate |-> "hasEntity", object |-> "Method"],
                   [subject |-> "Person", predicate |-> "type", object |-> "InformationElement"]>>)}]

Walk(start, depth, edges, via) ==
    [kind |-> "walk", start |-> start, depth |-> depth, edges |-> edges, via |-> via]

List(class, entity, pattern, status, sort, limit) ==
    [kind |-> "list", class |-> class, entity |-> entity, pattern |-> pattern,
     status |-> status, sort |-> sort, limit |-> limit, via |-> "rest"]

Detail(kind, id) == [kind |-> kind, id |-> id]

ReadRequests ==
    [r |-> {Walk("p1", 3, <<>>, "rest"), Walk("Person", 2, <<>>, "tool"), Walk("o1", 0, <<>>, "tool"),
            Walk("d1", 9, <<"belongsToProject">>, "rest"), Walk("Person", 3, <<"uses">>, "tool"),
            Walk("o1", 2, <<"type", "uses">>, "tool"),
            Walk("p1", 1, <<"uses", "uses">>, "rest"), Walk("no iri", 2, <<>>, "tool"),
            Walk("Person", 1, <<>>, "tool")}
           \cup {List("Decision", "", pattern, status, sort, 1) :
                    pattern \in {"", "three"}, status \in {"active", "archived", "open"},
                    sort \in {"created", "modified"}}
           \cup {List("InformationElement", e, "", "active", "created", 0) : e \in {"", "Person"}}
           \cup {Detail(kind, id) : kind \in {"decision", "observation", "entity", "related"},
                                    id \in {"d2", "o2", "Person", "no iri"}}
           \cup {[kind |-> "entities", pattern |-> "", limit |-> 1, via |-> "tool"],
                 [kind |-> "projects"]}]

MemoryNames == {"Entity", "Decision", "Person", "Product", "Method", "Task", "p1"}

Names == <<"d1", "d2", "d3", "o1", "o2", "o3", "s1",
           "call1", "Data", "Entity", "Method", "Person", "Product", "Task">>

\* Only an old decision is opened.
OpenOne == [r |-> {Detail("decision", "d1")}]

NoResolver == [aliases |-> [l \in {} |-> ""], lexical |-> <<>>, semantic |-> <<>>]
-----------------------------------------------------------------------------
(* Fusion, over rankings of three documents.                               *)

Rankings == UNION {[1..n -> {"a", "b", "c"}] : n \in 0..3}
NoRepeats == {ranking \in Rankings : IsInjective(ranking)}

At(ranking, doc) == CHOOSE i \in DOMAIN ranking : ranking[i] = doc
Above(ranking, x, y) ==
    x \in ToSet(ranking) /\ (y \in ToSet(ranking) => At(ranking, x) < At(ranking, y))

\* As long as no document has two entries in an index, what both indexes rank
\* higher comes first, each document comes once and a limit cuts the end off.
ASSUME FusionAgrees ==
    \A lexical, semantic \in NoRepeats : \A found \in HybridSearch(lexical, semantic, 3) :
        /\ IsInjective(found)
        /\ ToSet(found) = ToSet(lexical) \cup ToSet(semantic)
        /\ \A x, y \in ToSet(found) :
              Above(lexical, x, y) /\ Above(semantic, x, y) => At(found, x) < At(found, y)
        /\ First(found, 2) \in HybridSearch(lexical, semantic, 2)

\* A document that has two entries overtakes one that both indexes rank higher.
ASSUME RepeatsOvertake ==
    \A found \in HybridSearch(<<"a", "b", "b">>, <<"a", "b">>, 3) : found = <<"b", "a">>

\* A failing lexical index is an error in its own mode only.
ASSUME LexicalFailure ==
    LET q(mode) == [blank |-> FALSE, mode |-> mode, limit |-> 0]
    IN /\ RestSearch(q("lexical"), Unanswered, <<"a">>) = {Failed}
       /\ RestSearch(q("hybrid"), Unanswered, <<"a", "b">>) = {Found(<<"a">>)}
       /\ ToolSearch(q("hybrid"), Unanswered, <<"a">>, TRUE) = {Found(<<>>)}
       /\ RestSearch(q("hybrid"), NoIndexes, <<"a">>) = {Warned}
=============================================================================
