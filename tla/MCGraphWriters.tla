--------------------------- MODULE MCGraphWriters ---------------------------
(***************************************************************************)
(* Instances of GraphWriters for TLC, and the pure functions it uses       *)
(* against reference definitions over small inputs.                        *)
(***************************************************************************)
EXTENDS GraphWriters

NoEdges == [belongsToProject |-> {}]

Decision(outcome, edges) ==
    [kind |-> "decide", context |-> "why", outcome |-> outcome, rationale |-> "because",
     alternatives |-> <<>>, edges |-> edges]

\* Earlier runs have left an active decision and a superseded one.
StoredDecisions ==
    SupersedeIn(DecisionTriples("d1", Decision("one", NoEdges))
                \cup DecisionTriples("d2", Decision("two", NoEdges)), "d2")

\* Two observations that mention the same node under different names, so that
\* the store refuses the later one; the first also says something of a decision
\* that only the program should say.
Given == [kind |-> "observe", text |-> "said",
          entities |-> <<[uri |-> "Person", label |-> "Ann"]>>,
          relations |-> <<[subject |-> "Person", predicate |-> "uses", object |-> "Product"],
                          [subject |-> "d1", predicate |-> "decisionStatus", object |-> "Product"]>>]

Extracted == [kind |-> "extract", text |-> "told", labels |-> {"Person", "Product"},
              spans |-> <<[class |-> "Person", text |-> "Bob"],
                          [class |-> "Product", text |-> "Tool"],
                          [class |-> "no iri", text |-> "?"]>>,
              found |-> <<[subject |-> "Bob", class |-> "uses", object |-> "Tool"]>>]

\* Calls of which one client makes one: those that store a node of their own, an
\* ingestion and an extraction of no text, links, one of them to no IRI.
Others == {Decision("three", [belongsToProject |-> {"p1"}]),
           [Given EXCEPT !.text = Blank],
           [Extracted EXCEPT !.text = Blank],
           [kind |-> "capture", tool |-> "search", arguments |-> "{}", session |-> "s"],
           [kind |-> "link", call |-> "call1", decision |-> "no iri"],
           [kind |-> "link", call |-> "call1", decision |-> "d1"],
           [kind |-> "container", path |-> "k1"],
           [kind |-> "symbol", name |-> "f", container |-> "k1"]}

MixedRequests ==
    [o1 |-> {Given}, o2 |-> {Extracted}, x |-> Others,
     s1 |-> {[kind |-> "supersede", decision |-> "d1"]}]

\* An observation that names an entity and relates nothing.
PlainRequests == [o1 |-> {[Given EXCEPT !.relations = <<>>]}]

NoResolver == [aliases |-> [l \in {} |-> ""], lexical |-> <<>>, semantic |-> <<>>]
-----------------------------------------------------------------------------
(* The pure functions, over small inputs.                                  *)

SeqsUpTo(set, n) == UNION {[1..k -> set] : k \in 0..n}

Spans == SeqsUpTo([class : {"Person", "no iri"}, text : {"Ann", "Bob"}]
                  \cup [class : {"Product"}, text : {"Tool", "Ann"}], 2)

\* A relation between texts that are entities joins nodes of entities.
ASSUME RelationEnds ==
    \A spans \in Spans, a, b \in {"Ann", "Tool"} :
        LET entities == EntitiesOf(spans)
            nodes    == {e.uri : e \in ToSet(entities)}
            made     == RelationsOf(<<[subject |-> a, class |-> "uses", object |-> b]>>, entities)
        IN HasLabel(entities, a) /\ HasLabel(entities, b) =>
              Len(made) = 1 /\ {made[1].subject, made[1].object} \subseteq nodes

\* extract_relations given the entities it has found itself changes nothing, as
\* long as no text has two classes.
ASSUME RemapOfItself ==
    \A spans \in Spans :
        LET entities  == EntitiesOf(spans)
            relations == RelationsOf(<<[subject |-> "Ann", class |-> "uses", object |-> "Tool"]>>,
                                     entities)
        IN (\A e, f \in ToSet(entities) : e.label = f.label => e = f) =>
              RemapRelations(relations, entities, entities) = relations

Hits == SeqsUpTo([id : {"n1", "no iri"}, score : {70, 80, 90}], 1)

\* resolver.rs: the first tier whose best match is close enough answers.
ASSUME TiersInOrder ==
    \A lexical, semantic \in Hits, known \in BOOLEAN :
        LET aliases == [l \in IF known THEN {"Ann"} ELSE {} |-> "n2"]
            found   == Resolved("Ann", [aliases |-> aliases, lexical |-> lexical,
                                        semantic |-> semantic])
            close(hits, least) == \E i \in DOMAIN hits :
                                     hits[i].score >= least /\ hits[i].id = "n1"
        IN /\ (found.tier = 1) = known
           /\ (found.tier = 2) = (~known /\ close(lexical, 85))
           /\ found.tier = 3 => close(semantic, 78) /\ ~close(lexical, 85)
           /\ (found.node = {}) = (found.tier = 0)

\* compat.rs: a model that declares what the span decoder needs is never blamed.
ASSUME NoFalseDiagnosis ==
    \A inputs \in SUBSET {"span_idx", "span_mask", "text"}, rank \in {3, 4} :
        LET model == [readable |-> TRUE, logits |-> TRUE, rank |-> rank, inputs |-> inputs]
        IN Diagnosis("unexpected logits shape", model) = "unknown" <=>
              rank = 4 /\ {"span_idx", "span_mask"} \subseteq inputs

\* ranking/core.rs: a search result that decisions refer to moves up, and
\* results nobody refers to keep the order they came in.
ASSUME BoostByEvidence ==
    LET results == <<[id |-> "a", score |-> 10], [id |-> "b", score |-> 9], [id |-> "c", score |-> 9]>>
        cited(n) == {<<<<"d", i>>, "evidenceFor", Iri("c")>> : i \in 1..n}
        order(g) == [i \in 1..3 |-> Reranked(results, g)[i].id]
    IN /\ order({}) = <<"a", "b", "c">>
       /\ order(cited(2)) = <<"a", "c", "b">>
       /\ order(cited(3)) = <<"c", "a", "b">>
       /\ ProvenanceQuality(cited(12), "c") = 10

\* A link and a status are found by the queries that look for them.
ASSUME StatusQueries ==
    LET stored == StoredDecisions
    IN /\ WithStatus(stored, "active") = {"d1"}
       /\ WithStatus(stored, "superseded") = {"d2"}
       /\ Containers(ContainerTriples("k") \cup SymbolTriples("f", "k")) = {"k"}
=============================================================================
