------------------------------ MODULE Extraction ----------------------------
(***************************************************************************)
(* From a text to the entities and relations that are stored, and from an  *)
(* entity's label to the node it stands for.  Pure functions of what the   *)
(* model answers, of the indexes and of the configuration.                 *)
(*                                                                         *)
(* Source: crates/zakhor-model/src/extraction, src/entity_resolver.        *)
(* A node http://zakhor/ns/entity/{name} and a predicate                   *)
(* http://zakhor/ns/relation/{name} are written as the name.               *)
(***************************************************************************)
EXTENDS Naturals, Sequences, SequencesExt

CONSTANTS
    Unusable,  \* names and identifiers that make no IRI
    Blank,     \* a text of white space only
    IriLabels  \* labels that start with "http://" or "urn:"

-----------------------------------------------------------------------------
(* What the model can be asked, and what it answers.                       *)

\* An empty text and an empty set of labels are refused before the model runs,
\* which then fails or answers spans and relations between them.
Inference(text, labels, answer) ==
    IF text = Blank \/ labels = {} THEN "refused" ELSE answer

\* Which decoders the model's declared interface rules out.
Incompatibility(model) ==
    CASE ~model.readable                        -> "unknown"
      [] model.readable /\ ~model.logits        -> "no logits"
      [] model.readable /\ model.logits /\ model.rank # 4 -> "rank"
      [] model.readable /\ model.logits /\ model.rank = 4 ->
            IF {"span_idx", "span_mask"} \subseteq model.inputs
            THEN "unknown" ELSE "export"

\* The diagnosis an error carries: only a shape error has one.
Diagnosis(error, model) ==
    IF error = "unexpected logits shape" THEN Incompatibility(model) ELSE "none"

-----------------------------------------------------------------------------
(* Spans and relations.                                                    *)

\* The node of an entity is named by the class of its span, not by its text.
EntitiesOf(spans) ==
    LET usable == SelectSeq(spans, LAMBDA s : s.class \notin Unusable)
    IN [i \in DOMAIN usable |-> [uri |-> usable[i].class, label |-> usable[i].text]]

\* The value a HashMap collected from key/value pairs keeps: the last one.
LastOf(entities, field, value) ==
    entities[Max({i \in DOMAIN entities : entities[i][field] = value})]

HasLabel(entities, label) == \E i \in DOMAIN entities : entities[i].label = label

\* The node of a label; a label no entity has names a node of its own.
NodeOf(entities, label) ==
    IF HasLabel(entities, label)
    THEN LastOf(entities, "label", label).uri
    ELSE label

RelationsOf(found, entities) ==
    LET mapped == [i \in DOMAIN found |->
                      [subject   |-> NodeOf(entities, found[i].subject),
                       predicate |-> found[i].class,
                       object    |-> NodeOf(entities, found[i].object)]]
    IN SelectSeq(mapped, LAMBDA r :
                    {r.subject, r.predicate, r.object} \cap Unusable = {})

\* extract_relations: the nodes of the caller's own entities replace those of
\* the extraction, through the label the extraction last saw at the node.
Renamed(node, extracted, given) ==
    IF \E i \in DOMAIN extracted : extracted[i].uri = node
    THEN LET label == LastOf(extracted, "uri", node).label
         IN IF HasLabel(given, label)
            THEN LastOf(given, "label", label).uri
            ELSE node
    ELSE node

RemapRelations(relations, extracted, given) ==
    [i \in DOMAIN relations |->
        [relations[i] EXCEPT !.subject = Renamed(@, extracted, given),
                             !.object  = Renamed(@, extracted, given)]]

-----------------------------------------------------------------------------
(* Entity resolution.  A resolver is [aliases, lexical, semantic]: a        *)
(* function from labels, and the hits of either index, best first; scores  *)
(* and thresholds are in hundredths.                                       *)

\* The best hit, if it is close enough and its identifier is an IRI.
TopHit(hits, threshold) ==
    IF hits # <<>> /\ hits[1].score >= threshold /\ hits[1].id \notin Unusable
    THEN {hits[1].id} ELSE {}

\* The tier that answers, and its node; tier 0 leaves the label unresolved.
Resolved(label, resolver) ==
    LET lexical  == TopHit(resolver.lexical, 85)
        semantic == TopHit(resolver.semantic, 78)
    IN CASE label \in DOMAIN resolver.aliases ->
              [tier |-> 1, node |-> {resolver.aliases[label]}]
         [] label \notin DOMAIN resolver.aliases /\ lexical # {} ->
              [tier |-> 2, node |-> lexical]
         [] label \notin DOMAIN resolver.aliases /\ lexical = {} /\ semantic # {} ->
              [tier |-> 3, node |-> semantic]
         [] OTHER -> [tier |-> 0, node |-> {}]

\* Only the nodes of the entities are replaced: relations keep theirs.  A label
\* that looks like an IRI is not looked up, and a node that is none not taken.
ResolveEntities(entities, resolver) ==
    [i \in DOMAIN entities |->
        LET found == Resolved(entities[i].label, resolver).node \ Unusable
        IN IF entities[i].label \in IriLabels \/ found = {} THEN entities[i]
           ELSE [entities[i] EXCEPT !.uri = CHOOSE n \in found : TRUE]]
=============================================================================
