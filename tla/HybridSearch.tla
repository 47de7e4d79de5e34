----------------------------- MODULE HybridSearch ---------------------------
(***************************************************************************)
(* What a search makes of the two rankings, as operators.  A ranking is a  *)
(* sequence of documents, best first; IndexSync models the indexes that    *)
(* they come from.  An index in which a document has two entries ranks it  *)
(* twice.                                                                  *)
(*                                                                         *)
(* Source: crates/zakhor-api/src/tools/mod.rs, tools/search_hybrid.rs,     *)
(* api/search.rs.                                                          *)
(***************************************************************************)
EXTENDS Naturals, Sequences, FiniteSets, SequencesExt

CONSTANTS
    Scale,      \* a common multiple of 60, 61, ...: reciprocal ranks as integers
    NoIndexes,  \* the server runs without a sync manager
    Unanswered  \* the lexical index cannot be searched

First(ranking, n) == SubSeq(ranking, 1, Min({n, Len(ranking)}))

Overfetch(limit) == 2 * Max({limit, 20})

\* Reciprocal rank with k = 60, ranks from 0; each place of a document counts.
RankScore(ranking, doc) ==
    MapThenSumSet(LAMBDA i : Scale \div (59 + i), {i \in DOMAIN ranking : ranking[i] = doc})

FusedScore(lexical, semantic, doc) == RankScore(lexical, doc) + RankScore(semantic, doc)

\* Every order by score; documents with the same score come in any order.
Fusions(lexical, semantic, limit) ==
    LET orders == {s \in SetToSeqs(ToSet(lexical) \cup ToSet(semantic)) :
                      \A i, j \in DOMAIN s : i < j =>
                          FusedScore(lexical, semantic, s[i]) >= FusedScore(lexical, semantic, s[j])}
    IN {First(s, limit) : s \in orders}

\* hybrid_search: a lexical index that cannot be searched is an empty one.
HybridSearch(lexical, semantic, limit) ==
    Fusions(IF lexical = Unanswered THEN <<>> ELSE First(lexical, Overfetch(limit)),
            First(semantic, Overfetch(limit)), limit)

Found(docs) == [status |-> "found", docs |-> docs]
Warned      == [status |-> "warned", docs |-> <<>>]
Refused     == [status |-> "refused", docs |-> <<>>]
Failed      == [status |-> "failed", docs |-> <<>>]

\* search_hybrid, the tool: any limit, a warning when it cannot rank semantically.
ToolSearch(q, lexical, semantic, semanticEnabled) ==
    IF lexical = NoIndexes THEN {Warned}
    ELSE {[status |-> IF semanticEnabled THEN "found" ELSE "warned", docs |-> docs] :
             docs \in HybridSearch(lexical, semantic, q.limit)}

\* GET /search: a bounded limit and one of three modes.
RestSearch(q, lexical, semantic) ==
    LET limit == Max({1, Min({q.limit, 100})})
    IN IF q.blank THEN {Refused}
       ELSE IF lexical = NoIndexes THEN {Warned}
       ELSE IF q.mode = "hybrid" THEN {Found(d) : d \in HybridSearch(lexical, semantic, limit)}
       ELSE IF q.mode = "semantic" THEN {Found(First(semantic, limit))}
       ELSE IF lexical = Unanswered THEN {Failed}
       ELSE {Found(First(lexical, limit))}
=============================================================================
