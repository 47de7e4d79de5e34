-------------------------- MODULE ProjectRegistry --------------------------
(***************************************************************************)
(* create_project and link_to_project: nodes of the graph that callers     *)
(* know by name, and edges to them.  Both are sequences of separate SPARQL *)
(* statements on a store that other blocking tasks write in between.       *)
(*                                                                         *)
(* Source: crates/zakhor-api/src/project.rs.  create_repository and        *)
(* link_to_repository are the same code with another class, predicate and  *)
(* URI prefix, so they make a second, disjoint registry.                   *)
(*                                                                         *)
(* Tracker is modelled from how that file uses it: a statement is atomic,  *)
(* and an insert is rejected as a whole when it would give a single-valued *)
(* property (rdfs:label, rdfs:comment) a second value.  A language tag is  *)
(* no part of the value: the lookup by a tagged name finds what it stored. *)
(***************************************************************************)
EXTENDS Naturals, FiniteSets

CONSTANTS
    Creates,      \* calls of create_project
    Links,        \* calls of link_to_project
    Names,        \* names of projects (and labels of entities)
    Comments,     \* descriptions
    Nothing,      \* no label, no description, no URI
    Uris,         \* every URI the calls below may touch
    Candidates,   \* Candidates[n]: the slug URI of n, then with -2, -3, ...
    MaxSuffix,    \* bound: how many candidates a name has
    EntityUris,   \* bound: the URIs that entities are stored under
    MaxEntities,  \* bound: how many entities other tools store meanwhile
    LinkEnds,     \* bound: the pairs of URIs that links are asked for
    Faults        \* the statements that may fail

Statements == {"find", "probe", "update"}
Texts == Comments \cup {Nothing}
Suffixes == 1..MaxSuffix

ASSUME CallsDisjoint == Creates \cap Links = {}
ASSUME NothingIsNoValue == Nothing \notin Names \cup Comments \cup Uris
ASSUME CandidatesKnown ==
    /\ MaxSuffix \in Nat \ {0}
    /\ Candidates \in [Names -> [Suffixes -> Uris]]
ASSUME EntityBound == EntityUris \subseteq Uris /\ MaxEntities \in Nat
ASSUME EndsKnown == LinkEnds \subseteq Uris \X Uris
ASSUME StatementsKnown == Faults \subseteq Statements

VARIABLES
    types,     \* types[u]: rdf:type values of u, "project" or "entity"
    label,     \* label[u]: its rdfs:label
    comment,   \* comment[u]: its rdfs:comment
    edges,     \* belongsToProject: pairs of URIs
    pc,        \* pc[c]: where a call stands
    request,   \* request[c]: name and description, or subject and project
    suffix,    \* suffix[c]: the candidate c is looking at
    answer,    \* answer[c]: the URI c returns
    known,     \* history: what c asks for and was in the graph at its call
    disturbed, \* history: calls during which another one wrote the graph
    faulted    \* history: calls one of whose statements failed

graph   == <<types, label, comment>>
history == <<known, disturbed, faulted>>
vars == <<types, label, comment, edges, pc, request, suffix, answer, known,
          disturbed, faulted>>

Calls == Creates \cup Links

CreateLabels == {"off", "find", "probe", "insert", "ok", "err"}
LinkLabels   == {"off", "subject", "insert", "ok", "refused", "err"}

Ended(c) == pc[c] \in {"ok", "refused", "err"}

Active == {c \in Calls : pc[c] # "off" /\ ~Ended(c)}

Goto(c, to) == pc' = [pc EXCEPT ![c] = to]

Init ==
    /\ types = [u \in Uris |-> {}]
    /\ label = [u \in Uris |-> Nothing]
    /\ comment = [u \in Uris |-> Nothing]
    /\ edges = {}
    /\ pc = [c \in Calls |-> "off"]
    /\ request = [c \in Calls |-> <<Nothing, Nothing>>]
    /\ suffix = [c \in Creates |-> 1]
    /\ answer = [c \in Creates |-> Nothing]
    /\ known = [c \in Calls |-> {}]
    /\ disturbed = {}
    /\ faulted = {}

-----------------------------------------------------------------------------
(* The statements.                                                         *)

Name(c)        == request[c][1]
Description(c) == request[c][2]
Subject(c)     == request[c][1]
Target(c)      == request[c][2]

\* Seeded: the lookup goes by the slug URI.
BySlug(n) == {u \in {Candidates[n][1]} : "project" \in types[u]}

\* Seeded: the comment is no longer OPTIONAL in the lookup.
DescribedOnly(n) ==
    {u \in Uris : "project" \in types[u] /\ label[u] = n /\ comment[u] # Nothing}

\* What find_named_node finds: the projects labelled n.
Named(n) == {u \in Uris : "project" \in types[u] /\ label[u] = n}

\* Seeded: the probe asks for projects only.
IsProject(u) == "project" \in types[u]

\* uri_exists: u has an rdf:type, whatever it is.
Exists(u) == types[u] # {}

\* The values Tracker lets an insert add to u.
Accepts(u, name, description) ==
    /\ label[u] \in {Nothing, name}
    /\ description # Nothing => comment[u] \in {Nothing, description}

InsertNode(u, type, name, description) ==
    /\ Accepts(u, name, description)
    /\ types' = [types EXCEPT ![u] = @ \cup {type}]
    /\ label' = [label EXCEPT ![u] = name]
    /\ comment' = [comment EXCEPT ![u] =
                      IF description = Nothing THEN @ ELSE description]

\* A statement of c fails.
Fault(c, statement) ==
    /\ statement \in Faults
    /\ faulted' = faulted \cup {c}

\* store_observation writes entities under URIs and labels of the caller's
\* choice.
StoreEntity(u, name) ==
    /\ "entity" \notin types[u]
    /\ Cardinality({v \in Uris : "entity" \in types[v]}) < MaxEntities
    /\ InsertNode(u, "entity", name, Nothing)
    /\ disturbed' = disturbed \cup Active
    /\ UNCHANGED <<edges, pc, request, suffix, answer, known, faulted>>

-----------------------------------------------------------------------------
(* create_project: find_named_node, reserve_node_uri, update.              *)

CallCreate(c, name, description) ==
    /\ pc[c] = "off"
    /\ request' = [request EXCEPT ![c] = <<name, description>>]
    /\ known' = [known EXCEPT ![c] =
                    {u \in Uris : "project" \in types[u] /\ label[u] = name}]
    /\ Goto(c, "find")
    /\ UNCHANGED <<graph, edges, suffix, answer, disturbed, faulted>>

\* The first row counts, and the query orders none.
FindExisting(c) ==
    /\ pc[c] = "find"
    /\ \E u \in Named(Name(c)) : answer' = [answer EXCEPT ![c] = u]
    /\ Goto(c, "ok")
    /\ UNCHANGED <<graph, edges, request, suffix, history>>

\* Seeded: candidates are numbered from zero.
FromZero == 0

\* Seeded: the plain slug is skipped.
FromTwo == 2

\* reserve_node_uri looks at the plain slug first.
FirstSuffix == 1

FindNothing(c) ==
    /\ pc[c] = "find"
    /\ Named(Name(c)) = {}
    /\ suffix' = [suffix EXCEPT ![c] = FirstSuffix]
    /\ Goto(c, "probe")
    /\ UNCHANGED <<graph, edges, request, answer, history>>

FindFails(c) ==
    /\ pc[c] = "find"
    /\ Fault(c, "find")
    /\ Goto(c, "err")
    /\ UNCHANGED <<graph, edges, request, suffix, answer, known, disturbed>>

\* Seeded: the suffix is counted but never appended.
PlainSlug(c) == Candidates[Name(c)][1]

Candidate(c) == Candidates[Name(c)][suffix[c]]

ProbeTaken(c) ==
    /\ pc[c] = "probe"
    /\ Exists(Candidate(c))
    /\ suffix[c] < MaxSuffix
    /\ suffix' = [suffix EXCEPT ![c] = @ + 1]
    /\ UNCHANGED <<graph, edges, pc, request, answer, history>>

ProbeFree(c) ==
    /\ pc[c] = "probe"
    /\ ~Exists(Candidate(c))
    /\ Goto(c, "insert")
    /\ UNCHANGED <<graph, edges, request, suffix, answer, history>>

\* A probe that cannot answer takes the URI for free.
ProbeFails(c) ==
    /\ pc[c] = "probe"
    /\ Fault(c, "probe")
    /\ Goto(c, "insert")
    /\ UNCHANGED <<graph, edges, request, suffix, answer, known, disturbed>>

Insert(c) ==
    /\ pc[c] = "insert"
    /\ InsertNode(Candidate(c), "project", Name(c), Description(c))
    /\ answer' = [answer EXCEPT ![c] = Candidate(c)]
    /\ disturbed' = disturbed \cup (Active \ {c})
    /\ Goto(c, "ok")
    /\ UNCHANGED <<edges, request, suffix, known, faulted>>

InsertRejected(c) ==
    /\ pc[c] = "insert"
    /\ ~Accepts(Candidate(c), Name(c), Description(c))
    /\ Goto(c, "err")
    /\ UNCHANGED <<graph, edges, request, suffix, answer, history>>

UpdateFails(c) ==
    /\ pc[c] = "insert"
    /\ Fault(c, "update")
    /\ Goto(c, "err")
    /\ UNCHANGED <<graph, edges, request, suffix, answer, known, disturbed>>

-----------------------------------------------------------------------------
(* link_to_project: require_existing_subject, update.                      *)

CallLink(l, subject, project) ==
    /\ pc[l] = "off"
    /\ <<subject, project>> \in LinkEnds
    /\ request' = [request EXCEPT ![l] = <<subject, project>>]
    /\ known' = [known EXCEPT ![l] =
                    {u \in {subject, project} : types[u] # {}}]
    /\ Goto(l, "subject")
    /\ UNCHANGED <<graph, edges, suffix, answer, disturbed, faulted>>

CheckSubject(l) ==
    /\ pc[l] = "subject"
    /\ Goto(l, IF Exists(Subject(l)) THEN "insert" ELSE "refused")
    /\ UNCHANGED <<graph, edges, request, suffix, answer, history>>

\* Seeded: a probe that cannot answer lets the link pass.
CheckSkipped(l) ==
    /\ pc[l] = "subject"
    /\ Fault(l, "probe")
    /\ Goto(l, "insert")
    /\ UNCHANGED <<graph, edges, request, suffix, answer, known, disturbed>>

\* The same probe that cannot answer now refuses the call: "no such node in
\* the graph".
CheckFails(l) ==
    /\ pc[l] = "subject"
    /\ Fault(l, "probe")
    /\ Goto(l, "refused")
    /\ UNCHANGED <<graph, edges, request, suffix, answer, known, disturbed>>

InsertEdge(l) ==
    /\ pc[l] = "insert"
    /\ edges' = edges \cup {<<Subject(l), Target(l)>>}
    /\ Goto(l, "ok")
    /\ UNCHANGED <<graph, request, suffix, answer, history>>

\* Nobody has looked at the target.  The range of the predicate is the class
\* of projects; what Tracker says of a missing target, or of a node of
\* another class, is not known here.
EdgeRejected(l) ==
    /\ pc[l] = "insert"
    /\ "project" \notin types[Target(l)]
    /\ Goto(l, "err")
    /\ UNCHANGED <<graph, edges, request, suffix, answer, history>>

\* Every call has been answered.
Quiescent ==
    /\ \A c \in Calls : Ended(c)
    /\ UNCHANGED vars

-----------------------------------------------------------------------------
CreateStep(c) ==
    \/ FindExisting(c)
    \/ FindNothing(c)
    \/ FindFails(c)
    \/ ProbeTaken(c)
    \/ ProbeFree(c)
    \/ ProbeFails(c)
    \/ Insert(c)
    \/ InsertRejected(c)
    \/ UpdateFails(c)

LinkStep(l) ==
    \/ CheckSubject(l)
    \/ CheckFails(l)
    \/ InsertEdge(l)
    \/ EdgeRejected(l)
    \/ UpdateFails(l)

Next ==
    \/ \E c \in Creates :
          \/ \E n \in Names, d \in Texts : CallCreate(c, n, d)
          \/ CreateStep(c)
    \/ \E l \in Links :
          \/ \E s, p \in Uris : CallLink(l, s, p)
          \/ LinkStep(l)
    \/ \E u \in EntityUris, n \in Names : StoreEntity(u, n)
    \/ Quiescent

Spec == Init /\ [][Next]_vars

\* A call that was made runs on a thread of tokio's blocking pool.  It does
\* not owe its end to a failing statement.
Fairness ==
    /\ \A c \in Creates : WF_vars(CreateStep(c) /\ UNCHANGED faulted)
    /\ \A l \in Links : WF_vars(LinkStep(l) /\ UNCHANGED faulted)

FairSpec == Spec /\ Fairness

-----------------------------------------------------------------------------
(* Properties.                                                             *)

TypeOK ==
    /\ types \in [Uris -> SUBSET {"project", "entity"}]
    /\ label \in [Uris -> Names \cup {Nothing}]
    /\ comment \in [Uris -> Texts]
    /\ edges \subseteq Uris \X Uris
    /\ pc \in [Calls -> CreateLabels \cup LinkLabels]
    /\ DOMAIN request = Calls
    /\ \A c \in Creates :
          /\ pc[c] \in CreateLabels
          /\ pc[c] # "off" => request[c] \in Names \X Texts
    /\ \A l \in Links :
          /\ pc[l] \in LinkLabels
          /\ pc[l] # "off" => request[l] \in Uris \X Uris
    /\ suffix \in [Creates -> Suffixes]
    /\ answer \in [Creates -> Uris \cup {Nothing}]
    /\ known \in [Calls -> SUBSET Uris]
    /\ disturbed \subseteq Calls
    /\ faulted \subseteq Calls

\* The caller of create_project gets a node that carries the name asked for,
\* and it does so for good: two names never end up on one node, although they
\* may share a slug, race for its URI or find it taken by an entity.
AnswerCarriesTheName ==
    \A c \in Creates : pc[c] = "ok" => answer[c] \in Named(Name(c))

\* "Idempotent by name", one call after another: a call made when a project
\* of its name was in the graph writes nothing and returns one that was.
RepeatAddsNothing ==
    \A c \in Creates :
        known[c] # {} => /\ pc[c] \in {"find", "ok", "err"}
                         /\ pc[c] = "ok" => answer[c] \in Named(Name(c))
                         /\ pc[c] = "err" => c \in faulted

\* A URI gets its number because the ones before it are taken: below every
\* candidate that a call has settled on, all are nodes of the graph, unless
\* one of its probes could not answer.
NoNeedlessSuffix ==
    \A c \in Creates :
        pc[c] \in {"probe", "insert"} /\ c \notin faulted =>
            \A k \in Suffixes :
                k < suffix[c] => Exists(Candidates[Name(c)][k])

\* create_project fails for a reason: one of its statements failed, or
\* another call wrote the graph while it ran.
FailsForAReason ==
    \A c \in Creates : pc[c] = "err" => c \in faulted \cup disturbed

\* Whatever was linked to a project is a node of the graph, also when the
\* probe failed or the node came and other calls were running.
LinkedNodesExist == \A e \in edges : types[e[1]] # {}

\* Every call ends: the search for a free URI does, too.
CallsEnd == \A c \in Calls : pc[c] # "off" ~> Ended(c)

-----------------------------------------------------------------------------
(* What the comments and tests of project.rs say and the code does not do. *)

\* "a repeated create must return the existing project, not a new URI"
OneProjectPerName ==
    \A c, other \in Creates :
        /\ pc[c] = "ok"
        /\ pc[other] = "ok"
        /\ Name(c) = Name(other)
        => answer[c] = answer[other]

\* "Reject a link whose subject is not in the graph", and of the probe it
\* asks: "A probe that cannot answer must not fail the operation".  So who is
\* told "no such node in the graph" named a node that was not there when the
\* call was made.
RefusedSubjectsAreMissing ==
    \A l \in Links : pc[l] = "refused" => Subject(l) \notin known[l]
=============================================================================
