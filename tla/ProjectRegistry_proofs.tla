----------------------- MODULE ProjectRegistry_proofs -----------------------
(***************************************************************************)
(* Theorems about ProjectRegistry, for any number of calls, names, URIs    *)
(* and entities, and for any way names share their candidates.             *)
(***************************************************************************)
EXTENDS ProjectRegistry, TLAPS

-----------------------------------------------------------------------------
(* The invariant.                                                          *)

\* A URI that is no node has no properties.
NodesOnly ==
    \A u \in Uris :
        types[u] = {} => label[u] = Nothing /\ comment[u] = Nothing

\* What a call found in the graph when it was made is still there.
KnownStays ==
    /\ \A c \in Creates : /\ pc[c] = "off" => known[c] = {}
                          /\ pc[c] # "off" => known[c] \subseteq Named(Name(c))
    /\ \A l \in Links : \A u \in known[l] : Exists(u)

\* The URI a call is about to insert is free, as its probe has said, unless
\* the probe failed or another call has written since.
InsertsFree ==
    \A c \in Creates :
        pc[c] = "insert" =>
            c \in faulted \cup disturbed \/ ~Exists(Candidate(c))

\* A link about to be written has passed its check, and nodes stay.
SubjectChecked ==
    \A l \in Links : pc[l] = "insert" => Exists(Subject(l))

\* A link is refused when its subject was missing or its probe failed.
RefusalsHaveReasons ==
    \A l \in Links :
        pc[l] = "refused" => l \in faulted \/ Subject(l) \notin known[l]

IInv ==
    /\ TypeOK
    /\ NodesOnly
    /\ KnownStays
    /\ InsertsFree
    /\ SubjectChecked
    /\ AnswerCarriesTheName
    /\ RepeatAddsNothing
    /\ NoNeedlessSuffix
    /\ FailsForAReason
    /\ RefusalsHaveReasons
    /\ LinkedNodesExist

-----------------------------------------------------------------------------
(* Steps of the graph.                                                     *)

\* An insert gives a node what it was given and takes nothing away.
LEMMA InsertNodeAdds ==
    ASSUME TypeOK, NodesOnly,
           NEW u \in Uris, NEW type \in {"project", "entity"},
           NEW n \in Names, NEW d \in Texts,
           InsertNode(u, type, n, d)
    PROVE  /\ types' \in [Uris -> SUBSET {"project", "entity"}]
           /\ label' \in [Uris -> Names \cup {Nothing}]
           /\ comment' \in [Uris -> Texts]
           /\ NodesOnly'
           /\ \A v \in Uris : types[v] \subseteq types'[v]
           /\ \A v \in Uris : label[v] # Nothing => label'[v] = label[v]
           /\ type \in types'[u]
           /\ label'[u] = n
BY NothingIsNoValue DEF InsertNode, Accepts, TypeOK, NodesOnly, Texts

\* The graph only grows, and so do the histories of the calls.
Grows ==
    /\ \A v \in Uris : types[v] \subseteq types'[v]
    /\ \A v \in Uris : label[v] # Nothing => label'[v] = label[v]
    /\ \A n \in Names : Named(n) \subseteq Named(n)'
    /\ disturbed \subseteq disturbed'
    /\ faulted \subseteq faulted'

\* Nothing in project.rs deletes: every step adds to the graph.
LEMMA StepGrows ==
    ASSUME TypeOK, NodesOnly, Next
    PROVE  Grows /\ NodesOnly'
<1> USE NothingIsNoValue DEF Grows
<1>1. ASSUME NEW c \in Creates, Insert(c) PROVE Grows /\ NodesOnly'
  <2>1. Candidate(c) \in Uris /\ Name(c) \in Names /\ Description(c) \in Texts
    BY <1>1, CandidatesKnown DEF Insert, Candidate, Name, Description, TypeOK,
                                 Calls
  <2>2. InsertNode(Candidate(c), "project", Name(c), Description(c))
    BY <1>1 DEF Insert
  <2> HIDE DEF Grows
  <2>3. /\ NodesOnly'
        /\ \A v \in Uris : types[v] \subseteq types'[v]
        /\ \A v \in Uris : label[v] # Nothing => label'[v] = label[v]
    BY <2>1, <2>2, InsertNodeAdds
  <2>4. disturbed \subseteq disturbed' /\ faulted' = faulted
    BY <1>1 DEF Insert
  <2> QED
    BY <2>3, <2>4 DEF Grows, Named
<1>2. ASSUME NEW u \in Uris, NEW n \in Names, StoreEntity(u, n)
      PROVE  Grows /\ NodesOnly'
  <2>1. InsertNode(u, "entity", n, Nothing) /\ Nothing \in Texts
    BY <1>2 DEF StoreEntity, Texts
  <2> HIDE DEF Grows
  <2>2. /\ NodesOnly'
        /\ \A v \in Uris : types[v] \subseteq types'[v]
        /\ \A v \in Uris : label[v] # Nothing => label'[v] = label[v]
    BY <2>1, InsertNodeAdds
  <2>3. disturbed \subseteq disturbed' /\ faulted' = faulted
    BY <1>2 DEF StoreEntity
  <2> QED
    BY <2>2, <2>3 DEF Grows, Named
<1>3. CASE /\ UNCHANGED graph
           /\ disturbed \subseteq disturbed'
           /\ faulted \subseteq faulted'
  BY <1>3 DEF graph, Named, NodesOnly
<1>4. ASSUME NEW c \in Creates, CreateStep(c), ~Insert(c)
      PROVE  /\ UNCHANGED graph
             /\ disturbed \subseteq disturbed'
             /\ faulted \subseteq faulted'
  BY <1>4
  DEF CreateStep, FindExisting, FindNothing, FindFails, ProbeTaken, ProbeFree,
      ProbeFails, InsertRejected, UpdateFails, Fault, history
<1>5. ASSUME NEW l \in Links, LinkStep(l)
      PROVE  /\ UNCHANGED graph
             /\ disturbed \subseteq disturbed'
             /\ faulted \subseteq faulted'
  BY <1>5
  DEF LinkStep, CheckSubject, CheckFails, InsertEdge, EdgeRejected,
      UpdateFails, Fault, history
<1>6. ASSUME NEW c, NEW v, NEW w, CallCreate(c, v, w) \/ CallLink(c, v, w)
      PROVE  UNCHANGED <<graph, disturbed, faulted>>
  BY <1>6 DEF CallCreate, CallLink
<1>7. Quiescent => UNCHANGED <<graph, disturbed, faulted>>
  BY DEF Quiescent, vars, graph
<1> QED
  BY <1>1, <1>2, <1>3, <1>4, <1>5, <1>6, <1>7, EntityBound DEF Next

-----------------------------------------------------------------------------
(* Type correctness.                                                       *)

\* Every step keeps the types.
LEMMA StepTypeOK ==
    ASSUME TypeOK, NodesOnly, Next
    PROVE  TypeOK'
<1> USE CallsDisjoint, NothingIsNoValue
    DEF Calls, CreateLabels, LinkLabels, Goto, graph, history
<1>1. ASSUME NEW c \in Creates, Insert(c) PROVE TypeOK'
  <2>1. Candidate(c) \in Uris /\ Name(c) \in Names /\ Description(c) \in Texts
    BY <1>1, CandidatesKnown DEF Insert, Candidate, Name, Description, TypeOK
  <2>2. InsertNode(Candidate(c), "project", Name(c), Description(c))
    BY <1>1 DEF Insert
  <2>3. /\ types' \in [Uris -> SUBSET {"project", "entity"}]
        /\ label' \in [Uris -> Names \cup {Nothing}]
        /\ comment' \in [Uris -> Texts]
    BY <2>1, <2>2, InsertNodeAdds
  <2> QED
    BY <1>1, <2>1, <2>3 DEF Insert, TypeOK, Active
<1>2. ASSUME NEW u \in Uris, NEW n \in Names, StoreEntity(u, n) PROVE TypeOK'
  <2>1. InsertNode(u, "entity", n, Nothing) /\ Nothing \in Texts
    BY <1>2 DEF StoreEntity, Texts
  <2>2. /\ types' \in [Uris -> SUBSET {"project", "entity"}]
        /\ label' \in [Uris -> Names \cup {Nothing}]
        /\ comment' \in [Uris -> Texts]
    BY <2>1, InsertNodeAdds
  <2> QED
    BY <1>2, <2>2 DEF StoreEntity, TypeOK, Active
<1>3. ASSUME NEW c \in Creates, NEW n \in Names, NEW d \in Texts,
             CallCreate(c, n, d)
      PROVE  TypeOK'
  BY <1>3 DEF CallCreate, TypeOK
<1>4. ASSUME NEW l \in Links, NEW s \in Uris, NEW p \in Uris,
             CallLink(l, s, p)
      PROVE  TypeOK'
  BY <1>4 DEF CallLink, TypeOK
<1>5. ASSUME NEW c \in Creates, CreateStep(c), ~Insert(c) PROVE TypeOK'
  <2>1. CASE FindExisting(c)
    BY <2>1 DEF FindExisting, Named, TypeOK
  <2>2. CASE FindNothing(c)
    BY <2>2, CandidatesKnown DEF FindNothing, FirstSuffix, Suffixes, TypeOK
  <2>3. CASE ProbeTaken(c)
    BY <2>3, CandidatesKnown DEF ProbeTaken, Suffixes, TypeOK
  <2>4. CASE FindFails(c)
    BY <2>4 DEF FindFails, Fault, TypeOK
  <2>5. CASE ProbeFails(c)
    BY <2>5 DEF ProbeFails, Fault, TypeOK
  <2>6. CASE UpdateFails(c)
    BY <2>6 DEF UpdateFails, Fault, TypeOK
  <2>7. CASE ProbeFree(c)
    BY <2>7 DEF ProbeFree, TypeOK
  <2>8. CASE InsertRejected(c)
    BY <2>8 DEF InsertRejected, TypeOK
  <2> QED
    BY <1>5, <2>1, <2>2, <2>3, <2>4, <2>5, <2>6, <2>7, <2>8 DEF CreateStep
<1>6. ASSUME NEW l \in Links, LinkStep(l) PROVE TypeOK'
  <2>1. CASE CheckSubject(l) \/ EdgeRejected(l)
    BY <2>1 DEF CheckSubject, EdgeRejected, TypeOK
  <2>2. CASE CheckFails(l) \/ UpdateFails(l)
    BY <2>2 DEF CheckFails, UpdateFails, Fault, TypeOK
  <2>3. CASE InsertEdge(l)
    BY <2>3 DEF InsertEdge, Subject, Target, TypeOK
  <2> QED
    BY <1>6, <2>1, <2>2, <2>3 DEF LinkStep
<1>7. Quiescent => TypeOK'
  BY DEF Quiescent, vars, TypeOK
<1> QED
  BY <1>1, <1>2, <1>3, <1>4, <1>5, <1>6, <1>7, EntityBound DEF Next

-----------------------------------------------------------------------------
(* What a step does to one call: either the call moves, or it stays and     *)
(* learns at most that it was disturbed.                                   *)

OwnState(c) == <<pc[c], request[c], known[c]>>
OwnCreate(c) == <<suffix[c], answer[c]>>

\* A step is one of create c, or leaves its state alone.
LEMMA CreateFrame ==
    ASSUME TypeOK, Next, NEW c \in Creates
    PROVE  \/ UNCHANGED <<OwnState(c), OwnCreate(c)>>
           \/ \E n \in Names, d \in Texts : CallCreate(c, n, d)
           \/ CreateStep(c)
<1> USE CallsDisjoint DEF OwnState, OwnCreate, TypeOK, Calls, Goto
<1>1. ASSUME NEW b \in Creates, b # c, NEW n \in Names, NEW d \in Texts,
             CallCreate(b, n, d)
      PROVE  UNCHANGED <<OwnState(c), OwnCreate(c)>>
  BY <1>1 DEF CallCreate
<1>2. ASSUME NEW b \in Creates, b # c, CreateStep(b)
      PROVE  UNCHANGED <<OwnState(c), OwnCreate(c)>>
  BY <1>2
  DEF CreateStep, FindExisting, FindNothing, FindFails, ProbeTaken, ProbeFree,
      ProbeFails, Insert, InsertRejected, UpdateFails, history
<1>3. ASSUME NEW l \in Links, NEW s \in Uris, NEW p \in Uris,
             CallLink(l, s, p)
      PROVE  UNCHANGED <<OwnState(c), OwnCreate(c)>>
  BY <1>3 DEF CallLink
<1>4. ASSUME NEW l \in Links, LinkStep(l)
      PROVE  UNCHANGED <<OwnState(c), OwnCreate(c)>>
  BY <1>4
  DEF LinkStep, CheckSubject, CheckFails, InsertEdge, EdgeRejected,
      UpdateFails, history
<1>5. ASSUME NEW u \in EntityUris, NEW n \in Names, StoreEntity(u, n)
      PROVE  UNCHANGED <<OwnState(c), OwnCreate(c)>>
  BY <1>5 DEF StoreEntity
<1>6. Quiescent => UNCHANGED <<OwnState(c), OwnCreate(c)>>
  BY DEF Quiescent, vars
<1> QED
  BY <1>1, <1>2, <1>3, <1>4, <1>5, <1>6 DEF Next

\* A step is one of link l, or leaves its state alone.
LEMMA LinkFrame ==
    ASSUME TypeOK, Next, NEW l \in Links
    PROVE  \/ UNCHANGED OwnState(l)
           \/ \E s, p \in Uris : CallLink(l, s, p)
           \/ LinkStep(l)
<1> USE CallsDisjoint DEF OwnState, TypeOK, Calls, Goto
<1>1. ASSUME NEW c \in Creates, NEW n \in Names, NEW d \in Texts,
             CallCreate(c, n, d)
      PROVE  UNCHANGED OwnState(l)
  BY <1>1 DEF CallCreate
<1>2. ASSUME NEW c \in Creates, CreateStep(c)
      PROVE  UNCHANGED OwnState(l)
  BY <1>2
  DEF CreateStep, FindExisting, FindNothing, FindFails, ProbeTaken, ProbeFree,
      ProbeFails, Insert, InsertRejected, UpdateFails, history
<1>3. ASSUME NEW k \in Links, k # l, NEW s \in Uris, NEW p \in Uris,
             CallLink(k, s, p)
      PROVE  UNCHANGED OwnState(l)
  BY <1>3 DEF CallLink
<1>4. ASSUME NEW k \in Links, k # l, LinkStep(k)
      PROVE  UNCHANGED OwnState(l)
  BY <1>4
  DEF LinkStep, CheckSubject, CheckFails, InsertEdge, EdgeRejected,
      UpdateFails, history
<1>5. ASSUME NEW u \in EntityUris, NEW n \in Names, StoreEntity(u, n)
      PROVE  UNCHANGED OwnState(l)
  BY <1>5 DEF StoreEntity
<1>6. Quiescent => UNCHANGED OwnState(l)
  BY DEF Quiescent, vars
<1> QED
  BY <1>1, <1>2, <1>3, <1>4, <1>5, <1>6 DEF Next

\* A running create sees a write of somebody else only as disturbed.
LEMMA WritesDisturb ==
    ASSUME TypeOK, Next, NEW c \in Creates, c \in Active, ~Insert(c)
    PROVE  c \in disturbed' \/ UNCHANGED graph
<1> USE DEF graph, history
<1>1. ASSUME NEW b \in Creates, b # c, Insert(b) PROVE c \in disturbed'
  BY <1>1 DEF Insert
<1>2. ASSUME NEW u, NEW n, StoreEntity(u, n) PROVE c \in disturbed'
  BY <1>2 DEF StoreEntity
<1>3. ASSUME NEW b \in Creates, CreateStep(b), ~Insert(b)
      PROVE  UNCHANGED graph
  BY <1>3
  DEF CreateStep, FindExisting, FindNothing, FindFails, ProbeTaken, ProbeFree,
      ProbeFails, InsertRejected, UpdateFails
<1>4. ASSUME NEW l \in Links, LinkStep(l) PROVE UNCHANGED graph
  BY <1>4
  DEF LinkStep, CheckSubject, CheckFails, InsertEdge, EdgeRejected, UpdateFails
<1>5. ASSUME NEW b, NEW v, NEW w, CallCreate(b, v, w) \/ CallLink(b, v, w)
      PROVE  UNCHANGED graph
  BY <1>5 DEF CallCreate, CallLink
<1>6. Quiescent => UNCHANGED graph
  BY DEF Quiescent, vars
<1> QED
  BY <1>1, <1>2, <1>3, <1>4, <1>5, <1>6 DEF Next

-----------------------------------------------------------------------------
(* One lemma for each conjunct of the invariant.                            *)

\* What a call asks for, by its type.
LEMMA CreateRequests ==
    ASSUME TypeOK, NEW c \in Creates, pc[c] # "off"
    PROVE  /\ Name(c) \in Names
           /\ Description(c) \in Texts
           /\ Candidate(c) \in Uris
           /\ \A k \in Suffixes : Candidates[Name(c)][k] \in Uris
BY CandidatesKnown DEF TypeOK, Name, Description, Candidate

\* What was there at a call is there after every step.
LEMMA StepKnownStays ==
    ASSUME IInv, Next
    PROVE  KnownStays'
<1> USE DEF Calls, Goto, history
<1>g. TypeOK /\ Grows /\ TypeOK'
  BY StepGrows, StepTypeOK DEF IInv
<1>1. ASSUME NEW c \in Creates
      PROVE  /\ pc'[c] = "off" => known'[c] = {}
             /\ pc'[c] # "off" => known'[c] \subseteq Named(Name(c))'
  <2>0. /\ pc[c] = "off" => known[c] = {}
        /\ pc[c] # "off" => known[c] \subseteq Named(Name(c))
    BY DEF IInv, KnownStays
  <2>1. CASE UNCHANGED <<OwnState(c), OwnCreate(c)>>
    BY <1>g, <2>0, <2>1, CreateRequests DEF Grows, OwnState, Named, Name
  <2>2. ASSUME NEW n \in Names, NEW d \in Texts, CallCreate(c, n, d)
        PROVE  pc'[c] # "off" /\ known'[c] \subseteq Named(Name(c))'
    BY <1>g, <2>2 DEF CallCreate, TypeOK, Named, Name, graph
  <2>3. CASE CreateStep(c)
    <3>1. pc[c] # "off" /\ pc'[c] # "off" /\ UNCHANGED <<request, known>>
      BY <1>g, <2>3
      DEF TypeOK, CreateStep, FindExisting, FindNothing, FindFails, ProbeTaken, ProbeFree,
          ProbeFails, Insert, InsertRejected, UpdateFails, Fault
    <3> QED
      BY <1>g, <2>0, <3>1, CreateRequests DEF Grows, Named, Name
  <2> QED
    BY <1>g, <2>1, <2>2, <2>3, CreateFrame
<1>2. ASSUME NEW l \in Links, NEW u \in known'[l] PROVE Exists(u)'
  <2>0. \A v \in known[l] : Exists(v)
    BY DEF IInv, KnownStays
  <2>u. u \in Uris
    BY <1>g DEF TypeOK
  <2>1. CASE UNCHANGED OwnState(l)
    BY <1>g, <2>0, <2>1, <2>u DEF Grows, OwnState, Exists
  <2>2. ASSUME NEW s \in Uris, NEW p \in Uris, CallLink(l, s, p)
        PROVE  Exists(u)'
    BY <1>g, <2>2 DEF CallLink, TypeOK, Exists, graph
  <2>3. CASE LinkStep(l)
    <3>1. UNCHANGED known
      BY <2>3
      DEF LinkStep, CheckSubject, CheckFails, InsertEdge, EdgeRejected,
          UpdateFails
    <3> QED
      BY <1>g, <2>0, <2>u, <3>1 DEF Grows, Exists
  <2> QED
    BY <1>g, <2>1, <2>2, <2>3, LinkFrame
<1> QED
  BY <1>1, <1>2 DEF KnownStays

\* A URI stays free while nobody else writes.
LEMMA StepInsertsFree ==
    ASSUME IInv, Next
    PROVE  InsertsFree'
<1> USE DEF Calls, Goto, history
<1>g. TypeOK /\ Grows
  BY StepGrows DEF IInv
<1> SUFFICES ASSUME NEW c \in Creates, pc'[c] = "insert"
             PROVE  c \in (faulted \cup disturbed)' \/ ~Exists(Candidate(c))'
  BY DEF InsertsFree
<1>1. CASE UNCHANGED <<OwnState(c), OwnCreate(c)>>
  <2>1. c \in Active /\ ~Insert(c)
    BY <1>1, <1>g DEF Active, Ended, OwnState, Insert, TypeOK
  <2>2. c \in faulted \cup disturbed \/ ~Exists(Candidate(c))
    BY <1>1 DEF IInv, InsertsFree, OwnState
  <2>3. c \in disturbed' \/ UNCHANGED graph
    BY <1>g, <2>1, WritesDisturb
  <2> QED
    BY <1>1, <1>g, <2>2, <2>3
    DEF Grows, Exists, Candidate, Name, OwnState, OwnCreate, graph
<1>2. ASSUME NEW n \in Names, NEW d \in Texts, CallCreate(c, n, d)
      PROVE  FALSE
  BY <1>g, <1>2 DEF CallCreate, TypeOK
<1>3. CASE CreateStep(c)
  <2>1. ProbeFree(c) \/ ProbeFails(c)
    BY <1>g, <1>3
    DEF TypeOK, CreateStep, FindExisting, FindNothing, FindFails, ProbeTaken, ProbeFree,
      ProbeFails, Insert, InsertRejected, UpdateFails, Fault
  <2> QED
    BY <2>1
    DEF ProbeFree, ProbeFails, Fault, Exists, Candidate, Name, graph
<1> QED
  BY <1>g, <1>1, <1>2, <1>3, CreateFrame

\* A subject that passed its check stays in the graph.
LEMMA StepSubjectChecked ==
    ASSUME IInv, Next
    PROVE  SubjectChecked'
<1> USE CallsDisjoint DEF Calls, Goto, history
<1>g. TypeOK /\ Grows /\ TypeOK'
  BY StepGrows, StepTypeOK DEF IInv
<1> SUFFICES ASSUME NEW l \in Links, pc'[l] = "insert"
             PROVE  Exists(Subject(l))'
  BY DEF SubjectChecked
<1>s. Subject(l)' \in Uris
  BY <1>g DEF TypeOK, Subject
<1>1. CASE UNCHANGED OwnState(l)
  <2>1. Exists(Subject(l)) /\ Subject(l)' = Subject(l)
    BY <1>1 DEF IInv, SubjectChecked, OwnState, Subject
  <2> QED
    BY <1>g, <1>s, <2>1 DEF Grows, Exists
<1>2. ASSUME NEW s \in Uris, NEW p \in Uris, CallLink(l, s, p)
      PROVE  FALSE
  BY <1>g, <1>2 DEF CallLink, TypeOK
<1>3. CASE LinkStep(l)
  <2>1. CheckSubject(l) /\ Exists(Subject(l))
    BY <1>g, <1>3
    DEF TypeOK, LinkStep, CheckSubject, CheckFails, InsertEdge, EdgeRejected,
        UpdateFails
  <2> QED
    BY <2>1 DEF CheckSubject, Exists, Subject, graph
<1> QED
  BY <1>g, <1>1, <1>2, <1>3, LinkFrame

\* An answer is found or written under its name, and keeps it.
LEMMA StepAnswerCarriesTheName ==
    ASSUME IInv, Next
    PROVE  AnswerCarriesTheName'
<1> USE DEF Calls, Goto, history
<1>g. TypeOK /\ NodesOnly /\ Grows /\ TypeOK'
  BY StepGrows, StepTypeOK DEF IInv
<1> SUFFICES ASSUME NEW c \in Creates, pc'[c] = "ok"
             PROVE  answer'[c] \in Named(Name(c))'
  BY DEF AnswerCarriesTheName
<1>1. CASE UNCHANGED <<OwnState(c), OwnCreate(c)>>
  <2>1. answer[c] \in Named(Name(c)) /\ pc[c] # "off"
    BY <1>1 DEF IInv, AnswerCarriesTheName, OwnState
  <2> QED
    BY <1>g, <1>1, <2>1, CreateRequests
    DEF Grows, OwnState, OwnCreate, Named, Name
<1>2. ASSUME NEW n \in Names, NEW d \in Texts, CallCreate(c, n, d)
      PROVE  FALSE
  BY <1>g, <1>2 DEF CallCreate, TypeOK
<1>3. CASE FindExisting(c)
  BY <1>g, <1>3 DEF FindExisting, TypeOK, Named, Name, graph
<1>4. CASE Insert(c)
  <2>1. Candidate(c) \in Uris /\ Name(c) \in Names /\ Description(c) \in Texts
    BY <1>g, <1>4, CreateRequests DEF Insert
  <2>2. InsertNode(Candidate(c), "project", Name(c), Description(c))
    BY <1>4 DEF Insert
  <2>3. "project" \in types'[Candidate(c)] /\ label'[Candidate(c)] = Name(c)
    BY <1>g, <2>1, <2>2, InsertNodeAdds
  <2>4. answer'[c] = Candidate(c) /\ Name(c)' = Name(c)
    BY <1>g, <1>4 DEF Insert, TypeOK, Name
  <2> QED
    BY <2>1, <2>3, <2>4 DEF Named
<1>5. CASE CreateStep(c) /\ ~FindExisting(c) /\ ~Insert(c)
  BY <1>g, <1>5
  DEF TypeOK, CreateStep, FindNothing, FindFails, ProbeTaken, ProbeFree,
      ProbeFails, InsertRejected, UpdateFails, Fault
<1> QED
  BY <1>g, <1>1, <1>2, <1>3, <1>4, <1>5, CreateFrame

\* A known name is found, so the call never comes to the probe.
LEMMA StepRepeatAddsNothing ==
    ASSUME IInv, Next
    PROVE  RepeatAddsNothing'
<1> USE DEF Calls, Goto, history
<1>g. TypeOK /\ Grows /\ TypeOK' /\ AnswerCarriesTheName'
  BY StepGrows, StepTypeOK, StepAnswerCarriesTheName DEF IInv
<1> SUFFICES ASSUME NEW c \in Creates, known'[c] # {}
             PROVE  /\ pc'[c] \in {"find", "ok", "err"}
                    /\ pc'[c] = "err" => c \in faulted'
  BY <1>g DEF RepeatAddsNothing, AnswerCarriesTheName
<1>1. CASE UNCHANGED <<OwnState(c), OwnCreate(c)>>
  BY <1>g, <1>1 DEF IInv, RepeatAddsNothing, Grows, OwnState
<1>2. ASSUME NEW n \in Names, NEW d \in Texts, CallCreate(c, n, d)
      PROVE  pc'[c] = "find"
  BY <1>g, <1>2 DEF CallCreate, TypeOK
<1>3. CASE CreateStep(c)
  <2>1. known' = known /\ pc[c] # "off"
    BY <1>3
    DEF CreateStep, FindExisting, FindNothing, FindFails, ProbeTaken,
        ProbeFree, ProbeFails, Insert, InsertRejected, UpdateFails
  <2>2. pc[c] \in {"find", "ok", "err"} /\ Named(Name(c)) # {}
    BY <2>1 DEF IInv, RepeatAddsNothing, KnownStays
  <2>3. FindExisting(c) \/ FindFails(c)
    BY <1>3, <2>2
    DEF CreateStep, FindNothing, ProbeTaken, ProbeFree, ProbeFails, Insert,
        InsertRejected, UpdateFails
  <2> QED
    BY <1>g, <2>3 DEF FindExisting, FindFails, Fault, TypeOK
<1> QED
  BY <1>g, <1>1, <1>2, <1>3, CreateFrame

\* The suffix grows over a taken candidate only.
LEMMA StepNoNeedlessSuffix ==
    ASSUME IInv, Next
    PROVE  NoNeedlessSuffix'
<1> USE DEF Calls, Goto, history
<1>g. TypeOK /\ Grows
  BY StepGrows DEF IInv
<1> SUFFICES ASSUME NEW c \in Creates,
                    pc'[c] \in {"probe", "insert"}, c \notin faulted',
                    NEW k \in Suffixes, k < suffix'[c]
             PROVE  Exists(Candidates[Name(c)][k])'
  BY DEF NoNeedlessSuffix
<1>f. c \notin faulted
  BY <1>g DEF Grows
<1>0. ASSUME pc[c] \in {"probe", "insert"}, Name(c)' = Name(c), k < suffix[c]
      PROVE  Exists(Candidates[Name(c)][k])'
  <2>1. Exists(Candidates[Name(c)][k])
    BY <1>0, <1>f DEF IInv, NoNeedlessSuffix
  <2>2. Candidates[Name(c)][k] \in Uris
    BY <1>0, <1>g, CreateRequests
  <2> QED
    BY <1>0, <1>g, <2>1, <2>2 DEF Grows, Exists
<1>1. CASE UNCHANGED <<OwnState(c), OwnCreate(c)>>
  BY <1>0, <1>1 DEF OwnState, OwnCreate, Name
<1>2. ASSUME NEW n \in Names, NEW d \in Texts, CallCreate(c, n, d)
      PROVE  FALSE
  BY <1>g, <1>2 DEF CallCreate, TypeOK
<1>3. CASE FindNothing(c)
  BY <1>g, <1>3, CandidatesKnown
  DEF FindNothing, FirstSuffix, Suffixes, TypeOK
<1>4. CASE ProbeTaken(c)
  <2>1. suffix'[c] = suffix[c] + 1 /\ suffix[c] \in Suffixes
    BY <1>g, <1>4 DEF ProbeTaken, TypeOK
  <2>2. CASE k < suffix[c]
    BY <1>0, <1>4, <2>2 DEF ProbeTaken, Name
  <2>3. CASE k = suffix[c]
    BY <1>4, <2>3 DEF ProbeTaken, Exists, Candidate, Name, graph
  <2> QED
    BY <2>1, <2>2, <2>3, CandidatesKnown DEF Suffixes
<1>5. CASE ProbeFree(c)
  BY <1>0, <1>5 DEF ProbeFree, Name
<1>6. CASE ProbeFails(c)
  BY <1>6 DEF ProbeFails, Fault
<1>7. CASE /\ CreateStep(c)
           /\ ~(FindNothing(c) \/ ProbeTaken(c) \/ ProbeFree(c) \/ ProbeFails(c))
  BY <1>g, <1>7
  DEF CreateStep, FindExisting, FindFails, Insert, InsertRejected, UpdateFails,
      TypeOK
<1> QED
  BY <1>g, <1>1, <1>2, <1>3, <1>4, <1>5, <1>6, <1>7, CreateFrame

\* An insert into a free URI is never rejected.
LEMMA StepFailsForAReason ==
    ASSUME IInv, Next
    PROVE  FailsForAReason'
<1> USE DEF Calls, Goto, history
<1>g. TypeOK /\ NodesOnly /\ Grows
  BY StepGrows DEF IInv
<1> SUFFICES ASSUME NEW c \in Creates, pc'[c] = "err"
             PROVE  c \in (faulted \cup disturbed)'
  BY DEF FailsForAReason
<1>1. CASE UNCHANGED <<OwnState(c), OwnCreate(c)>>
  BY <1>g, <1>1 DEF IInv, FailsForAReason, Grows, OwnState
<1>2. ASSUME NEW n \in Names, NEW d \in Texts, CallCreate(c, n, d)
      PROVE  FALSE
  BY <1>g, <1>2 DEF CallCreate, TypeOK
<1>3. CASE InsertRejected(c)
  <2>1. Candidate(c) \in Uris
    BY <1>3, <1>g, CreateRequests DEF InsertRejected
  <2>2. Exists(Candidate(c))
    BY <1>3, <1>g, <2>1
    DEF InsertRejected, Accepts, NodesOnly, Exists
  <2>3. c \in faulted \cup disturbed
    BY <1>3, <2>2 DEF IInv, InsertsFree, InsertRejected
  <2> QED
    BY <1>g, <2>3 DEF Grows
<1>4. CASE FindFails(c) \/ UpdateFails(c)
  BY <1>4 DEF FindFails, UpdateFails, Fault
<1>5. CASE /\ CreateStep(c)
           /\ ~(InsertRejected(c) \/ FindFails(c) \/ UpdateFails(c))
  BY <1>g, <1>5
  DEF CreateStep, FindExisting, FindNothing, ProbeTaken, ProbeFree, ProbeFails,
      Insert, Fault, TypeOK
<1> QED
  BY <1>g, <1>1, <1>2, <1>3, <1>4, <1>5, CreateFrame

\* A subject that was known at the call is still there, so only a probe that
\* fails misses it.
LEMMA StepRefusalsHaveReasons ==
    ASSUME IInv, Next
    PROVE  RefusalsHaveReasons'
<1> USE CallsDisjoint DEF Calls, Goto, history
<1>g. TypeOK /\ Grows
  BY StepGrows DEF IInv
<1> SUFFICES ASSUME NEW l \in Links, pc'[l] = "refused", l \notin faulted'
             PROVE  (Subject(l) \notin known[l])'
  BY DEF RefusalsHaveReasons
<1>f. l \notin faulted
  BY <1>g DEF Grows
<1>1. CASE UNCHANGED OwnState(l)
  BY <1>f, <1>1 DEF IInv, RefusalsHaveReasons, OwnState, Subject
<1>2. ASSUME NEW s \in Uris, NEW p \in Uris, CallLink(l, s, p)
      PROVE  FALSE
  BY <1>g, <1>2 DEF CallLink, TypeOK
<1>3. CASE LinkStep(l)
  <2>1. CheckSubject(l) /\ ~Exists(Subject(l))
    BY <1>g, <1>3
    DEF TypeOK, LinkStep, CheckSubject, CheckFails, InsertEdge, EdgeRejected,
        UpdateFails, Fault
  <2> QED
    BY <2>1 DEF IInv, KnownStays, CheckSubject, Subject
<1> QED
  BY <1>g, <1>1, <1>2, <1>3, LinkFrame

\* An edge is written for a checked subject.
LEMMA StepLinkedNodesExist ==
    ASSUME IInv, Next
    PROVE  LinkedNodesExist'
<1> USE DEF history
<1>g. TypeOK /\ Grows /\ TypeOK'
  BY StepGrows, StepTypeOK DEF IInv
<1> SUFFICES ASSUME NEW e \in edges' PROVE types'[e[1]] # {}
  BY DEF LinkedNodesExist
<1>u. e[1] \in Uris
  BY <1>g DEF TypeOK
<1>1. CASE e \in edges
  BY <1>1, <1>g, <1>u DEF IInv, LinkedNodesExist, Grows
<1>2. ASSUME NEW l \in Links, InsertEdge(l), e \notin edges
      PROVE  types'[e[1]] # {}
  <2>1. e[1] = Subject(l) /\ types[Subject(l)] # {}
    BY <1>2 DEF InsertEdge, IInv, SubjectChecked, Exists
  <2> QED
    BY <1>g, <1>u, <2>1 DEF Grows
<1>3. CASE \A l \in Links : ~InsertEdge(l)
  <2>1. UNCHANGED edges
    BY <1>3
    DEF Next, CallCreate, CallLink, CreateStep, FindExisting, FindNothing,
        FindFails, ProbeTaken, ProbeFree, ProbeFails, Insert, InsertRejected,
        UpdateFails, LinkStep, CheckSubject, CheckFails, EdgeRejected,
        StoreEntity, Quiescent, vars
  <2> QED
    BY <1>1, <2>1
<1> QED
  BY <1>1, <1>2, <1>3

-----------------------------------------------------------------------------
(* The theorems.                                                            *)

\* The empty store satisfies the invariant.
LEMMA InitIInv == Init => IInv
BY NothingIsNoValue, CandidatesKnown, CallsDisjoint
DEF Init, IInv, TypeOK, NodesOnly, KnownStays, InsertsFree, SubjectChecked,
    AnswerCarriesTheName, RepeatAddsNothing, NoNeedlessSuffix, FailsForAReason,
    RefusalsHaveReasons, LinkedNodesExist, Calls, CreateLabels, LinkLabels,
    Texts, Suffixes

\* Every step preserves the invariant.
LEMMA StepIInv == IInv /\ [Next]_vars => IInv'
<1>1. ASSUME IInv, Next PROVE IInv'
  <2>1. TypeOK' /\ NodesOnly'
    BY <1>1, StepTypeOK, StepGrows DEF IInv
  <2>2. /\ KnownStays'
        /\ InsertsFree'
        /\ SubjectChecked'
    BY <1>1, StepKnownStays, StepInsertsFree, StepSubjectChecked
  <2>3. /\ AnswerCarriesTheName'
        /\ RepeatAddsNothing'
        /\ NoNeedlessSuffix'
        /\ FailsForAReason'
        /\ RefusalsHaveReasons'
        /\ LinkedNodesExist'
    BY <1>1, StepAnswerCarriesTheName, StepRepeatAddsNothing,
       StepNoNeedlessSuffix, StepFailsForAReason, StepRefusalsHaveReasons,
       StepLinkedNodesExist
  <2> QED
    BY <2>1, <2>2, <2>3 DEF IInv
<1>2. IInv /\ UNCHANGED vars => IInv'
  BY DEF vars, IInv, TypeOK, NodesOnly, KnownStays, InsertsFree,
         SubjectChecked, AnswerCarriesTheName, RepeatAddsNothing,
         NoNeedlessSuffix, FailsForAReason, RefusalsHaveReasons,
         LinkedNodesExist, Named, Exists, Candidate, Name, Subject, Target
<1> QED
  BY <1>1, <1>2

\* The invariant behind the theorems below.
THEOREM RegistryInvariant == Spec => []IInv
BY InitIInv, StepIInv, PTL DEF Spec

\* Every variable has its type, in particular no call leaves its code path.
THEOREM TypeCorrect == Spec => []TypeOK
<1>1. IInv => TypeOK
  BY DEF IInv
<1> QED
  BY <1>1, RegistryInvariant, PTL

\* create_project returns a node that carries the name, however names share
\* slugs and whoever writes between the probe and the insert.
THEOREM AnswersCarryTheirName == Spec => []AnswerCarriesTheName
<1>1. IInv => AnswerCarriesTheName
  BY DEF IInv
<1> QED
  BY <1>1, RegistryInvariant, PTL

\* A create_project made when its project exists is idempotent.
THEOREM RepeatsAddNothing == Spec => []RepeatAddsNothing
<1>1. IInv => RepeatAddsNothing
  BY DEF IInv
<1> QED
  BY <1>1, RegistryInvariant, PTL

\* reserve_node_uri skips only URIs that are taken.
THEOREM SuffixesAreNeeded == Spec => []NoNeedlessSuffix
<1>1. IInv => NoNeedlessSuffix
  BY DEF IInv
<1> QED
  BY <1>1, RegistryInvariant, PTL

\* Without failing statements and concurrent writes create_project succeeds.
THEOREM FailuresHaveReasons == Spec => []FailsForAReason
<1>1. IInv => FailsForAReason
  BY DEF IInv
<1> QED
  BY <1>1, RegistryInvariant, PTL

\* Only a probe that failed makes link_to_project refuse a subject that was
\* in the graph when it was called.
THEOREM RefusalsNeedAFailedProbe == Spec => []RefusalsHaveReasons
<1>1. IInv => RefusalsHaveReasons
  BY DEF IInv
<1> QED
  BY <1>1, RegistryInvariant, PTL

\* No edge of link_to_project hangs off a missing node.
THEOREM LinksHangTogether == Spec => []LinkedNodesExist
<1>1. IInv => LinkedNodesExist
  BY DEF IInv
<1> QED
  BY <1>1, RegistryInvariant, PTL
=============================================================================
