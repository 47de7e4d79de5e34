----------------------- MODULE IndexSyncRebuild_proofs ----------------------
(***************************************************************************)
(* Theorems about what rebuilds do to the indexes: they implement          *)
(* MemoryIndex, only they clear vectors, they cover what was stored when   *)
(* they began and repair what was settled by then.  They rest on the       *)
(* inductive invariant of IndexSync_proofs.                                *)
(***************************************************************************)
EXTENDS IndexSync_proofs

\* The lexical index is a projection of the store as MemoryIndex promises:
\* every step adds one entry, replaces the index by one entry for each
\* document that was fetched, stores a document, or leaves both alone.
THEOREM LexicalRefinesMemoryIndex == Spec => LexicalIsAProjection
<1>1. Init => Lexical!Init
  BY DEF Init, Lexical!Init, EmptyIndex, OneEntryEach, Lexical!OneEntryEach,
         Docs, Lexical!Docs
<1>2. IInv /\ [Next]_vars => [Lexical!Next]_<<store, lexical>>
  <2> SUFFICES ASSUME IInv, [Next]_vars
               PROVE  [Lexical!Next]_<<store, lexical>>
    OBVIOUS
  <2> USE DEF durable, locks, history, Goto
  <2>1. ASSUME NEW d \in Docs, PersistSucceeds(d)
        PROVE  Lexical!Next
    BY <2>1 DEF PersistSucceeds, Lexical!Next, Lexical!Persist, Docs,
                Lexical!Docs
  <2>2. ASSUME NEW d \in Docs, CommitAdd(d)
        PROVE  Lexical!Next
    <3>1. d \in Decisions => d \in store
      BY <2>2 DEF CommitAdd, IInv, CallOrder, Docs
    <3> QED
      BY <2>2, <3>1 DEF CommitAdd, Lexical!Next, Lexical!Add, Docs,
                        Lexical!Docs
  <2>3. ASSUME NEW r \in Rebuilds, CommitRebuild(r)
        PROVE  Lexical!Next
    <3>1. fetched[r] \in SUBSET store
      BY DEF IInv, Sourced
    <3>2. \A d \in Decisions : lexical[d] > 0 => d \in fetched[r]
      BY <2>3 DEF CommitRebuild, IInv, CommitKeepsDecisions
    <3>3. lexical' = Lexical!OneEntryEach(fetched[r]) /\ UNCHANGED store
      BY <2>3 DEF CommitRebuild, RebuiltLexical, OneEntryEach, Docs,
                  Lexical!OneEntryEach, Lexical!Docs
    <3> QED
      BY <3>1, <3>2, <3>3 DEF Lexical!Next, Lexical!Replace
  <2>4. ASSUME NEW d \in Docs,
               \/ Call(d) \/ PersistFails(d) \/ OpenWriter(d)
               \/ WriterRefused(d) \/ CommitFails(d) \/ AddVector(d)
               \/ AddVectorFails(d)
        PROVE  UNCHANGED <<store, lexical>>
    BY <2>4 DEF Call, PersistFails, OpenWriter, WriterRefused, CommitFails,
                AddVector, AddVectorFails
  <2>5. ASSUME NEW t \in Threads, EnsureSemantic(t)
        PROVE  UNCHANGED <<store, lexical>>
    BY <2>5 DEF EnsureSemantic, LoadSemantic, ModelFails, SemanticReady,
                InstallSemantic, LockSemantic
  <2>6. ASSUME NEW r \in Rebuilds,
               \/ RequestRebuild(r) \/ EnterRebuild(r) \/ OpenWriter(r)
               \/ WriterRefused(r) \/ FetchObservations(r)
               \/ FetchDecisions(r) \/ FetchFails(r) \/ CommitFails(r)
               \/ EmbedAll(r) \/ EmbedAllFails(r) \/ TruncateSnapshot(r)
               \/ WriteSnapshot(r) \/ SnapshotFails(r) \/ StampRebuild(r)
               \/ LeaveRebuild(r)
        PROVE  UNCHANGED <<store, lexical>>
    BY <2>6 DEF RequestRebuild, EnterRebuild, OpenWriter, WriterRefused,
         FetchObservations, FetchDecisions, FetchFails, CommitFails, EmbedAll,
         EmbedAllFails, TruncateSnapshot, WriteSnapshot, SnapshotFails,
         StampRebuild, LeaveRebuild
  <2>7. ASSUME NEW s \in Searches, StartSearch(s) \/ Answer(s)
        PROVE  UNCHANGED <<store, lexical>>
    BY <2>7 DEF StartSearch, Answer
  <2>8. CASE Crash \/ UNCHANGED vars
    BY <2>8 DEF Crash, vars
  <2> QED
    BY <2>1, <2>2, <2>3, <2>4, <2>5, <2>6, <2>7, <2>8
    DEF Next, StoreStep, SyncStep, RebuildStep, SearchStep, Quiescent, Threads
<1> QED
  BY <1>1, <1>2, Invariant, PTL DEF Spec, LexicalIsAProjection, Lexical!Spec

\* No rebuild, failure or crash takes an indexed decision away.
THEOREM DecisionsStay == Spec => IndexedDecisionsStay
<1> DEFINE Kept == \A d \in Decisions : lexical[d] > 0 => lexical'[d] > 0
<1>1. IInv /\ [Lexical!Next]_<<store, lexical>> => Kept
  <2> SUFFICES ASSUME IInv, [Lexical!Next]_<<store, lexical>>,
                      NEW d \in Decisions, lexical[d] > 0
               PROVE  lexical'[d] > 0
    OBVIOUS
  <2>0. d \in Docs /\ lexical \in [Docs -> Nat]
    BY DEF IInv, TypeOK, Indexes, Docs
  <2>1. CASE UNCHANGED lexical
    BY <2>1
  <2>2. ASSUME NEW e, Lexical!Add(e) PROVE lexical'[d] > 0
    BY <2>0, <2>2 DEF Lexical!Add
  <2>3. ASSUME NEW S, Lexical!Replace(S) PROVE lexical'[d] > 0
    BY <2>0, <2>3 DEF Lexical!Replace, Lexical!OneEntryEach, Lexical!Docs, Docs
  <2> QED
    BY <2>1, <2>2, <2>3 DEF Lexical!Next, Lexical!Persist
<1>2. IndexedDecisionsStay <=> [][Kept]_vars
  BY DEF IndexedDecisionsStay
<1>3. UNCHANGED vars => UNCHANGED <<store, lexical>>
  BY DEF vars
<1> QED
  BY <1>1, <1>2, <1>3, LexicalRefinesMemoryIndex, Invariant, PTL
  DEF LexicalIsAProjection, Lexical!Spec

\* Nothing but a rebuild that holds the mutex, or a crash, takes vectors away.
THEOREM OnlyRebuildsClear == Spec => VectorsOnlyClearedByRebuild
<1> DEFINE Cleared == \A d \in Docs :
               vectors'[d] < vectors[d] =>
                   \/ semanticLock \in Rebuilds
                   \/ crashes' # crashes
<1>1. IInv /\ [Next]_vars => [Cleared]_vars
  <2> SUFFICES ASSUME IInv, Next PROVE Cleared
    OBVIOUS
  <2>1. \A d \in Docs : vectors[d] \in Nat /\ vectors'[d] \in Nat
    BY StepTypeOK DEF IInv, TypeOK, Indexes
  <2> USE <2>1 DEF durable, locks, history, Goto
  <2>2. CASE UNCHANGED vectors
    BY <2>2
  <2>3. ASSUME NEW t \in Threads, EnsureSemantic(t) PROVE Cleared
    <3>1. CASE InstallSemantic(t)
      <4>1. ~semanticSet => \A d \in Docs : vectors[d] = 0
        BY EmptyIndexType DEF IInv, SemanticFirst
      <4> QED
        BY <3>1, <4>1 DEF InstallSemantic, FirstOneWins
    <3>2. CASE \/ LoadSemantic(t) \/ ModelFails(t) \/ SemanticReady(t)
               \/ LockSemantic(t)
      BY <3>2 DEF LoadSemantic, ModelFails, SemanticReady, LockSemantic
    <3> QED
      BY <2>3, <3>1, <3>2 DEF EnsureSemantic
  <2>4. ASSUME NEW d \in Docs, AddVector(d) PROVE Cleared
    <3>1. \A e \in Docs : vectors'[e] = IF e = d THEN vectors[e] + 1 ELSE vectors[e]
      BY <2>4 DEF AddVector, IInv, TypeOK, Indexes
    <3> QED
      BY <3>1
  <2>5. ASSUME NEW r \in Rebuilds,
               \/ FetchObservations(r) \/ FetchFails(r) \/ EmbedAll(r)
               \/ EmbedAllFails(r)
        PROVE  Cleared
    <3>1. UNCHANGED vectors \/ pc[r] \in SemanticHeld
      BY <2>5 DEF FetchObservations, FetchFails, EmbedAll, EmbedAllFails,
                  SemanticHeld
    <3>2. pc[r] \in SemanticHeld => semanticLock = r
      BY DEF IInv, LocksMatchThreads, Threads
    <3> QED
      BY <3>1, <3>2
  <2>6. ASSUME NEW d \in Docs,
               \/ Call(d) \/ StoreStep(d) \/ OpenWriter(d) \/ WriterRefused(d)
               \/ CommitAdd(d) \/ CommitFails(d) \/ AddVectorFails(d)
        PROVE  UNCHANGED vectors
    BY <2>6 DEF Call, StoreStep, PersistSucceeds, PersistFails, OpenWriter,
                WriterRefused, CommitAdd, CommitFails, AddVectorFails
  <2>7. ASSUME NEW r \in Rebuilds,
               \/ RequestRebuild(r) \/ EnterRebuild(r) \/ OpenWriter(r)
               \/ WriterRefused(r) \/ FetchDecisions(r) \/ CommitRebuild(r)
               \/ CommitFails(r) \/ TruncateSnapshot(r) \/ WriteSnapshot(r)
               \/ SnapshotFails(r) \/ StampRebuild(r) \/ LeaveRebuild(r)
        PROVE  UNCHANGED vectors
    BY <2>7 DEF RequestRebuild, EnterRebuild, OpenWriter, WriterRefused,
         FetchDecisions, CommitRebuild, CommitFails, TruncateSnapshot,
         WriteSnapshot, SnapshotFails, StampRebuild, LeaveRebuild
  <2>8. ASSUME NEW s \in Searches, StartSearch(s) \/ Answer(s)
        PROVE  UNCHANGED vectors
    BY <2>8 DEF StartSearch, Answer
  <2>9. CASE Crash
    BY <2>9 DEF Crash, IInv, TypeOK
  <2>10. CASE Quiescent
    BY <2>10 DEF Quiescent, vars
  <2> QED
    BY <2>2, <2>3, <2>4, <2>5, <2>6, <2>7, <2>8, <2>9, <2>10
    DEF Next, SyncStep, RebuildStep, SearchStep, Threads
<1>2. VectorsOnlyClearedByRebuild <=> [][Cleared]_vars
  BY DEF VectorsOnlyClearedByRebuild
<1> QED
  BY <1>1, <1>2, Invariant, PTL DEF Spec

-----------------------------------------------------------------------------
(* What a rebuild has covered.                                             *)

LexicalDone == {"ensure", "install", "semLock", "semObs", "semDec", "embedAll",
                "snapshot", "snapWrite", "stamp"}

\* From its commit to its stamp, and for as long as admin_status names it,
\* the lexical index covers what was stored when a rebuild began; one that
\* is about to replace the index has fetched all of it again.
CoverInv ==
    /\ \A r \in Rebuilds : begin[r].stored \subseteq store
    /\ lastRebuild # NoThread => pc[lastRebuild] \in {"stamped", "ok"}
    /\ LastRebuildCovers
    /\ \A r \in Rebuilds :
          pc[r] \in LexicalDone => begin[r].stored \subseteq DocsIn(lexical)
    /\ \A r \in Rebuilds, x \in Rebuilds : x \in {r, lastRebuild} =>
          /\ pc[r] = "lexDec" => begin[x].stored \cap Observations \subseteq fetched[r]
          /\ pc[r] = "lexCommit" => begin[x].stored \subseteq fetched[r]

\* Of the documents whose calls were over when a rebuild began, it has so far
\* fetched, committed and embedded exactly those that are stored.
RepairInv ==
    \A r \in Rebuilds, d \in Docs : d \in begin[r].over =>
        /\ Over(d)
        /\ pc[r] \in {"lexDec", "semDec"} =>
              (d \in Observations => (d \in fetched[r] <=> d \in store))
        /\ pc[r] \in {"lexCommit", "embedAll"} =>
              (d \in fetched[r] <=> d \in store)
        /\ pc[r] \in LexicalDone => lexical[d] = IF d \in store THEN 1 ELSE 0
        /\ \/ pc[r] \in {"snapshot", "snapWrite"}
           \/ pc[r] = "stamp" /\ EmbeddingEnabled
           => vectors[d] = IF d \in store THEN 1 ELSE 0

\* At most one rebuild is behind the gate.
LEMMA OneBehindGate ==
    ASSUME LocksMatchThreads, NEW r \in Rebuilds, NEW other \in Rebuilds,
           pc[r] \in GateHeld, pc[other] \in GateHeld
    PROVE  r = other
BY DEF LocksMatchThreads

\* Every step preserves CoverInv.
LEMMA StepCover == IInv /\ CoverInv /\ [Next]_vars => CoverInv'
<1> SUFFICES ASSUME IInv, CoverInv, [Next]_vars PROVE CoverInv'
  OBVIOUS
<1>0. /\ TypeOK /\ LocksMatchThreads /\ store \subseteq Docs
      /\ \A d \in Docs : lexical[d] \in Nat
  BY DEF IInv, TypeOK, Indexes
<1> USE ThreadsDisjoint, <1>0 DEF CoverInv, LastRebuildCovers, LexicalDone,
                                  Goto, durable, locks, history
<1>1. ASSUME NEW d \in Docs, Call(d) \/ StoreStep(d) PROVE CoverInv'
  <2>1. /\ \A r \in Rebuilds : pc'[r] = pc[r]
        /\ store \subseteq store'
        /\ UNCHANGED <<lexical, lastRebuild, fetched, begin>>
    BY <1>1 DEF Call, StoreStep, PersistSucceeds, PersistFails, TypeOK, Threads
  <2> QED
    BY <2>1 DEF TypeOK, DocsIn
<1>2. ASSUME NEW t \in Docs \cup Rebuilds,
             OpenWriter(t) \/ WriterRefused(t) \/ CommitFails(t)
      PROVE  CoverInv'
  BY <1>2 DEF OpenWriter, WriterRefused, CommitFails, OnError, TypeOK, DocsIn,
              Threads
<1>3. ASSUME NEW d \in Docs, CommitAdd(d) PROVE CoverInv'
  <2>1. \A e \in Docs : lexical'[e] = IF e = d THEN lexical[e] + 1 ELSE lexical[e]
    BY <1>3 DEF CommitAdd, TypeOK, Indexes
  <2>2. DocsIn(lexical) \subseteq DocsIn(lexical')
    BY <2>1 DEF DocsIn
  <2>3. /\ \A r \in Rebuilds : pc'[r] = pc[r]
        /\ UNCHANGED <<store, lastRebuild, fetched, begin>>
    BY <1>3 DEF CommitAdd, TypeOK, Threads
  <2> QED
    BY <2>2, <2>3 DEF TypeOK
<1>4. ASSUME NEW r \in Rebuilds, CommitRebuild(r) PROVE CoverInv'
  <2>1. DocsIn(lexical') = fetched[r] \cap Docs
    BY <1>4, EntriesOfOneEntryEach DEF CommitRebuild, RebuiltLexical, DocsIn
  <2>2. \A other \in Rebuilds \ {r} : pc[other] \notin GateHeld
    BY <1>4, OneBehindGate DEF CommitRebuild, GateHeld
  <2>3. pc' = [pc EXCEPT ![r] = AfterLexical(r)] /\ pc[r] = "lexCommit"
        /\ UNCHANGED <<store, lastRebuild, begin, fetched>>
    BY <1>4 DEF CommitRebuild
  <2>4. AfterLexical(r) \in {"ensure", "stamp"}
    BY DEF AfterLexical
  <2> QED
    BY <2>1, <2>2, <2>3, <2>4 DEF TypeOK, GateHeld, Threads
<1>5. ASSUME NEW t \in Threads, EnsureSemantic(t) PROVE CoverInv'
  BY <1>5 DEF EnsureSemantic, LoadSemantic, ModelFails, SemanticReady,
              InstallSemantic, LockSemantic, OnError, TypeOK, DocsIn, Threads
<1>6. ASSUME NEW d \in Docs, AddVector(d) \/ AddVectorFails(d) PROVE CoverInv'
  BY <1>6 DEF AddVector, AddVectorFails, TypeOK, DocsIn, Threads
<1>7. ASSUME NEW s \in Searches, StartSearch(s) \/ Answer(s) PROVE CoverInv'
  BY <1>7 DEF StartSearch, Answer, TypeOK, DocsIn, Threads
<1>8. ASSUME NEW r \in Rebuilds, RequestRebuild(r) \/ LeaveRebuild(r)
      PROVE  CoverInv'
  BY <1>8 DEF RequestRebuild, LeaveRebuild, TypeOK, DocsIn, Threads
<1>9. ASSUME NEW r \in Rebuilds, EnterRebuild(r) PROVE CoverInv'
  <2>1. /\ pc' = [pc EXCEPT ![r] = pc'[r]]
        /\ pc[r] = "gate"
        /\ pc'[r] \in {"err", "lexWriter"}
        /\ UNCHANGED <<store, lexical, lastRebuild, fetched>>
        /\ begin'[r].stored \subseteq store
        /\ \A other \in Rebuilds \ {r} : begin'[other] = begin[other]
    BY <1>9 DEF EnterRebuild, TypeOK, Threads
  <2> QED
    BY <2>1 DEF TypeOK, DocsIn, Threads
<1>10. ASSUME NEW r \in Rebuilds, FetchObservations(r) PROVE CoverInv'
  BY <1>10 DEF FetchObservations, TypeOK, DocsIn, Threads
<1>11. ASSUME NEW r \in Rebuilds, FetchDecisions(r) PROVE CoverInv'
  <2>1. fetched'[r] = fetched[r] \cup (store \cap Decisions)
    BY <1>11 DEF FetchDecisions, StoredDecisions, TypeOK
  <2>2. \A other \in Rebuilds \ {r} : fetched'[other] = fetched[other]
    BY <1>11 DEF FetchDecisions
  <2>3. /\ pc' = [pc EXCEPT ![r] = pc'[r]]
        /\ \/ pc[r] = "lexDec" /\ pc'[r] = "lexCommit"
           \/ pc[r] = "semDec" /\ pc'[r] = "embedAll"
        /\ UNCHANGED <<store, lexical, lastRebuild, begin>>
    BY <1>11 DEF FetchDecisions, TypeOK, Threads
  <2> QED
    BY <2>1, <2>2, <2>3 DEF TypeOK, DocsIn, Docs, Threads
<1>12. ASSUME NEW r \in Rebuilds,
              \/ FetchFails(r) \/ EmbedAll(r) \/ EmbedAllFails(r)
              \/ TruncateSnapshot(r) \/ WriteSnapshot(r) \/ SnapshotFails(r)
       PROVE  CoverInv'
  BY <1>12 DEF FetchFails, EmbedAll, EmbedAllFails, OnError, TruncateSnapshot,
               WriteSnapshot, SnapshotFails, TypeOK, DocsIn, Threads
<1>13. ASSUME NEW r \in Rebuilds, StampRebuild(r) PROVE CoverInv'
  <2>1. \A other \in Rebuilds \ {r} : pc[other] \notin GateHeld
    BY <1>13, OneBehindGate DEF StampRebuild, GateHeld
  <2> QED
    BY <1>13, <2>1 DEF StampRebuild, TypeOK, GateHeld, DocsIn, Threads
<1>14. CASE Crash
  BY <1>14 DEF Crash, Running, Ended, Threads
<1>15. CASE UNCHANGED vars
  BY <1>15 DEF vars, DocsIn
<1> QED
  BY <1>1, <1>2, <1>3, <1>4, <1>5, <1>6, <1>7, <1>8, <1>9, <1>10, <1>11,
     <1>12, <1>13, <1>14, <1>15
  DEF Next, SyncStep, RebuildStep, SearchStep, Quiescent, Threads

\* A call that is over stays over, and what it stored or did not stays so.
LEMMA OverStays ==
    TypeOK /\ [Next]_vars =>
        \A d \in Docs : Over(d) => Over(d)' /\ (d \in store' <=> d \in store)
<1> SUFFICES ASSUME TypeOK, [Next]_vars, NEW d \in Docs, Over(d)
             PROVE  Over(d)' /\ (d \in store' <=> d \in store)
  OBVIOUS
<1> USE ThreadsDisjoint DEF Over, TypeOK, Goto, durable, locks, history
<1>1. ASSUME NEW e \in Docs, Call(e) \/ StoreStep(e)
      PROVE  Over(d)' /\ (d \in store' <=> d \in store)
  BY <1>1 DEF Call, StoreStep, PersistSucceeds, PersistFails, Threads
<1>2. ASSUME NEW t \in Threads, EnsureSemantic(t)
      PROVE  UNCHANGED <<store, persist>> /\ pc'[d] = pc[d]
  BY <1>2 DEF EnsureSemantic, LoadSemantic, ModelFails, SemanticReady,
              InstallSemantic, LockSemantic, Threads
<1>3. ASSUME NEW e \in Docs, SyncStep(e)
      PROVE  UNCHANGED <<store, persist>> /\ pc'[d] = pc[d]
  BY <1>2, <1>3 DEF SyncStep, OpenWriter, WriterRefused, CommitAdd,
                    CommitFails, AddVector, AddVectorFails, Threads
<1>4. ASSUME NEW r \in Rebuilds, RequestRebuild(r) \/ RebuildStep(r)
      PROVE  UNCHANGED <<store, persist>> /\ pc'[d] = pc[d]
  BY <1>2, <1>4 DEF RequestRebuild, RebuildStep, EnterRebuild, OpenWriter,
       WriterRefused, FetchObservations, FetchDecisions, FetchFails,
       CommitRebuild, CommitFails, EmbedAll, EmbedAllFails, TruncateSnapshot,
       WriteSnapshot, SnapshotFails, StampRebuild, LeaveRebuild, Threads
<1>5. ASSUME NEW s \in Searches, StartSearch(s) \/ SearchStep(s)
      PROVE  UNCHANGED <<store, persist>> /\ pc'[d] = pc[d]
  BY <1>2, <1>5 DEF StartSearch, SearchStep, Answer, Threads
<1>6. CASE Crash
  BY <1>6 DEF Crash, Threads
<1>7. CASE UNCHANGED vars
  BY <1>7 DEF vars
<1> QED
  BY <1>1, <1>3, <1>4, <1>5, <1>6, <1>7 DEF Next, Quiescent

\* Every step preserves RepairInv.
LEMMA StepRepair == IInv /\ RepairInv /\ [Next]_vars => RepairInv'
<1> SUFFICES ASSUME IInv, RepairInv, [Next]_vars PROVE RepairInv'
  OBVIOUS
<1>0. /\ TypeOK /\ LocksMatchThreads /\ store \subseteq Docs
      /\ \A d \in Docs : Over(d) => Over(d)' /\ (d \in store' <=> d \in store)
  BY OverStays DEF IInv, TypeOK
<1> USE ThreadsDisjoint, <1>0 DEF RepairInv, LexicalDone, Goto, durable, locks,
                                  history
<1>1. ASSUME NEW d \in Docs, Call(d) \/ StoreStep(d) PROVE RepairInv'
  <2>1. /\ \A r \in Rebuilds : pc'[r] = pc[r]
        /\ UNCHANGED <<lexical, vectors, fetched, begin>>
    BY <1>1 DEF Call, StoreStep, PersistSucceeds, PersistFails, TypeOK, Threads
  <2> QED
    BY <2>1
<1>2. ASSUME NEW d \in Docs,
             OpenWriter(d) \/ WriterRefused(d) \/ CommitFails(d) \/ AddVectorFails(d)
      PROVE  RepairInv'
  <2>1. /\ \A r \in Rebuilds : pc'[r] = pc[r]
        /\ UNCHANGED <<lexical, vectors, fetched, begin>>
    BY <1>2 DEF OpenWriter, WriterRefused, CommitFails, AddVectorFails, TypeOK,
                Threads
  <2> QED
    BY <2>1
<1>3. ASSUME NEW d \in Docs, CommitAdd(d) \/ AddVector(d) PROVE RepairInv'
  <2>1. ~Over(d)
    BY <1>3 DEF CommitAdd, AddVector, Over
  <2>2. \A e \in Docs \ {d} : lexical'[e] = lexical[e] /\ vectors'[e] = vectors[e]
    BY <1>3 DEF CommitAdd, AddVector, TypeOK, Indexes
  <2>3. /\ \A r \in Rebuilds : pc'[r] = pc[r]
        /\ UNCHANGED <<fetched, begin>>
    BY <1>3 DEF CommitAdd, AddVector, TypeOK, Threads
  <2> QED
    BY <2>1, <2>2, <2>3
<1>4. ASSUME NEW r \in Rebuilds,
             \/ OpenWriter(r) \/ WriterRefused(r) \/ CommitFails(r)
             \/ RequestRebuild(r) \/ LeaveRebuild(r) \/ SnapshotFails(r)
             \/ StampRebuild(r)
      PROVE  RepairInv'
  <2>1. /\ pc'[r] \in {"lexObs", "abort", "gate", "ok", "err", "stamped"}
        /\ \A other \in Rebuilds \ {r} : pc'[other] = pc[other]
        /\ UNCHANGED <<lexical, vectors, fetched, begin>>
    BY <1>4 DEF OpenWriter, WriterRefused, CommitFails, OnError,
                RequestRebuild, LeaveRebuild, SnapshotFails, StampRebuild,
                TypeOK, Threads
  <2> QED
    BY <2>1
<1>5. ASSUME NEW r \in Rebuilds, EnterRebuild(r) PROVE RepairInv'
  <2>1. /\ pc'[r] \in {"err", "lexWriter"}
        /\ \A other \in Rebuilds \ {r} :
              pc'[other] = pc[other] /\ begin'[other] = begin[other]
        /\ UNCHANGED <<lexical, vectors, fetched>>
        /\ \A d \in begin'[r].over : Over(d)
    BY <1>5 DEF EnterRebuild, TypeOK, Threads
  <2> QED
    BY <2>1
<1>6. ASSUME NEW r \in Rebuilds, CommitRebuild(r) PROVE RepairInv'
  <2>1. \A other \in Rebuilds \ {r} : pc[other] \notin GateHeld
    BY <1>6, OneBehindGate DEF CommitRebuild, GateHeld
  <2>2. \A d \in Docs : lexical'[d] = IF d \in fetched[r] THEN 1 ELSE 0
    BY <1>6, EntriesOfOneEntryEach DEF CommitRebuild, RebuiltLexical
  <2>3. /\ pc[r] = "lexCommit"
        /\ pc'[r] = AfterLexical(r)
        /\ \A other \in Rebuilds \ {r} : pc'[other] = pc[other]
        /\ UNCHANGED <<vectors, fetched, begin>>
    BY <1>6 DEF CommitRebuild, TypeOK, Threads
  <2>4. AfterLexical(r) = IF EmbeddingEnabled THEN "ensure" ELSE "stamp"
    BY DEF AfterLexical
  <2> QED
    BY <2>1, <2>2, <2>3, <2>4 DEF GateHeld
<1>7. ASSUME NEW t \in Threads, EnsureSemantic(t) PROVE RepairInv'
  <2>1. /\ \A r \in Rebuilds \ {t} : pc'[r] = pc[r]
        /\ pc[t] \in {"ensure", "install", "semLock"}
        /\ UNCHANGED <<lexical, fetched, begin>>
    BY <1>7 DEF EnsureSemantic, LoadSemantic, ModelFails, SemanticReady,
                InstallSemantic, LockSemantic, TypeOK, Threads
  <2>2. UNCHANGED vectors \/ ~semanticSet
    BY <1>7 DEF EnsureSemantic, LoadSemantic, ModelFails, SemanticReady,
                InstallSemantic, LockSemantic, FirstOneWins
  <2>3. ~semanticSet => \A r \in Rebuilds :
           /\ pc[r] \notin {"snapshot", "snapWrite"}
           /\ ~(pc[r] = "stamp" /\ EmbeddingEnabled)
    BY DEF IInv, SemanticFirst, SemanticHeld, Threads
  <2>4. t \in Rebuilds => pc'[t] \in {"install", "semLock", "semObs", "abort"}
    BY <1>7 DEF EnsureSemantic, LoadSemantic, ModelFails, SemanticReady,
                InstallSemantic, LockSemantic, OnError, TypeOK, Threads
  <2> QED
    BY <2>1, <2>2, <2>3, <2>4
<1>8. ASSUME NEW s \in Searches, StartSearch(s) \/ Answer(s) PROVE RepairInv'
  <2>1. /\ \A r \in Rebuilds : pc'[r] = pc[r]
        /\ UNCHANGED <<lexical, vectors, fetched, begin>>
    BY <1>8 DEF StartSearch, Answer, TypeOK, Threads
  <2> QED
    BY <2>1
<1>9. ASSUME NEW r \in Rebuilds,
             \/ FetchObservations(r) \/ FetchDecisions(r) \/ FetchFails(r)
             \/ EmbedAll(r) \/ EmbedAllFails(r)
      PROVE  RepairInv'
  <2>1. pc[r] \in GateHeld
    BY <1>9 DEF FetchObservations, FetchDecisions, FetchFails, EmbedAll,
                EmbedAllFails, GateHeld
  <2>2. \A other \in Rebuilds \ {r} :
           pc'[other] = pc[other] /\ pc[other] \notin GateHeld
    BY <1>9, <2>1, OneBehindGate DEF FetchObservations, FetchDecisions,
         FetchFails, EmbedAll, EmbedAllFails, TypeOK, Threads
  <2>3. UNCHANGED <<store, lexical, begin>>
    BY <1>9 DEF FetchObservations, FetchDecisions, FetchFails, EmbedAll,
                EmbedAllFails
  <2>4. ASSUME NEW d \in Docs, d \in begin[r].over
        PROVE  /\ pc'[r] \in {"lexDec", "semDec"} =>
                     (d \in Observations => (d \in fetched'[r] <=> d \in store))
               /\ pc'[r] \in {"lexCommit", "embedAll"} =>
                     (d \in fetched'[r] <=> d \in store)
               /\ pc'[r] \in LexicalDone => pc[r] \in LexicalDone
               /\ pc'[r] \notin {"snapWrite", "stamp"}
               /\ pc'[r] = "snapshot" =>
                     vectors'[d] = IF d \in store THEN 1 ELSE 0
    <3>1. CASE FetchObservations(r)
      BY <3>1 DEF FetchObservations, TypeOK, Threads
    <3>2. CASE FetchDecisions(r)
      <4>1. fetched'[r] = fetched[r] \cup (store \cap Decisions)
        BY <3>2 DEF FetchDecisions, StoredDecisions, TypeOK
      <4>2. fetched[r] \subseteq store
        BY DEF IInv, Sourced
      <4>3. \/ pc[r] = "lexDec" /\ pc'[r] = "lexCommit"
            \/ pc[r] = "semDec" /\ pc'[r] = "embedAll"
        BY <3>2 DEF FetchDecisions, TypeOK, Threads
      <4> QED
        BY <2>4, <4>1, <4>2, <4>3 DEF Docs
    <3>3. CASE FetchFails(r) \/ EmbedAllFails(r)
      <4>1. pc'[r] = "abort"
        BY <3>3 DEF FetchFails, EmbedAllFails, OnError, TypeOK, Threads
      <4> QED
        BY <4>1
    <3>4. CASE EmbedAll(r)
      <4>1. /\ pc[r] = "embedAll" /\ pc'[r] = "snapshot"
            /\ vectors' = OneEntryEach(fetched[r])
        BY <3>4 DEF EmbedAll, TypeOK, Threads
      <4> QED
        BY <2>4, <4>1, EntriesOfOneEntryEach
    <3> QED
      BY <1>9, <3>1, <3>2, <3>3, <3>4
  <2> QED
    BY <2>2, <2>3, <2>4 DEF GateHeld
<1>10. ASSUME NEW r \in Rebuilds, TruncateSnapshot(r) \/ WriteSnapshot(r)
       PROVE  RepairInv'
  <2>1. /\ \/ pc[r] = "snapshot" /\ pc'[r] = "snapWrite"
           \/ pc[r] = "snapWrite" /\ pc'[r] = "stamp"
        /\ \A other \in Rebuilds \ {r} : pc'[other] = pc[other]
        /\ UNCHANGED <<lexical, vectors, fetched, begin>>
    BY <1>10 DEF TruncateSnapshot, WriteSnapshot, TypeOK, Threads
  <2> QED
    BY <2>1
<1>11. CASE Crash
  <2>1. /\ \A r \in Rebuilds :
              pc'[r] \in {"off", "killed", "ok", "err", "answered"}
        /\ UNCHANGED begin
    BY <1>11 DEF Crash, Running, Ended, Threads
  <2> QED
    BY <2>1
<1>12. CASE UNCHANGED vars
  BY <1>12 DEF vars
<1> QED
  BY <1>1, <1>2, <1>3, <1>4, <1>5, <1>6, <1>7, <1>8, <1>9, <1>10, <1>11, <1>12
  DEF Next, SyncStep, RebuildStep, SearchStep, Quiescent, Threads

\* What was stored when the rebuild began that admin_status names.
StoredWhen(r) == IF r = NoThread THEN {} ELSE begin[r].stored

\* From the moment a rebuild has embedded what it fetched, and for as long as
\* admin_status names it, the vectors cover what was stored when it began; one
\* that clears them is the gap until it has embedded everything again.
SemanticInv ==
    /\ gap # NoThread => pc[gap] \in {"semDec", "embedAll", "abort", "err"}
    /\ \A r \in Rebuilds : pc[r] \in {"semDec", "embedAll"} => gap = r
    /\ lastRebuild # NoThread /\ EmbeddingEnabled => semanticSet
    /\ \A r \in Rebuilds : pc[r] = "semDec" =>
          (begin[r].stored \cup StoredWhen(lastRebuild)) \cap Observations
              \subseteq fetched[r]
    /\ \A r \in Rebuilds : pc[r] = "embedAll" =>
          begin[r].stored \cup StoredWhen(lastRebuild) \subseteq fetched[r]
    /\ EmbeddingEnabled /\ gap = NoThread =>
          /\ StoredWhen(lastRebuild) \subseteq DocsIn(vectors)
          /\ \A r \in Rebuilds : pc[r] \in {"snapshot", "snapWrite", "stamp"} =>
                begin[r].stored \subseteq DocsIn(vectors)

\* Every step preserves SemanticInv.
LEMMA StepSemantic ==
    IInv /\ CoverInv /\ SemanticInv /\ [Next]_vars => SemanticInv'
<1> SUFFICES ASSUME IInv, CoverInv, SemanticInv, [Next]_vars
             PROVE  SemanticInv'
  OBVIOUS
<1>0. /\ TypeOK /\ LocksMatchThreads /\ SemanticFirst
      /\ \A d \in Docs : vectors[d] \in Nat
      /\ \A r \in Rebuilds : begin[r].stored \subseteq store
      /\ lastRebuild # NoThread => pc[lastRebuild] \in {"stamped", "ok"}
      /\ store \subseteq Docs
      /\ StoredWhen(lastRebuild) \subseteq store
  BY DEF IInv, TypeOK, Indexes, CoverInv, StoredWhen
<1> USE ThreadsDisjoint, <1>0 DEF SemanticInv, StoredWhen, Goto, durable, locks,
                                  history
<1>1. ASSUME /\ \A r \in Rebuilds : pc'[r] # pc[r] =>
                   pc'[r] \in {"gate", "err", "abort", "lexObs", "ok"}
             /\ \A r \in Rebuilds : pc[r] \in {"abort", "err"} =>
                   pc'[r] \in {"abort", "err"}
             /\ \A r \in Rebuilds : pc[r] \in {"semDec", "embedAll"} =>
                   pc'[r] \in {pc[r], "abort"}
             /\ UNCHANGED <<vectors, semanticSet, lastRebuild, fetched, begin, gap>>
      PROVE  SemanticInv'
  BY <1>1 DEF TypeOK, DocsIn
<1>2. ASSUME NEW d \in Docs, Call(d) \/ StoreStep(d) PROVE SemanticInv'
  BY <1>2 DEF Call, StoreStep, PersistSucceeds, PersistFails, TypeOK, DocsIn,
              Threads
<1>3. ASSUME NEW t \in Docs \cup Rebuilds,
             OpenWriter(t) \/ WriterRefused(t) \/ CommitFails(t)
      PROVE  SemanticInv'
  BY <1>3 DEF OpenWriter, WriterRefused, CommitFails, OnError, TypeOK, DocsIn,
              Threads
<1>4. ASSUME NEW d \in Docs, CommitAdd(d) PROVE SemanticInv'
  BY <1>4 DEF CommitAdd, TypeOK, DocsIn, Threads
<1>5. ASSUME NEW r \in Rebuilds, CommitRebuild(r) PROVE SemanticInv'
  BY <1>5 DEF CommitRebuild, AfterLexical, TypeOK, DocsIn, Threads
<1>6. ASSUME NEW t \in Threads, EnsureSemantic(t) PROVE SemanticInv'
  <2>1. CASE InstallSemantic(t)
    <3>1. UNCHANGED vectors \/ ~semanticSet
      BY <2>1 DEF InstallSemantic, FirstOneWins
    <3>2. ~semanticSet => /\ \A r \in Rebuilds :
                                pc[r] \notin {"snapshot", "snapWrite"}
                          /\ EmbeddingEnabled =>
                                \A r \in Rebuilds : pc[r] # "stamp"
      BY DEF SemanticFirst, SemanticHeld, Threads
    <3>3. /\ \A r \in Rebuilds : pc'[r] # pc[r] => pc'[r] = "semLock"
          /\ \A r \in Rebuilds : pc'[r] # pc[r] => pc[r] = "install"
          /\ UNCHANGED <<lastRebuild, fetched, begin, gap>>
          /\ semanticSet'
      BY <2>1 DEF InstallSemantic, TypeOK, Threads
    <3> QED
      BY <3>1, <3>2, <3>3 DEF TypeOK, DocsIn
  <2>2. CASE LoadSemantic(t) \/ ModelFails(t) \/ SemanticReady(t) \/ LockSemantic(t)
    <3>1. /\ \A r \in Rebuilds : pc'[r] # pc[r] =>
                pc'[r] \in {"install", "semLock", "semObs", "abort"}
          /\ \A r \in Rebuilds : pc'[r] # pc[r] => pc[r] \in {"ensure", "semLock"}
          /\ UNCHANGED <<vectors, semanticSet, lastRebuild, fetched, begin, gap>>
      BY <2>2 DEF LoadSemantic, ModelFails, SemanticReady, LockSemantic, OnError,
                  TypeOK, Threads
    <3> QED
      BY <3>1 DEF TypeOK, DocsIn
  <2> QED
    BY <1>6, <2>1, <2>2 DEF EnsureSemantic
<1>7. ASSUME NEW d \in Docs, AddVector(d) PROVE SemanticInv'
  <2>1. \A e \in Docs : vectors'[e] = IF e = d THEN vectors[e] + 1 ELSE vectors[e]
    BY <1>7 DEF AddVector, TypeOK, Indexes
  <2>2. DocsIn(vectors) \subseteq DocsIn(vectors')
    BY <2>1 DEF DocsIn
  <2>3. /\ \A r \in Rebuilds : pc'[r] = pc[r]
        /\ UNCHANGED <<semanticSet, lastRebuild, fetched, begin, gap>>
    BY <1>7 DEF AddVector, TypeOK, Threads
  <2> QED
    BY <2>2, <2>3 DEF TypeOK
<1>8. ASSUME NEW d \in Docs, AddVectorFails(d) PROVE SemanticInv'
  BY <1>8 DEF AddVectorFails, TypeOK, DocsIn, Threads
<1>9. ASSUME NEW s \in Searches, StartSearch(s) \/ Answer(s) PROVE SemanticInv'
  BY <1>9 DEF StartSearch, Answer, TypeOK, DocsIn, Threads
<1>10. ASSUME NEW r \in Rebuilds, RequestRebuild(r) \/ LeaveRebuild(r)
       PROVE  SemanticInv'
  BY <1>1, <1>10 DEF RequestRebuild, LeaveRebuild, TypeOK, Threads
<1>11. ASSUME NEW r \in Rebuilds, EnterRebuild(r) PROVE SemanticInv'
  <2>1. /\ pc' = [pc EXCEPT ![r] = pc'[r]]
        /\ pc[r] = "gate"
        /\ pc'[r] \in {"err", "lexWriter"}
        /\ \A other \in Rebuilds \ {r} : begin'[other] = begin[other]
        /\ UNCHANGED <<vectors, semanticSet, lastRebuild, fetched, gap>>
    BY <1>11 DEF EnterRebuild, TypeOK, Threads
  <2>2. StoredWhen(lastRebuild)' = StoredWhen(lastRebuild)
    BY <2>1 DEF TypeOK
  <2>3. /\ \A other \in Rebuilds \ {r} : pc'[other] = pc[other]
        /\ pc'[r] \in {"err", "lexWriter"}
    BY <2>1 DEF TypeOK, Threads
  <2>4. gap # NoThread => pc'[gap] \in {"semDec", "embedAll", "abort", "err"}
    BY <2>1, <2>3 DEF TypeOK
  <2>5. DocsIn(vectors)' = DocsIn(vectors)
    BY <2>1 DEF DocsIn
  <2> HIDE DEF StoredWhen
  <2> QED
    BY <2>1, <2>2, <2>3, <2>4, <2>5
<1>12. ASSUME NEW r \in Rebuilds, FetchObservations(r) PROVE SemanticInv'
  <2>1. \A other \in Rebuilds \ {r} : pc[other] \notin GateHeld
    BY <1>12, OneBehindGate DEF FetchObservations, GateHeld
  <2>2. /\ pc[r] \in {"lexObs", "semObs"}
        /\ pc' = [pc EXCEPT ![r] = IF pc[r] = "semObs" THEN "semDec" ELSE "lexDec"]
        /\ fetched'[r] = store \cap Observations
        /\ IF pc[r] = "semObs" THEN gap' = r ELSE UNCHANGED <<vectors, gap>>
        /\ UNCHANGED <<store, semanticSet, lastRebuild, begin>>
    BY <1>12 DEF FetchObservations, TypeOK
  <2> QED
    BY <2>1, <2>2 DEF TypeOK, DocsIn, GateHeld, Threads
<1>13. ASSUME NEW r \in Rebuilds, FetchDecisions(r) PROVE SemanticInv'
  <2>1. \A other \in Rebuilds \ {r} : pc[other] \notin GateHeld
    BY <1>13, OneBehindGate DEF FetchDecisions, GateHeld
  <2>2. /\ fetched'[r] = fetched[r] \cup (store \cap Decisions)
        /\ pc' = [pc EXCEPT ![r] = pc'[r]]
        /\ \/ pc[r] = "lexDec" /\ pc'[r] = "lexCommit"
           \/ pc[r] = "semDec" /\ pc'[r] = "embedAll"
        /\ UNCHANGED <<store, vectors, semanticSet, lastRebuild, begin, gap>>
    BY <1>13 DEF FetchDecisions, StoredDecisions, TypeOK, Threads
  <2> QED
    BY <2>1, <2>2 DEF TypeOK, DocsIn, Docs, GateHeld, Threads
<1>14. ASSUME NEW r \in Rebuilds, FetchFails(r) PROVE SemanticInv'
  <2>1. /\ pc' = [pc EXCEPT ![r] = "abort"]
        /\ \/ UNCHANGED <<vectors, gap>>
           \/ gap' = r
        /\ UNCHANGED <<semanticSet, lastRebuild, begin, fetched>>
    BY <1>14 DEF FetchFails, OnError
  <2>2. \A other \in Rebuilds \ {r} : pc[other] \notin GateHeld
    BY <1>14, OneBehindGate DEF FetchFails, GateHeld
  <2> QED
    BY <2>1, <2>2 DEF TypeOK, DocsIn, GateHeld, Threads
<1>15. ASSUME NEW r \in Rebuilds, EmbedAll(r) PROVE SemanticInv'
  <2>1. \A other \in Rebuilds \ {r} : pc[other] \notin GateHeld
    BY <1>15, OneBehindGate DEF EmbedAll, GateHeld
  <2>2. DocsIn(vectors') = fetched[r] \cap Docs
    BY <1>15, EntriesOfOneEntryEach DEF EmbedAll, DocsIn
  <2>3. /\ pc[r] = "embedAll" /\ pc' = [pc EXCEPT ![r] = "snapshot"]
        /\ gap' = NoThread
        /\ UNCHANGED <<semanticSet, lastRebuild, begin, fetched>>
    BY <1>15 DEF EmbedAll
  <2> QED
    BY <2>1, <2>2, <2>3 DEF TypeOK, GateHeld, Threads
<1>16. ASSUME NEW r \in Rebuilds, EmbedAllFails(r) PROVE SemanticInv'
  <2>1. /\ pc[r] = "embedAll" /\ pc' = [pc EXCEPT ![r] = "abort"]
        /\ UNCHANGED <<semanticSet, lastRebuild, begin, fetched, gap>>
    BY <1>16 DEF EmbedAllFails, OnError
  <2>2. gap = r
    BY <2>1
  <2> QED
    BY <2>1, <2>2 DEF TypeOK, DocsIn, Threads
<1>17. ASSUME NEW r \in Rebuilds,
              TruncateSnapshot(r) \/ WriteSnapshot(r) \/ SnapshotFails(r)
       PROVE  SemanticInv'
  BY <1>17 DEF TruncateSnapshot, WriteSnapshot, SnapshotFails, TypeOK, DocsIn,
               Threads
<1>18. ASSUME NEW r \in Rebuilds, StampRebuild(r) PROVE SemanticInv'
  <2>1. \A other \in Rebuilds \ {r} : pc[other] \notin GateHeld
    BY <1>18, OneBehindGate DEF StampRebuild, GateHeld
  <2>2. EmbeddingEnabled => semanticSet
    BY <1>18 DEF StampRebuild, SemanticFirst
  <2> QED
    BY <1>18, <2>1, <2>2 DEF StampRebuild, TypeOK, DocsIn, GateHeld, Threads
<1>19. CASE Crash
  BY <1>19 DEF Crash, Running, Ended, TypeOK, Threads
<1>20. CASE UNCHANGED vars
  BY <1>20 DEF vars, DocsIn
<1> QED
  BY <1>2, <1>3, <1>4, <1>5, <1>6, <1>7, <1>8, <1>9, <1>10, <1>11, <1>12,
     <1>13, <1>14, <1>15, <1>16, <1>17, <1>18, <1>19, <1>20
  DEF Next, SyncStep, RebuildStep, SearchStep, Quiescent, Threads

\* The invariants hold before anything was rebuilt.
LEMMA InitRebuild == Init => CoverInv /\ RepairInv /\ SemanticInv
BY ThreadsDisjoint DEF Init, CoverInv, RepairInv, SemanticInv, StoredWhen,
                       LastRebuildCovers, LexicalDone, Threads

\* The invariants hold in every state the indexes can get into.
THEOREM RebuildInvariant == Spec => [](CoverInv /\ RepairInv /\ SemanticInv)
<1>1. IInv /\ CoverInv /\ RepairInv /\ SemanticInv /\ [Next]_vars
          => CoverInv' /\ RepairInv' /\ SemanticInv'
  BY StepCover, StepRepair, StepSemantic
<1> QED
  BY <1>1, InitRebuild, Invariant, PTL DEF Spec

\* As long as admin_status names a finished rebuild, whatever was stored when
\* that one began can be found lexically.
THEOREM FinishedRebuildsCover == Spec => []LastRebuildCovers
BY RebuildInvariant, PTL DEF CoverInv

\* A rebuild that is about to report success has repaired every document
\* whose call was over when it began.
THEOREM RebuildsRepair == Spec => []RebuildRepairs
<1>1. IInv /\ RepairInv => RebuildRepairs
  <2> SUFFICES ASSUME IInv, RepairInv, NEW r \in Rebuilds, pc[r] = "stamp",
                      NEW d \in begin[r].over
               PROVE  LET expected == IF d \in store THEN 1 ELSE 0
                      IN  /\ lexical[d] = expected
                          /\ EmbeddingEnabled => vectors[d] = expected
    BY DEF RebuildRepairs
  <2>1. d \in Docs
    BY DEF IInv, TypeOK
  <2> QED
    BY <2>1 DEF RepairInv, LexicalDone
<1> QED
  BY <1>1, Invariant, RebuildInvariant, PTL

\* Whoever gets at the vectors while admin_status names a finished rebuild
\* misses a document of that one only if a later rebuild failed and said so.
THEOREM SemanticGapsReported == Spec => []SemanticGapsWereReported
<1>1. IInv /\ SemanticInv => SemanticGapsWereReported
  <2> SUFFICES ASSUME IInv, SemanticInv, lastRebuild # NoThread,
                      EmbeddingEnabled, semanticLock \notin Rebuilds
               PROVE  \/ begin[lastRebuild].stored \subseteq DocsIn(vectors)
                      \/ gap # NoThread /\ pc[gap] \in {"abort", "err"}
    BY DEF SemanticGapsWereReported
  <2>1. CASE gap = NoThread
    BY <2>1 DEF SemanticInv, StoredWhen
  <2>2. CASE gap # NoThread
    <3>1. gap \in Rebuilds /\ pc[gap] \in {"semDec", "embedAll", "abort", "err"}
      BY <2>2 DEF SemanticInv, IInv, TypeOK
    <3>2. pc[gap] \in SemanticHeld => semanticLock = gap
      BY <3>1 DEF IInv, LocksMatchThreads, Threads
    <3> QED
      BY <2>2, <3>1, <3>2 DEF SemanticHeld
  <2> QED
    BY <2>1, <2>2
<1> QED
  BY <1>1, Invariant, RebuildInvariant, PTL
=============================================================================
