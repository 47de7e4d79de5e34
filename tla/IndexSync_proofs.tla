-------------------------- MODULE IndexSync_proofs --------------------------
(***************************************************************************)
(* Theorems about IndexSync, for every set of calls, every set of faults   *)
(* and any number of crashes.                                              *)
(***************************************************************************)
EXTENDS IndexSync, TLAPS

\* What OneEntryEach builds is an index with those documents in it.
LEMMA EntriesOfOneEntryEach ==
    ASSUME NEW S
    PROVE  /\ OneEntryEach(S) \in Indexes
           /\ \A d \in Docs : OneEntryEach(S)[d] = IF d \in S THEN 1 ELSE 0
BY DEF OneEntryEach, Indexes

\* The empty index is one, too.
LEMMA EmptyIndexType ==
    EmptyIndex \in Indexes /\ \A d \in Docs : EmptyIndex[d] = 0
BY EntriesOfOneEntryEach DEF EmptyIndex

\* TypeOK holds initially.
LEMMA InitTypeOK == Init => TypeOK
<1> SUFFICES ASSUME Init PROVE TypeOK
  OBVIOUS
<1>1. pc = [t \in Threads |-> "off"]
  BY DEF Init
<1>2. begin \in [Rebuilds -> [stored : SUBSET Docs, over : SUBSET Docs]]
  BY DEF Init
<1> QED
  BY <1>1, <1>2, EmptyIndexType
  DEF Init, TypeOK, PersistStates, AddLabels, RebuildLabels, SearchLabels,
      Threads

\* Every step preserves TypeOK.
LEMMA StepTypeOK == TypeOK /\ [Next]_vars => TypeOK'
<1> SUFFICES ASSUME TypeOK, [Next]_vars PROVE TypeOK'
  OBVIOUS
<1> USE ThreadsDisjoint DEF TypeOK, Goto, durable, locks, history
<1>1. ASSUME NEW d \in Docs, Call(d) PROVE TypeOK'
  BY <1>1 DEF Call, PersistStates, AddLabels, Threads
<1>2. ASSUME NEW d \in Docs, StoreStep(d) PROVE TypeOK'
  BY <1>2 DEF StoreStep, PersistSucceeds, PersistFails, PersistStates,
              AddLabels, Threads
<1>3. ASSUME NEW t \in Docs \cup Rebuilds, OpenWriter(t) PROVE TypeOK'
  BY <1>3 DEF OpenWriter, AddLabels, RebuildLabels, GateHeld, Threads
<1>4. ASSUME NEW t \in Docs \cup Rebuilds, WriterRefused(t) PROVE TypeOK'
  BY <1>4 DEF WriterRefused, OnError, AddLabels, RebuildLabels, GateHeld,
              Threads
<1>5. ASSUME NEW d \in Docs, CommitAdd(d) PROVE TypeOK'
  BY <1>5 DEF CommitAdd, AfterLexical, Indexes, AddLabels, Threads
<1>6. ASSUME NEW r \in Rebuilds, CommitRebuild(r) PROVE TypeOK'
  BY <1>6 DEF CommitRebuild, RebuiltLexical, OneEntryEach, AfterLexical,
              Indexes, RebuildLabels, GateHeld, Threads
<1>7. ASSUME NEW t \in Docs \cup Rebuilds, CommitFails(t) PROVE TypeOK'
  BY <1>7 DEF CommitFails, OnError, AddLabels, RebuildLabels, GateHeld, Threads
<1>8. ASSUME NEW t \in Threads, EnsureSemantic(t) PROVE TypeOK'
  <2>1. CASE LoadSemantic(t)
    BY <2>1 DEF LoadSemantic, SnapshotOnDisk, EmptyIndex, OneEntryEach,
                Indexes, AddLabels, RebuildLabels, GateHeld, SearchLabels,
                Threads
  <2>2. CASE ModelFails(t)
    BY <2>2 DEF ModelFails, OnError, AddLabels, RebuildLabels, GateHeld,
                SearchLabels, Threads
  <2>3. CASE SemanticReady(t)
    BY <2>3 DEF SemanticReady, AddLabels, RebuildLabels, GateHeld,
                SearchLabels, Threads
  <2>4. CASE InstallSemantic(t)
    BY <2>4 DEF InstallSemantic, FirstOneWins, EmptyIndex, OneEntryEach,
                Indexes, AddLabels, RebuildLabels, GateHeld, SearchLabels,
                Threads
  <2>5. CASE LockSemantic(t)
    BY <2>5 DEF LockSemantic, AddLabels, RebuildLabels, GateHeld,
                SearchLabels, Threads
  <2> QED
    BY <1>8, <2>1, <2>2, <2>3, <2>4, <2>5 DEF EnsureSemantic
<1>9. ASSUME NEW d \in Docs, AddVector(d) \/ AddVectorFails(d) PROVE TypeOK'
  <2>1. CASE AddVector(d)
    BY <2>1 DEF AddVector, Indexes, AddLabels, Threads
  <2>2. CASE AddVectorFails(d)
    BY <2>2 DEF AddVectorFails, GuardAfterError, OnError, AddLabels, Threads
  <2> QED
    BY <1>9, <2>1, <2>2
<1>10. ASSUME NEW s \in Searches, StartSearch(s) \/ Answer(s) PROVE TypeOK'
  BY <1>10 DEF StartSearch, Answer, SearchLabels, Threads
<1>11. ASSUME NEW r \in Rebuilds, RequestRebuild(r) \/ EnterRebuild(r)
       PROVE  TypeOK'
  <2>1. CASE RequestRebuild(r)
    BY <2>1 DEF RequestRebuild, RebuildLabels, Threads
  <2>2. CASE EnterRebuild(r)
    <3>1. begin' \in [Rebuilds -> [stored : SUBSET Docs, over : SUBSET Docs]]
      BY <2>2 DEF EnterRebuild
    <3>2. pc' \in [Threads -> AddLabels \cup RebuildLabels \cup SearchLabels]
      BY <2>2 DEF EnterRebuild, RebuildLabels, GateHeld
    <3>3. pc'[r] \in RebuildLabels /\ \A t \in Threads \ {r} : pc'[t] = pc[t]
      BY <2>2 DEF EnterRebuild, RebuildLabels, GateHeld, Threads
    <3>4. rebuildGate' \in Rebuilds \cup {NoThread} /\ rebuildInProgress' \in BOOLEAN
      BY <2>2 DEF EnterRebuild
    <3> QED
      BY <2>2, <3>1, <3>2, <3>3, <3>4 DEF EnterRebuild, Threads
  <2> QED
    BY <1>11, <2>1, <2>2
<1>12. ASSUME NEW r \in Rebuilds, FetchObservations(r) \/ FetchDecisions(r)
       PROVE  TypeOK'
  <2>1. CASE FetchObservations(r)
    BY <2>1, EmptyIndexType
    DEF FetchObservations, RebuildLabels, GateHeld, Threads
  <2>2. CASE FetchDecisions(r)
    <3>1. fetched' \in [Rebuilds -> SUBSET Docs]
      BY <2>2 DEF FetchDecisions, StoredDecisions
    <3> QED
      BY <2>2, <3>1 DEF FetchDecisions, RebuildLabels, GateHeld, Threads
  <2> QED
    BY <1>12, <2>1, <2>2
<1>13. ASSUME NEW r \in Rebuilds, FetchFails(r) PROVE TypeOK'
  BY <1>13 DEF FetchFails, OnError, EmptyIndex, OneEntryEach, Indexes,
               RebuildLabels, GateHeld, Threads
<1>14. ASSUME NEW r \in Rebuilds, EmbedAll(r) \/ EmbedAllFails(r) PROVE TypeOK'
  <2>1. CASE EmbedAll(r)
    BY <2>1, EntriesOfOneEntryEach DEF EmbedAll, RebuildLabels, GateHeld,
                                       Threads
  <2>2. CASE EmbedAllFails(r)
    BY <2>2, EntriesOfOneEntryEach DEF EmbedAllFails, GuardAfterError, OnError,
                                       RebuildLabels, GateHeld, Threads
  <2> QED
    BY <1>14, <2>1, <2>2
<1>15. ASSUME NEW r \in Rebuilds,
              TruncateSnapshot(r) \/ WriteSnapshot(r) \/ SnapshotFails(r)
       PROVE  TypeOK'
  BY <1>15 DEF TruncateSnapshot, WriteSnapshot, SnapshotFails,
               LockDuringSnapshot, RebuildLabels, GateHeld, Threads
<1>16. ASSUME NEW r \in Rebuilds, StampRebuild(r) \/ LeaveRebuild(r)
       PROVE  TypeOK'
  <2>1. CASE StampRebuild(r)
    BY <2>1 DEF StampRebuild, RebuildLabels, GateHeld, Threads
  <2>2. CASE LeaveRebuild(r)
    BY <2>2 DEF LeaveRebuild, FlagAfter, GateAfter, RebuildLabels, Threads
  <2> QED
    BY <1>16, <2>1, <2>2
<1>17. CASE Crash
  <2>1. /\ pc' \in [Threads -> AddLabels \cup RebuildLabels \cup SearchLabels]
        /\ \A d \in Docs : pc'[d] \in AddLabels
        /\ \A r \in Rebuilds : pc'[r] \in RebuildLabels
        /\ \A s \in Searches : pc'[s] \in SearchLabels
    BY <1>17 DEF Crash, AddLabels, RebuildLabels, SearchLabels, Threads
  <2>2. persist' \in [Docs -> PersistStates]
    BY <1>17 DEF Crash, PersistStates
  <2>3. fetched' \in [Rebuilds -> SUBSET Docs] /\ loaded' \in [Threads -> Indexes]
    BY <1>17, EmptyIndexType DEF Crash
  <2>4. /\ UNCHANGED <<store, lexical, snapshot, begin>>
        /\ writerLock' = NoThread /\ semanticLock' = NoThread
        /\ rebuildGate' = NoThread /\ lastRebuild' = NoThread
        /\ rebuildInProgress' = FALSE /\ semanticSet' = FALSE
        /\ vectors' \in Indexes /\ crashes' \in Nat /\ gap' = NoThread
    BY <1>17, EmptyIndexType DEF Crash
  <2> QED
    BY <2>1, <2>2, <2>3, <2>4
<1>18. CASE UNCHANGED vars
  BY <1>18 DEF vars
<1>19. ASSUME NEW d \in Docs, SyncStep(d) PROVE TypeOK'
  BY <1>3, <1>4, <1>5, <1>7, <1>8, <1>9, <1>19 DEF SyncStep, Threads
<1>20. ASSUME NEW r \in Rebuilds, RebuildStep(r) PROVE TypeOK'
  BY <1>3, <1>4, <1>6, <1>7, <1>8, <1>11, <1>12, <1>13, <1>14, <1>15, <1>16,
     <1>20 DEF RebuildStep, Threads
<1>21. ASSUME NEW s \in Searches, SearchStep(s) PROVE TypeOK'
  BY <1>8, <1>10, <1>21 DEF SearchStep, Threads
<1> QED
  BY <1>1, <1>2, <1>10, <1>11, <1>17, <1>18, <1>19, <1>20, <1>21
  DEF Next, Quiescent

\* Every variable keeps its type.
THEOREM TypeCorrect == Spec => []TypeOK
BY InitTypeOK, StepTypeOK, PTL DEF Spec

-----------------------------------------------------------------------------
(* The two legs of a call, and the locks.                                  *)

\* A call's sync starts with the call or, for a decision, once it is stored.
CallOrder ==
    /\ \A d \in Docs : persist[d] = "idle" => pc[d] = "off"
    /\ \A d \in Docs : persist[d] = "done" => d \in store
    /\ \A d \in Decisions :
          /\ pc[d] \notin {"off", "killed"} => persist[d] = "done"
          /\ persist[d] = "running" => pc[d] = "off"

\* Every step preserves the order of the legs.
LEMMA StepCallOrder == TypeOK /\ CallOrder /\ [Next]_vars => CallOrder'
<1> SUFFICES ASSUME TypeOK, CallOrder, [Next]_vars PROVE CallOrder'
  OBVIOUS
<1> USE ThreadsDisjoint DEF TypeOK, CallOrder, Goto, durable, locks, history
<1>1. ASSUME NEW d \in Docs, Call(d) PROVE CallOrder'
  BY <1>1 DEF Call, SyncBesidePersist, Docs, Threads
<1>2. ASSUME NEW d \in Docs, StoreStep(d) PROVE CallOrder'
  BY <1>2 DEF StoreStep, PersistSucceeds, PersistFails, SyncBesidePersist,
              Docs, Threads
<1>3. ASSUME NEW t \in Threads, EnsureSemantic(t) PROVE CallOrder'
  BY <1>3 DEF EnsureSemantic, LoadSemantic, ModelFails, SemanticReady,
              InstallSemantic, LockSemantic, Docs, Threads
<1>4. ASSUME NEW d \in Docs, SyncStep(d) PROVE CallOrder'
  BY <1>3, <1>4 DEF SyncStep, OpenWriter, WriterRefused, CommitAdd,
                    CommitFails, AddVector, AddVectorFails, Docs, Threads
<1>5. ASSUME NEW r \in Rebuilds, RequestRebuild(r) \/ RebuildStep(r)
      PROVE  CallOrder'
  BY <1>3, <1>5 DEF RequestRebuild, RebuildStep, EnterRebuild, OpenWriter,
       WriterRefused, FetchObservations, FetchDecisions, FetchFails,
       CommitRebuild, CommitFails, EmbedAll, EmbedAllFails, TruncateSnapshot,
       WriteSnapshot, SnapshotFails, StampRebuild, LeaveRebuild, Docs, Threads
<1>6. ASSUME NEW s \in Searches, StartSearch(s) \/ SearchStep(s)
      PROVE  CallOrder'
  BY <1>3, <1>6 DEF StartSearch, SearchStep, Answer, Docs, Threads
<1>7. CASE Crash
  BY <1>7 DEF Crash, Running, Ended, Over, Docs, Threads
<1>8. CASE UNCHANGED vars
  BY <1>8 DEF vars
<1> QED
  BY <1>1, <1>2, <1>4, <1>5, <1>6, <1>7, <1>8 DEF Next, Quiescent

\* Every step preserves the ownership of the locks.
LEMMA StepLocks ==
    TypeOK /\ CallOrder /\ LocksMatchThreads /\ [Next]_vars
        => LocksMatchThreads'
<1> SUFFICES ASSUME TypeOK, CallOrder, LocksMatchThreads, [Next]_vars
             PROVE  LocksMatchThreads'
  OBVIOUS
<1> USE ThreadsDisjoint DEF TypeOK, LocksMatchThreads, Goto, LexicalWriting,
                            SemanticHeld, GateHeld, durable, locks, history
<1>1. ASSUME NEW d \in Docs, Call(d) PROVE LocksMatchThreads'
  BY <1>1 DEF Call, CallOrder, Threads
<1>2. ASSUME NEW d \in Docs, StoreStep(d) PROVE LocksMatchThreads'
  BY <1>2 DEF StoreStep, PersistSucceeds, PersistFails, SyncBesidePersist,
              CallOrder, Docs, Threads
<1>3. ASSUME NEW t \in Docs \cup Rebuilds,
             OpenWriter(t) \/ WriterRefused(t) \/ CommitFails(t)
      PROVE  LocksMatchThreads'
  BY <1>3 DEF OpenWriter, WriterRefused, CommitFails, OnError, Threads,
              AddLabels, RebuildLabels
<1>4. ASSUME NEW d \in Docs, CommitAdd(d) PROVE LocksMatchThreads'
  BY <1>4 DEF CommitAdd, AfterLexical, Threads
<1>5. ASSUME NEW r \in Rebuilds, CommitRebuild(r) PROVE LocksMatchThreads'
  BY <1>5 DEF CommitRebuild, AfterLexical, Threads
<1>6. ASSUME NEW t \in Threads, EnsureSemantic(t) PROVE LocksMatchThreads'
  BY <1>6 DEF EnsureSemantic, LoadSemantic, ModelFails, SemanticReady,
       InstallSemantic, LockSemantic, OnError, Threads
<1>7. ASSUME NEW d \in Docs, AddVector(d) \/ AddVectorFails(d)
      PROVE  LocksMatchThreads'
  BY <1>7 DEF AddVector, AddVectorFails, GuardAfterError, OnError, Threads
<1>8. ASSUME NEW s \in Searches, StartSearch(s) \/ Answer(s)
      PROVE  LocksMatchThreads'
  BY <1>8 DEF StartSearch, Answer, Threads
<1>9. ASSUME NEW r \in Rebuilds,
             RequestRebuild(r) \/ EnterRebuild(r) \/ LeaveRebuild(r)
      PROVE  LocksMatchThreads'
  BY <1>9 DEF RequestRebuild, EnterRebuild, LeaveRebuild, FlagAfter,
              GateAfter, Threads
<1>10. ASSUME NEW r \in Rebuilds,
              \/ FetchObservations(r) \/ FetchDecisions(r) \/ FetchFails(r)
       PROVE  LocksMatchThreads'
  BY <1>10 DEF FetchObservations, FetchDecisions, FetchFails, OnError, Threads
<1>11. ASSUME NEW r \in Rebuilds,
              \/ EmbedAll(r) \/ EmbedAllFails(r) \/ TruncateSnapshot(r)
              \/ WriteSnapshot(r) \/ SnapshotFails(r) \/ StampRebuild(r)
       PROVE  LocksMatchThreads'
  BY <1>11 DEF EmbedAll, EmbedAllFails, GuardAfterError, OnError,
               TruncateSnapshot, WriteSnapshot, SnapshotFails,
               LockDuringSnapshot, StampRebuild, Threads
<1>12. CASE Crash
  <2>1. \A t \in Threads : pc'[t] \in {"off", "killed", "synced", "failed", "ok",
                                    "err", "answered"}
    BY <1>12 DEF Crash, Running, Ended, Over, CallOrder, Threads
  <2>2. \A t \in Threads : t # NoThread
    OBVIOUS
  <2> QED
    BY <1>12, <2>1, <2>2 DEF Crash, Threads
<1>13. CASE UNCHANGED vars
  BY <1>13 DEF vars
<1> QED
  BY <1>1, <1>2, <1>3, <1>4, <1>5, <1>6, <1>7, <1>8, <1>9, <1>10, <1>11,
     <1>12, <1>13
  DEF Next, SyncStep, RebuildStep, SearchStep, Quiescent, Threads

-----------------------------------------------------------------------------
(* Nothing is indexed that was not in the store.                           *)

\* What a rebuild has fetched was stored, and NoPhantomDecision.
Sourced ==
    /\ \A r \in Rebuilds : fetched[r] \subseteq store
    /\ NoPhantomDecision

\* Every step preserves it: a decision is indexed after it is stored, and a
\* rebuild indexes what it has read from the store.
LEMMA StepSourced ==
    TypeOK /\ CallOrder /\ Sourced /\ [Next]_vars => Sourced'
<1> SUFFICES ASSUME TypeOK, CallOrder, Sourced, [Next]_vars PROVE Sourced'
  OBVIOUS
<1> USE ThreadsDisjoint DEF Sourced, NoPhantomDecision, Goto, durable, locks,
                            history
<1>1. ASSUME NEW d \in Docs, Call(d) PROVE Sourced'
  BY <1>1 DEF Call
<1>2. ASSUME NEW d \in Docs, StoreStep(d) PROVE Sourced'
  BY <1>2 DEF StoreStep, PersistSucceeds, PersistFails
<1>3. ASSUME NEW t \in Threads,
             OpenWriter(t) \/ WriterRefused(t) \/ CommitFails(t)
      PROVE  Sourced'
  BY <1>3 DEF OpenWriter, WriterRefused, CommitFails
<1>4. ASSUME NEW d \in Docs, CommitAdd(d) PROVE Sourced'
  <2>1. d \in Decisions => d \in store
    BY <1>4 DEF CommitAdd, CallOrder, Docs
  <2>2. \A e \in Docs : e # d => lexical'[e] = lexical[e]
    BY <1>4 DEF CommitAdd, TypeOK, Indexes
  <2> QED
    BY <1>4, <2>1, <2>2 DEF CommitAdd, Docs
<1>5. ASSUME NEW r \in Rebuilds, CommitRebuild(r) PROVE Sourced'
  <2>1. \A d \in Docs : lexical'[d] > 0 => d \in fetched[r]
    BY <1>5, EntriesOfOneEntryEach DEF CommitRebuild, RebuiltLexical
  <2> QED
    BY <1>5, <2>1 DEF CommitRebuild, Docs
<1>6. ASSUME NEW t \in Threads, EnsureSemantic(t) PROVE Sourced'
  <2>1. CASE LoadSemantic(t)
    <3>1. \A d \in Decisions : SnapshotOnDisk[d] > 0 => d \in store
      BY EmptyIndexType DEF SnapshotOnDisk, Docs
    <3> QED
      BY <2>1, <3>1 DEF LoadSemantic, TypeOK
  <2>2. CASE InstallSemantic(t)
    BY <2>2, EmptyIndexType DEF InstallSemantic, FirstOneWins, TypeOK, Docs
  <2>3. CASE ModelFails(t) \/ SemanticReady(t) \/ LockSemantic(t)
    BY <2>3 DEF ModelFails, SemanticReady, LockSemantic
  <2> QED
    BY <1>6, <2>1, <2>2, <2>3 DEF EnsureSemantic
<1>7. ASSUME NEW d \in Docs, AddVector(d) PROVE Sourced'
  <2>1. d \in Decisions => d \in store
    BY <1>7 DEF AddVector, CallOrder, Docs
  <2>2. \A e \in Docs : e # d => vectors'[e] = vectors[e]
    BY <1>7 DEF AddVector, TypeOK, Indexes
  <2> QED
    BY <1>7, <2>1, <2>2 DEF AddVector, Docs
<1>8. ASSUME NEW d \in Docs, AddVectorFails(d) PROVE Sourced'
  BY <1>8 DEF AddVectorFails
<1>9. ASSUME NEW s \in Searches, StartSearch(s) \/ Answer(s) PROVE Sourced'
  BY <1>9 DEF StartSearch, Answer
<1>10. ASSUME NEW r \in Rebuilds,
              RequestRebuild(r) \/ EnterRebuild(r) \/ LeaveRebuild(r)
       PROVE  Sourced'
  BY <1>10 DEF RequestRebuild, EnterRebuild, LeaveRebuild
<1>11. ASSUME NEW r \in Rebuilds,
              FetchObservations(r) \/ FetchDecisions(r) \/ FetchFails(r)
       PROVE  Sourced'
  <2>1. /\ UNCHANGED <<store, lexical, snapshot, loaded>>
        /\ vectors' \in {vectors, EmptyIndex}
    BY <1>11 DEF FetchObservations, FetchDecisions, FetchFails
  <2>2. \A other \in Rebuilds : fetched'[other] \subseteq store
    BY <1>11 DEF FetchObservations, FetchDecisions, FetchFails,
                 StoredDecisions, TypeOK
  <2> QED
    BY <2>1, <2>2, EmptyIndexType DEF Docs
<1>12. ASSUME NEW r \in Rebuilds, EmbedAll(r) \/ EmbedAllFails(r)
       PROVE  Sourced'
  <2>1. /\ UNCHANGED <<store, lexical, snapshot, loaded, fetched>>
        /\ \E some \in SUBSET fetched[r] : vectors' = OneEntryEach(some)
    BY <1>12 DEF EmbedAll, EmbedAllFails
  <2> QED
    BY <2>1, EntriesOfOneEntryEach DEF Docs
<1>13. ASSUME NEW r \in Rebuilds,
              TruncateSnapshot(r) \/ WriteSnapshot(r) \/ SnapshotFails(r)
       PROVE  Sourced'
  BY <1>13 DEF TruncateSnapshot, WriteSnapshot, SnapshotFails
<1>14. ASSUME NEW r \in Rebuilds, StampRebuild(r) PROVE Sourced'
  BY <1>14 DEF StampRebuild
<1>15. CASE Crash
  BY <1>15, EmptyIndexType DEF Crash, Docs
<1>16. CASE UNCHANGED vars
  BY <1>16 DEF vars
<1> QED
  BY <1>1, <1>2, <1>3, <1>4, <1>5, <1>6, <1>7, <1>8, <1>9, <1>10, <1>11,
     <1>12, <1>13, <1>14, <1>15, <1>16
  DEF Next, SyncStep, RebuildStep, SearchStep, Quiescent, Threads

-----------------------------------------------------------------------------
(* A rebuild does not lose what was indexed while it fetched.              *)

\* A rebuild about to commit has fetched every decision that the index holds:
\* it fetched them while it owned Tantivy's writer.
CommitKeepsDecisions ==
    \A r \in Rebuilds : pc[r] = "lexCommit" =>
        \A d \in Decisions : lexical[d] > 0 => d \in fetched[r]

\* A decision whose lexical add was committed is in the lexical index.
AddedDecisionsIndexed ==
    \A d \in Decisions :
        pc[d] \in {"ensure", "install", "semLock", "embed", "synced"} =>
            lexical[d] > 0

\* Every step preserves both.
LEMMA StepDecisionStays ==
    /\ TypeOK /\ CallOrder /\ LocksMatchThreads /\ Sourced
    /\ CommitKeepsDecisions /\ AddedDecisionsIndexed
    /\ [Next]_vars
    => CommitKeepsDecisions' /\ AddedDecisionsIndexed'
<1> DEFINE Kept == CommitKeepsDecisions /\ AddedDecisionsIndexed
<1> SUFFICES ASSUME TypeOK, CallOrder, LocksMatchThreads, Sourced, Kept,
                    [Next]_vars
             PROVE  Kept'
  OBVIOUS
<1> USE ThreadsDisjoint DEF CommitKeepsDecisions, AddedDecisionsIndexed, TypeOK,
                            Goto, durable, locks, history
<1>1. ASSUME NEW d \in Docs, Call(d) \/ StoreStep(d) PROVE Kept'
  BY <1>1 DEF Call, StoreStep, PersistSucceeds, PersistFails, Docs, Threads
<1>2. ASSUME NEW t \in Docs \cup Rebuilds,
             OpenWriter(t) \/ WriterRefused(t) \/ CommitFails(t)
      PROVE  Kept'
  BY <1>2 DEF OpenWriter, WriterRefused, CommitFails, OnError, Docs, Threads
<1>3. ASSUME NEW d \in Docs, CommitAdd(d) PROVE Kept'
  <2>1. \A r \in Rebuilds : pc[r] # "lexCommit"
    BY <1>3 DEF CommitAdd, LocksMatchThreads, LexicalWriting, Threads
  <2>2. \A e \in Docs : lexical'[e] = IF e = d THEN lexical[e] + 1 ELSE lexical[e]
    BY <1>3 DEF CommitAdd, Indexes
  <2>3. \A e \in Docs : lexical[e] \in Nat
    BY DEF Indexes
  <2> QED
    BY <1>3, <2>1, <2>2, <2>3 DEF CommitAdd, AfterLexical, Docs, Threads
<1>4. ASSUME NEW r \in Rebuilds, CommitRebuild(r) PROVE Kept'
  <2>1. \A d \in Decisions : lexical[d] > 0 => lexical'[d] > 0
    BY <1>4, EntriesOfOneEntryEach DEF CommitRebuild, RebuiltLexical, Docs
  <2>2. \A other \in Rebuilds : pc'[other] # "lexCommit"
    BY <1>4 DEF CommitRebuild, AfterLexical, LocksMatchThreads, GateHeld,
                Threads
  <2> QED
    BY <1>4, <2>1, <2>2 DEF CommitRebuild, Docs, Threads
<1>5. ASSUME NEW t \in Threads, EnsureSemantic(t) PROVE Kept'
  BY <1>5 DEF EnsureSemantic, LoadSemantic, ModelFails, SemanticReady,
              InstallSemantic, LockSemantic, OnError, Docs, Threads
<1>6. ASSUME NEW d \in Docs, AddVector(d) \/ AddVectorFails(d) PROVE Kept'
  BY <1>6 DEF AddVector, AddVectorFails, OnError, Docs, Threads
<1>7. ASSUME NEW s \in Searches, StartSearch(s) \/ Answer(s) PROVE Kept'
  BY <1>7 DEF StartSearch, Answer, Docs, Threads
<1>8. ASSUME NEW r \in Rebuilds,
             RequestRebuild(r) \/ EnterRebuild(r) \/ LeaveRebuild(r)
      PROVE  Kept'
  BY <1>8 DEF RequestRebuild, EnterRebuild, LeaveRebuild, Docs, Threads
<1>9. ASSUME NEW r \in Rebuilds, FetchDecisions(r) PROVE Kept'
  <2>1. \A d \in Decisions : lexical[d] > 0 => d \in fetched'[r]
    BY <1>9 DEF FetchDecisions, StoredDecisions, Sourced, NoPhantomDecision
  <2>2. \A other \in Rebuilds \ {r} : fetched'[other] = fetched[other]
    BY <1>9 DEF FetchDecisions
  <2> QED
    BY <1>9, <2>1, <2>2 DEF FetchDecisions, Docs, Threads
<1>10. ASSUME NEW r \in Rebuilds, FetchObservations(r) \/ FetchFails(r)
       PROVE  Kept'
  <2>1. UNCHANGED lexical
    BY <1>10 DEF FetchObservations, FetchFails
  <2>2. pc' = [pc EXCEPT ![r] = pc'[r]] /\ pc'[r] # "lexCommit"
    BY <1>10 DEF FetchObservations, FetchFails, OnError, Threads
  <2>3. \A other \in Rebuilds \ {r} : fetched'[other] = fetched[other]
    BY <1>10 DEF FetchObservations, FetchFails
  <2> QED
    BY <2>1, <2>2, <2>3 DEF Docs, Threads
<1>11. ASSUME NEW r \in Rebuilds,
              \/ EmbedAll(r) \/ EmbedAllFails(r) \/ TruncateSnapshot(r)
              \/ WriteSnapshot(r) \/ SnapshotFails(r) \/ StampRebuild(r)
       PROVE  Kept'
  BY <1>11 DEF EmbedAll, EmbedAllFails, OnError, TruncateSnapshot,
               WriteSnapshot, SnapshotFails, StampRebuild, Docs, Threads
<1>12. CASE Crash
  BY <1>12 DEF Crash, Running, Ended, Over, Docs, Threads
<1>13. CASE UNCHANGED vars
  BY <1>13 DEF vars
<1> QED
  BY <1>1, <1>2, <1>3, <1>4, <1>5, <1>6, <1>7, <1>8, <1>9, <1>10, <1>11,
     <1>12, <1>13
  DEF Next, SyncStep, RebuildStep, SearchStep, Quiescent, Threads

-----------------------------------------------------------------------------
(* The semantic index in memory.                                           *)

\* Whoever is past ensure_semantic finds the OnceLock set, and what is not
\* set holds nothing.
SemanticFirst ==
    /\ \A t \in Threads : pc[t] \in SemanticHeld \cup {"semLock"} => semanticSet
    /\ EmbeddingEnabled => \A r \in Rebuilds : pc[r] = "stamp" => semanticSet
    /\ ~semanticSet => vectors = EmptyIndex

\* A snapshot, or what is about to become one, has one entry per document.
SingleEntries ==
    /\ \A r \in Rebuilds : pc[r] \in {"snapshot", "snapWrite"} =>
          \A d \in Docs : vectors[d] <= 1
    /\ \A t \in Threads, d \in Docs : loaded[t][d] <= 1
    /\ SnapshotHasNoDuplicates

\* A document is added once: it has a second entry only after its own add.
AddedOnce ==
    \A d \in Docs :
        /\ lexical[d] <= 2
        /\ pc[d] \in {"off", "lexWriter", "commit"} => lexical[d] <= 1
        /\ vectors[d] <= 2
        /\ pc[d] # "synced" => vectors[d] <= 1

\* Every step preserves SemanticFirst.
LEMMA StepSemanticFirst ==
    TypeOK /\ CallOrder /\ SemanticFirst /\ [Next]_vars => SemanticFirst'
<1> SUFFICES ASSUME TypeOK, CallOrder, SemanticFirst, [Next]_vars
             PROVE  SemanticFirst'
  OBVIOUS
<1> USE ThreadsDisjoint DEF SemanticFirst, SemanticHeld, Goto, durable, locks,
                            history
<1>1. ASSUME NEW d \in Docs, Call(d) \/ StoreStep(d) PROVE SemanticFirst'
  BY <1>1 DEF Call, StoreStep, PersistSucceeds, PersistFails, TypeOK, Threads
<1>2. ASSUME NEW t \in Docs \cup Rebuilds,
             OpenWriter(t) \/ WriterRefused(t) \/ CommitFails(t)
      PROVE  SemanticFirst'
  BY <1>2 DEF OpenWriter, WriterRefused, CommitFails, OnError, TypeOK, Threads
<1>3. ASSUME NEW d \in Docs, CommitAdd(d) PROVE SemanticFirst'
  BY <1>3 DEF CommitAdd, AfterLexical, TypeOK, Threads
<1>4. ASSUME NEW r \in Rebuilds, CommitRebuild(r) PROVE SemanticFirst'
  BY <1>4 DEF CommitRebuild, AfterLexical, TypeOK, Threads
<1>5. ASSUME NEW t \in Threads, EnsureSemantic(t) PROVE SemanticFirst'
  BY <1>5 DEF EnsureSemantic, LoadSemantic, ModelFails, SemanticReady,
              InstallSemantic, LockSemantic, OnError, TypeOK, Threads
<1>6. ASSUME NEW d \in Docs, AddVector(d) \/ AddVectorFails(d)
      PROVE  SemanticFirst'
  BY <1>6 DEF AddVector, AddVectorFails, OnError, TypeOK, Threads
<1>7. ASSUME NEW s \in Searches, StartSearch(s) \/ Answer(s)
      PROVE  SemanticFirst'
  BY <1>7 DEF StartSearch, Answer, TypeOK, Threads
<1>8. ASSUME NEW r \in Rebuilds,
             RequestRebuild(r) \/ EnterRebuild(r) \/ LeaveRebuild(r)
      PROVE  SemanticFirst'
  BY <1>8 DEF RequestRebuild, EnterRebuild, LeaveRebuild, TypeOK, Threads
<1>9. ASSUME NEW r \in Rebuilds,
             FetchObservations(r) \/ FetchDecisions(r) \/ FetchFails(r)
      PROVE  SemanticFirst'
  BY <1>9 DEF FetchObservations, FetchDecisions, FetchFails, OnError, TypeOK,
              Threads
<1>10. ASSUME NEW r \in Rebuilds, EmbedAll(r) \/ EmbedAllFails(r)
       PROVE  SemanticFirst'
  BY <1>10 DEF EmbedAll, EmbedAllFails, OnError, TypeOK, Threads
<1>11. ASSUME NEW r \in Rebuilds,
              \/ TruncateSnapshot(r) \/ WriteSnapshot(r) \/ SnapshotFails(r)
              \/ StampRebuild(r)
       PROVE  SemanticFirst'
  BY <1>11 DEF TruncateSnapshot, WriteSnapshot, SnapshotFails, StampRebuild,
               TypeOK, Threads
<1>12. CASE Crash
  BY <1>12 DEF Crash, Running, Ended, Over, CallOrder, Threads
<1>13. CASE UNCHANGED vars
  BY <1>13 DEF vars
<1> QED
  BY <1>1, <1>2, <1>3, <1>4, <1>5, <1>6, <1>7, <1>8, <1>9, <1>10, <1>11,
     <1>12, <1>13
  DEF Next, SyncStep, RebuildStep, SearchStep, Quiescent, Threads

\* Every step preserves SingleEntries: nobody adds while a snapshot is taken.
LEMMA StepSingleEntries ==
    /\ TypeOK /\ CallOrder /\ LocksMatchThreads /\ SemanticFirst
    /\ SingleEntries /\ [Next]_vars
    => SingleEntries'
<1> SUFFICES ASSUME TypeOK, CallOrder, LocksMatchThreads, SemanticFirst,
                    SingleEntries, [Next]_vars
             PROVE  SingleEntries'
  OBVIOUS
<1> USE ThreadsDisjoint DEF SingleEntries, SnapshotHasNoDuplicates, Goto,
                            durable, locks, history
<1>1. ASSUME NEW d \in Docs, Call(d) \/ StoreStep(d) PROVE SingleEntries'
  BY <1>1 DEF Call, StoreStep, PersistSucceeds, PersistFails, TypeOK, Threads
<1>2. ASSUME NEW t \in Docs \cup Rebuilds,
             OpenWriter(t) \/ WriterRefused(t) \/ CommitFails(t)
      PROVE  SingleEntries'
  BY <1>2 DEF OpenWriter, WriterRefused, CommitFails, OnError, TypeOK, Threads
<1>3. ASSUME NEW d \in Docs, CommitAdd(d) PROVE SingleEntries'
  BY <1>3 DEF CommitAdd, TypeOK, Threads
<1>4. ASSUME NEW r \in Rebuilds, CommitRebuild(r) PROVE SingleEntries'
  BY <1>4 DEF CommitRebuild, AfterLexical, TypeOK, Threads
<1>5. ASSUME NEW t \in Threads, EnsureSemantic(t) PROVE SingleEntries'
  <2>1. CASE LoadSemantic(t)
    <3>1. \A d \in Docs : SnapshotOnDisk[d] <= 1
      BY EmptyIndexType DEF SnapshotOnDisk
    <3> QED
      BY <2>1, <3>1 DEF LoadSemantic, TypeOK, Threads
  <2>2. CASE InstallSemantic(t)
    <3>1. ~semanticSet =>
             \A r \in Rebuilds : pc[r] \notin {"snapshot", "snapWrite"}
      BY DEF SemanticFirst, SemanticHeld, Threads
    <3> QED
      BY <2>2, <3>1, EmptyIndexType DEF InstallSemantic, FirstOneWins, TypeOK,
                                        Threads
  <2>3. CASE ModelFails(t) \/ SemanticReady(t) \/ LockSemantic(t)
    BY <2>3 DEF ModelFails, SemanticReady, LockSemantic, OnError, TypeOK,
                Threads
  <2> QED
    BY <1>5, <2>1, <2>2, <2>3 DEF EnsureSemantic
<1>6. ASSUME NEW d \in Docs, AddVector(d) PROVE SingleEntries'
  <2>1. \A r \in Rebuilds : pc[r] \notin {"snapshot", "snapWrite"}
    BY <1>6 DEF AddVector, LocksMatchThreads, SemanticHeld, Threads
  <2> QED
    BY <1>6, <2>1 DEF AddVector, TypeOK, Threads
<1>7. ASSUME NEW d \in Docs, AddVectorFails(d) PROVE SingleEntries'
  BY <1>7 DEF AddVectorFails, TypeOK, Threads
<1>8. ASSUME NEW s \in Searches, StartSearch(s) \/ Answer(s)
      PROVE  SingleEntries'
  BY <1>8 DEF StartSearch, Answer, TypeOK, Threads
<1>9. ASSUME NEW r \in Rebuilds,
             RequestRebuild(r) \/ EnterRebuild(r) \/ LeaveRebuild(r)
      PROVE  SingleEntries'
  BY <1>9 DEF RequestRebuild, EnterRebuild, LeaveRebuild, TypeOK, Threads
<1>10. ASSUME NEW r \in Rebuilds,
              FetchObservations(r) \/ FetchDecisions(r) \/ FetchFails(r)
       PROVE  SingleEntries'
  <2>1. vectors' \in {vectors, EmptyIndex} /\ UNCHANGED <<snapshot, loaded>>
    BY <1>10 DEF FetchObservations, FetchDecisions, FetchFails
  <2>2. \A other \in Rebuilds : pc'[other] \in {"snapshot", "snapWrite"} =>
           pc[other] = pc'[other]
    BY <1>10 DEF FetchObservations, FetchDecisions, FetchFails, OnError,
                 TypeOK, Threads
  <2> QED
    BY <2>1, <2>2, EmptyIndexType
<1>11. ASSUME NEW r \in Rebuilds, EmbedAll(r) \/ EmbedAllFails(r)
       PROVE  SingleEntries'
  <2>1. UNCHANGED <<snapshot, loaded>> /\ \E S : vectors' = OneEntryEach(S)
    BY <1>11 DEF EmbedAll, EmbedAllFails
  <2>2. \A d \in Docs : vectors'[d] <= 1
    BY <2>1, EntriesOfOneEntryEach
  <2> QED
    BY <2>1, <2>2
<1>12. ASSUME NEW r \in Rebuilds,
              \/ TruncateSnapshot(r) \/ WriteSnapshot(r) \/ SnapshotFails(r)
              \/ StampRebuild(r)
       PROVE  SingleEntries'
  BY <1>12 DEF TruncateSnapshot, WriteSnapshot, SnapshotFails, StampRebuild,
               TypeOK, Threads
<1>13. CASE Crash
  BY <1>13, EmptyIndexType DEF Crash, Running, Threads
<1>14. CASE UNCHANGED vars
  BY <1>14 DEF vars
<1> QED
  BY <1>1, <1>2, <1>3, <1>4, <1>5, <1>6, <1>7, <1>8, <1>9, <1>10, <1>11,
     <1>12, <1>13, <1>14
  DEF Next, SyncStep, RebuildStep, SearchStep, Quiescent, Threads

\* Every step preserves AddedOnce: a call adds its document once, to indexes
\* that hold at most the one entry a rebuild or a snapshot gave it.
LEMMA StepAddedOnce ==
    /\ TypeOK /\ CallOrder /\ SemanticFirst /\ SingleEntries /\ AddedOnce
    /\ [Next]_vars
    => AddedOnce'
<1> SUFFICES ASSUME TypeOK, CallOrder, SemanticFirst, SingleEntries, AddedOnce,
                    [Next]_vars
             PROVE  AddedOnce'
  OBVIOUS
<1>0. \A d \in Docs : /\ lexical[d] \in Nat /\ vectors[d] \in Nat
                    /\ lexical'[d] \in Nat /\ vectors'[d] \in Nat
  BY StepTypeOK DEF TypeOK, Indexes
<1> USE ThreadsDisjoint, <1>0 DEF AddedOnce, Goto, durable, locks, history
<1>1. ASSUME NEW d \in Docs, Call(d) PROVE AddedOnce'
  BY <1>1 DEF Call, CallOrder, TypeOK, Threads
<1>2. ASSUME NEW d \in Docs, StoreStep(d) PROVE AddedOnce'
  <2>1. CASE PersistSucceeds(d)
    <3>1. d \notin SyncBesidePersist => pc[d] = "off"
      BY <2>1 DEF PersistSucceeds, SyncBesidePersist, CallOrder, Docs
    <3> QED
      BY <2>1, <3>1 DEF PersistSucceeds, TypeOK, Threads
  <2>2. CASE PersistFails(d)
    BY <2>2 DEF PersistFails
  <2> QED
    BY <1>2, <2>1, <2>2 DEF StoreStep
<1>3. ASSUME NEW t \in Docs \cup Rebuilds,
             OpenWriter(t) \/ WriterRefused(t) \/ CommitFails(t)
      PROVE  AddedOnce'
  BY <1>3 DEF OpenWriter, WriterRefused, CommitFails, OnError, TypeOK, Threads
<1>4. ASSUME NEW d \in Docs, CommitAdd(d) PROVE AddedOnce'
  <2>1. \A e \in Docs : lexical'[e] = IF e = d THEN lexical[e] + 1 ELSE lexical[e]
    BY <1>4 DEF CommitAdd, TypeOK, Indexes
  <2>2. /\ pc[d] = "commit"
        /\ pc'[d] \in {"ensure", "synced"}
        /\ \A e \in Docs \ {d} : pc'[e] = pc[e]
        /\ UNCHANGED vectors
    BY <1>4 DEF CommitAdd, AfterLexical, TypeOK, Threads
  <2> QED
    BY <2>1, <2>2
<1>5. ASSUME NEW r \in Rebuilds, CommitRebuild(r) PROVE AddedOnce'
  <2>1. \A d \in Docs : lexical'[d] <= 1 /\ pc'[d] = pc[d]
    BY <1>5, EntriesOfOneEntryEach DEF CommitRebuild, RebuiltLexical, TypeOK,
                                       Threads
  <2> QED
    BY <1>5, <2>1 DEF CommitRebuild
<1>6. ASSUME NEW t \in Threads, EnsureSemantic(t) PROVE AddedOnce'
  <2>1. CASE InstallSemantic(t)
    <3>1. \A d \in Docs : vectors'[d] <= 1 \/ vectors'[d] = vectors[d]
      BY <2>1 DEF InstallSemantic, FirstOneWins, SingleEntries, TypeOK
    <3>2. \A d \in Docs : pc'[d] \in {"off", "lexWriter", "commit"} \/ pc[d] = "synced"
             => pc'[d] = pc[d]
      BY <2>1 DEF InstallSemantic, TypeOK, Threads
    <3>3. \A d \in Docs : vectors'[d] <= 2
      BY <3>1
    <3> QED
      BY <2>1, <3>1, <3>2, <3>3 DEF InstallSemantic
  <2>2. CASE \/ LoadSemantic(t) \/ ModelFails(t) \/ SemanticReady(t)
             \/ LockSemantic(t)
    BY <2>2 DEF LoadSemantic, ModelFails, SemanticReady, LockSemantic, OnError,
                TypeOK, Threads
  <2> QED
    BY <1>6, <2>1, <2>2 DEF EnsureSemantic
<1>7. ASSUME NEW d \in Docs, AddVector(d) PROVE AddedOnce'
  <2>1. \A e \in Docs : vectors'[e] = IF e = d THEN vectors[e] + 1 ELSE vectors[e]
    BY <1>7 DEF AddVector, TypeOK, Indexes
  <2>2. /\ pc[d] = "embed"
        /\ pc'[d] = "synced"
        /\ \A e \in Docs \ {d} : pc'[e] = pc[e]
        /\ UNCHANGED lexical
    BY <1>7 DEF AddVector, TypeOK, Threads
  <2> QED
    BY <2>1, <2>2
<1>8. ASSUME NEW d \in Docs, AddVectorFails(d) PROVE AddedOnce'
  BY <1>8 DEF AddVectorFails, OnError, TypeOK, Threads
<1>9. ASSUME NEW s \in Searches, StartSearch(s) \/ Answer(s) PROVE AddedOnce'
  BY <1>9 DEF StartSearch, Answer, TypeOK, Threads
<1>10. ASSUME NEW r \in Rebuilds,
              RequestRebuild(r) \/ EnterRebuild(r) \/ LeaveRebuild(r)
       PROVE  AddedOnce'
  BY <1>10 DEF RequestRebuild, EnterRebuild, LeaveRebuild, TypeOK, Threads
<1>11. ASSUME NEW r \in Rebuilds,
              FetchObservations(r) \/ FetchDecisions(r) \/ FetchFails(r)
       PROVE  AddedOnce'
  <2>1. vectors' \in {vectors, EmptyIndex} /\ UNCHANGED lexical
    BY <1>11 DEF FetchObservations, FetchDecisions, FetchFails
  <2>2. \A d \in Docs : pc'[d] = pc[d]
    BY <1>11 DEF FetchObservations, FetchDecisions, FetchFails, TypeOK, Threads
  <2> QED
    BY <2>1, <2>2, EmptyIndexType
<1>12. ASSUME NEW r \in Rebuilds, EmbedAll(r) \/ EmbedAllFails(r)
       PROVE  AddedOnce'
  <2>1. UNCHANGED lexical /\ \E S : vectors' = OneEntryEach(S)
    BY <1>12 DEF EmbedAll, EmbedAllFails
  <2>2. \A d \in Docs : vectors'[d] <= 1
    BY <2>1, EntriesOfOneEntryEach
  <2>3. \A d \in Docs : pc'[d] = pc[d]
    BY <1>12 DEF EmbedAll, EmbedAllFails, TypeOK, Threads
  <2> QED
    BY <2>1, <2>2, <2>3
<1>13. ASSUME NEW r \in Rebuilds,
              \/ TruncateSnapshot(r) \/ WriteSnapshot(r) \/ SnapshotFails(r)
              \/ StampRebuild(r)
       PROVE  AddedOnce'
  BY <1>13 DEF TruncateSnapshot, WriteSnapshot, SnapshotFails, StampRebuild,
               TypeOK, Threads
<1>14. CASE Crash
  <2>1. \A d \in Docs : vectors'[d] = 0
    BY <1>14, EmptyIndexType DEF Crash
  <2>2. \A d \in Docs : pc'[d] \in {pc[d], "killed"}
    BY <1>14 DEF Crash, Threads
  <2> QED
    BY <1>14, <2>1, <2>2 DEF Crash
<1>15. CASE UNCHANGED vars
  BY <1>15 DEF vars
<1> QED
  BY <1>1, <1>2, <1>3, <1>4, <1>5, <1>6, <1>7, <1>8, <1>9, <1>10, <1>11,
     <1>12, <1>13, <1>14, <1>15
  DEF Next, SyncStep, RebuildStep, SearchStep, Quiescent, Threads

-----------------------------------------------------------------------------
(* The inductive invariant, and what follows from it.                      *)

\* All of the above.
IInv ==
    /\ TypeOK
    /\ CallOrder
    /\ LocksMatchThreads
    /\ Sourced
    /\ CommitKeepsDecisions
    /\ AddedDecisionsIndexed
    /\ SemanticFirst
    /\ SingleEntries
    /\ AddedOnce

\* Nothing has happened yet: no call, no lock, no entry.
LEMMA InitIInv == Init => IInv
<1> SUFFICES ASSUME Init PROVE IInv
  OBVIOUS
<1>1. TypeOK
  BY InitTypeOK
<1>2. /\ \A t \in Threads : pc[t] = "off" /\ t # NoThread
      /\ \A d \in Docs : pc[d] = "off" /\ persist[d] = "idle"
      /\ \A r \in Rebuilds : pc[r] = "off"
  BY ThreadsDisjoint DEF Init, Threads
<1>3. CallOrder
  BY <1>2 DEF CallOrder, Docs
<1>4. LocksMatchThreads
  BY <1>2 DEF Init, LocksMatchThreads, GateHeld, LexicalWriting, SemanticHeld,
              Threads
<1>5. Sourced
  BY EmptyIndexType, SentinelsDiffer DEF Init, Sourced, NoPhantomDecision, Docs
<1>6. CommitKeepsDecisions /\ AddedDecisionsIndexed
  BY <1>2 DEF CommitKeepsDecisions, AddedDecisionsIndexed, Docs
<1>7. SemanticFirst
  BY <1>2 DEF Init, SemanticFirst, SemanticHeld
<1>8. SingleEntries
  BY <1>2, EmptyIndexType DEF Init, SingleEntries, SnapshotHasNoDuplicates
<1>9. AddedOnce
  BY EmptyIndexType DEF Init, AddedOnce
<1> QED
  BY <1>1, <1>3, <1>4, <1>5, <1>6, <1>7, <1>8, <1>9 DEF IInv

\* Every step preserves the inductive invariant.
LEMMA StepIInv == IInv /\ [Next]_vars => IInv'
BY StepTypeOK, StepCallOrder, StepLocks, StepSourced, StepDecisionStays,
   StepSemanticFirst, StepSingleEntries, StepAddedOnce DEF IInv

\* The inductive invariant holds in every state the system can get into.
THEOREM Invariant == Spec => []IInv
BY InitIInv, StepIInv, PTL DEF Spec

\* The locks exclude whom they should, and the rebuild flag is set exactly
\* while its mutex is held.
THEOREM LocksCorrect == Spec => []LocksMatchThreads
BY Invariant, PTL DEF IInv

\* No index and no snapshot ever shows a decision that is not stored.
THEOREM NoPhantoms == Spec => []NoPhantomDecision
BY Invariant, PTL DEF IInv, Sourced

\* A readable snapshot never holds a document twice.
THEOREM SnapshotsAreSingle == Spec => []SnapshotHasNoDuplicates
BY Invariant, PTL DEF IInv, SingleEntries

\* No document has more than two entries in an index.
THEOREM EntriesBounded == Spec => []AtMostTwoEntries
<1>1. IInv => AtMostTwoEntries
  BY DEF IInv, AddedOnce, AtMostTwoEntries
<1> QED
  BY <1>1, Invariant, PTL
=============================================================================
