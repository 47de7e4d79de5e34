----------------------------- MODULE IndexSync -----------------------------
(***************************************************************************)
(* The Tracker store and the two search indexes derived from it, with the  *)
(* calls that write them: store_observation (ingest), record_decision,     *)
(* rebuild_all and a semantic search, each a thread of its own.            *)
(*                                                                         *)
(* Source: crates/zakhor-search (sync/manager.rs, lexical/index.rs,        *)
(* semantic/index.rs, rebuild.rs), crates/zakhor-model (ingest.rs,         *)
(* decision/model.rs), crates/zakhor-api (tools/record_decision.rs).       *)
(*                                                                         *)
(* A document is its id: the index id of an observation is the urn:uuid    *)
(* literal, that of a decision its URI, fresh in every call.  A call       *)
(* therefore is a thread named after its document.  Documents have text:   *)
(* rebuild.rs leaves out a blank one, which is not a call modelled here.   *)
(***************************************************************************)
EXTENDS Naturals, FiniteSets

CONSTANTS
    Observations,      \* ids of the observations that callers store
    Decisions,         \* ids of the decisions that callers record
    Rebuilds,          \* calls of rebuild_all (tool, REST or command line)
    Searches,          \* calls of semantic_search
    NoThread,          \* "nobody" as the owner of a lock
    NoSnapshot,        \* no vectors.bin on disk
    Torn,              \* vectors.bin truncated by an unfinished write
    EmbeddingEnabled,  \* [embedding] enabled in the configuration
    Faults,            \* the calls out of this code that may fail
    MaxCrashes         \* bound: how often the process may be killed

FaultPoints == {"persist", "lexical", "fetch", "model", "embed", "snapshot"}

Docs    == Observations \cup Decisions
Threads == Docs \cup Rebuilds \cup Searches

ASSUME ThreadsDisjoint ==
    /\ Observations \cap Decisions = {}
    /\ Docs \cap Rebuilds = {}
    /\ Docs \cap Searches = {}
    /\ Rebuilds \cap Searches = {}
    /\ NoThread \notin Threads
ASSUME SentinelsDiffer == NoSnapshot # Torn
ASSUME SentinelsAreNoIndex == {NoSnapshot, Torn} \cap [Docs -> Nat] = {}
ASSUME EmbeddingFlag == EmbeddingEnabled \in BOOLEAN
ASSUME FaultsKnown == Faults \subseteq FaultPoints
ASSUME CrashBound == MaxCrashes \in Nat

VARIABLES
    store,             \* documents in the Tracker graph (durable)
    lexical,           \* committed Tantivy entries per document (durable)
    snapshot,          \* vectors.bin: NoSnapshot, Torn or an index (durable)
    writerLock,        \* owner of Tantivy's exclusive writer lock
    semanticSet,       \* the OnceLock holds a SemanticIndex
    vectors,           \* SemanticIndex.vectors: entries per document
    semanticLock,      \* owner of the Mutex<SemanticIndex>
    rebuildGate,       \* owner of the rebuild_in_progress mutex
    rebuildInProgress, \* the flag behind that mutex
    lastRebuild,       \* last_rebuild_finished_at_ms: the rebuild it is from
    persist,           \* persist[d]: the store's leg of the call for d
    pc,                \* pc[t]: the index leg of a call, a rebuild, a search
    fetched,           \* fetched[r]: what fetch_all has returned to r so far
    loaded,            \* loaded[t]: the vectors of the index t has just built
    begin,             \* history: store and finished calls when r entered
    gap,               \* history: the rebuild that cleared the vectors and
                       \* has not embedded what it fetched since
    crashes            \* history: how often the process was killed

durable  == <<store, lexical, snapshot>>
locks    == <<writerLock, semanticLock, rebuildGate>>
history  == <<begin, gap, crashes>>
vars == <<store, lexical, snapshot, writerLock, semanticSet, vectors,
          semanticLock, rebuildGate, rebuildInProgress, lastRebuild, persist,
          pc, fetched, loaded, begin, gap, crashes>>

-----------------------------------------------------------------------------
(* An index maps every document to its number of entries.                  *)

Indexes == [Docs -> Nat]

OneEntryEach(S) == [d \in Docs |-> IF d \in S THEN 1 ELSE 0]

EmptyIndex == OneEntryEach({})

DocsIn(index) == {d \in Docs : index[d] > 0}

Goto(t, label) == pc' = [pc EXCEPT ![t] = label]

-----------------------------------------------------------------------------
(* Where each kind of thread stands.                                       *)

PersistStates == {"idle", "running", "done", "failed", "killed"}

LexicalWriting == {"commit", "lexObs", "lexDec", "lexCommit"}
SemanticHeld == {"embed", "read", "semObs", "semDec", "embedAll", "snapshot",
                 "snapWrite"}
GateHeld == {"lexWriter", "lexObs", "lexDec", "lexCommit", "ensure", "install",
             "semLock", "semObs", "semDec", "embedAll", "snapshot", "snapWrite",
             "stamp", "stamped", "abort"}

AddLabels == {"off", "lexWriter", "commit", "ensure", "install", "semLock",
              "embed", "synced", "failed", "killed"}
RebuildLabels == {"off", "gate", "ok", "err", "killed"} \cup GateHeld
SearchLabels == {"off", "ensure", "install", "semLock", "read", "answered",
                 "killed"}

Over(d) ==
    /\ persist[d] \in {"done", "failed", "killed"}
    /\ pc[d] \in {"off", "synced", "failed", "killed"}

Ended(t) ==
    IF t \in Docs THEN Over(t) ELSE pc[t] \in {"ok", "err", "answered", "killed"}

Running(t) ==
    /\ ~Ended(t)
    /\ t \in Docs => persist[t] # "idle"
    /\ t \notin Docs => pc[t] # "off"

\* Seeded: every error is taken for one inside a rebuild.
OnAnyErrorAbort(t) == "abort"

\* Seeded: rebuild_all logs an error of its semantic half and carries on.
SemanticErrorSwallowed(t) ==
    CASE t \in Docs     -> "failed"
      [] t \in Rebuilds -> IF semanticLock = t THEN "stamp" ELSE "abort"
      [] t \in Searches -> "answered"

\* Where a failing `?` takes a thread: a rebuild still has to clear the flag.
OnError(t) ==
    CASE t \in Docs     -> "failed"
      [] t \in Rebuilds -> "abort"
      [] t \in Searches -> "answered"

-----------------------------------------------------------------------------
Init ==
    /\ store = {}
    /\ lexical = EmptyIndex
    /\ snapshot = NoSnapshot
    /\ writerLock = NoThread
    /\ semanticSet = FALSE
    /\ vectors = EmptyIndex
    /\ semanticLock = NoThread
    /\ rebuildGate = NoThread
    /\ rebuildInProgress = FALSE
    /\ lastRebuild = NoThread
    /\ persist = [d \in Docs |-> "idle"]
    /\ pc = [t \in Threads |-> "off"]
    /\ fetched = [r \in Rebuilds |-> {}]
    /\ loaded = [t \in Threads |-> EmptyIndex]
    /\ begin = [r \in Rebuilds |-> [stored |-> {}, over |-> {}]]
    /\ gap = NoThread
    /\ crashes = 0

-----------------------------------------------------------------------------
(* Calls that store a document.  ingest runs the update and the index sync *)
(* as two blocking tasks under tokio::join!; record_decision spawns the    *)
(* index sync only once the decision is in the graph.                      *)

\* Seeded: record_decision joins the two legs the way ingest does.
SyncBesideAll == Docs

\* The calls whose index sync runs beside the update.
SyncBesidePersist == Observations

Call(d) ==
    /\ persist[d] = "idle"
    /\ persist' = [persist EXCEPT ![d] = "running"]
    /\ Goto(d, IF d \in SyncBesidePersist THEN "lexWriter" ELSE "off")
    /\ UNCHANGED <<store, lexical, snapshot, locks, semanticSet, vectors,
                   rebuildInProgress, lastRebuild, fetched, loaded, history>>

PersistSucceeds(d) ==
    /\ persist[d] = "running"
    /\ store' = store \cup {d}
    /\ persist' = [persist EXCEPT ![d] = "done"]
    /\ IF d \in SyncBesidePersist THEN UNCHANGED pc ELSE Goto(d, "lexWriter")
    /\ UNCHANGED <<lexical, snapshot, locks, semanticSet, vectors,
                   rebuildInProgress, lastRebuild, fetched, loaded, history>>

\* The call returns Err; the sync task of an ingest runs on all the same.
PersistFails(d) ==
    /\ "persist" \in Faults
    /\ persist[d] = "running"
    /\ persist' = [persist EXCEPT ![d] = "failed"]
    /\ UNCHANGED <<durable, locks, semanticSet, vectors, rebuildInProgress,
                   lastRebuild, pc, fetched, loaded, history>>

-----------------------------------------------------------------------------
(* The lexical index.  Tantivy hands out one writer at a time and does not *)
(* wait for it: a second writer() is an error.                             *)

OpenWriter(t) ==
    /\ pc[t] = "lexWriter"
    /\ writerLock = NoThread
    /\ writerLock' = t
    /\ Goto(t, IF t \in Rebuilds THEN "lexObs" ELSE "commit")
    /\ UNCHANGED <<durable, semanticLock, rebuildGate, semanticSet, vectors,
                   rebuildInProgress, lastRebuild, persist, fetched, loaded,
                   history>>

WriterRefused(t) ==
    /\ pc[t] = "lexWriter"
    /\ writerLock # NoThread \/ "lexical" \in Faults
    /\ Goto(t, OnError(t))
    /\ UNCHANGED <<durable, locks, semanticSet, vectors, rebuildInProgress,
                   lastRebuild, persist, fetched, loaded, history>>

\* What follows the lexical half of a sync or of a rebuild.
AfterLexical(t) ==
    IF EmbeddingEnabled THEN "ensure"
    ELSE IF t \in Rebuilds THEN "stamp" ELSE "synced"

CommitAdd(d) ==
    /\ pc[d] = "commit"
    /\ lexical' = [lexical EXCEPT ![d] = @ + 1]
    /\ writerLock' = NoThread
    /\ Goto(d, AfterLexical(d))
    /\ UNCHANGED <<store, snapshot, semanticLock, rebuildGate, semanticSet,
                   vectors, rebuildInProgress, lastRebuild, persist, fetched,
                   loaded, history>>

\* Seeded: the rebuild commits what it fetched without having deleted.
AppendFetched(r) == [d \in Docs |-> lexical[d] + OneEntryEach(fetched[r])[d]]

\* delete_all_documents and the adds become visible in one commit.
RebuiltLexical(r) == OneEntryEach(fetched[r])

CommitRebuild(r) ==
    /\ pc[r] = "lexCommit"
    /\ lexical' = RebuiltLexical(r)
    /\ writerLock' = NoThread
    /\ Goto(r, AfterLexical(r))
    /\ UNCHANGED <<store, snapshot, semanticLock, rebuildGate, semanticSet,
                   vectors, rebuildInProgress, lastRebuild, persist, fetched,
                   loaded, history>>

\* A failed commit drops the writer; what was committed before stays.
CommitFails(t) ==
    /\ "lexical" \in Faults
    /\ pc[t] \in {"commit", "lexCommit"}
    /\ writerLock' = NoThread
    /\ Goto(t, OnError(t))
    /\ UNCHANGED <<durable, semanticLock, rebuildGate, semanticSet, vectors,
                   rebuildInProgress, lastRebuild, persist, fetched, loaded,
                   history>>

-----------------------------------------------------------------------------
(* ensure_semantic: build the index once, lazily, racing other callers to  *)
(* the OnceLock, then take its mutex.                                      *)

\* What SemanticIndex::new finds on disk; an unreadable file starts empty.
SnapshotOnDisk ==
    IF snapshot \in {NoSnapshot, Torn} THEN EmptyIndex ELSE snapshot

LoadSemantic(t) ==
    /\ pc[t] = "ensure"
    /\ ~semanticSet
    /\ loaded' = [loaded EXCEPT ![t] = SnapshotOnDisk]
    /\ Goto(t, "install")
    /\ UNCHANGED <<durable, locks, semanticSet, vectors, rebuildInProgress,
                   lastRebuild, persist, fetched, history>>

ModelFails(t) ==
    /\ "model" \in Faults
    /\ pc[t] = "ensure"
    /\ ~semanticSet
    /\ Goto(t, OnError(t))
    /\ UNCHANGED <<durable, locks, semanticSet, vectors, rebuildInProgress,
                   lastRebuild, persist, fetched, loaded, history>>

SemanticReady(t) ==
    /\ pc[t] = "ensure"
    /\ semanticSet
    /\ Goto(t, "semLock")
    /\ UNCHANGED <<durable, locks, semanticSet, vectors, rebuildInProgress,
                   lastRebuild, persist, fetched, loaded, history>>

\* Seeded: the loser of the race overwrites the cell.
LastOneWins(t) == loaded[t]

\* OnceLock::set keeps the value that is already there.
FirstOneWins(t) == IF semanticSet THEN vectors ELSE loaded[t]

InstallSemantic(t) ==
    /\ pc[t] = "install"
    /\ vectors' = FirstOneWins(t)
    /\ semanticSet' = TRUE
    /\ loaded' = [loaded EXCEPT ![t] = EmptyIndex]
    /\ Goto(t, "semLock")
    /\ UNCHANGED <<durable, locks, rebuildInProgress, lastRebuild, persist,
                   fetched, history>>

LockSemantic(t) ==
    /\ pc[t] = "semLock"
    /\ semanticLock = NoThread
    /\ semanticLock' = t
    /\ Goto(t, CASE t \in Docs     -> "embed"
                 [] t \in Rebuilds -> "semObs"
                 [] t \in Searches -> "read")
    /\ UNCHANGED <<durable, writerLock, rebuildGate, semanticSet, vectors,
                   rebuildInProgress, lastRebuild, persist, fetched, loaded,
                   history>>

-----------------------------------------------------------------------------
(* The semantic half of sync_observation, and semantic_search.             *)

AddVector(d) ==
    /\ pc[d] = "embed"
    /\ vectors' = [vectors EXCEPT ![d] = @ + 1]
    /\ semanticLock' = NoThread
    /\ Goto(d, "synced")
    /\ UNCHANGED <<durable, writerLock, rebuildGate, semanticSet,
                   rebuildInProgress, lastRebuild, persist, fetched, loaded,
                   history>>

\* Seeded: the error path leaves the mutex locked.
GuardLeaked(t) == t

\* The guard is a local of whoever embeds: it goes with the error.
GuardAfterError(t) == NoThread

AddVectorFails(d) ==
    /\ "embed" \in Faults
    /\ pc[d] = "embed"
    /\ semanticLock' = GuardAfterError(d)
    /\ Goto(d, OnError(d))
    /\ UNCHANGED <<durable, writerLock, rebuildGate, semanticSet, vectors,
                   rebuildInProgress, lastRebuild, persist, fetched, loaded,
                   history>>

\* Embedding disabled: an empty answer that never touches the index.
StartSearch(s) ==
    /\ pc[s] = "off"
    /\ Goto(s, IF EmbeddingEnabled THEN "ensure" ELSE "answered")
    /\ UNCHANGED <<durable, locks, semanticSet, vectors, rebuildInProgress,
                   lastRebuild, persist, fetched, loaded, history>>

Answer(s) ==
    /\ pc[s] = "read"
    /\ semanticLock' = NoThread
    /\ Goto(s, "answered")
    /\ UNCHANGED <<durable, writerLock, rebuildGate, semanticSet, vectors,
                   rebuildInProgress, lastRebuild, persist, fetched, loaded,
                   history>>

-----------------------------------------------------------------------------
(* rebuild_all: behind the gate, first the lexical index, then (with       *)
(* embeddings) the semantic one and its snapshot, then the time stamp.     *)

RequestRebuild(r) ==
    /\ pc[r] = "off"
    /\ Goto(r, "gate")
    /\ UNCHANGED <<durable, locks, semanticSet, vectors, rebuildInProgress,
                   lastRebuild, persist, fetched, loaded, history>>

\* lock() waits for the previous owner, who keeps it for a whole rebuild.
EnterRebuild(r) ==
    /\ pc[r] = "gate"
    /\ rebuildGate = NoThread
    /\ IF rebuildInProgress
       THEN /\ Goto(r, "err")
            /\ UNCHANGED <<rebuildGate, rebuildInProgress, begin>>
       ELSE /\ rebuildGate' = r
            /\ rebuildInProgress' = TRUE
            /\ Goto(r, "lexWriter")
            /\ begin' = [begin EXCEPT ![r] =
                            [stored |-> store, over |-> {d \in Docs : Over(d)}]]
    /\ UNCHANGED <<durable, writerLock, semanticLock, semanticSet, vectors,
                   lastRebuild, persist, fetched, loaded, gap, crashes>>

\* fetch_all asks for the observations first ...  A semantic rebuild has
\* cleared its vectors by then.
FetchObservations(r) ==
    /\ pc[r] \in {"lexObs", "semObs"}
    /\ fetched' = [fetched EXCEPT ![r] = store \cap Observations]
    /\ IF pc[r] = "semObs"
       THEN vectors' = EmptyIndex /\ gap' = r
       ELSE UNCHANGED <<vectors, gap>>
    /\ Goto(r, IF pc[r] = "semObs" THEN "semDec" ELSE "lexDec")
    /\ UNCHANGED <<durable, locks, semanticSet, rebuildInProgress, lastRebuild,
                   persist, loaded, begin, crashes>>

\* Seeded: the projection narrows to observations.
NoDecisions == {}

StoredDecisions == store \cap Decisions

\* ... and for the decisions in a second query, of a later store.
FetchDecisions(r) ==
    /\ pc[r] \in {"lexDec", "semDec"}
    /\ fetched' = [fetched EXCEPT ![r] = @ \cup StoredDecisions]
    /\ Goto(r, IF pc[r] = "semDec" THEN "embedAll" ELSE "lexCommit")
    /\ UNCHANGED <<durable, locks, semanticSet, vectors, rebuildInProgress,
                   lastRebuild, persist, loaded, history>>

\* The writer of a lexical rebuild is dropped uncommitted; a semantic
\* rebuild leaves its cleared vectors behind.
FetchFails(r) ==
    /\ "fetch" \in Faults
    /\ pc[r] \in {"lexObs", "lexDec", "semObs", "semDec"}
    /\ IF pc[r] \in {"lexObs", "lexDec"}
       THEN /\ writerLock' = NoThread
            /\ UNCHANGED <<semanticLock, vectors, gap>>
       ELSE /\ semanticLock' = NoThread
            /\ vectors' = EmptyIndex
            /\ gap' = r
            /\ UNCHANGED writerLock
    /\ Goto(r, OnError(r))
    /\ UNCHANGED <<durable, rebuildGate, semanticSet, rebuildInProgress,
                   lastRebuild, persist, fetched, loaded, begin, crashes>>

EmbedAll(r) ==
    /\ pc[r] = "embedAll"
    /\ vectors' = OneEntryEach(fetched[r])
    /\ gap' = NoThread
    /\ Goto(r, "snapshot")
    /\ UNCHANGED <<durable, locks, semanticSet, rebuildInProgress, lastRebuild,
                   persist, fetched, loaded, begin, crashes>>

\* The documents embedded before the one that failed stay.
EmbedAllFails(r) ==
    /\ "embed" \in Faults
    /\ pc[r] = "embedAll"
    /\ \E some \in SUBSET fetched[r] :
          /\ some # fetched[r]
          /\ vectors' = OneEntryEach(some)
    /\ semanticLock' = GuardAfterError(r)
    /\ Goto(r, OnError(r))
    /\ UNCHANGED <<durable, writerLock, rebuildGate, semanticSet,
                   rebuildInProgress, lastRebuild, persist, fetched, loaded,
                   history>>

\* Seeded: the guard is dropped before the snapshot is written.
UnlockBeforeSnapshot == NoThread

LockDuringSnapshot == semanticLock

\* fs::write truncates the file ...
TruncateSnapshot(r) ==
    /\ pc[r] = "snapshot"
    /\ snapshot' = Torn
    /\ semanticLock' = LockDuringSnapshot
    /\ Goto(r, "snapWrite")
    /\ UNCHANGED <<store, lexical, writerLock, rebuildGate, semanticSet,
                   vectors, rebuildInProgress, lastRebuild, persist, fetched,
                   loaded, history>>

\* ... and then writes it.
WriteSnapshot(r) ==
    /\ pc[r] = "snapWrite"
    /\ snapshot' = vectors
    /\ semanticLock' = NoThread
    /\ Goto(r, "stamp")
    /\ UNCHANGED <<store, lexical, writerLock, rebuildGate, semanticSet,
                   vectors, rebuildInProgress, lastRebuild, persist, fetched,
                   loaded, history>>

SnapshotFails(r) ==
    /\ "snapshot" \in Faults
    /\ pc[r] \in {"snapshot", "snapWrite"}
    /\ semanticLock' = NoThread
    /\ Goto(r, "abort")
    /\ UNCHANGED <<durable, writerLock, rebuildGate, semanticSet, vectors,
                   rebuildInProgress, lastRebuild, persist, fetched, loaded,
                   history>>

StampRebuild(r) ==
    /\ pc[r] = "stamp"
    /\ lastRebuild' = r
    /\ Goto(r, "stamped")
    /\ UNCHANGED <<durable, locks, semanticSet, vectors, rebuildInProgress,
                   persist, fetched, loaded, history>>

\* Seeded: an error leaves rebuild_all before the flag is cleared.
FlagKeptOnError(r) == pc[r] = "abort"

\* Every way out of the closure clears the flag.
FlagAfter(r) == FALSE

\* drop(guard) follows, on every way out.
GateAfter(r) == NoThread

LeaveRebuild(r) ==
    /\ pc[r] \in {"stamped", "abort"}
    /\ rebuildInProgress' = FlagAfter(r)
    /\ rebuildGate' = GateAfter(r)
    /\ Goto(r, IF pc[r] = "stamped" THEN "ok" ELSE "err")
    /\ UNCHANGED <<durable, writerLock, semanticLock, semanticSet, vectors,
                   lastRebuild, persist, fetched, loaded, history>>

-----------------------------------------------------------------------------
\* The process dies and is started again: threads, locks (Tantivy's is a
\* file lock of the process) and everything in memory are gone.
Crash ==
    /\ crashes < MaxCrashes
    /\ crashes' = crashes + 1
    /\ pc' = [t \in Threads |-> IF Running(t) THEN "killed" ELSE pc[t]]
    /\ persist' = [d \in Docs |-> IF persist[d] = "running" THEN "killed"
                                  ELSE persist[d]]
    /\ writerLock' = NoThread
    /\ semanticLock' = NoThread
    /\ rebuildGate' = NoThread
    /\ rebuildInProgress' = FALSE
    /\ lastRebuild' = NoThread
    /\ semanticSet' = FALSE
    /\ vectors' = EmptyIndex
    /\ fetched' = [r \in Rebuilds |-> {}]
    /\ loaded' = [t \in Threads |-> EmptyIndex]
    /\ gap' = NoThread
    /\ UNCHANGED <<durable, begin>>

\* Every call has been answered and no new one arrives.
Quiescent ==
    /\ \A t \in Threads : Ended(t)
    /\ UNCHANGED vars

-----------------------------------------------------------------------------
EnsureSemantic(t) ==
    \/ LoadSemantic(t)
    \/ ModelFails(t)
    \/ SemanticReady(t)
    \/ InstallSemantic(t)
    \/ LockSemantic(t)

StoreStep(d) == PersistSucceeds(d) \/ PersistFails(d)

SyncStep(d) ==
    \/ OpenWriter(d)
    \/ WriterRefused(d)
    \/ CommitAdd(d)
    \/ CommitFails(d)
    \/ EnsureSemantic(d)
    \/ AddVector(d)
    \/ AddVectorFails(d)

RebuildStep(r) ==
    \/ EnterRebuild(r)
    \/ OpenWriter(r)
    \/ WriterRefused(r)
    \/ FetchObservations(r)
    \/ FetchDecisions(r)
    \/ FetchFails(r)
    \/ CommitRebuild(r)
    \/ CommitFails(r)
    \/ EnsureSemantic(r)
    \/ EmbedAll(r)
    \/ EmbedAllFails(r)
    \/ TruncateSnapshot(r)
    \/ WriteSnapshot(r)
    \/ SnapshotFails(r)
    \/ StampRebuild(r)
    \/ LeaveRebuild(r)

SearchStep(s) == EnsureSemantic(s) \/ Answer(s)

Next ==
    \/ \E d \in Docs : Call(d) \/ StoreStep(d) \/ SyncStep(d)
    \/ \E r \in Rebuilds : RequestRebuild(r) \/ RebuildStep(r)
    \/ \E s \in Searches : StartSearch(s) \/ SearchStep(s)
    \/ Crash
    \/ Quiescent

Spec == Init /\ [][Next]_vars

\* Callers come and go as they like and nothing makes the process crash; what
\* has been started runs on a thread of tokio's blocking pool (or of the
\* runtime), which the operating system keeps scheduling.
Fairness ==
    /\ \A d \in Docs : WF_vars(StoreStep(d)) /\ WF_vars(SyncStep(d))
    /\ \A r \in Rebuilds : WF_vars(RebuildStep(r))
    /\ \A s \in Searches : WF_vars(SearchStep(s))

FairSpec == Spec /\ Fairness

-----------------------------------------------------------------------------
(* Properties.                                                             *)

TypeOK ==
    /\ store \subseteq Docs
    /\ lexical \in Indexes
    /\ snapshot \in Indexes \cup {NoSnapshot, Torn}
    /\ writerLock \in Docs \cup Rebuilds \cup {NoThread}
    /\ semanticSet \in BOOLEAN
    /\ vectors \in Indexes
    /\ semanticLock \in Threads \cup {NoThread}
    /\ rebuildGate \in Rebuilds \cup {NoThread}
    /\ rebuildInProgress \in BOOLEAN
    /\ lastRebuild \in Rebuilds \cup {NoThread}
    /\ persist \in [Docs -> PersistStates]
    /\ pc \in [Threads -> AddLabels \cup RebuildLabels \cup SearchLabels]
    /\ \A d \in Docs : pc[d] \in AddLabels
    /\ \A r \in Rebuilds : pc[r] \in RebuildLabels
    /\ \A s \in Searches : pc[s] \in SearchLabels
    /\ fetched \in [Rebuilds -> SUBSET Docs]
    /\ loaded \in [Threads -> Indexes]
    /\ begin \in [Rebuilds -> [stored : SUBSET Docs, over : SUBSET Docs]]
    /\ gap \in Rebuilds \cup {NoThread}
    /\ crashes \in Nat

\* The search index never shows a decision that is not in the graph: neither
\* index, the snapshot, nor an index still being loaded holds one, whatever
\* fails and whenever the process dies (record_decision stores, then indexes).
NoPhantomDecision ==
    \A d \in Decisions :
        (\/ lexical[d] > 0
         \/ vectors[d] > 0
         \/ snapshot \notin {NoSnapshot, Torn} /\ snapshot[d] > 0
         \/ \E t \in Threads : loaded[t][d] > 0) => d \in store

\* A decision that can be found lexically can be found for good: a rebuild
\* that began before it was stored, one that fails half way, a call whose
\* embedding fails and a crash all keep it, whatever became of its own call.
IndexedDecisionsStay ==
    [][\A d \in Decisions : lexical[d] > 0 => lexical'[d] > 0]_vars

\* While admin_status names a finished rebuild, every document that was in
\* the store when that rebuild began can be found lexically, although later
\* rebuilds, failing ones included, may have replaced the index since.
LastRebuildCovers ==
    lastRebuild # NoThread =>
        begin[lastRebuild].stored \subseteq DocsIn(lexical)

\* A rebuild that is about to report success has repaired what was settled
\* before it began: of a document whose call was over by then each index has
\* exactly one entry if it is stored and none if it is not (no duplicates, no
\* phantoms, nothing missing), whatever other calls did meanwhile.
RebuildRepairs ==
    \A r \in Rebuilds : pc[r] = "stamp" =>
        \A d \in begin[r].over :
            LET expected == IF d \in store THEN 1 ELSE 0
            IN  /\ lexical[d] = expected
                /\ EmbeddingEnabled => vectors[d] = expected

\* The semantic index has no commit: a rebuild clears it before it fetches, so
\* an error leaves it empty or half full.  Whoever gets at the vectors while
\* admin_status names a finished rebuild misses a document that was stored when
\* that one began only if a later rebuild has failed after its clear (and so
\* has told its caller); a race to load the index, an add and a failing
\* snapshot lose nothing.
SemanticGapsWereReported ==
    lastRebuild # NoThread /\ EmbeddingEnabled /\ semanticLock \notin Rebuilds =>
        \/ begin[lastRebuild].stored \subseteq DocsIn(vectors)
        \/ gap # NoThread /\ pc[gap] \in {"abort", "err"}

\* A readable snapshot is what one rebuild embedded: at most one entry per
\* document, although adds append to the very vectors it is taken from.
SnapshotHasNoDuplicates ==
    snapshot \notin {NoSnapshot, Torn} => \A d \in Docs : snapshot[d] <= 1

\* Adds append and rebuilds race with them, yet no document ever has more
\* than two entries in either index, so fusion counts it twice at most.
AtMostTwoEntries ==
    \A d \in Docs : lexical[d] <= 2 /\ vectors[d] <= 2

\* Whoever has the gate mutex free finds the flag cleared: the flag is true
\* only while its mutex is held, so nobody is ever refused by it, and each
\* lock has at most one thread inside its section.
LocksMatchThreads ==
    /\ rebuildInProgress <=> rebuildGate # NoThread
    /\ \A r \in Rebuilds : pc[r] \in GateHeld <=> rebuildGate = r
    /\ \A t \in Threads : pc[t] \in LexicalWriting <=> writerLock = t
    /\ \A t \in Threads : pc[t] \in SemanticHeld <=> semanticLock = t

\* Nothing but a rebuild takes vectors away, and a lost race to initialise
\* the OnceLock is harmless: what others have added since stays.
VectorsOnlyClearedByRebuild ==
    [][\A d \in Docs :
          vectors'[d] < vectors[d] =>
              \/ semanticLock \in Rebuilds
              \/ crashes' # crashes]_vars

\* Every call that was made is over eventually, every rebuild that was asked
\* for ends, every search is answered: no thread waits for a lock forever.
EveryThreadEnds ==
    /\ \A d \in Docs : persist[d] = "running" ~> Over(d)
    /\ \A r \in Rebuilds : pc[r] = "gate" ~> Ended(r)
    /\ \A s \in Searches : pc[s] = "ensure" ~> Ended(s)

\* The lexical index keeps the promise of MemoryIndex.
Lexical == INSTANCE MemoryIndex WITH index <- lexical
LexicalIsAProjection == Lexical!Spec

-----------------------------------------------------------------------------
(* What the comments of the code say of it and the code does not do.       *)

\* lexical/index.rs says of add that the document is committed at once "so it
\* becomes visible to subsequent searches": an observation whose call and
\* whose index sync both succeeded can be found.
AcknowledgedIsSearchable ==
    \A o \in Observations :
        persist[o] = "done" /\ pc[o] = "synced" => lexical[o] > 0
=============================================================================
