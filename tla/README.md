# Verification of zakhor

zakhor is a memory server: agents store observations and decisions in a graph
(GNOME Tracker), group them by project, and search them through two indexes
derived from the graph.  This directory holds TLA+ models of the program from
its start to the answers it gives, TLC configurations that check them on small
instances, and TLAPS proofs for arbitrary ones.

Paths below are relative to `src/crates/` unless they start with `src/`.

## 1. Inventory of the system

| Component | Where | State | Operations |
|---|---|---|---|
| Index synchronisation | `zakhor-search`, `zakhor-model/src/ingest.rs`, `zakhor-api/src/tools/record_decision.rs` | Tracker graph, Tantivy index, in-memory vectors and `vectors.bin`, writer lock, `Mutex<SemanticIndex>` in a `OnceLock` | store an observation, record a decision, rebuild, search |
| Rebuild gate | `zakhor-search/src/sync/manager.rs`, `zakhor-api/src/api/admin.rs`, `zakhor-api/src/tools/rebuild_indexes.rs` | `Mutex<bool>` `rebuild_in_progress`, time of the last rebuild | MCP tool, `POST /admin/rebuild-indexes`, `GET /admin/status`, `--rebuild-indexes` |
| Project and repository registry | `zakhor-api/src/project.rs` | nodes with type, label and comment; `belongsTo` edges | create, link, list |
| Decision lifecycle | `zakhor-model/src/decision/model.rs` | status and relation edges of decisions | create, supersede, query by status |
| Background maintenance | `zakhor-model/src/background.rs`, `ranking/core.rs` | importance scores, tombstones | hourly ranking refresh, daily cleanup |
| Tool call capture | `zakhor-api/src/tool_capture.rs` | call nodes | capture, link to a decision |
| Ingestion preparation | `zakhor-model/src/pipeline.rs`, `sparql_builder.rs`, `provenance.rs` | provenance tracked by a pipeline | validate, resolve, build, persist, track |
| Entity resolution and extraction | `zakhor-model/src/entity_resolver`, `extraction`, `model_setup.rs` | model files in a cache, the loaded model | resolve a label, extract entities and relations, download and load the model |
| Code index | `zakhor-code` | nodes of containers and symbols | create both, list containers |
| Graph traversal | `zakhor-api/src/handler.rs`, `tools/traverse_graph.rs`, `api/graph.rs` | locals of a call | breadth-first search with a cap of triples |
| REST read API | `zakhor-api/src/api`, `project.rs` | locals of a call | lists with pages and totals, detail pages |
| Hybrid search | `zakhor-api/src/tools/mod.rs`, `tools/search_hybrid.rs`, `api/search.rs` | none | reciprocal rank fusion, search modes |
| Storage and startup | `zakhor-storage`, `src/src/main.rs` | the database directory, the retry flag, two connections | open, clear after ontology drift, rebuild, serve |
| Common | `zakhor-common` | none | configuration layers, look-up of directories |
| Web interface, build script | `src/ui`, `src/build.rs` | none | views, OpenAPI document |

How they interact.  A start resolves its configuration, opens the store, makes
the index manager beside it, opens the store again for the handler and spawns the
download of the extraction model.  Every tool call is an asynchronous handler
that moves its work to tokio's blocking pool, so calls of different clients
interleave between any two statements they send to Tracker.
`IngestionPipeline::ingest` starts the graph update and the index sync *together*
and joins them; `record_decision` updates the graph first and indexes
afterwards.  A rebuild reads the graph (in several queries) and replaces both
indexes.  The REST admin handlers call the same manager, but on tokio's
*workers*.  A background task refreshes scores and marks superseded decisions.
Readers take one query per node, page or part of a page.  The indexes live next
to the database in the same directory.

The hard behaviours are therefore: the races between an update, its index sync
and a rebuild; failures half way through a two-part operation; a process that
dies between two of them, or in the middle of its start; std mutexes that are
waited for on runtime threads; check-then-act sequences of SPARQL statements;
reads of several queries while others write.  `PROJECT.json` lists each under
"hazards" at the line where it bites.

What makes each component correct:

- *Index synchronisation*: nothing is shown that is not stored; what is stored
  and indexed stays findable; a rebuild repairs; entries do not accumulate.
- *Rebuild gate*: rebuilds are serial and every request is answered.
- *Registry*: a caller gets a node of the name asked for, repeating a call adds
  nothing, a call fails only for a reason.
- *Ingestion*: an observation is stored whole or not at all, and the provenance
  kept of it is what was stored.
- *Decisions and maintenance*: only superseded decisions get a tombstone, and the
  scores settle on those of the graph.
- *Traversal, lists, details*: what is returned was there, and complete unless
  the answer says "truncated".
- *Hybrid search*: what both indexes rank higher comes first.
- *Startup*: documents are lost only with a store that drifted, an index does not
  outlive its documents, "ready" means ready, and `--ephemeral` touches nothing
  of the user's.

## 2. Modules

| Module | Role |
|---|---|
| `IndexSync` | graph, both indexes, snapshot, and the four kinds of threads that touch them |
| `MemoryIndex` | abstract: what the lexical index promises; `IndexSync` implements it with `index <- lexical` |
| `IndexSync_proofs`, `IndexSyncRebuild_proofs` | theorems about `IndexSync` |
| `RebuildGate` | who may start a rebuild, on which threads |
| `RebuildQueue` | abstract: rebuilds run one at a time; `RebuildGate` implements it with a phase computed from `pc` |
| `RebuildGate_proofs` | theorems about `RebuildGate` |
| `ProjectRegistry` | create and link, one SPARQL statement per step |
| `ProjectRegistry_proofs` | theorems about `ProjectRegistry` |
| `Configuration` | pure: files, layers and directories that a command line resolves to |
| `Startup` | a machine on which the program is started, upgraded and killed; extends `Configuration` |
| `Startup_proofs` | theorems about `Startup` |
| `KnowledgeGraph` | pure: what each statement of the program adds to, replaces in or selects from a graph |
| `Extraction` | pure: from spans to entities and relations, from labels to nodes |
| `GraphWriters` | all calls that write, and the background worker; extends the two above |
| `MemoryGraph` | abstract: calls add all they say at once, decisions go one way; `GraphWriters` implements it with views of its graph |
| `GraphWriters_proofs`, `GraphWritersMemory_proofs` | theorems about `GraphWriters`; that it implements `MemoryGraph` |
| `Queries` | all calls that read, between the writers of `GraphWriters`, which it extends |
| `Queries_proofs` | theorems about `Queries` |
| `HybridSearch` | pure: what a search makes of two rankings |
| `MCIndexSync`, `MCRebuildGate`, `MCProjectRegistry`, `MCStartup`, `MCGraphWriters`, `MCQueries` | constants and symmetry for TLC; the last three also check the pure operators against reference definitions (their `ASSUME`s) |

The models meet at the places where the code does: `IndexSync` starts where
`GraphWriters`' persist stage does (stage 4 has two halves, one in each),
`Startup` sums up in one step (`StoreDocument`, `KilledStoring`) what the two legs
of an ingestion, which `IndexSync` takes apart, leave behind, `RebuildGate` is `IndexSync`'s gate seen from its callers, and
`Queries` reads the graph that `GraphWriters` writes.

Operators whose comment begins with "Seeded:" belong to no specification.  Each
is a plausible mistake in the definition after it, and shows that the property
it is paired with under "mutants" in `PROJECT.json` would notice.

### IndexSync

A document is its id, and a call is a thread named after its document, since
every call makes a fresh id (`urn:uuid`).  The variables follow the fields of
`IndexSyncManager`, `LexicalIndex` and `SemanticIndex`:

| Variable | Code |
|---|---|
| `store` | the Tracker graph |
| `lexical`, `writerLock` | committed Tantivy entries; Tantivy's exclusive writer |
| `semanticSet`, `vectors`, `semanticLock` | `OnceLock<Mutex<SemanticIndex>>`, its vectors, its owner |
| `snapshot` | `vectors.bin`: absent, torn, or an index |
| `rebuildGate`, `rebuildInProgress`, `lastRebuild` | the mutex, the flag behind it, `last_rebuild_finished_at_ms` |
| `persist`, `pc` | the two legs of a call; where a thread stands |
| `fetched`, `loaded` | locals of `fetch_all` and of `ensure_semantic` |
| `begin`, `gap`, `crashes` | history: what a rebuild found when it began, which rebuild cleared the vectors last and has not filled them; bound |

An index counts entries per document, so duplicates can be seen.  Steps are cut
where other threads can get in between: at every SPARQL query, at every lock,
at a commit, before and after the `OnceLock` is set, between the truncation and
the write of the snapshot.  An action that a failure can end differently has a
sibling (`CommitAdd`/`CommitFails`, `EmbedAll`/`EmbedAllFails`, ...), and the
constant `Faults` says which ones are on.  `Crash` kills all threads and keeps
`store`, `lexical` and `snapshot`.

The lexical index has a commit and the semantic one has none: a rebuild clears
the vectors under their mutex before it fetches, and an error leaves them empty
or half full, with the mutex free.  So no property says that a search sees a
whole semantic index; it would be false.  `SemanticGapsWereReported` says what
is true: a hole is the work of a rebuild that has told its caller.

Left out: the text of a document (a blank decision would be left out of a
rebuild by `rebuild.rs:131`, and alternatives are read in a query of their own),
ranking inside an index, panics inside a sync, and the mode in which no
`IndexSyncManager` could be made.  A document added while a lexical rebuild
holds the writer is refused with an error, as in Tantivy (`LockBusy`).

### RebuildGate

The same gate seen from its callers.  `onWorker` is the set of requests whose
code occupies a tokio worker: POST and GET handlers, and the rebuild that a
POST spawns, which runs on a worker although it blocks.  `poisoned` is set by a
panic inside a rebuild.  Two std mutexes are waited for, the gate and the
semantic index (`semantic_len` in the status handler).

Two branches of the code turn out to be dead, and the model shows it:
`rebuild_all` keeps the guard for its whole length, so nobody can find the flag
set with the mutex free, unless the mutex is poisoned.  The early `Err` and the
answer 409 are never given to a caller that meets a running rebuild
(section 5).

### ProjectRegistry

`create_project` is lookup by label, probes of slug candidates, insert;
`link_to_project` is probe, insert.  Each statement is a step.  `Candidates` maps
a name to the URIs it will try, as any function at all, so that shared slugs and
names whose slug is another name's suffixed slug are covered; the theorems hold
for every such function.  `StoreEntity` is what `store_observation` does
meanwhile to nodes under URIs of its caller's choice.  `create_repository` and
`link_to_repository` are the same code over another class and prefix.

Tracker is external and modelled from how the code uses it: a statement is
atomic, and an insert that would give a single-valued property a second value is
rejected as a whole.  So of two concurrent creates with different descriptions
one can be answered with an error.  The range of `belongsToProject` is the class of
projects (`migrations.rs:104`); whether Tracker accepts an edge to a missing target, or to
a node of another class, is not visible in this code, so both answers are possible.

A link that its own check turns away ends `"refused"` ("no such node in the
graph"), one that the update fails ends `"err"`: the code words the two differently,
and the first one is not always true (`registry_probe`).

### Startup and Configuration

`Configuration` follows a command line to what the program runs with: the file
that is found (an explicit one must exist), the layers (defaults, file,
`ZAKHOR_*`) and the model caches.  Settings that nothing else depends on are left
out.  Loading that fails - a file that does not parse, a `ZAKHOR_HTTP_PORT` that
is no port - falls back to the defaults and two variables; the whole file and
`ZAKHOR_MODELS_CACHE_DIR` are dropped (`defaults.rs:108`, `:133`).

`Startup` runs `main` stage by stage (`pc`), on the disk that earlier starts have
left:

| Variable | Code |
|---|---|
| `store`, `docs` | the database of a directory ("stale" after an upgrade changed the ontology) and its documents |
| `lexical`, `indexed` | `lexical-index` below it: absent, a directory without an index, an index |
| `cached`, `fetch`, `extraction`, `model` | model files, the spawned download, the `OnceCell`, `Mutex<Option<Inner>>` |
| `retried`, `error` | `DID_ONTOLOGY_RETRY`; the message of the failed open, which `init_db` searches for "is not supported" |
| `mainConn`, `handlerConn`, `manager` | connections of `main` and of the handler; the sync manager |
| `upgrades`, `leftover`, `outcome` | bound; history: directories half removed, and whether the graph took a document |

A document is given to the program once, under a fresh id.  Either leg of its
ingestion may fail without the other being undone, and the process may be killed
with any of them done, so the index can hold a document the graph has refused;
`IndexGoesWithTheStore` is about those the graph has taken.

An open that fails for another reason may use Tracker's words for drift, and is
then treated as drift: what `OnlyDriftLosesDocuments` allows depends on the words.

`Stop` ends the process at any point; `Upgrade` installs a binary with another
ontology.  Every stage has its failure as a sibling.  `ClearStore` is
`remove_dir_all`, whose result is ignored, so any part may remain.  One process
at a time is assumed.

What the model shows beside its properties: a process that dies between
`create_dir_all` and `create_in_dir` leaves an index directory that no later
start can open; such a start serves without indexes, or ends if it was told to
rebuild (`IndexUnusable`).

### KnowledgeGraph, Extraction and GraphWriters

A graph is a set of triples; an object is tagged as a node or as one of the kinds
of literals, because the code writes some literals with a language and compares
others without.  `KnowledgeGraph` has one operator per statement of the program,
`GraphWriters` one action per step of the calls that send them:

| Variable | Code |
|---|---|
| `graph` | the Tracker graph |
| `pc`, `prepared`, `tracked` | where a call stands; its observation after stages 1 to 3; `ProvenanceTracker` |
| `worker` | `BackgroundWorker`: the rows of a tick, and what it has counted |
| `faults` | bound: statements that fail for no visible reason |

Tracker is external: a statement is atomic, and is refused when it uses an
undeclared property or gives a single-valued one a second value (`Accepts`).
`Ontology` is what the program's own migrations declare, with the standard
properties it uses.  Two constants keep open what the code does not decide:
whether `"superseded"` equals `"superseded"@en` in a query (`TagsMatter`), and
what is declared (`Declared`, classes and properties).

One thing must be said of the checks below.  The program's ontology
(`migrations.rs:47-130`) declares neither `graphImportance` nor `tombstone`, so
over a store that refuses undeclared properties no score is ever written and no
decision ever marked.  That is the run `graph_writers_ontology`.  The passing
runs `graph_writers` and `queries` are over the *hypothetical* schema in which
both are declared, and with tags that do not matter: only there does the worker do
anything that could go wrong.  That every superseded decision is marked in
the end is not claimed.

An observation or a decision is named by a random identifier (`urn:uuid`) made
when it is stored.  So a call can only speak of another call's node once that
node is in the graph (`Makes`), and nothing that earlier runs left is about
it (`IdentifiersAreNew`).  Apart from that a client may relate any nodes by any
property, a status, a score or `hasEntity` included: `newtypes.rs` checks that
these are IRIs and no more.  Two properties are written by replacing their values
(`Replaced`); the properties below say of each triple whether it is one of those.

The provenance of an observation is built by a function of its own
(`ProvenanceTriples`) as untyped strings; it is compared with what was written
after the types have been taken off (`Bare`).

The stages of an ingestion are actions because others write in between.
`RecordDecision`, `Supersede`, the captures and the code index send one statement
each, through `Execute`.  The worker reads, then writes row by row, and each
write can be refused or fail.  The cleanup keeps its cursor open while it marks, so
below its LIMIT it may come upon rows that were not there when it began
(`CursorSees`), and any of its updates may fail because of the cursor, which
`project.rs:122` warns of.  `rank_search_results`, `EntityResolver` and the
code index are called by no tool; they are operators or actions here because they
are part of the library.

### Queries and HybridSearch

A reader makes one call out of a set of about forty: a traversal, a list whose
pages are turned, a detail page, or one of the calls that take one query.  `at`
and `walk` are its place in the call, `answer` what it has so far.  `since` and
`ever` are history: the triples that were there all along, and those that were
there at some time.  Properties of reads are stated with these two, since no
state of the graph need agree with an answer that took several queries.  The
definitions of `GraphWriters` keep their names, so those of the composition are
`QueriesInit`, `QueriesNext`, `QueriesSpec` and `QueriesTypeOK`.

The reference of a traversal is stated with paths (`Paths`, `Ball`), that of a
page with the place of each row in the store's order (`Rank`), neither with
recursion, so that both can be reasoned about.  An observation is complete if it
is shown with its text and every entity that it was stored with, although a
client may have related further entities to it between the two queries.

Which rows come before a cap or a LIMIT is the store's choice.  A traversal of
depth one is a single query whose branches return each row twice, so that the cap
cuts at half (`Copies`).  Names that begin with the program's own prefix
are expanded (`Memory`), which includes schema classes and excludes the
`urn:uuid` of observations and decisions.  Comments say that the schema is not
walked, so `WalksAreComplete` does not ask for it: its reference (`MemoryFacts`)
takes no path through a declared class or property.  Two or more edge types, be
they the same, make a filter that is no SPARQL (`Understood`).

The total of observations counts every `InformationElement`, the page shows only those
with an identifier and a text (`Counted`, `Listed`).  A store that does not know a
class of the query refuses it; which handlers answer that with an empty list and
which with an error is in `ListedDecisions`, `AskOnce` and `ReadReferences`.  A page
is a set of nodes: a node with two identifiers or texts, which the code would list
in two rows, is one row of the model.

`HybridSearch` has the fusion and the two entry points as operators; the rankings
themselves come from Tantivy and the embedding library.

## 3. Runs

The runs take from a few seconds to a little over two minutes on two cores.  "Fails"
runs check one property that a comment or test of the repository states and the code
does not keep; `PROJECT.json` quotes the line under "findings".

| Run | Instance | Shows |
|---|---|---|
| `index_sync_faults` | 1 observation, 1 decision, 2 rebuilds, all faults, 1 crash | the safety properties, that holes in the semantic index were reported, and the refinement of `MemoryIndex` |
| `index_sync_liveness` | 1 observation, 2 rebuilds, 1 search; the model and embeddings may fail | the `OnceLock` race loses nothing, everything ends |
| `index_sync_acknowledged` | 1 observation, 1 rebuild | fails: a stored and indexed observation is erased by a concurrent rebuild |
| `rebuild_gate` | 2 POSTs, 2 tools, 1 probe, 1 worker, panics | serial rebuilds, acceptance only when idle, no deadlock of the only worker |
| `startup` | 5 command lines, 2 directories, 1 document, 1 upgrade, all faults, stops anywhere | what a start may delete, what it serves and what it leaves half done |
| `graph_writers` | 2 observations that disagree about a node, 1 supersede, 1 of 8 other calls, the worker, 1 fault, both undeclared properties declared | calls take effect at once (`MemoryGraph`), observations are whole, tombstones are deserved, scores settle |
| `graph_writers_ontology` | 1 observation, the worker, the program's own ontology | fails: the worker never writes a score |
| `queries` | 1 reader, 1 observation, 1 decision, and 1 supersede or what a client says of an observation meanwhile, 1 fault | what a traversal, a list or a detail page may miss |
| `queries_decision` | a decision is opened, the program's own ontology | fails: the call is an error for every decision |
| `registry` | 2 creates, 3 names, 1 link, 1 entity, all faults | names, URIs and reasons of failures, what a link connects; every call, the suffix loop included, ends |
| `registry_probe` | 1 create, 1 link, a failing probe | fails: a link is refused although its subject is there |
| `registry_duplicate` | 2 creates | fails: two projects of one name |

Bounds.  The races of `IndexSync` need one document between its two legs and a
rebuild on either side of it: one that is too early and one that repairs or
destroys.  Hence two rebuilds; a second document is needed only where
observations and decisions are treated differently.  `MaxCrashes = 1` lets a
crash fall between any two steps, and what it leaves is a start with an old
store.  `RebuildGate` is checked with the fewest workers, one, where blocking it
hurts most; handlers still overlap in the queue, and the tools, which have
threads of their own, race for the gate.  The theorems cover any number of
workers.  In `ProjectRegistry` two of the names share a slug and the third one's slug is their
second candidate, where the entity may be, too; `MaxSuffix` (3) is more than the two
nodes that the other create and the entity can put in the way of a call, so no call
ever runs into it (TLC would report the deadlock).  `LinkEnds` has the one link from
that second candidate to the first: its subject is the entity, a project or
missing, its target a project or missing.  `EntityUris` and `MaxEntities` bound what other
tools store.  Embeddings are on in all runs; the theorems cover both settings.
Symmetry is used only in runs without liveness properties.

In `Startup` nothing but the number of upgrades is bounded: the program may be
started and killed for ever.  One upgrade makes a store stale once, and the second
`init_db`, the retry and any later start meet what is left.  The command lines
are those that disagree about the directory.  In `GraphWriters`, `Batch = 1` with
two superseded decisions makes the LIMIT of the cleanup bite, and one fault lets
each statement fail once; the two observations give one node two labels, so that
the later one is refused.  `Queries` has one reader because readers do not affect
each other; its `MaxTriples = 11` lets the larger walks reach the cap and the
smaller stay below it, `MaxPage` and `MaxRelated` (2 and 1) make every
list longer than a page and every LIMIT cut.  The background worker is left out
of this composition to keep it small; like `Supersede`, it only adds and replaces
literals of nodes that exist.

Fairness.  Calls, starts and rebuilds arrive or not as clients like, crashes and
faults are never fair, and nothing is assumed of an unfinished read of a client.
What has been started is weakly fair: in `IndexSync`, `RebuildGate` and
`ProjectRegistry` per thread, since it runs on a thread of the blocking pool or
of the runtime and the operating system schedules it; in `Startup` for `main` and
for the spawned download; in `GraphWriters` for the tick that the worker is in.
The two timers of the worker are strongly fair: tokio's intervals do not lose
ticks, and `select!` takes a random one of those that are due, so each comes
round however often the other one does.  No call of `GraphWriters` owes anyone
its end.  Waiting for a lock needs no more than weak fairness in the instances,
since each thread holds each lock a bounded number of times.  Std mutexes promise
no order, and none is assumed.  In `ProjectRegistry` no call owes its end to a
failing statement: only steps without a fault are fair.

## 4. Proofs

TLAPS proves, for any sets of calls and readers, any store to begin with, any
faults and any number of crashes:

- `IndexSync_proofs`: types, locks, no phantom decisions, snapshots without
  duplicates, at most two entries.
- `IndexSyncRebuild_proofs`: that `IndexSync` implements `MemoryIndex`; no step
  takes a decision out of the lexical index; only rebuilds clear vectors; finished
  rebuilds cover; rebuilds repair; holes in the semantic index were reported.
- `RebuildGate_proofs`: types, acceptance only when idle, and that `RebuildGate`
  implements `RebuildQueue`.
- `ProjectRegistry_proofs`: every invariant of its passing run, and that a failed
  probe is the only cause of the violation of the other one
  (`RefusalsNeedAFailedProbe`).
- `Startup_proofs`: every safety property of its run, for any command lines,
  files, directories, documents and upgrades.
- `GraphWriters_proofs`: types, provenance, tombstones; that no step loses a
  triple whose values are not replaced (`NothingIsLost`), and that no decision is
  both active and superseded (`DecisionsHaveOneStatus`).
- `GraphWritersMemory_proofs`: that `GraphWriters` implements `MemoryGraph`.
- `Queries_proofs`: types and the cap of a traversal, complete traversals,
  complete lists, whole observations, for any number of readers beside any
  writers.

With these every safety property of every passing run is a theorem.

The arguments.

*IndexSync.*  The invariant `IInv` adds to the checked properties what the
threads know.  `CallOrder` says that a decision's sync starts only after its
update has succeeded, so a decision in flight is stored.  `Sourced` says that
what a rebuild has fetched is stored; with it `NoPhantomDecision` is inductive
over indexes, snapshot and half-loaded indexes.  That an indexed
decision stays needs more: a rebuild about to commit must have fetched it.  `CommitKeepsDecisions`
supplies it: a lexical rebuild past its fetch has every decision that is in the
index, because the writer lock kept all adds out since the fetch began and an
indexed decision was stored before.  `SemanticFirst`, `SingleEntries` and
`AddedOnce` count entries: a call adds once, a rebuild writes at most one, and so
two is the most there can be.

*Rebuilds.*  `CoverInv` and `RepairInv` carry the history variable `begin`
through a rebuild: what was stored when it entered the gate is in what it
fetches, and a document whose call was over by then has no thread left to
disturb it.  `SemanticInv` does the same for the vectors, as long as `gap` names
nobody or a rebuild that is on its way to an error.  The gate makes the argument local to one rebuild.

*RebuildGate.*  `GateOK` ties the flag, the poisoning and the owner together:
the flag is set exactly while the gate has an owner, or for good after a panic.
The refinement to `RebuildQueue` then needs one case per action.

*ProjectRegistry.*  Nothing deletes, so the graph only grows (`StepGrows`), and
what a call has seen stays true: `KnownStays`, `SubjectChecked` and, for the
suffixes, `NoNeedlessSuffix` itself.  `InsertsFree` says that the URI about to
be inserted is still free unless another write came between or the probe failed,
and `NodesOnly` that a free URI has no label to collide with; together they give
`FailsForAReason`.

*Startup.*  `WhoTouchesDocuments` reduces the properties to four actions: of all
steps only the beginning of an `--ephemeral` start, `ClearStore`, an ingestion
(`Ingested`) and a rebuild change documents or what is indexed.  `Typed` adds to the
types that the handler's connection is on `main`'s directory (`HandlerOpen`), so a
document and its index entry go to the same place, and that nothing is fetched
before (`NothingFetched`).  `StartInv` says what `main` knows between its stages:
an `--ephemeral` run is in the temporary directory, and what is about to be cleared
was refused in the words of drift, although the flag behind it
is process-wide and `init_db` runs twice.  `RebuiltIsWhole` follows a rebuilding
start past its rebuild, and `FilesInv` with `HalfDownloaded` the download.

*GraphWriters.*  None of the properties is inductive: what a step may do
depends on what other calls have not done yet and on what the worker has read.
`IInv` says both.  `OpenUnwritten`: until a call has stored what is named after
it, no triple is about it; it rests on new identifiers and on `NamesKnown`, that
an observation in flight is about nodes that are not new or are in the graph
already.  So a decision gets its first status when it has none
(`OneStatus`), and what a refused call says is nowhere.  `WorkerKnows`: what the
worker has selected and not yet dealt with is still labelled, or still
superseded, which is what makes its late writes harmless.  One relation,
`Changes`, covers all updates: what is not replaced stays, superseded stays
superseded, a tombstone is deserved when it is put.  Each statement of the program
is shown once to be such a change, and each part of the invariant to survive
one; `NothingIsLost` comes with it.

*MemoryGraph.*  A graph is seen through four views: `Facts`, `Decided`,
`Passed`, `Marked`.  Of each update one lemma says what it does to the views:
an insert adds its own, superseding moves one decided node, a score cannot be
seen, a tombstone marks.  A call takes effect when its one statement is executed;
the stages before and after it are stutters, a failure before it is a refusal.
`PreparedAdmissible` carries through the stages that what is about to be stored
was said by a call with a text, and with labels if a model was asked.

*Queries.*  `QueriesInv` extends `IInv` by what a reader knows at each place of
its call (`Knows`), in terms of `since` and `ever`: one only shrinks while others
write and the other only grows.  A traversal (`WalkKnows`): after some hops the
nodes met include every node within that many steps over triples that were there
all along, none outside the ball over triples that ever were, and the rows so far
are around the nodes already queried.  A list (`ListKnows`): every row that was
listed all along has been read, or is at or after the next offset, since
what is stored in between only moves it further back (`Ahead`, counting with
`Rank`).  A detail page (`ObservationKnows`): between its two queries, what its call has
stored is there as a whole, which is `WrittenAndTracked` of the writers.
`GraphSorted` makes all counts finite.

Assumptions are the named `ASSUME`s of each module.  The kinds of calls are
disjoint, the sentinels are no values, the bounds are numbers, every candidate
is a URI, and every command line that is accepted resolves to a known directory
and has Boolean flags.  Of `GraphWriters`: what earlier runs left satisfies
what this one promises (`EarlierRuns`: known properties, one status, tombstones on
superseded decisions), identifiers are new (`IdentifiersAreNew`), and a batch is
not empty.  Of `Queries`: requests are of the types their parser makes
(`ReadsAreTyped`), limits are not zero, the store sorts any names it holds
(`OrderIsTotal`), and a call says finitely many things (`CallsAreFinite`).
Nothing is assumed of what clients say.

Only model-checked: the liveness properties (`EveryThreadEnds`,
`EveryRequestEnds`, `CallsEnd`, `ExtractionSettles`, `RankingSettles`), because fairness and ENABLED are beyond the prover; the
facts about pure operators in the MC modules, over small inputs, because most
speak of sequences that are filtered, sorted or summed, which needs induction
over data; and the violated properties, for which TLC gives the traces.  The
finiteness of what the pure functions of `Extraction` return is assumed in
`CallsAreFinite` for the same reason.

## 5. Disagreements that have no run

The five runs that fail show one disagreement each.  The following came up
on the way; several have the same cause as one of the five.  No passing run
depends on the code's side of them unless it is said here.

- `manager.rs:105` says that `rebuild_all` "returns immediately with `Err`" when
  one is running, and `POST /admin/rebuild-indexes` has an answer 409 for it.
  Both wait for the mutex instead (`admin.rs:37`, `:47`).
- An ingestion whose update fails can leave its entry in the indexes, since
  both legs run to their end.
- A sync adds without deleting, although `sync_observation` is said to add or
  update: with a rebuild in between, a document has two entries, and
  the fusion of a hybrid search counts both (`RepeatsOvertake` in `MCQueries`).
- A rebuild that succeeds can leave the two indexes with different documents,
  since it fetches once for each of them.
- A relation's predicate is a property that no ontology declares, so over a store
  that refuses those an observation with a relation is refused as a whole.
- Two persons in one text share one node, named by the class of the span
  (`zakhor-model/src/extraction/pipeline.rs:199`), and the second label is refused.  The index sync
  of such an observation still runs.
- Resolving replaces the nodes of entities and not those of relations
  (`pipeline.rs:155`); no caller configures a resolver.
- The cleanup has no age check although its comment speaks of 30 days
  (`background.rs:93`).
- Schema classes such as `zakhor:Entity` are expanded by a traversal although
  comments (`handler.rs:145-149`, `tools/mod.rs:165-171`), the tool's description
  (`tools/traverse_graph.rs:15`) and a test name say not; observations and decisions
  are never expanded.  `WalksAreComplete` allows the rows this adds, does not ask for
  them, and therefore neither confirms nor refutes those comments.
- A list of decisions with status "active" includes superseded ones, and with any
  other status is empty, against `api/decisions/mod.rs:69`.  `PagesMissNothing` is
  about the rows the query selects and does not look at their status.  With an entity
  given, the list of observations is empty.
- The total of observations counts what no page shows once a client types a node
  `InformationElement` (`api/observations/mod.rs:111-114` against `83-89`), so
  `PagesMissNothing` bounds the total for decisions only.
- `zakhor:tombstone` is not declared (section 2), so no decision is ever marked.
- A total is counted before its page is read, so a client that stops at the
  total instead of at a short page can miss what was stored in between.

## 6. Plan

Done: all modules of section 2, and the proofs of all safety properties.  Next:

1. `RebuildFetch`: documents with parts (alternatives, blank text) as a
   refinement of the fetch of `IndexSync`, for the one hazard that no property
   covers.
2. Theorems about the pure operators that need no induction: the layers of
   `Configuration`, the tiers of `Extraction`.

## 7. Not modelled

- The text that is indexed: a blank decision is left out of a rebuild
  (`rebuild.rs:131`), and alternatives are read in a query of their own.
- Panics inside a sync; two processes on one directory.
- Ranking inside an index, inference and embedding: numbers from libraries.
- SPARQL text, escaping and the constants of the vocabulary: matters of text.
- What nothing calls: `with_retry`, `ToolCallIndex` (a third index of the shape of
  `LexicalIndex`), `flush_to_sparql`, the registration of aliases.
- Endpoints that answer a constant (the provenance and entities of a decision,
  the code API), health, routing and the gating of tools in `handler.rs`.
- The web interface and the build script: they keep no state of the system.
