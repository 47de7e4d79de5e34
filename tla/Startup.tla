------------------------------- MODULE Startup -----------------------------
(***************************************************************************)
(* One machine on which the server is started, serves, dies and is started *)
(* again, possibly as a newer binary whose ontology no longer fits the     *)
(* stores on disk.  A start opens the store (clearing one that drifted),   *)
(* then the lexical index beside it, rebuilds if told to, opens the store  *)
(* again for the handler, spawns the download of the extraction model and  *)
(* serves.                                                                 *)
(*                                                                         *)
(* Source: src/main.rs, crates/zakhor-storage/src/tracker_db.rs,           *)
(* crates/zakhor-api/src/handler.rs (new_with_config),                     *)
(* crates/zakhor-model/src/model_setup.rs.  What calls do to the indexes   *)
(* while the server runs is IndexSync; here each leg of an ingestion, the  *)
(* graph's and the index's, happens or does not.  The id of a document is  *)
(* fresh in every call, so a document is given to the program once.        *)
(***************************************************************************)
EXTENDS Configuration

CONSTANTS
    Launches,    \* command lines and environments the server is started with
    Dirs,        \* database directories, "temp" is the one of --ephemeral
    Caches,      \* model cache directories
    Docs,        \* what may be stored
    Faults,      \* what may fail: a subset of FaultPoints
    MaxUpgrades  \* bound: installations of a binary with another ontology

FaultPoints == {"mkdir", "open", "remove", "index", "rebuild", "bind", "update",
                "sync", "download", "load"}

\* What the message of a failed open says: that the change "is not supported"
\* (Tracker's words for an ontology that no longer fits), or anything else.
Unsupported == "is not supported"
Messages == {Unsupported, "another error"}
NoError == "no error"

ASSUME LaunchesResolve ==
    \A l \in Launches : Source(l) # "missing" =>
        Resolve(l).dir \in Dirs /\ Resolve(l).gliner \in Caches
ASSUME LaunchFlags == \A l \in Launches : {l.ephemeral, l.rebuild} \subseteq BOOLEAN
ASSUME TempIsADir == "temp" \in Dirs
ASSUME FaultsKnown == Faults \subseteq FaultPoints
ASSUME UpgradesBounded == MaxUpgrades \in Nat

VARIABLES
    store,      \* store[d]: "none", "current", or "stale" after an upgrade
    docs,       \* docs[d]: documents in the graph
    lexical,    \* lexical[d]: "none", "dir" (created, no index in it), "open"
    indexed,    \* indexed[d]: documents in the lexical index
    cached,     \* cached[c]: model files that are completely downloaded
    upgrades,
    pc,         \* where main stands
    run,        \* what this start resolved to
    retried,    \* DID_ONTOLOGY_RETRY
    error,      \* message of the open that failed and is being looked at
    mainConn, handlerConn, \* directory a connection is open on
    manager,    \* an IndexSyncManager exists
    fetch,      \* where the background download stands
    extraction, \* OnceCell: "unset", "ready", "failed"
    model,      \* Mutex<Option<Inner>>: "none", "loaded", "poisoned"
    leftover,   \* history: directories whose store could be removed and whose
                \* index could not, until the index is rebuilt
    outcome     \* history: "new" until a document is given to the program, then
                \* whether the graph has taken it: "stored" or "refused"

disk    == <<store, docs, lexical, indexed, cached>>
conns   == <<mainConn, handlerConn>>
process == <<pc, run, retried, error, mainConn, handlerConn, manager>>
extract == <<fetch, extraction, model>>
history == <<leftover, outcome>>
vars    == <<disk, upgrades, process, extract, history>>

RequiredFiles == {"model.onnx", "tokenizer.json"}

NoRun == [dir |-> "temp", models |-> NoPath, gliner |-> NoPath,
          ephemeral |-> FALSE, rebuild |-> FALSE]

Init ==
    /\ store = [d \in Dirs |-> "none"]
    /\ docs = [d \in Dirs |-> {}]
    /\ lexical = [d \in Dirs |-> "none"]
    /\ indexed = [d \in Dirs |-> {}]
    /\ cached = [c \in Caches |-> {}]
    /\ upgrades = 0
    /\ pc = "off"
    /\ run = NoRun
    /\ retried = FALSE
    /\ error = NoError
    /\ mainConn = NoPath
    /\ handlerConn = NoPath
    /\ manager = FALSE
    /\ fetch = "off"
    /\ extraction = "unset"
    /\ model = "none"
    /\ leftover = {}
    /\ outcome = [x \in Docs |-> "new"]

\* The process is gone: what it kept in memory is, too.
Die ==
    /\ pc' = "off"
    /\ run' = NoRun
    /\ retried' = FALSE
    /\ error' = NoError
    /\ mainConn' = NoPath
    /\ handlerConn' = NoPath
    /\ manager' = FALSE
    /\ fetch' = "off"
    /\ extraction' = "unset"
    /\ model' = "none"

Here == run.dir

-----------------------------------------------------------------------------
(* main: configuration and directory.                                      *)

RefuseConfig(l) ==
    /\ pc = "off"
    /\ Source(l) = "missing"
    /\ Die
    /\ UNCHANGED <<disk, upgrades, history>>

\* Seeded: only the store's own files are removed.
StoreFilesRemoved(d, left) ==
    /\ store' = [store EXCEPT ![d] = IF "store" \in left THEN @ ELSE "none"]
    /\ docs' = [docs EXCEPT ![d] = IF "store" \in left THEN @ ELSE {}]
    /\ UNCHANGED <<lexical, indexed, leftover>>

\* remove_dir_all, whose error is ignored: what is left of the directory.
Removed(d, left) ==
    /\ store' = [store EXCEPT ![d] = IF "store" \in left THEN @ ELSE "none"]
    /\ docs' = [docs EXCEPT ![d] = IF "store" \in left THEN @ ELSE {}]
    /\ lexical' = [lexical EXCEPT ![d] = IF "index" \in left THEN @ ELSE "none"]
    /\ indexed' = [indexed EXCEPT ![d] = IF "index" \in left THEN @ ELSE {}]
    /\ leftover' = IF left = {"index"} THEN leftover \cup {d}
                   ELSE IF "index" \in left THEN leftover ELSE leftover \ {d}

MayRemain == IF "remove" \in Faults THEN SUBSET {"store", "index"} ELSE {{}}

BeginStart(l) ==
    /\ pc = "off"
    /\ Source(l) # "missing"
    /\ run' = Resolve(l)
    /\ IF l.ephemeral
       THEN pc' = "mkdir" /\ \E left \in MayRemain : Removed("temp", left)
       ELSE pc' = "open" /\ UNCHANGED <<store, docs, lexical, indexed, leftover>>
    /\ UNCHANGED <<cached, upgrades, retried, error, conns, manager, extract, outcome>>

\* create_dir_all of the temporary directory; here an error is not ignored.
MakeTempDir ==
    /\ pc = "mkdir"
    /\ pc' = "open"
    /\ UNCHANGED <<disk, upgrades, run, retried, error, conns, manager, extract, history>>

NoTempDir ==
    /\ pc = "mkdir"
    /\ "mkdir" \in Faults
    /\ Die
    /\ UNCHANGED <<disk, upgrades, history>>

-----------------------------------------------------------------------------
(* init_db, called by main ("open") and by new_with_config ("open again"). *)

Opening == pc \in {"open", "open again"}

Opened ==
    /\ store[Here] # "stale"
    /\ error = NoError
    /\ store' = [store EXCEPT ![Here] = "current"]
    /\ UNCHANGED <<docs, lexical, indexed, cached, upgrades, run, retried, error,
                   manager, extraction, model, history>>

\* At once, or after ClearStore; it is main's turn until main has a connection.
OpenForMain ==
    /\ pc \in {"open", "reopen"}
    /\ mainConn = NoPath
    /\ Opened
    /\ mainConn' = Here
    /\ pc' = "manager"
    /\ UNCHANGED <<handlerConn, fetch>>

OpenForHandler ==
    /\ pc \in {"open again", "reopen"}
    /\ mainConn # NoPath
    /\ Opened
    /\ handlerConn' = Here
    /\ fetch' = "look"
    /\ pc' = "bind"
    /\ UNCHANGED mainConn

\* Tracker refuses a stale store in its own words; an open that fails for
\* another reason may happen to use the same words.
OpenError ==
    /\ Opening
    /\ error = NoError
    /\ error' \in {m \in Messages : \/ store[Here] = "stale" /\ m = Unsupported
                                    \/ "open" \in Faults}
    /\ UNCHANGED <<disk, upgrades, pc, run, retried, conns, manager, extract, history>>

\* Seeded: every error of the open counts as drift.
AnyErrorClears == Opening /\ error # NoError /\ ~retried

\* The message is all that init_db looks at, and it does so once per process.
Drifted == Opening /\ error = Unsupported /\ ~retried

DetectDrift ==
    /\ Drifted
    /\ retried' = TRUE
    /\ pc' = "clear"
    /\ UNCHANGED <<disk, upgrades, run, error, conns, manager, extract, history>>

ClearStore ==
    /\ pc = "clear"
    /\ \E left \in MayRemain : Removed(Here, left)
    /\ error' = NoError
    /\ pc' = "reopen"
    /\ UNCHANGED <<cached, upgrades, run, retried, conns, manager, extract, outcome>>

\* Another error, drift after the retry, or a store that did not go away.
OpenPanics ==
    /\ \/ Opening /\ error # NoError /\ ~Drifted
       \/ pc = "reopen" /\ (store[Here] = "stale" \/ "open" \in Faults)
    /\ Die
    /\ UNCHANGED <<disk, upgrades, history>>

-----------------------------------------------------------------------------
(* IndexSyncManager::new and --rebuild-indexes.                            *)

AfterManager == IF run.rebuild THEN "rebuild" ELSE "open again"

ManagerReady ==
    /\ manager' = TRUE
    /\ pc' = AfterManager

OpenIndex ==
    /\ pc = "manager"
    /\ lexical[Here] = "open"
    /\ ManagerReady
    /\ UNCHANGED <<disk, upgrades, run, retried, error, conns, extract, history>>

\* The directory first, the index in it next.
MakeIndexDir ==
    /\ pc = "manager"
    /\ lexical[Here] = "none"
    /\ lexical' = [lexical EXCEPT ![Here] = "dir"]
    /\ pc' = "create index"
    /\ UNCHANGED <<store, docs, indexed, cached, upgrades, run, retried, error, conns,
                   manager, extract, history>>

CreateIndex ==
    /\ pc = "create index"
    /\ lexical' = [lexical EXCEPT ![Here] = "open"]
    /\ ManagerReady
    /\ UNCHANGED <<store, docs, indexed, cached, upgrades, run, retried, error, conns,
                   extract, history>>

\* A directory without an index cannot be opened; creating one may fail.
IndexUnusable ==
    \/ pc = "manager" /\ lexical[Here] = "dir"
    \/ pc \in {"manager", "create index"} /\ "index" \in Faults

ServeWithoutIndexes ==
    /\ IndexUnusable
    /\ ~run.rebuild
    /\ pc' = "open again"
    /\ UNCHANGED <<disk, upgrades, run, retried, error, conns, manager, extract, history>>

IndexErrorEndsStart ==
    /\ IndexUnusable
    /\ run.rebuild
    /\ Die
    /\ UNCHANGED <<disk, upgrades, history>>

RebuildIndex ==
    /\ indexed' = [indexed EXCEPT ![Here] = docs[Here]]
    /\ leftover' = leftover \ {Here}

\* Seeded: a failed rebuild is logged and the start goes on.
RebuildWarned ==
    /\ pc = "rebuild"
    /\ \/ RebuildIndex
       \/ "rebuild" \in Faults /\ UNCHANGED <<indexed, leftover>>
    /\ pc' = "open again"
    /\ UNCHANGED <<store, docs, lexical, cached, upgrades, run, retried, error, conns,
                   manager, extract, outcome>>

RebuildAtStart ==
    /\ pc = "rebuild"
    /\ RebuildIndex
    /\ pc' = "open again"
    /\ UNCHANGED <<store, docs, lexical, cached, upgrades, run, retried, error, conns,
                   manager, extract, outcome>>

\* The lexical half may have been committed when the semantic one fails.
RebuildEndsStart ==
    /\ pc = "rebuild"
    /\ "rebuild" \in Faults
    /\ RebuildIndex \/ UNCHANGED <<indexed, leftover>>
    /\ Die
    /\ UNCHANGED <<store, docs, lexical, cached, upgrades, outcome>>

-----------------------------------------------------------------------------
(* Serving.                                                                *)

\* serve_combined binds the address, then serves until it is killed.
Serve ==
    /\ pc = "bind"
    /\ pc' = "serve"
    /\ UNCHANGED <<disk, upgrades, run, retried, error, conns, manager, extract, history>>

BindFails ==
    /\ pc = "bind"
    /\ "bind" \in Faults
    /\ Die
    /\ UNCHANGED <<disk, upgrades, history>>

\* An ingestion has two legs that run beside each other: the update, through
\* the handler's connection, and the index sync, which needs a manager and works
\* on the directory of the configuration and fails if that was cleared under it.
Legs == IF manager /\ lexical[Here] = "open" THEN {"update", "sync"} ELSE {"update"}

Ingested(x, done) ==
    /\ pc = "serve"
    /\ outcome[x] = "new"
    /\ outcome' = [outcome EXCEPT ![x] = IF "update" \in done THEN "stored" ELSE "refused"]
    /\ docs' = IF "update" \in done
               THEN [docs EXCEPT ![handlerConn] = @ \cup {x}] ELSE docs
    /\ indexed' = IF "sync" \in done
                  THEN [indexed EXCEPT ![Here] = @ \cup {x}] ELSE indexed
    /\ UNCHANGED <<store, lexical, cached, upgrades, leftover>>

\* Each leg may fail, and the other one is not undone.
StoreDocument(x) ==
    /\ \E failed \in SUBSET (Legs \cap Faults) : Ingested(x, Legs \ failed)
    /\ UNCHANGED <<process, extract>>

\* The process is killed while the legs run.
KilledStoring(x) == Die /\ \E done \in SUBSET Legs : Ingested(x, done)

-----------------------------------------------------------------------------
(* The extraction model: resolved in the background, loaded by the first   *)
(* call that needs it.                                                     *)

\* OnceCell::set, once per process.
Settle(result) ==
    /\ fetch' = "done"
    /\ extraction' = result
    /\ UNCHANGED <<disk, upgrades, process, model, history>>

\* Seeded: any file in the cache will do.
SomeFileCached == cached[run.gliner] # {}

\* find_cached_model: a snapshot directory with all required files.
ModelCached == RequiredFiles \subseteq cached[run.gliner]

FindCached ==
    /\ fetch = "look"
    /\ ModelCached
    /\ Settle("ready")

StartDownload ==
    /\ fetch = "look"
    /\ ~ModelCached
    /\ fetch' = "model.onnx"
    /\ UNCHANGED <<disk, upgrades, process, extraction, model, history>>

Keep(file) == cached' = [cached EXCEPT ![run.gliner] = @ \cup {file}]

GetModel ==
    /\ fetch = "model.onnx"
    /\ Keep("model.onnx")
    /\ fetch' = "tokenizer.json"
    /\ UNCHANGED <<store, docs, lexical, indexed, upgrades, process, extraction,
                   model, history>>

GetTokenizer ==
    /\ fetch = "tokenizer.json"
    /\ Keep("tokenizer.json")
    /\ fetch' = "done"
    /\ extraction' = "ready"
    /\ UNCHANGED <<store, docs, lexical, indexed, upgrades, process, model, history>>

\* Seeded: the error is logged, and the cell stays empty.
DownloadForgotten ==
    /\ fetch \in {"look", "model.onnx", "tokenizer.json"}
    /\ "download" \in Faults
    /\ fetch' = "done"
    /\ UNCHANGED <<disk, upgrades, process, extraction, model, history>>

\* No directory, no client, no network: the cell gets the error for good.
DownloadFails ==
    /\ fetch \in {"look", "model.onnx", "tokenizer.json"}
    /\ "download" \in Faults
    /\ Settle("failed")

\* get_or_init_model, under the mutex; a failed load leaves nothing behind and
\* is tried again by the next call, a panic poisons the mutex.
LoadModel ==
    /\ pc = "serve"
    /\ extraction = "ready"
    /\ model = "none"
    /\ \/ model' = "loaded"
       \/ "load" \in Faults /\ model' \in {"none", "poisoned"}
    /\ UNCHANGED <<disk, upgrades, process, fetch, extraction, history>>

-----------------------------------------------------------------------------
(* The machine.                                                            *)

\* Killed, or the client closed standard input.
Stop ==
    /\ pc # "off"
    /\ Die
    /\ UNCHANGED <<disk, upgrades, history>>

\* A binary whose ontology changes a domain or a range.
Upgrade ==
    /\ pc = "off"
    /\ upgrades < MaxUpgrades
    /\ upgrades' = upgrades + 1
    /\ store' = [d \in Dirs |-> IF store[d] = "current" THEN "stale" ELSE store[d]]
    /\ UNCHANGED <<docs, lexical, indexed, cached, process, extract, history>>

StartStep ==
    \/ MakeTempDir \/ NoTempDir
    \/ OpenForMain \/ OpenForHandler \/ OpenError \/ DetectDrift \/ ClearStore \/ OpenPanics
    \/ OpenIndex \/ MakeIndexDir \/ CreateIndex
    \/ ServeWithoutIndexes \/ IndexErrorEndsStart
    \/ RebuildAtStart \/ RebuildEndsStart
    \/ Serve \/ BindFails

FetchStep == FindCached \/ StartDownload \/ GetModel \/ GetTokenizer \/ DownloadFails

Next ==
    \/ \E l \in Launches : RefuseConfig(l) \/ BeginStart(l)
    \/ StartStep
    \/ FetchStep
    \/ \E x \in Docs : StoreDocument(x) \/ KilledStoring(x)
    \/ LoadModel
    \/ Stop
    \/ Upgrade

Spec == Init /\ [][Next]_vars

\* A start goes on by itself, and so does the download it has spawned; that
\* anyone starts, stops or upgrades the program, or calls it, is not assumed.
FairSpec == Spec /\ WF_vars(StartStep) /\ WF_vars(FetchStep)

-----------------------------------------------------------------------------
(* Properties.                                                             *)

MainLabels == {"off", "mkdir", "open", "clear", "reopen", "manager", "create index",
               "rebuild", "open again", "bind", "serve"}

\* Types of all variables; main's connection is open once the first init_db is
\* past, and the cell is filled exactly when the download is over.
TypeOK ==
    /\ store \in [Dirs -> {"none", "current", "stale"}]
    /\ docs \in [Dirs -> SUBSET Docs]
    /\ lexical \in [Dirs -> {"none", "dir", "open"}]
    /\ indexed \in [Dirs -> SUBSET Docs]
    /\ cached \in [Caches -> SUBSET RequiredFiles]
    /\ upgrades \in 0..MaxUpgrades
    /\ pc \in MainLabels
    /\ run.dir \in Dirs
    /\ pc # "off" => run.gliner \in Caches
    /\ run.rebuild \in BOOLEAN /\ run.ephemeral \in BOOLEAN
    /\ retried \in BOOLEAN
    /\ error \in Messages \cup {NoError}
    /\ mainConn \in Dirs \cup {NoPath} /\ handlerConn \in Dirs \cup {NoPath}
    /\ manager \in BOOLEAN
    /\ fetch \in {"off", "look", "model.onnx", "tokenizer.json", "done"}
    /\ extraction \in {"unset", "ready", "failed"}
    /\ model \in {"none", "loaded", "poisoned"}
    /\ pc \notin {"off", "mkdir", "open", "clear", "reopen"} => mainConn = Here
    /\ fetch = "done" <=> extraction # "unset"
    /\ leftover \subseteq Dirs
    /\ outcome \in [Docs -> {"new", "stored", "refused"}]

\* A directory loses documents only when Tracker has refused to open it with the
\* words that init_db takes for ontology drift, or when it is the temporary one
\* of a start with --ephemeral: init_db may delete the whole directory, and must
\* not do so for any other error, nor for a second one in the same process.
OnlyDriftLosesDocuments ==
    [][\A d \in Dirs : ~(docs[d] \subseteq docs'[d]) =>
          \/ error = Unsupported /\ run.dir = d /\ pc = "clear"
          \/ d = "temp" /\ run'.ephemeral]_vars

\* A start with --ephemeral leaves every directory but its temporary one as it
\* is, whatever --db-path, the environment and zakhor.toml say: two places call
\* init_db, and two more keep the directory for the indexes.
EphemeralLeavesTheRestAlone ==
    [][pc # "off" /\ run.ephemeral =>
          \A d \in Dirs \ {"temp"} :
              /\ store'[d] = store[d] /\ docs'[d] = docs[d]
              /\ lexical'[d] = lexical[d] /\ indexed'[d] = indexed[d]]_vars

\* A start with --rebuild-indexes that gets as far as serving serves an index of
\* exactly the documents in the store that its tools write to: the rebuild reads
\* through main's connection, before the handler opens its own.  (Should that
\* second open clear the directory, the rebuilt index goes, wholly or in part.)
RebuiltStartServesTheGraph ==
    [][Serve /\ run.rebuild /\ lexical[Here] = "open" /\ Here \notin leftover
          => manager /\ indexed[Here] = docs[handlerConn]]_vars

\* The cell says "ready" only if both model files are completely in the cache,
\* although the download can stop between the two and a later start looks into
\* the same cache before it downloads.
ReadyMeansComplete ==
    extraction = "ready" \/ model = "loaded" => RequiredFiles \subseteq cached[run.gliner]

\* A document that the graph has taken and lost again with its store can be
\* found in no index: entries outlive it only where the removal of the directory
\* failed half way, and there only until a start rebuilds the index.  (A document
\* the graph refused may be indexed all the same; nothing here denies that.)
IndexGoesWithTheStore ==
    \A d \in Dirs \ leftover : \A x \in indexed[d] :
        outcome[x] = "stored" => x \in docs[d]

\* Every process that serves comes to know whether it can extract: an error of
\* the background download has to reach the cell that the tools look into.
ExtractionSettles == [](pc = "serve" => <>(pc = "off" \/ extraction # "unset"))
=============================================================================
