--------------------------- MODULE Startup_proofs ---------------------------
(***************************************************************************)
(* Theorems about Startup, for any command lines, files, directories and   *)
(* documents, any faults and any number of upgrades.                       *)
(***************************************************************************)
EXTENDS Startup, TLAPS

\* The handler's connection is open on main's directory once init_db is past.
HandlerOpen == pc \in {"bind", "serve"} => handlerConn = Here

\* Until the handler's init_db is past, nothing is known of the extraction model.
NothingFetched ==
    pc \notin {"bind", "serve"} => fetch = "off" /\ extraction = "unset" /\ model = "none"

\* Main's connection, once there, is open on the directory of this start.
MainOpen == mainConn # NoPath => pc \notin {"off", "mkdir", "open"} /\ mainConn = Here

Typed == TypeOK /\ HandlerOpen /\ NothingFetched /\ MainOpen

\* What outlives the process.
DiskTyped ==
    /\ store \in [Dirs -> {"none", "current", "stale"}]
    /\ docs \in [Dirs -> SUBSET Docs]
    /\ lexical \in [Dirs -> {"none", "dir", "open"}]
    /\ indexed \in [Dirs -> SUBSET Docs]
    /\ cached \in [Caches -> SUBSET RequiredFiles]
    /\ upgrades \in 0..MaxUpgrades
    /\ leftover \subseteq Dirs
    /\ outcome \in [Docs -> {"new", "stored", "refused"}]

\* What removing a directory leaves is a directory.
LEMMA RemovedTypes ==
    ASSUME TypeOK, NEW d \in Dirs, NEW left, Removed(d, left)
    PROVE  /\ store' \in [Dirs -> {"none", "current", "stale"}]
           /\ docs' \in [Dirs -> SUBSET Docs]
           /\ lexical' \in [Dirs -> {"none", "dir", "open"}]
           /\ indexed' \in [Dirs -> SUBSET Docs]
           /\ leftover' \subseteq Dirs
  BY DEF TypeOK, Removed

\* A launch resolves to a directory, a cache and flags.
LEMMA ResolvedTypes ==
    ASSUME NEW l \in Launches, Source(l) # "missing"
    PROVE  /\ Resolve(l).dir \in Dirs
           /\ Resolve(l).gliner \in Caches
           /\ Resolve(l).rebuild \in BOOLEAN
           /\ Resolve(l).ephemeral \in BOOLEAN
           /\ Resolve(l).ephemeral => Resolve(l).dir = "temp"
           /\ Resolve(l).ephemeral = l.ephemeral
<1>1. Resolve(l).dir \in Dirs /\ Resolve(l).gliner \in Caches
  BY LaunchesResolve
<1>2. Resolve(l).rebuild = l.rebuild /\ Resolve(l).ephemeral = l.ephemeral
  BY DEF Resolve
<1>3. Resolve(l).dir = DatabaseDir(l)
  BY DEF Resolve
<1>4. l.ephemeral => DatabaseDir(l) = "temp"
  BY DEF DatabaseDir
<1> QED
  BY <1>1, <1>2, <1>3, <1>4, LaunchFlags

\* A process that dies ends typed, whatever it was doing.
LEMMA DeathIsTyped ==
    ASSUME Die, DiskTyped'
    PROVE  Typed'
  BY TempIsADir DEF Typed, TypeOK, DiskTyped, HandlerOpen, NothingFetched, MainOpen, Die, NoRun,
                    Here, MainLabels

\* Most deaths leave the disk as it is.
LEMMA QuietDeathIsTyped ==
    ASSUME Typed, Die, UNCHANGED <<disk, upgrades, history>>
    PROVE  Typed'
<1>1. DiskTyped'
  BY DEF Typed, TypeOK, DiskTyped, disk, history
<1> QED
  BY <1>1, DeathIsTyped

\* An ingestion, whichever legs of it are done, keeps the types of the disk.
LEMMA IngestionIsTyped ==
    ASSUME Typed, NEW x \in Docs, NEW done, Ingested(x, done)
    PROVE  DiskTyped'
<1>1. handlerConn = Here /\ Here \in Dirs
  BY DEF Typed, TypeOK, HandlerOpen, Ingested, Here
<1> QED
  BY <1>1 DEF Typed, TypeOK, DiskTyped, Ingested

\* A step that leaves the process alone is typed if what it does to the disk is.
LEMMA SameProcessIsTyped ==
    ASSUME Typed, UNCHANGED <<process, extract>>, DiskTyped'
    PROVE  Typed'
<1>1. UNCHANGED <<pc, run, retried, error, mainConn, handlerConn, manager>>
  BY DEF process
<1>2. UNCHANGED <<fetch, extraction, model>>
  BY DEF extract
<1>3. /\ pc' \in MainLabels /\ Here' \in Dirs
      /\ pc' # "off" => run'.gliner \in Caches
      /\ {retried, manager, run.rebuild, run.ephemeral}' \subseteq BOOLEAN
  BY <1>1 DEF Typed, TypeOK, Here
<1>4. /\ mainConn' \in Dirs \cup {NoPath} /\ handlerConn' \in Dirs \cup {NoPath}
      /\ pc' \notin {"off", "mkdir", "open", "clear", "reopen"} => mainConn' = Here'
      /\ error' \in Messages \cup {NoError}
  BY <1>1 DEF Typed, TypeOK, Here
<1>5. /\ fetch' \in {"off", "look", "model.onnx", "tokenizer.json", "done"}
      /\ extraction' \in {"unset", "ready", "failed"}
      /\ model' \in {"none", "loaded", "poisoned"}
      /\ fetch' = "done" <=> extraction' # "unset"
  BY <1>2 DEF Typed, TypeOK
<1>6. TypeOK'
  BY <1>3, <1>4, <1>5 DEF TypeOK, DiskTyped, Here
<1>7. HandlerOpen' /\ NothingFetched' /\ MainOpen'
  BY <1>1, <1>2 DEF Typed, HandlerOpen, NothingFetched, MainOpen, Here
<1> QED
  BY <1>6, <1>7 DEF Typed

LEMMA TypedStep == Typed /\ [Next]_vars => Typed'
<1> SUFFICES ASSUME Typed, [Next]_vars PROVE Typed'
  OBVIOUS
<1> USE DEF Typed, TypeOK, HandlerOpen, NothingFetched, MainOpen, MainLabels, Here, disk,
            conns, process, extract, history
<1>1. ASSUME NEW l \in Launches, RefuseConfig(l) PROVE Typed'
  BY <1>1, QuietDeathIsTyped DEF RefuseConfig
<1>2. ASSUME NEW l \in Launches, BeginStart(l) PROVE Typed'
  <2>1. run'.dir \in Dirs /\ run'.gliner \in Caches /\ run'.rebuild \in BOOLEAN
        /\ run'.ephemeral \in BOOLEAN
    BY <1>2, ResolvedTypes DEF BeginStart
  <2>2. /\ store' \in [Dirs -> {"none", "current", "stale"}]
        /\ docs' \in [Dirs -> SUBSET Docs]
        /\ lexical' \in [Dirs -> {"none", "dir", "open"}]
        /\ indexed' \in [Dirs -> SUBSET Docs]
        /\ leftover' \subseteq Dirs
        /\ pc' \in {"mkdir", "open"}
    <3>1. CASE l.ephemeral
      BY <3>1, <1>2, RemovedTypes, TempIsADir DEF BeginStart
    <3>2. CASE ~l.ephemeral
      BY <3>2, <1>2 DEF BeginStart
    <3> QED
      BY <3>1, <3>2
  <2> QED
    BY <1>2, <2>1, <2>2 DEF BeginStart, Typed
<1>3. ASSUME OpenForMain PROVE Typed'
  BY <1>3 DEF OpenForMain, Opened
<1>4. ASSUME OpenForHandler PROVE Typed'
  BY <1>4 DEF OpenForHandler, Opened
<1>5. ASSUME DetectDrift PROVE Typed'
  BY <1>5 DEF DetectDrift, Drifted, Opening, Messages
<1>6. ASSUME ClearStore PROVE Typed'
  <2>1. PICK left \in MayRemain : Removed(Here, left)
    BY <1>6 DEF ClearStore
  <2> QED
    BY <1>6, <2>1, RemovedTypes DEF ClearStore
<1>7. ASSUME OpenPanics PROVE Typed'
  BY <1>7, QuietDeathIsTyped DEF OpenPanics
<1>8. ASSUME OpenIndex PROVE Typed'
  BY <1>8 DEF OpenIndex, ManagerReady, AfterManager
<1>9. ASSUME MakeIndexDir PROVE Typed'
  BY <1>9 DEF MakeIndexDir
<1>10. ASSUME CreateIndex PROVE Typed'
  BY <1>10 DEF CreateIndex, ManagerReady, AfterManager
<1>11. ASSUME ServeWithoutIndexes PROVE Typed'
  BY <1>11 DEF ServeWithoutIndexes, IndexUnusable
<1>12. ASSUME IndexErrorEndsStart PROVE Typed'
  BY <1>12, QuietDeathIsTyped DEF IndexErrorEndsStart
<1>13. ASSUME RebuildAtStart PROVE Typed'
  BY <1>13 DEF RebuildAtStart, RebuildIndex
<1>14. ASSUME RebuildEndsStart PROVE Typed'
  <2>1. indexed' \in [Dirs -> SUBSET Docs] /\ leftover' \subseteq Dirs
    BY <1>14 DEF RebuildEndsStart, RebuildIndex
  <2>2. DiskTyped'
    BY <1>14, <2>1 DEF RebuildEndsStart, DiskTyped
  <2> QED
    BY <1>14, <2>2, DeathIsTyped DEF RebuildEndsStart
<1>15. ASSUME Serve PROVE Typed'
  BY <1>15 DEF Serve
<1>16. ASSUME BindFails PROVE Typed'
  BY <1>16, QuietDeathIsTyped DEF BindFails
<1>17. ASSUME NEW x \in Docs, StoreDocument(x) PROVE Typed'
  <2>1. PICK done : Ingested(x, done)
    BY <1>17 DEF StoreDocument
  <2>2. DiskTyped'
    BY <2>1, IngestionIsTyped
  <2> QED
    BY <1>17, <2>2, SameProcessIsTyped DEF StoreDocument
<1>18. ASSUME FindCached \/ StartDownload \/ DownloadFails PROVE Typed'
  BY <1>18 DEF FindCached, StartDownload, DownloadFails, Settle
<1>19. ASSUME GetModel \/ GetTokenizer PROVE Typed'
  <2>1. run.gliner \in Caches /\ pc \in {"bind", "serve"}
    BY <1>19 DEF GetModel, GetTokenizer
  <2>2. PICK file \in RequiredFiles : Keep(file)
    BY <1>19 DEF GetModel, GetTokenizer, RequiredFiles
  <2>3. cached' \in [Caches -> SUBSET RequiredFiles]
    BY <2>1, <2>2 DEF Keep
  <2>4. CASE GetModel
    BY <2>1, <2>3, <2>4 DEF GetModel
  <2>5. CASE GetTokenizer
    BY <2>1, <2>3, <2>5 DEF GetTokenizer
  <2> QED
    BY <1>19, <2>4, <2>5
<1>20. ASSUME LoadModel PROVE Typed'
  BY <1>20 DEF LoadModel
<1>21. ASSUME Stop PROVE Typed'
  BY <1>21, QuietDeathIsTyped DEF Stop
<1>22. ASSUME Upgrade PROVE Typed'
  BY <1>22, UpgradesBounded DEF Upgrade
<1>24. ASSUME MakeTempDir PROVE Typed'
  BY <1>24 DEF MakeTempDir
<1>25. ASSUME NoTempDir PROVE Typed'
  BY <1>25, QuietDeathIsTyped DEF NoTempDir
<1>26. ASSUME OpenError PROVE Typed'
  BY <1>26 DEF OpenError, Opening
<1>27. ASSUME NEW x \in Docs, KilledStoring(x) PROVE Typed'
  <2>1. PICK done : Ingested(x, done)
    BY <1>27 DEF KilledStoring
  <2> QED
    BY <1>27, <2>1, IngestionIsTyped, DeathIsTyped DEF KilledStoring
<1>23. ASSUME UNCHANGED vars PROVE Typed'
  <2>1. UNCHANGED <<process, extract>>
    BY <1>23 DEF vars
  <2>2. DiskTyped'
    BY <1>23 DEF vars, DiskTyped
  <2> QED
    BY <2>1, <2>2, SameProcessIsTyped
<1> QED
  BY <1>1, <1>2, <1>3, <1>4, <1>5, <1>6, <1>7, <1>8, <1>9, <1>10, <1>11, <1>12, <1>13,
     <1>14, <1>15, <1>16, <1>17, <1>18, <1>19, <1>20, <1>21, <1>22, <1>23, <1>24, <1>25,
     <1>26, <1>27 DEF Next, StartStep, FetchStep

LEMMA AlwaysTyped == Spec => []Typed
<1>1. ASSUME Init PROVE Typed
  <2> USE <1>1 DEF Init
  <2>1. upgrades \in 0..MaxUpgrades
    BY UpgradesBounded
  <2>2. run.dir \in Dirs /\ run.rebuild \in BOOLEAN /\ run.ephemeral \in BOOLEAN
    BY TempIsADir DEF NoRun
  <2>3. TypeOK
    BY <2>1, <2>2 DEF TypeOK, MainLabels
  <2> QED
    BY <1>1, <2>3 DEF Typed, HandlerOpen, NothingFetched, MainOpen
<1> QED
  BY <1>1, TypedStep, PTL DEF Spec

\* Types: every variable of a machine that starts, serves and dies keeps its type.
THEOREM TypeCorrect == Spec => []TypeOK
<1>1. Typed => TypeOK
  BY DEF Typed
<1> QED
  BY <1>1, AlwaysTyped, PTL

-----------------------------------------------------------------------------
(* Documents and indexes.                                                  *)

\* Five kinds of steps touch documents or indexes; no other does.
LEMMA WhoTouchesDocuments ==
    [Next]_vars =>
        \/ \E l \in Launches : /\ BeginStart(l) /\ l.ephemeral
                               /\ \E left \in MayRemain : Removed("temp", left)
        \/ ClearStore
        \/ \E x \in Docs : \E done \in SUBSET Legs : Ingested(x, done)
        \/ (RebuildAtStart \/ RebuildEndsStart) /\ RebuildIndex
        \/ UNCHANGED <<docs, indexed, history>>
<1> DEFINE Quiet == UNCHANGED <<docs, indexed, history>>
<1> SUFFICES ASSUME [Next]_vars,
                    ~ClearStore, ~\E x \in Docs : \E done \in SUBSET Legs : Ingested(x, done),
                    ~((RebuildAtStart \/ RebuildEndsStart) /\ RebuildIndex)
             PROVE  \/ \E l \in Launches : /\ BeginStart(l) /\ l.ephemeral
                                           /\ \E left \in MayRemain : Removed("temp", left)
                    \/ Quiet
  OBVIOUS
<1> USE DEF disk, history
<1>1. ASSUME NEW l \in Launches, BeginStart(l)
      PROVE  \/ BeginStart(l) /\ l.ephemeral /\ \E left \in MayRemain : Removed("temp", left)
             \/ Quiet
  BY <1>1 DEF BeginStart
<1>2. ASSUME \/ \E l \in Launches : RefuseConfig(l)
             \/ NoTempDir \/ OpenPanics \/ IndexErrorEndsStart \/ BindFails \/ Stop
      PROVE  Quiet
  BY <1>2 DEF RefuseConfig, NoTempDir, OpenPanics, IndexErrorEndsStart, BindFails, Stop
<1>3. ASSUME MakeTempDir \/ OpenForMain \/ OpenForHandler \/ OpenError \/ DetectDrift
      PROVE  Quiet
  BY <1>3 DEF MakeTempDir, OpenForMain, OpenForHandler, Opened, OpenError, DetectDrift
<1>4. ASSUME OpenIndex \/ MakeIndexDir \/ CreateIndex \/ ServeWithoutIndexes \/ Serve
      PROVE  Quiet
  BY <1>4 DEF OpenIndex, MakeIndexDir, CreateIndex, ServeWithoutIndexes, Serve
<1>5. ASSUME FetchStep \/ LoadModel \/ Upgrade
      PROVE  Quiet
  BY <1>5 DEF FetchStep, FindCached, StartDownload, GetModel, GetTokenizer, DownloadFails,
              Settle, LoadModel, Upgrade
<1>6. ASSUME RebuildAtStart \/ RebuildEndsStart PROVE Quiet
  BY <1>6 DEF RebuildAtStart, RebuildEndsStart
<1>7. ASSUME NEW x \in Docs, StoreDocument(x) \/ KilledStoring(x) PROVE FALSE
  <2>1. ASSUME NEW failed \in SUBSET (Legs \cap Faults), Ingested(x, Legs \ failed) PROVE FALSE
    BY <2>1
  <2> QED
    BY <1>7, <2>1 DEF StoreDocument, KilledStoring
<1>8. ASSUME UNCHANGED vars PROVE Quiet
  BY <1>8 DEF vars
<1> QED
  BY <1>1, <1>2, <1>3, <1>4, <1>5, <1>6, <1>7, <1>8 DEF Next, StartStep

\* A document that is anywhere was given to the program.
NothingFromNowhere == \A d \in Dirs : \A x \in docs[d] \cup indexed[d] : outcome[x] # "new"

IndexInv == IndexGoesWithTheStore /\ NothingFromNowhere

\* A removal leaves entries of lost documents only where it says so.
LEMMA RemovalTakesTheIndex ==
    ASSUME TypeOK, IndexInv, NEW d \in Dirs, NEW left \in MayRemain,
           Removed(d, left), UNCHANGED outcome
    PROVE  IndexInv'
<1> USE DEF TypeOK, Removed, IndexInv, IndexGoesWithTheStore, NothingFromNowhere
<1>1. NothingFromNowhere'
  <2>1. \A e \in Dirs : docs'[e] \subseteq docs[e] /\ indexed'[e] \subseteq indexed[e]
    OBVIOUS
  <2> QED
    BY <2>1
<1>2. ASSUME NEW e \in Dirs \ leftover', NEW x \in indexed'[e], outcome[x] = "stored"
      PROVE  x \in docs'[e]
  <2>1. CASE e # d
    BY <1>2, <2>1
  <2>2. CASE e = d /\ "index" \notin left
    BY <1>2, <2>2
  <2>3. CASE e = d /\ "index" \in left
    <3>1. left # {"index"} /\ e \notin leftover
      BY <1>2, <2>3
    <3>2. left \in SUBSET {"store", "index"}
      BY DEF MayRemain
    <3>3. "store" \in left
      BY <2>3, <3>1, <3>2
    <3> QED
      BY <1>2, <2>3, <3>1, <3>3
  <2> QED
    BY <2>1, <2>2, <2>3
<1> QED
  BY <1>1, <1>2

LEMMA IndexStep == Typed /\ IndexInv /\ [Next]_vars => IndexInv'
<1> SUFFICES ASSUME Typed, IndexInv, [Next]_vars PROVE IndexInv'
  OBVIOUS
<1>1. ASSUME NEW left \in MayRemain, Removed("temp", left), NEW l \in Launches, BeginStart(l)
      PROVE  IndexInv'
  BY <1>1, RemovalTakesTheIndex, TempIsADir DEF Typed, BeginStart
<1>2. ASSUME ClearStore PROVE IndexInv'
  BY <1>2, RemovalTakesTheIndex DEF ClearStore, Typed, TypeOK, Here
<1>3. ASSUME NEW x \in Docs, NEW done \in SUBSET Legs, Ingested(x, done) PROVE IndexInv'
  <2>1. handlerConn = Here /\ Here \in Dirs
    BY <1>3 DEF Ingested, Typed, TypeOK, HandlerOpen, Here
  <2>2. \A d \in Dirs : x \notin docs[d] \cup indexed[d]
    BY <1>3 DEF Ingested, IndexInv, NothingFromNowhere
  <2> USE DEF Ingested, IndexInv, IndexGoesWithTheStore, NothingFromNowhere, Typed, TypeOK
  <2>3. \A d \in Dirs : /\ docs[d] \subseteq docs'[d] /\ docs'[d] \subseteq docs[d] \cup {x}
                        /\ indexed'[d] \subseteq indexed[d] \cup {x}
    BY <1>3, <2>1
  <2>4. \A d \in Dirs : x \in indexed'[d] => d = Here
    BY <1>3, <2>1, <2>2
  <2>5. outcome'[x] = "stored" => x \in docs'[Here]
    BY <1>3, <2>1
  <2>6. /\ outcome'[x] \in {"stored", "refused"} /\ leftover' = leftover
        /\ \A y \in Docs \ {x} : outcome'[y] = outcome[y]
    BY <1>3
  <2>7. IndexGoesWithTheStore'
    BY <2>3, <2>4, <2>5, <2>6
  <2>8. NothingFromNowhere'
    BY <2>3, <2>6
  <2> QED
    BY <2>7, <2>8
<1>4. ASSUME RebuildAtStart \/ RebuildEndsStart, RebuildIndex PROVE IndexInv'
  <2>1. UNCHANGED <<docs, outcome>>
    BY <1>4 DEF RebuildAtStart, RebuildEndsStart
  <2> QED
    BY <1>4, <2>1 DEF RebuildIndex, IndexInv, IndexGoesWithTheStore, NothingFromNowhere, Typed,
                      TypeOK, Here
<1>5. ASSUME UNCHANGED <<docs, indexed, history>> PROVE IndexInv'
  BY <1>5 DEF history, IndexInv, IndexGoesWithTheStore, NothingFromNowhere
<1> QED
  BY <1>1, <1>2, <1>3, <1>4, <1>5, WhoTouchesDocuments

\* No index outlives the documents that the graph had taken, except where the
\* removal of a cleared store's directory failed and until the index is rebuilt;
\* an ingestion may lose either of its legs, or both, at any time.
THEOREM IndexesFollowStores == Spec => []IndexGoesWithTheStore
<1>1. Init => IndexInv
  BY DEF Init, IndexInv, IndexGoesWithTheStore, NothingFromNowhere
<1>2. IndexInv => IndexGoesWithTheStore
  BY DEF IndexInv
<1> QED
  BY <1>1, <1>2, IndexStep, AlwaysTyped, PTL DEF Spec

-----------------------------------------------------------------------------
(* What a start may delete.                                                *)

\* A start with --ephemeral works on the temporary directory.
EphemeralRunsInTemp == run.ephemeral => Here = "temp"

\* A store is cleared only after Tracker has spoken of an unsupported change.
ClearedAsUnsupported == pc = "clear" => error = Unsupported

StartInv == EphemeralRunsInTemp /\ ClearedAsUnsupported

LEMMA StartInvStep == Typed /\ StartInv /\ [Next]_vars => StartInv'
<1> SUFFICES ASSUME Typed, StartInv, [Next]_vars PROVE StartInv'
  OBVIOUS
<1> USE DEF StartInv, EphemeralRunsInTemp, ClearedAsUnsupported, Here, disk, process, conns
<1>1. ASSUME NEW l \in Launches, BeginStart(l) PROVE StartInv'
  BY <1>1, ResolvedTypes DEF BeginStart
<1>2. ASSUME Die PROVE StartInv'
  BY <1>2 DEF Die, NoRun
<1>3. ASSUME \/ \E l \in Launches : RefuseConfig(l)
             \/ NoTempDir \/ OpenPanics \/ IndexErrorEndsStart \/ RebuildEndsStart
             \/ BindFails \/ Stop \/ \E x \in Docs : KilledStoring(x)
      PROVE  Die
  BY <1>3 DEF RefuseConfig, NoTempDir, OpenPanics, IndexErrorEndsStart, RebuildEndsStart,
              BindFails, Stop, KilledStoring
<1>4. ASSUME MakeTempDir \/ OpenForMain \/ OpenForHandler \/ OpenError PROVE StartInv'
  BY <1>4 DEF MakeTempDir, OpenForMain, OpenForHandler, Opened, OpenError, Opening
<1>5. ASSUME DetectDrift PROVE StartInv'
  BY <1>5 DEF DetectDrift, Drifted
<1>6. ASSUME ClearStore PROVE StartInv'
  BY <1>6 DEF ClearStore
<1>7. ASSUME OpenIndex \/ MakeIndexDir \/ CreateIndex \/ ServeWithoutIndexes PROVE StartInv'
  BY <1>7 DEF OpenIndex, MakeIndexDir, CreateIndex, ServeWithoutIndexes, ManagerReady,
              AfterManager
<1>8. ASSUME RebuildAtStart \/ Serve PROVE StartInv'
  BY <1>8 DEF RebuildAtStart, Serve
<1>9. ASSUME NEW x \in Docs, StoreDocument(x) PROVE StartInv'
  BY <1>9 DEF StoreDocument, Ingested
<1>10. ASSUME FetchStep PROVE StartInv'
  BY <1>10 DEF FetchStep, FindCached, StartDownload, GetModel, GetTokenizer, DownloadFails,
               Settle
<1>11. ASSUME LoadModel \/ Upgrade PROVE StartInv'
  BY <1>11 DEF LoadModel, Upgrade
<1>12. ASSUME UNCHANGED vars PROVE StartInv'
  BY <1>12 DEF vars
<1> QED
  BY <1>1, <1>2, <1>3, <1>4, <1>5, <1>6, <1>7, <1>8, <1>9, <1>10, <1>11, <1>12
     DEF Next, StartStep

LEMMA AlwaysStartInv == Spec => []StartInv
<1>1. Init => StartInv
  BY DEF Init, StartInv, EphemeralRunsInTemp, ClearedAsUnsupported, Here, NoRun
<1> QED
  BY <1>1, StartInvStep, AlwaysTyped, PTL DEF Spec

\* Documents are lost only with a store that Tracker refused in the words taken for
\* drift, or with the temporary directory of a start with --ephemeral.
THEOREM OnlyDriftLoses == Spec => OnlyDriftLosesDocuments
<1>1. ASSUME Typed, StartInv, [Next]_vars, NEW d \in Dirs, ~(docs[d] \subseteq docs'[d])
      PROVE  \/ error = Unsupported /\ run.dir = d /\ pc = "clear"
             \/ d = "temp" /\ run'.ephemeral
  <2> USE DEF Typed, TypeOK
  <2>1. ASSUME NEW l \in Launches, BeginStart(l), l.ephemeral,
               NEW left \in MayRemain, Removed("temp", left)
        PROVE  d = "temp" /\ run'.ephemeral
    BY <1>1, <2>1, ResolvedTypes DEF BeginStart, Removed
  <2>2. ASSUME ClearStore PROVE error = Unsupported /\ run.dir = d /\ pc = "clear"
    BY <1>1, <2>2 DEF ClearStore, Removed, StartInv, ClearedAsUnsupported, Here
  <2>3. ASSUME NEW x \in Docs, NEW done, Ingested(x, done) PROVE FALSE
    BY <1>1, <2>3 DEF Ingested
  <2>4. ASSUME RebuildAtStart \/ RebuildEndsStart \/ UNCHANGED <<docs, indexed, history>>
        PROVE  FALSE
    BY <1>1, <2>4 DEF RebuildAtStart, RebuildEndsStart
  <2> QED
    BY <1>1, <2>1, <2>2, <2>3, <2>4, WhoTouchesDocuments
<1>2. Typed /\ StartInv /\ [Next]_vars =>
        [\A d \in Dirs : ~(docs[d] \subseteq docs'[d]) =>
            \/ error = Unsupported /\ run.dir = d /\ pc = "clear"
            \/ d = "temp" /\ run'.ephemeral]_vars
  BY <1>1
<1> QED
  BY <1>2, AlwaysTyped, AlwaysStartInv, PTL DEF Spec, OnlyDriftLosesDocuments

\* A start with --ephemeral touches no directory but its temporary one.
THEOREM EphemeralIsApart == Spec => EphemeralLeavesTheRestAlone
<1> DEFINE Same(d) == /\ store'[d] = store[d] /\ docs'[d] = docs[d]
                      /\ lexical'[d] = lexical[d] /\ indexed'[d] = indexed[d]
<1>1. ASSUME Typed, StartInv, [Next]_vars, pc # "off", run.ephemeral, NEW d \in Dirs \ {"temp"}
      PROVE  Same(d)
  <2>1. Here # d /\ Here \in Dirs
    BY <1>1 DEF StartInv, EphemeralRunsInTemp, Here, Typed, TypeOK
  <2> USE <2>1, <1>1 DEF Typed, TypeOK, disk
  <2>2. ASSUME \E l \in Launches : RefuseConfig(l) \/ BeginStart(l) PROVE FALSE
    BY <2>2 DEF RefuseConfig, BeginStart
  <2>3. ASSUME OpenForMain \/ OpenForHandler PROVE Same(d)
    BY <2>3 DEF OpenForMain, OpenForHandler, Opened
  <2>4. ASSUME ClearStore PROVE Same(d)
    BY <2>4 DEF ClearStore, Removed
  <2>5. ASSUME \/ MakeTempDir \/ NoTempDir \/ OpenError \/ OpenPanics \/ IndexErrorEndsStart
               \/ BindFails \/ Stop \/ DetectDrift \/ OpenIndex \/ ServeWithoutIndexes \/ Serve
        PROVE  Same(d)
    BY <2>5 DEF MakeTempDir, NoTempDir, OpenError, OpenPanics, IndexErrorEndsStart, BindFails,
                Stop, DetectDrift, OpenIndex, ServeWithoutIndexes, Serve
  <2>6. ASSUME MakeIndexDir \/ CreateIndex \/ RebuildAtStart \/ RebuildEndsStart PROVE Same(d)
    BY <2>6 DEF MakeIndexDir, CreateIndex, RebuildAtStart, RebuildEndsStart, RebuildIndex
  <2>7. ASSUME NEW x \in Docs, NEW done, Ingested(x, done) PROVE Same(d)
    <3>1. handlerConn = Here
      BY <2>7 DEF Ingested, HandlerOpen
    <3> QED
      BY <2>7, <3>1 DEF Ingested
  <2>8. ASSUME FetchStep \/ LoadModel PROVE Same(d)
    BY <2>8 DEF FetchStep, FindCached, StartDownload, GetModel, GetTokenizer, DownloadFails,
                Settle, LoadModel
  <2>9. ASSUME Upgrade PROVE FALSE
    BY <2>9 DEF Upgrade
  <2>10. ASSUME UNCHANGED vars PROVE Same(d)
    BY <2>10 DEF vars
  <2> QED
    BY <2>2, <2>3, <2>4, <2>5, <2>6, <2>7, <2>8, <2>9, <2>10
       DEF Next, StartStep, StoreDocument, KilledStoring
<1>2. Typed /\ StartInv /\ [Next]_vars =>
        [pc # "off" /\ run.ephemeral => \A d \in Dirs \ {"temp"} : Same(d)]_vars
  BY <1>1
<1> QED
  BY <1>2, AlwaysTyped, AlwaysStartInv, PTL DEF Spec, EphemeralLeavesTheRestAlone

-----------------------------------------------------------------------------
(* What a start with --rebuild-indexes serves.                             *)

\* Is there, and covers the documents unless a removal of this start hit it.
WholeIndex == manager /\ (lexical[Here] = "open" /\ Here \notin leftover
                             => indexed[Here] = docs[Here])

\* After the rebuild nothing changes documents or index until serving begins, but
\* for the removal that the second open may end in.
RebuiltIsWhole ==
    run.rebuild =>
        /\ pc = "rebuild" => manager
        /\ pc \in {"open again", "bind"} => WholeIndex
        /\ pc \in {"clear", "reopen"} /\ mainConn # NoPath => WholeIndex

LEMMA RebuiltStep == Typed /\ RebuiltIsWhole /\ [Next]_vars => RebuiltIsWhole'
<1> SUFFICES ASSUME Typed, RebuiltIsWhole, [Next]_vars PROVE RebuiltIsWhole'
  OBVIOUS
<1> USE DEF RebuiltIsWhole, WholeIndex, Here, disk, process, conns, history
<1>1. ASSUME NEW l \in Launches, BeginStart(l) PROVE RebuiltIsWhole'
  BY <1>1 DEF BeginStart
<1>2. ASSUME Die PROVE RebuiltIsWhole'
  BY <1>2 DEF Die, NoRun
<1>3. ASSUME \/ \E l \in Launches : RefuseConfig(l)
             \/ NoTempDir \/ OpenPanics \/ IndexErrorEndsStart \/ RebuildEndsStart
             \/ BindFails \/ Stop \/ \E x \in Docs : KilledStoring(x)
      PROVE  Die
  BY <1>3 DEF RefuseConfig, NoTempDir, OpenPanics, IndexErrorEndsStart, RebuildEndsStart,
              BindFails, Stop, KilledStoring
<1>4. ASSUME MakeTempDir \/ OpenError \/ MakeIndexDir PROVE RebuiltIsWhole'
  <2>1. CASE MakeTempDir
    BY <2>1 DEF MakeTempDir
  <2>2. CASE OpenError
    BY <2>2 DEF OpenError
  <2>3. CASE MakeIndexDir
    BY <2>3 DEF MakeIndexDir
  <2> QED
    BY <1>4, <2>1, <2>2, <2>3
<1>15. ASSUME OpenForMain PROVE RebuiltIsWhole'
  BY <1>15 DEF OpenForMain, Opened
<1>14. ASSUME DetectDrift PROVE RebuiltIsWhole'
  <2>1. pc = "open again" \/ mainConn = NoPath
    BY <1>14 DEF DetectDrift, Drifted, Opening, Typed, MainOpen
  <2> QED
    BY <1>14, <2>1 DEF DetectDrift
<1>5. ASSUME OpenForHandler PROVE RebuiltIsWhole'
  BY <1>5 DEF OpenForHandler, Opened
<1>6. ASSUME OpenIndex \/ CreateIndex PROVE RebuiltIsWhole'
  BY <1>6 DEF OpenIndex, CreateIndex, ManagerReady, AfterManager
<1>7. ASSUME ServeWithoutIndexes PROVE RebuiltIsWhole'
  BY <1>7 DEF ServeWithoutIndexes
<1>8. ASSUME RebuildAtStart PROVE RebuiltIsWhole'
  BY <1>8 DEF RebuildAtStart, RebuildIndex, Typed, TypeOK
<1>9. ASSUME Serve \/ \E x \in Docs : StoreDocument(x) PROVE RebuiltIsWhole'
  BY <1>9 DEF Serve, StoreDocument, Ingested
<1>13. ASSUME ClearStore PROVE RebuiltIsWhole'
  <2>1. PICK left \in MayRemain : Removed(Here, left)
    BY <1>13 DEF ClearStore
  <2>2. left \in SUBSET {"store", "index"}
    BY DEF MayRemain
  <2>3. CASE "index" \notin left
    BY <1>13, <2>1, <2>3 DEF ClearStore, Removed, Typed, TypeOK
  <2>4. CASE left = {"index"}
    BY <1>13, <2>1, <2>4 DEF ClearStore, Removed, Typed, TypeOK
  <2>5. CASE left = {"store", "index"}
    BY <1>13, <2>1, <2>5 DEF ClearStore, Removed, Typed, TypeOK
  <2>6. "index" \notin left \/ left = {"index"} \/ left = {"store", "index"}
    BY <2>2
  <2> QED
    BY <2>3, <2>4, <2>5, <2>6
<1>10. ASSUME FetchStep PROVE RebuiltIsWhole'
  <2>1. UNCHANGED <<docs, indexed, lexical, process, history>>
    BY <1>10 DEF FetchStep, FindCached, StartDownload, GetModel, GetTokenizer, DownloadFails,
                 Settle
  <2> QED
    BY <2>1
<1>11. ASSUME LoadModel \/ Upgrade PROVE RebuiltIsWhole'
  BY <1>11 DEF LoadModel, Upgrade
<1>12. ASSUME UNCHANGED vars PROVE RebuiltIsWhole'
  BY <1>12 DEF vars
<1> QED
  BY <1>1, <1>2, <1>3, <1>4, <1>5, <1>6, <1>7, <1>8, <1>9, <1>10, <1>11, <1>12, <1>13, <1>14, <1>15
     DEF Next, StartStep

\* A start told to rebuild serves an index of exactly the documents it stores to,
\* unless its second open cleared the directory.
THEOREM RebuiltStartsAreWhole == Spec => RebuiltStartServesTheGraph
<1>1. Init => RebuiltIsWhole
  BY DEF Init, RebuiltIsWhole, NoRun
<1>2. Typed /\ RebuiltIsWhole /\ [Next]_vars =>
        [Serve /\ run.rebuild /\ lexical[Here] = "open" /\ Here \notin leftover
            => manager /\ indexed[Here] = docs[handlerConn]]_vars
  BY DEF Serve, RebuiltIsWhole, WholeIndex, Typed, HandlerOpen
<1> QED
  BY <1>1, <1>2, RebuiltStep, AlwaysTyped, PTL DEF Spec, RebuiltStartServesTheGraph

-----------------------------------------------------------------------------
(* The model files.                                                        *)

\* Between the two downloads the first file is complete.
HalfDownloaded == fetch = "tokenizer.json" => "model.onnx" \in cached[run.gliner]

FilesInv == ReadyMeansComplete /\ HalfDownloaded

LEMMA FilesStep == Typed /\ FilesInv /\ [Next]_vars => FilesInv'
<1> SUFFICES ASSUME Typed, FilesInv, [Next]_vars PROVE FilesInv'
  OBVIOUS
<1> USE DEF FilesInv, ReadyMeansComplete, HalfDownloaded, disk, process, extract, history
<1>1. ASSUME NEW l \in Launches, BeginStart(l) PROVE FilesInv'
  BY <1>1 DEF BeginStart, Typed, NothingFetched
<1>2. ASSUME Die PROVE FilesInv'
  BY <1>2 DEF Die
<1>3. ASSUME \/ \E l \in Launches : RefuseConfig(l)
             \/ NoTempDir \/ OpenPanics \/ IndexErrorEndsStart \/ RebuildEndsStart
             \/ BindFails \/ Stop \/ \E x \in Docs : KilledStoring(x)
      PROVE  Die
  BY <1>3 DEF RefuseConfig, NoTempDir, OpenPanics, IndexErrorEndsStart, RebuildEndsStart,
              BindFails, Stop, KilledStoring
<1>4. ASSUME MakeTempDir \/ OpenForMain \/ OpenForHandler \/ OpenError PROVE FilesInv'
  BY <1>4 DEF MakeTempDir, OpenForMain, OpenForHandler, Opened, OpenError
<1>5. ASSUME DetectDrift \/ ClearStore \/ OpenIndex \/ MakeIndexDir \/ CreateIndex
      PROVE  FilesInv'
  BY <1>5 DEF DetectDrift, ClearStore, OpenIndex, MakeIndexDir, CreateIndex
<1>6. ASSUME ServeWithoutIndexes \/ RebuildAtStart \/ Serve \/ \E x \in Docs : StoreDocument(x)
      PROVE  FilesInv'
  BY <1>6 DEF ServeWithoutIndexes, RebuildAtStart, Serve, StoreDocument, Ingested
<1>7. ASSUME FindCached \/ StartDownload \/ DownloadFails PROVE FilesInv'
  BY <1>7 DEF FindCached, ModelCached, StartDownload, DownloadFails, Settle, Typed, TypeOK
<1>8. ASSUME GetModel \/ GetTokenizer PROVE FilesInv'
  <2>1. run.gliner \in Caches /\ cached \in [Caches -> SUBSET RequiredFiles]
    BY <1>8 DEF GetModel, GetTokenizer, Typed, TypeOK, NothingFetched
  <2>2. CASE GetModel
    BY <2>1, <2>2 DEF GetModel, Keep
  <2>3. CASE GetTokenizer
    BY <2>1, <2>3 DEF GetTokenizer, Keep, RequiredFiles
  <2> QED
    BY <1>8, <2>2, <2>3
<1>9. ASSUME LoadModel PROVE FilesInv'
  BY <1>9 DEF LoadModel
<1>10. ASSUME Upgrade PROVE FilesInv'
  BY <1>10 DEF Upgrade
<1>11. ASSUME UNCHANGED vars PROVE FilesInv'
  BY <1>11 DEF vars
<1> QED
  BY <1>1, <1>2, <1>3, <1>4, <1>5, <1>6, <1>7, <1>8, <1>9, <1>10, <1>11
     DEF Next, StartStep, FetchStep

\* "Ready" is said, and a model loaded, only with both files in the cache.
THEOREM ReadyIsComplete == Spec => []ReadyMeansComplete
<1>1. Init => FilesInv
  BY DEF Init, FilesInv, ReadyMeansComplete, HalfDownloaded
<1>2. FilesInv => ReadyMeansComplete
  BY DEF FilesInv
<1> QED
  BY <1>1, <1>2, FilesStep, AlwaysTyped, PTL DEF Spec
=============================================================================
