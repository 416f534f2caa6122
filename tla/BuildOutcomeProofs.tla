-------------------------- MODULE BuildOutcomeProofs --------------------------
(***************************************************************************)
(* What the builds of several commands, re-indexes among them, add up to:  *)
(* one layout per file, readable payloads, complete snapshots, and a       *)
(* fingerprint that is the one the chunks were built under.                *)
(***************************************************************************)
EXTENDS ReindexProofs

\* Without failures a text is always cut in the same way.
Canonical(text) == [text |-> text, cut |-> IF text \in Structural THEN text ELSE Window]
LayoutFor(text) == LayoutOf[text][Canonical(text).cut]

CachesCanonical ==
    \A k \in Path \X Content \X Config : chunkCache[k] # Null => chunkCache[k] = Canonical(k[2])

DraftsCanonical(p) ==
    job[p].pc \in Building => \A f \in Path :
      job[p].drafts[f] # Null => job[p].drafts[f] = Canonical(job[p].inventory[f])

RowsCanonical == \A id \in ChunkId : chunks[id] # Null => id[3] = LayoutFor(chunks[id].hash)

CanonicalInv ==
    faults = 0 =>
      CachesCanonical /\ RowsCanonical /\ \A p \in Proc : DraftsCanonical(p)

-----------------------------------------------------------------------------
\* How any command takes up files, one after the other.

\* A build takes its work from the inventory.
ListMoves(j, k) ==
    /\ Keeps(j, k)
    /\ j.pc = "list_files" /\ k.pc = "materialize" /\ k.drafts = NoDrafts
    /\ k.inventory = files[j.snap] /\ k.todo = Present(files[j.snap])
    /\ files[j.snap] # EmptyTree \/ j.marked

LEMMA FilesListed ==
  ASSUME TypeInv, NEW p \in Proc, ListFiles(p), ~Finish(p)
  PROVE  ListMoves(job[p], job'[p])
<1>t. JobHolds(job[p]) /\ job \in [Proc -> Job] /\ job[p] \in Job
  BY DEF TypeInv, TypeOK, JobOK
<1> DEFINE j == [job[p] EXCEPT !.inventory = files[job[p].snap],
                              !.todo = {f \in Path : files[job[p].snap][f] # Absent},
                              !.pc = "materialize"]
<1>1. job' = [job EXCEPT ![p] = j] /\ job[p].pc = "list_files"
  BY <1>t DEF ListFiles, At
<1>2. job[p].drafts = NoDrafts
  BY <1>t, <1>1 DEF JobHolds
<1>3. /\ j.cmd = job[p].cmd /\ j.snap = job[p].snap /\ j.rev = job[p].rev
      /\ j.cfg = job[p].cfg /\ j.drafts = job[p].drafts /\ j.pc = "materialize"
      /\ j.inventory = files[job[p].snap]
      /\ j.todo = {f \in Path : files[job[p].snap][f] # Absent}
  BY <1>t DEF Job
<1>4. job'[p] = j
  BY <1>t, <1>1
<1>5. files[job[p].snap] # EmptyTree \/ job[p].marked
  BY DEF ListFiles
<1> HIDE DEF j
<1> QED
  BY <1>1, <1>2, <1>3, <1>4, <1>5 DEF ListMoves, Keeps, Present

LEMMA BuildingMoves ==
  ASSUME TypeInv, NEW p \in Proc, ProcStep(p), job'[p].pc \in Building
  PROVE  \/ ListFiles(p) /\ ListMoves(job[p], job'[p])
         \/ job[p].pc \in Building /\ StageMoves(job[p], job'[p])
<1>t. TypeOK /\ JobHolds(job[p]) /\ job \in [Proc -> Job] /\ job[p] \in Job
  BY DEF TypeInv, TypeOK, JobOK
<1>n. NoJob.pc = "idle"
  BY DEF NoJob
<1>f. ~Finish(p)
  BY <1>t, <1>n DEF Finish, Building
<1>1. ~StartSnapshot(p) /\ ~StartExtract(p) /\ ~StartBuild(p)
  BY <1>t DEF StartSnapshot, StartExtract, StartBuild, NoJob, Building
<1>2. /\ ~WriteManifest(p) /\ ~InsertSnapshot(p) /\ ~Scan(p) /\ ~InsertFiles(p)
      /\ ~MarkExtracted(p) /\ ~MarkChunks(p)
  <2>1. ~WriteManifest(p) /\ ~InsertFiles(p)
    BY <1>t DEF WriteManifest, InsertFiles, Goto, Job, Building
  <2>2. ~Scan(p)
    BY <1>t DEF Scan, Job, Building
  <2>3. ~InsertSnapshot(p) /\ ~MarkExtracted(p) /\ ~MarkChunks(p)
    BY <1>t, <1>n DEF InsertSnapshot, MarkExtracted, MarkChunks, Goto, AfterMark, EndStage, Job,
       Building
  <2> QED
    BY <2>1, <2>2, <2>3
<1>3. CASE ListFiles(p)
  BY <1>f, <1>3, FilesListed
<1>4. CASE ReuseDrafts(p)
  <2>1. PICK f \in Path : /\ NextFile(p, f)
                          /\ StructuralHit(p, f)
                          /\ TakeDrafts(p, f, chunkCache[CacheKey(p, f)])
    BY <1>4 DEF ReuseDrafts
  <2>2. chunkCache[CacheKey(p, f)] \in Draft
    BY <1>4, <2>1, FileTyped DEF ReuseDrafts, At, StructuralHit
  <2> QED
    BY <1>4, <2>1, <2>2, DraftsMove DEF ReuseDrafts, At, Building
<1>5. CASE GenerateDrafts(p)
  <2> DEFINE cut(f) == IF parserCache[<<f, job[p].inventory[f]>>] # Null
                       THEN parserCache[<<f, job[p].inventory[f]>>] ELSE tree[f]
             drafts(f) == [text |-> tree[f], cut |-> cut(f)]
  <2>1. PICK f \in Path :
          /\ NextFile(p, f) /\ tree[f] # Absent
          /\ \/ TakeDrafts(p, f, drafts(f)) /\ cut(f) \in Structural
             \/ FallBack(p, f)
    BY <1>5 DEF GenerateDrafts
  <2>2. CASE FallBack(p, f)
    BY <1>5, <2>1, <2>2, FellBackMoves DEF GenerateDrafts, At, Building
  <2>3. CASE TakeDrafts(p, f, drafts(f)) /\ cut(f) \in Structural
    <3>1. drafts(f) \in Draft
      BY <1>t, <2>1, <2>3, ContentAssumption DEF TypeOK, Tree, Draft, Cut
    <3> HIDE DEF drafts, cut
    <3> QED
      BY <1>5, <2>1, <2>3, <3>1, DraftsMove DEF GenerateDrafts, At, Building
  <2> QED
    BY <2>1, <2>2, <2>3
<1>6. CASE ParserRaises(p)
  <2>1. PICK f \in Path : NextFile(p, f) /\ tree[f] # Absent /\ FallBack(p, f)
    BY <1>6 DEF ParserRaises
  <2> QED
    BY <1>6, <2>1, FellBackMoves DEF ParserRaises, At, Building
<1>7. CASE WritePayload(p)
  <2>1. PICK f \in Path :
          NextFile(p, f) /\ job' = [job EXCEPT ![p].todo = @ \ {f}, ![p].pc = "materialize"]
    BY <1>7 DEF WritePayload
  <2>2. job[p].pc = "write_payload" /\ f \in job[p].todo /\ job[p].drafts[f] # Null
    BY <1>7, <2>1 DEF WritePayload, NextFile, At
  <2> DEFINE k == [job[p] EXCEPT !.todo = @ \ {f}, !.pc = "materialize"]
  <2>3. job'[p] = k
    BY <1>t, <2>1
  <2>4. /\ k.cmd = job[p].cmd /\ k.snap = job[p].snap /\ k.rev = job[p].rev
        /\ k.cfg = job[p].cfg /\ k.inventory = job[p].inventory /\ k.drafts = job[p].drafts
        /\ k.todo = job[p].todo \ {f} /\ k.pc = "materialize"
    BY <1>t DEF Job
  <2> HIDE DEF k
  <2> QED
    BY <2>2, <2>3, <2>4 DEF StageMoves, Keeps, Building
<1>8. CASE UpsertChunks(p)
  <2> DEFINE k == [job[p] EXCEPT !.pc = "mark_chunks"]
  <2>1. job'[p] = k /\ job[p].pc = "materialize" /\ job[p].todo = {}
    BY <1>t, <1>8 DEF UpsertChunks, Goto, At
  <2>2. /\ k.cmd = job[p].cmd /\ k.snap = job[p].snap /\ k.rev = job[p].rev
        /\ k.cfg = job[p].cfg /\ k.inventory = job[p].inventory /\ k.drafts = job[p].drafts
        /\ k.todo = job[p].todo /\ k.pc = "mark_chunks"
    BY <1>t DEF Job
  <2> HIDE DEF k
  <2> QED
    BY <2>1, <2>2 DEF StageMoves, Keeps, Building
<1> QED
  BY <1>f, <1>1, <1>2, <1>3, <1>4, <1>5, <1>6, <1>7, <1>8
  DEF ProcStep, StageStep, SharedStep, FaultStep, ReadFails, RecordProvenance, Crash,
      SnapshotInsertFails, CrashInPayload, CrashInCache

\* Failures are counted.
LEMMA FaultsGrow ==
  ASSUME TypeInv, NEW p \in Proc, ProcStep(p), faults' = 0
  PROVE  faults = 0 /\ ~FaultStep(p)
<1>1. faults \in Nat
  BY BoundAssumption DEF TypeInv, TypeOK
<1>2. faults' = faults \/ faults' = faults + 1
  BY DEF ProcStep, StartSnapshot, StartExtract, StartBuild, StageStep, SharedStep, FaultStep,
     WriteManifest, InsertSnapshot, Scan, InsertFiles, MarkExtracted, ListFiles, ReuseDrafts,
     GenerateDrafts, ReadFails, WritePayload, UpsertChunks, MarkChunks, RecordProvenance, Crash,
     SnapshotInsertFails, ParserRaises, CrashInPayload, CrashInCache, Fault, env
<1>3. FaultStep(p) => faults' = faults + 1
  BY DEF FaultStep, Crash, SnapshotInsertFails, ParserRaises, CrashInPayload, CrashInCache, Fault
<1> QED
  BY <1>1, <1>2, <1>3

-----------------------------------------------------------------------------
\* One layout per file.

LEMMA FellBackCanonical ==
  ASSUME TypeInv, RowInv, Validated, CachesCanonical, NEW p \in Proc, NEW f \in Path,
         At(p, "materialize"), NextFile(p, f), FallBack(p, f), tree[f] \notin Structural
  PROVE  CachesCanonical' /\ TakeDrafts(p, f, Canonical(job[p].inventory[f]))
<1> DEFINE key == CacheKey(p, f)
           windows == [text |-> tree[f], cut |-> Window]
<1>1. key \in Path \X Content \X Config /\ key[2] = job[p].inventory[f]
  BY FileTyped DEF CacheKey, At
<1>2. windows = Canonical(key[2])
  BY <1>1, LiveText DEF Canonical
<1>c. chunkCache \in [Path \X Content \X Config -> Draft \cup {Null}]
  BY DEF TypeInv, TypeOK
<1>3. CASE chunkCache[key] # Null
  <2>1. TakeDrafts(p, f, chunkCache[key]) /\ chunkCache' = chunkCache
    BY <1>3 DEF FallBack
  <2> QED
    BY <1>1, <1>3, <2>1 DEF CachesCanonical
<1>4. CASE chunkCache[key] = Null
  <2>1. TakeDrafts(p, f, windows) /\ chunkCache' = [chunkCache EXCEPT ![key] = windows]
    BY <1>4 DEF FallBack
  <2> HIDE DEF windows, key
  <2> QED
    BY <1>1, <1>2, <1>c, <2>1 DEF CachesCanonical
<1> QED
  BY <1>3, <1>4

LEMMA GeneratedCanonical ==
  ASSUME TypeInv, RowInv, Validated, CachesSound, CachesCanonical, NEW p \in Proc,
         GenerateDrafts(p)
  PROVE  /\ CachesCanonical'
         /\ \E f \in Path : TakeDrafts(p, f, Canonical(job[p].inventory[f]))
<1> DEFINE key(f) == <<f, job[p].inventory[f]>>
           cut(f) == IF parserCache[key(f)] # Null THEN parserCache[key(f)] ELSE tree[f]
           drafts(f) == [text |-> tree[f], cut |-> cut(f)]
<1>1. PICK f \in Path :
        /\ NextFile(p, f)
        /\ IF cut(f) \in Structural
           THEN /\ TakeDrafts(p, f, drafts(f))
                /\ chunkCache' = [chunkCache EXCEPT ![CacheKey(p, f)] = drafts(f)]
           ELSE FallBack(p, f)
  BY DEF GenerateDrafts
<1>2. At(p, "materialize")
  BY DEF GenerateDrafts
<1>3. tree[f] = job[p].inventory[f]
  BY <1>1, <1>2, LiveText
<1>4. /\ key(f) \in Path \X Content /\ key(f)[2] = tree[f]
      /\ CacheKey(p, f) \in Path \X Content \X Config /\ CacheKey(p, f)[2] = tree[f]
  BY <1>1, <1>2, <1>3, FileTyped DEF At, CacheKey
<1>5. cut(f) = tree[f]
  BY <1>4 DEF CachesSound
<1>c. chunkCache \in [Path \X Content \X Config -> Draft \cup {Null}]
  BY DEF TypeInv, TypeOK
<1>6. CASE cut(f) \in Structural
  <2>1. drafts(f) = Canonical(tree[f])
    BY <1>5, <1>6 DEF Canonical
  <2>2. /\ TakeDrafts(p, f, drafts(f))
        /\ chunkCache' = [chunkCache EXCEPT ![CacheKey(p, f)] = drafts(f)]
    BY <1>1, <1>6
  <2> HIDE DEF drafts, cut
  <2> QED
    BY <1>3, <1>4, <1>c, <2>1, <2>2 DEF CachesCanonical
<1>7. CASE cut(f) \notin Structural
  BY <1>1, <1>2, <1>5, <1>7, FellBackCanonical
<1> QED
  BY <1>6, <1>7

LEMMA DraftsStayCanonical ==
  ASSUME TypeInv, NEW p \in Proc, DraftsCanonical(p), At(p, "materialize"),
         NEW f \in Path, TakeDrafts(p, f, Canonical(job[p].inventory[f]))
  PROVE  DraftsCanonical(p)'
<1> DEFINE d == Canonical(job[p].inventory[f])
           j == [job[p] EXCEPT !.drafts[f] = d, !.pc = "write_payload"]
<1>t. job \in [Proc -> Job] /\ job[p] \in Job
  BY DEF TypeInv, TypeOK
<1>1. job' = [job EXCEPT ![p] = j]
  BY <1>t DEF TakeDrafts
<1>2. /\ j.inventory = job[p].inventory /\ j.drafts[f] = d
      /\ \A g \in Path : g # f => j.drafts[g] = job[p].drafts[g]
  BY <1>t DEF Job
<1>3. job'[p] = j
  BY <1>t, <1>1
<1> HIDE DEF j
<1> QED
  BY <1>2, <1>3 DEF DraftsCanonical, At, Building

LEMMA DraftsCanonicalStep ==
  ASSUME TypeInv, RowInv, Validated, CachesSound, CachesCanonical, NEW p \in Proc,
         DraftsCanonical(p), ProcStep(p), ~FaultStep(p)
  PROVE  DraftsCanonical(p)'
<1>1. CASE job'[p].pc \notin Building
  BY <1>1 DEF DraftsCanonical
<1>2. CASE ReuseDrafts(p)
  <2>1. PICK f \in Path : /\ NextFile(p, f) /\ StructuralHit(p, f)
                          /\ TakeDrafts(p, f, chunkCache[CacheKey(p, f)])
    BY <1>2 DEF ReuseDrafts
  <2>2. /\ CacheKey(p, f) \in Path \X Content \X Config
        /\ CacheKey(p, f)[2] = job[p].inventory[f]
    BY <1>2, <2>1, FileTyped DEF ReuseDrafts, At, CacheKey
  <2>3. chunkCache[CacheKey(p, f)] = Canonical(job[p].inventory[f])
    BY <2>1, <2>2 DEF CachesCanonical, StructuralHit
  <2> QED
    BY <1>2, <2>1, <2>3, DraftsStayCanonical DEF ReuseDrafts
<1>3. CASE GenerateDrafts(p)
  <2>1. PICK f \in Path : TakeDrafts(p, f, Canonical(job[p].inventory[f]))
    BY <1>3, GeneratedCanonical
  <2> QED
    BY <1>3, <2>1, DraftsStayCanonical DEF GenerateDrafts
<1>4. CASE job'[p].pc \in Building /\ ~ReuseDrafts(p) /\ ~GenerateDrafts(p)
  <2>1. CASE ListMoves(job[p], job'[p])
    BY <2>1 DEF ListMoves, DraftsCanonical, NoDrafts
  <2>2. CASE job[p].pc \in Building /\ StageMoves(job[p], job'[p])
    <3>1. CASE job'[p].drafts = job[p].drafts /\ job'[p].inventory = job[p].inventory
      BY <2>2, <3>1 DEF DraftsCanonical
    <3>2. CASE job[p].pc = "materialize" /\ job'[p].pc = "write_payload"
      <4>1. job \in [Proc -> Job] /\ job[p] \in Job
        BY DEF TypeInv, TypeOK
      <4>2. ~WritePayload(p) /\ ~UpsertChunks(p) /\ ~ListFiles(p)
        BY <3>2 DEF WritePayload, ListFiles, UpsertChunks, Goto, At, TypeInv, TypeOK, Job
      <4>3. ~Finish(p)
        BY <3>2, <4>1 DEF Finish, NoJob
      <4> QED
        BY <1>4, <3>2, <4>2, <4>3
        DEF ProcStep, StageStep, SharedStep, StartSnapshot, StartExtract, StartBuild,
            WriteManifest, InsertSnapshot, Scan, InsertFiles, MarkExtracted, MarkChunks,
            ReadFails, RecordProvenance, At
    <3> QED
      BY <2>2, <3>1, <3>2 DEF StageMoves, Building
  <2> QED
    BY <1>4, <2>1, <2>2, BuildingMoves
<1> QED
  BY <1>1, <1>2, <1>3, <1>4

\* A row is stored under the id of its draft.
LEMMA RowsCanonicalStep ==
  ASSUME TypeInv, RowsCanonical, NEW p \in Proc, DraftsCanonical(p), ProcStep(p)
  PROVE  RowsCanonical'
<1>1. CASE UpsertChunks(p)
  <2>1. job[p].pc \in Building
    BY <1>1 DEF UpsertChunks, At, Building
  <2>2. ASSUME NEW id \in ChunkId, chunks'[id] # Null PROVE id[3] = LayoutFor(chunks'[id].hash)
    <3>1. id[2] \in Path
      BY DEF ChunkId
    <3>2. CASE job[p].drafts[id[2]] # Null /\ id = IdOf(p, id[2])
      <4>1. chunks'[id].hash = job[p].inventory[id[2]]
        BY <1>1, <3>2 DEF UpsertChunks, UpsertRows
      <4>2. job[p].drafts[id[2]] = Canonical(job[p].inventory[id[2]])
        BY <2>1, <3>1, <3>2 DEF DraftsCanonical
      <4>3. id[3] = LayoutOf[job[p].drafts[id[2]].text][job[p].drafts[id[2]].cut]
        BY <3>2 DEF IdOf
      <4> QED
        BY <4>1, <4>2, <4>3 DEF LayoutFor, Canonical
    <3>3. CASE ~(job[p].drafts[id[2]] # Null /\ id = IdOf(p, id[2]))
      <4>1. chunks'[id] = chunks[id]
        BY <1>1, <3>3 DEF UpsertChunks, UpsertRows
      <4> QED
        BY <2>2, <4>1 DEF RowsCanonical
    <3> QED
      BY <3>2, <3>3
  <2> QED
    BY <2>2 DEF RowsCanonical
<1>2. CASE ~UpsertChunks(p)
  <2>1. chunks' = chunks
    BY <1>2 DEF ProcStep, StartSnapshot, StartExtract, StartBuild, StageStep, SharedStep,
       FaultStep, WriteManifest, InsertSnapshot, Scan, InsertFiles, MarkExtracted, ListFiles,
       ReuseDrafts, GenerateDrafts, ReadFails, WritePayload, MarkChunks, RecordProvenance, Crash,
       SnapshotInsertFails, ParserRaises, CrashInPayload, CrashInCache, db
  <2> QED
    BY <2>1 DEF RowsCanonical
<1> QED
  BY <1>1, <1>2

LEMMA CanonicalStep ==
  ASSUME TypeInv, RowInv, QuietInv, CanonicalInv, NEW p \in Proc, ProcStep(p)
  PROVE  CanonicalInv'
<1>1. SUFFICES ASSUME faults' = 0
               PROVE  (CachesCanonical /\ RowsCanonical /\ \A q \in Proc : DraftsCanonical(q))'
  BY DEF CanonicalInv
<1>2. /\ ~FaultStep(p) /\ CachesCanonical /\ RowsCanonical
      /\ \A q \in Proc : DraftsCanonical(q)
  BY <1>1, FaultsGrow DEF CanonicalInv
<1>3. CachesCanonical'
  <2>1. CASE GenerateDrafts(p)
    BY <1>2, <2>1, GeneratedCanonical DEF QuietInv
  <2>2. CASE ~GenerateDrafts(p)
    <3>1. chunkCache' = chunkCache
      BY <1>2, <2>2 DEF ProcStep, StartSnapshot, StartExtract, StartBuild, StageStep, SharedStep,
         WriteManifest, InsertSnapshot, Scan, InsertFiles, MarkExtracted, ListFiles,
         ReuseDrafts, ReadFails, WritePayload, UpsertChunks, MarkChunks, RecordProvenance, disk
    <3> QED
      BY <1>2, <3>1 DEF CachesCanonical
  <2> QED
    BY <2>1, <2>2
<1>4. ASSUME NEW q \in Proc, q # p PROVE DraftsCanonical(q)'
  BY <1>2, <1>4, OthersWait DEF DraftsCanonical
<1>5. DraftsCanonical(p)'
  BY <1>2, DraftsCanonicalStep DEF QuietInv
<1> QED
  BY <1>2, <1>3, <1>4, <1>5, RowsCanonicalStep

LEMMA CanonicalInit == Init => CanonicalInv
BY DEF Init, CanonicalInv, CachesCanonical, RowsCanonical, DraftsCanonical, NoJob, Building

\* Rows of one file and snapshot carry one hash, and so have one layout.
LEMMA CanonicalHasNoStaleRows == RowMatchesInventory /\ CanonicalInv => NoStaleRows
<1>1. SUFFICES ASSUME RowMatchesInventory, CanonicalInv, faults = 0,
                      NEW id1 \in ChunkId, NEW id2 \in ChunkId,
                      chunks[id1] # Null, chunks[id2] # Null, id1[1] = id2[1], id1[2] = id2[2]
               PROVE  id1 = id2
  BY DEF NoStaleRows
<1>2. chunks[id1].hash = chunks[id2].hash
  BY <1>1 DEF RowMatchesInventory
<1>3. id1[3] = id2[3]
  BY <1>1, <1>2 DEF CanonicalInv, RowsCanonical
<1> QED
  BY <1>1, <1>3 DEF ChunkId

LEMMA CanonicalInvStep ==
  ASSUME ~EditsRace
  PROVE  TypeInv /\ RowInv /\ QuietInv /\ CanonicalInv /\ [Next]_vars => CanonicalInv'
<1>1. ASSUME CanonicalInv, UNCHANGED <<chunks, chunkCache, job, faults>> PROVE CanonicalInv'
  BY <1>1 DEF CanonicalInv, CachesCanonical, RowsCanonical, DraftsCanonical
<1>2. UNCHANGED vars => UNCHANGED <<chunks, chunkCache, job, faults>>
  BY DEF vars
<1>3. \A f \in Path, c \in Content \cup {Absent} :
        Edit(f, c) => UNCHANGED <<chunks, chunkCache, job, faults>>
  BY DEF Edit, db, disk
<1> QED
  BY <1>1, <1>2, <1>3, CanonicalStep DEF Next, ProcStep

LEMMA QuietCorrect ==
  ASSUME ~EditsRace PROVE Spec => [](TypeInv /\ RowInv /\ QuietInv /\ CanonicalInv)
<1>1. TypeInv /\ RowInv /\ QuietInv /\ [Next]_vars => QuietInv'
  BY QuietInvStep
<1>2. TypeInv /\ RowInv /\ QuietInv /\ CanonicalInv /\ [Next]_vars => CanonicalInv'
  BY CanonicalInvStep
<1> QED
  BY <1>1, <1>2, RowInvCorrect, QuietInvInit, CanonicalInit, PTL DEF Spec

\* However builds overlap, and under whichever fingerprints, no rows of another
\* layout are left beside those of a file, as long as nothing fails.
THEOREM RowsStayFresh == ASSUME ~EditsRace PROVE Spec => []NoStaleRows
<1>1. RowInv /\ CanonicalInv => NoStaleRows
  BY CanonicalHasNoStaleRows DEF RowInv
<1> QED
  BY <1>1, QuietCorrect, PTL

-----------------------------------------------------------------------------
\* One layout per file, beside re-indexes.

\* What a re-index remembers of its baseline's rows is what was stored, and what
\* it clones is a file of both inventories.
Unlisted == {"list_baseline", "list_baseline_chunks"}

RowsRemembered(p) ==
    job[p].pc \notin Unlisted => \A f \in Path, l \in Layout :
      plan[p].rows[<<f, l>>] # Null =>
        /\ plan[p].rows[<<f, l>>].hash = plan[p].files[f]
        /\ faults = 0 => l = LayoutFor(plan[p].files[f])

ClonesShared(p) ==
    job[p].pc \in Rebuilding => \A f \in plan[p].clones \cup plan[p].reused :
      plan[p].files[f] = job[p].inventory[f]

RememberedInv ==
    \A p \in Proc : job[p].cmd = "reindex" => RowsRemembered(p) /\ ClonesShared(p)

LEMMA FaultsGrowBeside ==
  ASSUME RTypeInv, NEW p \in Proc, RStep(p), faults' = 0
  PROVE  faults = 0 /\ ~FaultStep(p) /\ ~CrashInClone(p)
<1>t. TypeInv /\ faults \in Nat
  BY RTyped, BoundAssumption DEF TypeOK
<1>1. CASE (StartOrFault(p) \/ PipelineStep(p)) /\ KeepPlan(p)
  <2>1. faults = 0 /\ ~FaultStep(p)
    BY <1>t, <1>1, SharedIsProc, FaultsGrow
  <2>2. ~CrashInClone(p)
    BY <1>t, <2>1 DEF CrashInClone, Fault
  <2> QED
    BY <2>1, <2>2
<1>2. CASE StartReindex(p) \/ OwnStep(p)
  <2>1. faults' = faults
    BY <1>2 DEF OwnStep, StartReindex, ListBaselineFiles, ListBaselineChunks, Resolve, Preview,
       BeginSnapshot, CheckExtract, Diff, CloneFile, CloneFails, UpsertReindexed, RecordRun, env
  <2>2. ~CrashInClone(p) /\ ~FaultStep(p)
    BY <1>t, <2>1 DEF CrashInClone, Fault, FaultStep, Crash, SnapshotInsertFails, ParserRaises,
       CrashInPayload, CrashInCache
  <2> QED
    BY <2>1, <2>2
<1>3. CASE CrashInClone(p)
  BY <1>t, <1>3 DEF CrashInClone, Fault
<1> QED
  BY <1>1, <1>2, <1>3 DEF RStep

\* A step that leaves a process's plan and inventory, and what it has listed.
LEMMA RememberedOn ==
  ASSUME RTypeInv, NEW p \in Proc, RowsRemembered(p), ClonesShared(p),
         faults' = 0 => faults = 0,
         job[p].pc \notin Unlisted,
         plan'[p].rows = plan[p].rows, plan'[p].files = plan[p].files,
         job'[p].pc \in Rebuilding =>
           /\ job[p].pc \in Rebuilding /\ job'[p].inventory = job[p].inventory
           /\ plan'[p].clones \cup plan'[p].reused \subseteq plan[p].clones \cup plan[p].reused
  PROVE  RowsRemembered(p)' /\ ClonesShared(p)'
BY DEF RowsRemembered, ClonesShared

LEMMA RememberedShared ==
  ASSUME RTypeInv, NEW p \in Proc, RStep(p), ProcStep(p), KeepPlan(p), job'[p].cmd = "reindex",
         RememberedInv
  PROVE  RowsRemembered(p)' /\ ClonesShared(p)'
<1>t. /\ TypeInv /\ PlanHolds(job[p], plan[p])
  BY RTyped
<1>1. job[p].cmd = "reindex"
  BY <1>t, StageOfOthers DEF PlanHolds
<1>2. StageMoves(job[p], job'[p])
  BY <1>t, <1>1, StageOfReindex DEF PlanHolds, At, NoJob
<1>3. plan'[p] = plan[p]
  BY <1>2, PlanKept DEF StageMoves
<1>4. job[p].pc \notin Unlisted
  BY <1>2 DEF StageMoves, Unlisted
<1>5. job'[p].pc \in Rebuilding =>
        job[p].pc \in Rebuilding /\ job'[p].inventory = job[p].inventory
  BY <1>2 DEF StageMoves, Rebuilding, Building
<1> QED
  BY <1>1, <1>3, <1>4, <1>5, FaultsGrowBeside, RememberedOn DEF RememberedInv

LEMMA PlanRowsKept ==
  ASSUME RTypeInv, NEW p \in Proc, Reads(p), ~ListBaselineChunks(p), job'[p] # NoJob
  PROVE  plan'[p].rows = plan[p].rows
<1>t. plan \in [Proc -> Plan] /\ plan[p] \in Plan /\ job \in [Proc -> Job]
  BY RTyped
<1>1. CASE ListBaselineFiles(p)
  BY <1>t, <1>1 DEF ListBaselineFiles, Plan
<1>2. CASE Resolve(p) \/ RecordRun(p)
  BY <1>2 DEF Resolve, RecordRun
<1>3. CASE Preview(p)
  BY <1>t, <1>3 DEF Preview, Plan
<1>4. CASE CheckExtract(p)
  <2>1. ~Finish(p)
    BY <1>t DEF Finish
  <2> QED
    BY <1>4, <2>1 DEF CheckExtract
<1> QED
  BY <1>1, <1>2, <1>3, <1>4 DEF Reads

\* The rows of the baseline are those of its inventory, which does not change.
LEMMA RowsListed ==
  ASSUME RTypeInv, RRowInv, CanonicalInv, NEW p \in Proc, PlanSound(p), ListBaselineChunks(p)
  PROVE  RowsRemembered(p)' /\ ClonesShared(p)'
<1>t. /\ job \in [Proc -> Job] /\ job[p] \in Job /\ plan \in [Proc -> Plan] /\ plan[p] \in Plan
      /\ PlanHolds(job[p], plan[p])
  BY RTyped
<1> DEFINE listed == [at \in Path \X Layout |-> chunks[<<plan[p].base, at[1], at[2]>>]]
<1>1. /\ plan' = [plan EXCEPT ![p].rows = listed]
      /\ job' = [job EXCEPT ![p].pc = "resolve"]
      /\ job[p].pc = "list_baseline_chunks"
      /\ faults' = faults
  BY DEF ListBaselineChunks, At, Goto, env
<1>2. job[p].cmd = "reindex" /\ plan[p].base \in Snap
  BY <1>t, <1>1 DEF PlanHolds, OwnPcs, Planning
<1>3. plan[p].files = files[plan[p].base]
  BY <1>1, <1>2 DEF PlanSound
<1>4. plan'[p].files = plan[p].files /\ plan'[p].rows = listed /\ job'[p].pc = "resolve"
  BY <1>t, <1>1 DEF Plan, Job
<1>5. ASSUME NEW f \in Path, NEW l \in Layout, listed[<<f, l>>] # Null
      PROVE  /\ listed[<<f, l>>].hash = plan[p].files[f]
             /\ faults = 0 => l = LayoutFor(plan[p].files[f])
  <2> DEFINE id == <<plan[p].base, f, l>>
  <2>1. listed[<<f, l>>] = chunks[id] /\ id \in ChunkId /\ id[1] = plan[p].base /\ id[2] = f
        /\ id[3] = l
    BY <1>2 DEF ChunkId
  <2> HIDE DEF id, listed
  <2>2. chunks[id].hash = files[plan[p].base][f]
    BY <1>5, <2>1 DEF RRowInv, RowInv, RowMatchesInventory
  <2>3. faults = 0 => l = LayoutFor(chunks[id].hash)
    BY <1>5, <2>1 DEF CanonicalInv, RowsCanonical
  <2> QED
    BY <1>3, <2>1, <2>2, <2>3
<1> HIDE DEF listed
<1>6. RowsRemembered(p)'
  BY <1>1, <1>4, <1>5 DEF RowsRemembered
<1>7. ClonesShared(p)'
  BY <1>4 DEF ClonesShared, Rebuilding, Building
<1> QED
  BY <1>6, <1>7

LEMMA RememberedOwn ==
  ASSUME RTypeInv, RRowInv, CanonicalInv, RememberedInv, NEW p \in Proc, PlanSound(p), RStep(p),
         StartReindex(p) \/ OwnStep(p) \/ CrashInClone(p), job'[p].cmd = "reindex"
  PROVE  RowsRemembered(p)' /\ ClonesShared(p)'
<1>t. /\ job[p] \in Job /\ plan[p] \in Plan /\ PlanHolds(job[p], plan[p])
  BY RTyped
<1>f. faults' = 0 => faults = 0
  BY FaultsGrowBeside
<1>1. CASE StartReindex(p)
  BY <1>1, ReindexStarts DEF RowsRemembered, ClonesShared, Unlisted, Rebuilding, Building
<1>2. ASSUME OwnStep(p) \/ CrashInClone(p) PROVE job[p].cmd = "reindex"
  BY <1>2, OwnStays, SnapshotTaken
<1>r. ASSUME job[p].cmd = "reindex" PROVE RowsRemembered(p) /\ ClonesShared(p)
  BY <1>r DEF RememberedInv
<1>3. CASE ListBaselineChunks(p)
  BY <1>3, RowsListed
<1>4. CASE Reads(p) /\ ~ListBaselineChunks(p)
  <2>1. plan'[p].rows = plan[p].rows /\ OwnMoves(job[p], job'[p], plan[p], plan'[p])
        /\ job[p].cmd = "reindex"
    BY <1>2, <1>4, PlanRowsKept, ReadsMove DEF NoJob, Reads, OwnStep
  <2>2. CASE job[p].pc = "list_baseline"
    <3>1. job'[p].pc = "list_baseline_chunks"
      BY <2>1, <2>2 DEF OwnMoves
    <3> QED
      BY <3>1 DEF RowsRemembered, ClonesShared, Unlisted, Rebuilding, Building
  <2>3. CASE job[p].pc # "list_baseline"
    <3>1. plan'[p].files = plan[p].files /\ job'[p].pc \notin Rebuilding
      BY <2>1, <2>3 DEF OwnMoves, Rebuilding, Building
    <3>2. job[p].pc \notin Unlisted
      BY <1>4, <2>3 DEF Unlisted, Reads, ListBaselineFiles, Resolve, Preview, CheckExtract,
         RecordRun, At
    <3> QED
      BY <1>f, <1>r, <2>1, <3>1, <3>2, RememberedOn
  <2> QED
    BY <2>2, <2>3
<1>5. CASE BeginSnapshot(p)
  <2>1. /\ job[p].pc = "begin_snapshot" /\ job[p].cmd = "reindex"
        /\ plan' = plan /\ job'[p].pc = "write_manifest"
    BY <1>5, SnapshotTaken DEF NoJob
  <2>2. job[p].pc \notin Unlisted /\ job'[p].pc \notin Rebuilding
    BY <2>1 DEF Unlisted, Rebuilding, Building
  <2> QED
    BY <1>f, <1>r, <2>1, <2>2, RememberedOn
<1>6. CASE Diff(p)
  <2>1. /\ job'[p].inventory = StoredInventory(p) /\ plan'[p].rows = plan[p].rows
        /\ plan'[p].files = plan[p].files /\ plan'[p].reused = {}
        /\ plan'[p].clones \subseteq Unchanged(p, StoredInventory(p))
        /\ job[p].pc = "diff"
    BY <1>6, Diffed DEF Diff, At
  <2>2. RowsRemembered(p)
    BY <1>2, <1>6, <1>r DEF OwnStep
  <2>3. RowsRemembered(p)'
    BY <1>f, <2>1, <2>2 DEF RowsRemembered, Unlisted
  <2>4. ClonesShared(p)'
    BY <2>1 DEF ClonesShared, Unchanged
  <2> QED
    BY <2>3, <2>4
<1>7. CASE CloneFile(p) \/ CloneFails(p)
  <2>1. PICK f \in plan[p].clones : ClonesOne(p, f)
    BY <1>7, Cloned
  <2>2. job[p].pc = "clone"
    BY <1>7 DEF CloneFile, CloneFails, At
  <2>3. job[p].pc \notin Unlisted /\ job[p].pc \in Rebuilding
    BY <2>2 DEF Unlisted, Rebuilding
  <2>4. /\ plan'[p].rows = plan[p].rows /\ plan'[p].files = plan[p].files
        /\ job'[p].inventory = job[p].inventory
        /\ plan'[p].clones \cup plan'[p].reused \subseteq plan[p].clones \cup plan[p].reused
    BY <2>1 DEF ClonesOne
  <2> QED
    BY <1>2, <1>7, <1>f, <1>r, <2>3, <2>4, RememberedOn DEF OwnStep
<1>8. CASE UpsertReindexed(p)
  <2>1. /\ job[p].pc = "materialize" /\ job[p].cmd = "reindex" /\ plan' = plan
        /\ job'[p].inventory = job[p].inventory
    BY <1>8, RowsReindexed
  <2>2. job[p].pc \notin Unlisted /\ job[p].pc \in Rebuilding
    BY <2>1 DEF Unlisted, Rebuilding, Building
  <2> QED
    BY <1>f, <1>r, <2>1, <2>2, RememberedOn
<1>9. CASE CrashInClone(p)
  BY <1>9, RTyped DEF CrashInClone, Finish, NoJob
<1> QED
  BY <1>1, <1>3, <1>4, <1>5, <1>6, <1>7, <1>8, <1>9 DEF OwnStep, Reads

LEMMA RememberedStep ==
  ASSUME RTypeInv, RRowInv, UndisturbedInv, CanonicalInv, RememberedInv, NEW p \in Proc, RStep(p)
  PROVE  RememberedInv'
<1>t. TypeInv
  BY RTyped
<1>1. ASSUME NEW q \in Proc, q # p, job'[q].cmd = "reindex"
      PROVE  RowsRemembered(q)' /\ ClonesShared(q)'
  <2>1. job'[q] = job[q] /\ plan'[q] = plan[q]
    BY <1>t, <1>1, SharedIsProc, OthersWait, PlanKept, OwnStore DEF RStep
  <2> QED
    BY <1>1, <2>1, FaultsGrowBeside DEF RememberedInv, RowsRemembered, ClonesShared
<1>2. job'[p].cmd = "reindex" => RowsRemembered(p)' /\ ClonesShared(p)'
  BY SharedIsProc, RememberedShared, RememberedOwn DEF RStep, UndisturbedInv
<1> QED
  BY <1>1, <1>2 DEF RememberedInv

\* What a re-index clones was laid out for the text the file still has.
LEMMA CanonicalRowsOwn ==
  ASSUME RTypeInv, RememberedInv, RowsCanonical, faults = 0, NEW p \in Proc, DraftsCanonical(p),
         StartReindex(p) \/ OwnStep(p) \/ CrashInClone(p)
  PROVE  RowsCanonical'
<1>1. CASE UpsertReindexed(p)
  <2>u. /\ job[p].pc = "materialize" /\ job[p].cmd = "reindex"
        /\ \A id \in ChunkId :
             \/ chunks'[id] = chunks[id]
             \/ /\ IsClone(p, id) \/ (job[p].drafts[id[2]] # Null /\ id = IdOf(p, id[2]))
                /\ chunks'[id].hash = job[p].inventory[id[2]]
    BY <1>1, RowsReindexed
  <2>p. RowsRemembered(p) /\ ClonesShared(p)
    BY <2>u DEF RememberedInv
  <2>1. ASSUME NEW id \in ChunkId, chunks'[id] # Null PROVE id[3] = LayoutFor(chunks'[id].hash)
    <3>1. id[2] \in Path /\ id[3] \in Layout
      BY DEF ChunkId
    <3>2. CASE chunks'[id] = chunks[id]
      BY <2>1, <3>2 DEF RowsCanonical
    <3>3. CASE IsClone(p, id) /\ chunks'[id].hash = job[p].inventory[id[2]]
      <4>1. id[2] \in plan[p].reused /\ plan[p].rows[<<id[2], id[3]>>] # Null
        BY <3>3 DEF IsClone, Layouts
      <4>2. id[3] = LayoutFor(plan[p].files[id[2]])
        BY <2>p, <2>u, <3>1, <4>1 DEF RowsRemembered, Unlisted
      <4>3. plan[p].files[id[2]] = job[p].inventory[id[2]]
        BY <2>p, <2>u, <4>1 DEF ClonesShared, Rebuilding, Building
      <4> QED
        BY <3>3, <4>2, <4>3
    <3>4. CASE /\ job[p].drafts[id[2]] # Null /\ id = IdOf(p, id[2])
               /\ chunks'[id].hash = job[p].inventory[id[2]]
      <4>1. job[p].drafts[id[2]] = Canonical(job[p].inventory[id[2]])
        BY <2>u, <3>1, <3>4 DEF DraftsCanonical, Building
      <4>2. id[3] = LayoutOf[job[p].drafts[id[2]].text][job[p].drafts[id[2]].cut]
        BY <3>4 DEF IdOf
      <4> QED
        BY <3>4, <4>1, <4>2 DEF LayoutFor, Canonical
    <3> QED
      BY <2>u, <3>2, <3>3, <3>4
  <2> QED
    BY <2>1 DEF RowsCanonical
<1>2. CASE ~UpsertReindexed(p)
  <2>1. chunks' = chunks
    BY <1>2, OwnStore
  <2> QED
    BY <2>1 DEF RowsCanonical
<1> QED
  BY <1>1, <1>2

LEMMA CanonicalDraftsOwn ==
  ASSUME RTypeInv, NEW p \in Proc, DraftsCanonical(p),
         StartReindex(p) \/ OwnStep(p) \/ CrashInClone(p)
  PROVE  DraftsCanonical(p)'
<1>t. job[p] \in Job /\ PlanHolds(job[p], plan[p])
  BY RTyped
<1>i. job'[p] = NoJob => DraftsCanonical(p)'
  BY DEF DraftsCanonical, NoJob, Building
<1>1. CASE StartReindex(p)
  BY <1>1, ReindexStarts DEF DraftsCanonical, Building
<1>2. CASE Reads(p)
  <2>1. OwnMoves(job[p], job'[p], plan[p], plan'[p]) => job'[p].pc \notin Building
    BY DEF OwnMoves, Building
  <2> QED
    BY <1>2, <1>i, <2>1, ReadsMove DEF DraftsCanonical
<1>3. CASE BeginSnapshot(p)
  BY <1>3, <1>i, SnapshotTaken DEF DraftsCanonical, Building
<1>4. CASE Diff(p)
  BY <1>4, Diffed DEF DraftsCanonical, NoDrafts
<1>5. CASE CloneFile(p) \/ CloneFails(p)
  <2>1. job[p].pc = "clone" /\ job[p].drafts = NoDrafts
    BY <1>5, <1>t DEF CloneFile, CloneFails, At, PlanHolds, OwnPcs, Building, Ending
  <2>2. job'[p].drafts = job[p].drafts
    BY <1>5, Cloned DEF ClonesOne
  <2> QED
    BY <2>1, <2>2 DEF DraftsCanonical, NoDrafts
<1>6. CASE UpsertReindexed(p)
  <2>1. /\ job[p].pc \in Building /\ job'[p].drafts = job[p].drafts
        /\ job'[p].inventory = job[p].inventory
    BY <1>6, RowsReindexed DEF Building
  <2> QED
    BY <2>1 DEF DraftsCanonical
<1>7. CASE CrashInClone(p)
  BY <1>7, <1>i, RTyped DEF CrashInClone, Finish
<1> QED
  BY <1>1, <1>2, <1>3, <1>4, <1>5, <1>6, <1>7 DEF OwnStep, Reads

LEMMA CanonicalStepBeside ==
  ASSUME RTypeInv, RRowInv, UndisturbedInv, CanonicalInv, RememberedInv, NEW p \in Proc, RStep(p)
  PROVE  CanonicalInv'
<1>t. TypeInv
  BY RTyped
<1>1. CASE (StartOrFault(p) \/ PipelineStep(p)) /\ KeepPlan(p)
  BY <1>t, <1>1, SharedIsProc, CanonicalStep DEF RRowInv, UndisturbedInv
<1>2. CASE StartReindex(p) \/ OwnStep(p) \/ CrashInClone(p)
  <2>1. SUFFICES ASSUME faults' = 0
                 PROVE  (CachesCanonical /\ RowsCanonical /\ \A q \in Proc : DraftsCanonical(q))'
    BY DEF CanonicalInv
  <2>2. /\ faults = 0 /\ CachesCanonical /\ RowsCanonical
        /\ \A q \in Proc : DraftsCanonical(q)
    BY <2>1, FaultsGrowBeside DEF CanonicalInv
  <2>o. chunkCache' = chunkCache /\ \A q \in Proc : q # p => job'[q] = job[q]
    BY <1>2, OwnStore
  <2>3. CachesCanonical'
    BY <2>2, <2>o DEF CachesCanonical
  <2>4. RowsCanonical'
    BY <1>2, <2>2, CanonicalRowsOwn
  <2>5. ASSUME NEW q \in Proc, q # p PROVE DraftsCanonical(q)'
    BY <2>2, <2>5, <2>o DEF DraftsCanonical
  <2>6. DraftsCanonical(p)'
    BY <1>2, <2>2, CanonicalDraftsOwn
  <2> QED
    BY <2>3, <2>4, <2>5, <2>6
<1> QED
  BY <1>1, <1>2 DEF RStep

LayoutInv == CanonicalInv /\ RememberedInv

LEMMA LayoutInvInit == ReindexInit => LayoutInv
<1>1. ReindexInit => CanonicalInv
  BY CanonicalInit DEF ReindexInit
<1>2. ReindexInit => RememberedInv
  BY DEF ReindexInit, Init, RememberedInv, NoJob
<1> QED
  BY <1>1, <1>2 DEF LayoutInv

LEMMA LayoutInvStep ==
  RTypeInv /\ RRowInv /\ UndisturbedInv /\ LayoutInv /\ [ReindexNext]_reindexVars => LayoutInv'
<1>1. ASSUME LayoutInv, UNCHANGED <<chunks, chunkCache, job, plan, faults>> PROVE LayoutInv'
  BY <1>1 DEF LayoutInv, CanonicalInv, CachesCanonical, RowsCanonical, DraftsCanonical,
     RememberedInv, RowsRemembered, ClonesShared
<1>2. UNCHANGED reindexVars => UNCHANGED <<chunks, chunkCache, job, plan, faults>>
  BY DEF reindexVars, vars
<1>3. \A f \in Path, c \in Content \cup {Absent} :
        EditBesideReindex(f, c) => UNCHANGED <<chunks, chunkCache, job, plan, faults>>
  BY DEF EditBesideReindex, Edit, db, disk
<1> QED
  BY <1>1, <1>2, <1>3, CanonicalStepBeside, RememberedStep DEF ReindexNext, RStep, LayoutInv

LEMMA LayoutCorrect ==
  ASSUME ~EditsRace
  PROVE  ReindexSpec => [](RTypeInv /\ RRowInv /\ UndisturbedInv /\ LayoutInv)
<1>1. RTypeInv /\ RRowInv /\ (raced \/ UndisturbedInv) /\ ~raced /\ LayoutInv
        /\ [ReindexNext]_reindexVars => LayoutInv'
  BY LayoutInvStep
<1> QED
  BY <1>1, UndisturbedCorrect, NeverRaced, LayoutInvInit, PTL DEF ReindexSpec

\* A re-index that clones the rows of its baseline leaves no stale ones either.
THEOREM ReindexedRowsStayFresh == ASSUME ~EditsRace PROVE ReindexSpec => []NoStaleRows
<1>1. RRowInv /\ LayoutInv => NoStaleRows
  BY CanonicalHasNoStaleRows DEF RRowInv, RowInv, LayoutInv
<1> QED
  BY <1>1, LayoutCorrect, PTL

-----------------------------------------------------------------------------
\* Payloads stay readable while the command that wrote them goes on, unless
\* another one dies inside a write of the same snapshot.

\* Processes that fail do so alone.
FailsAlone == MaxFaults = 0 \/ \A p, q \in Proc : p = q

\* What a build has written is readable.
DraftsWhole(p) ==
    /\ job[p].pc \in Building => \A f \in Path :
         job[p].drafts[f] # Null /\ f \notin job[p].todo => payloads[IdOf(p, f)] # Torn
    /\ At(p, "mark_chunks") => job[p].todo = {}

WholeInv == \A p \in Proc : DraftsWhole(p)

\* Payloads are written to stored snapshots, so those of one that a re-index has
\* taken for itself are its own.
PayloadsOwned == \A id \in ChunkId : payloads[id] # Null => revision[id[1]] # Null

SnapshotWhole(p) ==
    job[p].cmd = "reindex" /\ HasOwnSnapshot(job[p], plan[p]) =>
      \A id \in ChunkId : id[1] = job[p].snap => payloads[id] # Torn

OwnedInv == PayloadsOwned /\ \A p \in Proc : SnapshotWhole(p)

\* What a step of p may do to a payload file.
Writes(p) ==
    \A id \in ChunkId :
      \/ payloads'[id] = payloads[id]
      \/ /\ id[1] = job[p].snap /\ job[p].pc \notin Creating \cup {"idle"}
         /\ payloads'[id] \in Content \/ (MaxFaults # 0 /\ job'[p] = NoJob)

LEMMA FaultsBounded == ASSUME TypeInv, Fault PROVE MaxFaults # 0
BY BoundAssumption DEF TypeInv, TypeOK, Fault

LEMMA SharedWrites ==
  ASSUME TypeInv, NEW p \in Proc, ProcStep(p)
  PROVE  Writes(p)
<1>t. TypeOK /\ job \in [Proc -> Job] /\ job[p] \in Job
  BY DEF TypeInv, TypeOK
<1>1. CASE WritePayload(p)
  <2>1. PICK f \in Path :
          NextFile(p, f) /\ payloads' = [payloads EXCEPT ![IdOf(p, f)] = job[p].drafts[f].text]
    BY <1>1 DEF WritePayload
  <2>2. job[p].drafts[f] \in Draft /\ job[p].pc = "write_payload"
    BY <1>1, <2>1, FileTyped DEF WritePayload, At
  <2>3. job[p].drafts[f].text \in Content /\ IdOf(p, f)[1] = job[p].snap
    BY <2>2 DEF Draft, IdOf
  <2> QED
    BY <1>t, <2>1, <2>2, <2>3 DEF Writes, TypeOK, Creating
<1>2. CASE CrashInPayload(p)
  <2>1. PICK f \in Path : payloads' = [payloads EXCEPT ![IdOf(p, f)] = Torn]
    BY <1>2 DEF CrashInPayload
  <2>2. IdOf(p, f)[1] = job[p].snap /\ job[p].pc = "write_payload"
    BY <1>2 DEF IdOf, CrashInPayload, At
  <2>3. MaxFaults # 0 /\ job'[p] = NoJob
    BY <1>t, <1>2, FaultsBounded DEF CrashInPayload, Finish
  <2> QED
    BY <1>t, <2>1, <2>2, <2>3 DEF Writes, TypeOK, Creating
<1>3. CASE ~WritePayload(p) /\ ~CrashInPayload(p)
  <2>1. payloads' = payloads
    BY <1>3 DEF ProcStep, StartSnapshot, StartExtract, StartBuild, StageStep, SharedStep,
       FaultStep, WriteManifest, InsertSnapshot, Scan, InsertFiles, MarkExtracted, ListFiles,
       ReuseDrafts, GenerateDrafts, ReadFails, UpsertChunks, MarkChunks, RecordProvenance,
       Crash, SnapshotInsertFails, ParserRaises, CrashInCache, disk
  <2> QED
    BY <2>1 DEF Writes
<1> QED
  BY <1>1, <1>2, <1>3

LEMMA OwnWrites ==
  ASSUME RTypeInv, NEW p \in Proc, StartReindex(p) \/ OwnStep(p) \/ CrashInClone(p)
  PROVE  Writes(p)
<1>t. TypeInv /\ TypeOK /\ job \in [Proc -> Job]
  BY RTyped
<1>1. CASE CloneFile(p) \/ CloneFails(p)
  <2>f. PICK f \in Path : ClonesOne(p, f)
    BY <1>1, Cloned
  <2>1. PICK layouts \in SUBSET {l \in Layouts(p, f) :
                                   payloads[<<plan[p].base, f, l>>] \in Content} :
          payloads' = Copied(p, f, layouts)
    BY <2>f DEF ClonesOne
  <2>2. job[p].pc = "clone"
    BY <1>1 DEF CloneFile, CloneFails, At
  <2> QED
    BY <2>1, <2>2, CopiesAdd DEF Writes, Creating
<1>2. CASE CrashInClone(p)
  <2>1. PICK f \in Path : \E l \in Layout :
          payloads' = [payloads EXCEPT ![<<job[p].snap, f, l>>] = Torn]
    BY <1>2 DEF CrashInClone
  <2>2. PICK l \in Layout : payloads' = [payloads EXCEPT ![<<job[p].snap, f, l>>] = Torn]
    BY <2>1
  <2>3. MaxFaults # 0 /\ job'[p] = NoJob /\ job[p].pc = "clone"
    BY <1>t, <1>2, FaultsBounded DEF CrashInClone, Finish, At
  <2> QED
    BY <1>t, <2>2, <2>3 DEF Writes, TypeOK, Creating
<1>3. CASE ~CloneFile(p) /\ ~CloneFails(p) /\ ~CrashInClone(p)
  <2>1. payloads' = payloads
    BY <1>3 DEF OwnStep, StartReindex, ListBaselineFiles, ListBaselineChunks, Resolve, Preview,
       BeginSnapshot, CheckExtract, Diff, UpsertReindexed, RecordRun, disk
  <2> QED
    BY <2>1 DEF Writes
<1> QED
  BY <1>1, <1>2, <1>3

\* A step that goes on tears nothing, and beside others none does.
LEMMA NothingTorn ==
  ASSUME NEW p \in Proc, Writes(p), FailsAlone, NEW q \in Proc, job'[q] # NoJob,
         NEW id \in ChunkId, payloads'[id] = Torn
  PROVE  payloads[id] = Torn
BY SentinelAssumption DEF Writes, FailsAlone

LEMMA DraftsWholeWaiting ==
  ASSUME TypeInv, FailsAlone, NEW p \in Proc, Writes(p), NEW q \in Proc,
         DraftsWhole(q), job'[q] = job[q]
  PROVE  DraftsWhole(q)'
<1>1. CASE job[q].pc \in Building
  <2>1. job[q] # NoJob /\ job[q] \in Job /\ job[q].snap \in Snap
    BY <1>1 DEF NoJob, Building, TypeInv, TypeOK, JobOK, JobHolds
  <2>2. ASSUME NEW f \in Path, job[q].drafts[f] # Null, f \notin job[q].todo
        PROVE  payloads'[IdOf(q, f)] # Torn
    <3>1. job[q].drafts[f] \in Draft
      BY <2>1, <2>2 DEF Job
    <3>2. IdOf(q, f) \in ChunkId
      BY <2>1, <3>1, DraftLaidOut
    <3>3. payloads[IdOf(q, f)] # Torn
      BY <1>1, <2>2 DEF DraftsWhole
    <3> QED
      BY <2>1, <3>2, <3>3, NothingTorn
  <2>3. \A f \in Path : IdOf(q, f)' = IdOf(q, f)
    BY DEF IdOf
  <2> QED
    BY <1>1, <2>2, <2>3 DEF DraftsWhole, At
<1>2. CASE job[q].pc \notin Building
  BY <1>2 DEF DraftsWhole, At, Building
<1> QED
  BY <1>1, <1>2

LEMMA DraftsWholeMoving ==
  ASSUME TypeInv, FailsAlone, NEW p \in Proc, ProcStep(p), DraftsWhole(p),
         job[p].pc \in Building, job'[p].pc \in Building, StageMoves(job[p], job'[p])
  PROVE  DraftsWhole(p)'
<1>t. job \in [Proc -> Job] /\ job[p] \in Job /\ job[p].snap \in Snap /\ TypeOK
  BY DEF TypeInv, TypeOK, JobOK, JobHolds, Building
<1>n. job'[p] # NoJob
  BY DEF NoJob, Building
<1>w. Writes(p)
  BY SharedWrites
<1>1. ASSUME NEW f \in Path, job[p].drafts[f] # Null, f \notin job[p].todo,
             job'[p].drafts[f] = job[p].drafts[f]
      PROVE  payloads'[IdOf(p, f)'] # Torn
  <2>1. IdOf(p, f)' = IdOf(p, f)
    BY <1>1 DEF IdOf, StageMoves, Keeps
  <2>2. job[p].drafts[f] \in Draft
    BY <1>t, <1>1 DEF Job
  <2>3. IdOf(p, f) \in ChunkId
    BY <1>t, <2>2, DraftLaidOut
  <2>4. payloads[IdOf(p, f)] # Torn
    BY <1>1 DEF DraftsWhole
  <2> QED
    BY <1>n, <1>w, <2>1, <2>3, <2>4, NothingTorn
<1>2. CASE job'[p].drafts = job[p].drafts /\ job'[p].todo = job[p].todo
  <2>1. At(p, "mark_chunks")' => job'[p].todo = {}
    BY <1>2 DEF StageMoves, At, Building
  <2> QED
    BY <1>1, <1>2, <2>1 DEF DraftsWhole
<1>3. CASE job[p].pc = "materialize" /\ job'[p].pc = "write_payload"
  <2>1. /\ job'[p].todo = job[p].todo
        /\ \E f \in job[p].todo : \A g \in Path :
             g # f => job'[p].drafts[g] = job[p].drafts[g]
    BY <1>3, <1>t DEF StageMoves, Job
  <2> QED
    BY <1>1, <1>3, <2>1 DEF DraftsWhole, At
<1>4. CASE job[p].pc = "write_payload" /\ job'[p].pc = "materialize"
  <2>1. WritePayload(p)
    <3>1. ~Finish(p)
      BY <1>n, <1>t DEF Finish
    <3>2. ~ListFiles(p)
      BY <1>4 DEF ListFiles, At
    <3> QED
      BY <1>4, <1>t, <3>1, <3>2
      DEF ProcStep, StageStep, SharedStep, FaultStep, StartSnapshot, StartExtract, StartBuild,
          WriteManifest, InsertSnapshot, Scan, InsertFiles, MarkExtracted, ReuseDrafts,
          GenerateDrafts, ReadFails, UpsertChunks, MarkChunks, RecordProvenance, Crash,
          SnapshotInsertFails, ParserRaises, CrashInPayload, CrashInCache, At
  <2>2. PICK f \in Path :
          /\ NextFile(p, f) /\ payloads' = [payloads EXCEPT ![IdOf(p, f)] = job[p].drafts[f].text]
          /\ job' = [job EXCEPT ![p].todo = @ \ {f}, ![p].pc = "materialize"]
    BY <2>1 DEF WritePayload
  <2>3. job'[p].drafts = job[p].drafts /\ job'[p].todo = job[p].todo \ {f}
    BY <1>t, <2>2 DEF Job
  <2>4. job[p].drafts[f] \in Draft /\ IdOf(p, f) \in ChunkId
    BY <1>4, <1>t, <2>2, FileTyped, DraftLaidOut DEF At
  <2>5. job[p].drafts[f].text # Torn
    BY <2>4, SentinelAssumption DEF Draft
  <2>6. payloads'[IdOf(p, f)] # Torn
    BY <1>t, <2>2, <2>4, <2>5 DEF TypeOK
  <2>7. \A g \in Path : IdOf(p, g)' = IdOf(p, g)
    BY <2>3 DEF IdOf, StageMoves, Keeps
  <2> QED
    BY <1>1, <1>4, <2>3, <2>6, <2>7 DEF DraftsWhole, At
<1> QED
  BY <1>2, <1>3, <1>4 DEF StageMoves, Building

LEMMA DraftsWholeStep ==
  ASSUME TypeInv, FailsAlone, NEW p \in Proc, ProcStep(p), DraftsWhole(p)
  PROVE  DraftsWhole(p)'
<1>1. CASE job'[p].pc \notin Building
  BY <1>1 DEF DraftsWhole, At, Building
<1>2. CASE ListMoves(job[p], job'[p])
  BY <1>2 DEF ListMoves, DraftsWhole, NoDrafts, At
<1>3. CASE /\ job[p].pc \in Building /\ job'[p].pc \in Building
           /\ StageMoves(job[p], job'[p])
  BY <1>3, DraftsWholeMoving
<1> QED
  BY <1>1, <1>2, <1>3, BuildingMoves

\* A marked build has written all it holds, and what is there is what was hashed.
LEMMA WholeRepairs ==
  TypeInv /\ RowInv /\ TextsSound /\ WholeInv => BuildRepairsPayloads
<1>1. SUFFICES ASSUME TypeInv, RowInv, TextsSound, WholeInv, NEW p \in Proc,
                      At(p, "mark_chunks"), NEW f \in Path, job[p].drafts[f] # Null
               PROVE  payloads[IdOf(p, f)] = job[p].inventory[f]
  BY DEF BuildRepairsPayloads
<1>t. /\ job[p].pc \in Building /\ job[p] \in Job /\ job[p].snap \in Snap
      /\ job[p].inventory[f] # Absent
  BY <1>1 DEF TypeInv, TypeOK, JobOK, JobHolds, Building, At
<1>2. IdOf(p, f) \in ChunkId /\ IdOf(p, f)[1] = job[p].snap /\ IdOf(p, f)[2] = f
  <2>1. job[p].drafts[f] \in Draft
    BY <1>1, <1>t DEF Job
  <2> QED
    BY <1>1, <1>t, <2>1, DraftLaidOut DEF IdOf
<1>3. f \notin job[p].todo /\ payloads[IdOf(p, f)] # Torn
  BY <1>1, <1>t DEF WholeInv, DraftsWhole
<1>4. payloads[IdOf(p, f)] # Null /\ files[job[p].snap][f] = job[p].inventory[f]
  BY <1>1, <1>t, <1>3 DEF RowInv, BuildBacked, Backed
<1> QED
  BY <1>1, <1>2, <1>3, <1>4 DEF TextsSound

LEMMA WholeInvInit == Init => WholeInv
BY DEF Init, WholeInv, DraftsWhole, NoJob, Building, At

LEMMA WholeInvStep == ASSUME FailsAlone PROVE TypeInv /\ WholeInv /\ [Next]_vars => WholeInv'
<1>1. ASSUME WholeInv, UNCHANGED <<payloads, job>> PROVE WholeInv'
  BY <1>1 DEF WholeInv, DraftsWhole, IdOf, At
<1>2. UNCHANGED vars => UNCHANGED <<payloads, job>>
  BY DEF vars
<1>3. \A f \in Path, c \in Content \cup {Absent} : Edit(f, c) => UNCHANGED <<payloads, job>>
  BY DEF Edit, disk
<1>4. ASSUME TypeInv, WholeInv, NEW p \in Proc, ProcStep(p) PROVE WholeInv'
  BY <1>4, SharedWrites, OthersWait, DraftsWholeWaiting, DraftsWholeStep DEF WholeInv
<1> QED
  BY <1>1, <1>2, <1>3, <1>4 DEF Next, ProcStep

\* A build that gets as far as its mark has repaired what an earlier crash left.
THEOREM BuildsRepairPayloads ==
  ASSUME ~EditsRace, FailsAlone PROVE Spec => []BuildRepairsPayloads
<1>1. TypeInv /\ RowInv /\ QuietInv /\ WholeInv => BuildRepairsPayloads
  BY WholeRepairs DEF QuietInv
<1>2. TypeInv /\ WholeInv /\ [Next]_vars => WholeInv'
  BY WholeInvStep
<1> QED
  BY <1>1, <1>2, QuietCorrect, WholeInvInit, PTL DEF Spec

-----------------------------------------------------------------------------
\* The same beside re-indexes, and the snapshot that one takes for itself.

LEMMA DraftsWholeOwn ==
  ASSUME RTypeInv, FailsAlone, NEW p \in Proc, DraftsWhole(p),
         StartReindex(p) \/ OwnStep(p) \/ CrashInClone(p)
  PROVE  DraftsWhole(p)'
<1>t. TypeInv /\ job[p] \in Job /\ PlanHolds(job[p], plan[p])
  BY RTyped
<1>i. job'[p].pc \notin Building => DraftsWhole(p)'
  BY DEF DraftsWhole, At, Building
<1>n. NoJob.pc \notin Building
  BY DEF NoJob, Building
<1>1. CASE StartReindex(p) \/ BeginSnapshot(p)
  BY <1>1, <1>i, <1>n, ReindexStarts, SnapshotTaken DEF Building
<1>2. CASE Reads(p)
  <2>1. OwnMoves(job[p], job'[p], plan[p], plan'[p]) => job'[p].pc \notin Building
    BY DEF OwnMoves, Building
  <2> QED
    BY <1>2, <1>i, <1>n, <2>1, ReadsMove
<1>3. CASE Diff(p) \/ CloneFile(p) \/ CloneFails(p)
  <2>1. job[p].pc \in {"diff", "clone"} /\ job[p].drafts = NoDrafts
    BY <1>3, <1>t DEF Diff, CloneFile, CloneFails, At, PlanHolds, OwnPcs, Building, Ending
  <2>2. job'[p].drafts = NoDrafts /\ job'[p].pc # "mark_chunks"
    <3>1. CASE Diff(p)
      BY <3>1, Diffed
    <3>2. CASE CloneFile(p) \/ CloneFails(p)
      BY <2>1, <3>2, Cloned DEF ClonesOne
    <3> QED
      BY <1>3, <3>1, <3>2
  <2> QED
    BY <2>2 DEF DraftsWhole, NoDrafts, At
<1>4. CASE UpsertReindexed(p)
  <2>1. /\ job[p].pc \in Building /\ job[p].todo = {} /\ Keeps(job[p], job'[p])
        /\ job'[p].drafts = job[p].drafts /\ job'[p].todo = job[p].todo /\ payloads' = payloads
    BY <1>4, RowsReindexed DEF Building, disk
  <2>2. \A f \in Path : IdOf(p, f)' = IdOf(p, f)
    BY <2>1 DEF IdOf, Keeps
  <2> QED
    BY <2>1, <2>2 DEF DraftsWhole, At
<1>5. CASE CrashInClone(p)
  BY <1>5, <1>i, <1>n, RTyped DEF CrashInClone, Finish
<1> QED
  BY <1>1, <1>2, <1>3, <1>4, <1>5 DEF OwnStep, Reads

LEMMA PayloadsOwnedStep ==
  ASSUME RTypeInv, RRowInv, PayloadsOwned, Advance, NEW p \in Proc, Writes(p)
  PROVE  PayloadsOwned'
<1>1. ASSUME NEW id \in ChunkId, payloads'[id] # Null PROVE revision'[id[1]] # Null
  <2>1. id[1] \in Snap
    BY DEF ChunkId
  <2>2. revision[id[1]] # Null
    BY <1>1 DEF Writes, PayloadsOwned, RRowInv, RowInv, SnapshotsOwned, Owns
  <2> QED
    BY <2>1, <2>2 DEF Advance
<1> QED
  BY <1>1 DEF PayloadsOwned

\* A snapshot that a step of p leaves to be p's own was so before, or is new.
OwnBefore(p) ==
    job'[p].cmd = "reindex" /\ HasOwnSnapshot(job'[p], plan'[p]) =>
      \/ /\ job[p].cmd = "reindex" /\ HasOwnSnapshot(job[p], plan[p])
         /\ job'[p].snap = job[p].snap
      \/ BeginSnapshot(p) /\ clock + 1 \in Snap /\ job'[p].snap = clock + 1

LEMMA OwnBeforeShared ==
  ASSUME RTypeInv, NEW p \in Proc, ProcStep(p), KeepPlan(p)
  PROVE  OwnBefore(p)
<1>t. TypeInv /\ PlanHolds(job[p], plan[p])
  BY RTyped
<1>1. SUFFICES ASSUME job'[p].cmd = "reindex", HasOwnSnapshot(job'[p], plan'[p])
               PROVE  /\ job[p].cmd = "reindex" /\ HasOwnSnapshot(job[p], plan[p])
                      /\ job'[p].snap = job[p].snap
  BY DEF OwnBefore
<1>2. job[p].cmd = "reindex"
  BY <1>1, <1>t, StageOfOthers DEF PlanHolds
<1>3. job'[p] # NoJob /\ StageMoves(job[p], job'[p])
  BY <1>1, <1>t, <1>2, StageOfReindex DEF PlanHolds, At, NoJob
<1>4. job'[p].pc # "idle"
  BY <1>3 DEF StageMoves
<1>5. plan'[p] = plan[p]
  BY <1>4, PlanKept
<1>6. job[p].pc \in OwnSnapshot
  BY <1>3 DEF StageMoves, OwnSnapshot, Scanned, Rebuilding, Building, Creating
<1> QED
  BY <1>2, <1>3, <1>6 DEF StageMoves, Keeps, HasOwnSnapshot

LEMMA OwnBeforeOwn ==
  ASSUME RTypeInv, NEW p \in Proc, StartReindex(p) \/ OwnStep(p) \/ CrashInClone(p)
  PROVE  OwnBefore(p)
<1>t. PlanHolds(job[p], plan[p])
  BY RTyped
<1>n. ~HasOwnSnapshot(NoJob, plan'[p])
  BY DEF HasOwnSnapshot, NoJob, OwnSnapshot, Scanned, Rebuilding, Building, Creating, Ending
<1>1. CASE StartReindex(p)
  BY <1>1, ReindexStarts
  DEF OwnBefore, HasOwnSnapshot, OwnSnapshot, Scanned, Rebuilding, Building, Creating, Ending
<1>2. CASE BeginSnapshot(p)
  BY <1>2, <1>n, SnapshotTaken DEF OwnBefore
<1>3. CASE Reads(p)
  <2>1. job[p].cmd = "reindex"
    BY <1>3, <1>t DEF Reads, ListBaselineFiles, ListBaselineChunks, Resolve, Preview,
       CheckExtract, RecordRun, At, PlanHolds, OwnPcs, Planning
  <2>2. CASE job'[p] = NoJob
    BY <1>n, <2>2 DEF OwnBefore
  <2>3. CASE OwnMoves(job[p], job'[p], plan[p], plan'[p])
    BY <2>1, <2>3 DEF OwnMoves, OwnBefore, Stays, Keeps, HasOwnSnapshot, OwnSnapshot, Scanned,
       Rebuilding, Building, Creating, Ending
  <2> QED
    BY <1>3, <2>2, <2>3, ReadsMove
<1>4. CASE Diff(p) \/ CloneFile(p) \/ CloneFails(p) \/ UpsertReindexed(p)
  <2>1. job[p].pc \in {"diff", "clone", "materialize"} /\ job[p].cmd = "reindex"
    BY <1>4, <1>t DEF Diff, CloneFile, CloneFails, UpsertReindexed, At, PlanHolds, OwnPcs
  <2>2. job'[p].snap = job[p].snap
    BY <1>4, Diffed, Cloned, RowsReindexed DEF Keeps, ClonesOne
  <2> QED
    BY <2>1, <2>2
    DEF OwnBefore, HasOwnSnapshot, OwnSnapshot, Scanned, Rebuilding, Building
<1>5. CASE CrashInClone(p)
  <2>1. job'[p] = NoJob
    BY <1>5, RTyped DEF CrashInClone, Finish
  <2> QED
    BY <1>n, <2>1 DEF OwnBefore
<1> QED
  BY <1>1, <1>2, <1>3, <1>4, <1>5 DEF OwnStep, Reads

LEMMA SnapshotWholeStep ==
  ASSUME RTypeInv, RRowInv, FailsAlone, PayloadsOwned, NEW p \in Proc, Writes(p), OwnBefore(p),
         SnapshotWhole(p), BeginSnapshot(p) => payloads' = payloads
  PROVE  SnapshotWhole(p)'
<1>1. SUFFICES ASSUME job'[p].cmd = "reindex", HasOwnSnapshot(job'[p], plan'[p]),
                      NEW id \in ChunkId, id[1] = job'[p].snap, payloads'[id] = Torn
               PROVE  FALSE
  BY DEF SnapshotWhole, HasOwnSnapshot
<1>2. CASE /\ job[p].cmd = "reindex" /\ HasOwnSnapshot(job[p], plan[p])
           /\ job'[p].snap = job[p].snap
  <2>1. job'[p] # NoJob
    BY <1>1 DEF NoJob
  <2> QED
    BY <1>1, <1>2, <2>1, NothingTorn DEF SnapshotWhole
<1>3. CASE BeginSnapshot(p) /\ clock + 1 \in Snap /\ job'[p].snap = clock + 1
  <2>1. clock \in Int
    BY RTyped DEF TypeOK
  <2>2. ~(clock + 1 <= clock)
    BY <2>1
  <2>3. revision[clock + 1] = Null
    BY <1>3, <2>2 DEF RRowInv, RowInv, SnapshotsOwned
  <2>4. payloads[id] = Null
    BY <1>1, <1>3, <2>3 DEF PayloadsOwned
  <2> QED
    BY <1>1, <1>3, <2>4, SentinelAssumption
<1> QED
  BY <1>1, <1>2, <1>3 DEF OwnBefore

LEMMA SnapshotWholeWaiting ==
  ASSUME FailsAlone, NEW p \in Proc, Writes(p), NEW q \in Proc,
         job'[q] = job[q], plan'[q] = plan[q], SnapshotWhole(q)
  PROVE  SnapshotWhole(q)'
<1>1. job[q].cmd = "reindex" => job'[q] # NoJob
  BY DEF NoJob
<1>2. ASSUME job[q].cmd = "reindex", NEW id \in ChunkId, payloads[id] # Torn
      PROVE  payloads'[id] # Torn
  BY <1>1, <1>2, NothingTorn
<1> QED
  BY <1>2 DEF SnapshotWhole

LEMMA WholeStepBeside ==
  ASSUME RTypeInv, RRowInv, QuietInv, FailsAlone, WholeInv, OwnedInv, NEW p \in Proc, RStep(p)
  PROVE  WholeInv' /\ OwnedInv'
<1>t. TypeInv
  BY RTyped
<1>1. ASSUME NEW q \in Proc, q # p PROVE job'[q] = job[q] /\ plan'[q] = plan[q]
  BY <1>t, <1>1, SharedIsProc, OthersWait, PlanKept, OwnStore DEF RStep
<1>2. Writes(p) /\ Advance /\ OwnBefore(p) /\ DraftsWhole(p)'
  <2>1. CASE (StartOrFault(p) \/ PipelineStep(p)) /\ KeepPlan(p)
    <3>1. ProcStep(p) /\ KeepPlan(p)
      BY <2>1, SharedIsProc
    <3> QED
      BY <1>t, <3>1, SharedWrites, SharedAdvances, OwnBeforeShared, DraftsWholeStep
      DEF WholeInv
  <2>2. CASE StartReindex(p) \/ OwnStep(p) \/ CrashInClone(p)
    BY <2>2, OwnWrites, OwnAdvances, OwnBeforeOwn, DraftsWholeOwn DEF WholeInv
  <2> QED
    BY <2>1, <2>2 DEF RStep
<1>3. WholeInv'
  BY <1>t, <1>1, <1>2, DraftsWholeWaiting DEF WholeInv
<1>4. BeginSnapshot(p) => payloads' = payloads
  BY DEF BeginSnapshot, disk
<1>5. SnapshotWhole(p)'
  BY <1>2, <1>4, SnapshotWholeStep DEF OwnedInv
<1>6. \A q \in Proc : q # p => SnapshotWhole(q)'
  BY <1>1, <1>2, SnapshotWholeWaiting DEF OwnedInv
<1> QED
  BY <1>2, <1>3, <1>5, <1>6, PayloadsOwnedStep DEF OwnedInv

LEMMA OwnedInvInit == ReindexInit => WholeInv /\ OwnedInv
<1>1. ReindexInit => WholeInv
  BY WholeInvInit DEF ReindexInit
<1>2. ReindexInit => OwnedInv
  BY DEF ReindexInit, Init, OwnedInv, PayloadsOwned, SnapshotWhole, NoJob
<1> QED
  BY <1>1, <1>2

LEMMA WholeCorrect ==
  ASSUME ~EditsRace, FailsAlone
  PROVE  ReindexSpec => [](RTypeInv /\ RRowInv /\ UndisturbedInv /\ WholeInv /\ OwnedInv)
<1>1. ASSUME WholeInv, OwnedInv, UNCHANGED <<payloads, job, plan, revision>>
      PROVE  WholeInv' /\ OwnedInv'
  BY <1>1 DEF WholeInv, DraftsWhole, IdOf, At, OwnedInv, PayloadsOwned, SnapshotWhole,
     HasOwnSnapshot
<1>2. UNCHANGED reindexVars => UNCHANGED <<payloads, job, plan, revision>>
  BY DEF reindexVars, vars
<1>3. \A f \in Path, c \in Content \cup {Absent} :
        EditBesideReindex(f, c) => UNCHANGED <<payloads, job, plan, revision>>
  BY DEF EditBesideReindex, Edit, disk, db
<1>4. RTypeInv /\ RRowInv /\ (raced \/ UndisturbedInv) /\ ~raced /\ WholeInv /\ OwnedInv
        /\ [ReindexNext]_reindexVars => WholeInv' /\ OwnedInv'
  BY <1>1, <1>2, <1>3, WholeStepBeside DEF ReindexNext, RStep, UndisturbedInv
<1> QED
  BY <1>4, UndisturbedCorrect, NeverRaced, OwnedInvInit, PTL DEF ReindexSpec

\* A rebuild inside a re-index repairs as a build does.
THEOREM ReindexesRepairPayloads ==
  ASSUME ~EditsRace, FailsAlone PROVE ReindexSpec => []BuildRepairsPayloads
<1>1. RTypeInv /\ RRowInv /\ UndisturbedInv /\ WholeInv => BuildRepairsPayloads
  BY RTyped, WholeRepairs DEF RRowInv, UndisturbedInv, QuietInv
<1> QED
  BY <1>1, WholeCorrect, PTL

\* The snapshot that a re-index has marked has only readable payloads, also
\* when the baseline it cloned from had truncated ones.
THEOREM ReindexResultsAreReadable ==
  ASSUME ~EditsRace, FailsAlone PROVE ReindexSpec => []ResultIsReadable
<1>1. ASSUME RTypeInv, RRowInv, UndisturbedInv, OwnedInv PROVE ResultIsReadable
  <2>1. SUFFICES ASSUME NEW p \in Proc, job[p].cmd = "reindex", At(p, "record_run"),
                        job[p].snap # plan[p].base,
                        NEW id \in ChunkId, id[1] = job[p].snap, chunks[id] # Null
                 PROVE  payloads[id] = chunks[id].hash
    BY DEF ResultIsReadable
  <2>2. HasOwnSnapshot(job[p], plan[p])
    BY <1>1, <2>1 DEF UndisturbedInv, PlanSound, At, Ending, HasOwnSnapshot
  <2>3. payloads[id] \notin {Null, Torn}
    BY <1>1, <2>1, <2>2 DEF OwnedInv, SnapshotWhole, RRowInv, RowInv, RowHasPayload
  <2> QED
    BY <1>1, <2>1, <2>3
    DEF UndisturbedInv, QuietInv, TextsSound, RRowInv, RowInv, RowMatchesInventory
<1> QED
  BY <1>1, WholeCorrect, PTL

-----------------------------------------------------------------------------
\* A snapshot is seen as indexed only when all of it is.

HasRows(s, f) == \E l \in Layout : chunks[<<s, f, l>>] # Null
Covered(s) == files[s] = revision[s] /\ \A f \in Present(files[s]) : HasRows(s, f)

\* A build has the whole inventory before it, and every file of it is still to
\* be done or done; its mark finds the rows of all.
BuildCovers(p) ==
    /\ At(p, "list_files") /\ job[p].marked => extracted[job[p].snap]
    /\ job[p].cmd # "reindex" /\ job[p].pc \in Building =>
         /\ job[p].inventory = files[job[p].snap]
         /\ files[job[p].snap] = revision[job[p].snap]
         /\ Present(job[p].inventory) = job[p].todo \cup Drafted(job[p])
    /\ At(p, "mark_chunks") => Covered(job[p].snap)

InventoriesWhole == \A s \in Snap : files[s] = EmptyTree \/ files[s] = revision[s]

IndexedCovered ==
    \A s \in Snap : fingerprint[s] # Null \/ (\E f \in Path : HasRows(s, f)) => Covered(s)

CompleteInv == InventoriesWhole /\ IndexedCovered /\ \A p \in Proc : BuildCovers(p)

\* What a step leaves of a snapshot's rows and marks.
Preserves ==
    /\ \A s \in Snap : files[s] = revision[s] => files'[s] = files[s] /\ revision'[s] = revision[s]
    /\ \A s \in Snap : extracted[s] => extracted'[s]
    /\ \A id \in ChunkId : chunks[id] # Null => chunks'[id] # Null

LEMMA SharedPreserves ==
  ASSUME TypeInv, RowInv, QuietInv, NEW p \in Proc, ProcStep(p)
  PROVE  Preserves
<1>1. \A s \in Snap : files[s] # Null
  BY SentinelAssumption DEF TypeInv, TypeOK
<1> QED
  BY <1>1, SharedStores, FilesValid DEF Preserves, QuietInv

LEMMA CoveredStays ==
  ASSUME Preserves, NEW s \in Snap, Covered(s)
  PROVE  Covered(s)'
<1>1. files'[s] = files[s] /\ revision'[s] = revision[s]
  BY DEF Preserves, Covered
<1>2. ASSUME NEW f \in Present(files[s]) PROVE \E l \in Layout : chunks'[<<s, f, l>>] # Null
  <2>1. PICK l \in Layout : chunks[<<s, f, l>>] # Null
    BY DEF Covered, HasRows
  <2>2. <<s, f, l>> \in ChunkId
    BY DEF ChunkId, Present
  <2> QED
    BY <2>1, <2>2 DEF Preserves
<1> QED
  BY <1>1, <1>2 DEF Covered, HasRows

LEMMA BuildCoversWaiting ==
  ASSUME TypeInv, Preserves, NEW q \in Proc, BuildCovers(q), job'[q] = job[q]
  PROVE  BuildCovers(q)'
<1>1. job[q].pc # "idle" => job[q].snap \in Snap
  BY DEF TypeInv, JobOK, JobHolds
<1>2. Drafted(job'[q]) = Drafted(job[q])
  OBVIOUS
<1>3. At(q, "list_files")' /\ job'[q].marked => extracted'[job'[q].snap]
  BY <1>1 DEF BuildCovers, At, Preserves
<1>4. job'[q].cmd # "reindex" /\ job'[q].pc \in Building =>
        /\ job'[q].inventory = files'[job'[q].snap]
        /\ files'[job'[q].snap] = revision'[job'[q].snap]
        /\ Present(job'[q].inventory) = job'[q].todo \cup Drafted(job'[q])
  BY <1>1, <1>2 DEF BuildCovers, Building, Preserves
<1>5. At(q, "mark_chunks")' => Covered(job[q].snap)'
  BY <1>1, CoveredStays DEF BuildCovers, At
<1> QED
  BY <1>3, <1>4, <1>5 DEF BuildCovers, Covered, HasRows

\* A build lists its files right after its start.
LEMMA ListsFirst ==
  ASSUME TypeInv, NEW p \in Proc, ProcStep(p), job'[p].pc = "list_files"
  PROVE  StartBuild(p)
<1>t. TypeOK /\ job \in [Proc -> Job] /\ job[p] \in Job
  BY DEF TypeInv, TypeOK
<1>n. NoJob.pc = "idle"
  BY DEF NoJob
<1>f. ~Finish(p)
  BY <1>t, <1>n DEF Finish
<1>1. ~StartSnapshot(p) /\ ~StartExtract(p)
  BY <1>t DEF StartSnapshot, StartExtract, NoJob
<1>2. ~WriteManifest(p) /\ ~InsertFiles(p) /\ ~UpsertChunks(p)
  BY <1>t DEF WriteManifest, InsertFiles, UpsertChunks, Goto, Job
<1>3. ~Scan(p) /\ ~WritePayload(p)
  <2>1. ~Scan(p)
    BY <1>t DEF Scan, Job
  <2>2. WritePayload(p) => job'[p].pc = "materialize"
    BY <1>t DEF WritePayload, Job
  <2> QED
    BY <2>1, <2>2
<1>4. ~InsertSnapshot(p) /\ ~MarkExtracted(p) /\ ~MarkChunks(p)
  BY <1>t, <1>n DEF InsertSnapshot, MarkExtracted, MarkChunks, Goto, AfterMark, EndStage, Job
<1>5. ~ListFiles(p)
  BY <1>f, FilesListed DEF ListMoves
<1>6. ~ReuseDrafts(p) /\ ~GenerateDrafts(p) /\ ~ParserRaises(p)
  <2>1. ASSUME NEW f \in Path, NEW d, TakeDrafts(p, f, d) PROVE FALSE
    <3> DEFINE j == [job[p] EXCEPT !.drafts[f] = d, !.pc = "write_payload"]
    <3>1. job' = [job EXCEPT ![p] = j]
      BY <1>t, <2>1 DEF TakeDrafts
    <3>2. j.pc = "write_payload"
      BY <1>t DEF Job
    <3> HIDE DEF j
    <3> QED
      BY <1>t, <3>1, <3>2
  <2> QED
    BY <2>1 DEF ReuseDrafts, GenerateDrafts, ParserRaises, FallBack
<1> QED
  BY <1>f, <1>1, <1>2, <1>3, <1>4, <1>5, <1>6
  DEF ProcStep, StageStep, SharedStep, FaultStep, ReadFails, RecordProvenance, Crash,
      SnapshotInsertFails, CrashInPayload, CrashInCache

\* The rows of a build are stored at once, for every file of the inventory.
LEMMA UpsertCovers ==
  ASSUME TypeInv, Preserves, NEW p \in Proc, BuildCovers(p), job[p].cmd # "reindex",
         UpsertChunks(p)
  PROVE  Covered(job[p].snap)'
<1> DEFINE s == job[p].snap
<1>t. /\ job[p].pc \in Building /\ job[p] \in Job /\ s \in Snap /\ job[p].todo = {}
      /\ job[p].cfg \in Config
  BY DEF TypeInv, TypeOK, JobOK, JobHolds, UpsertChunks, At, Building
<1>1. /\ job[p].inventory = files[s] /\ files[s] = revision[s]
      /\ Present(job[p].inventory) = Drafted(job[p])
  BY <1>t DEF BuildCovers
<1>2. files'[s] = files[s] /\ revision'[s] = files[s]
  BY <1>t, <1>1 DEF Preserves
<1>3. ASSUME NEW f \in Present(files[s]) PROVE \E l \in Layout : chunks'[<<s, f, l>>] # Null
  <2> DEFINE l == LayoutOf[job[p].drafts[f].text][job[p].drafts[f].cut]
             row == [hash |-> job[p].inventory[f], cfg |-> job[p].cfg]
  <2>1. f \in Path /\ job[p].drafts[f] # Null /\ files[s][f] # Absent
    BY <1>1 DEF Drafted, Present
  <2>2. IdOf(p, f) = <<s, f, l>>
    BY DEF IdOf
  <2>3. job[p].drafts[f] \in Draft
    BY <1>t, <2>1 DEF Job
  <2>4. IdOf(p, f) \in ChunkId /\ IdOf(p, f)[2] = f
    BY <1>t, <2>1, <2>2, <2>3, DraftLaidOut
  <2>5. l \in Layout
    BY <2>3, LayoutAssumption DEF Draft
  <2>6. job[p].inventory[f] \in Content
    BY <1>t, <1>1, <2>1 DEF Job, Tree
  <2>7. row \in ChunkRow
    BY <1>t, <2>6 DEF ChunkRow
  <2>8. chunks'[IdOf(p, f)] = row
    BY <2>1, <2>4 DEF UpsertChunks, UpsertRows
  <2> QED
    BY <2>2, <2>5, <2>7, <2>8, RowIsValue
<1>4. job'[p].snap = s
  BY <1>t DEF UpsertChunks, Goto, TypeInv, TypeOK, Job
<1> QED
  BY <1>2, <1>3, <1>4 DEF Covered, HasRows

\* The steps that store rows come before the mark.
LEMMA OthersNeverMark ==
  ASSUME TypeInv, NEW p \in Proc, StartOrFault(p) \/ SharedStep(p)
  PROVE  job'[p].pc # "mark_chunks"
<1>0. SUFFICES ASSUME job'[p].pc = "mark_chunks" PROVE FALSE
  OBVIOUS
<1>s. ProcStep(p)
  BY DEF StartOrFault, ProcStep, StageStep
<1>t. TypeOK /\ job \in [Proc -> Job] /\ job[p] \in Job
  BY DEF TypeInv, TypeOK
<1>1. job[p].pc = "materialize" /\ ~ListFiles(p)
  BY <1>0, <1>s, BuildingMoves DEF ListMoves, StageMoves, Building, ListFiles, At
<1>2. ~Finish(p)
  BY <1>0, <1>t DEF Finish, NoJob
<1>3. ~ReuseDrafts(p) /\ ~GenerateDrafts(p) /\ ~ParserRaises(p)
  <2>1. ASSUME NEW f \in Path, NEW d, TakeDrafts(p, f, d) PROVE FALSE
    <3> DEFINE j == [job[p] EXCEPT !.drafts[f] = d, !.pc = "write_payload"]
    <3>1. job' = [job EXCEPT ![p] = j]
      BY <1>t, <2>1 DEF TakeDrafts
    <3>2. j.pc = "write_payload"
      BY <1>t DEF Job
    <3> HIDE DEF j
    <3> QED
      BY <1>0, <1>t, <3>1, <3>2
  <2> QED
    BY <2>1 DEF ReuseDrafts, GenerateDrafts, ParserRaises, FallBack
<1> QED
  BY <1>1, <1>2, <1>3
  DEF StartOrFault, SharedStep, FaultStep, StartSnapshot, StartExtract, StartBuild,
      WriteManifest, InsertSnapshot, Scan, InsertFiles, MarkExtracted, WritePayload, ReadFails,
      MarkChunks, RecordProvenance, Crash, SnapshotInsertFails, CrashInPayload, CrashInCache, At

LEMMA MarksAfterUpsert ==
  ASSUME TypeInv, NEW p \in Proc, ProcStep(p), job'[p].pc = "mark_chunks"
  PROVE  UpsertChunks(p)
BY OthersNeverMark DEF ProcStep, StageStep, StartOrFault

LEMMA ListedCovers ==
  ASSUME TypeInv, QuietInv, CompleteInv, NEW p \in Proc, ListFiles(p),
         ListMoves(job[p], job'[p])
  PROVE  /\ job'[p].inventory = files'[job'[p].snap]
         /\ files'[job'[p].snap] = revision'[job'[p].snap]
         /\ Present(job'[p].inventory) = job'[p].todo \cup Drafted(job'[p])
<1>1. /\ job'[p].snap = job[p].snap /\ job[p].snap \in Snap
      /\ files' = files /\ revision' = revision
  BY DEF ListMoves, Keeps, TypeInv, JobOK, JobHolds, ListFiles, db
<1>2. Drafted(job'[p]) = {}
  BY DEF ListMoves, Drafted, NoDrafts
<1>3. files[job[p].snap] = revision[job[p].snap]
  BY <1>1 DEF ListMoves, CompleteInv, InventoriesWhole, BuildCovers, QuietInv,
     InventoryMatchesRevision, At
<1> QED
  BY <1>1, <1>2, <1>3 DEF ListMoves

LEMMA MovedCovers ==
  ASSUME TypeInv, NEW p \in Proc, job[p].pc \in Building, job'[p].pc \in Building,
         StageMoves(job[p], job'[p]),
         Present(job[p].inventory) = job[p].todo \cup Drafted(job[p])
  PROVE  /\ job'[p].inventory = job[p].inventory
         /\ Present(job'[p].inventory) = job'[p].todo \cup Drafted(job'[p])
<1>t. job[p] \in Job
  BY DEF TypeInv, TypeOK
<1>1. job'[p].inventory = job[p].inventory
  BY DEF StageMoves, Building
<1>2. CASE job'[p].drafts = job[p].drafts /\ job'[p].todo = job[p].todo
  BY <1>1, <1>2 DEF Drafted
<1>3. CASE job[p].pc = "materialize" /\ job'[p].pc = "write_payload"
  <2>1. PICK f \in job[p].todo : \E d \in Draft : job'[p].drafts = [job[p].drafts EXCEPT ![f] = d]
    BY <1>3 DEF StageMoves
  <2>2. PICK d \in Draft : job'[p].drafts = [job[p].drafts EXCEPT ![f] = d]
    BY <2>1
  <2>3. f \in Path /\ d # Null /\ job'[p].todo = job[p].todo
    BY <1>t, <1>3, SentinelAssumption DEF Job, StageMoves
  <2>4. Drafted(job'[p]) = Drafted(job[p]) \cup {f}
    BY <1>t, <2>2, <2>3 DEF Drafted, Job
  <2> QED
    BY <1>1, <2>3, <2>4
<1>4. CASE job[p].pc = "write_payload" /\ job'[p].pc = "materialize"
  <2>1. /\ job'[p].drafts = job[p].drafts
        /\ \E f \in job[p].todo : job[p].drafts[f] # Null /\ job'[p].todo = job[p].todo \ {f}
    BY <1>4 DEF StageMoves
  <2>2. PICK f \in job[p].todo : job[p].drafts[f] # Null /\ job'[p].todo = job[p].todo \ {f}
    BY <2>1
  <2>3. f \in Drafted(job[p]) /\ Drafted(job'[p]) = Drafted(job[p])
    BY <1>t, <2>1, <2>2 DEF Drafted, Job
  <2> QED
    BY <1>1, <2>2, <2>3
<1> QED
  BY <1>2, <1>3, <1>4 DEF StageMoves, Building

LEMMA BuildCoversStep ==
  ASSUME TypeInv, QuietInv, CompleteInv, Preserves, NEW p \in Proc, ProcStep(p),
         UpsertChunks(p) => job[p].cmd # "reindex"
  PROVE  BuildCovers(p)'
<1>t. job[p].pc # "idle" => job[p].snap \in Snap
  BY DEF TypeInv, JobOK, JobHolds
<1>1. ASSUME At(p, "list_files")', job'[p].marked PROVE extracted'[job'[p].snap]
  <2>1. PICK s \in Snap : \E c \in Config :
          job' = [job EXCEPT ![p] = [NoJob EXCEPT !.cmd = "build", !.pc = "list_files",
                                                  !.snap = s, !.cfg = c,
                                                  !.marked = extracted[s]]]
    BY <1>1, ListsFirst DEF StartBuild, At
  <2>2. job'[p].snap = s /\ job'[p].marked = extracted[s]
    BY <2>1 DEF NoJob, TypeInv, TypeOK
  <2> QED
    BY <1>1, <2>2 DEF Preserves
<1>2. ASSUME job'[p].cmd # "reindex", job'[p].pc \in Building
      PROVE  /\ job'[p].inventory = files'[job'[p].snap]
             /\ files'[job'[p].snap] = revision'[job'[p].snap]
             /\ Present(job'[p].inventory) = job'[p].todo \cup Drafted(job'[p])
  <2>1. CASE ListFiles(p) /\ ListMoves(job[p], job'[p])
    BY <2>1, ListedCovers
  <2>2. CASE job[p].pc \in Building /\ StageMoves(job[p], job'[p])
    <3>1. job[p].cmd # "reindex" /\ job'[p].snap = job[p].snap /\ job[p].snap \in Snap
      BY <1>t, <1>2, <2>2 DEF StageMoves, Keeps, Building
    <3>2. /\ job[p].inventory = files[job[p].snap]
          /\ files[job[p].snap] = revision[job[p].snap]
          /\ Present(job[p].inventory) = job[p].todo \cup Drafted(job[p])
      BY <2>2, <3>1 DEF CompleteInv, BuildCovers
    <3> QED
      BY <1>2, <2>2, <3>1, <3>2, MovedCovers DEF Preserves
  <2> QED
    BY <1>2, <2>1, <2>2, BuildingMoves
<1>3. At(p, "mark_chunks")' => Covered(job[p].snap)' 
  BY MarksAfterUpsert, UpsertCovers DEF CompleteInv, At
<1> QED
  BY <1>1, <1>2, <1>3 DEF BuildCovers

LEMMA WholeStays ==
  ASSUME TypeInv, RowInv, QuietInv, InventoriesWhole, NEW p \in Proc, ProcStep(p)
  PROVE  InventoriesWhole'
<1>1. ASSUME NEW s \in Snap, files[s] = revision[s] PROVE files'[s] = revision'[s]
  BY <1>1, SharedPreserves DEF Preserves
<1>2. ASSUME NEW s \in Snap, files[s] = EmptyTree
      PROVE  files'[s] = EmptyTree \/ files'[s] = revision'[s]
  <2>1. CASE InsertFiles(p) /\ job[p].snap = s
    <3>1. files'[s] = revision[s] /\ revision' = revision
      BY <2>1, FilesValid DEF QuietInv, InsertFiles
    <3> QED
      BY <3>1
  <2>2. CASE ~(InsertFiles(p) /\ job[p].snap = s)
    <3>1. files'[s] = files[s]
      BY <2>2 DEF ProcStep, StartSnapshot, StartExtract, StartBuild, StageStep, SharedStep,
         FaultStep, WriteManifest, InsertSnapshot, Scan, InsertFiles, MarkExtracted, ListFiles,
         ReuseDrafts, GenerateDrafts, ReadFails, WritePayload, UpsertChunks, MarkChunks,
         RecordProvenance, Crash, SnapshotInsertFails, ParserRaises, CrashInPayload,
         CrashInCache, db, TypeInv, TypeOK
    <3> QED
      BY <1>2, <3>1
  <2> QED
    BY <2>1, <2>2
<1> QED
  BY <1>1, <1>2 DEF InventoriesWhole

LEMMA IndexedCoveredStep ==
  ASSUME TypeInv, CompleteInv, Preserves, NEW p \in Proc, ProcStep(p),
         UpsertChunks(p) => job[p].cmd # "reindex"
  PROVE  IndexedCovered'
<1>t. TypeOK /\ job \in [Proc -> Job] /\ job[p] \in Job
  BY DEF TypeInv, TypeOK
<1>1. ASSUME NEW s \in Snap, fingerprint'[s] # Null PROVE Covered(s)'
  <2>1. CASE fingerprint[s] # Null
    BY <2>1, CoveredStays DEF CompleteInv, IndexedCovered
  <2>2. CASE fingerprint[s] = Null
    <3>1. MarkChunks(p)
      BY <1>1, <2>2 DEF ProcStep, StartSnapshot, StartExtract, StartBuild, StageStep, SharedStep,
         FaultStep, WriteManifest, InsertSnapshot, Scan, InsertFiles, MarkExtracted, ListFiles,
         ReuseDrafts, GenerateDrafts, ReadFails, WritePayload, UpsertChunks,
         RecordProvenance, Crash, SnapshotInsertFails, ParserRaises, CrashInPayload,
         CrashInCache, db
    <3>2. s = job[p].snap
      BY <1>t, <1>1, <2>2, <3>1 DEF MarkChunks, TypeOK
    <3>3. Covered(s)
      BY <3>1, <3>2 DEF MarkChunks, CompleteInv, BuildCovers
    <3> QED
      BY <3>3, CoveredStays
  <2> QED
    BY <2>1, <2>2
<1>2. ASSUME NEW s \in Snap, NEW f \in Path, NEW l \in Layout, chunks'[<<s, f, l>>] # Null
      PROVE  Covered(s)'
  <2> DEFINE id == <<s, f, l>>
  <2>i. id \in ChunkId /\ id[1] = s
    BY DEF ChunkId
  <2>1. CASE chunks[id] # Null
    BY <2>1, CoveredStays DEF CompleteInv, IndexedCovered, HasRows
  <2>2. CASE chunks[id] = Null
    <3>1. UpsertChunks(p)
      BY <1>2, <2>2 DEF ProcStep, StartSnapshot, StartExtract, StartBuild, StageStep, SharedStep,
         FaultStep, WriteManifest, InsertSnapshot, Scan, InsertFiles, MarkExtracted, ListFiles,
         ReuseDrafts, GenerateDrafts, ReadFails, WritePayload, MarkChunks,
         RecordProvenance, Crash, SnapshotInsertFails, ParserRaises, CrashInPayload,
         CrashInCache, db
    <3>2. s = job[p].snap
      <4> HIDE DEF id
      <4>1. id = IdOf(p, id[2])
        BY <1>2, <2>i, <2>2, <3>1 DEF UpsertChunks, UpsertRows, id
      <4> QED
        BY <2>i, <4>1 DEF IdOf
    <3>3. Covered(job[p].snap)'
      BY <3>1, UpsertCovers DEF CompleteInv
    <3>4. job'[p].snap = job[p].snap
      BY <1>t, <3>1 DEF UpsertChunks, Goto, Job
    <3> QED
      BY <3>2, <3>3, <3>4 DEF Covered, HasRows
  <2> QED
    BY <2>1, <2>2
<1> QED
  BY <1>1, <1>2 DEF IndexedCovered, HasRows

LEMMA CompleteStep ==
  ASSUME TypeInv, RowInv, QuietInv, CompleteInv, NEW p \in Proc, ProcStep(p),
         UpsertChunks(p) => job[p].cmd # "reindex"
  PROVE  CompleteInv'
<1>1. Preserves
  BY SharedPreserves
<1>2. ASSUME NEW q \in Proc, q # p PROVE BuildCovers(q)'
  BY <1>1, <1>2, OthersWait, BuildCoversWaiting DEF CompleteInv
<1> QED
  BY <1>1, <1>2, BuildCoversStep, WholeStays, IndexedCoveredStep DEF CompleteInv

LEMMA CompleteInit == Init => CompleteInv
<1>1. SUFFICES ASSUME Init PROVE CompleteInv
  OBVIOUS
<1>2. \A s \in Snap, f \in Path, l \in Layout : chunks[<<s, f, l>>] = Null
  BY <1>1 DEF Init, ChunkId
<1> QED
  BY <1>1, <1>2 DEF Init, CompleteInv, InventoriesWhole, IndexedCovered, HasRows, BuildCovers,
     NoJob, At, Building

LEMMA CompleteIsIndexed == CompleteInv => IndexedIsComplete
BY DEF CompleteInv, IndexedCovered, IndexedIsComplete, Indexed, Covered, HasRows, Present

\* No step of the three commands makes one of them a re-index.
NoReindex == \A p \in Proc : job[p].cmd # "reindex" /\ job[p].pc \notin OwnPcs

LEMMA NoReindexCorrect == Spec => [](TypeInv /\ NoReindex)
<1>1. Init => NoReindex
  BY DEF Init, NoReindex, NoJob, OwnPcs, Planning
<1>2. ASSUME NoReindex, job' = job PROVE NoReindex'
  BY <1>2 DEF NoReindex
<1>3. UNCHANGED vars => job' = job
  BY DEF vars
<1>4. \A f \in Path, c \in Content \cup {Absent} : Edit(f, c) => job' = job
  BY DEF Edit
<1>5. ASSUME TypeInv, NoReindex, NEW p \in Proc, ProcStep(p) PROVE NoReindex'
  BY <1>5, OthersWait, StageOfOthers DEF NoReindex
<1>6. TypeInv /\ NoReindex /\ [Next]_vars => NoReindex'
  BY <1>2, <1>3, <1>4, <1>5 DEF Next, ProcStep
<1> QED
  BY <1>1, <1>6, RowInvCorrect, PTL DEF Spec

LEMMA CompleteInvStep ==
  TypeInv /\ RowInv /\ QuietInv /\ NoReindex /\ CompleteInv /\ [Next]_vars => CompleteInv'
<1>1. ASSUME CompleteInv, UNCHANGED <<db, job>> PROVE CompleteInv'
  BY <1>1 DEF CompleteInv, InventoriesWhole, IndexedCovered, BuildCovers, Covered, HasRows, At, db
<1>2. UNCHANGED vars => UNCHANGED <<db, job>>
  BY DEF vars, db
<1>3. \A f \in Path, c \in Content \cup {Absent} : Edit(f, c) => UNCHANGED <<db, job>>
  BY DEF Edit
<1> QED
  BY <1>1, <1>2, <1>3, CompleteStep DEF Next, ProcStep, NoReindex

\* Whatever crashes and however commands overlap, a snapshot that queries and
\* re-indexes may use has the rows of every file of its inventory.
THEOREM IndexedSnapshotsAreComplete == ASSUME ~EditsRace PROVE Spec => []IndexedIsComplete
<1>1. TypeInv /\ RowInv /\ QuietInv /\ NoReindex /\ CompleteInv /\ [Next]_vars => CompleteInv'
  BY CompleteInvStep
<1> QED
  BY <1>1, QuietCorrect, NoReindexCorrect, CompleteInit, CompleteIsIndexed, PTL DEF Spec

-----------------------------------------------------------------------------
\* Beside re-indexes: what one lists of its baseline covers the baseline.

PlanCovers(p) ==
    job[p].cmd = "reindex" /\ job[p].pc \notin Unlisted =>
      \A f \in Present(plan[p].files) : \E l \in Layout : plan[p].rows[<<f, l>>] # Null

RCompleteInv == CompleteInv /\ \A p \in Proc : PlanCovers(p)

\* Once listed, the baseline's rows and inventory are remembered to the end.
LEMMA ListedOnce ==
  ASSUME RTypeInv, NEW p \in Proc, RStep(p), job'[p].cmd = "reindex",
         job'[p].pc \notin Unlisted, ~ListBaselineChunks(p)
  PROVE  /\ job[p].cmd = "reindex" /\ job[p].pc \notin Unlisted
         /\ plan'[p].rows = plan[p].rows /\ plan'[p].files = plan[p].files
<1>t. TypeInv /\ PlanHolds(job[p], plan[p])
  BY RTyped
<1>n. job'[p] # NoJob
  BY DEF NoJob
<1>1. CASE (StartOrFault(p) \/ PipelineStep(p)) /\ KeepPlan(p)
  <2>1. ProcStep(p) /\ KeepPlan(p)
    BY <1>1, SharedIsProc
  <2>2. job[p].cmd = "reindex"
    BY <1>t, <2>1, StageOfOthers DEF PlanHolds
  <2>3. StageMoves(job[p], job'[p])
    BY <1>t, <1>n, <2>1, <2>2, StageOfReindex DEF PlanHolds, At
  <2>4. plan'[p] = plan[p]
    BY <2>1, <2>3, PlanKept DEF StageMoves
  <2> QED
    BY <2>2, <2>3, <2>4 DEF StageMoves, Unlisted
<1>2. CASE StartReindex(p)
  BY <1>2, ReindexStarts DEF Unlisted
<1>3. CASE Reads(p)
  <2>1. plan'[p].rows = plan[p].rows /\ OwnMoves(job[p], job'[p], plan[p], plan'[p])
    BY <1>3, <1>n, PlanRowsKept, ReadsMove
  <2>2. job[p].pc \notin Unlisted
    BY <1>3, <2>1 DEF Reads, ListBaselineFiles, Resolve, Preview, CheckExtract, RecordRun, At,
       Unlisted, OwnMoves
  <2>3. job[p].cmd = "reindex" /\ plan'[p].files = plan[p].files
    BY <2>1, <2>2 DEF OwnMoves, Stays, Keeps, Unlisted
  <2> QED
    BY <2>1, <2>2, <2>3
<1>4. CASE BeginSnapshot(p)
  BY <1>4, <1>n, SnapshotTaken DEF Unlisted
<1>5. CASE Diff(p)
  BY <1>5, <1>t, Diffed DEF Diff, At, PlanHolds, OwnPcs, Unlisted
<1>6. CASE CloneFile(p) \/ CloneFails(p)
  <2>1. job[p].pc = "clone" /\ job[p].cmd = "reindex"
    BY <1>6, <1>t DEF CloneFile, CloneFails, At, PlanHolds, OwnPcs
  <2> QED
    BY <1>6, <2>1, Cloned DEF ClonesOne, Unlisted
<1>7. CASE UpsertReindexed(p)
  BY <1>7, RowsReindexed DEF Unlisted
<1>8. CASE CrashInClone(p)
  BY <1>8, <1>n, RTyped DEF CrashInClone, Finish
<1> QED
  BY <1>1, <1>2, <1>3, <1>4, <1>5, <1>6, <1>7, <1>8 DEF RStep, OwnStep, Reads

LEMMA ListingCovers ==
  ASSUME RTypeInv, CompleteInv, NEW p \in Proc, PlanSound(p), ListBaselineChunks(p)
  PROVE  PlanCovers(p)'
<1>t. /\ job \in [Proc -> Job] /\ job[p] \in Job /\ plan \in [Proc -> Plan] /\ plan[p] \in Plan
      /\ PlanHolds(job[p], plan[p])
  BY RTyped
<1> DEFINE listed == [at \in Path \X Layout |-> chunks[<<plan[p].base, at[1], at[2]>>]]
<1>1. plan' = [plan EXCEPT ![p].rows = listed] /\ job[p].pc = "list_baseline_chunks"
  BY DEF ListBaselineChunks, At
<1>2. job[p].cmd = "reindex" /\ plan[p].base \in Snap
  BY <1>t, <1>1 DEF PlanHolds, OwnPcs, Planning
<1>3. plan[p].files = files[plan[p].base] /\ Indexed(plan[p].base)
  BY <1>1, <1>2 DEF PlanSound
<1>4. plan'[p].files = plan[p].files /\ plan'[p].rows = listed
  BY <1>t, <1>1 DEF Plan
<1>5. Covered(plan[p].base)
  BY <1>2, <1>3 DEF CompleteInv, IndexedCovered, Indexed, HasRows
<1>6. \A f \in Present(plan[p].files) : \E l \in Layout : listed[<<f, l>>] # Null
  BY <1>3, <1>5 DEF Covered, HasRows, Present
<1> HIDE DEF listed
<1> QED
  BY <1>4, <1>6 DEF PlanCovers

\* What a re-index stores, cloned and built, is every file of its inventory.
LEMMA ReindexCovers ==
  ASSUME RTypeInv, RRowInv, QuietInv, NEW p \in Proc, PlanSound(p), ClonesShared(p),
         PlanCovers(p), UpsertReindexed(p)
  PROVE  Covered(job[p].snap)'
<1> DEFINE s == job[p].snap
<1>u. /\ job[p].todo = {} /\ job[p].pc = "materialize" /\ job[p].cmd = "reindex"
      /\ job'[p].snap = s /\ files' = files /\ revision' = revision
      /\ \A id \in ChunkId :
           \/ chunks'[id] = chunks[id] /\ ~IsClone(p, id)
           \/ chunks'[id] \in ChunkRow
  BY RowsReindexed DEF Keeps
<1>t. /\ TypeInv /\ job[p] \in Job /\ plan[p] \in Plan /\ s \in Snap /\ plan[p].clones = {}
      /\ job[p].cfg \in Config
  BY <1>u, RTyped DEF JobHolds, PlanHolds, Building
<1>1. HasExtracted(job[p], plan[p]) /\ HasScanned(job[p], plan[p]) /\ job[p].pc \in Rebuilding
  BY <1>u DEF HasExtracted, HasScanned, Scanned, Rebuilding, Building
<1>2. files[s] = tree /\ revision[s] = tree
  BY <1>u, <1>1, StoredIsLive
<1>3. /\ job[p].inventory = tree
      /\ Present(job[p].inventory) = plan[p].reused \cup Drafted(job[p])
  BY <1>u, <1>t, <1>1 DEF PlanSound, Accounts
<1>4. ASSUME NEW f \in Present(files[s]) PROVE \E l \in Layout : chunks'[<<s, f, l>>] # Null
  <2>0. f \in Path /\ files[s][f] # Absent
    BY DEF Present
  <2>1. CASE f \in plan[p].reused
    <3>1. plan[p].files[f] = job[p].inventory[f]
      BY <1>1, <2>1 DEF ClonesShared
    <3>2. f \in Present(plan[p].files)
      BY <1>2, <1>3, <2>0, <3>1 DEF Present
    <3>3. PICK l \in Layout : plan[p].rows[<<f, l>>] # Null
      BY <1>u, <3>2 DEF PlanCovers, Unlisted
    <3> DEFINE id == <<s, f, l>>
    <3>4. id \in ChunkId /\ id[1] = s /\ id[2] = f /\ id[3] = l
      BY <1>t, <2>0 DEF ChunkId
    <3> HIDE DEF id
    <3>5. IsClone(p, id)
      BY <2>1, <3>3, <3>4 DEF IsClone, Layouts
    <3>6. chunks'[id] # Null
      BY <1>u, <3>4, <3>5, RowIsValue
    <3> QED
      BY <3>6 DEF id
  <2>2. CASE f \in Drafted(job[p])
    <3> DEFINE l == LayoutOf[job[p].drafts[f].text][job[p].drafts[f].cut]
    <3>1. job[p].drafts[f] # Null /\ job[p].drafts[f] \in Draft
      BY <1>t, <2>0, <2>2 DEF Drafted, Job
    <3>2. IdOf(p, f) = <<s, f, l>> /\ IdOf(p, f)[2] = f
      BY DEF IdOf
    <3>3. IdOf(p, f) \in ChunkId /\ l \in Layout
      BY <1>t, <2>0, <3>1, DraftLaidOut, LayoutAssumption DEF Draft
    <3>4. job[p].inventory[f] \in Content
      BY <1>t, <1>2, <1>3, <2>0 DEF Job, Tree
    <3>5. [hash |-> job[p].inventory[f], cfg |-> job[p].cfg] \in ChunkRow
      BY <1>t, <3>4 DEF ChunkRow
    <3>6. CASE IsClone(p, IdOf(p, f))
      BY <1>u, <3>2, <3>3, <3>6, RowIsValue
    <3>7. CASE ~IsClone(p, IdOf(p, f))
      <4>1. chunks'[IdOf(p, f)] = [hash |-> job[p].inventory[f], cfg |-> job[p].cfg]
        BY <3>1, <3>2, <3>3, <3>7 DEF UpsertReindexed
      <4> QED
        BY <3>2, <3>3, <3>5, <4>1, RowIsValue
    <3> QED
      BY <3>6, <3>7
  <2> QED
    BY <1>2, <1>3, <2>1, <2>2
<1> QED
  BY <1>u, <1>2, <1>4 DEF Covered, HasRows

\* A step of a re-index's own never lists, and marks after it has stored.
LEMMA OwnPositions ==
  ASSUME RTypeInv, NEW p \in Proc, StartReindex(p) \/ OwnStep(p) \/ CrashInClone(p)
  PROVE  /\ job'[p] = NoJob \/ job'[p].cmd = "reindex"
         /\ job'[p].pc # "list_files"
         /\ job'[p].pc = "mark_chunks" => UpsertReindexed(p)
<1>t. PlanHolds(job[p], plan[p])
  BY RTyped
<1>n. NoJob.pc = "idle"
  BY DEF NoJob
<1>1. CASE StartReindex(p) \/ BeginSnapshot(p)
  BY <1>1, <1>n, ReindexStarts, SnapshotTaken
<1>2. CASE Reads(p)
  <2>1. OwnMoves(job[p], job'[p], plan[p], plan'[p])
          => job'[p].cmd = job[p].cmd /\ job'[p].pc \notin {"list_files", "mark_chunks"}
    BY DEF OwnMoves, Stays, Keeps
  <2>2. job[p].cmd = "reindex"
    BY <1>2, <1>t DEF Reads, ListBaselineFiles, ListBaselineChunks, Resolve, Preview,
       CheckExtract, RecordRun, At, PlanHolds, OwnPcs, Planning
  <2> QED
    BY <1>2, <1>n, <2>1, <2>2, ReadsMove
<1>3. CASE Diff(p)
  <2>1. job[p].cmd = "reindex"
    BY <1>3, <1>t DEF Diff, At, PlanHolds, OwnPcs
  <2>2. job'[p].cmd = job[p].cmd /\ job'[p].pc \in {"materialize", "clone"}
    BY <1>3, Diffed DEF Keeps
  <2> QED
    BY <2>1, <2>2
<1>4. CASE CloneFile(p) \/ CloneFails(p)
  <2>1. job[p].cmd = "reindex"
    BY <1>4, <1>t DEF CloneFile, CloneFails, At, PlanHolds, OwnPcs
  <2> QED
    BY <1>4, <2>1, Cloned DEF ClonesOne, Keeps
<1>5. CASE UpsertReindexed(p)
  BY <1>5, RowsReindexed DEF Keeps
<1>6. CASE CrashInClone(p)
  BY <1>6, <1>n, RTyped DEF CrashInClone, Finish
<1> QED
  BY <1>1, <1>2, <1>3, <1>4, <1>5, <1>6 DEF OwnStep, Reads

LEMMA OwnPreserves ==
  ASSUME RTypeInv, NEW p \in Proc, StartReindex(p) \/ OwnStep(p) \/ CrashInClone(p)
  PROVE  Preserves /\ UNCHANGED <<files, revision, extracted, fingerprint>>
BY OwnStore, RowsReindexed, RowIsValue DEF Preserves

LEMMA CompleteOwn ==
  ASSUME RTypeInv, RRowInv, UndisturbedInv, RememberedInv, RCompleteInv, NEW p \in Proc,
         StartReindex(p) \/ OwnStep(p) \/ CrashInClone(p)
  PROVE  CompleteInv'
<1>t. TypeInv /\ job[p] \in Job
  BY RTyped
<1>k. Preserves /\ UNCHANGED <<files, revision, extracted, fingerprint>>
  BY OwnPreserves
<1>u. ASSUME UpsertReindexed(p)
      PROVE  Covered(job[p].snap)' /\ job'[p].snap = job[p].snap
  <2>1. job[p].cmd = "reindex" /\ job'[p].snap = job[p].snap
    BY <1>u, RowsReindexed DEF Keeps
  <2> QED
    BY <1>u, <2>1, ReindexCovers DEF UndisturbedInv, RememberedInv, RCompleteInv
<1>1. InventoriesWhole'
  BY <1>k DEF RCompleteInv, CompleteInv, InventoriesWhole
<1>2. ASSUME NEW s \in Snap,
             fingerprint'[s] # Null \/ \E f \in Path, l \in Layout : chunks'[<<s, f, l>>] # Null
      PROVE  Covered(s)'
  <2>1. CASE \/ fingerprint[s] # Null
             \/ \E f \in Path, l \in Layout : chunks[<<s, f, l>>] # Null
    BY <1>k, <2>1, CoveredStays DEF RCompleteInv, CompleteInv, IndexedCovered, HasRows
  <2>2. ASSUME NEW f \in Path, NEW l \in Layout, chunks'[<<s, f, l>>] # Null,
               chunks[<<s, f, l>>] = Null
        PROVE  Covered(s)'
    <3> DEFINE id == <<s, f, l>>
    <3>1. id \in ChunkId /\ id[1] = s
      BY DEF ChunkId
    <3>2. UpsertReindexed(p)
      BY <2>2, OwnStore
    <3>3. IsClone(p, id) \/ id = IdOf(p, id[2])
      BY <2>2, <3>1, <3>2, RowsReindexed
    <3> HIDE DEF id
    <3>4. s = job[p].snap
      BY <3>1, <3>3 DEF IsClone, IdOf
    <3> QED
      BY <1>u, <3>2, <3>4 DEF Covered, HasRows
  <2> QED
    BY <1>2, <1>k, <2>1, <2>2
<1>3. IndexedCovered'
  BY <1>2 DEF IndexedCovered, HasRows
<1>4. BuildCovers(p)'
  <2>1. job'[p] = NoJob => job'[p].pc \notin Building
    BY DEF NoJob, Building
  <2>2. At(p, "mark_chunks")' => Covered(job[p].snap)'
    BY <1>u, OwnPositions DEF At
  <2> QED
    BY <2>1, <2>2, OwnPositions DEF BuildCovers, At
<1>5. ASSUME NEW q \in Proc, q # p PROVE BuildCovers(q)'
  BY <1>t, <1>k, <1>5, OwnStore, BuildCoversWaiting DEF RCompleteInv, CompleteInv
<1> QED
  BY <1>1, <1>3, <1>4, <1>5 DEF CompleteInv

LEMMA PlanCoversStep ==
  ASSUME RTypeInv, UndisturbedInv, RCompleteInv, NEW p \in Proc, RStep(p)
  PROVE  \A q \in Proc : PlanCovers(q)'
<1>t. TypeInv
  BY RTyped
<1>1. ASSUME NEW q \in Proc, q # p PROVE PlanCovers(q)'
  <2>1. job'[q] = job[q] /\ plan'[q] = plan[q]
    BY <1>t, <1>1, SharedIsProc, OthersWait, PlanKept, OwnStore DEF RStep
  <2> QED
    BY <2>1 DEF RCompleteInv, PlanCovers
<1>2. PlanCovers(p)'
  <2>1. CASE ListBaselineChunks(p)
    BY <2>1, ListingCovers DEF UndisturbedInv, RCompleteInv
  <2>2. CASE ~ListBaselineChunks(p)
    BY <2>2, ListedOnce DEF PlanCovers, RCompleteInv
  <2> QED
    BY <2>1, <2>2
<1> QED
  BY <1>1, <1>2

LEMMA SharedUpsertIsBuild ==
  ASSUME RTypeInv, NEW p \in Proc, (StartOrFault(p) \/ PipelineStep(p)) /\ KeepPlan(p),
         UpsertChunks(p)
  PROVE  job[p].cmd # "reindex"
<1>1. SUFFICES ASSUME job[p].cmd = "reindex" PROVE FALSE
  OBVIOUS
<1>2. TypeInv
  BY RTyped
<1>3. job[p].pc = "materialize" /\ job'[p].pc = "mark_chunks"
  BY <1>2 DEF UpsertChunks, At, Goto, TypeInv, TypeOK, Job
<1>4. StartOrFault(p) \/ SharedStep(p)
  BY <1>1 DEF PipelineStep
<1> QED
  BY <1>2, <1>3, <1>4, OthersNeverMark

LEMMA RCompleteStep ==
  ASSUME RTypeInv, RRowInv, UndisturbedInv, RememberedInv, RCompleteInv, NEW p \in Proc, RStep(p)
  PROVE  RCompleteInv'
<1>1. CASE (StartOrFault(p) \/ PipelineStep(p)) /\ KeepPlan(p)
  <2>1. ProcStep(p) /\ TypeInv
    BY <1>1, SharedIsProc, RTyped
  <2>2. UpsertChunks(p) => job[p].cmd # "reindex"
    BY <1>1, SharedUpsertIsBuild
  <2> QED
    BY <2>1, <2>2, CompleteStep, PlanCoversStep DEF RRowInv, UndisturbedInv, RCompleteInv
<1>2. CASE StartReindex(p) \/ OwnStep(p) \/ CrashInClone(p)
  BY <1>2, CompleteOwn, PlanCoversStep DEF RCompleteInv
<1> QED
  BY <1>1, <1>2 DEF RStep

LEMMA RCompleteInvInit == ReindexInit => RCompleteInv
BY CompleteInit DEF ReindexInit, Init, RCompleteInv, PlanCovers, NoJob

LEMMA RCompleteInvStep ==
  RTypeInv /\ RRowInv /\ UndisturbedInv /\ RememberedInv /\ RCompleteInv
    /\ [ReindexNext]_reindexVars => RCompleteInv'
<1>1. ASSUME RCompleteInv, UNCHANGED <<db, job, plan>> PROVE RCompleteInv'
  BY <1>1 DEF RCompleteInv, CompleteInv, InventoriesWhole, IndexedCovered, BuildCovers, Covered,
     HasRows, At, db, PlanCovers
<1>2. UNCHANGED reindexVars => UNCHANGED <<db, job, plan>>
  BY DEF reindexVars, vars, db
<1>3. \A f \in Path, c \in Content \cup {Absent} :
        EditBesideReindex(f, c) => UNCHANGED <<db, job, plan>>
  BY DEF EditBesideReindex, Edit
<1> QED
  BY <1>1, <1>2, <1>3, RCompleteStep DEF ReindexNext, RStep

\* A re-index stores what it cloned and what it built at once, so that half of
\* its snapshot is never taken for a baseline or for the newest index.
THEOREM ReindexedSnapshotsAreComplete ==
  ASSUME ~EditsRace PROVE ReindexSpec => []IndexedIsComplete
<1>1. RTypeInv /\ RRowInv /\ UndisturbedInv /\ LayoutInv /\ RCompleteInv
        /\ [ReindexNext]_reindexVars => RCompleteInv'
  BY RCompleteInvStep DEF LayoutInv
<1>2. RCompleteInv => IndexedIsComplete
  BY CompleteIsIndexed DEF RCompleteInv
<1> QED
  BY <1>1, <1>2, LayoutCorrect, RCompleteInvInit, PTL DEF ReindexSpec

-----------------------------------------------------------------------------
\* The fingerprint of a snapshot is the one its rows were built under, as long
\* as one command runs at a time and none fails.

Lone == \A p, q \in Proc : p = q

\* Between the commit of the rows and the mark, the rows are ahead of the mark.
Marking(s) == \E p \in Proc : At(p, "mark_chunks") /\ job[p].snap = s

RowsAttributed ==
    \A id \in ChunkId : chunks[id] # Null =>
      /\ \A p \in Proc : At(p, "mark_chunks") /\ job[p].snap = id[1]
                           => chunks[id].cfg = job[p].cfg
      /\ ~Marking(id[1]) => chunks[id].cfg = fingerprint[id[1]]

\* A mark has its provenance record, or its command is about to write it.
MarksRecorded ==
    \A s \in Snap : fingerprint[s] # Null =>
      \/ \E r \in provenance : r.snap = s /\ r.cfg = fingerprint[s]
      \/ \E p \in Proc : /\ job[p].pc \in Ending /\ job[p].snap = s
                         /\ job[p].cfg = fingerprint[s]

AttributedInv == faults = 0 => RowsAttributed /\ MarksRecorded

LEMMA Unfailed ==
  ASSUME TypeInv, NEW p \in Proc, ProcStep(p), ~FaultStep(p)
  PROVE  /\ job[p].pc = "mark_chunks" => MarkChunks(p)
         /\ job[p].pc \in Ending => RecordProvenance(p)
         /\ UpsertChunks(p) \/ chunks' = chunks
         /\ MarkChunks(p) \/ fingerprint' = fingerprint
         /\ RecordProvenance(p) \/ provenance' = provenance
<1>1. job[p].pc = "mark_chunks" => MarkChunks(p)
  BY DEF ProcStep, StageStep, SharedStep, StartSnapshot, StartExtract, StartBuild, WriteManifest,
     InsertSnapshot, Scan, InsertFiles, MarkExtracted, ListFiles, ReuseDrafts, GenerateDrafts,
     ReadFails, WritePayload, UpsertChunks, RecordProvenance, At
<1>2. job[p].pc \in Ending => RecordProvenance(p)
  BY DEF ProcStep, StageStep, SharedStep, StartSnapshot, StartExtract, StartBuild, WriteManifest,
     InsertSnapshot, Scan, InsertFiles, MarkExtracted, ListFiles, ReuseDrafts, GenerateDrafts,
     ReadFails, WritePayload, UpsertChunks, MarkChunks, At, Ending
<1>3. UpsertChunks(p) \/ chunks' = chunks
  BY DEF ProcStep, StageStep, SharedStep, StartSnapshot, StartExtract, StartBuild, WriteManifest,
     InsertSnapshot, Scan, InsertFiles, MarkExtracted, ListFiles, ReuseDrafts, GenerateDrafts,
     ReadFails, WritePayload, MarkChunks, RecordProvenance, db
<1>4. MarkChunks(p) \/ fingerprint' = fingerprint
  BY DEF ProcStep, StageStep, SharedStep, StartSnapshot, StartExtract, StartBuild, WriteManifest,
     InsertSnapshot, Scan, InsertFiles, MarkExtracted, ListFiles, ReuseDrafts, GenerateDrafts,
     ReadFails, WritePayload, UpsertChunks, RecordProvenance, db
<1>5. RecordProvenance(p) \/ provenance' = provenance
  BY DEF ProcStep, StageStep, SharedStep, StartSnapshot, StartExtract, StartBuild, WriteManifest,
     InsertSnapshot, Scan, InsertFiles, MarkExtracted, ListFiles, ReuseDrafts, GenerateDrafts,
     ReadFails, WritePayload, UpsertChunks, MarkChunks, db
<1> QED
  BY <1>1, <1>2, <1>3, <1>4, <1>5

LEMMA Marked ==
  ASSUME TypeInv, NEW p \in Proc, MarkChunks(p)
  PROVE  /\ job[p].snap \in Snap /\ job[p].pc = "mark_chunks"
         /\ job'[p].snap = job[p].snap /\ job'[p].cfg = job[p].cfg /\ job'[p].pc \in Ending
         /\ fingerprint' = [fingerprint EXCEPT ![job[p].snap] = job[p].cfg]
         /\ chunks' = chunks /\ provenance' = provenance
<1>t. TypeOK /\ job \in [Proc -> Job] /\ job[p] \in Job
  BY DEF TypeInv, TypeOK
<1>1. job[p].pc = "mark_chunks" /\ job[p].snap \in Snap
  BY DEF MarkChunks, At, TypeInv, JobOK, JobHolds
<1>2. job' = [job EXCEPT ![p].pc = AfterMark(p)] /\ AfterMark(p) \in Ending
  BY DEF MarkChunks, Goto, AfterMark, Ending
<1> HIDE DEF AfterMark
<1>3. job'[p].snap = job[p].snap /\ job'[p].cfg = job[p].cfg /\ job'[p].pc \in Ending
  BY <1>t, <1>2 DEF Job
<1> QED
  BY <1>1, <1>3 DEF MarkChunks

LEMMA MarksRecordedStep ==
  ASSUME TypeInv, MarksRecorded, NEW p \in Proc, ProcStep(p), ~FaultStep(p)
  PROVE  MarksRecorded'
<1>t. TypeOK
  BY DEF TypeInv
<1>1. SUFFICES ASSUME NEW s \in Snap, fingerprint'[s] # Null
               PROVE  \/ \E r \in provenance' : r.snap = s /\ r.cfg = fingerprint'[s]
                      \/ \E q \in Proc : /\ job'[q].pc \in Ending /\ job'[q].snap = s
                                         /\ job'[q].cfg = fingerprint'[s]
  BY DEF MarksRecorded
<1>2. CASE MarkChunks(p) /\ s = job[p].snap
  <2>1. fingerprint'[s] = job[p].cfg
    BY <1>t, <1>2, Marked DEF TypeOK
  <2> QED
    BY <1>2, <2>1, Marked
<1>3. CASE ~(MarkChunks(p) /\ s = job[p].snap)
  <2>1. fingerprint'[s] = fingerprint[s]
    BY <1>t, <1>3, Unfailed, Marked DEF TypeOK
  <2>2. \A r \in provenance : r \in provenance'
    BY Unfailed DEF RecordProvenance
  <2>3. CASE \E r \in provenance : r.snap = s /\ r.cfg = fingerprint[s]
    BY <2>1, <2>2, <2>3
  <2>4. ASSUME NEW q \in Proc, job[q].pc \in Ending, job[q].snap = s, job[q].cfg = fingerprint[s]
        PROVE  \/ \E r \in provenance' : r.snap = s /\ r.cfg = fingerprint'[s]
               \/ \E o \in Proc : /\ job'[o].pc \in Ending /\ job'[o].snap = s
                                  /\ job'[o].cfg = fingerprint'[s]
    <3>1. CASE q # p
      BY <2>1, <2>4, <3>1, OthersWait
    <3>2. CASE q = p
      <4> DEFINE r == [cmd |-> job[p].cmd, snap |-> job[p].snap, cfg |-> job[p].cfg]
      <4>1. r \in provenance'
        BY <2>4, <3>2, Unfailed DEF RecordProvenance
      <4>2. r.snap = s /\ r.cfg = fingerprint'[s]
        BY <2>1, <2>4, <3>2
      <4> QED
        BY <4>1, <4>2
    <3> QED
      BY <3>1, <3>2
  <2> QED
    BY <1>1, <2>1, <2>3, <2>4 DEF MarksRecorded
<1> QED
  BY <1>2, <1>3

\* All rows of the snapshot are stored again: without failures each file has one
\* layout, whichever fingerprint it is built under.
LEMMA RebuiltWhole ==
  ASSUME TypeInv, RowInv, CanonicalInv, faults = 0, NEW p \in Proc, BuildCovers(p),
         job[p].cmd # "reindex", UpsertChunks(p),
         NEW id \in ChunkId, id[1] = job[p].snap, chunks'[id] # Null
  PROVE  chunks'[id].cfg = job[p].cfg
<1>t. job[p].pc \in Building /\ job[p].todo = {} /\ id[2] \in Path
  BY DEF UpsertChunks, At, Building, ChunkId
<1>1. CASE job[p].drafts[id[2]] # Null /\ id = IdOf(p, id[2])
  BY <1>1 DEF UpsertChunks, UpsertRows
<1>2. CASE ~(job[p].drafts[id[2]] # Null /\ id = IdOf(p, id[2]))
  <2>1. chunks'[id] = chunks[id]
    BY <1>2 DEF UpsertChunks, UpsertRows
  <2>2. files[id[1]][id[2]] = chunks[id].hash /\ id[3] = LayoutFor(chunks[id].hash)
    BY <2>1 DEF RowInv, RowMatchesInventory, CanonicalInv, RowsCanonical
  <2>3. chunks[id].hash # Absent
    BY <2>1, SentinelAssumption DEF TypeInv, TypeOK, ChunkRow
  <2>4. job[p].inventory[id[2]] = chunks[id].hash /\ id[2] \in Present(job[p].inventory)
    BY <1>t, <2>2, <2>3 DEF BuildCovers, Present
  <2>5. job[p].drafts[id[2]] # Null
    BY <1>t, <2>4 DEF BuildCovers, Drafted
  <2>6. job[p].drafts[id[2]] = Canonical(chunks[id].hash)
    BY <1>t, <2>4, <2>5 DEF CanonicalInv, DraftsCanonical
  <2>7. IdOf(p, id[2]) = <<id[1], id[2], id[3]>>
    BY <2>2, <2>6 DEF IdOf, LayoutFor, Canonical
  <2>8. id = <<id[1], id[2], id[3]>>
    BY DEF ChunkId
  <2> QED
    BY <1>2, <2>5, <2>7, <2>8
<1> QED
  BY <1>1, <1>2

LEMMA RowsAttributedStep ==
  ASSUME Lone, TypeInv, RowInv, CanonicalInv, CompleteInv, faults = 0, RowsAttributed,
         NEW p \in Proc, ProcStep(p), ~FaultStep(p), UpsertChunks(p) => job[p].cmd # "reindex"
  PROVE  RowsAttributed'
<1>t. TypeOK /\ job \in [Proc -> Job] /\ job[p] \in Job
  BY DEF TypeInv, TypeOK
<1>p. \A q \in Proc : q = p
  BY DEF Lone
<1>1. SUFFICES ASSUME NEW id \in ChunkId, chunks'[id] # Null
               PROVE  IF job'[p].pc = "mark_chunks" /\ job'[p].snap = id[1]
                      THEN chunks'[id].cfg = job'[p].cfg
                      ELSE chunks'[id].cfg = fingerprint'[id[1]]
  BY <1>p DEF RowsAttributed, Marking, At
<1>i. id[1] \in Snap
  BY DEF ChunkId
<1>o. chunks[id] # Null =>
        IF job[p].pc = "mark_chunks" /\ job[p].snap = id[1]
        THEN chunks[id].cfg = job[p].cfg
        ELSE chunks[id].cfg = fingerprint[id[1]]
  BY <1>p DEF RowsAttributed, Marking, At
<1>2. CASE UpsertChunks(p)
  <2>1. /\ job[p].pc = "materialize" /\ job'[p].pc = "mark_chunks"
        /\ job'[p].snap = job[p].snap /\ job'[p].cfg = job[p].cfg
        /\ fingerprint' = fingerprint
    BY <1>t, <1>2 DEF UpsertChunks, At, Goto, Job
  <2>2. CASE id[1] = job[p].snap
    BY <1>1, <1>2, <2>1, <2>2, RebuiltWhole DEF CompleteInv
  <2>3. CASE id[1] # job[p].snap
    <3>1. chunks'[id] = chunks[id]
      BY <1>2, <2>3 DEF UpsertChunks, UpsertRows, IdOf
    <3> QED
      BY <1>1, <1>o, <2>1, <2>3, <3>1
  <2> QED
    BY <2>2, <2>3
<1>3. CASE ~UpsertChunks(p)
  <2>1. chunks' = chunks /\ job'[p].pc # "mark_chunks"
    BY <1>3, Unfailed, MarksAfterUpsert
  <2>2. CASE MarkChunks(p)
    <3>1. fingerprint'[id[1]] = IF id[1] = job[p].snap THEN job[p].cfg ELSE fingerprint[id[1]]
      BY <1>t, <1>i, <2>2, Marked DEF TypeOK
    <3> QED
      BY <1>1, <1>o, <2>1, <2>2, <3>1, Marked
  <2>3. CASE ~MarkChunks(p)
    <3>1. fingerprint' = fingerprint /\ job[p].pc # "mark_chunks"
      BY <2>3, Unfailed
    <3> QED
      BY <1>1, <1>o, <2>1, <3>1
  <2> QED
    BY <2>2, <2>3
<1> QED
  BY <1>2, <1>3

LEMMA AttributedStep ==
  ASSUME Lone, TypeInv, RowInv, CanonicalInv, CompleteInv, AttributedInv,
         NEW p \in Proc, ProcStep(p), UpsertChunks(p) => job[p].cmd # "reindex"
  PROVE  AttributedInv'
BY FaultsGrow, RowsAttributedStep, MarksRecordedStep DEF AttributedInv

LEMMA AttributedInit == Init => AttributedInv
BY DEF Init, AttributedInv, RowsAttributed, MarksRecorded

LEMMA AttributedBetween == AttributedInv => AttributedBetweenCommands
<1>1. SUFFICES ASSUME AttributedInv, faults = 0, \A p \in Proc : At(p, "idle")
               PROVE  /\ AttributedToBuild
                      /\ \A s \in Snap : fingerprint[s] # Null =>
                           \E r \in provenance : r.snap = s /\ r.cfg = fingerprint[s]
  BY DEF AttributedBetweenCommands
<1>2. AttributedToBuild
  BY <1>1 DEF AttributedInv, RowsAttributed, AttributedToBuild, Marking, At
<1>3. \A p \in Proc : job[p].pc \notin Ending
  BY <1>1 DEF At, Ending
<1> QED
  BY <1>1, <1>2, <1>3 DEF AttributedInv, MarksRecorded

LEMMA AttributedInvStep ==
  ASSUME Lone
  PROVE  TypeInv /\ RowInv /\ CanonicalInv /\ CompleteInv /\ NoReindex /\ AttributedInv
           /\ [Next]_vars => AttributedInv'
<1>1. ASSUME AttributedInv, UNCHANGED <<db, job, faults>> PROVE AttributedInv'
  BY <1>1 DEF AttributedInv, RowsAttributed, MarksRecorded, Marking, At, db
<1>2. UNCHANGED vars => UNCHANGED <<db, job, faults>>
  BY DEF vars, db
<1>3. \A f \in Path, c \in Content \cup {Absent} : Edit(f, c) => UNCHANGED <<db, job, faults>>
  BY DEF Edit
<1> QED
  BY <1>1, <1>2, <1>3, AttributedStep DEF Next, ProcStep, NoReindex

\* Builds one after the other, under whichever fingerprints, leave each snapshot
\* under the fingerprint of its last build, with the provenance to show it.
THEOREM BuildsAreAttributed ==
  ASSUME ~EditsRace, Lone PROVE Spec => []AttributedBetweenCommands
<1>1. TypeInv /\ RowInv /\ QuietInv /\ NoReindex /\ CompleteInv /\ [Next]_vars => CompleteInv'
  BY CompleteInvStep
<1>2. TypeInv /\ RowInv /\ CanonicalInv /\ CompleteInv /\ NoReindex /\ AttributedInv
        /\ [Next]_vars => AttributedInv'
  BY AttributedInvStep
<1> QED
  BY <1>1, <1>2, QuietCorrect, NoReindexCorrect, CompleteInit, AttributedInit, AttributedBetween,
     PTL DEF Spec

-----------------------------------------------------------------------------
\* The same beside re-indexes, which reuse rows under one fingerprint only.

\* The rows a re-index remembers were built under the fingerprint it compares
\* with, and a snapshot of its own has none until it stores them all.
OneFingerprint(p) ==
    job[p].cmd = "reindex" =>
      /\ job[p].pc \in Unlisted =>
           plan[p].prevFp = PreviousFingerprint(plan[p].base, job[p].cfg)
      /\ job[p].pc \notin Unlisted => \A f \in Path, l \in Layout :
           plan[p].rows[<<f, l>>] # Null => plan[p].rows[<<f, l>>].cfg = plan[p].prevFp
      /\ plan[p].clones \cup plan[p].reused # {} => job[p].cfg = plan[p].prevFp
      /\ job[p].pc \in OwnSnapshot \ {"mark_chunks"} =>
           \A id \in ChunkId : id[1] = job[p].snap => chunks[id] = Null

RunsInherit == \A r \in runs : r.inherited \subseteq {r.fp}

FingerprintInv ==
    faults = 0 => RowsAttributed /\ MarksRecorded /\ RunsInherit /\ \A p \in Proc : OneFingerprint(p)

\* What a step of p may change of the comparison that p has made.
LEMMA ComparisonKept ==
  ASSUME RTypeInv, NEW p \in Proc, RStep(p), ~StartReindex(p), job'[p].cmd = "reindex",
         plan[p].clones \cup plan[p].reused # {} => job[p].cfg = plan[p].prevFp
  PROVE  /\ job[p].cmd = "reindex" /\ job'[p].cfg = job[p].cfg
         /\ plan'[p].base = plan[p].base /\ plan'[p].prevFp = plan[p].prevFp
         /\ plan'[p].clones \cup plan'[p].reused # {} => job[p].cfg = plan[p].prevFp
<1>t. TypeInv /\ PlanHolds(job[p], plan[p])
  BY RTyped
<1>n. job'[p] # NoJob
  BY DEF NoJob
<1>1. CASE (StartOrFault(p) \/ PipelineStep(p)) /\ KeepPlan(p)
  <2>1. ProcStep(p) /\ KeepPlan(p)
    BY <1>1, SharedIsProc
  <2>2. job[p].cmd = "reindex"
    BY <1>t, <2>1, StageOfOthers DEF PlanHolds
  <2>3. StageMoves(job[p], job'[p])
    BY <1>t, <1>n, <2>1, <2>2, StageOfReindex DEF PlanHolds, At
  <2>4. plan'[p] = plan[p]
    BY <2>1, <2>3, PlanKept DEF StageMoves
  <2> QED
    BY <2>2, <2>3, <2>4 DEF StageMoves, Keeps
<1>3. CASE Reads(p)
  <2>1. OwnMoves(job[p], job'[p], plan[p], plan'[p])
    BY <1>3, <1>n, ReadsMove
  <2>2. job[p].cmd = "reindex" /\ job'[p].cfg = job[p].cfg
    BY <2>1 DEF OwnMoves, Stays, Keeps
  <2>3. plan'[p].base = plan[p].base /\ plan'[p].prevFp = plan[p].prevFp
        /\ plan'[p].clones = plan[p].clones
    BY <2>1 DEF OwnMoves, PlanKeeps
  <2>4. CASE plan'[p].reused = plan[p].reused
    BY <2>2, <2>3, <2>4
  <2>5. CASE plan'[p].reused # plan[p].reused
    <3>1. Classify(tree # plan[p].files, job[p].cfg # plan[p].prevFp) = "no_change"
      BY <2>1, <2>5 DEF OwnMoves
    <3>2. job[p].cfg = plan[p].prevFp
      BY <3>1, Reasoning
    <3> QED
      BY <2>2, <2>3, <3>2
  <2> QED
    BY <2>4, <2>5
<1>4. CASE BeginSnapshot(p)
  BY <1>4, <1>n, SnapshotTaken
<1>5. CASE Diff(p)
  BY <1>5, <1>t, Diffed DEF Diff, At, PlanHolds, OwnPcs, Keeps
<1>6. CASE CloneFile(p) \/ CloneFails(p)
  <2>1. job[p].cmd = "reindex"
    BY <1>6, <1>t DEF CloneFile, CloneFails, At, PlanHolds, OwnPcs
  <2>2. PICK f \in plan[p].clones : ClonesOne(p, f)
    BY <1>6, Cloned
  <2> QED
    BY <2>1, <2>2 DEF ClonesOne, Keeps
<1>7. CASE UpsertReindexed(p)
  BY <1>7, RowsReindexed DEF Keeps
<1>8. CASE CrashInClone(p)
  BY <1>8, <1>n, RTyped DEF CrashInClone, Finish
<1> QED
  BY <1>1, <1>3, <1>4, <1>5, <1>6, <1>7, <1>8 DEF RStep, OwnStep, Reads

LEMMA OwnLeavesMark ==
  ASSUME NEW p \in Proc, StartReindex(p) \/ OwnStep(p)
  PROVE  /\ job[p].pc \notin {"mark_chunks", "record_provenance"}
         /\ job[p].pc = "record_run" => RecordRun(p)
         /\ RecordRun(p) \/ runs' = runs
BY DEF OwnStep, StartReindex, ListBaselineFiles, ListBaselineChunks, Resolve, Preview,
   BeginSnapshot, CheckExtract, Diff, CloneFile, CloneFails, UpsertReindexed, RecordRun, At

\* A lone process stores rows before its mark only, and marks what it stored.
LEMMA OneStores ==
  ASSUME RTypeInv, NEW p \in Proc, RStep(p), ~FaultStep(p), ~CrashInClone(p),
         job[p].cmd = "reindex"
  PROVE  /\ UpsertReindexed(p) \/ chunks' = chunks
         /\ job[p].pc = "mark_chunks" => MarkChunks(p)
         /\ job[p].pc = "record_run" => RecordRun(p)
         /\ job[p].pc = "record_provenance" => RecordProvenance(p)
<1>t. TypeInv
  BY RTyped
<1>1. CASE (StartOrFault(p) \/ PipelineStep(p)) /\ KeepPlan(p)
  <2>1. ProcStep(p)
    BY <1>1, SharedIsProc
  <2>2. ~RecordRun(p) /\ job[p].pc # "record_run"
    BY <1>1, <2>1, <1>t, Unfailed DEF RecordProvenance, At, Ending, RecordRun
  <2>3. ~UpsertChunks(p)
    BY <1>1, SharedUpsertIsBuild
  <2> QED
    BY <1>t, <2>1, <2>2, <2>3, Unfailed DEF Ending
<1>2. CASE StartReindex(p) \/ OwnStep(p)
  BY <1>2, OwnLeavesMark, OwnStore
<1> QED
  BY <1>1, <1>2 DEF RStep

LEMMA RunRecorded ==
  ASSUME RTypeInv, NEW p \in Proc, RecordRun(p)
  PROVE  /\ job[p].pc = "record_run" /\ job'[p].pc = "record_provenance"
         /\ job'[p].snap = job[p].snap /\ job'[p].cfg = job[p].cfg
BY RTyped DEF RecordRun, Goto, At, Job

LEMMA SnapshotStaysEmpty ==
  ASSUME RTypeInv, RRowInv, NEW p \in Proc, RStep(p), ~FaultStep(p), ~CrashInClone(p),
         job'[p].cmd = "reindex", job'[p].pc \in OwnSnapshot \ {"mark_chunks"},
         job[p].cmd = "reindex" /\ job[p].pc \in OwnSnapshot \ {"mark_chunks"} =>
           \A id \in ChunkId : id[1] = job[p].snap => chunks[id] = Null
  PROVE  \A id \in ChunkId : id[1] = job'[p].snap => chunks'[id] = Null
<1>t. TypeInv /\ TypeOK
  BY RTyped
<1>1. OwnBefore(p) /\ HasOwnSnapshot(job'[p], plan'[p])
  BY SharedIsProc, OwnBeforeShared, OwnBeforeOwn DEF RStep, HasOwnSnapshot
<1>2. CASE BeginSnapshot(p) /\ clock + 1 \in Snap /\ job'[p].snap = clock + 1
  <2>1. ~(clock + 1 <= clock) /\ chunks' = chunks
    BY <1>t, <1>2 DEF TypeOK, BeginSnapshot, db
  <2>2. revision[clock + 1] = Null
    BY <1>2, <2>1 DEF RRowInv, RowInv, SnapshotsOwned
  <2>3. ASSUME NEW id \in ChunkId, id[1] = clock + 1, chunks[id] # Null PROVE FALSE
    <3>1. files[id[1]][id[2]] = chunks[id].hash /\ chunks[id].hash # Absent /\ id[2] \in Path
      BY <1>t, <2>3, SentinelAssumption
      DEF RRowInv, RowInv, RowMatchesInventory, TypeOK, ChunkRow, ChunkId
    <3> QED
      BY <1>2, <2>2, <2>3, <3>1 DEF RRowInv, RowInv, SnapshotsOwned
  <2> QED
    BY <1>2, <2>1, <2>3
<1>3. CASE /\ job[p].cmd = "reindex" /\ HasOwnSnapshot(job[p], plan[p])
           /\ job'[p].snap = job[p].snap
  <2>1. job[p].pc # "mark_chunks"
    <3>1. MarkChunks(p) => job'[p].pc \in Ending
      BY <1>t, Marked
    <3>2. \A e \in Ending : e \notin OwnSnapshot
      BY DEF Ending, OwnSnapshot, Scanned, Rebuilding, Building, Creating
    <3> QED
      BY <1>3, <3>1, <3>2, OneStores
  <2>2. job[p].pc \notin Ending
    <3>1. RecordProvenance(p) => job'[p] = NoJob
      BY <1>t DEF RecordProvenance, Finish, TypeOK
    <3>2. job'[p] # NoJob /\ "record_provenance" \notin OwnSnapshot
      BY DEF NoJob, OwnSnapshot, Scanned, Rebuilding, Building, Creating
    <3> QED
      BY <1>3, <3>1, <3>2, OneStores, RunRecorded DEF Ending
  <2>3. chunks' = chunks
    <3>1. ~UpsertReindexed(p)
      BY RowsReindexed
    <3> QED
      BY <1>3, <3>1, OneStores
  <2> QED
    BY <1>3, <2>1, <2>2, <2>3 DEF HasOwnSnapshot
<1> QED
  BY <1>1, <1>2, <1>3 DEF OwnBefore

LEMMA ListingStays ==
  ASSUME RTypeInv, NEW p \in Proc, RStep(p), ~StartReindex(p), job'[p].cmd = "reindex",
         job'[p].pc \in Unlisted
  PROVE  job[p].pc \in Unlisted /\ fingerprint' = fingerprint
<1>t. TypeInv /\ PlanHolds(job[p], plan[p])
  BY RTyped
<1>n. job'[p] # NoJob
  BY DEF NoJob
<1>1. CASE (StartOrFault(p) \/ PipelineStep(p)) /\ KeepPlan(p)
  <2>1. ProcStep(p)
    BY <1>1, SharedIsProc
  <2>2. job[p].cmd = "reindex"
    BY <1>t, <2>1, StageOfOthers DEF PlanHolds
  <2>3. StageMoves(job[p], job'[p])
    BY <1>t, <1>n, <2>1, <2>2, StageOfReindex DEF PlanHolds, At
  <2>4. job'[p].pc \notin Unlisted
    BY <2>3 DEF StageMoves, Unlisted
  <2> QED
    BY <2>4
<1>2. CASE OwnStep(p) \/ CrashInClone(p)
  <2>1. Reads(p)
    BY <1>2, <1>n, SnapshotTaken, Diffed, Cloned, RowsReindexed, RTyped
    DEF OwnStep, Reads, ClonesOne, Unlisted, CrashInClone, Finish
  <2>2. OwnMoves(job[p], job'[p], plan[p], plan'[p])
    BY <1>n, <2>1, ReadsMove
  <2>3. job[p].pc \in Unlisted
    BY <2>2 DEF OwnMoves, Unlisted
  <2> QED
    BY <2>1, <2>3, ReadsMove DEF db
<1> QED
  BY <1>1, <1>2 DEF RStep

LEMMA OneFingerprintStep ==
  ASSUME Lone, RTypeInv, RRowInv, RowsAttributed, NEW p \in Proc, OneFingerprint(p),
         RStep(p), ~FaultStep(p), ~CrashInClone(p)
  PROVE  OneFingerprint(p)'
<1>t. TypeOK /\ PlanHolds(job[p], plan[p])
  BY RTyped
<1>1. CASE StartReindex(p)
  <2>1. RTypeInv'
    BY RTypeInvStep DEF ReindexNext, RStep
  <2>2. PlanHolds(job'[p], plan'[p])
    BY <2>1 DEF RTypeInv, PlanOK
  <2>3. /\ job'[p].cmd = "reindex" /\ job'[p].pc = "list_baseline"
        /\ plan'[p].prevFp = PreviousFingerprint(plan'[p].base, job'[p].cfg)
        /\ fingerprint' = fingerprint
    BY <1>1, ReindexStarts DEF db
  <2>4. plan'[p].clones = {} /\ plan'[p].reused = {}
    BY <2>2, <2>3 DEF PlanHolds, Rebuilding, Building, Ending
  <2>5. job'[p].pc \in Unlisted /\ job'[p].pc \notin OwnSnapshot
    BY <2>3 DEF Unlisted, OwnSnapshot, Creating, Scanned, Rebuilding, Building
  <2> QED
    BY <2>3, <2>4, <2>5 DEF OneFingerprint, PreviousFingerprint
<1>2. CASE ~StartReindex(p) /\ job'[p].cmd = "reindex"
  <2>k. /\ job[p].cmd = "reindex" /\ job'[p].cfg = job[p].cfg
        /\ plan'[p].base = plan[p].base /\ plan'[p].prevFp = plan[p].prevFp
        /\ plan'[p].clones \cup plan'[p].reused # {} => job[p].cfg = plan[p].prevFp
    <3>1. plan[p].clones \cup plan[p].reused # {} => job[p].cfg = plan[p].prevFp
      <4>1. job[p].cmd # "reindex" => job'[p].cmd # "reindex"
        BY <1>2, <1>t, RTyped, SharedIsProc, StageOfOthers, OwnStays, SnapshotTaken
        DEF RStep, PlanHolds
      <4> QED
        BY <1>2, <4>1 DEF OneFingerprint
    <3> QED
      BY <1>2, <3>1, ComparisonKept
  <2>1. job'[p].pc \in Unlisted =>
          plan'[p].prevFp = IF fingerprint'[plan'[p].base] # Null
                            THEN fingerprint'[plan'[p].base] ELSE job'[p].cfg
    BY <1>2, <2>k, ListingStays DEF OneFingerprint, PreviousFingerprint
  <2>2. ASSUME job'[p].pc \notin Unlisted, NEW f \in Path, NEW l \in Layout,
               plan'[p].rows[<<f, l>>] # Null
        PROVE  plan'[p].rows[<<f, l>>].cfg = plan'[p].prevFp
    <3>1. CASE ListBaselineChunks(p)
      <4>1. job[p].pc = "list_baseline_chunks" /\ plan[p].base \in Snap
        BY <1>t, <2>k, <3>1 DEF ListBaselineChunks, At, PlanHolds
      <4>2. plan'[p].rows[<<f, l>>] = chunks[<<plan[p].base, f, l>>]
        BY <3>1, RTyped DEF ListBaselineChunks, Plan
      <4>3. <<plan[p].base, f, l>> \in ChunkId
        BY <4>1 DEF ChunkId
      <4>4. ~Marking(plan[p].base)
        BY <4>1 DEF Marking, Lone, At
      <4>5. chunks[<<plan[p].base, f, l>>].cfg = fingerprint[plan[p].base]
        BY <2>2, <4>2, <4>3, <4>4 DEF RowsAttributed
      <4>6. chunks[<<plan[p].base, f, l>>].cfg \in Config
        BY <1>t, <2>2, <4>2, <4>3 DEF TypeOK, ChunkRow
      <4>7. plan[p].prevFp = fingerprint[plan[p].base]
        BY <2>k, <4>1, <4>5, <4>6, SentinelAssumption
        DEF OneFingerprint, Unlisted, PreviousFingerprint
      <4> QED
        BY <2>k, <4>2, <4>5, <4>7
    <3>2. CASE ~ListBaselineChunks(p)
      BY <1>2, <2>k, <2>2, <3>2, ListedOnce DEF OneFingerprint
    <3> QED
      BY <3>1, <3>2
  <2>3. ASSUME job'[p].pc \in OwnSnapshot \ {"mark_chunks"}
        PROVE  \A id \in ChunkId : id[1] = job'[p].snap => chunks'[id] = Null
    BY <1>2, <2>3, SnapshotStaysEmpty DEF OneFingerprint
  <2> QED
    BY <2>k, <2>1, <2>2, <2>3 DEF OneFingerprint, PreviousFingerprint
<1> QED
  BY <1>1, <1>2 DEF OneFingerprint

\* The rows of a re-index are stored under its own fingerprint, also the clones.
LEMMA OwnRowsAttributed ==
  ASSUME Lone, RTypeInv, RowsAttributed, NEW p \in Proc, OneFingerprint(p),
         StartReindex(p) \/ OwnStep(p)
  PROVE  RowsAttributed'
<1>t. TypeOK
  BY RTyped
<1>p. \A q \in Proc : q = p
  BY DEF Lone
<1>1. SUFFICES ASSUME NEW id \in ChunkId, chunks'[id] # Null
               PROVE  IF job'[p].pc = "mark_chunks" /\ job'[p].snap = id[1]
                      THEN chunks'[id].cfg = job'[p].cfg
                      ELSE chunks'[id].cfg = fingerprint'[id[1]]
  BY <1>p DEF RowsAttributed, Marking, At
<1>o. chunks[id] # Null => chunks[id].cfg = fingerprint[id[1]]
  BY <1>p, OwnLeavesMark DEF RowsAttributed, Marking, At
<1>f. fingerprint' = fingerprint
  BY OwnStore
<1>2. CASE UpsertReindexed(p)
  <2>1. /\ job[p].pc = "materialize" /\ job[p].cmd = "reindex" /\ job'[p].pc = "mark_chunks"
        /\ job'[p].snap = job[p].snap /\ job'[p].cfg = job[p].cfg
    BY <1>2, RowsReindexed DEF Keeps
  <2>2. CASE id[1] = job[p].snap
    <3>1. chunks[id] = Null
      BY <2>1, <2>2 DEF OneFingerprint, OwnSnapshot, Scanned, Rebuilding, Building
    <3>2. CASE IsClone(p, id)
      <4>1. id[2] \in Path /\ id[3] \in Layout /\ id[2] \in plan[p].reused
            /\ plan[p].rows[<<id[2], id[3]>>] # Null
        BY <3>2 DEF IsClone, Layouts, ChunkId
      <4>2. chunks'[id].cfg = plan[p].rows[<<id[2], id[3]>>].cfg
        BY <1>2, <3>2 DEF UpsertReindexed, CloneRow
      <4>3. job[p].cfg = plan[p].prevFp
        BY <2>1, <4>1 DEF OneFingerprint
      <4>4. plan[p].rows[<<id[2], id[3]>>].cfg = plan[p].prevFp
        BY <2>1, <4>1 DEF OneFingerprint, Unlisted
      <4> QED
        BY <2>1, <2>2, <4>2, <4>3, <4>4
    <3>3. CASE ~IsClone(p, id)
      <4>1. chunks'[id].cfg = job[p].cfg
        BY <1>1, <1>2, <3>1, <3>3 DEF UpsertReindexed
      <4> QED
        BY <2>1, <2>2, <4>1
    <3> QED
      BY <3>2, <3>3
  <2>3. CASE id[1] # job[p].snap
    <3>1. chunks'[id] = chunks[id]
      BY <1>2, <2>3 DEF UpsertReindexed, IsClone, IdOf
    <3> QED
      BY <1>1, <1>o, <1>f, <2>1, <2>3, <3>1
  <2> QED
    BY <2>2, <2>3
<1>3. CASE ~UpsertReindexed(p)
  BY <1>1, <1>o, <1>f, <1>3, OwnStore, OwnPositions
<1> QED
  BY <1>2, <1>3

LEMMA OwnMarksRecorded ==
  ASSUME RTypeInv, MarksRecorded, NEW p \in Proc, StartReindex(p) \/ OwnStep(p)
  PROVE  MarksRecorded'
<1>1. SUFFICES ASSUME NEW s \in Snap, fingerprint[s] # Null, NEW q \in Proc,
                      job[q].pc \in Ending, job[q].snap = s, job[q].cfg = fingerprint[s]
               PROVE  job'[q].pc \in Ending /\ job'[q].snap = s /\ job'[q].cfg = fingerprint[s]
  BY OwnStore DEF MarksRecorded
<1>2. CASE q # p
  BY <1>1, <1>2, OwnStore
<1>3. CASE q = p
  BY <1>1, <1>3, OwnLeavesMark, RunRecorded DEF Ending
<1> QED
  BY <1>2, <1>3

LEMMA RunInherits ==
  ASSUME RTypeInv, RunsInherit, NEW p \in Proc, OneFingerprint(p), RecordRun(p)
  PROVE  RunsInherit'
<1>1. job[p].cmd = "reindex" /\ job[p].pc \notin Unlisted /\ plan[p].reused \subseteq Path
  BY RTyped, RunRecorded DEF PlanHolds, OwnPcs, Unlisted, Plan
<1>2. ASSUME NEW f \in plan[p].reused, NEW l \in Layout, plan[p].rows[<<f, l>>] # Null
      PROVE  plan[p].rows[<<f, l>>].cfg = job[p].cfg
  BY <1>1, <1>2 DEF OneFingerprint
<1>3. RunOf(p).inherited \subseteq {RunOf(p).fp}
  BY <1>2 DEF RunOf
<1> QED
  BY <1>3 DEF RunsInherit, RecordRun

LEMMA FingerprintStep ==
  ASSUME Lone, RTypeInv, RRowInv, CanonicalInv, CompleteInv, FingerprintInv,
         NEW p \in Proc, RStep(p)
  PROVE  FingerprintInv'
<1>t. TypeInv /\ RowInv
  BY RTyped DEF RRowInv
<1>1. SUFFICES ASSUME faults' = 0
               PROVE  (RowsAttributed /\ MarksRecorded /\ RunsInherit)'
                      /\ \A q \in Proc : OneFingerprint(q)'
  BY DEF FingerprintInv
<1>2. faults = 0 /\ ~FaultStep(p) /\ ~CrashInClone(p)
  BY <1>1, FaultsGrowBeside
<1>3. RowsAttributed /\ MarksRecorded /\ RunsInherit /\ OneFingerprint(p)
  BY <1>2 DEF FingerprintInv
<1>5. \A q \in Proc : OneFingerprint(q)'
  <2>1. OneFingerprint(p)'
    BY <1>2, <1>3, OneFingerprintStep
  <2>2. \A q \in Proc : q = p
    BY DEF Lone
  <2> QED
    BY <2>1, <2>2
<1>6. CASE (StartOrFault(p) \/ PipelineStep(p)) /\ KeepPlan(p)
  <2>1. ProcStep(p)
    BY <1>6, SharedIsProc
  <2>2. RunsInherit'
    BY <1>3, <1>6, PlanKept DEF RunsInherit
  <2>3. UpsertChunks(p) => job[p].cmd # "reindex"
    BY <1>6, SharedUpsertIsBuild
  <2>4. RowsAttributed'
    BY <1>t, <1>2, <1>3, <2>1, <2>3, RowsAttributedStep
  <2>5. MarksRecorded'
    BY <1>t, <1>2, <1>3, <2>1, MarksRecordedStep
  <2> QED
    BY <1>5, <2>2, <2>4, <2>5
<1>7. CASE StartReindex(p) \/ OwnStep(p)
  <2>1. RunsInherit'
    BY <1>3, <1>7, RunInherits, OwnLeavesMark DEF RunsInherit
  <2> QED
    BY <1>3, <1>5, <1>7, <2>1, OwnRowsAttributed, OwnMarksRecorded
<1> QED
  BY <1>2, <1>6, <1>7 DEF RStep

LEMMA FingerprintInvInit == ReindexInit => FingerprintInv
BY DEF ReindexInit, Init, FingerprintInv, RowsAttributed, MarksRecorded, RunsInherit,
   OneFingerprint, NoJob

LEMMA FingerprintInvStep ==
  ASSUME Lone
  PROVE  RTypeInv /\ RRowInv /\ LayoutInv /\ RCompleteInv /\ FingerprintInv
           /\ [ReindexNext]_reindexVars => FingerprintInv'
<1>1. ASSUME FingerprintInv, UNCHANGED <<db, job, plan, runs, faults>> PROVE FingerprintInv'
  <2>1. /\ RowsAttributed => RowsAttributed'
        /\ MarksRecorded => MarksRecorded'
        /\ RunsInherit => RunsInherit'
    BY <1>1 DEF RowsAttributed, MarksRecorded, Marking, At, db, RunsInherit
  <2>2. \A p \in Proc : OneFingerprint(p) => OneFingerprint(p)'
    BY <1>1 DEF OneFingerprint, PreviousFingerprint, db
  <2> QED
    BY <1>1, <2>1, <2>2 DEF FingerprintInv
<1>2. UNCHANGED reindexVars => UNCHANGED <<db, job, plan, runs, faults>>
  BY DEF reindexVars, vars, db
<1>3. \A f \in Path, c \in Content \cup {Absent} :
        EditBesideReindex(f, c) => UNCHANGED <<db, job, plan, runs, faults>>
  BY DEF EditBesideReindex, Edit
<1> QED
  BY <1>1, <1>2, <1>3, FingerprintStep DEF ReindexNext, RStep, LayoutInv, RCompleteInv

LEMMA FingerprintCorrect ==
  ASSUME ~EditsRace, Lone
  PROVE  ReindexSpec => [](RTypeInv /\ FingerprintInv)
<1>1. RTypeInv /\ RRowInv /\ UndisturbedInv /\ LayoutInv /\ RCompleteInv
        /\ [ReindexNext]_reindexVars => RCompleteInv'
  BY RCompleteInvStep DEF LayoutInv
<1>2. RTypeInv /\ RRowInv /\ LayoutInv /\ RCompleteInv /\ FingerprintInv
        /\ [ReindexNext]_reindexVars => FingerprintInv'
  BY FingerprintInvStep
<1> QED
  BY <1>1, <1>2, LayoutCorrect, RCompleteInvInit, FingerprintInvInit, PTL DEF ReindexSpec

\* Re-indexes among builds, one after the other and under whichever
\* fingerprints, leave each snapshot attributed to its last command.
THEOREM ReindexesAreAttributed ==
  ASSUME ~EditsRace, Lone PROVE ReindexSpec => []AttributedBetweenCommands
<1>1. FingerprintInv => AttributedBetweenCommands
  BY AttributedBetween DEF FingerprintInv, AttributedInv
<1> QED
  BY <1>1, FingerprintCorrect, PTL

\* A re-index never passes on a row that was built under another fingerprint
\* than its own, through however many snapshots the row has been cloned.
THEOREM RowsAreReusedUnderOneFingerprint ==
  ASSUME ~EditsRace, Lone, MaxFaults = 0 PROVE ReindexSpec => []ReuseUnderSameConfig
<1>1. RTypeInv /\ FingerprintInv => ReuseUnderSameConfig
  BY RTyped DEF FingerprintInv, RunsInherit, ReuseUnderSameConfig, TypeOK
<1> QED
  BY <1>1, FingerprintCorrect, PTL
=============================================================================
