------------------------- MODULE IndexPipelineProofs -------------------------
(***************************************************************************)
(* Theorems about IndexPipeline, for any number of processes, paths,       *)
(* contents, fingerprints, snapshots, edits and faults.                    *)
(***************************************************************************)
EXTENDS IndexPipeline, TLAPS

\* What a process holds at its position.
Building == {"materialize", "write_payload", "mark_chunks"}
Creating == {"write_manifest", "insert_snapshot"}

JobHolds(j) ==
    /\ j.pc # "idle" => j.snap \in Snap
    /\ j.pc \in Creating => j.rev \in Tree
    /\ j.pc \in Building \cup {"list_files", "record_provenance"} => j.cfg \in Config
    /\ j.pc = "list_files" => j.drafts = NoDrafts
    /\ j.pc \in Building =>
         \A f \in Path : f \in j.todo \/ j.drafts[f] # Null => j.inventory[f] # Absent

JobOK == \A p \in Proc : JobHolds(job[p])

\* Snapshot ids are handed out once, and nothing of a snapshot exists before
\* its row does, except the manifest its creator has written.
Owns(p) ==
    /\ job[p].pc \in Creating => /\ job[p].snap <= clock
                                 /\ revision[job[p].snap] = Null
    /\ At(p, "insert_snapshot") => job[p].snap \in manifests
    /\ job[p].pc \notin Creating \cup {"idle"} => revision[job[p].snap] # Null

SnapshotsOwned ==
    /\ \A s \in Snap : revision[s] # Null => s <= clock /\ s \in manifests
    /\ \A s \in Snap, f \in Path : files[s][f] # Absent => revision[s] # Null
    /\ \A p \in Proc : Owns(p)
    /\ \A p, q \in Proc : p # q /\ job[p].pc \in Creating /\ job[q].pc \in Creating
                            => job[p].snap # job[q].snap

\* A building process works from rows that are in the database, and every file
\* it has done has its payload on disk.
Backed(p) ==
    job[p].pc \in Building => \A f \in Path :
      /\ job[p].inventory[f] # Absent => files[job[p].snap][f] = job[p].inventory[f]
      /\ job[p].drafts[f] # Null /\ f \notin job[p].todo => payloads[IdOf(p, f)] # Null

BuildBacked == \A p \in Proc : Backed(p)

RowInv == SnapshotsOwned /\ BuildBacked /\ RowHasPayload /\ RowMatchesInventory

\* Quiet edits: what was validated stays true while a command reads, so every
\* cache entry, draft and payload holds the text of its key.
JobValid(p) ==
    /\ Reading(p) => MatchesLive(job[p].snap)
    /\ At(p, "insert_files") => job[p].inventory = revision[job[p].snap]
    /\ At(p, "mark_extracted") => files[job[p].snap] = revision[job[p].snap]

Validated ==
    /\ \A p \in Proc : JobValid(p)
    /\ \A s \in Snap, f \in Path : files[s][f] # Absent => files[s][f] = revision[s][f]

CachesSound ==
    /\ \A k \in Path \X Content : parserCache[k] # Null => parserCache[k] = k[2]
    /\ \A k \in Path \X Content \X Config : chunkCache[k] # Null => chunkCache[k].text = k[2]

DraftsSound(p) ==
    \A f \in Path : job[p].pc \in Building /\ job[p].drafts[f] # Null
                      => job[p].drafts[f].text = job[p].inventory[f]

TextsSound ==
    /\ \A p \in Proc : DraftsSound(p)
    /\ \A id \in ChunkId : payloads[id] \notin {Null, Torn}
                             => payloads[id] = files[id[1]][id[2]]

QuietInv == Validated /\ InventoryMatchesRevision /\ CachesSound /\ TextsSound
-----------------------------------------------------------------------------
\* The type invariant.

TypeInv == TypeOK /\ JobOK

LEMMA NoJobTyped == NoJob \in Job
BY DEF NoJob, Job, Commands, Positions, Tree, EmptyTree, NoDrafts

LEMMA NoJobHolds == JobHolds(NoJob)
BY DEF JobHolds, NoJob, Creating, Building

LEMMA TypeInvInit == Init => TypeInv
<1>1. SUFFICES ASSUME Init PROVE TypeInv
  OBVIOUS
<1>2. TypeOK
  BY <1>1, NoJobTyped, BoundAssumption DEF Init, TypeOK, Tree, EmptyTree
<1>3. JobOK
  BY <1>1, NoJobHolds DEF Init, JobOK
<1> QED
  BY <1>2, <1>3 DEF TypeInv

\* Every action replaces at most the job of its own process.
LEMMA JobReplaced ==
  ASSUME job \in [Proc -> Job], JobOK, NEW p \in Proc, NEW j \in Job, JobHolds(j),
         job' = [job EXCEPT ![p] = j]
  PROVE  job' \in [Proc -> Job] /\ JobOK'
BY DEF JobOK

LEMMA Finished ==
  ASSUME job \in [Proc -> Job], JobOK, NEW p \in Proc, Finish(p)
  PROVE  job' \in [Proc -> Job] /\ JobOK'
BY NoJobTyped, NoJobHolds, JobReplaced DEF Finish

\* Moving on is harmless where the next position asks for nothing new.
LEMMA Moved ==
  ASSUME job \in [Proc -> Job], JobOK, NEW p \in Proc,
         NEW where \in Positions \ {"list_files", "write_payload"},
         ~At(p, "idle"),
         where \in Creating => job[p].pc \in Creating,
         where \in Building \cup {"record_provenance"} => job[p].pc \in Building,
         job' = [job EXCEPT ![p] = [job[p] EXCEPT !.pc = where]]
  PROVE  job' \in [Proc -> Job] /\ JobOK'
<1> DEFINE j == [job[p] EXCEPT !.pc = where]
<1>1. j \in Job
  BY DEF Job
<1>2. JobHolds(j)
  BY DEF Job, JobOK, JobHolds, At, Building, Creating
<1> QED
  BY <1>1, <1>2, JobReplaced

LEMMA StageEnded ==
  ASSUME job \in [Proc -> Job], JobOK, NEW p \in Proc,
         NEW where \in {"check_extract", "diff", "record_run"},
         ~At(p, "idle"), EndStage(p, where)
  PROVE  job' \in [Proc -> Job] /\ JobOK'
<1>1. CASE job[p].cmd = "reindex"
  BY <1>1, Moved DEF EndStage, Positions, Creating, Building
<1>2. CASE job[p].cmd # "reindex"
  BY <1>2, Finished DEF EndStage, Finish
<1> QED
  BY <1>1, <1>2

\* The keys and drafts of a file still to be done are typed.
LEMMA FileTyped ==
  ASSUME TypeInv, NEW p \in Proc, NEW f \in Path, NextFile(p, f),
         job[p].pc \in {"materialize", "write_payload"}
  PROVE  /\ job[p].snap \in Snap /\ job[p].inventory[f] \in Content
         /\ CacheKey(p, f) \in Path \X Content \X Config
         /\ chunkCache[CacheKey(p, f)] \in Draft \cup {Null}
         /\ At(p, "write_payload") => job[p].drafts[f] \in Draft
BY DEF TypeInv, TypeOK, JobOK, JobHolds, Job, Tree, NextFile, CacheKey, Building, At

LEMMA DraftLaidOut ==
  ASSUME TypeInv, NEW p \in Proc, NEW f \in Path, job[p].drafts[f] \in Draft,
         job[p].snap \in Snap
  PROVE  IdOf(p, f) \in ChunkId
BY LayoutAssumption DEF IdOf, ChunkId, Draft

\* Handing typed drafts to the writing step keeps every job typed.
LEMMA DraftsTaken ==
  ASSUME TypeInv, NEW p \in Proc, NEW f \in Path, NEW d \in Draft,
         At(p, "materialize"), NextFile(p, f), TakeDrafts(p, f, d)
  PROVE  job' \in [Proc -> Job] /\ JobOK'
<1> DEFINE j == [job[p] EXCEPT !.drafts[f] = d, !.pc = "write_payload"]
<1>0. job \in [Proc -> Job] /\ JobOK /\ d # Null
  BY SentinelAssumption DEF TypeInv, TypeOK
<1>p. "write_payload" \in Positions
  BY DEF Positions
<1>1. j \in Job
  BY <1>0, <1>p DEF Job
<1>3. JobHolds(j)
  BY <1>0, FileTyped DEF JobHolds, JobOK, Job, At, Creating, Building, NextFile
<1>4. job' = [job EXCEPT ![p] = j]
  BY <1>0 DEF TakeDrafts
<1> QED
  BY <1>0, <1>1, <1>3, <1>4, JobReplaced

LEMMA FellBack ==
  ASSUME TypeInv, NEW p \in Proc, NEW f \in Path, At(p, "materialize"),
         NextFile(p, f), tree[f] # Absent, FallBack(p, f)
  PROVE  /\ job' \in [Proc -> Job] /\ JobOK'
         /\ chunkCache' \in [Path \X Content \X Config -> Draft \cup {Null}]
<1> DEFINE windows == [text |-> tree[f], cut |-> Window]
<1>1. windows \in Draft
  BY DEF TypeInv, TypeOK, Tree, Draft, Cut
<1>2. chunkCache[CacheKey(p, f)] \in Draft \cup {Null}
  BY FileTyped DEF At
<1>3. CASE chunkCache[CacheKey(p, f)] # Null
  BY <1>2, <1>3, DraftsTaken DEF FallBack, TypeInv, TypeOK
<1>4. CASE chunkCache[CacheKey(p, f)] = Null
  <2>1. TakeDrafts(p, f, windows) /\ chunkCache' = [chunkCache EXCEPT ![CacheKey(p, f)] = windows]
    BY <1>4 DEF FallBack
  <2> QED
    BY <1>1, <2>1, DraftsTaken DEF TypeInv, TypeOK
<1> QED
  BY <1>3, <1>4
\* Each stage keeps the types: the rows and files it writes are typed because
\* of what JobOK says its process holds.
LEMMA TypeInvStage ==
  ASSUME TypeInv, NEW p \in Proc, StageStep(p)
  PROVE  TypeInv'
<1> USE DEF TypeInv
<1>t. TypeOK /\ JobOK /\ JobHolds(job[p]) /\ job \in [Proc -> Job] /\ job[p] \in Job
  BY DEF TypeOK, JobOK
<1>1. CASE WriteManifest(p)
  <2>1. job' \in [Proc -> Job] /\ JobOK'
    BY <1>t, <1>1, Moved DEF WriteManifest, Goto, At, Positions, Creating, Building
  <2> QED
    BY <1>t, <1>1, <2>1 DEF WriteManifest, TypeOK, JobHolds, At, env, db
<1>2. CASE InsertSnapshot(p)
  <2>1. job' \in [Proc -> Job] /\ JobOK'
    BY <1>t, <1>2, StageEnded DEF InsertSnapshot, At
  <2> QED
    BY <1>t, <1>2, <2>1 DEF InsertSnapshot, TypeOK, JobHolds, At, Creating, env, disk
<1>3. CASE Scan(p)
  <2> DEFINE j == [job[p] EXCEPT !.inventory = tree, !.pc = "insert_files"]
  <2>1. j \in Job /\ JobHolds(j)
    BY <1>t, <1>3 DEF Scan, TypeOK, JobHolds, Job, At, Creating, Building, Positions
  <2>2. job' \in [Proc -> Job] /\ JobOK'
    BY <1>t, <1>3, <2>1, JobReplaced DEF Scan
  <2> QED
    BY <1>t, <1>3, <2>2 DEF Scan, TypeOK, env, db, disk
<1>4. CASE InsertFiles(p)
  <2>1. job' \in [Proc -> Job] /\ JobOK'
    BY <1>t, <1>4, Moved DEF InsertFiles, Goto, At, Positions, Creating, Building
  <2>2. job[p].inventory \in Tree
    BY <1>t DEF Job
  <2>3. files' \in [Snap -> Tree]
    BY <1>t, <1>4, <2>2 DEF InsertFiles, TypeOK, Tree
  <2> QED
    BY <1>t, <1>4, <2>1, <2>3 DEF InsertFiles, TypeOK, env, disk
<1>5. CASE MarkExtracted(p)
  <2>1. job' \in [Proc -> Job] /\ JobOK'
    BY <1>t, <1>5, StageEnded DEF MarkExtracted, At
  <2> QED
    BY <1>t, <1>5, <2>1 DEF MarkExtracted, TypeOK, env, disk
<1>6. CASE ListFiles(p)
  <2>1. CASE Finish(p)
    BY <1>t, <1>6, <2>1, Finished DEF ListFiles, TypeOK, env, db, disk
  <2>2. CASE ~Finish(p)
    <3> DEFINE j == [job[p] EXCEPT !.inventory = files[job[p].snap],
                                  !.todo = {f \in Path : files[job[p].snap][f] # Absent},
                                  !.pc = "materialize"]
    <3>1. files[job[p].snap] \in Tree
      BY <1>t, <1>6 DEF ListFiles, TypeOK, JobHolds, At
    <3>2. j \in Job
      BY <1>t, <3>1 DEF Job, Positions
    <3>h. /\ job[p].snap \in Snap /\ job[p].cfg \in Config
          /\ \A f \in Path : job[p].drafts[f] = Null
      BY <1>t, <1>6 DEF ListFiles, JobHolds, At, NoDrafts
    <3>3. JobHolds(j)
      BY <1>t, <3>h, <3>2 DEF JobHolds, Job, Creating, Building
    <3>4. job' = [job EXCEPT ![p] = j]
      BY <1>t, <1>6, <2>2 DEF ListFiles
    <3>5. job' \in [Proc -> Job] /\ JobOK'
      BY <1>t, <3>2, <3>3, <3>4, JobReplaced
    <3> QED
      BY <1>t, <1>6, <3>5 DEF ListFiles, TypeOK, env, db, disk
  <2> QED
    BY <2>1, <2>2
<1>7. CASE ReuseDrafts(p)
  <2>1. PICK f \in Path : /\ NextFile(p, f) /\ StructuralHit(p, f)
                          /\ TakeDrafts(p, f, chunkCache[CacheKey(p, f)])
    BY <1>7 DEF ReuseDrafts
  <2>2. chunkCache[CacheKey(p, f)] \in Draft
    BY <1>7, <2>1, FileTyped DEF ReuseDrafts, StructuralHit, At
  <2>3. job' \in [Proc -> Job] /\ JobOK'
    BY <1>7, <2>1, <2>2, DraftsTaken DEF ReuseDrafts
  <2> QED
    BY <1>t, <1>7, <2>3 DEF ReuseDrafts, TypeOK, env, db, disk
<1>8. CASE GenerateDrafts(p)
  <2> DEFINE key(f) == <<f, job[p].inventory[f]>>
             cut(f) == IF parserCache[key(f)] # Null THEN parserCache[key(f)] ELSE tree[f]
             drafts(f) == [text |-> tree[f], cut |-> cut(f)]
  <2>1. PICK f \in Path :
          /\ NextFile(p, f) /\ tree[f] # Absent
          /\ parserCache' = [parserCache EXCEPT ![key(f)] = cut(f)]
          /\ IF cut(f) \in Structural
             THEN /\ TakeDrafts(p, f, drafts(f))
                  /\ chunkCache' = [chunkCache EXCEPT ![CacheKey(p, f)] = drafts(f)]
             ELSE FallBack(p, f)
    BY <1>8 DEF GenerateDrafts
  <2>2. At(p, "materialize")
    BY <1>8 DEF GenerateDrafts
  <2>3. /\ key(f) \in Path \X Content
        /\ CacheKey(p, f) \in Path \X Content \X Config
    BY <2>1, <2>2, FileTyped DEF At
  <2>4. tree[f] \in Content
    BY <1>t, <2>1 DEF TypeOK, Tree
  <2>5. cut(f) \in Content
    BY <1>t, <2>3, <2>4 DEF TypeOK
  <2>6. parserCache' \in [Path \X Content -> Content \cup {Null}]
    BY <1>t, <2>1, <2>3, <2>5 DEF TypeOK
  <2>7. drafts(f) \in Draft
    BY <2>4, <2>5 DEF Draft, Cut
  <2>8. /\ job' \in [Proc -> Job] /\ JobOK'
        /\ chunkCache' \in [Path \X Content \X Config -> Draft \cup {Null}]
    <3>1. CASE cut(f) \in Structural
      <4>1. /\ TakeDrafts(p, f, drafts(f))
            /\ chunkCache' = [chunkCache EXCEPT ![CacheKey(p, f)] = drafts(f)]
        BY <2>1, <3>1
      <4> HIDE DEF drafts
      <4> QED
        BY <1>t, <2>1, <2>2, <2>3, <2>7, <4>1, DraftsTaken DEF TypeOK
    <3>2. CASE cut(f) \notin Structural
      BY <2>1, <2>2, <3>2, FellBack
    <3> QED
      BY <3>1, <3>2
  <2> QED
    BY <1>t, <1>8, <2>6, <2>8 DEF GenerateDrafts, TypeOK, env, db
<1>9. CASE ReadFails(p)
  <2>1. faults' \in 0..MaxFaults
    BY <1>t, <1>9, BoundAssumption DEF ReadFails, Fault, TypeOK
  <2> QED
    BY <1>t, <1>9, <2>1, Finished DEF ReadFails, TypeOK, db, disk
<1>10. CASE WritePayload(p)
  <2>1. PICK f \in Path :
          /\ NextFile(p, f)
          /\ payloads' = [payloads EXCEPT ![IdOf(p, f)] = job[p].drafts[f].text]
          /\ job' = [job EXCEPT ![p] = [job[p] EXCEPT !.todo = @ \ {f}, !.pc = "materialize"]]
    BY <1>t, <1>10 DEF WritePayload
  <2>2. job[p].drafts[f] \in Draft /\ job[p].snap \in Snap
    BY <1>10, <2>1, FileTyped DEF WritePayload, At
  <2>3. payloads' \in [ChunkId -> Content \cup {Null, Torn}]
    BY <1>t, <2>1, <2>2, DraftLaidOut DEF TypeOK, Draft
  <2> DEFINE j == [job[p] EXCEPT !.todo = @ \ {f}, !.pc = "materialize"]
  <2>4. j \in Job
    BY <1>t DEF Job, Positions
  <2>5. JobHolds(j)
    BY <1>t, <1>10 DEF WritePayload, JobHolds, Job, At, Creating, Building
  <2>6. job' \in [Proc -> Job] /\ JobOK'
    BY <1>t, <2>1, <2>4, <2>5, JobReplaced
  <2> QED
    BY <1>t, <1>10, <2>3, <2>6 DEF WritePayload, TypeOK, env, db
<1>11. CASE UpsertChunks(p)
  <2>1. job' \in [Proc -> Job] /\ JobOK'
    BY <1>t, <1>11, Moved DEF UpsertChunks, Goto, At, Positions, Creating, Building
  <2>2. \A f \in Path : job[p].drafts[f] # Null => job[p].inventory[f] \in Content
    BY <1>t, <1>11 DEF UpsertChunks, JobHolds, At, Building, Job, Tree
  <2>3. job[p].cfg \in Config
    BY <1>t, <1>11 DEF UpsertChunks, JobHolds, At, Building
  <2>4. chunks' \in [ChunkId -> ChunkRow \cup {Null}]
    BY <1>t, <1>11, <2>2, <2>3 DEF UpsertChunks, UpsertRows, TypeOK, ChunkId, ChunkRow
  <2> QED
    BY <1>t, <1>11, <2>1, <2>4 DEF UpsertChunks, TypeOK, env, disk
<1>12. CASE MarkChunks(p)
  <2>1. job' \in [Proc -> Job] /\ JobOK'
    BY <1>t, <1>12, Moved
    DEF MarkChunks, Goto, AfterMark, At, Positions, Creating, Building
  <2> QED
    BY <1>t, <1>12, <2>1 DEF MarkChunks, TypeOK, JobHolds, At, Building, env, disk
<1>13. CASE RecordProvenance(p)
  <2>1. [cmd |-> job[p].cmd, snap |-> job[p].snap, cfg |-> job[p].cfg] \in ProvenanceRow
    BY <1>t, <1>13 DEF RecordProvenance, ProvenanceRow, JobHolds, Job, At
  <2> QED
    BY <1>t, <1>13, <2>1, Finished DEF RecordProvenance, TypeOK, env, disk
<1> QED
  BY <1>1, <1>2, <1>3, <1>4, <1>5, <1>6, <1>7, <1>8, <1>9, <1>10, <1>11, <1>12,
     <1>13
  DEF StageStep, SharedStep

LEMMA TypeInvFault ==
  ASSUME TypeInv, NEW p \in Proc, FaultStep(p)
  PROVE  TypeInv'
<1> USE DEF TypeInv
<1>t. TypeOK /\ JobOK /\ JobHolds(job[p]) /\ job \in [Proc -> Job] /\ job[p] \in Job
  BY DEF TypeOK, JobOK
<1>f. Fault => faults' \in 0..MaxFaults
  BY <1>t, BoundAssumption DEF Fault, TypeOK
<1>1. CASE Crash(p)
  BY <1>t, <1>f, <1>1, Finished DEF Crash, TypeOK, db, disk
<1>2. CASE SnapshotInsertFails(p)
  BY <1>t, <1>f, <1>2, Finished DEF SnapshotInsertFails, TypeOK, db
<1>3. CASE ParserRaises(p)
  <2>1. PICK f \in Path : NextFile(p, f) /\ tree[f] # Absent /\ FallBack(p, f)
    BY <1>3 DEF ParserRaises
  <2>2. At(p, "materialize")
    BY <1>3 DEF ParserRaises
  <2>3. /\ job' \in [Proc -> Job] /\ JobOK'
        /\ chunkCache' \in [Path \X Content \X Config -> Draft \cup {Null}]
    BY <2>1, <2>2, FellBack
  <2> QED
    BY <1>t, <1>f, <1>3, <2>3 DEF ParserRaises, TypeOK, db
<1>4. CASE CrashInPayload(p)
  <2>1. PICK f \in Path : NextFile(p, f) /\ payloads' = [payloads EXCEPT ![IdOf(p, f)] = Torn]
    BY <1>4 DEF CrashInPayload
  <2>2. payloads' \in [ChunkId -> Content \cup {Null, Torn}]
    BY <1>t, <2>1 DEF TypeOK
  <2> QED
    BY <1>t, <1>f, <1>4, <2>2, Finished DEF CrashInPayload, TypeOK, db
<1>5. CASE CrashInCache(p)
  <2>1. /\ parserCache' \in [Path \X Content -> Content \cup {Null}]
        /\ chunkCache' \in [Path \X Content \X Config -> Draft \cup {Null}]
    BY <1>t, <1>5 DEF CrashInCache, TypeOK
  <2> QED
    BY <1>t, <1>f, <1>5, <2>1, Finished DEF CrashInCache, TypeOK, db
<1> QED
  BY <1>1, <1>2, <1>3, <1>4, <1>5 DEF FaultStep

LEMMA TypeInvStart ==
  ASSUME TypeInv, NEW p \in Proc,
         StartSnapshot(p) \/ StartExtract(p) \/ StartBuild(p)
  PROVE  TypeInv'
<1> USE DEF TypeInv
<1>t. TypeOK /\ JobOK /\ job \in [Proc -> Job]
  BY DEF TypeOK
<1>1. CASE StartSnapshot(p)
  <2> DEFINE j == [NoJob EXCEPT !.cmd = "snapshot", !.pc = "write_manifest",
                                !.snap = clock + 1, !.rev = tree]
  <2>1. clock' \in 0..MaxSnap /\ clock + 1 \in Snap
    BY <1>t, <1>1, BoundAssumption DEF StartSnapshot, TypeOK, Snap
  <2>2. j \in Job
    BY <1>t, <2>1, NoJobTyped DEF TypeOK, Job, NoJob, Commands, Positions
  <2>3. JobHolds(j)
    BY <1>t, <2>1 DEF TypeOK, JobHolds, NoJob, Creating, Building
  <2>4. job' \in [Proc -> Job] /\ JobOK'
    BY <1>t, <1>1, <2>2, <2>3, JobReplaced DEF StartSnapshot
  <2> QED
    BY <1>t, <1>1, <2>1, <2>4 DEF StartSnapshot, TypeOK, env, db, disk
<1>2. CASE StartExtract(p)
  <2>1. PICK s \in Snap :
          job' = [job EXCEPT ![p] = [NoJob EXCEPT !.cmd = "extract", !.pc = "scan", !.snap = s]]
    BY <1>2 DEF StartExtract
  <2> DEFINE j == [NoJob EXCEPT !.cmd = "extract", !.pc = "scan", !.snap = s]
  <2>2. j \in Job
    BY NoJobTyped DEF Job, NoJob, Commands, Positions
  <2>3. JobHolds(j)
    BY DEF JobHolds, NoJob, Creating, Building
  <2>4. job' \in [Proc -> Job] /\ JobOK'
    BY <1>t, <2>1, <2>2, <2>3, JobReplaced
  <2> QED
    BY <1>t, <1>2, <2>4 DEF StartExtract, TypeOK, env, db, disk
<1>3. CASE StartBuild(p)
  <2>1. PICK s \in Snap, c \in Config :
          job' = [job EXCEPT ![p] = [NoJob EXCEPT !.cmd = "build", !.pc = "list_files",
                                                  !.snap = s, !.cfg = c,
                                                  !.marked = extracted[s]]]
    BY <1>3 DEF StartBuild
  <2> DEFINE j == [NoJob EXCEPT !.cmd = "build", !.pc = "list_files", !.snap = s,
                                !.cfg = c, !.marked = extracted[s]]
  <2>2. j \in Job
    BY <1>t, NoJobTyped DEF TypeOK, Job, NoJob, Commands, Positions
  <2>3. JobHolds(j)
    BY DEF JobHolds, NoJob, Creating, Building
  <2>4. job' \in [Proc -> Job] /\ JobOK'
    BY <1>t, <2>1, <2>2, <2>3, JobReplaced
  <2> QED
    BY <1>t, <1>3, <2>4 DEF StartBuild, TypeOK, env, db, disk
<1> QED
  BY <1>1, <1>2, <1>3

LEMMA TypeInvEdit ==
  ASSUME TypeInv, NEW f \in Path, NEW c \in Content \cup {Absent}, Edit(f, c)
  PROVE  TypeInv'
BY BoundAssumption DEF TypeInv, TypeOK, JobOK, Tree, Edit, db, disk

LEMMA TypeInvStep == TypeInv /\ [Next]_vars => TypeInv'
<1>1. TypeInv /\ UNCHANGED vars => TypeInv'
  BY DEF TypeInv, TypeOK, JobOK, vars
<1> QED
  BY <1>1, TypeInvStage, TypeInvFault, TypeInvStart, TypeInvEdit DEF Next

\* Every reachable state has the types TypeOK gives the variables.
THEOREM TypeCorrect == Spec => []TypeOK
<1>1. TypeInv => TypeOK
  BY DEF TypeInv
<1> QED
  BY <1>1, TypeInvInit, TypeInvStep, PTL DEF Spec

-----------------------------------------------------------------------------
\* Rows, inventories and payload files.

ProcStep(p) == \/ StartSnapshot(p) \/ StartExtract(p) \/ StartBuild(p)
               \/ StageStep(p) \/ FaultStep(p)

\* A step of one process leaves the other processes where they are.
LEMMA OthersWait ==
  ASSUME TypeInv, NEW p \in Proc, ProcStep(p)
  PROVE  \A q \in Proc : q # p => job'[q] = job[q]
<1>t. job \in [Proc -> Job]
  BY DEF TypeInv, TypeOK
<1>1. CASE StartSnapshot(p) \/ StartExtract(p) \/ StartBuild(p)
  BY <1>t, <1>1 DEF StartSnapshot, StartExtract, StartBuild
<1>2. CASE StageStep(p)
  BY <1>t, <1>2 DEF StageStep, SharedStep, WriteManifest, InsertSnapshot, Scan, InsertFiles,
     MarkExtracted, ListFiles, ReuseDrafts, GenerateDrafts, ReadFails, WritePayload,
     UpsertChunks, MarkChunks, RecordProvenance, EndStage, Goto, Finish, TakeDrafts, FallBack
<1>3. CASE FaultStep(p)
  BY <1>t, <1>3 DEF FaultStep, Crash, SnapshotInsertFails, ParserRaises,
     CrashInPayload, CrashInCache, Finish, TakeDrafts, FallBack
<1> QED
  BY <1>1, <1>2, <1>3 DEF ProcStep

FilesKept == \A s \in Snap, f \in Path : files[s][f] # Absent => files'[s][f] = files[s][f]
PayloadsKept == \A id \in ChunkId : payloads[id] # Null => payloads'[id] # Null

\* Inventory rows are never changed and payload files never removed.
LEMMA StoreGrows ==
  ASSUME TypeInv, [Next]_vars
  PROVE  FilesKept /\ PayloadsKept
<1>t. TypeOK /\ JobOK
  BY DEF TypeInv
<1>1. CASE files' = files /\ payloads' = payloads
  BY <1>1 DEF FilesKept, PayloadsKept
<1>2. ASSUME NEW p \in Proc, InsertFiles(p) PROVE FilesKept /\ PayloadsKept
  BY <1>t, <1>2 DEF InsertFiles, TypeOK, Tree, FilesKept, PayloadsKept, disk
<1>3. ASSUME NEW p \in Proc, WritePayload(p) PROVE FilesKept /\ PayloadsKept
  <2>1. PICK f \in Path :
          NextFile(p, f) /\ payloads' = [payloads EXCEPT ![IdOf(p, f)] = job[p].drafts[f].text]
    BY <1>3 DEF WritePayload
  <2>2. job[p].drafts[f] \in Draft
    BY <1>3, <2>1, FileTyped DEF WritePayload, At
  <2>3. job[p].drafts[f].text # Null
    BY <2>2, SentinelAssumption DEF Draft
  <2> QED
    BY <1>t, <1>3, <2>1, <2>3 DEF WritePayload, TypeOK, FilesKept, PayloadsKept, db
<1>4. ASSUME NEW p \in Proc, CrashInPayload(p) PROVE FilesKept /\ PayloadsKept
  BY <1>t, <1>4, SentinelAssumption
  DEF CrashInPayload, TypeOK, FilesKept, PayloadsKept, db
<1>5. CASE UNCHANGED vars
  BY <1>1, <1>5 DEF vars
<1>6. CASE \E f \in Path, c \in Content \cup {Absent} : Edit(f, c)
  BY <1>1, <1>6 DEF Edit, db, disk
<1>7. ASSUME NEW p \in Proc, StartSnapshot(p) \/ StartExtract(p) \/ StartBuild(p)
      PROVE  FilesKept /\ PayloadsKept
  BY <1>1, <1>7 DEF StartSnapshot, StartExtract, StartBuild, db, disk
<1>8. ASSUME NEW p \in Proc, StageStep(p) PROVE FilesKept /\ PayloadsKept
  <2>1. CASE WriteManifest(p) \/ InsertSnapshot(p) \/ Scan(p) \/ MarkExtracted(p) \/ ListFiles(p)
    BY <1>1, <2>1 DEF WriteManifest, InsertSnapshot, Scan, MarkExtracted, ListFiles, db, disk
  <2>2. CASE ReuseDrafts(p) \/ GenerateDrafts(p) \/ ReadFails(p)
    BY <1>1, <2>2 DEF ReuseDrafts, GenerateDrafts, ReadFails, db, disk
  <2>3. CASE UpsertChunks(p) \/ MarkChunks(p) \/ RecordProvenance(p)
    BY <1>1, <2>3 DEF UpsertChunks, MarkChunks, RecordProvenance, disk
  <2> QED
    BY <1>2, <1>3, <1>8, <2>1, <2>2, <2>3 DEF StageStep, SharedStep
<1>9. ASSUME NEW p \in Proc, FaultStep(p) PROVE FilesKept /\ PayloadsKept
  <2>1. CASE Crash(p) \/ SnapshotInsertFails(p) \/ ParserRaises(p) \/ CrashInCache(p)
    BY <1>1, <2>1 DEF Crash, SnapshotInsertFails, ParserRaises, CrashInCache, db, disk
  <2> QED
    BY <1>4, <1>9, <2>1 DEF FaultStep
<1> QED
  BY <1>5, <1>6, <1>7, <1>8, <1>9 DEF Next

\* No step of the system changes a recorded content hash.
THEOREM InventoryIsFrozen == Spec => InventoryFrozen
<1>1. TypeInv /\ [Next]_vars
        => [\A s \in Snap, f \in Path :
              files[s][f] # Absent => files'[s][f] = files[s][f]]_vars
  BY StoreGrows DEF FilesKept
<1> QED
  BY <1>1, TypeInvInit, TypeInvStep, PTL DEF Spec, InventoryFrozen
LEMMA RowInvInit == Init => RowInv
BY DEF Init, RowInv, SnapshotsOwned, Owns, BuildBacked, Backed, RowHasPayload,
       RowMatchesInventory, NoJob, EmptyTree, At, Creating, Building

\* Positions in which a process neither creates a snapshot nor builds.
LEMMA OwnedByFinishing ==
  ASSUME TypeInv, SnapshotsOwned, NEW p \in Proc, Finish(p),
         UNCHANGED <<clock, revision, files>>,
         \A s \in Snap : s \in manifests /\ s \notin manifests'
                        => s = job[p].snap /\ At(p, "insert_snapshot")
  PROVE  SnapshotsOwned'
<1>t. job \in [Proc -> Job] /\ revision \in [Snap -> Tree \cup {Null}]
  BY DEF TypeInv, TypeOK
<1>1. job'[p].pc = "idle" /\ \A q \in Proc : q # p => job'[q] = job[q]
  BY <1>t DEF Finish, NoJob
<1>2. \A s \in Snap : revision[s] # Null => s \in manifests'
  BY DEF SnapshotsOwned, Owns, At, Creating
<1>3. \A q \in Proc : Owns(q)'
  <2>1. TAKE q \in Proc
  <2>2. CASE q = p
    BY <1>1, <2>2 DEF Owns, At, Creating
  <2>3. CASE q # p
    <3>1. At(q, "insert_snapshot") => job[q].snap \in Snap
      BY DEF TypeInv, JobOK, JobHolds, At
    <3>2. At(q, "insert_snapshot") => job[q].snap \in manifests'
      BY <2>3, <3>1 DEF SnapshotsOwned, Owns, At, Creating
    <3> QED
      BY <1>1, <2>3, <3>2 DEF SnapshotsOwned, Owns, At
  <2> QED
    BY <2>2, <2>3
<1> QED
  BY <1>1, <1>2, <1>3 DEF SnapshotsOwned, Creating

LEMMA OwnedByMoving ==
  ASSUME TypeInv, SnapshotsOwned, NEW p \in Proc,
         \A q \in Proc : q # p => job'[q] = job[q],
         UNCHANGED <<clock, revision, files, manifests>>,
         job'[p].pc \notin Creating,
         job'[p].pc # "idle" => revision[job'[p].snap] # Null
  PROVE  SnapshotsOwned'
BY DEF SnapshotsOwned, Owns, At, Creating

LEMMA OwnedStep ==
  ASSUME TypeInv, SnapshotsOwned, NEW p \in Proc, ProcStep(p)
  PROVE  SnapshotsOwned'
<1>t. TypeOK /\ JobHolds(job[p]) /\ job[p] \in Job /\ job \in [Proc -> Job]
  BY DEF TypeInv, TypeOK, JobOK
<1>o. \A q \in Proc : q # p => job'[q] = job[q]
  BY OthersWait
<1>1. CASE StartSnapshot(p)
  <2>1. clock \in Nat /\ clock' = clock + 1 /\ clock + 1 \in Snap
    BY <1>t, <1>1, BoundAssumption DEF StartSnapshot, TypeOK, Snap
  <2>2. revision[clock + 1] = Null
    BY <2>1 DEF SnapshotsOwned, Snap
  <2>3. job'[p].snap = clock + 1 /\ job'[p].pc = "write_manifest"
    BY <1>t, <1>1 DEF StartSnapshot, NoJob
  <2>4. UNCHANGED <<revision, files, manifests>>
    BY <1>1 DEF StartSnapshot, db, disk
  <2>5. \A q \in Proc : q # p /\ job[q].pc \in Creating => job[q].snap <= clock
    BY DEF SnapshotsOwned, Owns
  <2>6. \A q \in Proc : Owns(q)'
    <3> TAKE q \in Proc
    <3>1. CASE q = p
      BY <2>1, <2>2, <2>3, <2>4, <3>1 DEF Owns, At, Creating
    <3>2. CASE q # p
      <4>1. job[q].pc \in Creating => job[q].snap \in Int
        BY DEF TypeInv, JobOK, JobHolds, Creating, Snap
      <4> QED
        BY <1>o, <2>1, <2>4, <3>2, <4>1 DEF SnapshotsOwned, Owns, At
    <3> QED
      BY <3>1, <3>2
  <2>7. \A s \in Snap : revision[s] # Null => s <= clock + 1
    BY <2>1 DEF SnapshotsOwned, Snap
  <2> QED
    BY <1>o, <2>1, <2>3, <2>4, <2>5, <2>6, <2>7 DEF SnapshotsOwned
<1>2. CASE StartExtract(p) \/ StartBuild(p)
  <2>1. UNCHANGED <<clock, revision, files, manifests>>
    BY <1>2 DEF StartExtract, StartBuild, db, disk
  <2>2. /\ job'[p].pc \notin Creating
        /\ revision[job'[p].snap] # Null
    BY <1>t, <1>2 DEF StartExtract, StartBuild, MatchesLive, NoJob, Creating
  <2> QED
    BY <1>o, <2>1, <2>2, OwnedByMoving
<1>r. job[p].pc \notin Creating \cup {"idle"} => revision[job[p].snap] # Null
  BY DEF SnapshotsOwned, Owns
<1>3. CASE StageStep(p)
  <2>1. CASE WriteManifest(p)
    BY <1>t, <1>o, <1>3, <2>1
    DEF WriteManifest, Goto, SnapshotsOwned, Owns, At, Creating, db, JobHolds
  <2>2. CASE InsertSnapshot(p)
    <3>1. job[p].snap \in Snap /\ job[p].rev \in Tree /\ job[p].rev # Null
      BY <1>t, <2>2, SentinelAssumption DEF InsertSnapshot, JobHolds, At, Creating
    <3>2. revision' = [revision EXCEPT ![job[p].snap] = job[p].rev]
      BY <2>2 DEF InsertSnapshot
    <3>3. job'[p].pc \notin Creating /\ (job'[p].pc # "idle" => job'[p].snap = job[p].snap)
      BY <1>t, <2>2 DEF InsertSnapshot, EndStage, NoJob, Creating
    <3>4. UNCHANGED <<clock, files, manifests>>
      BY <2>2 DEF InsertSnapshot, disk
    <3>5. job[p].snap <= clock /\ job[p].snap \in manifests
      BY <2>2 DEF InsertSnapshot, SnapshotsOwned, Owns, At, Creating
    <3>6. \A q \in Proc : q # p /\ job[q].pc \in Creating => job[q].snap # job[p].snap
      BY <2>2 DEF InsertSnapshot, SnapshotsOwned, At, Creating
    <3>7. revision \in [Snap -> Tree \cup {Null}]
      BY <1>t DEF TypeOK
    <3>8. \A q \in Proc : job[q].pc # "idle" => job[q].snap \in Snap
      BY DEF TypeInv, JobOK, JobHolds
    <3>9. \A q \in Proc : Owns(q)'
      <4> TAKE q \in Proc
      <4>1. CASE q = p
        BY <3>1, <3>2, <3>3, <3>7, <4>1 DEF Owns, At, Creating
      <4>2. CASE q # p
        BY <1>o, <3>1, <3>2, <3>4, <3>6, <3>7, <3>8, <4>2
        DEF SnapshotsOwned, Owns, At, Creating
      <4> QED
        BY <4>1, <4>2
    <3>10. \A s \in Snap : revision'[s] # Null => s <= clock /\ s \in manifests
      BY <3>1, <3>2, <3>5, <3>7 DEF SnapshotsOwned
    <3>11. \A s \in Snap, f \in Path : files[s][f] # Absent => revision'[s] # Null
      BY <3>1, <3>2, <3>7 DEF SnapshotsOwned
    <3> QED
      BY <1>o, <3>3, <3>4, <3>9, <3>10, <3>11 DEF SnapshotsOwned
  <2>3. CASE Scan(p)
    BY <1>t, <1>o, <2>3, OwnedByMoving
    DEF Scan, SnapshotsOwned, Owns, At, Creating, db, disk
  <2>4. CASE InsertFiles(p)
    <3>1. job[p].snap \in Snap /\ revision[job[p].snap] # Null
      BY <1>t, <2>4 DEF InsertFiles, JobHolds, SnapshotsOwned, Owns, At, Creating
    <3>2. \A s \in Snap, f \in Path : files'[s][f] # Absent => revision[s] # Null
      BY <1>t, <2>4, <3>1 DEF InsertFiles, TypeOK, SnapshotsOwned
    <3>3. UNCHANGED <<clock, revision, manifests>>
      BY <2>4 DEF InsertFiles, disk
    <3>4. job'[p].pc = "mark_extracted" /\ job'[p].snap = job[p].snap
      BY <1>t, <2>4 DEF InsertFiles, Goto, Job
    <3> QED
      BY <1>o, <3>1, <3>2, <3>3, <3>4 DEF SnapshotsOwned, Owns, At, Creating
  <2>5. CASE MarkExtracted(p)
    <3>1. UNCHANGED <<clock, revision, files, manifests>>
      BY <2>5 DEF MarkExtracted, disk
    <3>2. /\ job[p].pc \notin Creating \cup {"idle"}
          /\ job'[p].pc \notin Creating
          /\ job'[p].pc # "idle" => job'[p].snap = job[p].snap
      BY <1>t, <2>5 DEF MarkExtracted, EndStage, NoJob, Job, At, Creating
    <3> QED
      BY <1>o, <1>r, <3>1, <3>2, OwnedByMoving
  <2>6. CASE MarkChunks(p)
    <3>1. UNCHANGED <<clock, revision, files, manifests>>
      BY <2>6 DEF MarkChunks, disk
    <3>2. /\ job[p].pc \notin Creating \cup {"idle"}
          /\ job'[p].pc \notin Creating
          /\ job'[p].pc # "idle" => job'[p].snap = job[p].snap
      BY <1>t, <2>6 DEF MarkChunks, Goto, AfterMark, Job, At, Creating
    <3> QED
      BY <1>o, <1>r, <3>1, <3>2, OwnedByMoving
  <2>7. CASE ListFiles(p)
    <3>1. UNCHANGED <<clock, revision, files, manifests>>
      BY <2>7 DEF ListFiles, db, disk
    <3>2. /\ job[p].pc \notin Creating \cup {"idle"}
          /\ job'[p].pc \notin Creating
          /\ job'[p].pc # "idle" => job'[p].snap = job[p].snap
      <4>0. job[p].pc = "list_files"
        BY <2>7 DEF ListFiles, At
      <4>1. CASE Finish(p)
        BY <1>t, <4>0, <4>1 DEF Finish, NoJob, Creating
      <4>2. CASE ~Finish(p)
        <5> DEFINE j == [job[p] EXCEPT !.inventory = files[job[p].snap],
                                      !.todo = {f \in Path : files[job[p].snap][f] # Absent},
                                      !.pc = "materialize"]
        <5>1. job' = [job EXCEPT ![p] = j]
          BY <1>t, <2>7, <4>2 DEF ListFiles
        <5>2. j.pc = "materialize" /\ j.snap = job[p].snap
          BY <1>t DEF Job
        <5> QED
          BY <1>t, <4>0, <5>1, <5>2 DEF Creating
      <4> QED
        BY <4>1, <4>2
    <3> QED
      BY <1>o, <1>r, <3>1, <3>2, OwnedByMoving
  <2>8. CASE ReuseDrafts(p)
    <3>1. UNCHANGED <<clock, revision, files, manifests>>
      BY <2>8 DEF ReuseDrafts, db, disk
    <3>2. /\ job[p].pc \notin Creating \cup {"idle"}
          /\ job'[p].pc \notin Creating
          /\ job'[p].pc # "idle" => job'[p].snap = job[p].snap
      BY <1>t, <2>8 DEF ReuseDrafts, TakeDrafts, Job, At, Creating
    <3> QED
      BY <1>o, <1>r, <3>1, <3>2, OwnedByMoving
  <2>9. CASE GenerateDrafts(p)
    <3>1. UNCHANGED <<clock, revision, files, manifests>>
      BY <2>9 DEF GenerateDrafts, db
    <3>2. /\ job[p].pc \notin Creating \cup {"idle"}
          /\ job'[p].pc \notin Creating
          /\ job'[p].pc # "idle" => job'[p].snap = job[p].snap
      BY <1>t, <2>9 DEF GenerateDrafts, FallBack, TakeDrafts, Job, At, Creating
    <3> QED
      BY <1>o, <1>r, <3>1, <3>2, OwnedByMoving
  <2>10. CASE ReadFails(p) \/ RecordProvenance(p)
    BY <2>10, OwnedByFinishing DEF ReadFails, RecordProvenance, db, disk
  <2>11. CASE WritePayload(p)
    <3>1. UNCHANGED <<clock, revision, files, manifests>>
      BY <2>11 DEF WritePayload, db
    <3>2. /\ job[p].pc \notin Creating \cup {"idle"}
          /\ job'[p].pc \notin Creating
          /\ job'[p].pc # "idle" => job'[p].snap = job[p].snap
      BY <1>t, <2>11 DEF WritePayload, Goto, Job, At, Creating
    <3> QED
      BY <1>o, <1>r, <3>1, <3>2, OwnedByMoving
  <2>12. CASE UpsertChunks(p)
    <3>1. UNCHANGED <<clock, revision, files, manifests>>
      BY <2>12 DEF UpsertChunks, disk
    <3>2. /\ job[p].pc \notin Creating \cup {"idle"}
          /\ job'[p].pc \notin Creating
          /\ job'[p].pc # "idle" => job'[p].snap = job[p].snap
      BY <1>t, <2>12 DEF UpsertChunks, Goto, Job, At, Creating
    <3> QED
      BY <1>o, <1>r, <3>1, <3>2, OwnedByMoving
  <2> QED
    BY <1>3, <2>1, <2>2, <2>3, <2>4, <2>5, <2>6, <2>7, <2>8, <2>9,
       <2>10, <2>11, <2>12 DEF StageStep, SharedStep
<1>4. CASE FaultStep(p)
  <2>1. CASE Crash(p) \/ CrashInPayload(p) \/ CrashInCache(p)
    BY <2>1, OwnedByFinishing DEF Crash, CrashInPayload, CrashInCache, db, disk
  <2>2. CASE SnapshotInsertFails(p)
    BY <2>2, OwnedByFinishing DEF SnapshotInsertFails, db
  <2>3. CASE ParserRaises(p)
    <3>1. UNCHANGED <<clock, revision, files, manifests>>
      BY <2>3 DEF ParserRaises, db
    <3>2. /\ job[p].pc \notin Creating \cup {"idle"}
          /\ job'[p].pc \notin Creating
          /\ job'[p].pc # "idle" => job'[p].snap = job[p].snap
      BY <1>t, <2>3 DEF ParserRaises, FallBack, TakeDrafts, Job, At, Creating
    <3> QED
      BY <1>o, <1>r, <3>1, <3>2, OwnedByMoving
  <2> QED
    BY <1>4, <2>1, <2>2, <2>3 DEF FaultStep
<1> QED
  BY <1>1, <1>2, <1>3, <1>4 DEF ProcStep

\* Taking drafts and moving on leave what the process holds backed.
LEMMA BackedTaken ==
  ASSUME TypeInv, NEW p \in Proc, Backed(p), NEW f \in Path, NEW d,
         At(p, "materialize"), NextFile(p, f), TakeDrafts(p, f, d),
         UNCHANGED <<files, payloads>>
  PROVE  Backed(p)'
<1> DEFINE j == [job[p] EXCEPT !.drafts[f] = d, !.pc = "write_payload"]
<1>t. job \in [Proc -> Job] /\ job[p] \in Job
  BY DEF TypeInv, TypeOK
<1>1. job' = [job EXCEPT ![p] = j]
  BY <1>t DEF TakeDrafts
<1>2. /\ j.snap = job[p].snap /\ j.inventory = job[p].inventory /\ j.todo = job[p].todo
      /\ \A g \in Path : g # f => j.drafts[g] = job[p].drafts[g]
  BY <1>t DEF Job
<1>3. job'[p] = j
  BY <1>t, <1>1
<1> HIDE DEF j
<1>4. \A g \in Path : g # f => IdOf(p, g)' = IdOf(p, g)
  BY <1>2, <1>3 DEF IdOf
<1> QED
  BY <1>2, <1>3, <1>4 DEF Backed, Building, At, NextFile

LEMMA BackedFellBack ==
  ASSUME TypeInv, NEW p \in Proc, Backed(p), NEW f \in Path,
         At(p, "materialize"), NextFile(p, f), FallBack(p, f),
         UNCHANGED <<files, payloads>>
  PROVE  Backed(p)'
<1>1. TakeDrafts(p, f, chunkCache[CacheKey(p, f)])
        \/ TakeDrafts(p, f, [text |-> tree[f], cut |-> Window])
  BY DEF FallBack
<1> QED
  BY <1>1, BackedTaken

LEMMA BackedUnlessBuilding ==
  ASSUME NEW p \in Proc, job'[p].pc \notin Building
  PROVE  Backed(p)'
BY DEF Backed

LEMMA BackedStep ==
  ASSUME TypeInv, BuildBacked, NEW p \in Proc, ProcStep(p)
  PROVE  BuildBacked'
<1>t. TypeOK /\ JobHolds(job[p]) /\ job[p] \in Job /\ job \in [Proc -> Job] /\ Backed(p)
  BY DEF TypeInv, TypeOK, JobOK, BuildBacked
<1>k. FilesKept /\ PayloadsKept
  BY StoreGrows DEF Next, ProcStep
<1>1. ASSUME NEW q \in Proc, q # p PROVE Backed(q)'
  <2>1. job'[q] = job[q]
    BY <1>1, OthersWait
  <2>2. CASE job[q].pc \notin Building
    BY <2>1, <2>2 DEF Backed
  <2>3. CASE job[q].pc \in Building
    <3>1. job[q].snap \in Snap
      BY <2>3 DEF TypeInv, JobOK, JobHolds, Building
    <3>2. \A f \in Path : job[q].drafts[f] # Null => IdOf(q, f) \in ChunkId
      BY <3>1, DraftLaidOut DEF TypeInv, TypeOK, Job
    <3>3. \A f \in Path : IdOf(q, f)' = IdOf(q, f)
      BY <2>1 DEF IdOf
    <3> QED
      BY <1>k, <2>1, <2>3, <3>1, <3>2, <3>3
      DEF BuildBacked, Backed, FilesKept, PayloadsKept
  <2> QED
    BY <2>2, <2>3
<1>s. SUFFICES Backed(p)'
  BY <1>1 DEF BuildBacked
<1>2. CASE StartSnapshot(p) \/ StartExtract(p) \/ StartBuild(p)
  <2>1. job'[p].pc \in {"write_manifest", "scan", "list_files"}
    BY <1>t, <1>2 DEF StartSnapshot, StartExtract, StartBuild, NoJob
  <2> QED
    BY <2>1, BackedUnlessBuilding DEF Building
<1>3. CASE WriteManifest(p) \/ InsertSnapshot(p) \/ Scan(p) \/ InsertFiles(p)
            \/ MarkExtracted(p) \/ MarkChunks(p)
  <2>1. CASE WriteManifest(p) \/ InsertFiles(p)
    BY <1>t, <2>1, BackedUnlessBuilding DEF WriteManifest, InsertFiles, Goto, Job, Building
  <2>2. CASE Scan(p)
    BY <1>t, <2>2, BackedUnlessBuilding DEF Scan, Job, Building
  <2>3. CASE InsertSnapshot(p) \/ MarkExtracted(p) \/ MarkChunks(p)
    BY <1>t, <2>3, BackedUnlessBuilding
    DEF InsertSnapshot, MarkExtracted, MarkChunks, Goto, AfterMark, EndStage, NoJob, Job, Building
  <2> QED
    BY <1>3, <2>1, <2>2, <2>3
<1>4. CASE Finish(p)
  <2>1. job'[p].pc = "idle"
    BY <1>t, <1>4 DEF Finish, NoJob
  <2> QED
    BY <2>1, BackedUnlessBuilding DEF Building
<1>5. CASE ListFiles(p) /\ ~Finish(p)
  <2> DEFINE j == [job[p] EXCEPT !.inventory = files[job[p].snap],
                                !.todo = {f \in Path : files[job[p].snap][f] # Absent},
                                !.pc = "materialize"]
  <2>1. job' = [job EXCEPT ![p] = j]
    BY <1>t, <1>5 DEF ListFiles
  <2>2. /\ j.snap = job[p].snap /\ j.inventory = files[job[p].snap]
        /\ j.drafts = job[p].drafts
    BY <1>t DEF Job
  <2>3. job'[p] = j
    BY <1>t, <2>1
  <2>4. job[p].drafts = NoDrafts
    BY <1>t, <1>5 DEF ListFiles, JobHolds, At
  <2>5. files' = files
    BY <1>5 DEF ListFiles, db
  <2> HIDE DEF j
  <2> QED
    BY <2>2, <2>3, <2>4, <2>5 DEF Backed, NoDrafts
<1>6. CASE ReuseDrafts(p)
  <2>1. UNCHANGED <<files, payloads>>
    BY <1>6 DEF ReuseDrafts, db, disk
  <2> QED
    BY <1>t, <1>6, <2>1, BackedTaken DEF ReuseDrafts
<1>7. CASE GenerateDrafts(p)
  <2>1. UNCHANGED <<files, payloads>>
    BY <1>7 DEF GenerateDrafts, db
  <2>2. PICK f \in Path : /\ NextFile(p, f)
                          /\ FallBack(p, f) \/ \E d : TakeDrafts(p, f, d)
    BY <1>7 DEF GenerateDrafts
  <2> QED
    BY <1>t, <1>7, <2>1, <2>2, BackedTaken, BackedFellBack DEF GenerateDrafts
<1>8. CASE ParserRaises(p)
  <2>1. UNCHANGED <<files, payloads>>
    BY <1>8 DEF ParserRaises, db
  <2> QED
    BY <1>t, <1>8, <2>1, BackedFellBack DEF ParserRaises
<1>9. CASE WritePayload(p)
  <2>1. PICK f \in Path :
          /\ NextFile(p, f)
          /\ payloads' = [payloads EXCEPT ![IdOf(p, f)] = job[p].drafts[f].text]
          /\ job' = [job EXCEPT ![p].todo = @ \ {f}, ![p].pc = "materialize"]
    BY <1>9 DEF WritePayload
  <2>2. job[p].drafts[f] \in Draft /\ job[p].snap \in Snap
    BY <1>9, <2>1, FileTyped DEF WritePayload, At
  <2>3. payloads'[IdOf(p, f)] # Null
    BY <1>t, <2>1, <2>2, DraftLaidOut, SentinelAssumption DEF TypeOK, Draft
  <2>4. /\ job'[p].snap = job[p].snap /\ job'[p].inventory = job[p].inventory
        /\ job'[p].drafts = job[p].drafts /\ job'[p].todo = job[p].todo \ {f}
    BY <1>t, <2>1 DEF Job
  <2>5. \A g \in Path : IdOf(p, g)' = IdOf(p, g)
    BY <2>4 DEF IdOf
  <2>6. \A g \in Path : job[p].drafts[g] # Null => IdOf(p, g) \in ChunkId
    BY <1>t, <2>2, DraftLaidOut DEF Job
  <2>7. files' = files /\ job[p].pc \in Building
    BY <1>9 DEF WritePayload, At, Building, db
  <2> QED
    BY <1>t, <1>k, <2>3, <2>4, <2>5, <2>6, <2>7 DEF Backed, PayloadsKept
<1>10. CASE UpsertChunks(p)
  <2>1. /\ job'[p].snap = job[p].snap /\ job'[p].inventory = job[p].inventory
        /\ job'[p].drafts = job[p].drafts /\ job'[p].todo = job[p].todo
    BY <1>t, <1>10 DEF UpsertChunks, Goto, Job
  <2>2. UNCHANGED <<files, payloads>> /\ job[p].pc \in Building
    BY <1>10 DEF UpsertChunks, At, Building, disk
  <2> QED
    BY <1>t, <2>1, <2>2 DEF Backed, IdOf
<1> QED
  BY <1>2, <1>3, <1>4, <1>5, <1>6, <1>7, <1>8, <1>9, <1>10
  DEF ProcStep, StageStep, SharedStep, FaultStep, ReadFails, RecordProvenance, Crash,
      SnapshotInsertFails,
      CrashInPayload, CrashInCache

\* The rows a build commits are backed by what it holds; other rows stay backed.
LEMMA RowsStep ==
  ASSUME TypeInv, RowInv, NEW p \in Proc, ProcStep(p)
  PROVE  (RowHasPayload /\ RowMatchesInventory)'
<1>t. TypeOK /\ JobHolds(job[p]) /\ job[p] \in Job /\ Backed(p)
  BY DEF TypeInv, TypeOK, JobOK, RowInv, BuildBacked
<1>k. FilesKept /\ PayloadsKept
  BY StoreGrows DEF Next, ProcStep
<1>1. ASSUME NEW id \in ChunkId, chunks'[id] = chunks[id], chunks[id] # Null
      PROVE  payloads'[id] # Null /\ files'[id[1]][id[2]] = chunks'[id].hash
  <2>1. chunks[id].hash # Absent
    BY <1>t, <1>1, SentinelAssumption DEF TypeOK, ChunkRow
  <2>2. id[1] \in Snap /\ id[2] \in Path
    BY DEF ChunkId
  <2> QED
    BY <1>1, <1>k, <2>1, <2>2
    DEF RowInv, RowHasPayload, RowMatchesInventory, FilesKept, PayloadsKept
<1>2. CASE UpsertChunks(p)
  <2>1. UNCHANGED <<files, payloads>> /\ job[p].pc \in Building /\ job[p].todo = {}
    BY <1>2 DEF UpsertChunks, At, Building, disk
  <2>2. ASSUME NEW id \in ChunkId, job[p].drafts[id[2]] # Null, id = IdOf(p, id[2])
        PROVE  payloads[id] # Null /\ files[id[1]][id[2]] = job[p].inventory[id[2]]
    <3>1. id[2] \in Path /\ id[1] = job[p].snap
      BY <2>2 DEF ChunkId, IdOf
    <3> QED
      BY <1>t, <2>1, <2>2, <3>1 DEF Backed, JobHolds
  <2>3. ASSUME NEW id \in ChunkId, chunks'[id] # Null
        PROVE  payloads'[id] # Null /\ files'[id[1]][id[2]] = chunks'[id].hash
    <3>1. CASE id[2] \in Path /\ job[p].drafts[id[2]] # Null /\ id = IdOf(p, id[2])
      <4>1. chunks'[id].hash = job[p].inventory[id[2]]
        BY <1>2, <3>1 DEF UpsertChunks, UpsertRows
      <4> QED
        BY <2>1, <2>2, <3>1, <4>1
    <3>2. CASE ~(id[2] \in Path /\ job[p].drafts[id[2]] # Null /\ id = IdOf(p, id[2]))
      <4>1. chunks'[id] = chunks[id]
        BY <1>2, <2>3, <3>2 DEF UpsertChunks, UpsertRows, ChunkId
      <4> QED
        BY <1>1, <2>3, <4>1
    <3> QED
      BY <3>1, <3>2
  <2> QED
    BY <2>3 DEF RowHasPayload, RowMatchesInventory
<1>3. CASE ~UpsertChunks(p)
  <2>1. chunks' = chunks
    BY <1>3 DEF ProcStep, StartSnapshot, StartExtract, StartBuild, StageStep, SharedStep, FaultStep,
       WriteManifest, InsertSnapshot, Scan, InsertFiles, MarkExtracted, ListFiles,
       ReuseDrafts, GenerateDrafts, ReadFails, WritePayload, MarkChunks,
       RecordProvenance, Crash,
       SnapshotInsertFails, ParserRaises, CrashInPayload, CrashInCache, db
  <2> QED
    BY <1>1, <2>1 DEF RowHasPayload, RowMatchesInventory
<1> QED
  BY <1>2, <1>3

LEMMA RowInvStep == TypeInv /\ RowInv /\ [Next]_vars => RowInv'
<1>1. ASSUME RowInv, NEW f \in Path, NEW c \in Content \cup {Absent}, Edit(f, c)
      PROVE  RowInv'
  BY <1>1 DEF RowInv, SnapshotsOwned, Owns, BuildBacked, Backed, RowHasPayload,
     RowMatchesInventory, At, IdOf, Edit, db, disk
<1>2. RowInv /\ UNCHANGED vars => RowInv'
  BY DEF RowInv, SnapshotsOwned, Owns, BuildBacked, Backed, RowHasPayload,
     RowMatchesInventory, At, IdOf, vars
<1>3. ASSUME TypeInv, RowInv, NEW p \in Proc, ProcStep(p) PROVE RowInv'
  BY <1>3, OwnedStep, BackedStep, RowsStep DEF RowInv
<1> QED
  BY <1>1, <1>2, <1>3 DEF Next, ProcStep

LEMMA RowInvCorrect == Spec => [](TypeInv /\ RowInv)
BY TypeInvInit, TypeInvStep, RowInvInit, RowInvStep, PTL DEF Spec

\* No crash, edit or interleaving of commands leaves a chunk row without its
\* payload file.
THEOREM RowsHavePayloads == Spec => []RowHasPayload
<1>1. RowInv => RowHasPayload
  BY DEF RowInv
<1> QED
  BY <1>1, RowInvCorrect, PTL

\* Every chunk row agrees with the inventory row of its snapshot and path.
THEOREM RowsMatchInventory == Spec => []RowMatchesInventory
<1>1. RowInv => RowMatchesInventory
  BY DEF RowInv
<1> QED
  BY <1>1, RowInvCorrect, PTL

\* The manifest is there before the row and goes only when no row was written.
THEOREM SnapshotsHaveManifests == Spec => []SnapshotHasManifest
<1>1. RowInv => SnapshotHasManifest
  BY DEF RowInv, SnapshotsOwned, SnapshotHasManifest
<1> QED
  BY <1>1, RowInvCorrect, PTL

-----------------------------------------------------------------------------
\* Quiet edits.

LEMMA QuietInvInit == Init => QuietInv
BY DEF Init, QuietInv, Validated, JobValid, InventoryMatchesRevision, CachesSound,
       TextsSound, DraftsSound, Reading, NoJob, EmptyTree, At, Building

\* Only the process that owns an unwritten snapshot writes its revision.
LEMMA RevisionsKept ==
  ASSUME TypeInv, RowInv, NEW p \in Proc, ProcStep(p)
  PROVE  tree' = tree /\ \A s \in Snap : revision[s] # Null => revision'[s] = revision[s]
<1>1. CASE InsertSnapshot(p)
  <2>1. revision[job[p].snap] = Null
    BY <1>1 DEF InsertSnapshot, RowInv, SnapshotsOwned, Owns, At, Creating
  <2> QED
    BY <1>1, <2>1 DEF InsertSnapshot, TypeInv, TypeOK, env
<1>2. CASE ~InsertSnapshot(p)
  BY <1>2 DEF ProcStep, StartSnapshot, StartExtract, StartBuild, StageStep, SharedStep, FaultStep,
     WriteManifest, Scan, InsertFiles, MarkExtracted, ListFiles, ReuseDrafts,
     GenerateDrafts, ReadFails, WritePayload, UpsertChunks, MarkChunks,
     RecordProvenance, Crash,
     SnapshotInsertFails, ParserRaises, CrashInPayload, CrashInCache, db, env
<1> QED
  BY <1>1, <1>2

\* Inserting a validated inventory completes it and disturbs no complete one.
LEMMA FilesValid ==
  ASSUME TypeInv, RowInv, Validated, NEW p \in Proc, ProcStep(p)
  PROVE  /\ \A s \in Snap, f \in Path : files'[s][f] # Absent
                                          => files'[s][f] = revision'[s][f]
         /\ \A s \in Snap : files[s] = revision[s] => files'[s] = files[s]
         /\ InsertFiles(p) => files'[job[p].snap] = revision[job[p].snap]
<1>t. TypeOK /\ JobHolds(job[p]) /\ job[p] \in Job /\ JobValid(p)
  BY DEF TypeInv, TypeOK, JobOK, Validated
<1>1. CASE InsertFiles(p)
  <2> DEFINE s0 == job[p].snap
  <2>1. s0 \in Snap /\ job[p].inventory = revision[s0] /\ revision[s0] \in Tree
    BY <1>t, <1>1 DEF InsertFiles, JobHolds, JobValid, At, Job
  <2>2. files' = [files EXCEPT ![s0] =
          [f \in Path |-> IF @[f] # Absent THEN @[f] ELSE job[p].inventory[f]]]
    BY <1>1 DEF InsertFiles
  <2>3. \A f \in Path : files'[s0][f] = revision[s0][f]
    BY <1>t, <2>1, <2>2 DEF TypeOK, Validated
  <2>4. files'[s0] = revision[s0]
    BY <1>t, <2>1, <2>2, <2>3 DEF TypeOK, Tree
  <2>5. revision' = revision
    BY <1>1 DEF InsertFiles
  <2>6. \A s \in Snap : s # s0 => files'[s] = files[s]
    BY <1>t, <2>1, <2>2 DEF TypeOK
  <2> QED
    BY <2>1, <2>3, <2>4, <2>5, <2>6 DEF Validated
<1>2. CASE ~InsertFiles(p)
  <2>1. files' = files
    BY <1>2 DEF ProcStep, StartSnapshot, StartExtract, StartBuild, StageStep, SharedStep, FaultStep,
       WriteManifest, InsertSnapshot, Scan, MarkExtracted, ListFiles, ReuseDrafts,
       GenerateDrafts, ReadFails, WritePayload, UpsertChunks, MarkChunks,
       RecordProvenance, Crash,
       SnapshotInsertFails, ParserRaises, CrashInPayload, CrashInCache, db
  <2> QED
    BY <1>2, <2>1, RevisionsKept DEF Validated, RowInv, SnapshotsOwned
<1> QED
  BY <1>1, <1>2

\* A process that has read nothing new, or has validated what it reads, stays valid.
LEMMA ValidatedStep ==
  ASSUME TypeInv, RowInv, Validated, InventoryMatchesRevision, NEW p \in Proc, ProcStep(p)
  PROVE  Validated' /\ InventoryMatchesRevision'
<1>t. /\ TypeOK /\ JobHolds(job[p]) /\ job[p] \in Job /\ job \in [Proc -> Job]
      /\ JobValid(p)
  BY DEF TypeInv, TypeOK, JobOK, Validated
<1>k. tree' = tree /\ \A s \in Snap : revision[s] # Null => revision'[s] = revision[s]
  BY RevisionsKept
<1>n. \A s \in Snap : files[s] = revision[s] => revision[s] # Null
  BY <1>t, SentinelAssumption DEF TypeOK
<1>1. ASSUME NEW q \in Proc, q # p PROVE JobValid(q)'
  <2>1. job'[q] = job[q] /\ JobValid(q)
    BY <1>1, OthersWait DEF Validated
  <2>2. /\ job[q].pc # "idle" => job[q].snap \in Snap
        /\ job[q].pc \notin Creating \cup {"idle"} => revision[job[q].snap] # Null
    BY DEF TypeInv, JobOK, JobHolds, RowInv, SnapshotsOwned, Owns
  <2> QED
    BY <1>k, <1>n, <2>1, <2>2, FilesValid DEF JobValid, Reading, MatchesLive, At, Creating
<1>2. JobValid(p)'
  <2>1. CASE StartSnapshot(p)
    BY <1>t, <2>1 DEF StartSnapshot, NoJob, JobValid, Reading, At
  <2>2. CASE StartExtract(p) \/ StartBuild(p)
    <3>1. PICK s \in Snap : MatchesLive(s) /\ job'[p].snap = s
                              /\ job'[p].pc \in {"scan", "list_files"}
      BY <1>t, <2>2 DEF StartExtract, StartBuild, NoJob
    <3> QED
      BY <1>k, <3>1 DEF JobValid, Reading, MatchesLive, At
  <2>3. CASE Finish(p)
    BY <1>t, <2>3 DEF Finish, NoJob, JobValid, Reading, At
  <2>4. CASE WriteManifest(p)
    BY <1>t, <2>4 DEF WriteManifest, Goto, Job, JobValid, Reading, At
  <2>5. CASE InsertSnapshot(p) \/ MarkExtracted(p) \/ MarkChunks(p)
    BY <1>t, <2>5 DEF InsertSnapshot, MarkExtracted, MarkChunks, Goto, AfterMark,
        EndStage, NoJob, Job,
       JobValid, Reading, At
  <2>6. CASE Scan(p)
    <3>1. job'[p].pc = "insert_files" /\ job'[p].inventory = tree /\ job'[p].snap = job[p].snap
      BY <1>t, <2>6 DEF Scan, Job
    <3>2. MatchesLive(job[p].snap) /\ job[p].snap \in Snap
      BY <1>t, <2>6 DEF Scan, JobValid, JobHolds, Reading, At
    <3> QED
      BY <1>k, <3>1, <3>2 DEF JobValid, Reading, MatchesLive, At
  <2>7. CASE InsertFiles(p)
    <3>1. job'[p].pc = "mark_extracted" /\ job'[p].snap = job[p].snap
      BY <1>t, <2>7 DEF InsertFiles, Goto, Job
    <3>2. revision' = revision
      BY <2>7 DEF InsertFiles
    <3> QED
      BY <2>7, <3>1, <3>2, FilesValid DEF JobValid, Reading, At
  <2>8. ASSUME job'[p].pc \in Building \cup {"list_files"}, Reading(p),
               job'[p].snap = job[p].snap
        PROVE  JobValid(p)'
    <3>1. MatchesLive(job[p].snap) /\ job[p].snap \in Snap
      BY <1>t, <2>8 DEF JobValid, JobHolds, Reading
    <3> QED
      BY <1>k, <2>8, <3>1 DEF JobValid, Reading, MatchesLive, At, Building
  <2>9. CASE ListFiles(p) /\ ~Finish(p)
    <3> DEFINE j == [job[p] EXCEPT !.inventory = files[job[p].snap],
                                  !.todo = {f \in Path : files[job[p].snap][f] # Absent},
                                  !.pc = "materialize"]
    <3>1. job' = [job EXCEPT ![p] = j] /\ Reading(p)
      BY <1>t, <2>9 DEF ListFiles, Reading, At
    <3>2. j.pc = "materialize" /\ j.snap = job[p].snap
      BY <1>t DEF Job
    <3>3. job'[p] = j
      BY <1>t, <3>1
    <3> HIDE DEF j
    <3> QED
      BY <2>8, <3>1, <3>2, <3>3 DEF Building
  <2>10. CASE ReuseDrafts(p)
    BY <1>t, <2>8, <2>10 DEF ReuseDrafts, TakeDrafts, Job, Building, Reading, At
  <2>11. CASE GenerateDrafts(p)
    BY <1>t, <2>8, <2>11
    DEF GenerateDrafts, FallBack, TakeDrafts, Job, Building, Reading, At
  <2>12. CASE ParserRaises(p)
    BY <1>t, <2>8, <2>12
    DEF ParserRaises, FallBack, TakeDrafts, Job, Building, Reading, At
  <2>13. CASE WritePayload(p)
    BY <1>t, <2>8, <2>13 DEF WritePayload, Job, Building, Reading, At
  <2>14. CASE UpsertChunks(p)
    BY <1>t, <2>8, <2>14 DEF UpsertChunks, Goto, Job, Building, Reading, At
  <2> QED
    BY <2>1, <2>2, <2>3, <2>4, <2>5, <2>6, <2>7, <2>9, <2>10, <2>11, <2>12, <2>13, <2>14
    DEF ProcStep, StageStep, SharedStep, FaultStep, ReadFails, RecordProvenance, Crash,
        SnapshotInsertFails,
        CrashInPayload, CrashInCache
<1>3. Validated'
  BY <1>1, <1>2, FilesValid DEF Validated
<1>4. InventoryMatchesRevision'
  <2>1. ASSUME NEW s \in Snap, files[s] = revision[s]
        PROVE  files'[s] = revision'[s]
    BY <1>k, <1>n, <2>1, FilesValid
  <2>2. CASE MarkExtracted(p)
    <3>1. files[job[p].snap] = revision[job[p].snap]
      BY <1>t, <2>2 DEF MarkExtracted, JobValid, At
    <3>2. \A s \in Snap : extracted'[s] => s = job[p].snap \/ extracted[s]
      BY <1>t, <2>2 DEF MarkExtracted, TypeOK
    <3> QED
      BY <2>1, <3>1, <3>2 DEF InventoryMatchesRevision
  <2>3. CASE ~MarkExtracted(p)
    <3>1. extracted' = extracted
      BY <2>3 DEF ProcStep, StartSnapshot, StartExtract, StartBuild, StageStep, SharedStep,
          FaultStep,
         WriteManifest, InsertSnapshot, Scan, InsertFiles, ListFiles, ReuseDrafts,
         GenerateDrafts, ReadFails, WritePayload, UpsertChunks, MarkChunks,
         RecordProvenance, Crash,
         SnapshotInsertFails, ParserRaises, CrashInPayload, CrashInCache, db
    <3> QED
      BY <2>1, <3>1 DEF InventoryMatchesRevision
  <2> QED
    BY <2>2, <2>3
<1> QED
  BY <1>3, <1>4

\* What a building process reads from the live tree is what its keys name.
LEMMA LiveText ==
  ASSUME TypeInv, RowInv, Validated, NEW p \in Proc, NEW f \in Path,
         At(p, "materialize"), NextFile(p, f)
  PROVE  tree[f] = job[p].inventory[f]
<1>1. job[p].snap \in Snap /\ job[p].inventory[f] # Absent
  BY DEF TypeInv, JobOK, JobHolds, NextFile, At, Building
<1>2. files[job[p].snap][f] = job[p].inventory[f]
  BY <1>1 DEF RowInv, BuildBacked, Backed, At, Building
<1>3. tree = revision[job[p].snap]
  BY DEF Validated, JobValid, Reading, MatchesLive, At
<1> QED
  BY <1>1, <1>2, <1>3 DEF Validated

LEMMA FellBackSound ==
  ASSUME TypeInv, RowInv, Validated, CachesSound, NEW p \in Proc, NEW f \in Path,
         At(p, "materialize"), NextFile(p, f), FallBack(p, f)
  PROVE  /\ \A k \in Path \X Content \X Config :
              chunkCache'[k] # Null => chunkCache'[k].text = k[2]
         /\ \E d : d.text = job[p].inventory[f] /\ TakeDrafts(p, f, d)
<1> DEFINE key == CacheKey(p, f)
           windows == [text |-> tree[f], cut |-> Window]
<1>1. key \in Path \X Content \X Config /\ key[2] = job[p].inventory[f]
  BY FileTyped DEF CacheKey, At
<1>2. windows.text = key[2]
  BY <1>1, LiveText
<1>3. CASE chunkCache[key] # Null
  BY <1>1, <1>3 DEF FallBack, CachesSound
<1>4. CASE chunkCache[key] = Null
  <2>1. TakeDrafts(p, f, windows) /\ chunkCache' = [chunkCache EXCEPT ![key] = windows]
    BY <1>4 DEF FallBack
  <2>2. chunkCache \in [Path \X Content \X Config -> Draft \cup {Null}]
    BY DEF TypeInv, TypeOK
  <2> HIDE DEF windows, key
  <2> QED
    BY <1>1, <1>2, <2>1, <2>2 DEF CachesSound
<1> QED
  BY <1>3, <1>4

\* The drafts a step takes and the cache entries it leaves hold the text of
\* their key; a torn cache entry is a miss.
LEMMA DraftsGenerated ==
  ASSUME TypeInv, RowInv, Validated, CachesSound, NEW p \in Proc, GenerateDrafts(p)
  PROVE  /\ CachesSound'
         /\ \E f \in Path : /\ NextFile(p, f)
                            /\ \E d : d.text = job[p].inventory[f] /\ TakeDrafts(p, f, d)
<1> DEFINE key(f) == <<f, job[p].inventory[f]>>
           cut(f) == IF parserCache[key(f)] # Null THEN parserCache[key(f)] ELSE tree[f]
           drafts(f) == [text |-> tree[f], cut |-> cut(f)]
<1>1. PICK f \in Path :
        /\ NextFile(p, f)
        /\ parserCache' = [parserCache EXCEPT ![key(f)] = cut(f)]
        /\ \/ /\ TakeDrafts(p, f, drafts(f))
              /\ chunkCache' = [chunkCache EXCEPT ![CacheKey(p, f)] = drafts(f)]
           \/ FallBack(p, f)
  BY DEF GenerateDrafts
<1>2. At(p, "materialize")
  BY DEF GenerateDrafts
<1>3. tree[f] = job[p].inventory[f]
  BY <1>1, <1>2, LiveText
<1>4. /\ key(f) \in Path \X Content /\ key(f)[2] = tree[f]
      /\ CacheKey(p, f) \in Path \X Content \X Config /\ CacheKey(p, f)[2] = tree[f]
  BY <1>1, <1>2, <1>3, FileTyped DEF At, CacheKey
<1>5. cut(f) = tree[f]
  BY <1>4 DEF CachesSound
<1>6. /\ parserCache \in [Path \X Content -> Content \cup {Null}]
      /\ chunkCache \in [Path \X Content \X Config -> Draft \cup {Null}]
  BY DEF TypeInv, TypeOK
<1>7. \A k \in Path \X Content : parserCache'[k] # Null => parserCache'[k] = k[2]
  BY <1>1, <1>4, <1>5, <1>6 DEF CachesSound
<1>8. CASE FallBack(p, f)
  BY <1>1, <1>2, <1>7, <1>8, FellBackSound DEF CachesSound
<1>9. CASE /\ TakeDrafts(p, f, drafts(f))
           /\ chunkCache' = [chunkCache EXCEPT ![CacheKey(p, f)] = drafts(f)]
  <2>1. drafts(f).text = tree[f]
    OBVIOUS
  <2> HIDE DEF drafts
  <2> QED
    BY <1>1, <1>3, <1>4, <1>6, <1>7, <1>9, <2>1 DEF CachesSound
<1> QED
  BY <1>1, <1>8, <1>9

LEMMA CachesStep ==
  ASSUME TypeInv, RowInv, Validated, CachesSound, NEW p \in Proc, ProcStep(p)
  PROVE  CachesSound'
<1>t. TypeOK
  BY DEF TypeInv
<1>1. CASE GenerateDrafts(p)
  BY <1>1, DraftsGenerated
<1>2. CASE ParserRaises(p)
  BY <1>2, FellBackSound DEF ParserRaises, CachesSound
<1>3. CASE CrashInCache(p)
  BY <1>t, <1>3 DEF CrashInCache, CachesSound, TypeOK
<1>4. CASE ~GenerateDrafts(p) /\ ~ParserRaises(p) /\ ~CrashInCache(p)
  <2>1. UNCHANGED <<parserCache, chunkCache>>
    BY <1>4 DEF ProcStep, StartSnapshot, StartExtract, StartBuild, StageStep, SharedStep, FaultStep,
       WriteManifest, InsertSnapshot, Scan, InsertFiles, MarkExtracted, ListFiles,
       ReuseDrafts, ReadFails, WritePayload, UpsertChunks, MarkChunks,
       RecordProvenance, Crash,
       SnapshotInsertFails, CrashInPayload, disk
  <2> QED
    BY <2>1 DEF CachesSound
<1> QED
  BY <1>1, <1>2, <1>3, <1>4

\* Taking drafts that hold the key's text keeps the drafts of the process sound.
LEMMA DraftsStaySound ==
  ASSUME TypeInv, NEW p \in Proc, DraftsSound(p), At(p, "materialize"),
         NEW f \in Path, NEW d, d.text = job[p].inventory[f], TakeDrafts(p, f, d)
  PROVE  DraftsSound(p)'
<1> DEFINE j == [job[p] EXCEPT !.drafts[f] = d, !.pc = "write_payload"]
<1>t. job \in [Proc -> Job] /\ job[p] \in Job
  BY DEF TypeInv, TypeOK
<1>1. job' = [job EXCEPT ![p] = j]
  BY <1>t DEF TakeDrafts
<1>2. /\ j.inventory = job[p].inventory /\ j.drafts[f] = d
      /\ \A g \in Path : g # f => j.drafts[g] = job[p].drafts[g]
  BY <1>t DEF Job
<1>3. job'[p] = j
  BY <1>t, <1>1
<1> HIDE DEF j
<1> QED
  BY <1>2, <1>3 DEF DraftsSound, At, Building

LEMMA DraftsStep ==
  ASSUME TypeInv, RowInv, Validated, CachesSound, \A q \in Proc : DraftsSound(q),
         NEW p \in Proc, ProcStep(p)
  PROVE  \A q \in Proc : DraftsSound(q)'
<1>t. /\ TypeOK /\ JobHolds(job[p]) /\ job[p] \in Job /\ job \in [Proc -> Job]
      /\ DraftsSound(p)
  BY DEF TypeInv, TypeOK, JobOK
<1>1. \A q \in Proc : q # p => DraftsSound(q)'
  BY OthersWait DEF DraftsSound
<1>s. SUFFICES DraftsSound(p)'
  BY <1>1
<1>2. ASSUME job'[p].pc \notin Building PROVE DraftsSound(p)'
  BY <1>2 DEF DraftsSound
<1>3. CASE StartSnapshot(p) \/ StartExtract(p) \/ StartBuild(p)
  BY <1>t, <1>2, <1>3 DEF StartSnapshot, StartExtract, StartBuild, NoJob, Building
<1>4. CASE Finish(p)
  BY <1>t, <1>2, <1>4 DEF Finish, NoJob, Building
<1>5. CASE WriteManifest(p) \/ InsertFiles(p)
  BY <1>t, <1>2, <1>5 DEF WriteManifest, InsertFiles, Goto, Job, Building
<1>6. CASE Scan(p)
  BY <1>t, <1>2, <1>6 DEF Scan, Job, Building
<1>7. CASE InsertSnapshot(p) \/ MarkExtracted(p) \/ MarkChunks(p)
  BY <1>t, <1>2, <1>7
  DEF InsertSnapshot, MarkExtracted, MarkChunks, Goto, AfterMark, EndStage, NoJob, Job, Building
<1>8. CASE ListFiles(p) /\ ~Finish(p)
  <2> DEFINE j == [job[p] EXCEPT !.inventory = files[job[p].snap],
                                !.todo = {f \in Path : files[job[p].snap][f] # Absent},
                                !.pc = "materialize"]
  <2>1. job' = [job EXCEPT ![p] = j] /\ job[p].drafts = NoDrafts
    BY <1>t, <1>8 DEF ListFiles, JobHolds, At
  <2>2. j.drafts = NoDrafts
    BY <1>t, <2>1 DEF Job
  <2>3. job'[p] = j
    BY <1>t, <2>1
  <2> HIDE DEF j
  <2> QED
    BY <2>2, <2>3 DEF DraftsSound, NoDrafts
<1>9. CASE ReuseDrafts(p)
  <2>1. PICK f \in Path : /\ NextFile(p, f) /\ StructuralHit(p, f)
                          /\ TakeDrafts(p, f, chunkCache[CacheKey(p, f)])
    BY <1>9 DEF ReuseDrafts
  <2>2. /\ CacheKey(p, f) \in Path \X Content \X Config
        /\ CacheKey(p, f)[2] = job[p].inventory[f]
    BY <1>9, <2>1, FileTyped DEF ReuseDrafts, At, CacheKey
  <2>3. chunkCache[CacheKey(p, f)].text = job[p].inventory[f]
    BY <2>1, <2>2 DEF CachesSound, StructuralHit
  <2> QED
    BY <1>t, <1>9, <2>1, <2>3, DraftsStaySound DEF ReuseDrafts
<1>10. CASE GenerateDrafts(p)
  <2>0. PICK f \in Path : \E d : d.text = job[p].inventory[f] /\ TakeDrafts(p, f, d)
    BY <1>10, DraftsGenerated
  <2>1. PICK d : d.text = job[p].inventory[f] /\ TakeDrafts(p, f, d)
    BY <2>0
  <2> QED
    BY <1>t, <1>10, <2>1, DraftsStaySound DEF GenerateDrafts
<1>11. CASE ParserRaises(p)
  <2>1. PICK f \in Path : NextFile(p, f) /\ FallBack(p, f)
    BY <1>11 DEF ParserRaises
  <2>2. PICK d : d.text = job[p].inventory[f] /\ TakeDrafts(p, f, d)
    BY <1>11, <2>1, FellBackSound DEF ParserRaises
  <2> QED
    BY <1>t, <1>11, <2>2, DraftsStaySound DEF ParserRaises
<1>12. CASE WritePayload(p) \/ UpsertChunks(p)
  <2>1. job'[p].inventory = job[p].inventory /\ job'[p].drafts = job[p].drafts
    BY <1>t, <1>12 DEF WritePayload, UpsertChunks, Goto, Job
  <2>2. job[p].pc \in Building
    BY <1>12 DEF WritePayload, UpsertChunks, At, Building
  <2> QED
    BY <1>t, <2>1, <2>2 DEF DraftsSound
<1> QED
  BY <1>3, <1>4, <1>5, <1>6, <1>7, <1>8, <1>9, <1>10, <1>11, <1>12
  DEF ProcStep, StageStep, SharedStep, FaultStep, ReadFails, RecordProvenance, Crash,
      SnapshotInsertFails,
      CrashInPayload, CrashInCache

\* A payload is written from sound drafts of a file whose row is in the database.
LEMMA PayloadsStep ==
  ASSUME TypeInv, RowInv, TextsSound, NEW p \in Proc, ProcStep(p)
  PROVE  \A id \in ChunkId : payloads'[id] \notin {Null, Torn}
                               => payloads'[id] = files'[id[1]][id[2]]
<1>t. TypeOK /\ JobHolds(job[p])
  BY DEF TypeInv, JobOK
<1>1. ASSUME NEW id \in ChunkId, payloads'[id] = payloads[id], payloads[id] \notin {Null, Torn}
      PROVE  payloads'[id] = files'[id[1]][id[2]]
  <2>1. FilesKept
    BY StoreGrows DEF Next, ProcStep
  <2>2. payloads[id] # Absent /\ id[1] \in Snap /\ id[2] \in Path
    BY <1>t, <1>1, SentinelAssumption DEF TypeOK, ChunkId
  <2> QED
    BY <1>1, <2>1, <2>2 DEF FilesKept, TextsSound
<1>2. CASE WritePayload(p)
  <2>1. PICK f \in Path :
          NextFile(p, f) /\ payloads' = [payloads EXCEPT ![IdOf(p, f)] = job[p].drafts[f].text]
    BY <1>2 DEF WritePayload
  <2>2. job[p].drafts[f] \in Draft /\ job[p].snap \in Snap
    BY <1>2, <2>1, FileTyped DEF WritePayload, At
  <2>3. job[p].drafts[f] # Null /\ job[p].pc \in Building
    BY <1>2, <2>2, SentinelAssumption DEF WritePayload, At, Building
  <2>4. job[p].drafts[f].text = files[job[p].snap][f]
    BY <1>t, <2>3 DEF TextsSound, DraftsSound, RowInv, BuildBacked, Backed, JobHolds
  <2>5. files' = files
    BY <1>2 DEF WritePayload, db
  <2>6. payloads'[IdOf(p, f)] = files'[IdOf(p, f)[1]][IdOf(p, f)[2]]
    BY <1>t, <2>1, <2>2, <2>4, <2>5, DraftLaidOut DEF TypeOK, IdOf
  <2> QED
    BY <1>t, <1>1, <2>1, <2>6 DEF TypeOK
<1>3. CASE CrashInPayload(p)
  BY <1>t, <1>1, <1>3 DEF CrashInPayload, TypeOK
<1>4. CASE ~WritePayload(p) /\ ~CrashInPayload(p)
  <2>1. payloads' = payloads
    BY <1>4 DEF ProcStep, StartSnapshot, StartExtract, StartBuild, StageStep, SharedStep, FaultStep,
       WriteManifest, InsertSnapshot, Scan, InsertFiles, MarkExtracted, ListFiles,
       ReuseDrafts, GenerateDrafts, ReadFails, UpsertChunks, MarkChunks,
       RecordProvenance, Crash,
       SnapshotInsertFails, ParserRaises, CrashInCache, disk
  <2> QED
    BY <1>1, <2>1
<1> QED
  BY <1>2, <1>3, <1>4

LEMMA QuietInvStep ==
  ASSUME ~EditsRace
  PROVE  TypeInv /\ RowInv /\ QuietInv /\ [Next]_vars => QuietInv'
<1>1. ASSUME QuietInv, NEW f \in Path, NEW c \in Content \cup {Absent}, Edit(f, c)
      PROVE  QuietInv'
  <2>1. /\ UNCHANGED <<revision, extracted, files, payloads, parserCache, chunkCache, job>>
        /\ \A p \in Proc : ~Reading(p)
    BY <1>1 DEF Edit, db, disk
  <2> QED
    BY <1>1, <2>1 DEF QuietInv, Validated, JobValid, InventoryMatchesRevision,
        CachesSound,
       TextsSound, DraftsSound, Reading, At
<1>2. QuietInv /\ UNCHANGED vars => QuietInv'
  BY DEF QuietInv, Validated, JobValid, InventoryMatchesRevision, CachesSound,
      TextsSound,
     DraftsSound, Reading, MatchesLive, At, vars
<1>3. ASSUME TypeInv, RowInv, QuietInv, NEW p \in Proc, ProcStep(p) PROVE QuietInv'
  BY <1>3, ValidatedStep, CachesStep, DraftsStep, PayloadsStep DEF QuietInv, TextsSound
<1> QED
  BY <1>1, <1>2, <1>3 DEF Next, ProcStep

\* While no edit lands inside a command's reads, no interleaving, cache hit,
\* crash or earlier edit puts another file's or version's text under a row.
THEOREM TextsMatchHashes == ASSUME ~EditsRace PROVE Spec => []TextMatchesHash
<1>1. RowInv /\ QuietInv => TextMatchesHash
  BY DEF RowInv, QuietInv, TextsSound, RowHasPayload, RowMatchesInventory, TextMatchesHash
<1>2. TypeInv /\ RowInv /\ QuietInv /\ [Next]_vars => QuietInv'
  BY QuietInvStep
<1> QED
  BY <1>1, <1>2, RowInvCorrect, QuietInvInit, PTL DEF Spec

\* An extracted snapshot's inventory is the tree its revision identity names.
THEOREM InventoriesMatchRevisions ==
  ASSUME ~EditsRace PROVE Spec => []InventoryMatchesRevision
<1>1. QuietInv => InventoryMatchesRevision
  BY DEF QuietInv
<1>2. TypeInv /\ RowInv /\ QuietInv /\ [Next]_vars => QuietInv'
  BY QuietInvStep
<1> QED
  BY <1>1, <1>2, RowInvCorrect, QuietInvInit, PTL DEF Spec
=============================================================================
