---------------------------- MODULE ReindexProofs ----------------------------
(***************************************************************************)
(* Theorems about Reindex, for any number of processes, paths, contents,   *)
(* fingerprints, snapshots, edits and faults.  The stages that a re-index  *)
(* shares with the other commands are steps of IndexPipeline, so its       *)
(* lemmas are used for them; what is new is the plan and the steps that    *)
(* only a re-index takes.  First what holds at every time, then what a     *)
(* re-index leaves behind: the snapshot that queries find afterwards, and  *)
(* the run that is stored about it.                                        *)
(***************************************************************************)
EXTENDS Reindex, IndexPipelineProofs, FiniteSetTheorems

Planning == {"list_baseline", "list_baseline_chunks", "resolve"}
OwnPcs == Planning \cup {"preview", "begin_snapshot", "check_extract", "diff", "clone",
                         "record_run"}
Rebuilding == Building \cup {"clone"}
Ending == {"record_run", "record_provenance"}

\* What a re-index holds at its position.
PlanHolds(j, pl) ==
    /\ j.pc \in OwnPcs => j.cmd = "reindex"
    /\ j.cmd = "reindex" =>
         /\ j.pc \notin {"idle", "list_files"}
         /\ j.cfg \in Config /\ pl.base \in Snap /\ pl.prevFp \in Config
         /\ j.pc \notin Planning => j.rev \in Tree
         /\ j.pc \notin Planning \cup {"preview"} => pl.reason \in Reasons
         /\ j.pc \notin Building \cup Ending => j.drafts = NoDrafts
         /\ j.pc \notin Rebuilding \cup Ending => pl.reused = {} /\ pl.clones = {} /\ j.todo = {}
         /\ j.pc \in Building => pl.clones = {}
         /\ j.pc \in Rebuilding =>
              \A f \in j.todo \cup pl.clones \cup pl.reused : j.inventory[f] # Absent

PlanOK == \A p \in Proc : PlanHolds(job[p], plan[p])

RTypeInv == ReindexTypeOK /\ JobOK /\ PlanOK

\* What a re-index has cloned is on disk, and what it counts on is stored.
CloneBacked(p) ==
    job[p].cmd = "reindex" /\ job[p].pc \in Rebuilding => \A f \in Path :
      /\ job[p].inventory[f] # Absent => files[job[p].snap][f] = job[p].inventory[f]
      /\ f \in plan[p].reused =>
           \A l \in Layouts(p, f) : payloads[<<job[p].snap, f, l>>] # Null

RRowInv ==
    /\ RowInv
    /\ \A s \in Snap : extracted[s] => revision[s] # Null
    /\ \A p \in Proc : CloneBacked(p)

-----------------------------------------------------------------------------
\* The type invariant.

LEMMA NoPlanTyped == NoPlan \in Plan
BY DEF NoPlan, Plan, NoRows, EmptyTree, Tree

LEMMA NoPlanHolds == ASSUME NEW pl PROVE PlanHolds(NoJob, pl)
BY DEF PlanHolds, NoJob, OwnPcs, Planning, Rebuilding, Building

LEMMA RTypeInvInit == ReindexInit => RTypeInv
<1>1. SUFFICES ASSUME ReindexInit PROVE RTypeInv
  OBVIOUS
<1>2. TypeOK /\ JobOK
  BY <1>1, TypeInvInit DEF ReindexInit, TypeInv
<1>3. ReindexTypeOK
  BY <1>1, <1>2, NoPlanTyped DEF ReindexInit, ReindexTypeOK
<1>4. PlanOK
  BY <1>1, NoPlanHolds DEF ReindexInit, Init, PlanOK
<1> QED
  BY <1>2, <1>3, <1>4 DEF RTypeInv

LEMMA RTyped ==
  ASSUME RTypeInv
  PROVE  /\ TypeInv /\ TypeOK
         /\ job \in [Proc -> Job] /\ plan \in [Proc -> Plan]
         /\ \A p \in Proc : /\ job[p] \in Job /\ plan[p] \in Plan
                            /\ JobHolds(job[p]) /\ PlanHolds(job[p], plan[p])
BY DEF RTypeInv, ReindexTypeOK, TypeInv, TypeOK, JobOK, PlanOK

\* How a stage that the commands share takes a re-index from j to k.
Keeps(j, k) == k.cmd = j.cmd /\ k.snap = j.snap /\ k.rev = j.rev /\ k.cfg = j.cfg

StageMoves(j, k) ==
    /\ Keeps(j, k)
    /\ \/ /\ <<j.pc, k.pc>> \in {<<"write_manifest", "insert_snapshot">>,
                                 <<"insert_snapshot", "check_extract">>,
                                 <<"insert_files", "mark_extracted">>,
                                 <<"mark_extracted", "diff">>,
                                 <<"mark_chunks", "record_run">>}
          /\ k.inventory = j.inventory /\ k.todo = j.todo /\ k.drafts = j.drafts
       \/ /\ j.pc = "materialize" /\ k.pc = "mark_chunks" /\ j.todo = {}
          /\ k.inventory = j.inventory /\ k.todo = j.todo /\ k.drafts = j.drafts
       \/ /\ j.pc = "scan" /\ k.pc = "insert_files"
          /\ k.inventory = tree /\ k.todo = j.todo /\ k.drafts = j.drafts
       \/ /\ j.pc = "materialize" /\ k.pc = "write_payload"
          /\ k.inventory = j.inventory /\ k.todo = j.todo
          /\ \E f \in j.todo, d \in Draft : k.drafts = [j.drafts EXCEPT ![f] = d]
       \/ /\ j.pc = "write_payload" /\ k.pc = "materialize"
          /\ k.inventory = j.inventory /\ k.drafts = j.drafts
          /\ \E f \in j.todo : j.drafts[f] # Null /\ k.todo = j.todo \ {f}

LEMMA DraftsMove ==
  ASSUME TypeInv, NEW p \in Proc, NEW f \in Path, NEW d \in Draft,
         At(p, "materialize"), NextFile(p, f), TakeDrafts(p, f, d)
  PROVE  StageMoves(job[p], job'[p])
<1> DEFINE j == [job[p] EXCEPT !.drafts[f] = d, !.pc = "write_payload"]
<1>t. job \in [Proc -> Job] /\ job[p] \in Job
  BY DEF TypeInv, TypeOK
<1>1. job' = [job EXCEPT ![p] = j]
  BY <1>t DEF TakeDrafts
<1>2. /\ j.cmd = job[p].cmd /\ j.snap = job[p].snap /\ j.rev = job[p].rev /\ j.cfg = job[p].cfg
      /\ j.inventory = job[p].inventory /\ j.todo = job[p].todo /\ j.pc = "write_payload"
      /\ j.drafts = [job[p].drafts EXCEPT ![f] = d]
  BY <1>t DEF Job
<1>3. job'[p] = j
  BY <1>t, <1>1
<1> HIDE DEF j
<1> QED
  BY <1>2, <1>3 DEF StageMoves, Keeps, At, NextFile

LEMMA FellBackMoves ==
  ASSUME TypeInv, NEW p \in Proc, NEW f \in Path, At(p, "materialize"),
         NextFile(p, f), tree[f] # Absent, FallBack(p, f)
  PROVE  StageMoves(job[p], job'[p])
<1> DEFINE key == CacheKey(p, f)
           windows == [text |-> tree[f], cut |-> Window]
<1>1. chunkCache[key] \in Draft \cup {Null}
  BY FileTyped DEF At
<1>2. windows \in Draft
  BY DEF TypeInv, TypeOK, Tree, Draft, Cut
<1>3. CASE chunkCache[key] # Null
  <2>1. TakeDrafts(p, f, chunkCache[key]) /\ chunkCache[key] \in Draft
    BY <1>1, <1>3 DEF FallBack
  <2> QED
    BY <2>1, DraftsMove
<1>4. CASE chunkCache[key] = Null
  <2>1. TakeDrafts(p, f, windows)
    BY <1>4 DEF FallBack
  <2> HIDE DEF windows
  <2> QED
    BY <1>2, <2>1, DraftsMove
<1> QED
  BY <1>3, <1>4

LEMMA StageOfReindex ==
  ASSUME TypeInv, NEW p \in Proc, ProcStep(p), job[p].cmd = "reindex", ~At(p, "idle"),
         ~At(p, "list_files")
  PROVE  job'[p] = NoJob \/ StageMoves(job[p], job'[p])
<1>t. TypeOK /\ job \in [Proc -> Job] /\ job[p] \in Job
  BY DEF TypeInv, TypeOK
<1>1. CASE Finish(p)
  BY <1>t, <1>1 DEF Finish
<1>2. CASE WriteManifest(p) \/ InsertFiles(p) \/ UpsertChunks(p)
  BY <1>t, <1>2
  DEF WriteManifest, InsertFiles, UpsertChunks, Goto, At, Job, StageMoves, Keeps
<1>3. CASE InsertSnapshot(p) \/ MarkExtracted(p) \/ MarkChunks(p)
  BY <1>t, <1>3
  DEF InsertSnapshot, MarkExtracted, MarkChunks, Goto, AfterMark, EndStage, At, Job,
      StageMoves, Keeps
<1>4. CASE Scan(p)
  BY <1>t, <1>4 DEF Scan, At, Job, StageMoves, Keeps
<1>5. CASE ReuseDrafts(p)
  <2>1. PICK f \in Path : /\ NextFile(p, f) /\ StructuralHit(p, f)
                          /\ TakeDrafts(p, f, chunkCache[CacheKey(p, f)])
    BY <1>5 DEF ReuseDrafts
  <2>2. chunkCache[CacheKey(p, f)] \in Draft
    BY <1>5, <2>1, FileTyped DEF ReuseDrafts, At, StructuralHit
  <2> QED
    BY <1>5, <2>1, <2>2, DraftsMove DEF ReuseDrafts
<1>6. CASE GenerateDrafts(p)
  <2> DEFINE key(f) == <<f, job[p].inventory[f]>>
             cut(f) == IF parserCache[key(f)] # Null THEN parserCache[key(f)] ELSE tree[f]
             drafts(f) == [text |-> tree[f], cut |-> cut(f)]
  <2>1. PICK f \in Path :
          /\ NextFile(p, f) /\ tree[f] # Absent
          /\ TakeDrafts(p, f, drafts(f)) \/ FallBack(p, f)
    BY <1>6 DEF GenerateDrafts
  <2>2. job[p].inventory[f] \in Content /\ tree[f] \in Content
    BY <1>t, <1>6, <2>1, FileTyped DEF GenerateDrafts, At, TypeOK, Tree
  <2>3. drafts(f) \in Draft
    BY <1>t, <2>2 DEF TypeOK, Draft, Cut
  <2>4. At(p, "materialize")
    BY <1>6 DEF GenerateDrafts
  <2> HIDE DEF drafts
  <2> QED
    BY <2>1, <2>3, <2>4, DraftsMove, FellBackMoves
<1>7. CASE ParserRaises(p)
  <2>1. PICK f \in Path : NextFile(p, f) /\ tree[f] # Absent /\ FallBack(p, f)
    BY <1>7 DEF ParserRaises
  <2> QED
    BY <1>7, <2>1, FellBackMoves DEF ParserRaises
<1>8. CASE WritePayload(p)
  <2>1. PICK f \in Path :
          /\ NextFile(p, f)
          /\ job' = [job EXCEPT ![p] = [job[p] EXCEPT !.todo = @ \ {f}, !.pc = "materialize"]]
    BY <1>t, <1>8 DEF WritePayload
  <2>2. f \in job[p].todo /\ job[p].drafts[f] # Null /\ job[p].pc = "write_payload"
    BY <1>8, <2>1 DEF WritePayload, NextFile, At
  <2>3. /\ Keeps(job[p], job'[p]) /\ job'[p].pc = "materialize"
        /\ job'[p].inventory = job[p].inventory /\ job'[p].drafts = job[p].drafts
        /\ job'[p].todo = job[p].todo \ {f}
    BY <1>t, <2>1 DEF Job, Keeps
  <2> QED
    BY <2>2, <2>3 DEF StageMoves
<1> QED
  BY <1>1, <1>2, <1>3, <1>4, <1>5, <1>6, <1>7, <1>8
  DEF ProcStep, StageStep, SharedStep, FaultStep, ReadFails, RecordProvenance, Crash,
      SnapshotInsertFails, CrashInPayload, CrashInCache, ListFiles, StartSnapshot,
      StartExtract, StartBuild

LEMMA StageOfOthers ==
  ASSUME TypeInv, NEW p \in Proc, ProcStep(p), job[p].cmd # "reindex",
         job[p].pc \notin OwnPcs
  PROVE  job'[p].cmd # "reindex" /\ job'[p].pc \notin OwnPcs
<1>t. TypeOK /\ job \in [Proc -> Job] /\ job[p] \in Job
  BY DEF TypeInv, TypeOK
<1> USE DEF OwnPcs, Planning
<1>n. NoJob \in Job /\ NoJob.cmd = "none" /\ NoJob.pc = "idle"
  BY NoJobTyped DEF NoJob
<1>1. CASE Finish(p)
  <2>1. job'[p] = NoJob
    BY <1>t, <1>1 DEF Finish
  <2> QED
    BY <1>n, <2>1
<1>2. CASE StartSnapshot(p) \/ StartExtract(p) \/ StartBuild(p)
  <2>1. CASE StartSnapshot(p)
    BY <1>t, <2>1 DEF StartSnapshot, NoJob
  <2>2. CASE StartExtract(p)
    BY <1>t, <2>2 DEF StartExtract, NoJob
  <2>3. CASE StartBuild(p)
    BY <1>t, <2>3 DEF StartBuild, NoJob
  <2> QED
    BY <1>2, <2>1, <2>2, <2>3
<1>3. CASE WriteManifest(p) \/ InsertFiles(p) \/ UpsertChunks(p)
  BY <1>t, <1>3 DEF WriteManifest, InsertFiles, UpsertChunks, Goto, Job
<1>w. CASE WritePayload(p)
  BY <1>t, <1>w DEF WritePayload, Job
<1>4. CASE InsertSnapshot(p) \/ MarkExtracted(p) \/ MarkChunks(p)
  BY <1>t, <1>n, <1>4 DEF InsertSnapshot, MarkExtracted, MarkChunks, Goto, AfterMark, EndStage, Job
<1>5. CASE Scan(p)
  BY <1>t, <1>5 DEF Scan, Job
<1>6. CASE ListFiles(p) /\ ~Finish(p)
  <2> DEFINE j == [job[p] EXCEPT !.inventory = files[job[p].snap],
                                !.todo = {f \in Path : files[job[p].snap][f] # Absent},
                                !.pc = "materialize"]
  <2>1. job' = [job EXCEPT ![p] = j]
    BY <1>t, <1>6 DEF ListFiles
  <2>2. j.pc = "materialize" /\ j.cmd = job[p].cmd
    BY <1>t DEF Job
  <2> HIDE DEF j
  <2> QED
    BY <1>t, <2>1, <2>2
<1>7. CASE ReuseDrafts(p) \/ GenerateDrafts(p) \/ ParserRaises(p)
  <2>1. \E f \in Path : \E d : TakeDrafts(p, f, d)
    BY <1>7 DEF ReuseDrafts, GenerateDrafts, ParserRaises, FallBack
  <2>2. PICK f \in Path : \E d : TakeDrafts(p, f, d)
    BY <2>1
  <2>d. PICK d : TakeDrafts(p, f, d)
    BY <2>2
  <2> DEFINE j == [job[p] EXCEPT !.drafts[f] = d, !.pc = "write_payload"]
  <2>3. job' = [job EXCEPT ![p] = j]
    BY <1>t, <2>d DEF TakeDrafts
  <2>4. j.pc = "write_payload" /\ j.cmd = job[p].cmd
    BY <1>t DEF Job
  <2> HIDE DEF j
  <2> QED
    BY <1>t, <2>3, <2>4
<1> QED
  BY <1>1, <1>2, <1>3, <1>4, <1>5, <1>6, <1>7, <1>w
  DEF ProcStep, StageStep, SharedStep, FaultStep, ReadFails, RecordProvenance, Crash,
      SnapshotInsertFails, CrashInPayload, CrashInCache

LEMMA MovesHold ==
  ASSUME NEW j \in Job, NEW k \in Job, NEW pl \in Plan, PlanHolds(j, pl), StageMoves(j, k),
         j.cmd = "reindex"
  PROVE  PlanHolds(k, pl)
BY DEF PlanHolds, StageMoves, Keeps, OwnPcs, Planning, Rebuilding, Building, Ending

\* A plan is kept or, when its command ends, forgotten.
LEMMA PlanKept ==
  ASSUME RTypeInv, NEW p \in Proc, KeepPlan(p)
  PROVE  /\ plan' \in [Proc -> Plan] /\ UNCHANGED <<runs, raced>>
         /\ \A q \in Proc : q # p => plan'[q] = plan[q]
         /\ job'[p].pc = "idle" => plan'[p] = NoPlan
         /\ job'[p].pc # "idle" => plan'[p] = plan[p]
<1>1. plan \in [Proc -> Plan]
  BY RTyped
<1> QED
  BY <1>1, NoPlanTyped DEF KeepPlan

LEMMA SharedPlanStep ==
  ASSUME RTypeInv, NEW p \in Proc, ProcStep(p), KeepPlan(p), TypeInv'
  PROVE  RTypeInv'
<1>t. /\ TypeInv /\ PlanHolds(job[p], plan[p]) /\ job[p] \in Job /\ plan[p] \in Plan
      /\ job'[p] \in Job
  BY RTyped DEF TypeInv, TypeOK
<1>p. /\ plan' \in [Proc -> Plan] /\ UNCHANGED <<runs, raced>>
      /\ \A q \in Proc : q # p => plan'[q] = plan[q]
      /\ job'[p].pc = "idle" => plan'[p] = NoPlan
      /\ job'[p].pc # "idle" => plan'[p] = plan[p]
  BY PlanKept
<1>1. PlanHolds(job'[p], plan'[p])
  <2>1. CASE job[p].cmd = "reindex"
    <3>1. ~At(p, "idle") /\ ~At(p, "list_files")
      BY <1>t, <2>1 DEF PlanHolds, At
    <3>2. CASE job'[p] = NoJob
      BY <3>2, NoPlanHolds
    <3>3. CASE StageMoves(job[p], job'[p])
      <4>1. job'[p].pc # "idle"
        BY <3>3 DEF StageMoves
      <4> QED
        BY <1>t, <1>p, <2>1, <3>3, <4>1, MovesHold
    <3> QED
      BY <1>t, <2>1, <3>1, <3>2, <3>3, StageOfReindex
  <2>2. CASE job[p].cmd # "reindex"
    <3>1. job'[p].cmd # "reindex" /\ job'[p].pc \notin OwnPcs
      BY <1>t, <2>2, StageOfOthers DEF PlanHolds
    <3> QED
      BY <3>1 DEF PlanHolds
  <2> QED
    BY <2>1, <2>2
<1>2. \A q \in Proc : q # p => job'[q] = job[q] /\ plan'[q] = plan[q]
  BY <1>t, <1>p, OthersWait
<1>3. \A q \in Proc : PlanHolds(job'[q], plan'[q])
  BY <1>1, <1>2, RTyped
<1> QED
  BY <1>p, <1>3 DEF RTypeInv, PlanOK, ReindexTypeOK, TypeInv

\* Whoever takes a step, the commands and plans of the others stay.
RStep(p) ==
    \/ StartOrFault(p) /\ KeepPlan(p)
    \/ PipelineStep(p) /\ KeepPlan(p)
    \/ StartReindex(p)
    \/ OwnStep(p)
    \/ CrashInClone(p)

LEMMA SharedIsProc ==
  ASSUME NEW p \in Proc, (StartOrFault(p) \/ PipelineStep(p)) /\ KeepPlan(p)
  PROVE  ProcStep(p)
BY DEF StartOrFault, PipelineStep, ProcStep, StageStep

LEMMA PlanReplaced ==
  ASSUME RTypeInv, NEW p \in Proc, NEW j \in Job, JobHolds(j),
         NEW pl \in Plan, PlanHolds(j, pl),
         job' = [job EXCEPT ![p] = j], plan' = [plan EXCEPT ![p] = pl]
  PROVE  /\ job' \in [Proc -> Job] /\ JobOK'
         /\ plan' \in [Proc -> Plan] /\ PlanOK'
<1>t. job \in [Proc -> Job] /\ plan \in [Proc -> Plan] /\ JobOK /\ PlanOK
  BY RTyped DEF RTypeInv
<1>1. job' \in [Proc -> Job] /\ JobOK'
  BY <1>t, JobReplaced
<1> QED
  BY <1>t, <1>1 DEF PlanOK

LEMMA PlanFinished ==
  ASSUME RTypeInv, NEW p \in Proc, Finish(p), plan' = [plan EXCEPT ![p] = NoPlan]
  PROVE  /\ job' \in [Proc -> Job] /\ JobOK'
         /\ plan' \in [Proc -> Plan] /\ PlanOK'
BY NoJobTyped, NoJobHolds, NoPlanTyped, NoPlanHolds, PlanReplaced DEF Finish

\* The steps of a re-index that change neither the database nor the disk.
LEMMA TypedByPlanning ==
  ASSUME RTypeInv, UNCHANGED <<env, db, disk, runs, raced>>, clock' \in 0..MaxSnap,
         job' \in [Proc -> Job] /\ JobOK', plan' \in [Proc -> Plan] /\ PlanOK'
  PROVE  RTypeInv'
BY DEF RTypeInv, ReindexTypeOK, TypeOK, env, db, disk

LEMMA TypedClock == ASSUME RTypeInv PROVE clock \in 0..MaxSnap
BY DEF RTypeInv, ReindexTypeOK, TypeOK

LEMMA ReindexStarted ==
  ASSUME RTypeInv, NEW p \in Proc, StartReindex(p)
  PROVE  RTypeInv'
<1>1. PICK s \in Snap, c \in Config :
        /\ job' = [job EXCEPT ![p] = [NoJob EXCEPT !.cmd = "reindex", !.pc = "list_baseline",
                                                   !.snap = s, !.cfg = c]]
        /\ plan' = [plan EXCEPT ![p] = [NoPlan EXCEPT !.base = s,
                                          !.prevFp = PreviousFingerprint(s, c)]]
  BY DEF StartReindex
<1> DEFINE j == [NoJob EXCEPT !.cmd = "reindex", !.pc = "list_baseline", !.snap = s, !.cfg = c]
           pl == [NoPlan EXCEPT !.base = s, !.prevFp = PreviousFingerprint(s, c)]
<1>2. PreviousFingerprint(s, c) \in Config
  BY DEF PreviousFingerprint, RTypeInv, ReindexTypeOK, TypeOK
<1>3. /\ j.cmd = "reindex" /\ j.pc = "list_baseline" /\ j.snap = s /\ j.cfg = c
      /\ j.drafts = NoDrafts /\ j.todo = {}
      /\ j \in Job
  BY NoJobTyped DEF NoJob, Job, Commands, Positions
<1>4. /\ pl.base = s /\ pl.prevFp = PreviousFingerprint(s, c) /\ pl.clones = {} /\ pl.reused = {}
      /\ pl \in Plan
  BY <1>2, NoPlanTyped DEF NoPlan, Plan
<1> HIDE DEF j, pl
<1>5. JobHolds(j)
  BY <1>3 DEF JobHolds, Creating, Building
<1>6. PlanHolds(j, pl)
  BY <1>2, <1>3, <1>4 DEF PlanHolds, OwnPcs, Planning, Rebuilding, Building, Ending
<1>7. /\ job' \in [Proc -> Job] /\ JobOK'
      /\ plan' \in [Proc -> Plan] /\ PlanOK'
  BY <1>1, <1>3, <1>4, <1>5, <1>6, PlanReplaced DEF j, pl
<1> QED
  BY <1>7, TypedByPlanning, TypedClock DEF StartReindex

\* Before it stores anything a re-index only moves on and remembers more.
LEMMA PlanMoved ==
  ASSUME RTypeInv, NEW p \in Proc, job[p].pc \in OwnPcs,
         NEW k \in Job, NEW pl \in Plan, JobHolds(k), PlanHolds(k, pl),
         job' = [job EXCEPT ![p] = k], plan' = [plan EXCEPT ![p] = pl],
         UNCHANGED <<env, clock, db, disk, runs, raced>>
  PROVE  RTypeInv'
<1>1. /\ job' \in [Proc -> Job] /\ JobOK'
      /\ plan' \in [Proc -> Plan] /\ PlanOK'
  BY PlanReplaced
<1> QED
  BY <1>1, TypedByPlanning, TypedClock

LEMMA BaselineListed ==
  ASSUME RTypeInv, NEW p \in Proc, ListBaselineFiles(p) \/ ListBaselineChunks(p) \/ Resolve(p)
  PROVE  RTypeInv'
<1>t. /\ job \in [Proc -> Job] /\ plan \in [Proc -> Plan] /\ job[p] \in Job /\ plan[p] \in Plan
      /\ JobHolds(job[p]) /\ PlanHolds(job[p], plan[p]) /\ TypeOK
  BY RTyped
<1>p. job[p].pc \in Planning /\ job[p].cmd = "reindex" /\ plan[p].base \in Snap
  BY <1>t DEF ListBaselineFiles, ListBaselineChunks, Resolve, At, Planning, PlanHolds, OwnPcs
<1>1. CASE ListBaselineFiles(p)
  <2> DEFINE k == [job[p] EXCEPT !.pc = "list_baseline_chunks"]
             pl == [plan[p] EXCEPT !.files = files[plan[p].base]]
  <2>1. k \in Job /\ k.pc = "list_baseline_chunks" /\ Keeps(job[p], k)
        /\ k.drafts = job[p].drafts /\ k.todo = job[p].todo
    BY <1>t DEF Job, Positions, Keeps
  <2>2. pl \in Plan /\ pl.base = plan[p].base /\ pl.prevFp = plan[p].prevFp
        /\ pl.clones = plan[p].clones /\ pl.reused = plan[p].reused
    BY <1>t, <1>p DEF Plan, TypeOK
  <2>3. job' = [job EXCEPT ![p] = k] /\ plan' = [plan EXCEPT ![p] = pl]
        /\ UNCHANGED <<env, clock, db, disk, runs, raced>>
    BY <1>t, <1>1 DEF ListBaselineFiles, Goto
  <2> HIDE DEF k, pl
  <2>4. JobHolds(k) /\ PlanHolds(k, pl)
    BY <1>t, <1>p, <2>1, <2>2
    DEF JobHolds, PlanHolds, Keeps, OwnPcs, Planning, Rebuilding, Building, Ending, Creating
  <2> QED
    BY <1>p, <2>1, <2>2, <2>3, <2>4, PlanMoved DEF OwnPcs
<1>2. CASE ListBaselineChunks(p)
  <2> DEFINE k == [job[p] EXCEPT !.pc = "resolve"]
             rows == [at \in Path \X Layout |-> chunks[<<plan[p].base, at[1], at[2]>>]]
             pl == [plan[p] EXCEPT !.rows = rows]
  <2>1. k \in Job /\ k.pc = "resolve" /\ Keeps(job[p], k)
        /\ k.drafts = job[p].drafts /\ k.todo = job[p].todo
    BY <1>t DEF Job, Positions, Keeps
  <2>r. rows \in [Path \X Layout -> ChunkRow \cup {Null}]
    BY <1>t, <1>p DEF TypeOK, ChunkId
  <2> HIDE DEF rows
  <2>2. pl \in Plan /\ pl.base = plan[p].base /\ pl.prevFp = plan[p].prevFp
        /\ pl.clones = plan[p].clones /\ pl.reused = plan[p].reused
    BY <1>t, <2>r DEF Plan
  <2>3. job' = [job EXCEPT ![p] = k] /\ plan' = [plan EXCEPT ![p] = pl]
        /\ UNCHANGED <<env, clock, db, disk, runs, raced>>
    BY <1>t, <1>2 DEF ListBaselineChunks, Goto, rows
  <2> HIDE DEF k, pl
  <2>4. JobHolds(k) /\ PlanHolds(k, pl)
    BY <1>t, <1>p, <2>1, <2>2
    DEF JobHolds, PlanHolds, Keeps, OwnPcs, Planning, Rebuilding, Building, Ending, Creating
  <2> QED
    BY <1>p, <2>1, <2>2, <2>3, <2>4, PlanMoved DEF OwnPcs
<1>3. CASE Resolve(p)
  <2> DEFINE k == [job[p] EXCEPT !.rev = tree, !.pc = "preview"]
  <2>1. k \in Job /\ k.pc = "preview" /\ k.cmd = job[p].cmd /\ k.snap = job[p].snap
        /\ k.cfg = job[p].cfg /\ k.rev = tree
        /\ k.drafts = job[p].drafts /\ k.todo = job[p].todo
    BY <1>t DEF Job, Positions, TypeOK
  <2>2. plan' = [plan EXCEPT ![p] = plan[p]]
    BY <1>t, <1>3 DEF Resolve
  <2>3. job' = [job EXCEPT ![p] = k] /\ UNCHANGED <<env, clock, db, disk, runs, raced>>
    BY <1>t, <1>3 DEF Resolve
  <2> HIDE DEF k
  <2>4. JobHolds(k) /\ PlanHolds(k, plan[p])
    BY <1>t, <1>p, <2>1
    DEF JobHolds, PlanHolds, OwnPcs, Planning, Rebuilding, Building, Ending, Creating, TypeOK
  <2> QED
    BY <1>t, <1>p, <2>1, <2>2, <2>3, <2>4, PlanMoved DEF OwnPcs
<1> QED
  BY <1>1, <1>2, <1>3

LEMMA Reasoning ==
  ASSUME NEW s \in BOOLEAN, NEW c \in BOOLEAN
  PROVE  /\ Classify(s, c) \in Reasons
         /\ Classify(s, c) = "no_change" <=> ~s /\ ~c
         /\ Classify(s, c) \in {"source_changed", "source_and_config_changed"} <=> s
         /\ Classify(s, c) \in {"config_changed", "source_and_config_changed"} <=> c
BY DEF Classify, Reasons

LEMMA Previewed ==
  ASSUME RTypeInv, NEW p \in Proc, Preview(p)
  PROVE  RTypeInv'
<1> DEFINE reason == Classify(tree # plan[p].files, job[p].cfg # plan[p].prevFp)
<1>t. /\ job \in [Proc -> Job] /\ plan \in [Proc -> Plan] /\ job[p] \in Job /\ plan[p] \in Plan
      /\ JobHolds(job[p]) /\ PlanHolds(job[p], plan[p]) /\ TypeOK
  BY RTyped
<1>p. job[p].pc = "preview" /\ job[p].cmd = "reindex"
  BY <1>t DEF Preview, At, PlanHolds, OwnPcs
<1>r. reason \in Reasons
  BY Reasoning
<1>1. UNCHANGED <<env, clock, db, disk, runs, raced>>
  BY DEF Preview
<1>2. CASE reason = "no_change"
  <2> DEFINE k == [job[p] EXCEPT !.pc = "record_run"]
             pl == [plan[p] EXCEPT !.reason = reason, !.reused = Present(tree)]
  <2>1. job' = [job EXCEPT ![p] = k] /\ plan' = [plan EXCEPT ![p] = pl]
    BY <1>t, <1>2 DEF Preview, Goto
  <2> HIDE DEF reason
  <2>2. k \in Job /\ k.pc = "record_run" /\ Keeps(job[p], k)
        /\ k.drafts = job[p].drafts /\ k.todo = job[p].todo
    BY <1>t DEF Job, Positions, Keeps
  <2>3. pl \in Plan /\ pl.base = plan[p].base /\ pl.prevFp = plan[p].prevFp /\ pl.reason = reason
    BY <1>t, <1>r DEF Plan, Present
  <2> HIDE DEF k, pl
  <2>4. JobHolds(k) /\ PlanHolds(k, pl)
    BY <1>t, <1>p, <1>r, <2>2, <2>3
    DEF JobHolds, PlanHolds, Keeps, OwnPcs, Planning, Rebuilding, Building, Ending, Creating
  <2> QED
    BY <1>p, <1>1, <2>1, <2>2, <2>3, <2>4, PlanMoved DEF OwnPcs
<1>3. CASE reason # "no_change"
  <2> DEFINE k == [job[p] EXCEPT !.pc = "begin_snapshot"]
             pl == [plan[p] EXCEPT !.reason = reason]
  <2>1. job' = [job EXCEPT ![p] = k] /\ plan' = [plan EXCEPT ![p] = pl]
    BY <1>t, <1>3 DEF Preview, Goto
  <2> HIDE DEF reason
  <2>2. k \in Job /\ k.pc = "begin_snapshot" /\ Keeps(job[p], k)
        /\ k.drafts = job[p].drafts /\ k.todo = job[p].todo
    BY <1>t DEF Job, Positions, Keeps
  <2>3. pl \in Plan /\ pl.base = plan[p].base /\ pl.prevFp = plan[p].prevFp /\ pl.reason = reason
        /\ pl.clones = plan[p].clones /\ pl.reused = plan[p].reused
    BY <1>t, <1>r DEF Plan
  <2> HIDE DEF k, pl
  <2>4. JobHolds(k) /\ PlanHolds(k, pl)
    BY <1>t, <1>p, <1>r, <2>2, <2>3
    DEF JobHolds, PlanHolds, Keeps, OwnPcs, Planning, Rebuilding, Building, Ending, Creating
  <2> QED
    BY <1>p, <1>1, <2>1, <2>2, <2>3, <2>4, PlanMoved DEF OwnPcs
<1> QED
  BY <1>2, <1>3

LEMMA SnapshotBegun ==
  ASSUME RTypeInv, NEW p \in Proc, BeginSnapshot(p)
  PROVE  RTypeInv'
<1>t. /\ job \in [Proc -> Job] /\ plan \in [Proc -> Plan] /\ job[p] \in Job /\ plan[p] \in Plan
      /\ JobHolds(job[p]) /\ PlanHolds(job[p], plan[p]) /\ TypeOK
  BY RTyped
<1>p. job[p].pc = "begin_snapshot" /\ job[p].cmd = "reindex"
  BY <1>t DEF BeginSnapshot, At, PlanHolds, OwnPcs
<1>1. UNCHANGED <<env, db, disk, runs, raced>>
  BY DEF BeginSnapshot
<1>2. CASE clock = MaxSnap
  BY <1>1, <1>2, PlanFinished, TypedByPlanning, TypedClock DEF BeginSnapshot
<1>3. CASE clock # MaxSnap
  <2> DEFINE k == [job[p] EXCEPT !.snap = clock + 1, !.rev = tree, !.pc = "write_manifest"]
  <2>1. /\ job' = [job EXCEPT ![p] = k] /\ plan' = [plan EXCEPT ![p] = plan[p]]
        /\ clock' = clock + 1
    BY <1>t, <1>3 DEF BeginSnapshot
  <2>2. clock + 1 \in Snap /\ clock' \in 0..MaxSnap /\ tree \in Tree
    BY <1>t, <1>3, <2>1, BoundAssumption DEF TypeOK, Snap
  <2>3. k \in Job /\ k.pc = "write_manifest" /\ k.cmd = job[p].cmd /\ k.cfg = job[p].cfg
        /\ k.snap = clock + 1 /\ k.rev = tree
        /\ k.drafts = job[p].drafts /\ k.todo = job[p].todo
    BY <1>t, <2>2 DEF Job, Positions
  <2> HIDE DEF k
  <2>4. JobHolds(k) /\ PlanHolds(k, plan[p])
    BY <1>t, <1>p, <2>2, <2>3
    DEF JobHolds, PlanHolds, OwnPcs, Planning, Rebuilding, Building, Ending, Creating
  <2>5. /\ job' \in [Proc -> Job] /\ JobOK'
        /\ plan' \in [Proc -> Plan] /\ PlanOK'
    BY <1>t, <2>1, <2>3, <2>4, PlanReplaced
  <2> QED
    BY <1>1, <2>2, <2>5, TypedByPlanning
<1> QED
  BY <1>2, <1>3

LEMMA ExtractChecked ==
  ASSUME RTypeInv, NEW p \in Proc, CheckExtract(p)
  PROVE  RTypeInv'
<1>t. /\ job \in [Proc -> Job] /\ plan \in [Proc -> Plan] /\ job[p] \in Job /\ plan[p] \in Plan
      /\ JobHolds(job[p]) /\ PlanHolds(job[p], plan[p]) /\ TypeOK
  BY RTyped
<1>p. job[p].pc = "check_extract" /\ job[p].cmd = "reindex"
  BY <1>t DEF CheckExtract, At, PlanHolds, OwnPcs
<1>1. UNCHANGED <<env, clock, db, disk, runs, raced>>
  BY DEF CheckExtract
<1>2. CASE ~MatchesLive(job[p].snap)
  BY <1>1, <1>2, PlanFinished, TypedByPlanning, TypedClock DEF CheckExtract
<1>3. CASE MatchesLive(job[p].snap)
  <2> DEFINE k == [job[p] EXCEPT !.pc = "scan"]
  <2>1. job' = [job EXCEPT ![p] = k] /\ plan' = [plan EXCEPT ![p] = plan[p]]
    BY <1>t, <1>3 DEF CheckExtract, Goto
  <2>2. k \in Job /\ k.pc = "scan" /\ Keeps(job[p], k)
        /\ k.drafts = job[p].drafts /\ k.todo = job[p].todo
    BY <1>t DEF Job, Positions, Keeps
  <2> HIDE DEF k
  <2>3. JobHolds(k) /\ PlanHolds(k, plan[p])
    BY <1>t, <1>p, <2>2
    DEF JobHolds, PlanHolds, Keeps, OwnPcs, Planning, Rebuilding, Building, Ending, Creating
  <2> QED
    BY <1>t, <1>p, <1>1, <2>1, <2>2, <2>3, PlanMoved DEF OwnPcs
<1> QED
  BY <1>2, <1>3

\* What the comparison of the stored rows with the baseline leaves in hand.
LEMMA Diffed ==
  ASSUME RTypeInv, NEW p \in Proc, Diff(p)
  PROVE  /\ job' \in [Proc -> Job] /\ plan' \in [Proc -> Plan]
         /\ Keeps(job[p], job'[p]) /\ job'[p].drafts = NoDrafts
         /\ job'[p].inventory = StoredInventory(p)
         /\ plan'[p].base = plan[p].base /\ plan'[p].prevFp = plan[p].prevFp
         /\ plan'[p].files = plan[p].files /\ plan'[p].rows = plan[p].rows
         /\ plan'[p].reason = plan[p].reason
         /\ plan'[p].clones \subseteq Unchanged(p, StoredInventory(p))
         /\ plan'[p].reused = {}
         /\ job'[p].todo = Present(StoredInventory(p)) \ plan'[p].clones
         /\ job'[p].pc = IF plan'[p].clones = {} THEN "materialize" ELSE "clone"
         /\ plan'[p].clones # {} => job[p].cfg = plan[p].prevFp
         /\ \A q \in Proc : q # p => job'[q] = job[q] /\ plan'[q] = plan[q]
         /\ UNCHANGED <<env, clock, db, disk, runs, raced>>
<1> DEFINE inventory == StoredInventory(p)
           reusable == IF job[p].cfg = plan[p].prevFp THEN Unchanged(p, inventory) ELSE {}
           todo == Present(inventory) \ reusable
           next == IF reusable = {} THEN "materialize" ELSE "clone"
           k == [job[p] EXCEPT !.inventory = inventory, !.todo = todo, !.pc = next]
           pl == [plan[p] EXCEPT !.clones = reusable]
<1>t. /\ job \in [Proc -> Job] /\ plan \in [Proc -> Plan] /\ job[p] \in Job /\ plan[p] \in Plan
      /\ JobHolds(job[p]) /\ PlanHolds(job[p], plan[p]) /\ TypeOK
  BY RTyped
<1>p. job[p].pc = "diff" /\ job[p].cmd = "reindex"
  BY <1>t DEF Diff, At, PlanHolds, OwnPcs
<1>1. /\ job' = [job EXCEPT ![p] = k] /\ plan' = [plan EXCEPT ![p] = pl]
      /\ UNCHANGED <<env, clock, db, disk, runs, raced>>
  BY <1>t DEF Diff
<1>2. inventory \in Tree
  BY <1>t, <1>p DEF StoredInventory, JobHolds, TypeOK, Tree
<1>3. /\ reusable \subseteq Unchanged(p, inventory)
      /\ reusable # {} => job[p].cfg = plan[p].prevFp
  OBVIOUS
<1>s. reusable \in SUBSET Path /\ todo \in SUBSET Path
  BY DEF Unchanged, Present
<1>d. job[p].drafts = NoDrafts /\ plan[p].reused = {}
  BY <1>t, <1>p DEF PlanHolds, Rebuilding, Building, Ending
<1>x. next \in Positions
  BY DEF Positions
<1> HIDE DEF inventory, reusable, todo, next
<1>4. /\ k \in Job /\ Keeps(job[p], k) /\ k.drafts = job[p].drafts /\ k.inventory = inventory
      /\ k.todo = todo /\ k.pc = next
  BY <1>t, <1>2, <1>s, <1>x DEF Job, Keeps
<1>5. /\ pl \in Plan /\ pl.base = plan[p].base /\ pl.prevFp = plan[p].prevFp
      /\ pl.files = plan[p].files /\ pl.rows = plan[p].rows /\ pl.reason = plan[p].reason
      /\ pl.clones = reusable /\ pl.reused = plan[p].reused
  BY <1>t, <1>s DEF Plan
<1> HIDE DEF k, pl
<1>6. /\ job' \in [Proc -> Job] /\ plan' \in [Proc -> Plan] /\ job'[p] = k /\ plan'[p] = pl
      /\ \A q \in Proc : q # p => job'[q] = job[q] /\ plan'[q] = plan[q]
  BY <1>t, <1>1, <1>4, <1>5
<1> QED
  BY <1>1, <1>3, <1>4, <1>5, <1>6, <1>d DEF inventory, todo, next, Keeps

LEMMA DiffTyped ==
  ASSUME RTypeInv, NEW p \in Proc, Diff(p)
  PROVE  RTypeInv'
<1>t. /\ job[p] \in Job /\ plan[p] \in Plan
      /\ JobHolds(job[p]) /\ PlanHolds(job[p], plan[p])
  BY RTyped
<1>p. job[p].pc = "diff" /\ job[p].cmd = "reindex"
  BY <1>t DEF Diff, At, PlanHolds, OwnPcs
<1>d. /\ job' \in [Proc -> Job] /\ plan' \in [Proc -> Plan]
      /\ Keeps(job[p], job'[p]) /\ job'[p].drafts = NoDrafts
      /\ job'[p].inventory = StoredInventory(p)
      /\ plan'[p].base = plan[p].base /\ plan'[p].prevFp = plan[p].prevFp
      /\ plan'[p].reason = plan[p].reason
      /\ plan'[p].clones \subseteq Unchanged(p, StoredInventory(p))
      /\ plan'[p].reused = {}
      /\ job'[p].todo = Present(StoredInventory(p)) \ plan'[p].clones
      /\ job'[p].pc = IF plan'[p].clones = {} THEN "materialize" ELSE "clone"
      /\ \A q \in Proc : q # p => job'[q] = job[q] /\ plan'[q] = plan[q]
      /\ UNCHANGED <<env, clock, db, disk, runs, raced>>
  BY Diffed
<1>f. \A f \in job'[p].todo \cup plan'[p].clones \cup plan'[p].reused :
        job'[p].inventory[f] # Absent
  BY <1>d DEF Unchanged, Present
<1>1. JobHolds(job'[p])
  BY <1>t, <1>p, <1>d, <1>f DEF JobHolds, PlanHolds, Keeps, Creating, Building, NoDrafts
<1>2. PlanHolds(job'[p], plan'[p])
  BY <1>t, <1>p, <1>d, <1>f
  DEF PlanHolds, Keeps, OwnPcs, Planning, Rebuilding, Building, Ending
<1>3. JobOK' /\ PlanOK'
  <2>1. \A q \in Proc : JobHolds(job[q]) /\ PlanHolds(job[q], plan[q])
    BY RTyped
  <2> QED
    BY <1>1, <1>2, <1>d, <2>1 DEF JobOK, PlanOK
<1> QED
  BY <1>d, <1>3, TypedByPlanning, TypedClock

\* Copying adds payloads that could be read to the snapshot, and removes none.
LEMMA CopiesAdd ==
  ASSUME RTypeInv, NEW p \in Proc, NEW f \in Path,
         NEW layouts \in SUBSET {l \in Layouts(p, f) :
                                   payloads[<<plan[p].base, f, l>>] \in Content},
         payloads' = Copied(p, f, layouts)
  PROVE  /\ payloads' \in [ChunkId -> Content \cup {Null, Torn}]
         /\ \A id \in ChunkId :
              \/ payloads'[id] = payloads[id]
              \/ /\ id[1] = job[p].snap /\ id[2] = f /\ id[3] \in layouts
                 /\ payloads'[id] = payloads[<<plan[p].base, f, id[3]>>]
                 /\ payloads'[id] \in Content
         /\ \A l \in layouts : job[p].snap \in Snap
                                 => payloads'[<<job[p].snap, f, l>>] \in Content
<1>t. payloads \in [ChunkId -> Content \cup {Null, Torn}]
  BY RTyped DEF TypeOK
<1>1. \A id \in ChunkId :
        payloads'[id] = IF id[1] = job[p].snap /\ id[2] = f /\ id[3] \in layouts
                        THEN payloads[<<plan[p].base, f, id[3]>>]
                        ELSE payloads[id]
  BY DEF Copied
<1>2. \A l \in layouts : l \in Layout /\ payloads[<<plan[p].base, f, l>>] \in Content
  BY DEF Layouts
<1>3. \A id \in ChunkId :
        \/ payloads'[id] = payloads[id]
        \/ /\ id[1] = job[p].snap /\ id[2] = f /\ id[3] \in layouts
           /\ payloads'[id] = payloads[<<plan[p].base, f, id[3]>>]
           /\ payloads'[id] \in Content
  BY <1>1, <1>2
<1>4. payloads' \in [ChunkId -> Content \cup {Null, Torn}]
  <2>1. \A id \in ChunkId : payloads'[id] \in Content \cup {Null, Torn}
    BY <1>t, <1>3
  <2>2. payloads' = [id \in ChunkId |-> payloads'[id]]
    BY DEF Copied
  <2> QED
    BY <2>1, <2>2
<1>5. ASSUME NEW l \in layouts, job[p].snap \in Snap
      PROVE  payloads'[<<job[p].snap, f, l>>] \in Content
  <2>1. <<job[p].snap, f, l>> \in ChunkId
    BY <1>2, <1>5 DEF ChunkId
  <2> QED
    BY <1>1, <1>2, <2>1
<1> QED
  BY <1>3, <1>4, <1>5

\* The clone of one file, whether it succeeds or not.
ClonesOne(p, f) ==
    /\ Keeps(job[p], job'[p])
    /\ job'[p].inventory = job[p].inventory /\ job'[p].drafts = job[p].drafts
    /\ plan'[p].base = plan[p].base /\ plan'[p].prevFp = plan[p].prevFp
    /\ plan'[p].files = plan[p].files /\ plan'[p].rows = plan[p].rows
    /\ plan'[p].reason = plan[p].reason
    /\ plan'[p].clones = plan[p].clones \ {f}
    /\ job'[p].pc = IF plan[p].clones = {f} THEN "materialize" ELSE "clone"
    /\ \E layouts \in SUBSET {l \in Layouts(p, f) :
                                payloads[<<plan[p].base, f, l>>] \in Content} :
         /\ payloads' = Copied(p, f, layouts)
         /\ \/ /\ plan'[p].reused = plan[p].reused \cup {f} /\ job'[p].todo = job[p].todo
               /\ layouts = Layouts(p, f)
            \/ /\ plan'[p].reused = plan[p].reused /\ job'[p].todo = job[p].todo \cup {f}
               /\ ~Readable(p, f)

LEMMA Cloned ==
  ASSUME RTypeInv, NEW p \in Proc, CloneFile(p) \/ CloneFails(p)
  PROVE  /\ job' \in [Proc -> Job] /\ plan' \in [Proc -> Plan]
         /\ \E f \in plan[p].clones : f \in Path /\ ClonesOne(p, f)
         /\ \A q \in Proc : q # p => job'[q] = job[q] /\ plan'[q] = plan[q]
         /\ UNCHANGED <<env, clock, db, manifests, parserCache, chunkCache, runs, raced>>
<1>t. /\ job \in [Proc -> Job] /\ plan \in [Proc -> Plan] /\ job[p] \in Job /\ plan[p] \in Plan
  BY RTyped
<1>1. CASE CloneFile(p)
  <2>1. PICK f \in Path :
          /\ NextClone(p, f)
          /\ Readable(p, f)
          /\ payloads' = Copied(p, f, Layouts(p, f))
          /\ plan' = [plan EXCEPT ![p].clones = @ \ {f}, ![p].reused = @ \cup {f}]
          /\ Goto(p, AfterClone(p, f))
    BY <1>1 DEF CloneFile
  <2> DEFINE where == AfterClone(p, f)
             k == [job[p] EXCEPT !.pc = where]
             pl == [plan[p] EXCEPT !.clones = @ \ {f}, !.reused = @ \cup {f}]
  <2>2. job' = [job EXCEPT ![p] = k] /\ plan' = [plan EXCEPT ![p] = pl]
    BY <1>t, <2>1 DEF Goto
  <2>3. where \in Positions
    BY DEF AfterClone, Positions
  <2> HIDE DEF where
  <2>4. k \in Job /\ Keeps(job[p], k) /\ k.inventory = job[p].inventory
        /\ k.drafts = job[p].drafts /\ k.todo = job[p].todo /\ k.pc = where
    BY <1>t, <2>3 DEF Job, Keeps
  <2>5. /\ pl \in Plan /\ pl.base = plan[p].base /\ pl.prevFp = plan[p].prevFp
        /\ pl.files = plan[p].files /\ pl.rows = plan[p].rows /\ pl.reason = plan[p].reason
        /\ pl.clones = plan[p].clones \ {f} /\ pl.reused = plan[p].reused \cup {f}
    BY <1>t DEF Plan
  <2> HIDE DEF k, pl
  <2>6. /\ job' \in [Proc -> Job] /\ plan' \in [Proc -> Plan] /\ job'[p] = k /\ plan'[p] = pl
        /\ \A q \in Proc : q # p => job'[q] = job[q] /\ plan'[q] = plan[q]
    BY <1>t, <2>2, <2>4, <2>5
  <2>7. Layouts(p, f) \in SUBSET {l \in Layouts(p, f) :
                                    payloads[<<plan[p].base, f, l>>] \in Content}
    BY <2>1 DEF Readable
  <2>8. f \in plan[p].clones
    BY <2>1 DEF NextClone
  <2>9. ClonesOne(p, f)
    BY <2>1, <2>4, <2>5, <2>6, <2>7 DEF ClonesOne, Keeps, where, AfterClone
  <2> QED
    BY <1>1, <2>6, <2>8, <2>9 DEF CloneFile
<1>2. CASE CloneFails(p)
  <2>1. PICK f \in Path :
          /\ NextClone(p, f)
          /\ ~Readable(p, f)
          /\ \E copied \in SUBSET {l \in Layouts(p, f) :
                                     payloads[<<plan[p].base, f, l>>] \in Content} :
               payloads' = Copied(p, f, copied)
          /\ plan' = [plan EXCEPT ![p].clones = @ \ {f}]
          /\ job' = [job EXCEPT ![p].todo = @ \cup {f}, ![p].pc = AfterClone(p, f)]
    BY <1>2 DEF CloneFails
  <2> DEFINE where == AfterClone(p, f)
             k == [job[p] EXCEPT !.todo = @ \cup {f}, !.pc = where]
             pl == [plan[p] EXCEPT !.clones = @ \ {f}]
  <2>2. job' = [job EXCEPT ![p] = k] /\ plan' = [plan EXCEPT ![p] = pl]
    BY <1>t, <2>1
  <2>3. where \in Positions
    BY DEF AfterClone, Positions
  <2> HIDE DEF where
  <2>4. k \in Job /\ Keeps(job[p], k) /\ k.inventory = job[p].inventory
        /\ k.drafts = job[p].drafts /\ k.todo = job[p].todo \cup {f} /\ k.pc = where
    BY <1>t, <2>3 DEF Job, Keeps
  <2>5. /\ pl \in Plan /\ pl.base = plan[p].base /\ pl.prevFp = plan[p].prevFp
        /\ pl.files = plan[p].files /\ pl.rows = plan[p].rows /\ pl.reason = plan[p].reason
        /\ pl.clones = plan[p].clones \ {f} /\ pl.reused = plan[p].reused
    BY <1>t DEF Plan
  <2> HIDE DEF k, pl
  <2>6. /\ job' \in [Proc -> Job] /\ plan' \in [Proc -> Plan] /\ job'[p] = k /\ plan'[p] = pl
        /\ \A q \in Proc : q # p => job'[q] = job[q] /\ plan'[q] = plan[q]
    BY <1>t, <2>2, <2>4, <2>5
  <2>8. f \in plan[p].clones
    BY <2>1 DEF NextClone
  <2>9. ClonesOne(p, f)
    BY <2>1, <2>4, <2>5, <2>6 DEF ClonesOne, Keeps, where, AfterClone
  <2> QED
    BY <1>2, <2>6, <2>8, <2>9 DEF CloneFails
<1> QED
  BY <1>1, <1>2

LEMMA ClonedTyped ==
  ASSUME RTypeInv, NEW p \in Proc, CloneFile(p) \/ CloneFails(p)
  PROVE  RTypeInv'
<1>t. /\ job[p] \in Job /\ plan[p] \in Plan /\ TypeOK
      /\ JobHolds(job[p]) /\ PlanHolds(job[p], plan[p])
  BY RTyped
<1>p. job[p].pc = "clone" /\ job[p].cmd = "reindex"
  BY <1>t DEF CloneFile, CloneFails, At, PlanHolds, OwnPcs
<1>c. /\ job' \in [Proc -> Job] /\ plan' \in [Proc -> Plan]
      /\ \A q \in Proc : q # p => job'[q] = job[q] /\ plan'[q] = plan[q]
      /\ UNCHANGED <<env, clock, db, manifests, parserCache, chunkCache, runs, raced>>
  BY Cloned
<1>f. PICK f \in Path : f \in plan[p].clones /\ ClonesOne(p, f)
  BY Cloned
<1>1. PICK layouts \in SUBSET {l \in Layouts(p, f) :
                                 payloads[<<plan[p].base, f, l>>] \in Content} :
        payloads' = Copied(p, f, layouts)
  BY <1>f DEF ClonesOne
<1>2. payloads' \in [ChunkId -> Content \cup {Null, Torn}]
  BY <1>1, CopiesAdd
<1>3. /\ Keeps(job[p], job'[p])
      /\ job'[p].inventory = job[p].inventory /\ job'[p].drafts = job[p].drafts
      /\ plan'[p].base = plan[p].base /\ plan'[p].prevFp = plan[p].prevFp
      /\ plan'[p].reason = plan[p].reason
      /\ plan'[p].clones = plan[p].clones \ {f}
      /\ job'[p].pc = IF plan[p].clones = {f} THEN "materialize" ELSE "clone"
      /\ job'[p].todo \subseteq job[p].todo \cup {f}
      /\ plan'[p].reused \subseteq plan[p].reused \cup {f}
  BY <1>f DEF ClonesOne
<1>4. job[p].drafts = NoDrafts
  BY <1>t, <1>p DEF PlanHolds, Building, Ending
<1>5. \A g \in job'[p].todo \cup plan'[p].clones \cup plan'[p].reused :
        job'[p].inventory[g] # Absent
  BY <1>t, <1>p, <1>f, <1>3 DEF PlanHolds, Rebuilding
<1>6. JobHolds(job'[p])
  BY <1>t, <1>p, <1>3, <1>4, <1>5 DEF JobHolds, PlanHolds, Keeps, Creating, Building, NoDrafts
<1>7. PlanHolds(job'[p], plan'[p])
  BY <1>t, <1>p, <1>3, <1>4, <1>5
  DEF PlanHolds, Keeps, OwnPcs, Planning, Rebuilding, Building, Ending
<1>8. JobOK' /\ PlanOK'
  <2>1. \A q \in Proc : JobHolds(job[q]) /\ PlanHolds(job[q], plan[q])
    BY RTyped
  <2> QED
    BY <1>c, <1>6, <1>7, <2>1 DEF JobOK, PlanOK
<1>9. ReindexTypeOK
  BY DEF RTypeInv
<1> QED
  BY <1>t, <1>c, <1>2, <1>8, <1>9 DEF RTypeInv, ReindexTypeOK, TypeOK, env, db

LEMMA CrashInCloneTyped ==
  ASSUME RTypeInv, NEW p \in Proc, CrashInClone(p)
  PROVE  RTypeInv'
<1>t. TypeOK /\ ReindexTypeOK
  BY DEF RTypeInv, ReindexTypeOK
<1>1. /\ job' \in [Proc -> Job] /\ JobOK'
      /\ plan' \in [Proc -> Plan] /\ PlanOK'
  BY PlanFinished DEF CrashInClone
<1>2. payloads' \in [ChunkId -> Content \cup {Null, Torn}]
  BY <1>t DEF CrashInClone, TypeOK
<1>3. faults' \in 0..MaxFaults
  BY <1>t, BoundAssumption DEF CrashInClone, Fault, TypeOK
<1> QED
  BY <1>t, <1>1, <1>2, <1>3 DEF CrashInClone, RTypeInv, ReindexTypeOK, TypeOK, db

\* The rows of a re-index are typed: what it clones and builds has a file.
LEMMA RowsReindexed ==
  ASSUME RTypeInv, NEW p \in Proc, UpsertReindexed(p)
  PROVE  /\ job[p].todo = {} /\ job[p].pc = "materialize" /\ job[p].cmd = "reindex"
         /\ job' \in [Proc -> Job] /\ Keeps(job[p], job'[p]) /\ job'[p].pc = "mark_chunks"
         /\ job'[p].inventory = job[p].inventory /\ job'[p].todo = job[p].todo
         /\ job'[p].drafts = job[p].drafts
         /\ \A q \in Proc : q # p => job'[q] = job[q]
         /\ UNCHANGED <<env, clock, revision, extracted, fingerprint, files, provenance, disk,
                        plan, runs, raced>>
         /\ \A id \in ChunkId :
              \/ chunks'[id] = chunks[id] /\ ~IsClone(p, id)
              \/ /\ IsClone(p, id) \/ (job[p].drafts[id[2]] # Null /\ id = IdOf(p, id[2]))
                 /\ chunks'[id] \in ChunkRow
                 /\ chunks'[id].hash = job[p].inventory[id[2]]
<1>t. /\ job[p] \in Job /\ plan[p] \in Plan /\ TypeOK /\ job \in [Proc -> Job]
      /\ JobHolds(job[p]) /\ PlanHolds(job[p], plan[p])
  BY RTyped
<1>1. job[p].todo = {} /\ job[p].pc = "materialize" /\ job[p].cmd = "reindex"
  BY DEF UpsertReindexed, At
<1>2. /\ job' \in [Proc -> Job] /\ Keeps(job[p], job'[p]) /\ job'[p].pc = "mark_chunks"
      /\ job'[p].inventory = job[p].inventory /\ job'[p].todo = job[p].todo
      /\ job'[p].drafts = job[p].drafts
      /\ \A q \in Proc : q # p => job'[q] = job[q]
  BY <1>t DEF UpsertReindexed, Goto, Job, Positions, Keeps
<1>3. ASSUME NEW id \in ChunkId
      PROVE  \/ chunks'[id] = chunks[id] /\ ~IsClone(p, id)
             \/ /\ IsClone(p, id) \/ (job[p].drafts[id[2]] # Null /\ id = IdOf(p, id[2]))
                /\ chunks'[id] \in ChunkRow
                /\ chunks'[id].hash = job[p].inventory[id[2]]
  <2>0. id[2] \in Path /\ job[p].cfg \in Config /\ job[p].inventory \in Tree
    BY <1>t, <1>1 DEF ChunkId, PlanHolds, Job
  <2>1. chunks'[id] = IF IsClone(p, id) THEN CloneRow(p, id)
                      ELSE IF job[p].drafts[id[2]] # Null /\ id = IdOf(p, id[2])
                      THEN [hash |-> job[p].inventory[id[2]], cfg |-> job[p].cfg]
                      ELSE chunks[id]
    BY DEF UpsertReindexed
  <2>2. CASE IsClone(p, id)
    <3>1. id[2] \in plan[p].reused /\ id[3] \in Layouts(p, id[2])
      BY <2>2 DEF IsClone
    <3>2. job[p].inventory[id[2]] \in Content
      BY <1>t, <1>1, <2>0, <3>1 DEF PlanHolds, Rebuilding, Building, Tree
    <3>3. plan[p].rows[<<id[2], id[3]>>] \in ChunkRow
      BY <1>t, <2>0, <3>1 DEF Layouts, Plan
    <3>4. plan[p].rows[<<id[2], id[3]>>].cfg \in Config
      BY <3>3 DEF ChunkRow
    <3>5. CloneRow(p, id) \in ChunkRow /\ CloneRow(p, id).hash = job[p].inventory[id[2]]
      BY <3>2, <3>4 DEF CloneRow, ChunkRow
    <3> QED
      BY <2>1, <2>2, <3>5
  <2>3. CASE ~IsClone(p, id) /\ job[p].drafts[id[2]] # Null /\ id = IdOf(p, id[2])
    <3>1. job[p].inventory[id[2]] \in Content
      BY <1>t, <1>1, <2>0, <2>3 DEF JobHolds, Building, Tree
    <3> QED
      BY <2>0, <2>1, <2>3, <3>1 DEF ChunkRow
  <2>4. CASE ~IsClone(p, id) /\ ~(job[p].drafts[id[2]] # Null /\ id = IdOf(p, id[2]))
    BY <2>1, <2>4
  <2> QED
    BY <2>2, <2>3, <2>4
<1> QED
  BY <1>1, <1>2, <1>3 DEF UpsertReindexed

LEMMA UpsertTyped ==
  ASSUME RTypeInv, NEW p \in Proc, UpsertReindexed(p)
  PROVE  RTypeInv'
<1>t. /\ job[p] \in Job /\ plan[p] \in Plan /\ TypeOK /\ ReindexTypeOK
      /\ JobHolds(job[p]) /\ PlanHolds(job[p], plan[p])
  BY RTyped DEF RTypeInv
<1>u. /\ job[p].todo = {} /\ job[p].pc = "materialize" /\ job[p].cmd = "reindex"
      /\ job' \in [Proc -> Job] /\ Keeps(job[p], job'[p]) /\ job'[p].pc = "mark_chunks"
      /\ job'[p].inventory = job[p].inventory /\ job'[p].todo = job[p].todo
      /\ job'[p].drafts = job[p].drafts
      /\ \A q \in Proc : q # p => job'[q] = job[q]
      /\ UNCHANGED <<env, clock, revision, extracted, fingerprint, files, provenance, disk,
                     plan, runs, raced>>
      /\ \A id \in ChunkId : chunks'[id] = chunks[id] \/ chunks'[id] \in ChunkRow
  BY RowsReindexed
<1>1. chunks' \in [ChunkId -> ChunkRow \cup {Null}]
  <2>1. \A id \in ChunkId : chunks'[id] \in ChunkRow \cup {Null}
    BY <1>t, <1>u DEF TypeOK
  <2>2. chunks' = [id \in ChunkId |-> chunks'[id]]
    BY DEF UpsertReindexed
  <2> QED
    BY <2>1, <2>2
<1>2. JobHolds(job'[p]) /\ PlanHolds(job'[p], plan[p])
  BY <1>t, <1>u
  DEF JobHolds, PlanHolds, Keeps, OwnPcs, Planning, Rebuilding, Building, Ending, Creating
<1>3. JobOK' /\ PlanOK'
  <2>1. \A q \in Proc : JobHolds(job[q]) /\ PlanHolds(job[q], plan[q])
    BY RTyped
  <2> QED
    BY <1>u, <1>2, <2>1 DEF JobOK, PlanOK
<1> QED
  BY <1>t, <1>u, <1>1, <1>3 DEF RTypeInv, ReindexTypeOK, TypeOK, env, disk

LEMMA RunTyped ==
  ASSUME RTypeInv, NEW p \in Proc, At(p, "record_run")
  PROVE  RunOf(p) \in Run
<1>t. /\ job[p] \in Job /\ plan[p] \in Plan /\ TypeOK
      /\ JobHolds(job[p]) /\ PlanHolds(job[p], plan[p])
  BY RTyped
<1>p. job[p].pc = "record_run" /\ job[p].cmd = "reindex"
  BY <1>t DEF At, PlanHolds, OwnPcs
<1>1. ASSUME NEW S \in SUBSET Path PROVE Cardinality(S) \in Nat
  BY FiniteAssumption, FS_Subset, FS_CardinalityType
<1>2. /\ job[p].snap \in Snap /\ job[p].rev \in Tree /\ job[p].cfg \in Config
      /\ plan[p].base \in Snap /\ plan[p].prevFp \in Config /\ plan[p].reason \in Reasons
  BY <1>t, <1>p DEF JobHolds, PlanHolds, Planning, Ending
<1> DEFINE built == {f \in Path : job[p].drafts[f] # Null}
           gone == Present(plan[p].files) \ Present(job[p].inventory)
           cloned == {at \in plan[p].reused \X Layout : plan[p].rows[at] # Null}
           inherited == {plan[p].rows[at].cfg : at \in cloned}
           removed == IF plan[p].reason = "no_change" THEN 0 ELSE Cardinality(gone)
<1>3. /\ plan[p].reused \in SUBSET Path /\ built \in SUBSET Path /\ gone \in SUBSET Path
  BY <1>t DEF Plan, Present
<1>4. /\ Cardinality(plan[p].reused) \in Nat /\ Cardinality(built) \in Nat
      /\ Cardinality(gone) \in Nat
  BY <1>1, <1>3
<1>5. \A at \in cloned : plan[p].rows[at].cfg \in Config
  <2>1. plan[p].rows \in [Path \X Layout -> ChunkRow \cup {Null}]
    BY <1>t DEF Plan
  <2> QED
    BY <1>3, <2>1 DEF ChunkRow
<1>6. inherited \in SUBSET Config
  BY <1>5
<1>7. removed \in Nat
  BY <1>4
<1>8. RunOf(p) =
        [prev |-> plan[p].base, result |-> job[p].snap, resultRev |-> job[p].rev,
         prevFp |-> plan[p].prevFp, fp |-> job[p].cfg, reason |-> plan[p].reason,
         reused |-> Cardinality(plan[p].reused), rebuilt |-> Cardinality(built),
         removed |-> removed, inherited |-> inherited]
  BY DEF RunOf
<1> HIDE DEF built, inherited, removed
<1> QED
  BY <1>2, <1>4, <1>6, <1>7, <1>8 DEF Run

LEMMA RecordTyped ==
  ASSUME RTypeInv, NEW p \in Proc, RecordRun(p)
  PROVE  RTypeInv'
<1>t. /\ job[p] \in Job /\ plan[p] \in Plan /\ TypeOK /\ ReindexTypeOK /\ job \in [Proc -> Job]
      /\ JobHolds(job[p]) /\ PlanHolds(job[p], plan[p]) /\ plan \in [Proc -> Plan]
  BY RTyped DEF RTypeInv
<1>p. job[p].pc = "record_run" /\ job[p].cmd = "reindex"
  BY <1>t DEF RecordRun, At, PlanHolds, OwnPcs
<1> DEFINE k == [job[p] EXCEPT !.pc = "record_provenance"]
<1>1. job' = [job EXCEPT ![p] = k] /\ plan' = [plan EXCEPT ![p] = plan[p]]
  BY <1>t DEF RecordRun, Goto
<1>2. k \in Job /\ k.pc = "record_provenance" /\ Keeps(job[p], k)
      /\ k.drafts = job[p].drafts /\ k.todo = job[p].todo
  BY <1>t DEF Job, Positions, Keeps
<1> HIDE DEF k
<1>3. JobHolds(k) /\ PlanHolds(k, plan[p])
  BY <1>t, <1>p, <1>2
  DEF JobHolds, PlanHolds, Keeps, OwnPcs, Planning, Rebuilding, Building, Ending, Creating
<1>4. /\ job' \in [Proc -> Job] /\ JobOK'
      /\ plan' \in [Proc -> Plan] /\ PlanOK'
  BY <1>t, <1>1, <1>2, <1>3, PlanReplaced
<1>5. \A r \in runs' : r \in Run
  BY <1>t, RunTyped DEF RecordRun, ReindexTypeOK
<1> QED
  BY <1>t, <1>4, <1>5 DEF RecordRun, RTypeInv, ReindexTypeOK, TypeOK, env, db, disk

LEMMA RTypeInvStep == RTypeInv /\ [ReindexNext]_reindexVars => RTypeInv'
<1>1. RTypeInv /\ UNCHANGED reindexVars => RTypeInv'
  BY DEF RTypeInv, ReindexTypeOK, TypeOK, JobOK, PlanOK, reindexVars, vars
<1>2. ASSUME RTypeInv, NEW f \in Path, NEW c \in Content \cup {Absent}, EditBesideReindex(f, c)
      PROVE  RTypeInv'
  <2>1. TypeInv'
    BY <1>2, RTyped, TypeInvEdit DEF EditBesideReindex
  <2>2. job' = job /\ UNCHANGED <<plan, runs>> /\ raced' \in BOOLEAN
    BY <1>2 DEF EditBesideReindex, Edit, RTypeInv, ReindexTypeOK
  <2> QED
    BY <1>2, <2>1, <2>2 DEF RTypeInv, ReindexTypeOK, PlanOK, TypeInv
<1>3. ASSUME RTypeInv, NEW p \in Proc, RStep(p) PROVE RTypeInv'
  <2>1. CASE (StartOrFault(p) \/ PipelineStep(p)) /\ KeepPlan(p)
    <3>1. ProcStep(p) /\ TypeInv
      BY <1>3, <2>1, SharedIsProc, RTyped
    <3>2. TypeInv'
      BY <3>1, TypeInvStep DEF Next, ProcStep
    <3> QED
      BY <1>3, <2>1, <3>1, <3>2, SharedPlanStep
  <2>2. CASE StartReindex(p)
    BY <1>3, <2>2, ReindexStarted
  <2>3. CASE OwnStep(p)
    BY <1>3, <2>3, BaselineListed, Previewed, SnapshotBegun, ExtractChecked, DiffTyped,
       ClonedTyped, UpsertTyped, RecordTyped DEF OwnStep
  <2>4. CASE CrashInClone(p)
    BY <1>3, <2>4, CrashInCloneTyped
  <2> QED
    BY <1>3, <2>1, <2>2, <2>3, <2>4 DEF RStep
<1> QED
  BY <1>1, <1>2, <1>3 DEF ReindexNext, RStep

\* Every reachable state has the types ReindexTypeOK gives the variables.
THEOREM ReindexTypeCorrect == ReindexSpec => []ReindexTypeOK
<1>1. RTypeInv => ReindexTypeOK
  BY DEF RTypeInv
<1> QED
  BY <1>1, RTypeInvInit, RTypeInvStep, PTL DEF ReindexSpec

-----------------------------------------------------------------------------
\* Rows, inventories and payload files beside re-indexes.

Stays(j, k) ==
    Keeps(j, k) /\ k.inventory = j.inventory /\ k.todo = j.todo /\ k.drafts = j.drafts

PlanKeeps(pl, ql) ==
    ql.base = pl.base /\ ql.prevFp = pl.prevFp /\ ql.clones = pl.clones

\* The steps of a re-index that read, decide or record, from j and pl to k and ql.
OwnMoves(j, k, pl, ql) ==
    \/ /\ j.pc = "list_baseline" /\ k.pc = "list_baseline_chunks"
       /\ Stays(j, k) /\ PlanKeeps(pl, ql) /\ ql.files = files[pl.base]
       /\ ql.reason = pl.reason /\ ql.reused = pl.reused
    \/ /\ j.pc = "list_baseline_chunks" /\ k.pc = "resolve"
       /\ Stays(j, k) /\ PlanKeeps(pl, ql) /\ ql.files = pl.files
       /\ ql.reason = pl.reason /\ ql.reused = pl.reused
    \/ /\ j.pc = "resolve" /\ k.pc = "preview"
       /\ k.cmd = j.cmd /\ k.snap = j.snap /\ k.cfg = j.cfg /\ k.rev = tree
       /\ k.inventory = j.inventory /\ k.todo = j.todo /\ k.drafts = j.drafts /\ ql = pl
    \/ /\ j.pc = "preview" /\ k.pc = "record_run"
       /\ Stays(j, k) /\ PlanKeeps(pl, ql) /\ ql.files = pl.files
       /\ ql.reason = Classify(tree # pl.files, j.cfg # pl.prevFp)
       /\ ql.reason = "no_change" /\ ql.reused = Present(tree)
    \/ /\ j.pc = "preview" /\ k.pc = "begin_snapshot"
       /\ Stays(j, k) /\ PlanKeeps(pl, ql) /\ ql.files = pl.files
       /\ ql.reason = Classify(tree # pl.files, j.cfg # pl.prevFp)
       /\ ql.reason # "no_change" /\ ql.reused = pl.reused
    \/ /\ j.pc = "check_extract" /\ k.pc = "scan" /\ MatchesLive(j.snap)
       /\ Stays(j, k) /\ ql = pl
    \/ /\ j.pc = "record_run" /\ k.pc = "record_provenance"
       /\ Stays(j, k) /\ ql = pl

Reads(p) == ListBaselineFiles(p) \/ ListBaselineChunks(p) \/ Resolve(p) \/ Preview(p)
              \/ CheckExtract(p) \/ RecordRun(p)

LEMMA WentOn ==
  ASSUME NEW j \in Job, NEW where
  PROVE  Stays(j, [j EXCEPT !.pc = where]) /\ [j EXCEPT !.pc = where].pc = where
BY DEF Stays, Keeps, Job

LEMMA ReadsMove ==
  ASSUME RTypeInv, NEW p \in Proc, Reads(p)
  PROVE  /\ job'[p] = NoJob \/ OwnMoves(job[p], job'[p], plan[p], plan'[p])
         /\ \A q \in Proc : q # p => job'[q] = job[q] /\ plan'[q] = plan[q]
         /\ UNCHANGED <<env, clock, db, disk, raced>>
<1>t. /\ job \in [Proc -> Job] /\ plan \in [Proc -> Plan] /\ job[p] \in Job /\ plan[p] \in Plan
  BY RTyped
<1>1. CASE ListBaselineFiles(p)
  <2>1. /\ job' = [job EXCEPT ![p] = [job[p] EXCEPT !.pc = "list_baseline_chunks"]]
        /\ plan' = [plan EXCEPT ![p] = [plan[p] EXCEPT !.files = files[plan[p].base]]]
    BY <1>t, <1>1 DEF ListBaselineFiles, Goto
  <2>2. /\ job'[p] = [job[p] EXCEPT !.pc = "list_baseline_chunks"]
        /\ plan'[p] = [plan[p] EXCEPT !.files = files[plan[p].base]]
        /\ \A q \in Proc : q # p => job'[q] = job[q] /\ plan'[q] = plan[q]
    BY <1>t, <2>1
  <2>3. /\ Stays(job[p], job'[p]) /\ job'[p].pc = "list_baseline_chunks"
    BY <1>t, <2>2, WentOn
  <2>4. /\ PlanKeeps(plan[p], plan'[p]) /\ plan'[p].files = files[plan[p].base]
        /\ plan'[p].reason = plan[p].reason /\ plan'[p].reused = plan[p].reused
    BY <1>t, <2>2 DEF Plan, PlanKeeps
  <2> QED
    BY <1>1, <2>2, <2>3, <2>4 DEF ListBaselineFiles, OwnMoves, At
<1>2. CASE ListBaselineChunks(p)
  <2> DEFINE rows == [at \in Path \X Layout |-> chunks[<<plan[p].base, at[1], at[2]>>]]
  <2>1. /\ job' = [job EXCEPT ![p] = [job[p] EXCEPT !.pc = "resolve"]]
        /\ plan' = [plan EXCEPT ![p] = [plan[p] EXCEPT !.rows = rows]]
    BY <1>t, <1>2 DEF ListBaselineChunks, Goto
  <2> HIDE DEF rows
  <2>2. /\ job'[p] = [job[p] EXCEPT !.pc = "resolve"]
        /\ plan'[p] = [plan[p] EXCEPT !.rows = rows]
        /\ \A q \in Proc : q # p => job'[q] = job[q] /\ plan'[q] = plan[q]
    BY <1>t, <2>1
  <2>3. /\ Stays(job[p], job'[p]) /\ job'[p].pc = "resolve"
    BY <1>t, <2>2, WentOn
  <2>4. /\ PlanKeeps(plan[p], plan'[p]) /\ plan'[p].files = plan[p].files
        /\ plan'[p].reason = plan[p].reason /\ plan'[p].reused = plan[p].reused
    BY <1>t, <2>2 DEF Plan, PlanKeeps
  <2> QED
    BY <1>2, <2>2, <2>3, <2>4 DEF ListBaselineChunks, OwnMoves, At
<1>3. CASE Resolve(p)
  <2>1. /\ job'[p] = [job[p] EXCEPT !.rev = tree, !.pc = "preview"] /\ plan' = plan
        /\ \A q \in Proc : q # p => job'[q] = job[q]
    BY <1>t, <1>3 DEF Resolve
  <2>2. /\ job'[p].cmd = job[p].cmd /\ job'[p].snap = job[p].snap /\ job'[p].cfg = job[p].cfg
        /\ job'[p].rev = tree /\ job'[p].pc = "preview"
        /\ job'[p].inventory = job[p].inventory /\ job'[p].todo = job[p].todo
        /\ job'[p].drafts = job[p].drafts
    BY <1>t, <2>1 DEF Job
  <2> QED
    BY <1>3, <2>1, <2>2 DEF Resolve, OwnMoves, At
<1>4. CASE Preview(p)
  <2> DEFINE reason == Classify(tree # plan[p].files, job[p].cfg # plan[p].prevFp)
  <2>0. UNCHANGED <<env, clock, db, disk, raced>> /\ job[p].pc = "preview"
    BY <1>4 DEF Preview, At
  <2>1. CASE reason = "no_change"
    <3>1. /\ job' = [job EXCEPT ![p] = [job[p] EXCEPT !.pc = "record_run"]]
          /\ plan' = [plan EXCEPT ![p] = [plan[p] EXCEPT !.reason = reason,
                                                         !.reused = Present(tree)]]
      BY <1>t, <1>4, <2>1 DEF Preview, Goto
    <3> HIDE DEF reason
    <3>2. /\ job'[p] = [job[p] EXCEPT !.pc = "record_run"]
          /\ plan'[p] = [plan[p] EXCEPT !.reason = reason, !.reused = Present(tree)]
          /\ \A q \in Proc : q # p => job'[q] = job[q] /\ plan'[q] = plan[q]
      BY <1>t, <3>1
    <3>3. /\ Stays(job[p], job'[p]) /\ job'[p].pc = "record_run"
      BY <1>t, <3>2, WentOn
    <3>4. /\ PlanKeeps(plan[p], plan'[p]) /\ plan'[p].files = plan[p].files
          /\ plan'[p].reason = reason /\ plan'[p].reused = Present(tree)
      BY <1>t, <3>2 DEF Plan, PlanKeeps
    <3>5. OwnMoves(job[p], job'[p], plan[p], plan'[p])
      BY <2>0, <2>1, <3>3, <3>4 DEF OwnMoves, reason
    <3> QED
      BY <2>0, <3>2, <3>5
  <2>2. CASE reason # "no_change"
    <3>1. /\ job' = [job EXCEPT ![p] = [job[p] EXCEPT !.pc = "begin_snapshot"]]
          /\ plan' = [plan EXCEPT ![p] = [plan[p] EXCEPT !.reason = reason]]
      BY <1>t, <1>4, <2>2 DEF Preview, Goto
    <3> HIDE DEF reason
    <3>2. /\ job'[p] = [job[p] EXCEPT !.pc = "begin_snapshot"]
          /\ plan'[p] = [plan[p] EXCEPT !.reason = reason]
          /\ \A q \in Proc : q # p => job'[q] = job[q] /\ plan'[q] = plan[q]
      BY <1>t, <3>1
    <3>3. /\ Stays(job[p], job'[p]) /\ job'[p].pc = "begin_snapshot"
      BY <1>t, <3>2, WentOn
    <3>4. /\ PlanKeeps(plan[p], plan'[p]) /\ plan'[p].files = plan[p].files
          /\ plan'[p].reason = reason /\ plan'[p].reused = plan[p].reused
      BY <1>t, <3>2 DEF Plan, PlanKeeps
    <3>5. OwnMoves(job[p], job'[p], plan[p], plan'[p])
      BY <2>0, <2>2, <3>3, <3>4 DEF OwnMoves, reason
    <3> QED
      BY <2>0, <3>2, <3>5
  <2> QED
    BY <2>1, <2>2
<1>5. CASE CheckExtract(p)
  <2>0. UNCHANGED <<env, clock, db, disk, raced>> /\ job[p].pc = "check_extract"
    BY <1>5 DEF CheckExtract, At
  <2>1. CASE ~MatchesLive(job[p].snap)
    BY <1>t, <1>5, <2>0, <2>1 DEF CheckExtract, Finish
  <2>2. CASE MatchesLive(job[p].snap)
    <3>1. job' = [job EXCEPT ![p] = [job[p] EXCEPT !.pc = "scan"]] /\ plan' = plan
      BY <1>t, <1>5, <2>2 DEF CheckExtract, Goto
    <3>2. /\ job'[p] = [job[p] EXCEPT !.pc = "scan"]
          /\ \A q \in Proc : q # p => job'[q] = job[q]
      BY <1>t, <3>1
    <3>3. /\ Stays(job[p], job'[p]) /\ job'[p].pc = "scan"
      BY <1>t, <3>2, WentOn
    <3>5. OwnMoves(job[p], job'[p], plan[p], plan'[p])
      BY <2>0, <2>2, <3>1, <3>3 DEF OwnMoves
    <3> QED
      BY <2>0, <3>1, <3>2, <3>5
  <2> QED
    BY <2>1, <2>2
<1>6. CASE RecordRun(p)
  <2>1. job' = [job EXCEPT ![p] = [job[p] EXCEPT !.pc = "record_provenance"]] /\ plan' = plan
    BY <1>t, <1>6 DEF RecordRun, Goto
  <2>2. /\ job'[p] = [job[p] EXCEPT !.pc = "record_provenance"]
        /\ \A q \in Proc : q # p => job'[q] = job[q]
    BY <1>t, <2>1
  <2>3. /\ Stays(job[p], job'[p]) /\ job'[p].pc = "record_provenance"
    BY <1>t, <2>2, WentOn
  <2>5. OwnMoves(job[p], job'[p], plan[p], plan'[p])
    BY <1>6, <2>1, <2>3 DEF OwnMoves, RecordRun, At
  <2> QED
    BY <1>6, <2>1, <2>2, <2>5 DEF RecordRun
<1> QED
  BY <1>1, <1>2, <1>3, <1>4, <1>5, <1>6 DEF Reads

LEMMA SnapshotTaken ==
  ASSUME RTypeInv, NEW p \in Proc, BeginSnapshot(p)
  PROVE  /\ job[p].pc = "begin_snapshot" /\ job[p].cmd = "reindex"
         /\ \/ job'[p] = NoJob /\ clock' = clock
            \/ /\ clock' = clock + 1 /\ clock + 1 \in Snap /\ plan' = plan
               /\ job'[p].pc = "write_manifest" /\ job'[p].cmd = job[p].cmd
               /\ job'[p].cfg = job[p].cfg /\ job'[p].snap = clock + 1 /\ job'[p].rev = tree
               /\ job'[p].inventory = job[p].inventory /\ job'[p].todo = job[p].todo
               /\ job'[p].drafts = job[p].drafts
         /\ \A q \in Proc : q # p => job'[q] = job[q] /\ plan'[q] = plan[q]
         /\ UNCHANGED <<env, db, disk, runs, raced>>
<1>t. /\ job \in [Proc -> Job] /\ plan \in [Proc -> Plan] /\ job[p] \in Job /\ plan[p] \in Plan
      /\ PlanHolds(job[p], plan[p])
  BY RTyped
<1>p. job[p].pc = "begin_snapshot" /\ job[p].cmd = "reindex"
  BY <1>t DEF BeginSnapshot, At, PlanHolds, OwnPcs
<1>1. CASE clock = MaxSnap
  BY <1>t, <1>p, <1>1 DEF BeginSnapshot, Finish
<1>2. CASE clock # MaxSnap
  <2>1. /\ job' = [job EXCEPT ![p] = [job[p] EXCEPT !.snap = clock + 1, !.rev = tree,
                                                    !.pc = "write_manifest"]]
        /\ plan' = plan /\ clock' = clock + 1
    BY <1>t, <1>2 DEF BeginSnapshot
  <2>2. /\ job'[p] = [job[p] EXCEPT !.snap = clock + 1, !.rev = tree, !.pc = "write_manifest"]
        /\ \A q \in Proc : q # p => job'[q] = job[q]
    BY <1>t, <2>1
  <2>3. /\ job'[p].pc = "write_manifest" /\ job'[p].cmd = job[p].cmd
        /\ job'[p].cfg = job[p].cfg /\ job'[p].snap = clock + 1 /\ job'[p].rev = tree
        /\ job'[p].inventory = job[p].inventory /\ job'[p].todo = job[p].todo
        /\ job'[p].drafts = job[p].drafts
    BY <1>t, <2>2 DEF Job
  <2>4. clock + 1 \in Snap
    BY <1>2, TypedClock, BoundAssumption DEF Snap
  <2> QED
    BY <1>p, <2>1, <2>2, <2>3, <2>4 DEF BeginSnapshot
<1> QED
  BY <1>1, <1>2

LEMMA ReindexStarts ==
  ASSUME RTypeInv, NEW p \in Proc, StartReindex(p)
  PROVE  /\ \E s \in Snap, c \in Config :
              /\ IsLatestIndexed(s)
              /\ job'[p].snap = s /\ job'[p].cfg = c
              /\ plan'[p].base = s /\ plan'[p].prevFp = PreviousFingerprint(s, c)
         /\ job'[p].cmd = "reindex" /\ job'[p].pc = "list_baseline"
         /\ job'[p].drafts = NoDrafts /\ job[p].pc = "idle"
         /\ \A q \in Proc : q # p => job'[q] = job[q] /\ plan'[q] = plan[q]
         /\ UNCHANGED <<env, clock, db, disk, runs, raced>>
<1>t. job \in [Proc -> Job] /\ plan \in [Proc -> Plan]
  BY RTyped
<1>1. PICK s \in Snap, c \in Config :
        /\ IsLatestIndexed(s)
        /\ job' = [job EXCEPT ![p] = [NoJob EXCEPT !.cmd = "reindex", !.pc = "list_baseline",
                                                   !.snap = s, !.cfg = c]]
        /\ plan' = [plan EXCEPT ![p] = [NoPlan EXCEPT !.base = s,
                                          !.prevFp = PreviousFingerprint(s, c)]]
  BY DEF StartReindex
<1> DEFINE j == [NoJob EXCEPT !.cmd = "reindex", !.pc = "list_baseline", !.snap = s, !.cfg = c]
           pl == [NoPlan EXCEPT !.base = s, !.prevFp = PreviousFingerprint(s, c)]
<1>2. j.cmd = "reindex" /\ j.pc = "list_baseline" /\ j.snap = s /\ j.cfg = c
      /\ j.drafts = NoDrafts
  BY DEF NoJob
<1>3. pl.base = s /\ pl.prevFp = PreviousFingerprint(s, c)
  BY DEF NoPlan
<1>4. job'[p] = j /\ plan'[p] = pl
      /\ \A q \in Proc : q # p => job'[q] = job[q] /\ plan'[q] = plan[q]
  BY <1>t, <1>1
<1> HIDE DEF j, pl
<1>5. /\ IsLatestIndexed(s) /\ job'[p].snap = s /\ job'[p].cfg = c
      /\ plan'[p].base = s /\ plan'[p].prevFp = PreviousFingerprint(s, c)
      /\ job'[p].cmd = "reindex" /\ job'[p].pc = "list_baseline" /\ job'[p].drafts = NoDrafts
  BY <1>1, <1>2, <1>3, <1>4
<1>6. job[p].pc = "idle" /\ UNCHANGED <<env, clock, db, disk, runs, raced>>
  BY DEF StartReindex, At
<1> QED
  BY <1>4, <1>5, <1>6

LEMMA OwnStore ==
  ASSUME RTypeInv, NEW p \in Proc, StartReindex(p) \/ OwnStep(p) \/ CrashInClone(p)
  PROVE  /\ UNCHANGED <<tree, manifests, revision, extracted, fingerprint, files, provenance,
                        parserCache, chunkCache>>
         /\ \A q \in Proc : q # p => job'[q] = job[q] /\ plan'[q] = plan[q]
         /\ FilesKept /\ PayloadsKept
         /\ UpsertReindexed(p) \/ chunks' = chunks
<1>t. /\ job \in [Proc -> Job] /\ plan \in [Proc -> Plan] /\ TypeOK
  BY RTyped
<1>k. files' = files => FilesKept
  BY DEF FilesKept
<1>l. payloads' = payloads => PayloadsKept
  BY DEF PayloadsKept
<1>1. CASE StartReindex(p)
  BY <1>1, <1>k, <1>l, ReindexStarts DEF env, db, disk
<1>2. CASE Reads(p)
  BY <1>2, <1>k, <1>l, ReadsMove DEF env, db, disk
<1>3. CASE BeginSnapshot(p)
  BY <1>3, <1>k, <1>l, SnapshotTaken DEF env, db, disk
<1>4. CASE Diff(p)
  BY <1>4, <1>k, <1>l, Diffed DEF env, db, disk
<1>5. CASE CloneFile(p) \/ CloneFails(p)
  <2>1. /\ \A q \in Proc : q # p => job'[q] = job[q] /\ plan'[q] = plan[q]
        /\ UNCHANGED <<env, clock, db, manifests, parserCache, chunkCache, runs, raced>>
    BY <1>5, Cloned
  <2>f. PICK f \in Path : f \in plan[p].clones /\ ClonesOne(p, f)
    BY <1>5, Cloned
  <2>2. PICK layouts \in SUBSET {l \in Layouts(p, f) :
                                   payloads[<<plan[p].base, f, l>>] \in Content} :
          payloads' = Copied(p, f, layouts)
    BY <2>f DEF ClonesOne
  <2>3. \A id \in ChunkId : payloads'[id] = payloads[id] \/ payloads'[id] \in Content
    BY <2>2, CopiesAdd
  <2>4. PayloadsKept
    BY <2>3, SentinelAssumption DEF PayloadsKept
  <2> QED
    BY <1>k, <2>1, <2>4 DEF env, db
<1>6. CASE UpsertReindexed(p)
  BY <1>6, <1>k, <1>l, RowsReindexed DEF env, disk
<1>7. CASE CrashInClone(p)
  <2>1. \A q \in Proc : q # p => job'[q] = job[q] /\ plan'[q] = plan[q]
    BY <1>t, <1>7 DEF CrashInClone, Finish
  <2>2. PayloadsKept
    BY <1>t, <1>7, SentinelAssumption DEF CrashInClone, TypeOK, PayloadsKept
  <2> QED
    BY <1>7, <1>k, <2>1, <2>2 DEF CrashInClone, db
<1> QED
  BY <1>1, <1>2, <1>3, <1>4, <1>5, <1>6, <1>7 DEF OwnStep, Reads

\* Where a step of its own leaves a re-index, apart from taking a snapshot.
LEMMA OwnStays ==
  ASSUME RTypeInv, NEW p \in Proc, OwnStep(p) \/ CrashInClone(p), ~BeginSnapshot(p)
  PROVE  /\ job[p].cmd = "reindex" /\ job[p].pc \notin Creating \cup {"idle"}
         /\ clock' = clock
         /\ \/ job'[p] = NoJob
            \/ /\ job'[p].cmd = "reindex" /\ job'[p].pc \notin Creating \cup {"idle"}
               /\ job'[p].snap = job[p].snap
<1>t. /\ job \in [Proc -> Job] /\ plan \in [Proc -> Plan] /\ job[p] \in Job
      /\ PlanHolds(job[p], plan[p])
  BY RTyped
<1>1. CASE Reads(p)
  <2>1. job[p].pc \in {"list_baseline", "list_baseline_chunks", "resolve", "preview",
                       "check_extract", "record_run"}
    BY <1>1 DEF Reads, ListBaselineFiles, ListBaselineChunks, Resolve, Preview, CheckExtract,
       RecordRun, At
  <2>2. job[p].cmd = "reindex" /\ job[p].pc \notin Creating \cup {"idle"}
    BY <1>t, <2>1 DEF PlanHolds, OwnPcs, Planning, Creating
  <2>3. CASE OwnMoves(job[p], job'[p], plan[p], plan'[p])
    BY <1>1, <2>2, <2>3, ReadsMove DEF OwnMoves, Stays, Keeps, Creating
  <2> QED
    BY <1>1, <2>2, <2>3, ReadsMove
<1>2. CASE Diff(p)
  <2>1. job[p].pc = "diff" /\ job[p].cmd = "reindex"
    BY <1>t, <1>2 DEF Diff, At, PlanHolds, OwnPcs
  <2>2. Keeps(job[p], job'[p]) /\ job'[p].pc \in {"materialize", "clone"} /\ clock' = clock
    BY <1>2, Diffed
  <2> QED
    BY <2>1, <2>2 DEF Keeps, Creating
<1>3. CASE CloneFile(p) \/ CloneFails(p)
  <2>1. job[p].pc = "clone" /\ job[p].cmd = "reindex"
    BY <1>t, <1>3 DEF CloneFile, CloneFails, At, PlanHolds, OwnPcs
  <2>2. Keeps(job[p], job'[p]) /\ job'[p].pc \in {"materialize", "clone"} /\ clock' = clock
    BY <1>3, Cloned DEF ClonesOne
  <2> QED
    BY <2>1, <2>2 DEF Keeps, Creating
<1>4. CASE UpsertReindexed(p)
  BY <1>4, RowsReindexed DEF Keeps, Creating
<1>5. CASE CrashInClone(p)
  BY <1>t, <1>5 DEF CrashInClone, Finish, At, PlanHolds, OwnPcs, Creating
<1> QED
  BY <1>1, <1>2, <1>3, <1>4, <1>5 DEF OwnStep, Reads

\* A new id is larger than every other, and nothing of its snapshot exists.
LEMMA OwnedByCreating ==
  ASSUME TypeInv, SnapshotsOwned, NEW p \in Proc,
         \A q \in Proc : q # p => job'[q] = job[q],
         UNCHANGED <<revision, files, manifests>>,
         clock' = clock + 1, clock + 1 \in Snap,
         job'[p].snap = clock + 1, job'[p].pc = "write_manifest"
  PROVE  SnapshotsOwned'
<1>1. clock \in Nat
  BY BoundAssumption DEF TypeInv, TypeOK
<1>2. revision[clock + 1] = Null
  BY <1>1 DEF SnapshotsOwned, Snap
<1>3. \A q \in Proc : job[q].pc \in Creating => job[q].snap <= clock /\ job[q].snap \in Int
  BY DEF SnapshotsOwned, Owns, TypeInv, JobOK, JobHolds, Creating, Snap
<1>4. \A q \in Proc : Owns(q)'
  <2> TAKE q \in Proc
  <2>1. CASE q = p
    BY <1>1, <1>2, <2>1 DEF Owns, At, Creating
  <2>2. CASE q # p
    BY <1>1, <1>3, <2>2 DEF SnapshotsOwned, Owns, At
  <2> QED
    BY <2>1, <2>2
<1>5. \A s \in Snap : revision[s] # Null => s <= clock + 1
  BY <1>1 DEF SnapshotsOwned, Snap
<1>6. \A q, r \in Proc : q # r /\ job'[q].pc \in Creating /\ job'[r].pc \in Creating
                           => job'[q].snap # job'[r].snap
  BY <1>1, <1>3 DEF SnapshotsOwned
<1> QED
  BY <1>4, <1>5, <1>6 DEF SnapshotsOwned

LEMMA OwnedByReindex ==
  ASSUME RTypeInv, RRowInv, NEW p \in Proc,
         StartReindex(p) \/ OwnStep(p) \/ CrashInClone(p)
  PROVE  SnapshotsOwned'
<1>t. /\ TypeInv /\ SnapshotsOwned /\ job \in [Proc -> Job]
  BY RTyped DEF RRowInv, RowInv
<1>o. /\ \A q \in Proc : q # p => job'[q] = job[q]
      /\ UNCHANGED <<revision, files, manifests, extracted>>
  BY OwnStore
<1>r. job[p].pc \notin Creating \cup {"idle"} => revision[job[p].snap] # Null
  BY <1>t DEF SnapshotsOwned, Owns
<1>n. NoJob.pc = "idle"
  BY DEF NoJob
<1>1. CASE StartReindex(p)
  <2>1. job'[p].pc = "list_baseline" /\ clock' = clock /\ revision[job'[p].snap] # Null
    BY <1>1, ReindexStarts DEF IsLatestIndexed, Indexed, RRowInv
  <2> QED
    BY <1>t, <1>o, <2>1, OwnedByMoving DEF Creating
<1>2. CASE BeginSnapshot(p)
  <2>1. CASE job'[p] = NoJob
    <3>1. job'[p].pc = "idle" /\ clock' = clock
      BY <1>2, <1>n, <2>1, SnapshotTaken
    <3> QED
      BY <1>t, <1>o, <3>1, OwnedByMoving DEF Creating
  <2>2. CASE job'[p] # NoJob
    <3>1. /\ clock' = clock + 1 /\ clock + 1 \in Snap
          /\ job'[p].snap = clock + 1 /\ job'[p].pc = "write_manifest"
      BY <1>2, <2>2, SnapshotTaken
    <3> QED
      BY <1>t, <1>o, <3>1, OwnedByCreating
  <2> QED
    BY <2>1, <2>2
<1>3. CASE (OwnStep(p) \/ CrashInClone(p)) /\ ~BeginSnapshot(p)
  <2>1. /\ job[p].pc \notin Creating \cup {"idle"} /\ clock' = clock
        /\ \/ job'[p] = NoJob
           \/ job'[p].pc \notin Creating \cup {"idle"} /\ job'[p].snap = job[p].snap
    BY <1>3, OwnStays
  <2>2. job'[p].pc \notin Creating /\ (job'[p].pc # "idle" => revision[job'[p].snap] # Null)
    BY <1>r, <1>n, <2>1 DEF Creating
  <2> QED
    BY <1>t, <1>o, <2>1, <2>2, OwnedByMoving
<1> QED
  BY <1>1, <1>2, <1>3

LEMMA BackedWaiting ==
  ASSUME TypeInv, NEW q \in Proc, Backed(q), job'[q] = job[q], FilesKept, PayloadsKept
  PROVE  Backed(q)'
<1>1. CASE job[q].pc \notin Building
  BY <1>1 DEF Backed
<1>2. CASE job[q].pc \in Building
  <2>1. job[q].snap \in Snap
    BY <1>2 DEF TypeInv, JobOK, JobHolds, Building
  <2>2. \A f \in Path : job[q].drafts[f] # Null => IdOf(q, f) \in ChunkId
    BY <2>1, DraftLaidOut DEF TypeInv, TypeOK, Job
  <2>3. \A f \in Path : IdOf(q, f)' = IdOf(q, f)
    BY DEF IdOf
  <2> QED
    BY <1>2, <2>1, <2>2, <2>3 DEF Backed, FilesKept, PayloadsKept
<1> QED
  BY <1>1, <1>2

LEMMA CloneBackedWaiting ==
  ASSUME RTypeInv, NEW q \in Proc, CloneBacked(q), job'[q] = job[q], plan'[q] = plan[q],
         FilesKept, PayloadsKept
  PROVE  CloneBacked(q)'
<1>1. CASE ~(job[q].cmd = "reindex" /\ job[q].pc \in Rebuilding)
  BY <1>1 DEF CloneBacked
<1>2. CASE job[q].cmd = "reindex" /\ job[q].pc \in Rebuilding
  <2>1. job[q].snap \in Snap
    BY <1>2, RTyped DEF JobHolds, Rebuilding, Building
  <2>2. \A f \in Path, l \in Layout : <<job[q].snap, f, l>> \in ChunkId
    BY <2>1 DEF ChunkId
  <2>3. \A f \in Path : Layouts(q, f)' = Layouts(q, f) /\ Layouts(q, f) \subseteq Layout
    BY DEF Layouts
  <2>4. \A f \in Path : job'[q].inventory[f] # Absent =>
           files'[job'[q].snap][f] = job'[q].inventory[f]
    BY <1>2, <2>1 DEF CloneBacked, FilesKept
  <2>5. \A f \in Path : f \in plan'[q].reused =>
           \A l \in Layouts(q, f) : payloads'[<<job'[q].snap, f, l>>] # Null
    BY <1>2, <2>2, <2>3 DEF CloneBacked, PayloadsKept
  <2> QED
    BY <2>3, <2>4, <2>5 DEF CloneBacked
<1> QED
  BY <1>1, <1>2

\* A stage shared with the other commands keeps what the re-index has cloned.
LEMMA CloneBackedShared ==
  ASSUME RTypeInv, RRowInv, NEW p \in Proc, ProcStep(p), KeepPlan(p)
  PROVE  \A q \in Proc : CloneBacked(q)'
<1>t. /\ TypeInv /\ JobHolds(job[p]) /\ PlanHolds(job[p], plan[p]) /\ CloneBacked(p)
  BY RTyped DEF RRowInv
<1>k. FilesKept /\ PayloadsKept
  BY <1>t, StoreGrows DEF Next, ProcStep
<1>1. ASSUME NEW q \in Proc, q # p PROVE CloneBacked(q)'
  BY <1>t, <1>k, <1>1, OthersWait, PlanKept, CloneBackedWaiting DEF RRowInv
<1>2. CloneBacked(p)'
  <2>1. CASE ~(job'[p].cmd = "reindex" /\ job'[p].pc \in Rebuilding)
    BY <2>1 DEF CloneBacked
  <2>2. CASE job'[p].cmd = "reindex" /\ job'[p].pc \in Rebuilding
    <3>1. job[p].cmd = "reindex"
      BY <1>t, <2>2, StageOfOthers DEF PlanHolds
    <3>2. ~At(p, "idle") /\ ~At(p, "list_files") /\ job'[p] # NoJob
      BY <1>t, <2>2, <3>1 DEF PlanHolds, At, NoJob
    <3>3. StageMoves(job[p], job'[p])
      BY <1>t, <3>1, <3>2, StageOfReindex
    <3>4. job[p].pc \in Rebuilding /\ job'[p].snap = job[p].snap
          /\ job'[p].inventory = job[p].inventory /\ job'[p].pc # "idle"
      BY <2>2, <3>3 DEF StageMoves, Keeps, Rebuilding, Building
    <3>5. plan'[p] = plan[p] /\ job[p].snap \in Snap
      BY <1>t, <3>2, <3>4, PlanKept DEF JobHolds, At
    <3>6. \A f \in Path, l \in Layout : <<job[p].snap, f, l>> \in ChunkId
      BY <3>5 DEF ChunkId
    <3>7. \A f \in Path : Layouts(p, f)' = Layouts(p, f) /\ Layouts(p, f) \subseteq Layout
      BY <3>5 DEF Layouts
    <3>8. \A f \in Path : job'[p].inventory[f] # Absent =>
             files'[job'[p].snap][f] = job'[p].inventory[f]
      BY <1>t, <1>k, <3>1, <3>4, <3>5 DEF CloneBacked, FilesKept
    <3>9. \A f \in Path : f \in plan'[p].reused =>
             \A l \in Layouts(p, f) : payloads'[<<job'[p].snap, f, l>>] # Null
      BY <1>t, <1>k, <3>1, <3>4, <3>5, <3>6, <3>7 DEF CloneBacked, PayloadsKept
    <3> QED
      BY <3>7, <3>8, <3>9 DEF CloneBacked
  <2> QED
    BY <2>1, <2>2
<1> QED
  BY <1>1, <1>2

\* Its own steps add to it: a file counts as cloned once its payloads are copied.
LEMMA CloneBackedOwn ==
  ASSUME RTypeInv, RRowInv, NEW p \in Proc,
         StartReindex(p) \/ OwnStep(p) \/ CrashInClone(p)
  PROVE  CloneBacked(p)'
<1>t. /\ JobHolds(job[p]) /\ PlanHolds(job[p], plan[p]) /\ CloneBacked(p)
  BY RTyped DEF RRowInv
<1>k. FilesKept /\ PayloadsKept /\ files' = files
  BY OwnStore
<1>s. SUFFICES ASSUME job'[p].cmd = "reindex", job'[p].pc \in Rebuilding
               PROVE  CloneBacked(p)'
  BY DEF CloneBacked
<1>1. CASE Diff(p)
  <2>1. /\ job'[p].inventory = StoredInventory(p) /\ Keeps(job[p], job'[p])
        /\ plan'[p].reused = {}
    BY <1>1, Diffed
  <2>2. \A f \in Path : job'[p].inventory[f] # Absent =>
           files'[job'[p].snap][f] = job'[p].inventory[f]
    BY <1>k, <2>1 DEF StoredInventory, Keeps
  <2> QED
    BY <2>1, <2>2 DEF CloneBacked
<1>2. CASE CloneFile(p) \/ CloneFails(p)
  <2>1. job[p].pc = "clone" /\ job[p].cmd = "reindex"
    BY <1>t, <1>2 DEF CloneFile, CloneFails, At, PlanHolds, OwnPcs
  <2>f. PICK f \in Path : f \in plan[p].clones /\ ClonesOne(p, f)
    BY <1>2, Cloned
  <2>2. PICK layouts \in SUBSET {l \in Layouts(p, f) :
                                   payloads[<<plan[p].base, f, l>>] \in Content} :
          /\ payloads' = Copied(p, f, layouts)
          /\ \/ plan'[p].reused = plan[p].reused \cup {f} /\ layouts = Layouts(p, f)
             \/ plan'[p].reused = plan[p].reused
    BY <2>f DEF ClonesOne
  <2>3. Keeps(job[p], job'[p]) /\ job'[p].inventory = job[p].inventory
        /\ plan'[p].rows = plan[p].rows
    BY <2>f DEF ClonesOne
  <2>4. job[p].snap \in Snap
    BY <1>t, <2>1 DEF JobHolds
  <2>5. \A l \in layouts : payloads'[<<job[p].snap, f, l>>] # Null
    BY <2>2, <2>4, CopiesAdd, SentinelAssumption
  <2>6. \A g \in Path : Layouts(p, g)' = Layouts(p, g) /\ Layouts(p, g) \subseteq Layout
    BY <2>3 DEF Layouts
  <2>7. \A g \in Path, l \in Layout : <<job[p].snap, g, l>> \in ChunkId
    BY <2>4 DEF ChunkId
  <2>8. \A g \in Path : g \in plan[p].reused =>
           \A l \in Layouts(p, g) : payloads'[<<job[p].snap, g, l>>] # Null
    BY <1>t, <1>k, <2>1, <2>6, <2>7 DEF CloneBacked, Rebuilding, PayloadsKept
  <2>9. \A g \in Path : g \in plan'[p].reused =>
           \A l \in Layouts(p, g) : payloads'[<<job'[p].snap, g, l>>] # Null
    BY <2>2, <2>3, <2>5, <2>8 DEF Keeps
  <2>10. \A g \in Path : job'[p].inventory[g] # Absent =>
            files'[job'[p].snap][g] = job'[p].inventory[g]
    BY <1>t, <1>k, <2>1, <2>3 DEF CloneBacked, Rebuilding, Keeps
  <2> QED
    BY <2>6, <2>9, <2>10 DEF CloneBacked
<1>3. CASE UpsertReindexed(p)
  <2>1. /\ job[p].cmd = "reindex" /\ job[p].pc \in Rebuilding
        /\ Keeps(job[p], job'[p]) /\ job'[p].inventory = job[p].inventory
        /\ plan' = plan /\ payloads' = payloads
    BY <1>3, RowsReindexed DEF Rebuilding, Building, disk
  <2>2. \A f \in Path : Layouts(p, f)' = Layouts(p, f)
    BY <2>1 DEF Layouts
  <2> QED
    BY <1>t, <1>k, <2>1, <2>2 DEF CloneBacked, Keeps
<1>4. CASE StartReindex(p)
  BY <1>s, <1>4, ReindexStarts DEF Rebuilding, Building
<1>5. CASE Reads(p)
  BY <1>s, <1>5, ReadsMove DEF OwnMoves, NoJob, Rebuilding, Building
<1>6. CASE BeginSnapshot(p)
  BY <1>s, <1>6, SnapshotTaken DEF NoJob, Rebuilding, Building
<1>7. CASE CrashInClone(p)
  <2>1. job'[p] = NoJob
    BY <1>7, RTyped DEF CrashInClone, Finish
  <2> QED
    BY <1>s, <2>1 DEF NoJob
<1> QED
  BY <1>1, <1>2, <1>3, <1>4, <1>5, <1>6, <1>7 DEF OwnStep, Reads

LEMMA BackedOwn ==
  ASSUME RTypeInv, RRowInv, NEW p \in Proc,
         StartReindex(p) \/ OwnStep(p) \/ CrashInClone(p)
  PROVE  Backed(p)'
<1>t. /\ JobHolds(job[p]) /\ PlanHolds(job[p], plan[p]) /\ Backed(p)
  BY RTyped DEF RRowInv, RowInv, BuildBacked
<1>c. CloneBacked(p)'
  BY CloneBackedOwn
<1>1. CASE job'[p].pc \notin Building
  BY <1>1, BackedUnlessBuilding
<1>2. CASE UpsertReindexed(p)
  <2>1. /\ job[p].pc \in Building
        /\ Keeps(job[p], job'[p]) /\ job'[p].inventory = job[p].inventory
        /\ job'[p].todo = job[p].todo /\ job'[p].drafts = job[p].drafts
        /\ files' = files /\ payloads' = payloads
    BY <1>2, RowsReindexed DEF Building, disk
  <2>2. \A f \in Path : IdOf(p, f)' = IdOf(p, f)
    BY <2>1 DEF IdOf, Keeps
  <2> QED
    BY <1>t, <2>1, <2>2 DEF Backed, Keeps
<1>3. CASE Diff(p) \/ CloneFile(p) \/ CloneFails(p)
  <2>1. job[p].pc \in {"diff", "clone"} /\ job[p].cmd = "reindex"
    BY <1>t, <1>3 DEF Diff, CloneFile, CloneFails, At, PlanHolds, OwnPcs
  <2>2. job[p].drafts = NoDrafts
    BY <1>t, <2>1 DEF PlanHolds, Building, Ending
  <2>3. job'[p].drafts = NoDrafts /\ job'[p].cmd = "reindex"
    BY <1>3, <2>1, <2>2, Diffed, Cloned DEF ClonesOne, Keeps
  <2> QED
    BY <1>c, <2>3 DEF CloneBacked, Backed, Rebuilding, NoDrafts
<1>4. CASE StartReindex(p) \/ Reads(p) \/ BeginSnapshot(p) \/ CrashInClone(p)
  <2>1. CASE StartReindex(p)
    BY <2>1, ReindexStarts, BackedUnlessBuilding DEF Building
  <2>2. CASE Reads(p)
    BY <2>2, ReadsMove, BackedUnlessBuilding DEF OwnMoves, NoJob, Building
  <2>3. CASE BeginSnapshot(p)
    BY <2>3, SnapshotTaken, BackedUnlessBuilding DEF NoJob, Building
  <2>4. CASE CrashInClone(p)
    <3>1. job'[p] = NoJob
      BY <2>4, RTyped DEF CrashInClone, Finish
    <3> QED
      BY <3>1, BackedUnlessBuilding DEF NoJob, Building
  <2> QED
    BY <1>4, <2>1, <2>2, <2>3, <2>4
<1> QED
  BY <1>2, <1>3, <1>4 DEF OwnStep, Reads

\* A row that stays keeps its payload and its inventory row.
LEMMA RowStays ==
  ASSUME TypeInv, RowInv, FilesKept, PayloadsKept, NEW id \in ChunkId,
         chunks'[id] = chunks[id], chunks[id] # Null
  PROVE  payloads'[id] # Null /\ files'[id[1]][id[2]] = chunks'[id].hash
<1>1. chunks[id].hash # Absent
  BY SentinelAssumption DEF TypeInv, TypeOK, ChunkRow
<1>2. id[1] \in Snap /\ id[2] \in Path
  BY DEF ChunkId
<1> QED
  BY <1>1, <1>2 DEF RowInv, RowHasPayload, RowMatchesInventory, FilesKept, PayloadsKept

LEMMA RowsByReindex ==
  ASSUME RTypeInv, RRowInv, NEW p \in Proc,
         StartReindex(p) \/ OwnStep(p) \/ CrashInClone(p)
  PROVE  (RowHasPayload /\ RowMatchesInventory)'
<1>t. /\ TypeInv /\ JobHolds(job[p]) /\ PlanHolds(job[p], plan[p])
      /\ RowInv /\ Backed(p) /\ CloneBacked(p)
  BY RTyped DEF RRowInv, RowInv, BuildBacked
<1>k. FilesKept /\ PayloadsKept
  BY OwnStore
<1>1. CASE chunks' = chunks
  BY <1>t, <1>k, <1>1, RowStays DEF RowHasPayload, RowMatchesInventory
<1>2. CASE UpsertReindexed(p)
  <2>1. /\ job[p].pc = "materialize" /\ job[p].cmd = "reindex" /\ job[p].todo = {}
        /\ files' = files /\ payloads' = payloads
    BY <1>2, RowsReindexed DEF disk
  <2>2. ASSUME NEW id \in ChunkId, chunks'[id] # Null
        PROVE  payloads'[id] # Null /\ files'[id[1]][id[2]] = chunks'[id].hash
    <3>1. CASE chunks'[id] = chunks[id]
      BY <1>t, <1>k, <2>2, <3>1, RowStays
    <3>2. CASE chunks'[id] # chunks[id]
      <4>1. /\ IsClone(p, id) \/ (job[p].drafts[id[2]] # Null /\ id = IdOf(p, id[2]))
            /\ chunks'[id] \in ChunkRow
            /\ chunks'[id].hash = job[p].inventory[id[2]]
        BY <1>2, <3>2, RowsReindexed
      <4>2. job[p].inventory[id[2]] # Absent
        BY <4>1, SentinelAssumption DEF ChunkRow
      <4>3. id = <<id[1], id[2], id[3]>> /\ id[2] \in Path
        BY DEF ChunkId
      <4>4. CASE IsClone(p, id)
        BY <1>t, <2>1, <4>1, <4>2, <4>3, <4>4
        DEF IsClone, CloneBacked, Rebuilding, Building
      <4>5. CASE job[p].drafts[id[2]] # Null /\ id = IdOf(p, id[2])
        <5>1. id[1] = job[p].snap
          BY <4>5 DEF IdOf
        <5> QED
          BY <1>t, <2>1, <4>1, <4>2, <4>3, <4>5, <5>1 DEF Backed, Building
      <4> QED
        BY <4>1, <4>4, <4>5
    <3> QED
      BY <3>1, <3>2
  <2> QED
    BY <2>2 DEF RowHasPayload, RowMatchesInventory
<1> QED
  BY <1>1, <1>2, OwnStore

LEMMA ExtractedHaveRevisions ==
  ASSUME RTypeInv, RRowInv, NEW p \in Proc, ProcStep(p)
  PROVE  \A s \in Snap : extracted'[s] => revision'[s] # Null
<1>t. /\ TypeInv /\ TypeOK /\ RowInv /\ JobHolds(job[p])
      /\ \A s \in Snap : extracted[s] => revision[s] # Null
  BY RTyped DEF RRowInv
<1>k. \A s \in Snap : revision[s] # Null => revision'[s] # Null
  BY <1>t, RevisionsKept
<1>1. CASE MarkExtracted(p)
  <2>1. \A s \in Snap : extracted'[s] => s = job[p].snap \/ extracted[s]
    BY <1>t, <1>1 DEF MarkExtracted, TypeOK
  <2>2. revision[job[p].snap] # Null /\ job[p].snap \in Snap
    BY <1>t, <1>1 DEF MarkExtracted, RowInv, SnapshotsOwned, Owns, At, Creating, JobHolds
  <2> QED
    BY <1>t, <1>k, <2>1, <2>2
<1>2. CASE ~MarkExtracted(p)
  <2>1. extracted' = extracted
    BY <1>2 DEF ProcStep, StartSnapshot, StartExtract, StartBuild, StageStep, SharedStep,
        FaultStep,
       WriteManifest, InsertSnapshot, Scan, InsertFiles, ListFiles, ReuseDrafts,
       GenerateDrafts, ReadFails, WritePayload, UpsertChunks, MarkChunks,
       RecordProvenance, Crash,
       SnapshotInsertFails, ParserRaises, CrashInPayload, CrashInCache, db
  <2> QED
    BY <1>t, <1>k, <2>1
<1> QED
  BY <1>1, <1>2

LEMMA RRowInvInit == ReindexInit => RRowInv
<1>1. SUFFICES ASSUME ReindexInit PROVE RRowInv
  OBVIOUS
<1>2. RowInv
  BY <1>1, RowInvInit DEF ReindexInit
<1>3. \A p \in Proc : CloneBacked(p)
  BY <1>1 DEF ReindexInit, Init, CloneBacked, NoJob
<1> QED
  BY <1>1, <1>2, <1>3 DEF RRowInv, ReindexInit, Init

LEMMA RRowInvEdit ==
  ASSUME RRowInv, NEW f \in Path, NEW c \in Content \cup {Absent}, EditBesideReindex(f, c)
  PROVE  RRowInv'
<1>1. UNCHANGED <<clock, manifests, revision, extracted, files, chunks, payloads, job, plan>>
  BY DEF EditBesideReindex, Edit, db, disk
<1>2. RowInv'
  BY <1>1 DEF RRowInv, RowInv, SnapshotsOwned, Owns, BuildBacked, Backed, RowHasPayload,
     RowMatchesInventory, At, IdOf
<1>3. \A p \in Proc : CloneBacked(p)'
  BY <1>1 DEF RRowInv, CloneBacked, Layouts
<1> QED
  BY <1>1, <1>2, <1>3 DEF RRowInv

LEMMA RRowInvStutter == ASSUME RRowInv, UNCHANGED reindexVars PROVE RRowInv'
<1>1. UNCHANGED <<clock, manifests, revision, extracted, files, chunks, payloads, job, plan>>
  BY DEF reindexVars, vars
<1>2. RowInv'
  BY <1>1 DEF RRowInv, RowInv, SnapshotsOwned, Owns, BuildBacked, Backed, RowHasPayload,
     RowMatchesInventory, At, IdOf
<1>3. \A p \in Proc : CloneBacked(p)'
  BY <1>1 DEF RRowInv, CloneBacked, Layouts
<1> QED
  BY <1>1, <1>2, <1>3 DEF RRowInv

LEMMA RRowInvStep == RTypeInv /\ RRowInv /\ [ReindexNext]_reindexVars => RRowInv'
<1>1. ASSUME RTypeInv, RRowInv, NEW p \in Proc, ProcStep(p), KeepPlan(p) PROVE RRowInv'
  <2>1. RowInv'
    BY <1>1, RTyped, OwnedStep, BackedStep, RowsStep DEF RRowInv, RowInv
  <2> QED
    BY <1>1, <2>1, CloneBackedShared, ExtractedHaveRevisions DEF RRowInv
<1>2. ASSUME RTypeInv, RRowInv, NEW p \in Proc,
             StartReindex(p) \/ OwnStep(p) \/ CrashInClone(p)
      PROVE  RRowInv'
  <2>t. TypeInv /\ (\A q \in Proc : Backed(q) /\ CloneBacked(q))
    BY <1>2, RTyped DEF RRowInv, RowInv, BuildBacked
  <2>o. /\ \A q \in Proc : q # p => job'[q] = job[q] /\ plan'[q] = plan[q]
        /\ FilesKept /\ PayloadsKept /\ UNCHANGED <<revision, extracted>>
    BY <1>2, OwnStore
  <2>1. BuildBacked'
    BY <1>2, <2>t, <2>o, BackedWaiting, BackedOwn DEF BuildBacked
  <2>2. \A q \in Proc : CloneBacked(q)'
    BY <1>2, <2>t, <2>o, CloneBackedWaiting, CloneBackedOwn
  <2>3. RowInv'
    BY <1>2, <2>1, OwnedByReindex, RowsByReindex DEF RowInv
  <2> QED
    BY <1>2, <2>o, <2>2, <2>3 DEF RRowInv
<1>3. ASSUME RTypeInv, RRowInv, NEW p \in Proc, RStep(p) PROVE RRowInv'
  BY <1>1, <1>2, <1>3, SharedIsProc DEF RStep
<1> QED
  BY <1>3, RRowInvEdit, RRowInvStutter DEF ReindexNext, RStep

LEMMA RRowInvCorrect == ReindexSpec => [](RTypeInv /\ RRowInv)
BY RTypeInvInit, RTypeInvStep, RRowInvInit, RRowInvStep, PTL DEF ReindexSpec

\* Also beside re-indexes, which clone payload files from one snapshot to
\* another, no chunk row is left without its payload file.
THEOREM ReindexedRowsHavePayloads == ReindexSpec => []RowHasPayload
<1>1. RRowInv => RowHasPayload
  BY DEF RRowInv, RowInv
<1> QED
  BY <1>1, RRowInvCorrect, PTL

\* A cloned row agrees with the inventory of the snapshot it was cloned into.
THEOREM ReindexedRowsMatchInventory == ReindexSpec => []RowMatchesInventory
<1>1. RRowInv => RowMatchesInventory
  BY DEF RRowInv, RowInv
<1> QED
  BY <1>1, RRowInvCorrect, PTL

\* The snapshots that re-indexes take have their manifests too.
THEOREM ReindexedSnapshotsHaveManifests == ReindexSpec => []SnapshotHasManifest
<1>1. RRowInv => SnapshotHasManifest
  BY DEF RRowInv, RowInv, SnapshotsOwned, SnapshotHasManifest
<1> QED
  BY <1>1, RRowInvCorrect, PTL

\* No step beside or of a re-index changes a recorded content hash.
THEOREM ReindexFreezesInventory == ReindexSpec => InventoryFrozen
<1>1. ASSUME RTypeInv, [ReindexNext]_reindexVars PROVE FilesKept
  <2>1. CASE UNCHANGED reindexVars
    BY <2>1 DEF reindexVars, vars, FilesKept
  <2>2. ASSUME NEW f \in Path, NEW c \in Content \cup {Absent}, EditBesideReindex(f, c)
        PROVE  FilesKept
    BY <2>2 DEF EditBesideReindex, Edit, db, FilesKept
  <2>3. ASSUME NEW p \in Proc, RStep(p) PROVE FilesKept
    <3>1. CASE (StartOrFault(p) \/ PipelineStep(p)) /\ KeepPlan(p)
      <4>1. ProcStep(p) /\ TypeInv
        BY <1>1, <3>1, SharedIsProc, RTyped
      <4> QED
        BY <4>1, StoreGrows DEF Next, ProcStep
    <3> QED
      BY <1>1, <2>3, <3>1, OwnStore DEF RStep
  <2> QED
    BY <1>1, <2>1, <2>2, <2>3 DEF ReindexNext, RStep
<1>2. RTypeInv /\ [ReindexNext]_reindexVars
        => [\A s \in Snap, f \in Path :
              files[s][f] # Absent => files'[s][f] = files[s][f]]_vars
  BY <1>1 DEF FilesKept
<1> QED
  BY <1>2, RTypeInvInit, RTypeInvStep, PTL DEF ReindexSpec, InventoryFrozen

-----------------------------------------------------------------------------
\* What a re-index leaves behind.

\* The positions of a re-index that has decided what it is for; of one with a
\* snapshot of its own, and of those the ones past its scan and its extraction.
Deciding == Planning \cup {"preview"}
Scanned == {"insert_files", "mark_extracted", "diff"} \cup Rebuilding
OwnSnapshot == Creating \cup {"check_extract", "scan"} \cup Scanned

HasOwnSnapshot(j, pl) ==
    j.pc \in OwnSnapshot \/ (j.pc \in Ending /\ pl.reason # "no_change")
HasScanned(j, pl) == j.pc \in Scanned \/ (j.pc \in Ending /\ pl.reason # "no_change")
HasExtracted(j, pl) ==
    j.pc \in Rebuilding \cup {"diff"} \/ (j.pc \in Ending /\ pl.reason # "no_change")

Drafted(j) == {f \in Path : j.drafts[f] # Null}

\* Every file of the inventory is in exactly one place: to be cloned, cloned, or
\* to be built or built.
Accounts(j, pl) ==
    /\ Present(j.inventory) = pl.clones \cup pl.reused \cup j.todo \cup Drafted(j)
    /\ pl.clones \cap pl.reused = {}
    /\ (pl.clones \cup pl.reused) \cap (j.todo \cup Drafted(j)) = {}
    /\ \A f \in pl.clones : pl.files[f] = j.inventory[f]
    /\ j.pc \in {"mark_chunks"} \cup Ending => pl.clones = {} /\ j.todo = {}

\* The newest snapshots, from s on, are of the tree t; so are those on their way.
NewestAre(s, t) ==
    /\ \A r \in Snap : r >= s /\ revision[r] # Null => revision[r] = t
    /\ \A q \in Proc : job[q].pc \in Creating /\ job[q].snap >= s => job[q].rev = t

\* While no edit has come in between, what a re-index has planned is still so.
PlanSound(p) ==
    LET j == job[p]
        pl == plan[p] IN
    j.cmd = "reindex" =>
      /\ Indexed(pl.base)
      /\ j.pc \in Deciding => j.snap = pl.base
      /\ j.pc # "list_baseline" => pl.files = files[pl.base]
      /\ j.pc \notin Planning => j.rev = tree
      /\ j.pc \notin Deciding =>
           pl.reason = Classify(tree # pl.files, j.cfg # pl.prevFp)
      /\ j.pc \in OwnSnapshot \cup {"begin_snapshot"} => pl.reason # "no_change"
      /\ HasOwnSnapshot(j, pl) => NewestAre(j.snap, tree)
      /\ HasScanned(j, pl) => j.inventory = tree
      /\ HasExtracted(j, pl) => extracted[j.snap]
      /\ j.pc \in Rebuilding \/ (j.pc \in Ending /\ pl.reason # "no_change") => Accounts(j, pl)
      /\ j.pc \in Ending =>
           IF pl.reason = "no_change"
           THEN j.snap = pl.base /\ pl.reused = Present(tree) /\ j.drafts = NoDrafts
           ELSE fingerprint[j.snap] # Null

Accounted(r) ==
    /\ r.reused + r.rebuilt = Cardinality(Present(files[r.result]))
    /\ r.removed = Cardinality(Present(files[r.prev]) \ Present(files[r.result]))
    /\ r.resultRev = files[r.result]

Reasoned(r) ==
    /\ r.reason \in {"source_changed", "source_and_config_changed"}
         <=> files[r.prev] # files[r.result]
    /\ r.reason \in {"config_changed", "source_and_config_changed"} <=> r.prevFp # r.fp

RunsSound ==
    \A r \in runs : /\ extracted[r.prev] /\ extracted[r.result]
                    /\ Accounted(r) /\ Reasoned(r)

\* What a step of any process leaves as it is, or only adds to.
Advance ==
    /\ tree' = tree
    /\ \A s \in Snap : revision[s] # Null => revision'[s] = revision[s]
    /\ \A s \in Snap : extracted[s] => extracted'[s] /\ files'[s] = files[s]
    /\ \A s \in Snap : fingerprint[s] # Null => fingerprint'[s] # Null
    /\ \A id \in ChunkId : chunks[id] # Null => chunks'[id] # Null
    /\ \A s \in Snap :
         \/ revision'[s] = revision[s]
         \/ \E q \in Proc : /\ job[q].pc \in Creating /\ job[q].snap = s
                            /\ revision'[s] = job[q].rev
    /\ \A q \in Proc : job'[q].pc \in Creating =>
         \/ job'[q].rev = tree
         \/ /\ job[q].pc \in Creating
            /\ job'[q].snap = job[q].snap /\ job'[q].rev = job[q].rev

UndisturbedInv == QuietInv /\ (\A p \in Proc : PlanSound(p)) /\ RunsSound

-----------------------------------------------------------------------------
\* What a re-index finds at its end, if no edit came in between.

LEMMA RowIsValue == \A r \in ChunkRow : r # Null
BY SentinelAssumption

\* A stage adds rows, marks and fingerprints; an extracted inventory stays.
LEMMA SharedStores ==
  ASSUME TypeInv, RowInv, QuietInv, NEW p \in Proc, ProcStep(p)
  PROVE  /\ tree' = tree
         /\ \A s \in Snap : revision[s] # Null => revision'[s] = revision[s]
         /\ \A s \in Snap : extracted[s] => extracted'[s] /\ files'[s] = files[s]
         /\ \A s \in Snap : fingerprint[s] # Null => fingerprint'[s] # Null
         /\ \A id \in ChunkId : chunks[id] # Null => chunks'[id] # Null
<1>t. TypeOK /\ Validated /\ JobHolds(job[p]) /\ job[p] \in Job
  BY DEF TypeInv, TypeOK, JobOK, QuietInv
<1>1. tree' = tree /\ \A s \in Snap : revision[s] # Null => revision'[s] = revision[s]
  BY <1>t, RevisionsKept
<1>2. \A s \in Snap : extracted[s] => files'[s] = files[s]
  BY <1>t, FilesValid DEF QuietInv, InventoryMatchesRevision
<1>3. \A s \in Snap : extracted[s] => extracted'[s]
  <2>1. CASE MarkExtracted(p)
    BY <1>t, <2>1 DEF MarkExtracted, TypeOK
  <2>2. CASE ~MarkExtracted(p)
    BY <2>2 DEF ProcStep, StartSnapshot, StartExtract, StartBuild, StageStep, SharedStep,
        FaultStep,
       WriteManifest, InsertSnapshot, Scan, InsertFiles, ListFiles, ReuseDrafts,
       GenerateDrafts, ReadFails, WritePayload, UpsertChunks, MarkChunks,
       RecordProvenance, Crash,
       SnapshotInsertFails, ParserRaises, CrashInPayload, CrashInCache, db
  <2> QED
    BY <2>1, <2>2
<1>4. \A s \in Snap : fingerprint[s] # Null => fingerprint'[s] # Null
  <2>1. CASE MarkChunks(p)
    <3>1. job[p].cfg # Null
      BY <1>t, <2>1, SentinelAssumption DEF MarkChunks, At, JobHolds, Building
    <3> QED
      BY <1>t, <2>1, <3>1 DEF MarkChunks, TypeOK
  <2>2. CASE ~MarkChunks(p)
    BY <2>2 DEF ProcStep, StartSnapshot, StartExtract, StartBuild, StageStep, SharedStep,
        FaultStep,
       WriteManifest, InsertSnapshot, Scan, InsertFiles, MarkExtracted, ListFiles, ReuseDrafts,
       GenerateDrafts, ReadFails, WritePayload, UpsertChunks,
       RecordProvenance, Crash,
       SnapshotInsertFails, ParserRaises, CrashInPayload, CrashInCache, db
  <2> QED
    BY <2>1, <2>2
<1>5. \A id \in ChunkId : chunks[id] # Null => chunks'[id] # Null
  <2>1. CASE UpsertChunks(p)
    <3>1. \A f \in Path : job[p].drafts[f] # Null => job[p].inventory[f] \in Content
      BY <1>t, <2>1 DEF UpsertChunks, JobHolds, At, Building, Job, Tree
    <3>2. job[p].cfg \in Config
      BY <1>t, <2>1 DEF UpsertChunks, JobHolds, At, Building
    <3>3. \A f \in Path : job[p].drafts[f] # Null =>
            [hash |-> job[p].inventory[f], cfg |-> job[p].cfg] \in ChunkRow
      BY <3>1, <3>2 DEF ChunkRow
    <3>4. \A id \in ChunkId : id[2] \in Path
      BY DEF ChunkId
    <3> QED
      BY <2>1, <3>3, <3>4, RowIsValue DEF UpsertChunks, UpsertRows
  <2>2. CASE ~UpsertChunks(p)
    BY <2>2 DEF ProcStep, StartSnapshot, StartExtract, StartBuild, StageStep, SharedStep,
        FaultStep,
       WriteManifest, InsertSnapshot, Scan, InsertFiles, MarkExtracted, ListFiles, ReuseDrafts,
       GenerateDrafts, ReadFails, WritePayload, MarkChunks,
       RecordProvenance, Crash,
       SnapshotInsertFails, ParserRaises, CrashInPayload, CrashInCache, db
  <2> QED
    BY <2>1, <2>2
<1> QED
  BY <1>1, <1>2, <1>3, <1>4, <1>5

\* A process with a snapshot under way has its tree as it was when it began.
LEMMA CreatingMoves ==
  ASSUME TypeInv, NEW p \in Proc, ProcStep(p), job'[p].pc \in Creating
  PROVE  \/ job'[p].rev = tree
         \/ /\ job[p].pc \in Creating
            /\ job'[p].snap = job[p].snap /\ job'[p].rev = job[p].rev
<1>t. TypeOK /\ job \in [Proc -> Job] /\ job[p] \in Job
  BY DEF TypeInv, TypeOK
<1>n. NoJob.pc = "idle"
  BY DEF NoJob
<1>1. CASE StartSnapshot(p)
  <2> DEFINE j == [NoJob EXCEPT !.cmd = "snapshot", !.pc = "write_manifest",
                                !.snap = clock + 1, !.rev = tree]
  <2>1. job' = [job EXCEPT ![p] = j] /\ j.rev = tree
    BY <1>1 DEF StartSnapshot, NoJob
  <2> HIDE DEF j
  <2> QED
    BY <1>t, <2>1
<1>2. CASE StartExtract(p)
  BY <1>t, <1>2 DEF StartExtract, NoJob, Creating
<1>3. CASE StartBuild(p)
  BY <1>t, <1>3 DEF StartBuild, NoJob, Creating
<1>4. CASE Finish(p)
  BY <1>t, <1>n, <1>4 DEF Finish, Creating
<1>5. CASE WriteManifest(p)
  BY <1>t, <1>5 DEF WriteManifest, Goto, Job, At, Creating
<1>6. CASE InsertFiles(p) \/ UpsertChunks(p)
  BY <1>t, <1>6 DEF InsertFiles, UpsertChunks, Goto, Job, Creating
<1>7. CASE WritePayload(p)
  BY <1>t, <1>7 DEF WritePayload, Job, Creating
<1>8. CASE InsertSnapshot(p) \/ MarkExtracted(p) \/ MarkChunks(p)
  BY <1>t, <1>n, <1>8 DEF InsertSnapshot, MarkExtracted, MarkChunks, Goto, AfterMark, EndStage, Job,
     Creating
<1>9. CASE Scan(p)
  BY <1>t, <1>9 DEF Scan, Job, Creating
<1>10. CASE ListFiles(p) /\ ~Finish(p)
  <2> DEFINE j == [job[p] EXCEPT !.inventory = files[job[p].snap],
                                !.todo = {f \in Path : files[job[p].snap][f] # Absent},
                                !.pc = "materialize"]
  <2>1. job' = [job EXCEPT ![p] = j]
    BY <1>t, <1>10 DEF ListFiles
  <2>2. j.pc = "materialize"
    BY <1>t DEF Job
  <2> HIDE DEF j
  <2> QED
    BY <1>t, <2>1, <2>2 DEF Creating
<1>11. CASE ReuseDrafts(p) \/ GenerateDrafts(p) \/ ParserRaises(p)
  <2>1. \E f \in Path : \E d : TakeDrafts(p, f, d)
    BY <1>11 DEF ReuseDrafts, GenerateDrafts, ParserRaises, FallBack
  <2>2. PICK f \in Path : \E d : TakeDrafts(p, f, d)
    BY <2>1
  <2>d. PICK d : TakeDrafts(p, f, d)
    BY <2>2
  <2> DEFINE j == [job[p] EXCEPT !.drafts[f] = d, !.pc = "write_payload"]
  <2>3. job' = [job EXCEPT ![p] = j]
    BY <1>t, <2>d DEF TakeDrafts
  <2>4. j.pc = "write_payload"
    BY <1>t DEF Job
  <2> HIDE DEF j
  <2> QED
    BY <1>t, <2>3, <2>4 DEF Creating
<1> QED
  BY <1>1, <1>2, <1>3, <1>4, <1>5, <1>6, <1>7, <1>8, <1>9, <1>10, <1>11
  DEF ProcStep, StageStep, SharedStep, FaultStep, ReadFails, RecordProvenance, Crash,
      SnapshotInsertFails, CrashInPayload, CrashInCache

LEMMA RevisionWritten ==
  ASSUME TypeInv, NEW p \in Proc, ProcStep(p), NEW s \in Snap
  PROVE  \/ revision'[s] = revision[s]
         \/ /\ job[p].pc \in Creating /\ job[p].snap = s
            /\ revision'[s] = job[p].rev
<1>1. CASE InsertSnapshot(p)
  BY <1>1 DEF InsertSnapshot, TypeInv, TypeOK, At, Creating
<1>2. CASE ~InsertSnapshot(p)
  BY <1>2 DEF ProcStep, StartSnapshot, StartExtract, StartBuild, StageStep, SharedStep, FaultStep,
     WriteManifest, Scan, InsertFiles, MarkExtracted, ListFiles, ReuseDrafts,
     GenerateDrafts, ReadFails, WritePayload, UpsertChunks, MarkChunks,
     RecordProvenance, Crash,
     SnapshotInsertFails, ParserRaises, CrashInPayload, CrashInCache, db
<1> QED
  BY <1>1, <1>2

LEMMA SharedAdvances ==
  ASSUME RTypeInv, RRowInv, QuietInv, NEW p \in Proc, ProcStep(p)
  PROVE  Advance
<1>t. TypeInv /\ RowInv
  BY RTyped DEF RRowInv
<1>1. \A q \in Proc : job'[q].pc \in Creating =>
        \/ job'[q].rev = tree
        \/ /\ job[q].pc \in Creating
           /\ job'[q].snap = job[q].snap /\ job'[q].rev = job[q].rev
  BY <1>t, OthersWait, CreatingMoves
<1>2. \A s \in Snap :
        \/ revision'[s] = revision[s]
        \/ \E q \in Proc : /\ job[q].pc \in Creating /\ job[q].snap = s
                           /\ revision'[s] = job[q].rev
  BY <1>t, RevisionWritten
<1> QED
  BY <1>t, <1>1, <1>2, SharedStores DEF Advance

LEMMA OwnAdvances ==
  ASSUME RTypeInv, NEW p \in Proc, StartReindex(p) \/ OwnStep(p) \/ CrashInClone(p)
  PROVE  Advance
<1>o. /\ UNCHANGED <<tree, revision, extracted, fingerprint, files>>
      /\ \A q \in Proc : q # p => job'[q] = job[q]
      /\ UpsertReindexed(p) \/ chunks' = chunks
  BY OwnStore
<1>1. \A id \in ChunkId : chunks[id] # Null => chunks'[id] # Null
  BY <1>o, RowsReindexed, RowIsValue
<1>2. job'[p].pc \in Creating => job'[p].rev = tree
  <2>1. CASE StartReindex(p)
    BY <2>1, ReindexStarts DEF Creating
  <2>2. CASE BeginSnapshot(p)
    BY <2>2, SnapshotTaken DEF NoJob, Creating
  <2>3. CASE (OwnStep(p) \/ CrashInClone(p)) /\ ~BeginSnapshot(p)
    BY <2>3, OwnStays DEF NoJob, Creating
  <2> QED
    BY <2>1, <2>2, <2>3
<1> QED
  BY <1>o, <1>1, <1>2 DEF Advance
-----------------------------------------------------------------------------
\* What a re-index knows survives the steps of others.

LEMMA PlanCarries ==
  ASSUME RTypeInv, Advance, NEW p \in Proc, PlanSound(p), job[p].cmd = "reindex"
  PROVE  /\ extracted'[plan[p].base] /\ extracted[plan[p].base]
         /\ \/ fingerprint'[plan[p].base] # Null
            \/ \E f \in Path, l \in Layout : chunks'[<<plan[p].base, f, l>>] # Null
         /\ files'[plan[p].base] = files[plan[p].base]
         /\ HasOwnSnapshot(job[p], plan[p]) =>
              /\ \A r \in Snap : r >= job[p].snap /\ revision'[r] # Null => revision'[r] = tree
              /\ \A q \in Proc : job'[q].pc \in Creating /\ job'[q].snap >= job[p].snap
                                   => job'[q].rev = tree
         /\ HasExtracted(job[p], plan[p]) => extracted'[job[p].snap]
         /\ fingerprint[job[p].snap] # Null => fingerprint'[job[p].snap] # Null
<1>t. /\ plan[p].base \in Snap /\ job[p].snap \in Snap
      /\ \A s \in Snap, f \in Path, l \in Layout : <<s, f, l>> \in ChunkId
  BY RTyped DEF PlanHolds, JobHolds, ChunkId
<1>1. extracted[plan[p].base] /\ extracted'[plan[p].base]
      /\ files'[plan[p].base] = files[plan[p].base]
  BY <1>t DEF PlanSound, Indexed, Advance
<1>2. \/ fingerprint'[plan[p].base] # Null
      \/ \E f \in Path, l \in Layout : chunks'[<<plan[p].base, f, l>>] # Null
  <2>1. \/ fingerprint[plan[p].base] # Null
        \/ \E f \in Path, l \in Layout : chunks[<<plan[p].base, f, l>>] # Null
    BY DEF PlanSound, Indexed
  <2>2. CASE fingerprint[plan[p].base] # Null
    BY <1>t, <2>2 DEF Advance
  <2>3. ASSUME NEW f \in Path, NEW l \in Layout, chunks[<<plan[p].base, f, l>>] # Null
        PROVE  chunks'[<<plan[p].base, f, l>>] # Null
    BY <1>t, <2>3 DEF Advance
  <2> QED
    BY <2>1, <2>2, <2>3
<1>3. ASSUME HasOwnSnapshot(job[p], plan[p])
      PROVE  /\ \A r \in Snap : r >= job[p].snap /\ revision'[r] # Null => revision'[r] = tree
             /\ \A q \in Proc : job'[q].pc \in Creating /\ job'[q].snap >= job[p].snap
                                  => job'[q].rev = tree
  <2>1. NewestAre(job[p].snap, tree)
    BY <1>3 DEF PlanSound
  <2> QED
    BY <2>1 DEF NewestAre, Advance
<1>4. HasExtracted(job[p], plan[p]) => extracted'[job[p].snap]
  BY <1>t DEF PlanSound, Advance
<1>5. fingerprint[job[p].snap] # Null => fingerprint'[job[p].snap] # Null
  BY <1>t DEF Advance
<1> QED
  BY <1>1, <1>2, <1>3, <1>4, <1>5

LEMMA PlanWaiting ==
  ASSUME RTypeInv, Advance, NEW q \in Proc, PlanSound(q),
         job'[q] = job[q], plan'[q] = plan[q]
  PROVE  PlanSound(q)'
<1>1. CASE job[q].cmd # "reindex"
  BY <1>1 DEF PlanSound
<1>2. CASE job[q].cmd = "reindex"
  <2>1. tree' = tree
    BY DEF Advance
  <2> QED
    BY <1>2, <2>1, PlanCarries
    DEF PlanSound, Indexed, NewestAre, HasOwnSnapshot, HasScanned, HasExtracted, Accounts, Drafted
<1> QED
  BY <1>1, <1>2

\* The marks that a stage sets before it moves on.
LEMMA MarksSet ==
  ASSUME TypeInv, NEW p \in Proc, ProcStep(p), job[p].cmd = "reindex", job'[p] # NoJob
  PROVE  /\ At(p, "mark_extracted") => extracted'[job[p].snap]
         /\ At(p, "mark_chunks") => fingerprint'[job[p].snap] # Null
<1>t. TypeOK /\ JobHolds(job[p]) /\ job \in [Proc -> Job]
  BY DEF TypeInv, TypeOK, JobOK
<1>f. ~Finish(p)
  BY <1>t DEF Finish
<1>1. At(p, "mark_extracted") => MarkExtracted(p)
  BY <1>f DEF ProcStep, StartSnapshot, StartExtract, StartBuild, StageStep, SharedStep, FaultStep,
     WriteManifest, InsertSnapshot, Scan, InsertFiles, ListFiles, ReuseDrafts, GenerateDrafts,
     ReadFails, WritePayload, UpsertChunks, MarkChunks, RecordProvenance, Crash,
     SnapshotInsertFails, ParserRaises, CrashInPayload, CrashInCache, At
<1>2. At(p, "mark_chunks") => MarkChunks(p)
  BY <1>f DEF ProcStep, StartSnapshot, StartExtract, StartBuild, StageStep, SharedStep, FaultStep,
     WriteManifest, InsertSnapshot, Scan, InsertFiles, MarkExtracted, ListFiles, ReuseDrafts,
     GenerateDrafts, ReadFails, WritePayload, UpsertChunks, RecordProvenance, Crash,
     SnapshotInsertFails, ParserRaises, CrashInPayload, CrashInCache, At
<1>3. At(p, "mark_extracted") => job[p].snap \in Snap
  BY <1>t DEF At, JobHolds
<1>4. At(p, "mark_chunks") => job[p].snap \in Snap /\ job[p].cfg # Null
  BY <1>t, SentinelAssumption DEF At, JobHolds, Building
<1>5. At(p, "mark_extracted") => extracted'[job[p].snap]
  BY <1>t, <1>1, <1>3 DEF MarkExtracted, TypeOK
<1>6. At(p, "mark_chunks") => fingerprint'[job[p].snap] # Null
  BY <1>t, <1>2, <1>4 DEF MarkChunks, TypeOK
<1> QED
  BY <1>5, <1>6

\* Building moves a file from the one set to the other.
LEMMA StillAccounts ==
  ASSUME NEW j \in Job, NEW k \in Job, NEW pl \in Plan, PlanHolds(j, pl), j.cmd = "reindex",
         j.pc \in Building, StageMoves(j, k), Accounts(j, pl)
  PROVE  Accounts(k, pl)
<1>1. k.inventory = j.inventory
  BY DEF StageMoves, Building
<1>2. k.todo \cup Drafted(k) = j.todo \cup Drafted(j)
  <2>1. CASE j.pc = "materialize" /\ k.pc = "write_payload"
    <3>1. PICK f \in j.todo, d \in Draft : k.drafts = [j.drafts EXCEPT ![f] = d]
      BY <2>1 DEF StageMoves
    <3>2. k.todo = j.todo
      BY <2>1 DEF StageMoves
    <3>3. d # Null
      BY SentinelAssumption
    <3>4. j.drafts \in [Path -> Draft \cup {Null}] /\ j.todo \in SUBSET Path
      BY DEF Job
    <3>5. \A g \in Path : k.drafts[g] = IF g = f THEN d ELSE j.drafts[g]
      BY <3>1, <3>4
    <3> QED
      BY <3>2, <3>3, <3>4, <3>5 DEF Drafted
  <2>2. CASE j.pc = "write_payload" /\ k.pc = "materialize"
    <3>1. PICK f \in j.todo : j.drafts[f] # Null /\ k.todo = j.todo \ {f}
      BY <2>2 DEF StageMoves
    <3>2. k.drafts = j.drafts /\ j.todo \in SUBSET Path
      BY <2>2 DEF StageMoves, Job
    <3> QED
      BY <3>1, <3>2 DEF Drafted
  <2>3. CASE k.pc \in {"mark_chunks", "record_run"}
    <3>1. k.todo = j.todo /\ k.drafts = j.drafts
      BY <2>3 DEF StageMoves, Building
    <3> QED
      BY <3>1 DEF Drafted
  <2> QED
    BY <2>1, <2>2, <2>3 DEF StageMoves, Building
<1>3. k.pc \in {"mark_chunks"} \cup Ending => pl.clones = {} /\ k.todo = {}
  <2>1. pl.clones = {}
    BY DEF PlanHolds
  <2>2. CASE k.pc = "mark_chunks"
    BY <2>1, <2>2 DEF StageMoves, Building
  <2>3. CASE k.pc \in Ending
    BY <2>1, <2>3 DEF StageMoves, Building, Ending, Accounts
  <2> QED
    BY <2>2, <2>3
<1> QED
  BY <1>1, <1>2, <1>3 DEF Accounts

LEMMA SharedPlanSound ==
  ASSUME RTypeInv, Advance, NEW p \in Proc, ProcStep(p), KeepPlan(p), PlanSound(p)
  PROVE  PlanSound(p)'
<1>t. /\ TypeInv /\ TypeOK /\ job[p] \in Job /\ plan[p] \in Plan /\ PlanHolds(job[p], plan[p])
  BY RTyped
<1>j. job'[p] \in Job
  BY <1>t, TypeInvStep DEF Next, ProcStep, TypeInv, TypeOK
<1>1. CASE job[p].cmd # "reindex"
  BY <1>t, <1>1, StageOfOthers DEF PlanHolds, PlanSound
<1>2. CASE job'[p] = NoJob
  BY <1>2 DEF PlanSound, NoJob
<1>3. CASE job[p].cmd = "reindex" /\ job'[p] # NoJob
  <2>1. StageMoves(job[p], job'[p])
    BY <1>t, <1>3, StageOfReindex DEF PlanHolds, At
  <2>2. plan'[p] = plan[p] /\ tree' = tree
    BY <2>1, PlanKept DEF StageMoves, Advance
  <2>3. <<job[p].pc, job'[p].pc>> \in
          {<<"write_manifest", "insert_snapshot">>, <<"insert_snapshot", "check_extract">>,
           <<"scan", "insert_files">>, <<"insert_files", "mark_extracted">>,
           <<"mark_extracted", "diff">>, <<"materialize", "write_payload">>,
           <<"write_payload", "materialize">>, <<"materialize", "mark_chunks">>,
           <<"mark_chunks", "record_run">>}
    BY <2>1 DEF StageMoves
  <2>4. Keeps(job[p], job'[p])
    BY <2>1 DEF StageMoves
  <2> DEFINE j == job[p]
             k == job'[p]
             pl == plan[p]
  <2>5. j.pc \in OwnSnapshot /\ j.pc \notin Deciding /\ k.pc \notin Deciding
        /\ pl.reason # "no_change" /\ j.rev = tree /\ pl.files = files[pl.base]
        /\ pl.reason = Classify(tree # pl.files, j.cfg # pl.prevFp)
    BY <1>3, <2>3
    DEF PlanSound, OwnSnapshot, Creating, Scanned, Rebuilding, Building, Deciding, Planning
  <2>6. HasOwnSnapshot(j, pl) /\ (k.pc \in Ending => k.pc = "record_run")
    BY <2>3, <2>5 DEF HasOwnSnapshot, Ending
  <2>7. Indexed(pl.base)' /\ pl.files = files'[pl.base]
    BY <1>3, <2>2, <2>5, PlanCarries DEF Indexed
  <2>8. /\ \A r \in Snap : r >= k.snap /\ revision'[r] # Null => revision'[r] = tree
        /\ \A q \in Proc : job'[q].pc \in Creating /\ job'[q].snap >= k.snap
                             => job'[q].rev = tree
    BY <1>3, <2>4, <2>6, PlanCarries DEF Keeps
  <2>9. HasScanned(k, pl) => k.inventory = tree
    <3>1. CASE j.pc = "scan"
      BY <2>1, <3>1 DEF StageMoves
    <3>2. CASE j.pc # "scan"
      <4>1. k.inventory = j.inventory
        BY <2>1, <3>2 DEF StageMoves
      <4>2. HasScanned(k, pl) => HasScanned(j, pl)
        BY <2>3, <3>2 DEF HasScanned, Scanned, Rebuilding, Building, Ending
      <4> QED
        BY <1>3, <4>1, <4>2 DEF PlanSound
    <3> QED
      BY <3>1, <3>2
  <2>10. HasExtracted(k, pl) => extracted'[k.snap]
    <3>1. CASE j.pc = "mark_extracted"
      BY <1>t, <1>3, <2>4, <3>1, MarksSet DEF At, Keeps
    <3>2. CASE j.pc # "mark_extracted"
      <4>1. HasExtracted(k, pl) => HasExtracted(j, pl)
        BY <2>3, <3>2 DEF HasExtracted, Rebuilding, Building, Ending
      <4> QED
        BY <1>3, <2>4, <4>1, PlanCarries DEF Keeps
    <3> QED
      BY <3>1, <3>2
  <2>11. k.pc \in Rebuilding \cup Ending => Accounts(k, pl)
    <3>1. SUFFICES ASSUME k.pc \in Rebuilding \cup Ending PROVE Accounts(k, pl)
      OBVIOUS
    <3>2. j.pc \in Building
      BY <2>3, <3>1 DEF Rebuilding, Building, Ending
    <3>3. Accounts(j, pl)
      BY <1>3, <3>2 DEF PlanSound, Rebuilding
    <3> QED
      BY <1>t, <1>j, <1>3, <2>1, <3>2, <3>3, StillAccounts
  <2>12. k.pc \in Ending => fingerprint'[k.snap] # Null
    BY <1>t, <1>3, <2>3, <2>4, <2>6, MarksSet DEF At, Keeps
  <2> QED
    BY <2>2, <2>4, <2>5, <2>7, <2>8, <2>9, <2>10, <2>11, <2>12
    DEF PlanSound, NewestAre, Keeps, Accounts, HasScanned, HasExtracted, Deciding, Drafted
<1> QED
  BY <1>1, <1>2, <1>3

-----------------------------------------------------------------------------
\* Its own steps.

LEMMA StartedSound ==
  ASSUME RTypeInv, Advance, NEW p \in Proc, StartReindex(p)
  PROVE  PlanSound(p)'
<1>1. PICK s \in Snap : \E c \in Config :
        /\ IsLatestIndexed(s)
        /\ job'[p].snap = s /\ job'[p].cfg = c
        /\ plan'[p].base = s /\ plan'[p].prevFp = PreviousFingerprint(s, c)
  BY ReindexStarts
<1>2. job'[p].pc = "list_baseline" /\ UNCHANGED <<extracted, fingerprint, chunks>>
  BY ReindexStarts DEF db
<1>3. Indexed(s)'
  BY <1>1, <1>2 DEF IsLatestIndexed, Indexed
<1>4. /\ Indexed(plan[p].base)' /\ job'[p].snap = plan'[p].base
  BY <1>1, <1>3 DEF Indexed
<1> QED
  BY <1>2, <1>4
  DEF PlanSound, Indexed, Deciding, Planning, OwnSnapshot, Creating, Scanned, Rebuilding, Building,
      Ending, HasOwnSnapshot, HasScanned, HasExtracted

LEMMA ReadsSound ==
  ASSUME RTypeInv, Advance, NEW p \in Proc, Reads(p), PlanSound(p)
  PROVE  PlanSound(p)'
<1>t. /\ TypeOK /\ job[p] \in Job /\ plan[p] \in Plan /\ PlanHolds(job[p], plan[p])
  BY RTyped
<1>m. job'[p] = NoJob \/ OwnMoves(job[p], job'[p], plan[p], plan'[p])
  BY ReadsMove
<1>u. UNCHANGED <<tree, files, extracted, fingerprint>>
  BY ReadsMove DEF env, db
<1>1. CASE job'[p] = NoJob
  BY <1>1 DEF PlanSound, NoJob
<1>2. CASE OwnMoves(job[p], job'[p], plan[p], plan'[p])
  <2> DEFINE j == job[p]
             k == job'[p]
             pl == plan[p]
             ql == plan'[p]
  <2>1. <<j.pc, k.pc>> \in
          {<<"list_baseline", "list_baseline_chunks">>, <<"list_baseline_chunks", "resolve">>,
           <<"resolve", "preview">>, <<"preview", "record_run">>, <<"preview", "begin_snapshot">>,
           <<"check_extract", "scan">>, <<"record_run", "record_provenance">>}
    BY <1>2 DEF OwnMoves
  <2>2. k.cmd = j.cmd /\ k.snap = j.snap /\ k.cfg = j.cfg
        /\ k.inventory = j.inventory /\ k.todo = j.todo /\ k.drafts = j.drafts
        /\ ql.base = pl.base /\ ql.prevFp = pl.prevFp /\ ql.clones = pl.clones
    BY <1>2 DEF OwnMoves, Stays, Keeps, PlanKeeps
  <2>3. j.cmd = "reindex"
    BY <1>t, <2>1 DEF PlanHolds, OwnPcs, Planning
  <2>4. /\ Indexed(pl.base)'
        /\ HasOwnSnapshot(j, pl) => NewestAre(j.snap, tree)'
    BY <1>u, <2>2, <2>3, PlanCarries DEF Indexed, NewestAre
  <2>5. ql.files = files'[ql.base]
    BY <1>u, <1>2, <2>2, <2>3 DEF OwnMoves, PlanSound
  <2>6. CASE k.pc \in Deciding
    <3>1. j.pc \in Deciding /\ k.pc # "scan" /\ (k.pc \notin Planning => k.rev = tree)
      BY <1>2, <2>1, <2>6 DEF Deciding, Planning, OwnMoves
    <3> QED
      BY <1>u, <2>2, <2>3, <2>4, <2>5, <2>6, <3>1
      DEF PlanSound, Indexed, Deciding, Planning, OwnSnapshot, Creating, Scanned, Rebuilding,
          Building, Ending, HasOwnSnapshot, HasScanned, HasExtracted
  <2>7. CASE k.pc = "record_run"
    <3>1. /\ j.pc = "preview" /\ k.rev = j.rev
          /\ ql.reason = Classify(tree # pl.files, j.cfg # pl.prevFp)
          /\ ql.files = pl.files /\ ql.reason = "no_change" /\ ql.reused = Present(tree)
      BY <1>2, <2>7 DEF OwnMoves, Stays, Keeps
    <3>2. j.snap = pl.base /\ j.rev = tree /\ j.drafts = NoDrafts
      BY <1>t, <2>3, <3>1 DEF PlanSound, PlanHolds, Deciding, Planning, Building, Ending
    <3> QED
      BY <1>u, <2>2, <2>3, <2>4, <2>5, <2>7, <3>1, <3>2
      DEF PlanSound, Indexed, Deciding, Planning, OwnSnapshot, Creating, Scanned, Rebuilding,
          Building, Ending, HasOwnSnapshot, HasScanned, HasExtracted
  <2>8. CASE k.pc = "begin_snapshot"
    <3>1. /\ j.pc = "preview" /\ k.rev = j.rev
          /\ ql.reason = Classify(tree # pl.files, j.cfg # pl.prevFp)
          /\ ql.files = pl.files /\ ql.reason # "no_change"
      BY <1>2, <2>8 DEF OwnMoves, Stays, Keeps
    <3>2. j.rev = tree
      BY <2>3, <3>1 DEF PlanSound, Planning
    <3> QED
      BY <1>u, <2>2, <2>3, <2>4, <2>5, <2>8, <3>1, <3>2
      DEF PlanSound, Indexed, Deciding, Planning, OwnSnapshot, Creating, Scanned, Rebuilding,
          Building, Ending, HasOwnSnapshot, HasScanned, HasExtracted
  <2>9. CASE k.pc = "scan"
    <3>1. j.pc = "check_extract" /\ k.rev = j.rev /\ ql = pl
      BY <1>2, <2>9 DEF OwnMoves, Stays, Keeps
    <3>2. HasOwnSnapshot(j, pl) /\ j.pc \notin Deciding
      BY <3>1 DEF HasOwnSnapshot, OwnSnapshot, Deciding, Planning
    <3>3. j.rev = tree /\ pl.reason = Classify(tree # pl.files, j.cfg # pl.prevFp)
          /\ pl.reason # "no_change"
      BY <2>3, <3>1, <3>2 DEF PlanSound, Deciding, OwnSnapshot
    <3> QED
      BY <1>u, <2>2, <2>3, <2>4, <2>5, <2>9, <3>1, <3>2, <3>3
      DEF PlanSound, Indexed, Deciding, Planning, Creating, Scanned, Rebuilding,
          Building, Ending, HasOwnSnapshot, HasScanned, HasExtracted
  <2>10. CASE k.pc = "record_provenance"
    <3>1. j.pc = "record_run" /\ k.rev = j.rev /\ ql = pl
      BY <1>2, <2>10 DEF OwnMoves, Stays, Keeps
    <3>2. /\ HasOwnSnapshot(k, ql) = HasOwnSnapshot(j, pl)
          /\ HasScanned(k, ql) = HasScanned(j, pl)
          /\ HasExtracted(k, ql) = HasExtracted(j, pl)
          /\ j.pc \in Ending /\ k.pc \in Ending
          /\ j.pc \notin Deciding /\ k.pc \notin Deciding
          /\ k.pc \notin OwnSnapshot \cup {"begin_snapshot"} /\ k.pc \notin Rebuilding
          /\ k.pc \notin Planning /\ j.pc \notin Planning
      BY <2>10, <3>1
      DEF HasOwnSnapshot, HasScanned, HasExtracted, OwnSnapshot, Creating, Scanned, Rebuilding,
          Building, Ending, Deciding, Planning
    <3>3. Accounts(j, pl) => Accounts(k, ql)
      BY <2>2, <3>1, <3>2 DEF Accounts, Drafted
    <3> QED
      BY <1>u, <2>2, <2>3, <2>4, <2>5, <2>10, <3>1, <3>2, <3>3 DEF PlanSound
  <2> QED
    BY <2>1, <2>6, <2>7, <2>8, <2>9, <2>10 DEF Deciding, Planning
<1> QED
  BY <1>m, <1>1, <1>2

\* No snapshot is newer than one that has just been given its id.
LEMMA BegunSound ==
  ASSUME RTypeInv, RRowInv, Advance, NEW p \in Proc, BeginSnapshot(p), PlanSound(p)
  PROVE  PlanSound(p)'
<1>t. /\ TypeInv /\ clock \in Nat /\ SnapshotsOwned
  BY RTyped, BoundAssumption DEF TypeOK, RRowInv, RowInv
<1>p. /\ job[p].pc = "begin_snapshot" /\ job[p].cmd = "reindex"
      /\ UNCHANGED <<tree, revision, files, extracted, fingerprint>>
      /\ \A q \in Proc : q # p => job'[q] = job[q]
  BY SnapshotTaken DEF env, db
<1>1. CASE job'[p] = NoJob
  BY <1>1 DEF PlanSound, NoJob
<1>2. CASE job'[p] # NoJob
  <2>1. /\ plan' = plan /\ job'[p].pc = "write_manifest" /\ job'[p].cfg = job[p].cfg
        /\ job'[p].snap = clock + 1 /\ job'[p].rev = tree
    BY <1>2, SnapshotTaken
  <2>2. \A r \in Snap : ~(r >= clock + 1 /\ revision[r] # Null)
    BY <1>t DEF SnapshotsOwned, Snap
  <2>3. \A q \in Proc : job[q].pc \in Creating => job[q].snap <= clock /\ job[q].snap \in Int
    BY <1>t DEF SnapshotsOwned, Owns, TypeInv, JobOK, JobHolds, Creating, Snap
  <2>4. /\ \A r \in Snap : r >= job'[p].snap /\ revision'[r] # Null => revision'[r] = tree
        /\ \A q \in Proc : job'[q].pc \in Creating /\ job'[q].snap >= job'[p].snap
                             => job'[q].rev = tree
    <3>1. ASSUME NEW q \in Proc, job'[q].pc \in Creating, job'[q].snap >= clock + 1, q # p
          PROVE  FALSE
      <4>1. job[q].pc \in Creating /\ job[q].snap >= clock + 1
        BY <1>p, <3>1
      <4> QED
        BY <1>t, <2>3, <4>1
    <3> QED
      BY <1>p, <2>1, <2>2, <3>1
  <2>5. /\ plan[p].reason = Classify(tree # plan[p].files, job[p].cfg # plan[p].prevFp)
        /\ plan[p].reason # "no_change" /\ plan[p].files = files[plan[p].base]
    BY <1>p DEF PlanSound, Deciding, Planning
  <2>6. Indexed(plan[p].base)'
    BY <1>p, <2>1, PlanCarries DEF Indexed
  <2> QED
    BY <1>p, <2>1, <2>4, <2>5, <2>6
    DEF PlanSound, NewestAre, Deciding, Planning, Scanned, Rebuilding, Building, Ending,
        HasScanned, HasExtracted
<1> QED
  BY <1>1, <1>2

\* What its extraction stored is the repository as it is.
LEMMA StoredIsLive ==
  ASSUME RTypeInv, RRowInv, QuietInv, NEW p \in Proc, job[p].cmd = "reindex",
         HasExtracted(job[p], plan[p]), PlanSound(p)
  PROVE  files[job[p].snap] = tree /\ revision[job[p].snap] = tree
<1>1. job[p].snap \in Snap
  BY RTyped DEF HasExtracted, JobHolds, PlanHolds, Rebuilding, Building, Ending
<1>2. extracted[job[p].snap] /\ revision[job[p].snap] # Null
  BY <1>1 DEF PlanSound, RRowInv
<1>3. HasOwnSnapshot(job[p], plan[p])
  BY DEF HasExtracted, HasOwnSnapshot, OwnSnapshot, Scanned
<1>4. revision[job[p].snap] = tree
  BY <1>1, <1>2, <1>3 DEF PlanSound, NewestAre, Snap
<1> QED
  BY <1>1, <1>2, <1>4 DEF QuietInv, InventoryMatchesRevision

LEMMA DiffedSound ==
  ASSUME RTypeInv, RRowInv, QuietInv, Advance, NEW p \in Proc, Diff(p), PlanSound(p)
  PROVE  PlanSound(p)'
<1>t. /\ TypeOK /\ job[p] \in Job /\ plan[p] \in Plan /\ PlanHolds(job[p], plan[p])
  BY RTyped
<1>p. job[p].pc = "diff" /\ job[p].cmd = "reindex"
  BY <1>t DEF Diff, At, PlanHolds, OwnPcs
<1>h. HasOwnSnapshot(job[p], plan[p]) /\ HasScanned(job[p], plan[p])
      /\ HasExtracted(job[p], plan[p]) /\ job[p].pc \in OwnSnapshot
      /\ job[p].pc \notin Deciding
  BY <1>p DEF HasOwnSnapshot, HasScanned, HasExtracted, OwnSnapshot, Scanned, Deciding, Planning
<1>1. files[job[p].snap] = tree
  BY <1>p, <1>h, StoredIsLive
<1>2. StoredInventory(p) = tree
  BY <1>t, <1>p, <1>h, <1>1 DEF StoredInventory, PlanSound, TypeOK, Tree
<1>d. /\ Keeps(job[p], job'[p]) /\ job'[p].drafts = NoDrafts
      /\ job'[p].inventory = tree
      /\ plan'[p].base = plan[p].base /\ plan'[p].prevFp = plan[p].prevFp
      /\ plan'[p].files = plan[p].files /\ plan'[p].reason = plan[p].reason
      /\ plan'[p].clones \subseteq Unchanged(p, tree)
      /\ plan'[p].reused = {}
      /\ job'[p].todo = Present(tree) \ plan'[p].clones
      /\ job'[p].pc \in {"materialize", "clone"}
      /\ UNCHANGED <<tree, revision, files, extracted, fingerprint>>
  BY <1>2, Diffed DEF env, db
<1>3. Accounts(job'[p], plan'[p])
  <2>1. Drafted(job'[p]) = {}
    BY <1>d DEF Drafted, NoDrafts
  <2>2. plan'[p].clones \subseteq Present(tree) /\ \A f \in plan'[p].clones : plan'[p].files[f] = tree[f]
    BY <1>d DEF Unchanged
  <2> QED
    BY <1>d, <2>1, <2>2 DEF Accounts, Ending
<1>4. /\ plan[p].reason = Classify(tree # plan[p].files, job[p].cfg # plan[p].prevFp)
      /\ plan[p].reason # "no_change" /\ plan[p].files = files[plan[p].base]
      /\ job[p].rev = tree /\ extracted[job[p].snap]
  BY <1>p, <1>h DEF PlanSound, Deciding, Planning
<1>5. /\ extracted'[plan'[p].base]
      /\ \/ fingerprint'[plan'[p].base] # Null
         \/ \E f \in Path, l \in Layout : chunks'[<<plan'[p].base, f, l>>] # Null
      /\ \A r \in Snap : r >= job'[p].snap /\ revision'[r] # Null => revision'[r] = tree
      /\ \A q \in Proc : job'[q].pc \in Creating /\ job'[q].snap >= job'[p].snap
                           => job'[q].rev = tree
  BY <1>p, <1>h, <1>d, PlanCarries DEF Keeps
<1> QED
  BY <1>p, <1>d, <1>3, <1>4, <1>5
  DEF PlanSound, Indexed, NewestAre, Keeps, Accounts, Drafted, Deciding, Planning, Ending

\* A file that was to be cloned has been, or is built instead.
LEMMA ClonedSound ==
  ASSUME RTypeInv, Advance, NEW p \in Proc, CloneFile(p) \/ CloneFails(p), PlanSound(p)
  PROVE  PlanSound(p)'
<1>t. /\ TypeOK /\ job[p] \in Job /\ plan[p] \in Plan /\ PlanHolds(job[p], plan[p])
  BY RTyped
<1>p. job[p].pc = "clone" /\ job[p].cmd = "reindex"
  BY <1>t DEF CloneFile, CloneFails, At, PlanHolds, OwnPcs
<1>h. HasOwnSnapshot(job[p], plan[p]) /\ HasScanned(job[p], plan[p])
      /\ HasExtracted(job[p], plan[p]) /\ job[p].pc \in OwnSnapshot
      /\ job[p].pc \notin Deciding /\ job[p].pc \in Rebuilding
  BY <1>p DEF HasOwnSnapshot, HasScanned, HasExtracted, OwnSnapshot, Scanned, Rebuilding,
     Deciding, Planning
<1>f. PICK f \in Path : f \in plan[p].clones /\ ClonesOne(p, f)
  BY Cloned
<1>u. UNCHANGED <<tree, revision, files, extracted, fingerprint>>
  BY Cloned DEF env, db
<1>c. /\ Keeps(job[p], job'[p])
      /\ job'[p].inventory = job[p].inventory /\ job'[p].drafts = job[p].drafts
      /\ plan'[p].base = plan[p].base /\ plan'[p].prevFp = plan[p].prevFp
      /\ plan'[p].files = plan[p].files /\ plan'[p].reason = plan[p].reason
      /\ plan'[p].clones = plan[p].clones \ {f}
      /\ job'[p].pc \in {"materialize", "clone"}
      /\ \/ plan'[p].reused = plan[p].reused \cup {f} /\ job'[p].todo = job[p].todo
         \/ plan'[p].reused = plan[p].reused /\ job'[p].todo = job[p].todo \cup {f}
  BY <1>f DEF ClonesOne
<1>3. Accounts(job'[p], plan'[p])
  <2>1. Accounts(job[p], plan[p])
    BY <1>p, <1>h DEF PlanSound
  <2>2. Drafted(job'[p]) = Drafted(job[p])
    BY <1>c DEF Drafted
  <2>3. job'[p].pc \notin {"mark_chunks"} \cup Ending
    BY <1>c DEF Ending
  <2> QED
    BY <1>f, <1>c, <2>1, <2>2, <2>3 DEF Accounts
<1>4. /\ plan[p].reason = Classify(tree # plan[p].files, job[p].cfg # plan[p].prevFp)
      /\ plan[p].reason # "no_change" /\ plan[p].files = files[plan[p].base]
      /\ job[p].rev = tree /\ extracted[job[p].snap] /\ job[p].inventory = tree
  BY <1>p, <1>h DEF PlanSound, Deciding, Planning
<1>5. /\ extracted'[plan'[p].base]
      /\ \/ fingerprint'[plan'[p].base] # Null
         \/ \E g \in Path, l \in Layout : chunks'[<<plan'[p].base, g, l>>] # Null
      /\ \A r \in Snap : r >= job'[p].snap /\ revision'[r] # Null => revision'[r] = tree
      /\ \A q \in Proc : job'[q].pc \in Creating /\ job'[q].snap >= job'[p].snap
                           => job'[q].rev = tree
  BY <1>p, <1>h, <1>c, PlanCarries DEF Keeps
<1> QED
  BY <1>p, <1>u, <1>c, <1>3, <1>4, <1>5
  DEF PlanSound, Indexed, NewestAre, Keeps, Accounts, Drafted, Deciding, Planning, Ending

LEMMA UpsertedSound ==
  ASSUME RTypeInv, Advance, NEW p \in Proc, UpsertReindexed(p), PlanSound(p)
  PROVE  PlanSound(p)'
<1>t. /\ TypeOK /\ job[p] \in Job /\ plan[p] \in Plan /\ PlanHolds(job[p], plan[p])
  BY RTyped
<1>c. /\ job[p].todo = {} /\ job[p].pc = "materialize" /\ job[p].cmd = "reindex"
      /\ Keeps(job[p], job'[p]) /\ job'[p].pc = "mark_chunks"
      /\ job'[p].inventory = job[p].inventory /\ job'[p].todo = job[p].todo
      /\ job'[p].drafts = job[p].drafts
      /\ UNCHANGED <<tree, revision, files, extracted, fingerprint, plan>>
  BY RowsReindexed DEF env
<1>h. HasOwnSnapshot(job[p], plan[p]) /\ HasScanned(job[p], plan[p])
      /\ HasExtracted(job[p], plan[p]) /\ job[p].pc \in OwnSnapshot
      /\ job[p].pc \notin Deciding /\ job[p].pc \in Rebuilding
  BY <1>c DEF HasOwnSnapshot, HasScanned, HasExtracted, OwnSnapshot, Scanned, Rebuilding,
     Building, Deciding, Planning
<1>3. Accounts(job'[p], plan[p])
  <2>1. Accounts(job[p], plan[p]) /\ plan[p].clones = {}
    BY <1>t, <1>c, <1>h DEF PlanSound, PlanHolds, Building
  <2>2. Drafted(job'[p]) = Drafted(job[p])
    BY <1>c DEF Drafted
  <2> QED
    BY <1>c, <2>1, <2>2 DEF Accounts
<1>4. /\ plan[p].reason = Classify(tree # plan[p].files, job[p].cfg # plan[p].prevFp)
      /\ plan[p].reason # "no_change" /\ plan[p].files = files[plan[p].base]
      /\ job[p].rev = tree /\ extracted[job[p].snap] /\ job[p].inventory = tree
  BY <1>c, <1>h DEF PlanSound, Deciding, Planning
<1>5. /\ extracted'[plan[p].base]
      /\ \/ fingerprint'[plan[p].base] # Null
         \/ \E g \in Path, l \in Layout : chunks'[<<plan[p].base, g, l>>] # Null
      /\ \A r \in Snap : r >= job'[p].snap /\ revision'[r] # Null => revision'[r] = tree
      /\ \A q \in Proc : job'[q].pc \in Creating /\ job'[q].snap >= job'[p].snap
                           => job'[q].rev = tree
  BY <1>c, <1>h, PlanCarries DEF Keeps
<1> QED
  BY <1>c, <1>3, <1>4, <1>5
  DEF PlanSound, Indexed, NewestAre, Keeps, Accounts, Drafted, Deciding, Planning, Ending

LEMMA PlansSound ==
  ASSUME RTypeInv, RRowInv, QuietInv, \A q \in Proc : PlanSound(q), NEW p \in Proc, RStep(p)
  PROVE  Advance /\ \A q \in Proc : PlanSound(q)'
<1>1. CASE (StartOrFault(p) \/ PipelineStep(p)) /\ KeepPlan(p)
  <2>1. ProcStep(p) /\ KeepPlan(p)
    BY <1>1, SharedIsProc
  <2>2. \A q \in Proc : q # p => job'[q] = job[q] /\ plan'[q] = plan[q]
    BY <2>1, RTyped, OthersWait, PlanKept
  <2>3. Advance
    BY <2>1, SharedAdvances
  <2> QED
    BY <2>1, <2>2, <2>3, SharedPlanSound, PlanWaiting
<1>2. CASE StartReindex(p) \/ OwnStep(p) \/ CrashInClone(p)
  <2>1. Advance
    BY <1>2, OwnAdvances
  <2>2. \A q \in Proc : q # p => job'[q] = job[q] /\ plan'[q] = plan[q]
    BY <1>2, OwnStore
  <2>3. PlanSound(p)'
    <3>1. CASE Reads(p)
      BY <2>1, <3>1, ReadsSound
    <3>2. CASE StartReindex(p)
      BY <2>1, <3>2, StartedSound
    <3>3. CASE CrashInClone(p)
      <4>1. job'[p] = NoJob
        BY <3>3, RTyped DEF CrashInClone, Finish
      <4> QED
        BY <4>1 DEF PlanSound, NoJob
    <3> QED
      BY <1>2, <2>1, <3>1, <3>2, <3>3, BegunSound, DiffedSound, ClonedSound, UpsertedSound
      DEF OwnStep, Reads
  <2> QED
    BY <2>1, <2>2, <2>3, PlanWaiting
<1> QED
  BY <1>1, <1>2 DEF RStep

-----------------------------------------------------------------------------
\* The stored runs.

LEMMA RunsKept ==
  ASSUME RTypeInv, RunsSound, Advance, runs' = runs
  PROVE  RunsSound'
<1>1. ASSUME NEW r \in runs
      PROVE  /\ extracted'[r.prev] /\ extracted'[r.result]
             /\ files'[r.prev] = files[r.prev] /\ files'[r.result] = files[r.result]
  <2>1. r.prev \in Snap /\ r.result \in Snap
    BY DEF RTypeInv, ReindexTypeOK, Run
  <2> QED
    BY <2>1 DEF RunsSound, Advance
<1> QED
  BY <1>1 DEF RunsSound, Accounted, Reasoned

\* Of two disjoint sets of paths each is counted once.
LEMMA CountedOnce ==
  ASSUME NEW S \in SUBSET Path, NEW T \in SUBSET Path, S \cap T = {}
  PROVE  Cardinality(S) + Cardinality(T) = Cardinality(S \cup T)
<1>1. IsFiniteSet(S) /\ IsFiniteSet(T)
  BY FiniteAssumption, FS_Subset
<1>2. Cardinality(S \cup T) = Cardinality(S) + Cardinality(T) - Cardinality(S \cap T)
  BY <1>1, FS_Union
<1>3. Cardinality(S \cap T) = 0
  BY FS_EmptySet
<1>4. Cardinality(S) \in Nat /\ Cardinality(T) \in Nat
  BY <1>1, FS_CardinalityType
<1> QED
  BY <1>2, <1>3, <1>4

LEMMA RunIsSound ==
  ASSUME RTypeInv, RRowInv, QuietInv, NEW p \in Proc, At(p, "record_run"), PlanSound(p)
  PROVE  /\ extracted[RunOf(p).prev] /\ extracted[RunOf(p).result]
         /\ Accounted(RunOf(p)) /\ Reasoned(RunOf(p))
<1> DEFINE j == job[p]
           pl == plan[p]
           r == RunOf(p)
           gone == Present(pl.files) \ Present(j.inventory)
<1>t. /\ TypeOK /\ j \in Job /\ pl \in Plan /\ PlanHolds(j, pl)
  BY RTyped
<1>p. j.pc = "record_run" /\ j.cmd = "reindex" /\ j.pc \in Ending
      /\ j.pc \notin Deciding /\ j.pc \notin Planning
  BY <1>t DEF At, PlanHolds, OwnPcs, Ending, Deciding, Planning
<1>r. /\ r.prev = pl.base /\ r.result = j.snap /\ r.resultRev = j.rev
      /\ r.prevFp = pl.prevFp /\ r.fp = j.cfg /\ r.reason = pl.reason
      /\ r.reused = Cardinality(pl.reused) /\ r.rebuilt = Cardinality(Drafted(j))
      /\ r.removed = IF pl.reason = "no_change" THEN 0 ELSE Cardinality(gone)
  BY DEF RunOf, Drafted
<1> HIDE DEF r
<1>1. /\ extracted[pl.base] /\ pl.files = files[pl.base] /\ j.rev = tree
      /\ pl.reason = Classify(tree # pl.files, j.cfg # pl.prevFp)
  BY <1>p DEF PlanSound, Indexed, Planning
<1>2. CASE pl.reason = "no_change"
  <2>1. j.snap = pl.base /\ pl.reused = Present(tree) /\ j.drafts = NoDrafts
    BY <1>p, <1>2 DEF PlanSound
  <2>2. tree = pl.files /\ j.cfg = pl.prevFp
    BY <1>1, <1>2, Reasoning
  <2>3. Drafted(j) = {}
    BY <2>1 DEF Drafted, NoDrafts
  <2>4. /\ Cardinality({}) = 0 /\ Cardinality(Present(tree)) \in Nat
        /\ Present(tree) \in SUBSET Path
    BY FiniteAssumption, FS_Subset, FS_CardinalityType, FS_EmptySet DEF Present
  <2>5. /\ files[r.result] = tree /\ files[r.prev] = tree
        /\ extracted[r.prev] /\ extracted[r.result]
    BY <1>1, <1>r, <2>1, <2>2
  <2>6. Accounted(r)
    <3>1. r.reused = Cardinality(Present(tree)) /\ r.rebuilt = 0 /\ r.removed = 0
      BY <1>2, <1>r, <2>1, <2>3, <2>4
    <3>2. Present(tree) \ Present(tree) = {}
      OBVIOUS
    <3> QED
      BY <1>1, <1>r, <2>4, <2>5, <3>1, <3>2 DEF Accounted
  <2>7. Reasoned(r)
    BY <1>2, <1>r, <2>2, <2>5 DEF Reasoned
  <2> QED
    BY <2>5, <2>6, <2>7 DEF r
<1>3. CASE pl.reason # "no_change"
  <2>1. /\ HasExtracted(j, pl) /\ HasScanned(j, pl) /\ extracted[j.snap] /\ j.inventory = tree
        /\ Accounts(j, pl)
    BY <1>p, <1>3 DEF HasExtracted, HasScanned, PlanSound
  <2>2. files[j.snap] = tree
    BY <1>p, <2>1, StoredIsLive
  <2>3. Present(tree) = pl.reused \cup Drafted(j) /\ pl.reused \cap Drafted(j) = {}
    BY <1>p, <2>1 DEF Accounts
  <2>4. pl.reused \in SUBSET Path /\ Drafted(j) \in SUBSET Path
    BY <1>t DEF Plan, Drafted
  <2>5. Accounted(r)
    BY <1>1, <1>3, <1>r, <2>1, <2>2, <2>3, <2>4, CountedOnce DEF Accounted
  <2>6. Reasoned(r)
    <3>1. files[r.prev] = pl.files /\ files[r.result] = tree
      BY <1>1, <1>r, <2>2
    <3> QED
      BY <1>1, <1>r, <3>1, Reasoning DEF Reasoned
  <2> QED
    BY <1>1, <1>r, <2>1, <2>5, <2>6 DEF r
<1> QED
  BY <1>2, <1>3

LEMMA RunsRecorded ==
  ASSUME RTypeInv, RRowInv, QuietInv, RunsSound, NEW p \in Proc, RecordRun(p), PlanSound(p)
  PROVE  RunsSound'
<1>1. runs' = runs \cup {RunOf(p)} /\ UNCHANGED <<files, extracted>> /\ At(p, "record_run")
  BY DEF RecordRun, db
<1>2. /\ extracted[RunOf(p).prev] /\ extracted[RunOf(p).result]
      /\ Accounted(RunOf(p)) /\ Reasoned(RunOf(p))
  BY <1>1, RunIsSound
<1> DEFINE sound(r) == /\ extracted[r.prev] /\ extracted[r.result]
                       /\ Accounted(r) /\ Reasoned(r)
<1>3. \A r \in runs' : sound(r)
  <2> HIDE DEF sound
  <2>1. \A r \in runs : sound(r)
    BY DEF RunsSound, sound
  <2>2. sound(RunOf(p))
    BY <1>2 DEF sound
  <2> QED
    BY <1>1, <2>1, <2>2
<1> QED
  BY <1>1, <1>3 DEF RunsSound, Accounted, Reasoned

LEMMA RunsStep ==
  ASSUME RTypeInv, RRowInv, QuietInv, RunsSound, Advance, NEW p \in Proc, RStep(p), PlanSound(p)
  PROVE  RunsSound'
<1>1. CASE RecordRun(p)
  BY <1>1, RunsRecorded
<1>2. CASE ~RecordRun(p)
  <2>1. CASE (StartOrFault(p) \/ PipelineStep(p)) /\ KeepPlan(p)
    BY <2>1, RunsKept DEF KeepPlan
  <2>2. CASE StartReindex(p)
    BY <2>2, RunsKept DEF StartReindex
  <2>3. CASE OwnStep(p) \/ CrashInClone(p)
    <3>1. runs' = runs
      BY <1>2, <2>3 DEF OwnStep, ListBaselineFiles, ListBaselineChunks, Resolve, Preview,
         BeginSnapshot, CheckExtract, Diff, CloneFile, CloneFails, UpsertReindexed, CrashInClone
    <3> QED
      BY <3>1, RunsKept
  <2> QED
    BY <2>1, <2>2, <2>3 DEF RStep
<1> QED
  BY <1>1, <1>2

-----------------------------------------------------------------------------
\* A re-index beside quiet edits.

LEMMA OwnJobValid ==
  ASSUME RTypeInv, RRowInv, QuietInv, \A q \in Proc : PlanSound(q), NEW p \in Proc,
         StartReindex(p) \/ OwnStep(p) \/ CrashInClone(p)
  PROVE  JobValid(p)'
<1>t. /\ TypeOK /\ job[p] \in Job /\ plan[p] \in Plan /\ PlanHolds(job[p], plan[p]) /\ PlanSound(p)
  BY RTyped
<1>u. UNCHANGED <<tree, revision, files>>
  BY OwnStore
<1>n. tree # Null
  BY <1>t, SentinelAssumption DEF TypeOK
<1>1. ASSUME job'[p].pc \notin {"scan", "list_files", "materialize", "write_payload",
                                "insert_files", "mark_extracted"}
      PROVE  JobValid(p)'
  BY <1>1 DEF JobValid, Reading, At
<1>2. CASE job'[p] = NoJob
  BY <1>1, <1>2 DEF NoJob
<1>3. CASE StartReindex(p)
  BY <1>1, <1>3, ReindexStarts
<1>4. CASE Reads(p) /\ job'[p] # NoJob
  <2>1. OwnMoves(job[p], job'[p], plan[p], plan'[p])
    BY <1>4, ReadsMove
  <2>2. CASE job'[p].pc = "scan"
    <3>1. MatchesLive(job[p].snap) /\ job'[p].snap = job[p].snap
      BY <2>1, <2>2 DEF OwnMoves, Stays, Keeps
    <3> QED
      BY <1>u, <2>2, <3>1 DEF JobValid, Reading, MatchesLive, At
  <2>3. CASE job'[p].pc # "scan"
    BY <1>1, <2>1, <2>3 DEF OwnMoves
  <2> QED
    BY <2>2, <2>3
<1>5. CASE BeginSnapshot(p) /\ job'[p] # NoJob
  BY <1>1, <1>5, SnapshotTaken
<1>6. CASE Diff(p) \/ CloneFile(p) \/ CloneFails(p)
  <2>1. job[p].pc \in {"diff", "clone"} /\ job[p].cmd = "reindex"
    BY <1>t, <1>6 DEF Diff, CloneFile, CloneFails, At, PlanHolds, OwnPcs
  <2>2. job'[p].snap = job[p].snap /\ job'[p].pc \in {"materialize", "clone"}
    <3>1. CASE Diff(p)
      BY <3>1, Diffed DEF Keeps
    <3>2. CASE CloneFile(p) \/ CloneFails(p)
      BY <3>2, Cloned DEF ClonesOne, Keeps
    <3> QED
      BY <1>6, <3>1, <3>2
  <2>3. HasExtracted(job[p], plan[p])
    BY <2>1 DEF HasExtracted, Rebuilding
  <2>4. revision[job[p].snap] = tree
    BY <1>t, <2>1, <2>3, StoredIsLive
  <2> QED
    BY <1>u, <1>n, <2>2, <2>4 DEF JobValid, Reading, MatchesLive, At
<1>7. CASE UpsertReindexed(p)
  BY <1>1, <1>7, RowsReindexed
<1>8. CASE CrashInClone(p)
  BY <1>2, <1>8, RTyped DEF CrashInClone, Finish
<1> QED
  BY <1>2, <1>3, <1>4, <1>5, <1>6, <1>7, <1>8 DEF OwnStep, Reads

LEMMA OwnDraftsSound ==
  ASSUME RTypeInv, NEW p \in Proc, DraftsSound(p),
         StartReindex(p) \/ OwnStep(p) \/ CrashInClone(p)
  PROVE  DraftsSound(p)'
<1>t. /\ TypeOK /\ job[p] \in Job /\ plan[p] \in Plan /\ PlanHolds(job[p], plan[p])
  BY RTyped
<1>1. ASSUME job'[p].pc \notin Building PROVE DraftsSound(p)'
  BY <1>1 DEF DraftsSound
<1>d. ASSUME job'[p].drafts = NoDrafts PROVE DraftsSound(p)'
  BY <1>d DEF DraftsSound, NoDrafts
<1>2. CASE job'[p] = NoJob
  BY <1>1, <1>2 DEF NoJob, Building
<1>3. CASE StartReindex(p)
  BY <1>d, <1>3, ReindexStarts
<1>4. CASE Reads(p) /\ job'[p] # NoJob
  <2>1. OwnMoves(job[p], job'[p], plan[p], plan'[p])
    BY <1>4, ReadsMove
  <2> QED
    BY <1>1, <2>1 DEF OwnMoves, Building
<1>5. CASE BeginSnapshot(p) /\ job'[p] # NoJob
  BY <1>1, <1>5, SnapshotTaken DEF Building
<1>6. CASE Diff(p)
  BY <1>d, <1>6, Diffed
<1>7. CASE CloneFile(p) \/ CloneFails(p)
  <2>1. job[p].pc = "clone" /\ job[p].cmd = "reindex"
    BY <1>t, <1>7 DEF CloneFile, CloneFails, At, PlanHolds, OwnPcs
  <2>2. job[p].drafts = NoDrafts
    BY <1>t, <2>1 DEF PlanHolds, Building, Ending
  <2>3. job'[p].drafts = job[p].drafts
    BY <1>7, Cloned DEF ClonesOne
  <2> QED
    BY <1>d, <2>2, <2>3
<1>8. CASE UpsertReindexed(p)
  <2>1. job'[p].drafts = job[p].drafts /\ job'[p].inventory = job[p].inventory
        /\ job[p].pc \in Building
    BY <1>8, RowsReindexed DEF Building
  <2> QED
    BY <2>1 DEF DraftsSound
<1>9. CASE CrashInClone(p)
  BY <1>2, <1>9, RTyped DEF CrashInClone, Finish
<1> QED
  BY <1>2, <1>3, <1>4, <1>5, <1>6, <1>7, <1>8, <1>9 DEF OwnStep, Reads

\* A cloned payload holds the text of the baseline's row, which is the text of
\* the file in the new inventory.
LEMMA OwnPayloadsSound ==
  ASSUME RTypeInv, RRowInv, QuietInv, \A q \in Proc : PlanSound(q), NEW p \in Proc,
         StartReindex(p) \/ OwnStep(p) \/ CrashInClone(p)
  PROVE  \A id \in ChunkId : payloads'[id] \notin {Null, Torn}
                               => payloads'[id] = files'[id[1]][id[2]]
<1>t. /\ TypeOK /\ job[p] \in Job /\ plan[p] \in Plan /\ PlanHolds(job[p], plan[p])
      /\ JobHolds(job[p]) /\ PlanSound(p)
  BY RTyped
<1>u. files' = files
  BY OwnStore
<1>q. \A id \in ChunkId : payloads[id] \notin {Null, Torn} => payloads[id] = files[id[1]][id[2]]
  BY DEF QuietInv, TextsSound
<1>1. CASE payloads' = payloads
  BY <1>u, <1>q, <1>1
<1>2. CASE CloneFile(p) \/ CloneFails(p)
  <2>p. job[p].pc = "clone" /\ job[p].cmd = "reindex"
    BY <1>t, <1>2 DEF CloneFile, CloneFails, At, PlanHolds, OwnPcs
  <2>f. PICK f \in Path : f \in plan[p].clones /\ ClonesOne(p, f)
    BY <1>2, Cloned
  <2>1. PICK layouts \in SUBSET {l \in Layouts(p, f) :
                                   payloads[<<plan[p].base, f, l>>] \in Content} :
          payloads' = Copied(p, f, layouts)
    BY <2>f DEF ClonesOne
  <2>2. /\ HasExtracted(job[p], plan[p]) /\ HasScanned(job[p], plan[p])
        /\ job[p].pc \in Rebuilding /\ job[p].pc # "list_baseline"
    BY <2>p DEF HasExtracted, HasScanned, Scanned, Rebuilding
  <2>3. /\ plan[p].files = files[plan[p].base] /\ job[p].inventory = tree
        /\ plan[p].files[f] = job[p].inventory[f]
    BY <1>t, <2>p, <2>f, <2>2 DEF PlanSound, Accounts
  <2>4. files[job[p].snap][f] = files[plan[p].base][f]
    BY <1>t, <2>p, <2>2, <2>3, StoredIsLive
  <2>5. plan[p].base \in Snap
    BY <1>t, <2>p DEF PlanHolds
  <2>6. ASSUME NEW id \in ChunkId, payloads'[id] \notin {Null, Torn}
        PROVE  payloads'[id] = files'[id[1]][id[2]]
    <3>1. CASE payloads'[id] = payloads[id]
      BY <1>u, <1>q, <2>6, <3>1
    <3>2. CASE /\ id[1] = job[p].snap /\ id[2] = f /\ id[3] \in layouts
               /\ payloads'[id] = payloads[<<plan[p].base, f, id[3]>>]
               /\ payloads'[id] \in Content
      <4>1. <<plan[p].base, f, id[3]>> \in ChunkId
        BY <2>5 DEF ChunkId
      <4>2. payloads[<<plan[p].base, f, id[3]>>] = files[plan[p].base][f]
        BY <1>q, <2>6, <3>2, <4>1
      <4> QED
        BY <1>u, <2>4, <3>2, <4>2
    <3> QED
      BY <2>1, <3>1, <3>2, CopiesAdd
  <2> QED
    BY <2>6
<1>3. CASE CrashInClone(p)
  BY <1>t, <1>u, <1>q, <1>3 DEF CrashInClone, TypeOK
<1> QED
  BY <1>1, <1>2, <1>3
  DEF OwnStep, StartReindex, ListBaselineFiles, ListBaselineChunks, Resolve, Preview,
      BeginSnapshot, CheckExtract, Diff, UpsertReindexed, RecordRun, disk

LEMMA QuietStep ==
  ASSUME RTypeInv, RRowInv, QuietInv, \A q \in Proc : PlanSound(q), NEW p \in Proc, RStep(p)
  PROVE  QuietInv'
<1>1. CASE (StartOrFault(p) \/ PipelineStep(p)) /\ KeepPlan(p)
  <2>1. ProcStep(p) /\ TypeInv /\ RowInv
    BY <1>1, SharedIsProc, RTyped DEF RRowInv
  <2> QED
    BY <2>1, ValidatedStep, CachesStep, DraftsStep, PayloadsStep DEF QuietInv, TextsSound
<1>2. CASE StartReindex(p) \/ OwnStep(p) \/ CrashInClone(p)
  <2>u. /\ UNCHANGED <<tree, revision, extracted, files, parserCache, chunkCache>>
        /\ \A q \in Proc : q # p => job'[q] = job[q]
    BY <1>2, OwnStore
  <2>1. \A q \in Proc : JobValid(q)'
    <3>1. ASSUME NEW q \in Proc, q # p PROVE JobValid(q)'
      BY <2>u, <3>1 DEF QuietInv, Validated, JobValid, Reading, MatchesLive, At
    <3> QED
      BY <1>2, <3>1, OwnJobValid
  <2>2. \A q \in Proc : DraftsSound(q)'
    <3>1. ASSUME NEW q \in Proc, q # p PROVE DraftsSound(q)'
      BY <2>u, <3>1 DEF QuietInv, TextsSound, DraftsSound
    <3> QED
      BY <1>2, <3>1, OwnDraftsSound DEF QuietInv, TextsSound
  <2>3. \A id \in ChunkId : payloads'[id] \notin {Null, Torn}
                              => payloads'[id] = files'[id[1]][id[2]]
    BY <1>2, OwnPayloadsSound
  <2> QED
    BY <2>u, <2>1, <2>2, <2>3 DEF QuietInv, Validated, InventoryMatchesRevision, CachesSound, TextsSound
<1> QED
  BY <1>1, <1>2 DEF RStep

\* An edit that disturbs nobody: no command is reading and no re-index runs.
LEMMA EditUndisturbed ==
  ASSUME UndisturbedInv, NEW f \in Path, NEW c \in Content \cup {Absent},
         EditBesideReindex(f, c), ~raced'
  PROVE  UndisturbedInv'
<1>1. /\ UNCHANGED <<revision, extracted, files, payloads, parserCache, chunkCache, job, plan, runs>>
      /\ \A p \in Proc : ~Reading(p) /\ job[p].cmd # "reindex"
  BY DEF EditBesideReindex, Edit, db, disk
<1>2. QuietInv'
  BY <1>1 DEF UndisturbedInv, QuietInv, Validated, JobValid, InventoryMatchesRevision, CachesSound,
     TextsSound, DraftsSound, Reading, At
<1>3. \A p \in Proc : PlanSound(p)'
  BY <1>1 DEF PlanSound
<1>4. RunsSound'
  BY <1>1 DEF UndisturbedInv, RunsSound, Accounted, Reasoned
<1> QED
  BY <1>2, <1>3, <1>4 DEF UndisturbedInv

LEMMA UndisturbedInit == ReindexInit => UndisturbedInv
<1>1. ReindexInit => QuietInv
  BY QuietInvInit DEF ReindexInit
<1>2. ReindexInit => RunsSound
  BY DEF ReindexInit, RunsSound
<1>3. ReindexInit => \A p \in Proc : PlanSound(p)
  BY DEF ReindexInit, Init, NoJob, PlanSound
<1> QED
  BY <1>1, <1>2, <1>3 DEF UndisturbedInv

LEMMA RacedStays ==
  ASSUME NEW p \in Proc, RStep(p) PROVE raced' = raced
BY DEF RStep, KeepPlan, StartReindex, OwnStep, ListBaselineFiles, ListBaselineChunks, Resolve,
   Preview, BeginSnapshot, CheckExtract, Diff, CloneFile, CloneFails, UpsertReindexed, RecordRun,
   CrashInClone

LEMMA UndisturbedStep ==
  RTypeInv /\ RRowInv /\ (raced \/ UndisturbedInv) /\ [ReindexNext]_reindexVars
    => (raced \/ UndisturbedInv)'
<1>1. ASSUME RTypeInv, RRowInv, raced \/ UndisturbedInv, NEW p \in Proc, RStep(p)
      PROVE  (raced \/ UndisturbedInv)'
  <2>1. CASE raced
    BY <1>1, <2>1, RacedStays
  <2>2. CASE UndisturbedInv
    BY <1>1, <2>2, PlansSound, RunsStep, QuietStep DEF UndisturbedInv
  <2> QED
    BY <1>1, <2>1, <2>2
<1>2. ASSUME raced \/ UndisturbedInv, NEW f \in Path, NEW c \in Content \cup {Absent},
             EditBesideReindex(f, c)
      PROVE  (raced \/ UndisturbedInv)'
  <2>1. CASE raced
    BY <1>2, <2>1 DEF EditBesideReindex
  <2>2. CASE ~raced
    BY <1>2, <2>2, EditUndisturbed
  <2> QED
    BY <2>1, <2>2
<1>3. ASSUME raced \/ UndisturbedInv, UNCHANGED reindexVars PROVE (raced \/ UndisturbedInv)'
  <2>1. UNCHANGED <<tree, revision, extracted, fingerprint, files, chunks, payloads, parserCache,
                    chunkCache, job, plan, runs, raced>>
    BY <1>3 DEF reindexVars, vars
  <2>2. QuietInv => QuietInv'
    BY <2>1 DEF QuietInv, Validated, JobValid, InventoryMatchesRevision, CachesSound,
       TextsSound, DraftsSound, Reading, MatchesLive, At
  <2>3. ASSUME NEW p \in Proc, PlanSound(p) PROVE PlanSound(p)'
    BY <2>1, <2>3
    DEF PlanSound, Indexed, NewestAre, Accounts, Drafted, HasOwnSnapshot, HasScanned, HasExtracted
  <2>4. RunsSound => RunsSound'
    BY <2>1 DEF RunsSound, Accounted, Reasoned
  <2> QED
    BY <1>3, <2>1, <2>2, <2>3, <2>4 DEF UndisturbedInv
<1> QED
  BY <1>1, <1>2, <1>3 DEF ReindexNext, RStep

LEMMA UndisturbedCorrect ==
  ReindexSpec => [](RTypeInv /\ RRowInv /\ (raced \/ UndisturbedInv))
BY RRowInvCorrect, UndisturbedInit, UndisturbedStep, PTL DEF ReindexSpec

\* Where edits wait for commands to end, none has raced.
LEMMA NeverRaced == ASSUME ~EditsRace PROVE ReindexSpec => []~raced
<1>1. ReindexInit => ~raced
  BY DEF ReindexInit
<1>2. ~raced /\ [ReindexNext]_reindexVars => ~raced'
  <2>1. ASSUME ~raced, NEW f \in Path, NEW c \in Content \cup {Absent}, EditBesideReindex(f, c)
        PROVE  ~raced'
    BY <2>1 DEF EditBesideReindex, Edit
  <2>2. UNCHANGED reindexVars => raced' = raced
    BY DEF reindexVars
  <2> QED
    BY <2>1, <2>2, RacedStays DEF ReindexNext, RStep
<1> QED
  BY <1>1, <1>2, PTL DEF ReindexSpec

\* Whatever other commands run beside it and fail, a re-index that no edit came
\* in between leaves an indexed snapshot of the repository as it is, and if
\* anything had changed, it is one like it that get_latest_indexed_snapshot finds.
THEOREM ReindexLeavesLiveSnapshot == ReindexSpec => []ReindexCatchesUp
<1>1. ASSUME RTypeInv, RRowInv, raced \/ UndisturbedInv PROVE ReindexCatchesUp
  <2>1. SUFFICES ASSUME UndisturbedInv, NEW p \in Proc, job[p].cmd = "reindex",
                        At(p, "record_provenance")
                 PROVE  /\ Indexed(job[p].snap)
                        /\ files[job[p].snap] = tree
                        /\ plan[p].reason # "no_change" =>
                             \A s \in Snap : IsLatestIndexed(s) => files[s] = tree
    BY <1>1 DEF ReindexCatchesUp
  <2>2. /\ job[p].pc \in Ending /\ job[p].pc \notin Deciding
        /\ PlanSound(p) /\ QuietInv /\ job[p].snap \in Snap
    BY <1>1, <2>1, RTyped DEF UndisturbedInv, At, Ending, Deciding, Planning, JobHolds
  <2>3. CASE plan[p].reason = "no_change"
    <3>1. /\ Indexed(plan[p].base) /\ plan[p].files = files[plan[p].base]
          /\ job[p].snap = plan[p].base
          /\ plan[p].reason = Classify(tree # plan[p].files, job[p].cfg # plan[p].prevFp)
      BY <2>1, <2>2, <2>3 DEF PlanSound, Ending
    <3> QED
      BY <2>3, <3>1, Reasoning
  <2>4. CASE plan[p].reason # "no_change"
    <3>1. /\ HasExtracted(job[p], plan[p]) /\ extracted[job[p].snap]
          /\ HasOwnSnapshot(job[p], plan[p]) /\ fingerprint[job[p].snap] # Null
          /\ NewestAre(job[p].snap, tree)
      BY <2>1, <2>2, <2>4 DEF HasExtracted, HasOwnSnapshot, PlanSound
    <3>2. Indexed(job[p].snap) /\ files[job[p].snap] = tree
      BY <1>1, <2>1, <2>2, <3>1, StoredIsLive DEF Indexed
    <3>3. ASSUME NEW s \in Snap, IsLatestIndexed(s) PROVE files[s] = tree
      <4>1. job[p].snap <= s /\ extracted[s]
        BY <2>2, <3>2, <3>3 DEF IsLatestIndexed, Indexed
      <4>2. revision[s] # Null /\ files[s] = revision[s]
        BY <1>1, <2>2, <4>1 DEF RRowInv, QuietInv, InventoryMatchesRevision
      <4> QED
        BY <2>2, <3>1, <4>1, <4>2 DEF NewestAre, Snap
    <3> QED
      BY <3>2, <3>3
  <2> QED
    BY <2>3, <2>4
<1> QED
  BY <1>1, UndisturbedCorrect, PTL

\* The counts of a stored run add up over both inventories, whichever clones
\* failed and were built instead.
THEOREM RunsAccountForInventories ==
  ASSUME ~EditsRace PROVE ReindexSpec => []RunAccountsForInventory
<1>1. UndisturbedInv => RunAccountsForInventory
  BY DEF UndisturbedInv, RunsSound, Accounted, RunAccountsForInventory
<1> QED
  BY <1>1, UndisturbedCorrect, NeverRaced, PTL

\* The reason a preview decided on is the difference of what was stored.
THEOREM ReasonsAreTruthful == ASSUME ~EditsRace PROVE ReindexSpec => []ReasonIsTruthful
<1>1. UndisturbedInv => ReasonIsTruthful
  BY DEF UndisturbedInv, RunsSound, Reasoned, ReasonIsTruthful
<1> QED
  BY <1>1, UndisturbedCorrect, NeverRaced, PTL

\* A cloned payload holds the text whose hash its row carries, unless torn.
THEOREM ReindexedTextsMatchHashes ==
  ASSUME ~EditsRace PROVE ReindexSpec => []TextMatchesHash
<1>1. RRowInv /\ UndisturbedInv => TextMatchesHash
  BY DEF RRowInv, RowInv, UndisturbedInv, QuietInv, TextsSound, RowHasPayload,
     RowMatchesInventory, TextMatchesHash
<1> QED
  BY <1>1, UndisturbedCorrect, NeverRaced, PTL

\* An inventory taken by a re-index is the tree its revision names.
THEOREM ReindexedInventoriesMatchRevisions ==
  ASSUME ~EditsRace PROVE ReindexSpec => []InventoryMatchesRevision
<1>1. UndisturbedInv => InventoryMatchesRevision
  BY DEF UndisturbedInv, QuietInv
<1> QED
  BY <1>1, UndisturbedCorrect, NeverRaced, PTL
=============================================================================
