------------------------------- MODULE Reindex -------------------------------
(***************************************************************************)
(* `index reindex`: compare the live repository with the latest indexed    *)
(* snapshot, and if something changed take a new snapshot, clone the       *)
(* chunks of unchanged files out of the old one and build the others.      *)
(*                                                                         *)
(* Snapshot creation, extraction, materialization and the mark are the     *)
(* steps of IndexPipeline, taken by a process whose command is "reindex";  *)
(* any of the three other commands may run beside it.                      *)
(***************************************************************************)
EXTENDS IndexPipeline

\* The files of a run are counted.
ASSUME FiniteAssumption == IsFiniteSet(Path)

VARIABLES
    plan,   \* what each re-index remembers of its baseline and of its choices
    runs,   \* reindex_runs rows
    raced   \* history: an edit landed while a command read or a re-index ran

reindexVars == <<vars, plan, runs, raced>>

NoRows == [at \in Path \X Layout |-> Null]
NoPlan == [base |-> Null, prevFp |-> Null, files |-> EmptyTree, rows |-> NoRows,
           reason |-> "none", clones |-> {}, reused |-> {}]

Reasons == {"no_change", "source_changed", "config_changed", "source_and_config_changed"}

Plan == [base : Snap \cup {Null}, prevFp : Config \cup {Null}, files : Tree,
         rows : [Path \X Layout -> ChunkRow \cup {Null}],
         reason : Reasons \cup {"none"}, clones : SUBSET Path, reused : SUBSET Path]

\* inherited is history: the fingerprints the reused rows were built under.
Run == [prev : Snap, result : Snap, resultRev : Tree, prevFp : Config, fp : Config,
        reason : Reasons, reused : Nat, rebuilt : Nat, removed : Nat,
        inherited : SUBSET Config]

Present(t) == {f \in Path : t[f] # Absent}

\* Mutant: a change of the fingerprint is not a reason of its own.
ClassifySourceOnly(sourceChanged, configChanged) ==
    IF sourceChanged THEN "source_changed" ELSE "no_change"

Classify(sourceChanged, configChanged) ==
    CASE sourceChanged /\ configChanged -> "source_and_config_changed"
      [] sourceChanged /\ ~configChanged -> "source_changed"
      [] ~sourceChanged /\ configChanged -> "config_changed"
      [] OTHER -> "no_change"

-----------------------------------------------------------------------------
\* Planning against the baseline.

\* get_latest_indexed_snapshot: created_at descending, that is the largest id.
IsLatestIndexed(s) == Indexed(s) /\ \A t \in Snap : Indexed(t) => t <= s

\* Mutant: the previous fingerprint is always taken to be the current one.
PreviousIsCurrent(s, c) == c

\* Mutant: a snapshot that was never marked has no previous fingerprint.
PreviousUnresolved(s, c) == fingerprint[s]

PreviousFingerprint(s, c) == IF fingerprint[s] # Null THEN fingerprint[s] ELSE c

\* Without an indexed snapshot the command is refused: nothing changes.
StartReindex(p) ==
    /\ At(p, "idle")
    /\ \E s \in Snap, c \in Config :
         /\ IsLatestIndexed(s)
         /\ job' = [job EXCEPT ![p] = [NoJob EXCEPT !.cmd = "reindex",
                                                    !.pc = "list_baseline",
                                                    !.snap = s, !.cfg = c]]
         /\ plan' = [plan EXCEPT ![p] = [NoPlan EXCEPT !.base = s,
                                           !.prevFp = PreviousFingerprint(s, c)]]
    /\ UNCHANGED <<env, clock, db, disk, runs, raced>>

ListBaselineFiles(p) ==
    /\ At(p, "list_baseline")
    /\ plan' = [plan EXCEPT ![p].files = files[plan[p].base]]
    /\ Goto(p, "list_baseline_chunks")
    /\ UNCHANGED <<env, clock, db, disk, runs, raced>>

ListBaselineChunks(p) ==
    /\ At(p, "list_baseline_chunks")
    /\ plan' = [plan EXCEPT ![p].rows =
                  [at \in Path \X Layout |-> chunks[<<plan[p].base, at[1], at[2]>>]]]
    /\ Goto(p, "resolve")
    /\ UNCHANGED <<env, clock, db, disk, runs, raced>>

Resolve(p) ==
    /\ At(p, "resolve")
    /\ job' = [job EXCEPT ![p].rev = tree, ![p].pc = "preview"]
    /\ UNCHANGED <<env, clock, db, disk, plan, runs, raced>>

\* Mutant: the preview looks for added and changed files only.
PreviewIgnoringRemoved(p) ==
    LET sourceChanged == \E f \in Present(tree) : tree[f] # plan[p].files[f]
        reason == Classify(sourceChanged, job[p].cfg # plan[p].prevFp) IN
    /\ At(p, "preview")
    /\ IF reason = "no_change"
       THEN /\ plan' = [plan EXCEPT ![p].reason = reason, ![p].reused = Present(tree)]
            /\ Goto(p, "record_run")
       ELSE /\ plan' = [plan EXCEPT ![p].reason = reason]
            /\ Goto(p, "begin_snapshot")
    /\ UNCHANGED <<env, clock, db, disk, runs, raced>>

\* A scan that stores nothing decides what the run is for; without a change
\* the baseline is the result, and only a run is recorded.
Preview(p) ==
    LET reason == Classify(tree # plan[p].files, job[p].cfg # plan[p].prevFp) IN
    /\ At(p, "preview")
    /\ IF reason = "no_change"
       THEN /\ plan' = [plan EXCEPT ![p].reason = reason, ![p].reused = Present(tree)]
            /\ Goto(p, "record_run")
       ELSE /\ plan' = [plan EXCEPT ![p].reason = reason]
            /\ Goto(p, "begin_snapshot")
    /\ UNCHANGED <<env, clock, db, disk, runs, raced>>

\* The snapshot command as a stage.  At the bound MaxSnap the command gives up.
BeginSnapshot(p) ==
    /\ At(p, "begin_snapshot")
    /\ IF clock = MaxSnap
       THEN /\ Finish(p)
            /\ plan' = [plan EXCEPT ![p] = NoPlan]
            /\ UNCHANGED clock
       ELSE /\ clock' = clock + 1
            /\ job' = [job EXCEPT ![p].snap = clock + 1, ![p].rev = tree,
                                  ![p].pc = "write_manifest"]
            /\ UNCHANGED plan
    /\ UNCHANGED <<env, db, disk, runs, raced>>

\* The extract command as a stage.
CheckExtract(p) ==
    /\ At(p, "check_extract")
    /\ IF MatchesLive(job[p].snap)
       THEN Goto(p, "scan") /\ UNCHANGED plan
       ELSE Finish(p) /\ plan' = [plan EXCEPT ![p] = NoPlan]
    /\ UNCHANGED <<env, clock, db, disk, runs, raced>>

\* Mutant: the scan's own hashes are taken, not the rows an earlier extraction left.
ScannedInventory(p) == job[p].inventory

\* The stored rows of the files that were scanned.
StoredInventory(p) ==
    [f \in Path |-> IF job[p].inventory[f] # Absent THEN files[job[p].snap][f] ELSE Absent]

Unchanged(p, inventory) == {f \in Present(inventory) : plan[p].files[f] = inventory[f]}

\* With another fingerprint everything is rebuilt, otherwise what changed.
Diff(p) ==
    LET inventory == StoredInventory(p)
        reusable == IF job[p].cfg = plan[p].prevFp THEN Unchanged(p, inventory) ELSE {} IN
    /\ At(p, "diff")
    /\ job' = [job EXCEPT ![p].inventory = inventory,
                          ![p].todo = Present(inventory) \ reusable,
                          ![p].pc = IF reusable = {} THEN "materialize" ELSE "clone"]
    /\ plan' = [plan EXCEPT ![p].clones = reusable]
    /\ UNCHANGED <<env, clock, db, disk, runs, raced>>

-----------------------------------------------------------------------------
\* Cloning the unchanged files, in path order.

NextClone(p, f) == f \in plan[p].clones /\ \A g \in plan[p].clones : f <= g

Layouts(p, f) == {l \in Layout : plan[p].rows[<<f, l>>] # Null}

Readable(p, f) == \A l \in Layouts(p, f) : payloads[<<plan[p].base, f, l>>] \in Content

\* Payloads of the new snapshot with the given layouts of f copied into it.
Copied(p, f, layouts) ==
    [id \in ChunkId |->
       IF id[1] = job[p].snap /\ id[2] = f /\ id[3] \in layouts
       THEN payloads[<<plan[p].base, f, id[3]>>]
       ELSE payloads[id]]

AfterClone(p, f) == IF plan[p].clones = {f} THEN "materialize" ELSE "clone"

\* Mutant: the rows are cloned, their payload files are not.
CloneRowsOnly(p) ==
    /\ At(p, "clone")
    /\ \E f \in Path :
         /\ NextClone(p, f)
         /\ Readable(p, f)
         /\ plan' = [plan EXCEPT ![p].clones = @ \ {f}, ![p].reused = @ \cup {f}]
         /\ Goto(p, AfterClone(p, f))
    /\ UNCHANGED <<env, clock, db, disk, runs, raced>>

\* Mutant: the payload files are copied without being parsed.
CloneUnparsed(p) ==
    /\ At(p, "clone")
    /\ \E f \in Path :
         /\ NextClone(p, f)
         /\ payloads' = Copied(p, f, Layouts(p, f))
         /\ plan' = [plan EXCEPT ![p].clones = @ \ {f}, ![p].reused = @ \cup {f}]
         /\ Goto(p, AfterClone(p, f))
    /\ UNCHANGED <<env, clock, db, manifests, parserCache, chunkCache, runs, raced>>

CloneFile(p) ==
    /\ At(p, "clone")
    /\ \E f \in Path :
         /\ NextClone(p, f)
         /\ Readable(p, f)
         /\ payloads' = Copied(p, f, Layouts(p, f))
         /\ plan' = [plan EXCEPT ![p].clones = @ \ {f}, ![p].reused = @ \cup {f}]
         /\ Goto(p, AfterClone(p, f))
    /\ UNCHANGED <<env, clock, db, manifests, parserCache, chunkCache, runs, raced>>

\* Mutant: the file is counted as reused before its payloads are read.
CloneFailsReused(p) ==
    /\ At(p, "clone")
    /\ \E f \in Path :
         /\ NextClone(p, f)
         /\ ~Readable(p, f)
         /\ plan' = [plan EXCEPT ![p].clones = @ \ {f}, ![p].reused = @ \cup {f}]
         /\ job' = [job EXCEPT ![p].todo = @ \cup {f}, ![p].pc = AfterClone(p, f)]
    /\ UNCHANGED <<env, clock, db, disk, runs, raced>>

\* Mutant: the clone is tried again until it succeeds.
CloneRetries(p) ==
    /\ At(p, "clone")
    /\ \E f \in Path : NextClone(p, f) /\ ~Readable(p, f)
    /\ UNCHANGED <<reindexVars>>

\* A payload cannot be read: the file is rebuilt after all; the payloads that
\* were copied before it stay.
CloneFails(p) ==
    /\ At(p, "clone")
    /\ \E f \in Path :
         /\ NextClone(p, f)
         /\ ~Readable(p, f)
         /\ \E copied \in SUBSET {l \in Layouts(p, f) :
                                    payloads[<<plan[p].base, f, l>>] \in Content} :
              payloads' = Copied(p, f, copied)
         /\ plan' = [plan EXCEPT ![p].clones = @ \ {f}]
         /\ job' = [job EXCEPT ![p].todo = @ \cup {f}, ![p].pc = AfterClone(p, f)]
    /\ UNCHANGED <<env, clock, db, manifests, parserCache, chunkCache, runs, raced>>

\* The process dies inside the write of a cloned payload.
CrashInClone(p) ==
    /\ At(p, "clone")
    /\ Fault
    /\ \E f \in Path, l \in Layout :
         /\ NextClone(p, f)
         /\ l \in Layouts(p, f)
         /\ payloads' = [payloads EXCEPT ![<<job[p].snap, f, l>>] = Torn]
    /\ Finish(p)
    /\ plan' = [plan EXCEPT ![p] = NoPlan]
    /\ UNCHANGED <<tree, edits, clock, db, manifests, parserCache, chunkCache, runs, raced>>

-----------------------------------------------------------------------------
\* Storing the result.

IsClone(p, id) == /\ id[1] = job[p].snap
                  /\ id[2] \in plan[p].reused
                  /\ id[3] \in Layouts(p, id[2])

CloneRow(p, id) ==
    [hash |-> job[p].inventory[id[2]], cfg |-> plan[p].rows[<<id[2], id[3]>>].cfg]

\* Cloned and rebuilt rows in one transaction.
UpsertReindexed(p) ==
    /\ At(p, "materialize")
    /\ job[p].cmd = "reindex"
    /\ job[p].todo = {}
    /\ chunks' = [id \in ChunkId |->
                    IF IsClone(p, id) THEN CloneRow(p, id)
                    ELSE IF job[p].drafts[id[2]] # Null /\ id = IdOf(p, id[2])
                    THEN [hash |-> job[p].inventory[id[2]], cfg |-> job[p].cfg]
                    ELSE chunks[id]]
    /\ Goto(p, "mark_chunks")
    /\ UNCHANGED <<env, clock, revision, extracted, fingerprint, files, provenance, disk,
                   plan, runs, raced>>

RunOf(p) ==
    LET noop == plan[p].reason = "no_change"
        inventory == job[p].inventory
        cloned == {at \in plan[p].reused \X Layout : plan[p].rows[at] # Null} IN
    [prev |-> plan[p].base, result |-> job[p].snap, resultRev |-> job[p].rev,
     prevFp |-> plan[p].prevFp, fp |-> job[p].cfg, reason |-> plan[p].reason,
     reused |-> Cardinality(plan[p].reused),
     rebuilt |-> Cardinality({f \in Path : job[p].drafts[f] # Null}),
     removed |-> IF noop THEN 0
                 ELSE Cardinality(Present(plan[p].files) \ Present(inventory)),
     inherited |-> {plan[p].rows[at].cfg : at \in cloned}]

RecordRun(p) ==
    /\ At(p, "record_run")
    /\ runs' = runs \cup {RunOf(p)}
    /\ Goto(p, "record_provenance")
    /\ UNCHANGED <<env, clock, db, disk, plan, raced>>

-----------------------------------------------------------------------------
ReindexInit ==
    /\ Init
    /\ plan = [p \in Proc |-> NoPlan]
    /\ runs = {}
    /\ raced = FALSE

\* A command that ends forgets its plan.
KeepPlan(p) ==
    /\ plan' = [plan EXCEPT ![p] = IF job'[p].pc = "idle" THEN NoPlan ELSE @]
    /\ UNCHANGED <<runs, raced>>

StartOrFault(p) == StartSnapshot(p) \/ StartExtract(p) \/ StartBuild(p) \/ FaultStep(p)

PipelineStep(p) == SharedStep(p) \/ (job[p].cmd = "build" /\ UpsertChunks(p))

OwnStep(p) ==
    \/ ListBaselineFiles(p)
    \/ ListBaselineChunks(p)
    \/ Resolve(p)
    \/ Preview(p)
    \/ BeginSnapshot(p)
    \/ CheckExtract(p)
    \/ Diff(p)
    \/ CloneFile(p)
    \/ CloneFails(p)
    \/ UpsertReindexed(p)
    \/ RecordRun(p)

\* Where edits do not race, none lands while a re-index runs.
EditBesideReindex(f, c) ==
    /\ EditsRace \/ \A p \in Proc : job[p].cmd # "reindex"
    /\ Edit(f, c)
    /\ raced' = (raced \/ \E p \in Proc : Reading(p) \/ job[p].cmd = "reindex")
    /\ UNCHANGED <<plan, runs>>

ReindexNext ==
    \/ \E f \in Path, c \in Content \cup {Absent} : EditBesideReindex(f, c)
    \/ \E p \in Proc :
         \/ StartOrFault(p) /\ KeepPlan(p)
         \/ PipelineStep(p) /\ KeepPlan(p)
         \/ StartReindex(p)
         \/ OwnStep(p)
         \/ CrashInClone(p)

\* A started command is an ordinary process: the scheduler lets it run.
ReindexFairness ==
    \A p \in Proc : WF_reindexVars(OwnStep(p) \/ (PipelineStep(p) /\ KeepPlan(p)))

ReindexSpec == ReindexInit /\ [][ReindexNext]_reindexVars /\ ReindexFairness
-----------------------------------------------------------------------------
ReindexTypeOK ==
    /\ TypeOK
    /\ plan \in [Proc -> Plan]
    /\ \A r \in runs : r \in Run
    /\ raced \in BOOLEAN

\* The counts a run stores account for every file of both inventories, however
\* clones failed and were rebuilt; the revision it stores is its inventory.
RunAccountsForInventory ==
    \A r \in runs :
      /\ r.reused + r.rebuilt = Cardinality(Present(files[r.result]))
      /\ r.removed = Cardinality(Present(files[r.prev]) \ Present(files[r.result]))
      /\ r.resultRev = files[r.result]

\* The stored reason, decided on a preview, is what the two stored inventories
\* and fingerprints say afterwards.
ReasonIsTruthful ==
    \A r \in runs :
      /\ r.reason \in {"source_changed", "source_and_config_changed"}
           <=> files[r.prev] # files[r.result]
      /\ r.reason \in {"config_changed", "source_and_config_changed"} <=> r.prevFp # r.fp

\* Unless an edit came in between, a re-index that got through leaves an indexed
\* snapshot of the repository as it is now, and it is the one that queries find,
\* if anything had changed: otherwise a build of an older state that was checked
\* before the re-index began may still be marked, and hide the result behind a
\* newer snapshot.
ReindexCatchesUp ==
    \/ raced
    \/ \A p \in Proc : job[p].cmd = "reindex" /\ At(p, "record_provenance") =>
         /\ Indexed(job[p].snap)
         /\ files[job[p].snap] = tree
         /\ plan[p].reason # "no_change" =>
              \A s \in Snap : IsLatestIndexed(s) => files[s] = tree

\* Chunks are reused only under the fingerprint they were built under.
ReuseUnderSameConfig == \A r \in runs : r.inherited \subseteq {r.fp}

\* A new snapshot that a re-index has marked has only readable payloads, also
\* when the baseline's were truncated.
ResultIsReadable ==
    \A p \in Proc :
      job[p].cmd = "reindex" /\ At(p, "record_run") /\ job[p].snap # plan[p].base =>
        \A id \in ChunkId : id[1] = job[p].snap /\ chunks[id] # Null =>
          payloads[id] = chunks[id].hash
=============================================================================
