---------------------------- MODULE IndexPipeline ----------------------------
(***************************************************************************)
(* The snapshot-to-chunks pipeline of codeman: `repo snapshot`, `index     *)
(* extract-sources` and `index build-chunks`, run by several command-line  *)
(* processes over one registered repository, one metadata.sqlite3 and one  *)
(* .codeman/ tree, while somebody edits the repository.                    *)
(*                                                                         *)
(* One action is one database transaction, one file write, or one look at  *)
(* the live repository: the points between which other processes, an edit  *)
(* or a crash can come.                                                    *)
(*                                                                         *)
(* Abstractions.  A content hash is the content it was computed from       *)
(* (sha256 is taken as injective) and a revision is the tree it was        *)
(* computed from.  The chunks of one file are one unit: LayoutOf names the *)
(* set of chunk ids that a text gets from a set of boundaries, so that two *)
(* results with one layout overwrite each other and two layouts lie side   *)
(* by side.  Looking at the whole tree (resolve, scan) is one step.        *)
(***************************************************************************)
EXTENDS Integers, FiniteSets

CONSTANTS
    Proc,        \* command-line processes
    Path,        \* relative paths of the source files; < is the sort order
    Content,     \* what a file may hold
    Structural,  \* contents in which the structural parser finds boundaries
    Config,      \* indexing fingerprints in use
    Layout,      \* names of chunk-id sets
    LayoutOf,    \* LayoutOf[text][cut]: chunk ids of text cut at cut's boundaries
    MaxSnap,     \* bound: snapshots created
    MaxEdits,    \* bound: edits of the live repository
    MaxFaults,   \* bound: crashes and I/O failures
    EditsRace,   \* may an edit land while a command is reading the repository?
    Absent, Null, Torn, Window   \* no file; no value; truncated file; fallback cut

Snap == 1..MaxSnap
Tree == [Path -> Content \cup {Absent}]
Cut == Content \cup {Window}
Draft == [text : Content, cut : Cut]
ChunkId == Snap \X Path \X Layout
ChunkRow == [hash : Content, cfg : Config]

ASSUME SortableAssumption == Path \subseteq Int
ASSUME ContentAssumption == Structural \subseteq Content
ASSUME LayoutAssumption == LayoutOf \in [Content -> [Cut -> Layout]]
ASSUME BoundAssumption == /\ MaxSnap \in Nat
                          /\ MaxEdits \in Nat
                          /\ MaxFaults \in Nat
                          /\ EditsRace \in BOOLEAN
ASSUME SentinelAssumption == /\ Absent \notin Content
                             /\ Null \notin Content \cup Config \cup Snap
                             /\ Null \notin Tree \cup Draft \cup ChunkRow
                             /\ Torn \notin Content \cup {Null}
                             /\ Window \notin Content

VARIABLES
    tree,         \* the live repository
    clock,        \* snapshot ids handed out, in created_at order
    manifests,    \* snapshots whose manifest.json exists
    revision,     \* snapshots rows: revision_identity, Null when there is no row
    extracted,    \* snapshots rows: source_inventory_extracted_at is set
    fingerprint,  \* snapshots rows: indexing_config_fingerprint (with chunked_at)
    files,        \* source_files rows: content hash by snapshot and path
    chunks,       \* chunks rows by id; cfg is history: what they were built under
    provenance,   \* run_provenance_records rows of the building commands
    payloads,     \* chunk payload files
    parserCache,  \* by path and hash: the text whose boundaries the entry holds
    chunkCache,   \* by path, hash and fingerprint: the cached drafts
    job,          \* what each process is doing
    edits, faults

db == <<revision, extracted, fingerprint, files, chunks, provenance>>
disk == <<manifests, payloads, parserCache, chunkCache>>
env == <<tree, edits, faults>>
vars == <<tree, clock, manifests, revision, extracted, fingerprint, files, chunks, provenance,
          payloads, parserCache, chunkCache, job, edits, faults>>

EmptyTree == [f \in Path |-> Absent]
NoDrafts == [f \in Path |-> Null]

\* A process's command, its position in it and its local variables.
NoJob == [cmd |-> "none", pc |-> "idle", snap |-> Null, rev |-> Null, cfg |-> Null,
          marked |-> FALSE, inventory |-> EmptyTree, todo |-> {}, drafts |-> NoDrafts]

Commands == {"none", "snapshot", "extract", "build", "reindex"}
Positions == {"idle", "write_manifest", "insert_snapshot", "check_extract", "scan",
              "insert_files", "mark_extracted", "diff", "list_files", "materialize",
              "write_payload", "mark_chunks", "record_provenance",
              "list_baseline", "list_baseline_chunks", "resolve", "preview",
              "begin_snapshot", "clone", "record_run"}
Job == [cmd : Commands, pc : Positions, snap : Snap \cup {Null},
        rev : Tree \cup {Null}, cfg : Config \cup {Null}, marked : BOOLEAN,
        inventory : Tree, todo : SUBSET Path, drafts : [Path -> Draft \cup {Null}]]

At(p, where) == job[p].pc = where
Goto(p, where) == job' = [job EXCEPT ![p].pc = where]
Finish(p) == job' = [job EXCEPT ![p] = NoJob]

\* A stage that is a command of its own ends the process; inside `index
\* reindex` the process goes on.
EndStage(p, where) ==
    job' = [job EXCEPT ![p] =
              IF job[p].cmd = "reindex" THEN [job[p] EXCEPT !.pc = where] ELSE NoJob]

-----------------------------------------------------------------------------
\* The environment.

\* The process has validated the live tree and still has to read from it.
Reading(p) == job[p].pc \in {"scan", "list_files", "materialize", "write_payload"}

Edit(f, c) ==
    /\ edits < MaxEdits
    /\ tree[f] # c
    /\ EditsRace \/ \A p \in Proc : ~Reading(p)
    /\ tree' = [tree EXCEPT ![f] = c]
    /\ edits' = edits + 1
    /\ UNCHANGED <<clock, db, disk, job, faults>>

Fault == faults < MaxFaults /\ faults' = faults + 1

\* The process dies between two of its steps: nothing is undone.
Crash(p) ==
    /\ ~At(p, "idle")
    /\ Fault
    /\ Finish(p)
    /\ UNCHANGED <<tree, clock, db, disk, edits>>

-----------------------------------------------------------------------------
\* `repo snapshot`

\* Mutant: the row is inserted without a manifest on disk.
StartSnapshotNoManifest(p) ==
    /\ At(p, "idle")
    /\ clock < MaxSnap
    /\ clock' = clock + 1
    /\ job' = [job EXCEPT ![p] = [NoJob EXCEPT !.cmd = "snapshot",
                                               !.pc = "insert_snapshot",
                                               !.snap = clock + 1,
                                               !.rev = tree]]
    /\ UNCHANGED <<env, db, disk>>

\* The revision is resolved, then created_at and the id are taken.
StartSnapshot(p) ==
    /\ At(p, "idle")
    /\ clock < MaxSnap
    /\ clock' = clock + 1
    /\ job' = [job EXCEPT ![p] = [NoJob EXCEPT !.cmd = "snapshot",
                                               !.pc = "write_manifest",
                                               !.snap = clock + 1,
                                               !.rev = tree]]
    /\ UNCHANGED <<env, db, disk>>

WriteManifest(p) ==
    /\ At(p, "write_manifest")
    /\ manifests' = manifests \cup {job[p].snap}
    /\ Goto(p, "insert_snapshot")
    /\ UNCHANGED <<env, clock, db, payloads, parserCache, chunkCache>>

InsertSnapshot(p) ==
    /\ At(p, "insert_snapshot")
    /\ revision' = [revision EXCEPT ![job[p].snap] = job[p].rev]
    /\ EndStage(p, "check_extract")
    /\ UNCHANGED <<env, clock, extracted, fingerprint, files, chunks, provenance, disk>>

\* The insert raises: the manifest is removed again.
SnapshotInsertFails(p) ==
    /\ At(p, "insert_snapshot")
    /\ Fault
    /\ manifests' = manifests \ {job[p].snap}
    /\ Finish(p)
    /\ UNCHANGED <<tree, edits, clock, db, payloads, parserCache, chunkCache>>

-----------------------------------------------------------------------------
\* `index extract-sources`

\* Mutant: only the existence of the snapshot is checked.
MatchesAnything(s) == revision[s] # Null

\* The live revision is the one the snapshot was taken of.
MatchesLive(s) == revision[s] # Null /\ tree = revision[s]

\* An unknown snapshot or another live revision is refused: nothing changes.
StartExtract(p) ==
    /\ At(p, "idle")
    /\ \E s \in Snap :
         /\ MatchesLive(s)
         /\ job' = [job EXCEPT ![p] = [NoJob EXCEPT !.cmd = "extract", !.pc = "scan",
                                                    !.snap = s]]
    /\ UNCHANGED <<env, clock, db, disk>>

Scan(p) ==
    /\ At(p, "scan")
    /\ job' = [job EXCEPT ![p].inventory = tree, ![p].pc = "insert_files"]
    /\ UNCHANGED <<env, clock, db, disk>>

\* Mutant: a second extraction updates the rows it finds.
InsertFilesOverwriting(p) ==
    /\ At(p, "insert_files")
    /\ files' = [files EXCEPT ![job[p].snap] = job[p].inventory]
    /\ Goto(p, "mark_extracted")
    /\ UNCHANGED <<env, clock, revision, extracted, fingerprint, chunks, provenance, disk>>

\* ON CONFLICT (snapshot_id, relative_path) DO NOTHING: the first row stays.
InsertFiles(p) ==
    /\ At(p, "insert_files")
    /\ files' = [files EXCEPT ![job[p].snap] =
                   [f \in Path |-> IF @[f] # Absent THEN @[f] ELSE job[p].inventory[f]]]
    /\ Goto(p, "mark_extracted")
    /\ UNCHANGED <<env, clock, revision, extracted, fingerprint, chunks, provenance, disk>>

MarkExtracted(p) ==
    /\ At(p, "mark_extracted")
    /\ extracted' = [extracted EXCEPT ![job[p].snap] = TRUE]
    /\ EndStage(p, "diff")
    /\ UNCHANGED <<env, clock, revision, fingerprint, files, chunks, provenance, disk>>

-----------------------------------------------------------------------------
\* `index build-chunks`

StartBuild(p) ==
    /\ At(p, "idle")
    /\ \E s \in Snap, c \in Config :
         /\ MatchesLive(s)
         /\ job' = [job EXCEPT ![p] = [NoJob EXCEPT !.cmd = "build", !.pc = "list_files",
                                                    !.snap = s, !.cfg = c,
                                                    !.marked = extracted[s]]]
    /\ UNCHANGED <<env, clock, db, disk>>

\* No inventory and no extraction mark: the command is refused.
ListFiles(p) ==
    LET inventory == files[job[p].snap] IN
    /\ At(p, "list_files")
    /\ IF inventory = EmptyTree /\ ~job[p].marked
       THEN Finish(p)
       ELSE job' = [job EXCEPT ![p].inventory = inventory,
                               ![p].todo = {f \in Path : inventory[f] # Absent},
                               ![p].pc = "materialize"]
    /\ UNCHANGED <<env, clock, db, disk>>

\* Files are materialized in path order; a re-index takes them in any order
\* here (its files that could not be cloned come after the others).
NextFile(p, f) ==
    /\ f \in job[p].todo
    /\ At(p, "write_payload") => job[p].drafts[f] # Null
    /\ job[p].cmd = "reindex" \/ \A g \in job[p].todo : f <= g

\* Mutant: the key leaves the content hash out.
CacheKeyByPath(p, f) == <<f, CHOOSE c \in Content : TRUE, job[p].cfg>>

CacheKey(p, f) == <<f, job[p].inventory[f], job[p].cfg>>

StructuralHit(p, f) == /\ chunkCache[CacheKey(p, f)] # Null
                       /\ chunkCache[CacheKey(p, f)].cut # Window

\* The drafts of the file are known; its payload is written next.
TakeDrafts(p, f, d) ==
    job' = [job EXCEPT ![p].drafts[f] = d, ![p].pc = "write_payload"]

\* Cached structural drafts are used without a look at the file.
ReuseDrafts(p) ==
    /\ At(p, "materialize")
    /\ \E f \in Path : /\ NextFile(p, f)
                       /\ StructuralHit(p, f)
                       /\ TakeDrafts(p, f, chunkCache[CacheKey(p, f)])
    /\ UNCHANGED <<env, clock, db, disk>>

\* The structural path gave no drafts: cached fallback drafts are reused,
\* otherwise the live text is cut into windows and cached.
FallBack(p, f) ==
    LET cached == chunkCache[CacheKey(p, f)]
        windows == [text |-> tree[f], cut |-> Window] IN
    IF cached # Null
    THEN TakeDrafts(p, f, cached) /\ UNCHANGED chunkCache
    ELSE /\ TakeDrafts(p, f, windows)
         /\ chunkCache' = [chunkCache EXCEPT ![CacheKey(p, f)] = windows]

\* Boundaries come from the parser cache or from parsing the live text; the
\* cache keys carry the inventory's hash, the drafts the live text.
GenerateDrafts(p) ==
    /\ At(p, "materialize")
    /\ \E f \in Path :
         LET key == <<f, job[p].inventory[f]>>
             cut == IF parserCache[key] # Null THEN parserCache[key] ELSE tree[f]
             drafts == [text |-> tree[f], cut |-> cut] IN
         /\ NextFile(p, f)
         /\ ~StructuralHit(p, f)
         /\ tree[f] # Absent
         /\ parserCache' = [parserCache EXCEPT ![key] = cut]
         /\ IF cut \in Structural
            THEN /\ TakeDrafts(p, f, drafts)
                 /\ chunkCache' = [chunkCache EXCEPT ![CacheKey(p, f)] = drafts]
            ELSE FallBack(p, f)
    /\ UNCHANGED <<env, clock, db, manifests, payloads>>

\* Any exception of the parser or of its cache is taken as "no structure".
ParserRaises(p) ==
    /\ At(p, "materialize")
    /\ Fault
    /\ \E f \in Path : /\ NextFile(p, f)
                       /\ ~StructuralHit(p, f)
                       /\ tree[f] # Absent
                       /\ FallBack(p, f)
    /\ UNCHANGED <<tree, edits, clock, db, manifests, payloads, parserCache>>

\* The file has gone since the inventory was taken, or cannot be read: the
\* command fails.
ReadFails(p) ==
    /\ At(p, "materialize")
    /\ \E f \in Path :
         /\ NextFile(p, f) /\ ~StructuralHit(p, f)
         /\ (tree[f] = Absent /\ UNCHANGED faults) \/ Fault
    /\ Finish(p)
    /\ UNCHANGED <<tree, edits, clock, db, disk>>

IdOf(p, f) == LET d == job[p].drafts[f] IN <<job[p].snap, f, LayoutOf[d.text][d.cut]>>

\* Mutant: a payload file that exists is left as it is.
WriteMissingPayload(p) ==
    /\ At(p, "write_payload")
    /\ \E f \in Path :
         /\ NextFile(p, f)
         /\ payloads' = [payloads EXCEPT ![IdOf(p, f)] =
                           IF @ # Null THEN @ ELSE job[p].drafts[f].text]
         /\ job' = [job EXCEPT ![p].todo = @ \ {f}, ![p].pc = "materialize"]
    /\ UNCHANGED <<env, clock, db, manifests, parserCache, chunkCache>>

WritePayload(p) ==
    /\ At(p, "write_payload")
    /\ \E f \in Path :
         /\ NextFile(p, f)
         /\ payloads' = [payloads EXCEPT ![IdOf(p, f)] = job[p].drafts[f].text]
         /\ job' = [job EXCEPT ![p].todo = @ \ {f}, ![p].pc = "materialize"]
    /\ UNCHANGED <<env, clock, db, manifests, parserCache, chunkCache>>

\* The process dies inside write_text: the payload file is truncated.
CrashInPayload(p) ==
    /\ At(p, "write_payload")
    /\ Fault
    /\ \E f \in Path : NextFile(p, f) /\ payloads' = [payloads EXCEPT ![IdOf(p, f)] = Torn]
    /\ Finish(p)
    /\ UNCHANGED <<tree, edits, clock, db, manifests, parserCache, chunkCache>>

\* The process dies inside a cache write: the truncated entry reads as a miss.
CrashInCache(p) ==
    /\ At(p, "materialize")
    /\ Fault
    /\ \E f \in Path :
         /\ NextFile(p, f)
         /\ ~StructuralHit(p, f)
         /\ tree[f] # Absent
         /\ \/ /\ parserCache' = [parserCache EXCEPT ![<<f, job[p].inventory[f]>>] = Null]
               /\ UNCHANGED chunkCache
            \/ /\ chunkCache' = [chunkCache EXCEPT ![CacheKey(p, f)] = Null]
               /\ UNCHANGED parserCache
    /\ Finish(p)
    /\ UNCHANGED <<tree, edits, clock, db, manifests, payloads>>

\* The rows of the drafts a process holds, with the given content hashes.
UpsertRows(p, hashes) ==
    chunks' = [id \in ChunkId |->
                 IF job[p].drafts[id[2]] # Null /\ id = IdOf(p, id[2])
                 THEN [hash |-> hashes[id[2]], cfg |-> job[p].cfg]
                 ELSE chunks[id]]

\* Mutant: the rows of a file may be committed before the other files are done.
UpsertPerFile(p) ==
    /\ At(p, "materialize")
    /\ UpsertRows(p, job[p].inventory)
    /\ Goto(p, "mark_chunks")
    /\ UNCHANGED <<env, clock, revision, extracted, fingerprint, files, provenance, disk>>

\* All rows of the build in one transaction; a row with the same id is replaced.
UpsertChunks(p) ==
    /\ At(p, "materialize")
    /\ job[p].todo = {}
    /\ UpsertRows(p, job[p].inventory)
    /\ Goto(p, "mark_chunks")
    /\ UNCHANGED <<env, clock, revision, extracted, fingerprint, files, provenance, disk>>

\* A re-index records its run before its provenance, a build only provenance.
AfterMark(p) == IF job[p].cmd = "reindex" THEN "record_run" ELSE "record_provenance"

\* Mutant: a fingerprint that is set stays.
MarkChunksOnce(p) ==
    /\ At(p, "mark_chunks")
    /\ fingerprint' = [fingerprint EXCEPT ![job[p].snap] = IF @ # Null THEN @ ELSE job[p].cfg]
    /\ Goto(p, AfterMark(p))
    /\ UNCHANGED <<env, clock, revision, extracted, files, chunks, provenance, disk>>

MarkChunks(p) ==
    /\ At(p, "mark_chunks")
    /\ fingerprint' = [fingerprint EXCEPT ![job[p].snap] = job[p].cfg]
    /\ Goto(p, AfterMark(p))
    /\ UNCHANGED <<env, clock, revision, extracted, files, chunks, provenance, disk>>

ProvenanceRow == [cmd : Commands, snap : Snap, cfg : Config]

RecordProvenance(p) ==
    /\ At(p, "record_provenance")
    /\ provenance' = provenance \cup
         {[cmd |-> job[p].cmd, snap |-> job[p].snap, cfg |-> job[p].cfg]}
    /\ Finish(p)
    /\ UNCHANGED <<env, clock, revision, extracted, fingerprint, files, chunks, disk>>

-----------------------------------------------------------------------------
Init ==
    /\ tree \in Tree
    /\ clock = 0
    /\ manifests = {}
    /\ revision = [s \in Snap |-> Null]
    /\ extracted = [s \in Snap |-> FALSE]
    /\ fingerprint = [s \in Snap |-> Null]
    /\ files = [s \in Snap |-> EmptyTree]
    /\ chunks = [id \in ChunkId |-> Null]
    /\ provenance = {}
    /\ payloads = [id \in ChunkId |-> Null]
    /\ parserCache = [k \in Path \X Content |-> Null]
    /\ chunkCache = [k \in Path \X Content \X Config |-> Null]
    /\ job = [p \in Proc |-> NoJob]
    /\ edits = 0
    /\ faults = 0

\* The stages that `index reindex` shares with the three commands.
SharedStep(p) ==
    \/ WriteManifest(p)
    \/ InsertSnapshot(p)
    \/ Scan(p)
    \/ InsertFiles(p)
    \/ MarkExtracted(p)
    \/ ListFiles(p)
    \/ ReuseDrafts(p)
    \/ GenerateDrafts(p)
    \/ ReadFails(p)
    \/ WritePayload(p)
    \/ MarkChunks(p)
    \/ RecordProvenance(p)

StageStep(p) == SharedStep(p) \/ UpsertChunks(p)

FaultStep(p) ==
    \/ Crash(p)
    \/ SnapshotInsertFails(p)
    \/ ParserRaises(p)
    \/ CrashInPayload(p)
    \/ CrashInCache(p)

Next ==
    \/ \E f \in Path, c \in Content \cup {Absent} : Edit(f, c)
    \/ \E p \in Proc :
         \/ StartSnapshot(p)
         \/ StartExtract(p)
         \/ StartBuild(p)
         \/ StageStep(p)
         \/ FaultStep(p)

\* A started command is an ordinary process: the scheduler lets it run.
Fairness == \A p \in Proc : WF_vars(StageStep(p))

Spec == Init /\ [][Next]_vars /\ Fairness

-----------------------------------------------------------------------------
TypeOK ==
    /\ tree \in Tree
    /\ clock \in 0..MaxSnap
    /\ manifests \subseteq Snap
    /\ revision \in [Snap -> Tree \cup {Null}]
    /\ extracted \in [Snap -> BOOLEAN]
    /\ fingerprint \in [Snap -> Config \cup {Null}]
    /\ files \in [Snap -> Tree]
    /\ chunks \in [ChunkId -> ChunkRow \cup {Null}]
    /\ provenance \subseteq ProvenanceRow
    /\ payloads \in [ChunkId -> Content \cup {Null, Torn}]
    /\ parserCache \in [Path \X Content -> Content \cup {Null}]
    /\ chunkCache \in [Path \X Content \X Config -> Draft \cup {Null}]
    /\ job \in [Proc -> Job]
    /\ edits \in 0..MaxEdits
    /\ faults \in 0..MaxFaults
-----------------------------------------------------------------------------
\* What holds whatever the interleaving, the edits and the crashes.

\* A chunk row never exists without its payload file: build_for_source_file
\* writes every payload before the rows are committed, and nothing deletes one.
RowHasPayload == \A id \in ChunkId : chunks[id] # Null => payloads[id] # Null

\* A chunk row belongs to an inventory row of its snapshot and carries that
\* row's content hash, however extractions and builds of the snapshot overlap.
RowMatchesInventory ==
    \A id \in ChunkId : chunks[id] # Null => files[id[1]][id[2]] = chunks[id].hash

\* A snapshot row always has its manifest on disk (it is written first), also
\* after a failed insert removed the manifest of another attempt.
SnapshotHasManifest == \A s \in Snap : revision[s] # Null => s \in manifests

\* "First inventory wins": a recorded content hash of a snapshot never changes,
\* not even when two extractions of it straddle an edit.
InventoryFrozen ==
    [][\A s \in Snap, f \in Path :
         files[s][f] # Absent => files'[s][f] = files[s][f]]_vars

-----------------------------------------------------------------------------
\* What holds as long as no edit lands between a command's revision check and
\* its last read (~EditsRace); edits between commands are unrestricted.

\* An extracted snapshot's inventory is the tree its revision names, although
\* revision and inventory are taken by two commands with edits between them.
InventoryMatchesRevision == \A s \in Snap : extracted[s] => files[s] = revision[s]

\* The text in a chunk's payload is the text whose hash the row carries, also
\* when it came out of the parser or chunk cache of an earlier command.
TextMatchesHash ==
    \A id \in ChunkId :
      chunks[id] # Null => payloads[id] \in {chunks[id].hash, Torn}

\* get_latest_indexed_snapshot: the snapshots a re-index or a query may use.
Indexed(s) == /\ extracted[s]
              /\ \/ fingerprint[s] # Null
                 \/ \E f \in Path, l \in Layout : chunks[<<s, f, l>>] # Null

\* A snapshot that counts as indexed has chunk rows for every file of its
\* inventory: a crash or a concurrent command never exposes half a build.
IndexedIsComplete ==
    \A s \in Snap : Indexed(s) =>
      \A f \in Path : files[s][f] # Absent => \E l \in Layout : chunks[<<s, f, l>>] # Null

\* A build that gets as far as its mark leaves every payload it wrote readable
\* and current: running a command again repairs what a crash truncated.
BuildRepairsPayloads ==
    \A p \in Proc : At(p, "mark_chunks") =>
      \A f \in Path : job[p].drafts[f] # Null =>
        payloads[IdOf(p, f)] = job[p].inventory[f]

\* Until something fails, every file of a snapshot has the rows of exactly one
\* layout: rebuilding, also under another fingerprint, leaves no stale rows.
NoStaleRows ==
    faults = 0 =>
      \A id1, id2 \in ChunkId :
        /\ chunks[id1] # Null /\ chunks[id2] # Null
        /\ id1[1] = id2[1] /\ id1[2] = id2[2]
        => id1 = id2

\* The fingerprint on a snapshot row is the one its chunks were built under.
AttributedToBuild ==
    \A id \in ChunkId :
      LET s == id[1] IN
      chunks[id] # Null /\ fingerprint[s] # Null => chunks[id].cfg = fingerprint[s]

\* Between two commands the attribution is exact, and the fingerprint a snapshot
\* carries has a provenance record, unless something failed.  So it is for a user
\* who runs one command at a time; builds of one snapshot that overlap break it,
\* since rows and mark are two transactions.
AttributedBetweenCommands ==
    faults = 0 /\ (\A p \in Proc : At(p, "idle")) =>
      /\ AttributedToBuild
      /\ \A s \in Snap : fingerprint[s] # Null =>
           \E r \in provenance : r.snap = s /\ r.cfg = fingerprint[s]

\* Every command comes to its end once it has started.
CommandsEnd == \A p \in Proc : ~At(p, "idle") ~> At(p, "idle")
=============================================================================
