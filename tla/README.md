# codeman: models and proofs

codeman is a command-line tool for local code retrieval. It registers a
repository, takes snapshots of it, extracts an inventory of its sources, cuts
the sources into chunks, builds lexical and semantic indexes over the chunks,
answers queries and benchmarks retrieval. There is no server: **every command is
one operating-system process**, and what commands share is

* the SQLite database `metadata.sqlite3`, where each `engine.begin()` block is
  one transaction and a command uses several of them,
* the files below `.codeman/`: manifests, chunk payloads, caches, index files,
  benchmark documents,
* the live repository, which developers edit at any time.

Nothing else coordinates two commands: there is no lock file and no transaction
around a command. What is hard about codeman is what happens between one
transaction, file write or look at the repository and the next.

Source paths below are relative to `src/src/codeman/`.

## 1. Inventory

| Component | State it keeps | Operations | What makes it correct |
|---|---|---|---|
| Registration (`application/repo/register_repository.py`) | `repositories` rows | register | one row per canonical path, also when two registrations race |
| Snapshot creation (`application/repo/create_snapshot.py`) | `snapshots` rows, `manifest.json` | `repo snapshot` | a row never lacks its manifest |
| Source extraction (`application/indexing/extract_source_files.py`) | `source_files` rows, the extraction mark | `index extract-sources` | the inventory is the tree that the snapshot's revision names, and never changes afterwards |
| Chunk generation (`application/indexing/build_chunks.py`, `chunk_materializer.py`) | `chunks` rows, payload files, the fingerprint of a snapshot | `index build-chunks` | rows have payloads whose text has the row's hash; half a build never looks indexed; a repeated build repairs |
| Parser and chunk caches (`infrastructure/cache/filesystem_cache_store.py`, `config/cache_identity.py`) | cache files by content hash and fingerprint | read, write | a hit is what generating afresh would give |
| Re-indexing (`application/repo/reindex_repository.py`) | `reindex_runs` rows | `index reindex` | the new snapshot is complete and current; the recorded reason and counts are true; only chunks of the same configuration are reused |
| Lexical index (`build_lexical_index.py`, `run_lexical_query.py`) | FTS5 file, `lexical_index_builds` rows | build, query | a query reads the index its build record describes |
| Semantic index (`build_semantic_index.py`, `build_embeddings.py`, `run_semantic_query.py`) | vector file, embedding cache, `semantic_index_builds` rows | build, query | as above; vectors belong to the texts they are stored for |
| Hybrid query (`run_hybrid_query.py`, `hybrid_fusion.py`) | none | query | both components describe one snapshot; fusion favours neither; totals say what is exact |
| Mode comparison (`compare_retrieval_modes.py`), result formatting | none | `compare query-modes` | the alignment table agrees with each mode's results |
| Benchmark execution (`application/evaluation/run_benchmark.py`) | `benchmark_runs` rows, `run.json` | `eval benchmark` | an interrupted run is recorded as failed with what it executed; row and file agree |
| Benchmark metrics, report, comparison (`calculate_benchmark_metrics.py`, `generate_report.py`, `compare_runs.py`) | `metrics.json`, a report | `eval report`, `compare benchmark-runs` | a report describes a run that is complete and stays so; evidence of two runs is never read as one's; what is said of several runs is what is said of every two |
| Metric formulas (`domain/evaluation/metrics.py`), dataset rules (`load_benchmark_dataset.py`) | none | calculate, validate | recall, rank and gain tell one story; no judgment is credited twice |
| Chunkers and parsers (`infrastructure/chunkers`, `infrastructure/parsers`) | none | cut a text | chunks tile the file |
| Strategy profiles (`config/retrieval_profiles.py`, profile repository) | profile rows | save, list, select | one content per name; what a user is told was saved stays; a replay is the saved configuration |
| Provenance (`application/provenance`) | `run_provenance_records` rows | record, show | a building command leaves a record of its configuration |
| Configuration loading (`config/loader.py`) | none | load | precedence of defaults, files, environment, flags |
| Command line, bootstrap, contracts | none | dispatch | thin; no decisions of their own |

`PROJECT.json` lists every component with its status, and under `hazards`
everything in this code that is hard to test, at its line.

### How the components interact

`repo snapshot` → `index extract-sources` → `index build-chunks` →
`index build-lexical` / `build-semantic` → `query …` → `eval benchmark` →
`eval report`. A stage finds the earlier ones through rows: a build checks that
the live revision still equals the snapshot's, a query looks for the latest
indexed snapshot, a report looks for a succeeded run. `index reindex` runs
the first three stages inside one process and clones chunks out of an older snapshot.
The caches are shared by all snapshots.

## 2. Modules

| Module | Models |
|---|---|
| `IndexPipeline` | snapshot, extraction, chunk generation and the caches, by several processes over one repository |
| `IndexPipelineProofs` | its type invariant and six safety properties, proved |
| `Reindex` | extends `IndexPipeline` with `index reindex` beside the three commands |
| `ReindexProofs` | the types of `Reindex`, that clones keep what `IndexPipeline` promises, and what an undisturbed re-index leaves behind and records about itself, proved |
| `BuildOutcomeProofs` | what the builds of several commands add up to: layouts, payloads, completeness, fingerprints, proved |
| `BenchmarkRun` | one benchmark run with its interruption handler, and a reviewer who asks for its report |
| `BenchmarkLedger` | the abstract specification of a run's row |
| `BenchmarkRunProofs` | the invariants of `BenchmarkRun`, its refinement of `BenchmarkLedger`, and what `RankMetrics` and `RunComparison` promise, proved |
| `IndexBuilds` | lexical and semantic index builds, the queries over them and the benchmark runs that pin them |
| `Ordering` | sorting by a key that no two elements share |
| `OrderLemmas` | that the greatest and least elements `CHOOSE` takes exist, that `Sorted` sorts, that one may use induction and recursion |
| `IndexBuildsProofs` | the types of `IndexBuilds`, five properties of builds and answers, and what `HybridQuery` promises, proved |
| `ConfigResolution` | how defaults, project, local file, profile and environment make one configuration |
| `Workspace` | extends `ConfigResolution` with registration, profiles, workflows under a profile, the database's first upgrade |
| `WorkspaceProofs` | the types of `Workspace`, what its users are told, and exact replay, proved |
| `ChunkLayout` | how one file is cut into structural chunks or windows |
| `ChunkLayoutProofs` | that the chunks tile the file, for files of any length, proved |
| `HybridQuery` | the answers of one mode, their fusion, and the comparison of modes |
| `RankMetrics` | the rules of a dataset, the metrics of a case, the latency percentile |
| `RunComparison` | whether evidence is of one run, and what is said of several runs |
| `MCIndexPipeline`, `MCReindex`, `MCBenchmarkRun`, `MCIndexBuilds`, `MCWorkspace` | the instances for TLC |

`IndexPipeline`, `Reindex`, `BenchmarkRun`, `IndexBuilds` and `Workspace` are state machines; `ConfigResolution`, `ChunkLayout`, `HybridQuery`,
`RankMetrics` and `RunComparison` are algorithms without state. What they promise is stated over all small inputs, and TLC evaluates it in the
run of the state machine that computes them, at the steps where it does: `ChunksTile` while a build cuts files,
`FusionIsFair`, `TotalsAreTruthful`, `AlignmentIsTruthful` when a hybrid query has read both components,
`MetricsAreTruthful` while a run is measured, `ComparisonsAreTruthful` once a reviewer reads evidence.

### IndexPipeline

One action is one database transaction, one file write, or one look at the live
repository, because between those anything else may happen. A process is a record
`job[p]`: its command, its position and its local variables.

| State | Code |
|---|---|
| `tree` | the live repository |
| `clock` | the creation order of snapshots (`created_at`) |
| `manifests` | `manifest.json` files |
| `revision`, `extracted`, `fingerprint` | columns of `snapshots` |
| `files` | `source_files`, the hash by snapshot and path |
| `chunks` | `chunks` rows; `cfg` is history: the configuration they were built under |
| `provenance` | `run_provenance_records` of the builds |
| `payloads` | chunk payload files, possibly truncated (`Torn`) |
| `parserCache`, `chunkCache` | cache files |

`StartSnapshot`, `WriteManifest`, `InsertSnapshot` (and `SnapshotInsertFails`,
which removes the manifest) are `repo snapshot`. `StartExtract`, `Scan`,
`InsertFiles`, `MarkExtracted` are `index extract-sources`. `StartBuild`, `ListFiles`, then per file
`ReuseDrafts` (a cache hit, the file is not read) or `GenerateDrafts` (the file is read and parsed,
or its boundaries come out of the parser cache; without structure it falls back to windows) and
`WritePayload`, then `UpsertChunks`, `MarkChunks`, `RecordProvenance` are
`index build-chunks`. `ParserRaises`, `ReadFails`, `Crash`, `CrashInPayload` and `CrashInCache` are
what may go wrong.

Abstractions: a content hash is the content (sha256 is taken to be injective)
and a revision is the tree it was computed from; a repository whose revision
is a git HEAD rather than a tree fingerprint is therefore modelled only with a clean work tree. The
chunks of one file are one unit, and `LayoutOf[text][cut]` names the set of ids
they get, because ids are made of spans: two results with one layout overwrite each
other, two layouts lie side by side. Files are not empty. The scanner's skip
rules are left out: a path of the model is one that is scanned.

### Reindex

`StartReindex`, `ListBaselineFiles`, `ListBaselineChunks`, `Resolve` and
`Preview` plan a run against the latest indexed snapshot; `BeginSnapshot` and `CheckExtract`
enter the stages of `IndexPipeline` with command `"reindex"`; `Diff` decides what
to clone; `CloneFile`, `CloneFails`, `CrashInClone` copy payloads file by file;
`UpsertReindexed` stores cloned and rebuilt rows in one transaction; `RecordRun`
appends to `reindex_runs`. `plan[p]` holds what the process remembers of its
baseline: it is stale as soon as another process writes.

### BenchmarkRun

A run leaves evidence in four places that no transaction spans: its row,
`run.json`, `metrics.json`, its provenance row. `pc` walks through
`RunBenchmarkUseCase.execute`: create the row, execute and count each case,
write `run.json` twice (without and with its own path), update the row to
`succeeded`, record provenance, leave the block that traps SIGINT and SIGTERM,
then calculate the metrics and write them the same way. `RaisedAt` says where a
raised exception leads: the handler (`CheckStarted`), which finalizes the run
as failed through the same steps; or, when that finalization is disturbed too, `FallBackToRow`; or
out of the command. `Signal`, `Failure` and `Kill` disturb a step and
may tear the file it was writing. `ReadRow` … `ReadProvenance` are the reads of
`eval report`, one after the other.

Of the cases only their number is kept; of a document its status, its number of cases and whether
it names its own path. A handler that raises `SystemExit(0)` is left out. `compare
benchmark-runs` performs the same reads for each of its runs.

`BenchmarkLedger` says what the row promises those who list or compare runs: it is
created running, counts one case at a time, succeeds only when complete, is never
reopened, may be turned from succeeded to failed only before it names its metrics, and
does not change once it does. `KeepsLedger` is the refinement, with the row mapped to
its status, its count and whether it names metrics.

### IndexBuilds

An index is a file, a build is a row that describes it, and a query finds a row first and reads
the file afterwards. `rows` and `mark` are what is left of `IndexPipeline`: the two commits of a
chunk build. `StartBuild` reads the snapshot row, `ListChunks` the chunk rows (and refuses);
then a lexical build goes `ReplaceLexical`, `Stamp`, `CreateLexicalBuild`, `Record`, a semantic one `Embed`
(through the embedding cache), `ReplaceVectors`, `Stamp`, `CreateSemanticBuild`, `Record`.
`Stamp` takes `created_at`, which is earlier than the row's transaction. A query or a benchmark run
goes `ResolveLexical`, `ReadLexical`, `ResolveSemantic`, `ReadVectors` as its mode has it, a hybrid benchmark run
resolves both first, and every case of a benchmark run reads again with the builds pinned at its start. `Fail`
ends a command anywhere: whatever was written stays.

`lexicalFile` has one entry for each snapshot, `vectorFile` one for each snapshot and semantic fingerprint:
those are the paths of the code. `provenance` holds, besides the build ids that the code records, what
the answer was really computed from; the properties compare the two. `alone` records that no two
commands have overlapped and none has failed.

Abstractions: the chunks of a snapshot are one unit in each of two layouts (a parser failure adds the
other layout to the rows that are there); payload files are not modelled, since a missing or torn one fails
the command and `Fail` has that; ranking and the vectors' numbers are left out.

### ConfigResolution and Workspace

A layer is a partial configuration: `Unset` is a key that is not there, `Null` one that is there and
null, and the difference is what `_merge_nested_dicts` turns on. `Load` merges the layers in the order of
`load_app_config`; settings that are merged alike are one setting (`salt`), and of the provider's block one
plain field and the secret are kept. The canonical content stands for the id hashed from it.

`Begin`, `LoadBase`, `Select`, `Reload` are `bootstrap`: the configuration is loaded without the profile to find the
database, the selector is resolved there, and everything is loaded again, the local file included,
which may have been edited. `Initialize` is the upgrade with which a writing command starts;
`InitializeFails` leaves a file without tables. `CheckSavable`, `LookUpName`, `InsertProfile` save a profile,
`LookUpPath`, `InsertRepository` register a path: a look and an insert in two transactions each.
`Record` is the provenance of a workflow, which is otherwise left out. `answers` is history: what users were told.

### ChunkLayout

`Starts` and `StructuralChunks` are `BoundaryChunker`, over any set of lines, also of lines outside the
file: boundaries are cached by the inventory's hash while the text is read live. `WindowEnd` and
`WindowStarts` are `FallbackChunker`; the loop is the least set of starts that is closed under the next one.

### HybridQuery

A ranking of all matches is what an index has for a query; `Answer` is what its package says. `Fuse` is reciprocal
rank fusion with its sort key, `Compose` the package with totals and flags, `Alignment` the table of a comparison.
Scores are exact fractions. The code adds floats: the two orders agree for all ranks up to 100
but for eleven groups of equal scores, such as ranks (80, 3) and (30, 24), whose float sums differ by one
unit in the last place, so that there the tie-break by best rank does not apply.
`QueryAssumption` asks for limits and windows of less than half of `Unranked` (10000 in `_rank_sort_value`), since a
fused list has up to twice as many chunks as the window: `max_results` is at most 100 and the window 50.

### RankMetrics and RunComparison

`Matches`, `Selected`, `Credits` are the greedy assignment of results to judgments; `CaseMetrics` are its counts,
`P95Index` the percentile in integer arithmetic (compared with the float formula for up to 200 samples).
Discounted gains are not evaluated; the property compares every prefix of gains with the ideal ones, and since
discounts only decrease, that bounds the discounted sums. `RunComparison` gives each field of the four pieces of
evidence a value and says which pairs of pieces the code compares; `Differences`, `ApplesToApples`, `Winners`,
`Outcome` are what is said of several runs.

## 3. Runs

| Run | Instance | Shows |
|---|---|---|
| `pipeline_sequential` | 1 process, 1 file, 3 contents, 2 configurations, 2 edits, 2 faults | what holds from one command to the next: `BuildRepairsPayloads`, `NoStaleRows`, `AttributedBetweenCommands`, `InventoryMatchesRevision`; and over all small files, `ChunksTile` |
| `pipeline_edit_race` | 1 process, 1 edit inside a command | *violated*: `TextMatchesHash` |
| `reindex_account` | 1 process, 2 files, 2 configurations | `ReasonIsTruthful`, `ReuseUnderSameConfig` without faults |
| `reindex_repair` | 1 process, 2 files, 1 fault | `ReindexTypeOK`, `SnapshotHasManifest`, `ResultIsReadable`, `RunAccountsForInventory`, `TextMatchesHash`, `IndexedIsComplete`, and the liveness property `CommandsEnd` |
| `reindex_races` | 2 processes, 1 file that changes or goes, 2 edits inside commands (there and back) | `RowMatchesInventory`, `RowHasPayload`, `ReindexCatchesUp`, `InventoryFrozen` |
| `reindex_unmarked` | with a fault | *violated*: `ReuseUnderSameConfig` |
| `benchmark_run` | 3 cases, 2 signals, 2 failures | all properties of `BenchmarkRun`; over all small cases and pieces of evidence, `MetricsAreTruthful`, `ComparisonsAreTruthful` |
| `benchmark_taken_back` | 2 cases, 1 signal | *violated*: `SucceededIsFinal` |
| `index_builds` | 2 processes, 2 snapshots of one text, 2 configurations, 2 semantic configurations, 2 chunk and 2 index builds, 1 query or benchmark run of 2 cases, 1 fault | `TypeOK`, `BuildsHaveIndexes`, `SemanticAnswersMatchBuild`, `HybridAnswersAgree`, `LexicalBuildsAreAttributed`, `NewestBuildIsRead`; over all small rankings, `FusionIsFair`, `TotalsAreTruthful`, `AlignmentIsTruthful` |
| `index_swapped` | 1 process, no fault | *violated*: `LexicalAnswersMatchBuild` |
| `workspace` | 2 processes, 2 names, 1 path, 3 commands, 1 edit, 1 fault | `TypeOK`, `SavesAreTruthful`, `PathsAreRegisteredOnce`, `ReplayIsExact` |
| `profile_replay` | the same instance | *violated*: `ReplayIsAccepted` |

`CHECK_DEADLOCK FALSE` is stated because the system really stops: when the bounded
snapshots and edits are used up and no command is running, or the benchmark
run has ended.

### Bounds

`MaxSnap` bounds snapshots: two are the least in which there is a latest one and one to compare
it with; no operation looks at three. `MaxEdits` bounds edits: one turns a file from a
baseline into a changed file, two let it change back, which is what may mislead a cache.
`reindex_races` needs both edits: the first one between two scans of one snapshot, the second one to pass the
build's revision check again.
`MaxFaults` bounds crashes and failures: one leaves a half-done command behind, two also disturb
the repair. Two processes are the least for a race; every hazard listed is a race of two. Two paths
let one file be cloned and the other rebuilt, and let a build stop between files. `Content` has at
least one text with structure and, where fallback windows matter, one without.
In `IndexBuilds`, `MaxChunks`, `MaxBuilds` and `MaxQueries` bound the commands of each kind: two
builds are the least of which the later can disturb the earlier, and one query sees
either of them.
Symmetry is declared over processes, over contents that the instance treats alike and over
configurations; no definition of a run chooses among them, and the runs with liveness properties declare none.
In `Workspace` three commands are a save that wins, one that loses, and a workflow that selects; the four local files
and three environments have each way a key can be set, cleared, at its old place or not there.
`Cases` is 3 so that there is a first, an inner and a last case. `MaxSignals` and `MaxFailures`
are 2 each: the handler's handler is the deepest place an exception can reach, and the
properties claim something up to two disturbances. The theorems hold for all values.

The algorithms: files of up to six lines with windows of three (two windows cut short, or a window that the search
reaches across) and boundaries from 0 to 7, one beyond either end. Rankings of up to four chunks with a
window of three, so that a component may be cut, with limits below, inside and beyond the window; `RankConstant`
is 2, the least at which the whole window still lies within `RankConstant + 1`, as the defaults 50 and 60
do; the limit 4 makes the window longer than that, as a `max_results` from 62 to 100 does. Up to three judgments of the seven that are valid (three more must be refused) over three chunks:
two judgments and two results are the least that overlap crosswise. Up to two hundred samples: the percentile's index
has a period of twenty. Three runs side by side, since two have no run between them.

`EditsRace` is no bound but an assumption of some properties. If it is FALSE, no edit lands between a
command's revision check and its last read of the repository (inside a re-index: at no time). The code checks
the revision once and reads afterwards, so without the assumption `TextMatchesHash` is false
(`pipeline_edit_race`). The properties that hold without it are checked with it TRUE.

### Fairness

`Fairness` is weak fairness per process on the steps of a command that has been
started: a command is an ordinary process with no waiting in it, so the scheduler
lets it run. Starting a command, edits, faults and the reviewer are not fair: nobody has to do anything.
`CommandsEnd` then says that every started command comes to its end, and
`RunsAreConcluded` that a run's row stops saying `running` unless the process was
killed or disturbed a second time.

## 4. Theorems

All for every value of the constants, under the named assumptions of the modules (paths
are sortable, the sentinels are not values, the bounds are naturals).

`IndexPipelineProofs` builds three inductive invariants, each on the one before.

* `TypeInv` = `TypeOK` and `JobOK`. `JobOK` says what a process holds at each position: a
  snapshot from `write_manifest` on, a draft at `write_payload`, a configuration in a build. Without
  it the primed state has no type.
* `RowInv` = `SnapshotsOwned`, `BuildBacked`, `RowHasPayload`,
  `RowMatchesInventory`. `RowHasPayload` alone is not inductive: the rows are
  committed by a step that does not look at the payloads. `BuildBacked` says that a build has a
  payload behind each draft whose file is done, and that what it remembers of the inventory is
  still in the table; `SnapshotsOwned` that no two processes create one
  snapshot.
* `QuietInv` = `Validated`, `InventoryMatchesRevision`, `CachesSound`, `TextsSound`, under
  `~EditsRace`. A process that is reading still sees the tree its snapshot names (`Validated`), so what it
  puts in the caches is sound, and what it takes out of them is the text whose hash
  the key holds.

From these follow `TypeCorrect`, `RowsHavePayloads`, `RowsMatchInventory`,
`SnapshotsHaveManifests`, `InventoryIsFrozen`, and under `~EditsRace`
`InventoriesMatchRevisions` and `TextsMatchHashes`.

`ReindexProofs` is about `ReindexSpec`, in which all four commands run side by side. The stages that a
re-index shares with the others are steps of `IndexPipeline`, so the lemmas above are used for them; one lemma per step of its own says
what the step does to the process, the plan and the stores, and everything else is derived from those.

* `RTypeInv` = `ReindexTypeOK`, `JobOK` and `PlanOK`: what a plan holds at each position. `ReindexTypeOK` says that the counts of a run are
  naturals, hence `FiniteAssumption` (a repository has finitely many files).
* `RRowInv` = `RowInv`, extracted snapshots have rows, and `CloneBacked`: what was cloned so far is on disk, for rows that are committed
  only later. Without it the upsert of cloned rows would break `RowHasPayload`.
* `UndisturbedInv` = `QuietInv`, `PlanSound` for each process, `RunsSound`. It holds as long as no edit has landed while a command
  read or a re-index ran: `raced \/ UndisturbedInv` is inductive. `PlanSound` says that the baseline stays indexed and its inventory as
  listed, that the reason is still the true one, that the snapshots from the new one on are all of the present tree (`NewestAre`), and that
  each file is in one place, to be cloned, cloned, to be built or built (`Accounts`). `NewestAre` is what `ReindexCatchesUp` needs: two
  re-indexes may finish in either order, and a snapshot that a third process has reserved but not inserted counts. That the
  others leave it true is shown by `Advance`, which every step satisfies: rows, marks and extracted inventories only grow.

From these follow `ReindexTypeCorrect`, `ReindexedRowsHavePayloads`, `ReindexedRowsMatchInventory`, `ReindexedSnapshotsHaveManifests`,
`ReindexFreezesInventory`; `ReindexLeavesLiveSnapshot`; and under `~EditsRace`, where nothing races, `RunsAccountForInventories`,
`ReasonsAreTruthful`, `ReindexedTextsMatchHashes`, `ReindexedInventoriesMatchRevisions`. The runs check some of these with one
process only; the theorems hold for any number.

`BuildOutcomeProofs` is about both specifications, `Spec` and `ReindexSpec`. All of it is under `~EditsRace`: an edit inside a
command makes a snapshot of two trees, of which none of this is true (`pipeline_edit_race`). Where more is assumed the code needs it,
since it takes no lock.

* `CanonicalInv`: until something fails, every cache entry, draft and row is of the one layout that its text
  is cut into (`Canonical`). A failed parse makes a fallback draft and hence a second layout; before that, builds may overlap
  freely. `RememberedInv` says the same of the rows a re-index listed, and that the files it clones have the same content as in its baseline.
  They give `RowsStayFresh` and `ReindexedRowsStayFresh`.
* `WholeInv`: a build has the right text behind each draft whose file is done, and at its mark behind every row. It
  is broken by another process that dies inside a write to the same snapshot, so
  it is under `FailsAlone` (no faults, or one process, which may fail). `OwnedInv` adds `PayloadsOwned` and
  `SnapshotWhole`: nobody else writes to the snapshot a re-index has taken, and each clone was read before it was written. They give `BuildsRepairPayloads`,
  `ReindexesRepairPayloads` and `ReindexResultsAreReadable`.
* `CompleteInv` = `InventoriesWhole`, `IndexedCovered` and `BuildCovers` for each process: an inventory is stored whole or not at all; a
  snapshot with a row or a mark has rows for its whole inventory; and each file a build took from it is still to be done, drafted or stored.
  `RCompleteInv` adds `PlanCovers`, that a re-index listed rows for every file of
  its baseline, without which a clone could be of nothing. They give `IndexedSnapshotsAreComplete` and
  `ReindexedSnapshotsAreComplete`, for any failures and any overlap.
* `AttributedInv`: between the commit of the rows and the mark the rows are ahead of the fingerprint, at other times they agree with it
  (`RowsAttributed`); a mark has its provenance record or its command is about to write it (`MarksRecorded`). It relies on `CanonicalInv` and
  `CompleteInv`: a rebuild under another fingerprint replaces the rows of every file only because each file is drafted again and its layout is still
  the same. `FingerprintInv` adds `OneFingerprint`, that the rows a re-index listed are of the fingerprint it compares with, that it
  clones only if that is its own, and that its snapshot is empty until it stores. They are under `Lone` (commands follow one another): two builds of one snapshot
  under two fingerprints store and mark in any order. `BuildsAreAttributed`, `ReindexesAreAttributed` and
  `RowsAreReusedUnderOneFingerprint` follow; the last one also needs `MaxFaults = 0`, as `reindex_unmarked` shows.

`IndexBuildsProofs` has a chain of invariants, each on `TypeInv` (= `TypeOK` and `Staged`, what a command holds at each position).

* `FilesInv` = `BuildsHaveIndexes` and that a build past its write (`Written`) finds its file: the file of a path is replaced and never
  removed, which gives `BuildsAreFiled`.
* `HybridInv` = `HybridAnswersAgree` and that a query which holds two builds holds two of one snapshot: the second is
  resolved for the first one's snapshot. It gives `AnswersAgree`.
* `VectorInv` = `CacheSound`, `FilesSound`, `LayoutsGrow`, `FoundSound`, `AnswersSound`. The file on a path can be replaced between a
  query's two reads, so the claim cannot be that the file is the build's. It is that every cache entry, file and document is
  what its snapshot, layouts and fingerprint make of the text, and that the layouts which builds of one snapshot have seen are
  ordered by inclusion, since chunk rows only grow; a file with as many vectors as the row says is then of the same
  layouts, and the query compares the two counts. It gives `AnswersMatch`.
* `AloneInv` speaks of behaviours in which no two commands have overlapped and none has failed (`alone`): the mark of a snapshot is the
  configuration of its rows outside of the two commits of a chunk build, one layout is in use, and no build row is ahead of
  the clock. It gives `BuildsAreAttributed` and `NewestIsRead`, for which `OrderLemmas`
  supplies the newest row.

`BenchmarkRunProofs` has one inductive invariant (`Invariance`): `TypeOK`, what is there at each
position on the way to success (`OnTheWay`), in the handler (`InTheHandler`), in the row
once the command has ended (`InTheRow`), how many disturbances each place costs
(`Disturbances`), and what the reviewer has already seen (`Reading`). The last is what
`ReportsStayFinal` needs: the row names its metrics only at a position from which
nothing writes evidence again. `OrphansTakeTwo` and `EvidenceTakesThree` follow from the
count of disturbances per position. `RowImplementsLedger` maps each step of
`BenchmarkRun` to a step or a stutter of `BenchmarkLedger`.

`WorkspaceProofs` starts from the configuration as a pure function. `ValidatedProfile` says that a saved profile
comes out unchanged where it is the last layer over anything and is not refused, `MergeNothing` and
`LoadIsReplay` that an environment without settings leaves it so. Over them stand three invariants:

* `TypeInv` = `TypeOK`, rows that could be saved (`Saved`) and what a process holds at each position (`Holding`): a save has
  a savable configuration from its look on, a command past its second load a profile that is stored.
* `SaveInv` = `Solo` and the truth of each answer. `Solo` says that beside a command that is alone all others are idle,
  so that nobody took the name between its look and its insert; without it the claim about a lone
  save's conflict is not inductive. It also holds that answers to saves have a content, since a row is
  kept only once it is there.
* `ReplayInv` = `ReplayIsExact` and `Replaying`, which says it of the configuration in memory, from the second load to the
  record.

From these follow `TypeCorrect`, `RegistrationsAreUnique`, `SavesAreTrue` and `ProfilesReplayExactly`. They assume that
names, paths and the sentinels are distinct (`InputsAssumption`, `MarkersAssumption`), and hold for any
number of processes, commands, edits and faults.

`ChunkLayoutProofs` is about the definitions of `ChunkLayout` themselves, so it needs no invariant. Structural chunks tile a file because the
starts are in it and line 1 is one of them (`StartsInFile`): a line is in the chunk from the last start before it to the line before the
next (`StructuralChunksTile`). The starts of the windows are the least set that has line 1 and the line behind each window, so each but the first is
behind a window (`WindowBefore`), and the first start that would be inside a window cannot be (`WindowsApart`); that the windows leave no line out follows from
the last start before it (`WindowsTile`). Least and greatest lines come from `OrderLemmas`, which take the place of induction. The module extends
`MCIndexPipeline`, where the run's property `ChunksTile` is stated; `BuildsTile` proves it for all lengths, boundaries and blank lines.

The promises of the algorithms are theorems, too, for inputs of any size. Each of the five properties says that a set of
inputs with a wrong answer is empty, and holds in every state since it holds of all inputs. What the proofs rest on:

* *Sorting.* TLC's `SortSeq` has no definition to reason about, so `Sorted` puts at place i the element that has i - 1
  others before it. `SortedInOrder`: every element of a finite set has one place, and the places are in the order.
* *Induction and recursion.* No installed prover can instantiate the library's induction theorems, as they take a predicate. `InductionUpTo`
  takes a set of numbers and follows from the least number that is not in it; `RecursionIsDefined` gives a recursive function
  from its step, which is a function on pairs. Hence credits and sums of gains could be written as recursive functions.

`IndexBuildsProofs`, on `HybridQuery`:

* `FusionStaysFair`: scores are compared by cross products, which order fractions (`FractionsAreOrdered`), so the sort key is a strict
  total order of the candidates (`PrecedesIsOrder`) and the fused ranking lists each once in that order (`WholeInOrder`). Exchanging the lists
  changes neither candidates nor order; higher ranks in both give a higher score; and one share is at most
  1 / (c + 1), while two within a window of c + 1 are at least 2 / (2c + 1) together. In a longer window two shares, one of
  them no less than the single one, are more than that (`TwoScoreMoreThanNoBetter`).
* `TotalsStayTruthful`: a component that was not cut contributed all its matches; the fused list, at twice the window, is never cut.
* `AlignmentStaysTruthful`: all that is displayed is among the fused candidates, whose hybrid ranks differ, so the sort is by them
  alone, and a row's other ranks are places in the uncut components.

`BenchmarkRunProofs`, on `RankMetrics` and `RunComparison`:

* `MetricsStayTruthful`. `CreditsFollow` gives the rule of each credit, so that rankings which begin alike are credited alike
  (`CreditsAgree`), nothing is credited twice (`GainsFollowCredits`) and the first relevant result is (`FirstIsCredited`). That no
  prefix earns more than the ideal (`NoneBeatsIdeal`) has two steps: the ideal gains fall (`IdealRanking`), and values taken from
  distinct places of a falling sequence never add up to more than its first ones (`DistinctPositions`, by `HeaviestFirst`). That a higher grade
  is worth more needs powers of two, which the prover knows as counts of subsets (`WorthGrows`).
* `ComparisonsStayTruthful`. Every field that two pieces of evidence hold is compared along a chain of pieces which all hold it
  (`AcceptedIsOfOneRun`). A set has several elements if two differ (`SeveralDiffer`), so that differences are those of two runs; the
  winners are the runs that none beats (`WinnersAreUnbeaten`), also when the runs are named in the reverse order (`Turned`).

Only model-checked: `CommandsEnd` and `RunsAreConcluded`, since liveness under fairness and ENABLED are beyond the prover. Every other
property of a passing run is the property of a theorem.

## 5. Findings

Each is a run that TLC finds violated.

* **An edit inside a command** (`pipeline_edit_race`): the revision is compared
  once, the files are read afterwards, and a cache entry may be filled with a text under another text's hash.
* **A baseline that was never marked** (`reindex_unmarked`): a build that dies, or is still running, between its rows and its mark leaves
  a snapshot that counts as indexed and has no fingerprint. A re-index
  takes its fingerprint to be the current one and reuses chunks built under another.
* **A success taken back** (`benchmark_taken_back`): a signal, or a failing provenance write, after the row says
  `succeeded` makes the handler overwrite it with `failed`; `docs/benchmarks.md:45` has only
  `running -> succeeded` or `running -> failed`. `ReportsAreFinal` shows that no report is ever
  based on such a success.

* **A swapped index** (`index_swapped`): all lexical builds of a snapshot write one path. After a rebuild under
  another configuration the first one's row is still found for its configuration, and
  its query reads the second one's index, without a word; `docs/cli-reference.md:171` promises an
  error instead. The same file may be replaced between two cases of a benchmark run that pins its
  build. The semantic side is sound (`SemanticAnswersMatchBuild`): its path has the fingerprint,
  chunk rows only grow, and the count in the file is compared with the row.

* **A profile that cannot be replayed** (`profile_replay`): a profile saved without a provider, as the defaults
  are, holds `embedding_providers.local_hash = null`. Selected, the null takes the place of the whole default block and
  the configuration is refused as invalid, although nothing was changed; `docs/cli-reference.md:409` says what
  such a reuse reports.

Three more things show in the conditions of the properties.
`AttributedBetweenCommands` is about commands that follow one another. Where two builds of one snapshot overlap under two configurations,
one may commit its rows last and the other its mark: chunk ids do not depend on the configuration, and rows and mark are two
transactions without a lock. The fingerprint then names a configuration whose rows are gone, and a lexical build under it passes
the check that `docs/cli-reference.md:47` describes. TLC finds this in 21 steps if the instance of `reindex_unmarked`
gets two processes, one path, one snapshot and no edit or fault, and `AttributedBetweenCommands` as its invariant.
`ReindexCatchesUp` has a weaker claim for `no_change`: while a re-index finds nothing changed against its
baseline, a build that passed its check before an edit was reverted may mark a newer, stale snapshot.
And a second interrupt while the handler of the first one looks the run up or falls back to the row
leaves the row `running` for ever. `OneDisturbanceLeavesNoOrphan` states the part that holds.

And a few that the algorithms show. `overlap_count` of a comparison always equals `alignment_count`: every chunk on
display is among the fused candidates and has a rank in a component, so it has two ranks. The semantic
engine ranks every vector, so its component counts as cut whenever there are more chunks than the window, and the hybrid total is
a lower bound; "semantic retrieval returned no match" is then said of chunks that are merely outside the
window. Which of two judgments of one grade is credited depends on the order they were authored in, so nDCG can be below 1
although every judgment is matched as early as it can be. The loser of two racing saves of one profile is told of a
conflict even when the content is the same, where a later save would be told that it exists; the condition `alone` of
`SavesAreTruthful` is that difference.

## 6. Not modelled, and why

* Git: how a revision is computed is taken as "names the tree".
* SQLite's locking: transactions are atomic and never blocked; a locked
  database is one of the failures of `BenchmarkRun`, and a crash in the others. How many rows one INSERT may have
  depends on how the library was compiled.
* Parsers (patterns over a text), the embedding provider and FTS5 ranking: pure
  functions of a text, with no state. `ChunkLayout` takes any set of lines as a parser's result, `HybridQuery` any ranking.
* Logarithms and floats: see `RankMetrics` and `HybridQuery` above.
* The command line, contracts, result formatting and the Markdown of reports: no decisions that a property is about. Of
  `bootstrap.py` only the two loads of the configuration are modelled, the rest wires objects.
* The individual schema revisions: an upgrade is one step that succeeds or leaves less than it should.

## 7. Plan

Every invariant and action property that a run checks is proved. What could follow: the discount of nDCG and
the float sums of a fusion, which TLC cannot evaluate and the prover cannot reason about; the five hazards without a property; and
a model of the migrations' individual revisions.
