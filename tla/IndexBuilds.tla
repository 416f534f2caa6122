---------------------------- MODULE IndexBuilds ----------------------------
(* Lexical and semantic index builds, the queries that use them and the      *)
(* benchmark runs that pin them: `index build-lexical`, `index               *)
(* build-semantic`, `query lexical | semantic | hybrid` and `eval benchmark`,*)
(* run by several processes while chunks are built anew.                     *)
(*                                                                           *)
(* An index is a file, a build is a row that describes it, and a query first *)
(* finds a row and then reads the file.  All lexical builds of a snapshot    *)
(* write the same file; the semantic builds of a snapshot share one for each *)
(* semantic fingerprint.                                                     *)
(*                                                                           *)
(* Abstracted: of IndexPipeline only its two commits are kept, chunk rows    *)
(* and then the mark; snapshots are numbered in created_at order.  The       *)
(* chunks of a snapshot are one unit in each layout, and no two layouts      *)
(* share a chunk.  Of a build row only the fields that are compared are      *)
(* kept.  What a failed benchmark run leaves behind is BenchmarkRun's.       *)
EXTENDS Integers, FiniteSets, Sequences

CONSTANTS
    Proc,        \* command-line processes
    Config,      \* indexing fingerprints
    Semantic,    \* semantic fingerprints: model, version, dimension
    Text,        \* texts that a snapshot may be of
    TextOf,      \* the text of each snapshot
    Cases,       \* cases of a benchmark run
    MaxSnap,     \* bound: snapshots
    MaxChunks,   \* bound: chunk builds
    MaxBuilds,   \* bound: index builds of either kind
    MaxQueries,  \* bound: queries and benchmark runs
    MaxFaults,   \* bound: failures, crashes and fallback builds
    Null

Snap == 1..MaxSnap
Layout == {"structural", "fallback"}
Modes == {"lexical", "semantic", "hybrid"}

\* The chunk rows of a snapshot by layout; history: under what they were built.
Rows == [Layout -> Config \cup {Null}]
NoRows == [l \in Layout |-> Null]
LayoutsOf(r) == {l \in Layout : r[l] # Null}
ConfigsOf(r) == {r[l] : l \in LayoutsOf(r)}

\* Embedding documents: whose chunks, of what text, and what model made them.
Vectors == [snap : Snap, text : Text, layouts : SUBSET Layout, model : Semantic]

\* at is created_at.  indexed and layouts are history; their sizes are columns
\* of the build rows.
LexicalBuild == [at : Nat, snap : Snap, fp : Config, indexed : Rows]
SemanticBuild == [at : Nat, snap : Snap, model : Semantic, layouts : SUBSET Layout]

ASSUME BoundsAssumption ==
    /\ Cases \in Nat \ {0}
    /\ {MaxSnap, MaxChunks, MaxBuilds, MaxQueries, MaxFaults} \subseteq Nat
ASSUME TextAssumption == TextOf \in [Snap -> Text]
ASSUME NullAssumption == Null \notin Config \cup Semantic \cup Rows \cup Vectors

VARIABLES
    rows,            \* chunks rows
    mark,            \* snapshots rows: indexing_config_fingerprint
    lexicalFile,     \* lexical.sqlite3 of a snapshot: the rows that it indexes
    vectorFile,      \* semantic.sqlite3 of a snapshot and semantic fingerprint
    embeddings,      \* embedding cache by semantic fingerprint, text and layouts
    lexicalBuilds,   \* lexical_index_builds rows
    semanticBuilds,  \* semantic_index_builds rows
    clock,           \* of the build rows' created_at
    provenance,      \* provenance rows; read and vectors are history
    job,             \* what each process is doing
    started,         \* how many commands of each kind were started
    faults,
    alone            \* history: commands did not overlap and none failed

vars == <<rows, mark, lexicalFile, vectorFile, embeddings, lexicalBuilds, semanticBuilds,
          clock, provenance, job, started, faults, alone>>
baseline == <<rows, mark>>
indexes == <<lexicalFile, vectorFile, embeddings>>
builds == <<lexicalBuilds, semanticBuilds, clock>>
meters == <<started, faults, alone>>

NoJob == [cmd |-> "none", pc |-> "idle", mode |-> "none", snap |-> Null, cfg |-> Null,
          model |-> Null, fp |-> Null, rows |-> NoRows, found |-> Null, at |-> 0,
          lexical |-> 0, semantic |-> 0, left |-> 0, read |-> {}, vectors |-> {}]

At(p, where) == job[p].pc = where
Goto(p, where) == job' = [job EXCEPT ![p].pc = where]
Finish(p) == job' = [job EXCEPT ![p] = NoJob]

\* A command starts with its own configuration.
Start(p, kind, limit, j) ==
    /\ started[kind] < limit
    /\ started' = [started EXCEPT ![kind] = @ + 1]
    /\ alone' = (alone /\ \A q \in Proc : At(q, "idle"))
    /\ job' = [job EXCEPT ![p] = j]
    /\ UNCHANGED <<baseline, indexes, builds, provenance, faults>>

Fault == faults < MaxFaults /\ faults' = faults + 1 /\ alone' = FALSE

-----------------------------------------------------------------------------
\* Chunk builds (`index build-chunks`, `index reindex`), as IndexPipeline has them.

StartChunks(p) ==
    /\ At(p, "idle")
    /\ \E s \in Snap, c \in Config :
         Start(p, "chunks", MaxChunks,
               [NoJob EXCEPT !.cmd = "chunks", !.pc = "upsert", !.snap = s, !.cfg = c])

\* A parser that fails makes the rows of another layout, beside those there are.
UpsertChunks(p) ==
    /\ At(p, "upsert")
    /\ \/ /\ rows' = [rows EXCEPT ![job[p].snap]["structural"] = job[p].cfg]
          /\ UNCHANGED <<faults, alone>>
       \/ /\ Fault
          /\ rows' = [rows EXCEPT ![job[p].snap]["fallback"] = job[p].cfg]
    /\ Goto(p, "mark")
    /\ UNCHANGED <<mark, indexes, builds, provenance, started>>

\* Mutant: a rebuild keeps the first build's fingerprint.
MarkChunksOnce(p) ==
    /\ At(p, "mark")
    /\ mark' = [mark EXCEPT ![job[p].snap] = IF @ # Null THEN @ ELSE job[p].cfg]
    /\ Finish(p)
    /\ UNCHANGED <<rows, indexes, builds, provenance, meters>>

MarkChunks(p) ==
    /\ At(p, "mark")
    /\ mark' = [mark EXCEPT ![job[p].snap] = job[p].cfg]
    /\ Finish(p)
    /\ UNCHANGED <<rows, indexes, builds, provenance, meters>>

-----------------------------------------------------------------------------
\* `index build-lexical` and `index build-semantic`

StartBuild(p) ==
    /\ At(p, "idle")
    /\ \/ \E s \in Snap, c \in Config :
            Start(p, "build", MaxBuilds,
                  [NoJob EXCEPT !.cmd = "build", !.mode = "lexical", !.pc = "list_chunks",
                                !.snap = s, !.cfg = c, !.fp = mark[s]])
       \/ \E s \in Snap, g \in Semantic :
            Start(p, "build", MaxBuilds,
                  [NoJob EXCEPT !.cmd = "build", !.mode = "semantic", !.pc = "list_chunks",
                                !.snap = s, !.model = g])

\* No chunks, or for a lexical build chunks marked with another configuration.
Refuses(p) == \/ rows[job[p].snap] = NoRows
              \/ job[p].mode = "lexical" /\ job[p].fp \notin {Null, job[p].cfg}

ListChunks(p) ==
    /\ At(p, "list_chunks")
    /\ IF Refuses(p)
       THEN Finish(p)
       ELSE job' = [job EXCEPT ![p].rows = rows[job[p].snap],
                               ![p].pc = IF job[p].mode = "lexical" THEN "replace_lexical"
                                                                    ELSE "embed"]
    /\ UNCHANGED <<baseline, indexes, builds, provenance, meters>>

\* Mutant: an index file that exists is kept.
KeepLexical(p) ==
    /\ At(p, "replace_lexical")
    /\ lexicalFile' = [lexicalFile EXCEPT ![job[p].snap] = IF @ # Null THEN @ ELSE job[p].rows]
    /\ Goto(p, "stamp")
    /\ UNCHANGED <<baseline, vectorFile, embeddings, builds, provenance, meters>>

\* The file is written elsewhere and then moved over the old one.
ReplaceLexical(p) ==
    /\ At(p, "replace_lexical")
    /\ lexicalFile' = [lexicalFile EXCEPT ![job[p].snap] = job[p].rows]
    /\ Goto(p, "stamp")
    /\ UNCHANGED <<baseline, vectorFile, embeddings, builds, provenance, meters>>

\* The chunks of the key are identified without their snapshot.
EmbeddingKey(p) == <<job[p].model, TextOf[job[p].snap], LayoutsOf(job[p].rows)>>

\* What is reused is the embedding; the rest of a document is of the source.
Relabel(p, cached) == [cached EXCEPT !.snap = job[p].snap]

\* Vectors come from the cache or are made and put there.
Embed(p) ==
    LET made == [snap |-> job[p].snap, text |-> TextOf[job[p].snap],
                 layouts |-> LayoutsOf(job[p].rows), model |-> job[p].model]
        cached == embeddings[EmbeddingKey(p)] IN
    /\ At(p, "embed")
    /\ job' = [job EXCEPT ![p].found = IF cached # Null THEN Relabel(p, cached) ELSE made,
                          ![p].pc = "replace_vectors"]
    /\ embeddings' = [embeddings EXCEPT ![EmbeddingKey(p)] = IF @ # Null THEN @ ELSE made]
    /\ UNCHANGED <<baseline, lexicalFile, vectorFile, builds, provenance, meters>>

VectorPath(s, g) == <<s, g>>

ReplaceVectors(p) ==
    /\ At(p, "replace_vectors")
    /\ vectorFile' = [vectorFile EXCEPT ![VectorPath(job[p].snap, job[p].model)] = job[p].found]
    /\ Goto(p, "stamp")
    /\ UNCHANGED <<baseline, lexicalFile, embeddings, builds, provenance, meters>>

\* created_at is taken before the transaction that inserts the row.
Stamp(p) ==
    /\ At(p, "stamp")
    /\ clock' = clock + 1
    /\ job' = [job EXCEPT ![p].at = clock', ![p].pc = "create_build"]
    /\ UNCHANGED <<baseline, indexes, lexicalBuilds, semanticBuilds, provenance, meters>>

\* Inserting the row of a lexical build.
InsertLexicalBuild(p, fp) ==
    /\ lexicalBuilds' = Append(lexicalBuilds,
         [at |-> job[p].at, snap |-> job[p].snap, indexed |-> job[p].rows, fp |-> fp])
    /\ job' = [job EXCEPT ![p].lexical = Len(lexicalBuilds'), ![p].pc = "record"]
    /\ UNCHANGED <<baseline, indexes, semanticBuilds, clock, provenance, meters>>

\* Mutant: an unmarked snapshot's chunks are attributed to nothing.
CreateUnattributed(p) ==
    /\ At(p, "create_build") /\ job[p].mode = "lexical"
    /\ InsertLexicalBuild(p, job[p].fp)

\* The row follows the file.  An unmarked snapshot's chunks are attributed to
\* the current configuration.
CreateLexicalBuild(p) ==
    /\ At(p, "create_build") /\ job[p].mode = "lexical"
    /\ InsertLexicalBuild(p, IF job[p].fp # Null THEN job[p].fp ELSE job[p].cfg)

CreateSemanticBuild(p) ==
    /\ At(p, "create_build") /\ job[p].mode = "semantic"
    /\ semanticBuilds' = Append(semanticBuilds,
         [at |-> job[p].at, snap |-> job[p].snap, model |-> job[p].model,
          layouts |-> LayoutsOf(job[p].rows)])
    /\ job' = [job EXCEPT ![p].semantic = Len(semanticBuilds'), ![p].pc = "record"]
    /\ UNCHANGED <<baseline, indexes, lexicalBuilds, clock, provenance, meters>>

-----------------------------------------------------------------------------
\* Queries and benchmark runs

StartQuery(p) ==
    /\ At(p, "idle")
    /\ \E cmd \in {"query", "benchmark"}, m \in Modes, c \in Config, g \in Semantic :
         Start(p, "query", MaxQueries,
               [NoJob EXCEPT !.cmd = cmd, !.mode = m, !.cfg = c, !.model = g,
                             !.left = IF cmd = "query" THEN 1 ELSE Cases,
                             !.pc = IF m = "semantic" THEN "resolve_semantic"
                                                      ELSE "resolve_lexical"])

\* A hybrid query reads the lexical index before it looks for the semantic
\* build; a hybrid benchmark run resolves both builds first.
ResolvesFirst(p) == job[p].cmd = "benchmark" /\ job[p].mode = "hybrid"

\* get_latest_build_for_repository: builds of the latest indexed snapshot only.
Indexed(s) == mark[s] # Null \/ rows[s] # NoRows
LatestIndexed(s) == Indexed(s) /\ \A t \in Snap : Indexed(t) => t <= s

LexicalFor(c) == {i \in DOMAIN lexicalBuilds :
                    LatestIndexed(lexicalBuilds[i].snap) /\ lexicalBuilds[i].fp = c}
SemanticFor(g) == {i \in DOMAIN semanticBuilds :
                     LatestIndexed(semanticBuilds[i].snap) /\ semanticBuilds[i].model = g}
Newest(ids, table) == CHOOSE i \in ids : \A k \in ids : table[k].at <= table[i].at

ResolveLexical(p) ==
    LET ids == LexicalFor(job[p].cfg) IN
    /\ At(p, "resolve_lexical")
    /\ IF ids = {}
       THEN Finish(p)
       ELSE job' = [job EXCEPT ![p].lexical = Newest(ids, lexicalBuilds),
                               ![p].pc = IF ResolvesFirst(p) THEN "resolve_semantic"
                                                             ELSE "read_lexical"]
    /\ UNCHANGED <<baseline, indexes, builds, provenance, meters>>

\* Mutant: results of different snapshots are fused.
AlignedAnyway(p, i) == TRUE

\* Both components of a hybrid answer must be of one snapshot.
Aligned(p, i) ==
    job[p].mode = "hybrid" => lexicalBuilds[job[p].lexical].snap = semanticBuilds[i].snap

ResolveSemantic(p) ==
    LET ids == SemanticFor(job[p].model)
        i == Newest(ids, semanticBuilds) IN
    /\ At(p, "resolve_semantic")
    /\ IF ids = {} \/ ~Aligned(p, i)
       THEN Finish(p)
       ELSE job' = [job EXCEPT ![p].semantic = i,
                               ![p].pc = IF ResolvesFirst(p) THEN "read_lexical"
                                                             ELSE "read_vectors"]
    /\ UNCHANGED <<baseline, indexes, builds, provenance, meters>>

\* A case is done: the next one begins with the pinned builds.
AfterCase(j) ==
    IF j.left > 1
    THEN [j EXCEPT !.left = @ - 1,
                   !.pc = IF j.mode = "semantic" THEN "read_vectors" ELSE "read_lexical"]
    ELSE [j EXCEPT !.left = 0, !.pc = "record"]

\* The index is read in one connection, and nothing of it is compared with the build.
ReadLexical(p) ==
    LET content == lexicalFile[lexicalBuilds[job[p].lexical].snap]
        j == [job[p] EXCEPT !.read = @ \cup {content}] IN
    /\ At(p, "read_lexical")
    /\ job' = [job EXCEPT ![p] =
                 IF content = Null THEN NoJob
                 ELSE IF j.mode = "lexical" THEN AfterCase(j)
                 ELSE IF j.semantic = 0 THEN [j EXCEPT !.pc = "resolve_semantic"]
                 ELSE [j EXCEPT !.pc = "read_vectors"]]
    /\ UNCHANGED <<baseline, indexes, builds, provenance, meters>>

\* Mutant: the number of vectors is not compared.
MatchesAnyBuild(content, b) == TRUE

\* Metadata and rows must have the number of documents that the build recorded.
MatchesBuild(content, b) == Cardinality(content.layouts) = Cardinality(b.layouts)

ReadVectors(p) ==
    LET b == semanticBuilds[job[p].semantic]
        content == vectorFile[VectorPath(b.snap, b.model)] IN
    /\ At(p, "read_vectors")
    /\ job' = [job EXCEPT ![p] =
                 IF content = Null \/ ~MatchesBuild(content, b) THEN NoJob
                 ELSE AfterCase([job[p] EXCEPT !.vectors = @ \cup {content}])]
    /\ UNCHANGED <<baseline, indexes, builds, provenance, meters>>

\* The command records what it ran on.
Record(p) ==
    /\ At(p, "record")
    /\ provenance' = provenance \cup
         {[cmd |-> job[p].cmd, lexical |-> job[p].lexical, semantic |-> job[p].semantic,
           read |-> job[p].read, vectors |-> job[p].vectors]}
    /\ Finish(p)
    /\ UNCHANGED <<baseline, indexes, builds, meters>>

-----------------------------------------------------------------------------
\* Mutant: a lexical build that fails removes the index.
FailRemovingIndex(p) ==
    /\ ~At(p, "idle")
    /\ Fault
    /\ Finish(p)
    /\ lexicalFile' = [s \in Snap |-> IF At(p, "replace_lexical") /\ s = job[p].snap
                                      THEN Null ELSE lexicalFile[s]]
    /\ UNCHANGED <<baseline, vectorFile, embeddings, builds, provenance, started>>

\* A command fails or dies between two of its steps; a cache entry it was
\* writing is truncated and reads as a miss.
Fail(p) ==
    /\ ~At(p, "idle")
    /\ Fault
    /\ Finish(p)
    /\ \/ UNCHANGED embeddings
       \/ /\ At(p, "embed")
          /\ embeddings' = [embeddings EXCEPT ![EmbeddingKey(p)] = Null]
    /\ UNCHANGED <<baseline, lexicalFile, vectorFile, builds, provenance, started>>

Init ==
    /\ rows = [s \in Snap |-> NoRows]
    /\ mark = [s \in Snap |-> Null]
    /\ lexicalFile = [s \in Snap |-> Null]
    /\ vectorFile = [path \in Snap \X Semantic |-> Null]
    /\ embeddings = [key \in Semantic \X Text \X SUBSET Layout |-> Null]
    /\ lexicalBuilds = <<>>
    /\ semanticBuilds = <<>>
    /\ clock = 0
    /\ provenance = {}
    /\ job = [p \in Proc |-> NoJob]
    /\ started = [kind \in {"chunks", "build", "query"} |-> 0]
    /\ faults = 0
    /\ alone = TRUE

Step(p) ==
    \/ StartChunks(p) \/ UpsertChunks(p) \/ MarkChunks(p)
    \/ StartBuild(p) \/ ListChunks(p) \/ ReplaceLexical(p)
    \/ Embed(p) \/ ReplaceVectors(p)
    \/ Stamp(p) \/ CreateLexicalBuild(p) \/ CreateSemanticBuild(p)
    \/ StartQuery(p) \/ ResolveLexical(p) \/ ResolveSemantic(p)
    \/ ReadLexical(p) \/ ReadVectors(p) \/ Record(p)
    \/ Fail(p)

Next == \E p \in Proc : Step(p)

Spec == Init /\ [][Next]_vars

-----------------------------------------------------------------------------
\* Properties

Pcs == {"idle", "upsert", "mark", "list_chunks", "replace_lexical", "embed",
        "replace_vectors", "stamp", "create_build", "resolve_lexical",
        "resolve_semantic", "read_lexical", "read_vectors", "record"}

\* What a command keeps between its steps.
Job == [cmd : {"none", "chunks", "build", "query", "benchmark"}, pc : Pcs,
        mode : Modes \cup {"none"}, snap : Snap \cup {Null}, cfg : Config \cup {Null},
        model : Semantic \cup {Null}, fp : Config \cup {Null}, rows : Rows,
        found : Vectors \cup {Null}, at : Nat, lexical : Nat, semantic : Nat,
        left : 0..Cases, read : SUBSET Rows, vectors : SUBSET Vectors]

\* The builds that a command or a provenance row names are among the first ones.
Names(r, lexical, semantic) == r.lexical \in 0..lexical /\ r.semantic \in 0..semantic

\* Every stored row, file and command is well typed, and no command or
\* provenance row names a build that was not inserted (the tables of the index
\* builds, the index files, the locals of the commands).
TypeOK ==
    /\ rows \in [Snap -> Rows]
    /\ mark \in [Snap -> Config \cup {Null}]
    /\ lexicalFile \in [Snap -> Rows \cup {Null}]
    /\ vectorFile \in [Snap \X Semantic -> Vectors \cup {Null}]
    /\ embeddings \in [Semantic \X Text \X SUBSET Layout -> Vectors \cup {Null}]
    /\ lexicalBuilds \in Seq(LexicalBuild)
    /\ semanticBuilds \in Seq(SemanticBuild)
    /\ clock \in Nat
    /\ job \in [Proc -> Job]
    /\ \A p \in Proc : Names(job[p], Len(lexicalBuilds), Len(semanticBuilds))
    /\ \A r \in provenance :
         /\ Names(r, Len(lexicalBuilds), Len(semanticBuilds))
         /\ r.read \subseteq Rows /\ r.vectors \subseteq Vectors
    /\ started \in [{"chunks", "build", "query"} -> Nat]
    /\ faults \in 0..MaxFaults
    /\ alone \in BOOLEAN

\* A build row never points at a file that is not there, whichever processes
\* build and die: the row is inserted after the file is in place, and a file is
\* only ever replaced.
BuildsHaveIndexes ==
    /\ \A i \in DOMAIN lexicalBuilds : lexicalFile[lexicalBuilds[i].snap] # Null
    /\ \A i \in DOMAIN semanticBuilds :
         vectorFile[VectorPath(semanticBuilds[i].snap, semanticBuilds[i].model)] # Null

\* Vectors that a semantic or hybrid answer was computed from are those of the
\* build it names: its snapshot, its model, the chunks it indexed.  The file may
\* be another build's by then and the vectors may come from a cache entry of
\* another snapshot; the count that the query compares is all that stands between.
SemanticAnswersMatchBuild ==
    \A r \in provenance : \A v \in r.vectors :
      LET b == semanticBuilds[r.semantic] IN
      v = [snap |-> b.snap, text |-> TextOf[b.snap], layouts |-> b.layouts, model |-> b.model]

\* Both halves of a hybrid answer are of one snapshot, though the latest indexed
\* snapshot is looked up twice and may change in between.
HybridAnswersAgree ==
    \A r \in provenance :
      r.read # {} /\ r.vectors # {} =>
        lexicalBuilds[r.lexical].snap = semanticBuilds[r.semantic].snap

\* When commands neither overlap nor fail, a lexical build indexes only chunks
\* that were built under the configuration its row names.
LexicalBuildsAreAttributed ==
    alone => \A i \in DOMAIN lexicalBuilds :
               ConfigsOf(lexicalBuilds[i].indexed) = {lexicalBuilds[i].fp}

\* When commands neither overlap nor fail, the newest lexical build of a
\* snapshot describes the index that queries read.
NewestBuildIsRead ==
    alone => \A i \in DOMAIN lexicalBuilds :
      LET b == lexicalBuilds[i] IN
      \/ lexicalFile[b.snap] = b.indexed
      \/ \E k \in DOMAIN lexicalBuilds : lexicalBuilds[k].snap = b.snap
                                          /\ lexicalBuilds[k].at > b.at
      \/ \E p \in Proc : job[p].cmd = "build" /\ job[p].snap = b.snap

\* A lexical answer is computed from chunks of the configuration of its build.
\* It is not: all builds of a snapshot share one file.
LexicalAnswersMatchBuild ==
    \A r \in provenance : \A content \in r.read :
      ConfigsOf(content) \subseteq {lexicalBuilds[r.lexical].fp}
=============================================================================
