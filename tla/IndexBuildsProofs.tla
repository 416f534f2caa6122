-------------------------- MODULE IndexBuildsProofs --------------------------
(***************************************************************************)
(* Theorems about IndexBuilds, for any number of processes, snapshots,     *)
(* configurations, models, cases, commands and faults.                     *)
(***************************************************************************)
EXTENDS MCIndexBuilds, OrderLemmas, SequenceTheorems, TLAPS

ChunkPcs == {"upsert", "mark"}
BuildPcs == {"list_chunks", "replace_lexical", "embed", "replace_vectors", "stamp",
             "create_build"}
QueryPcs == {"resolve_lexical", "resolve_semantic", "read_lexical", "read_vectors"}
Queries == {"query", "benchmark"}

\* What a query or a benchmark run has found and read at its position.
Pinned(j) ==
    /\ j.mode \in Modes /\ j.cfg \in Config /\ j.model \in Semantic
    /\ j.pc \in QueryPcs => j.left > 0
    /\ j.read # {} => j.lexical # 0
    /\ j.vectors # {} => j.semantic # 0
    /\ j.mode = "semantic" => /\ j.lexical = 0
                              /\ j.pc \notin {"resolve_lexical", "read_lexical"}
    /\ j.mode = "lexical" => /\ j.semantic = 0
                             /\ j.pc \notin {"resolve_semantic", "read_vectors"}
    /\ j.pc \in {"resolve_lexical", "resolve_semantic"} => j.semantic = 0
    /\ j.pc = "resolve_lexical" => j.lexical = 0
    /\ j.pc = "read_lexical" => j.lexical # 0
    /\ j.pc = "read_vectors" => j.semantic # 0
    /\ j.mode = "hybrid" /\ j.pc \in {"resolve_semantic", "read_vectors"} => j.lexical # 0

\* What a command holds at its position.
Staged(j) ==
    /\ j.pc = "idle" <=> j.cmd = "none"
    /\ j.pc \in ChunkPcs <=> j.cmd = "chunks"
    /\ j.pc \in BuildPcs => j.cmd = "build"
    /\ j.pc \in QueryPcs => j.cmd \in Queries
    /\ j.cmd = "chunks" => j.snap \in Snap /\ j.cfg \in Config
    /\ j.cmd = "build" =>
         /\ j.snap \in Snap /\ j.read = {} /\ j.vectors = {}
         /\ \/ j.mode = "lexical" /\ j.cfg \in Config
            \/ j.mode = "semantic" /\ j.model \in Semantic
    /\ j.pc = "replace_lexical" => j.mode = "lexical"
    /\ j.pc \in {"embed", "replace_vectors"} => j.mode = "semantic"
    /\ j.pc = "replace_vectors" => j.found \in Vectors
    /\ j.cmd \in Queries => Pinned(j)

\* The jobs of all processes, when so many builds were inserted.
JobsOK(jobs, lexical, semantic) ==
    jobs \in [Proc -> Job]
    /\ \A p \in Proc : Staged(jobs[p]) /\ Names(jobs[p], lexical, semantic)

TypeInv == TypeOK /\ \A p \in Proc : Staged(job[p])

-----------------------------------------------------------------------------
\* The type invariant.

LEMMA NoJobHolds == NoJob \in Job /\ Staged(NoJob)
<1>1. NoRows \in Rows
  BY DEF NoRows, Rows
<1>2. NoJob \in Job
  BY <1>1, BoundsAssumption DEF NoJob, Job, Pcs
<1>3. Staged(NoJob)
  BY DEF NoJob, Staged, ChunkPcs, BuildPcs, QueryPcs, Queries
<1> QED
  BY <1>2, <1>3

LEMMA TypeInvInit == Init => TypeInv
<1>1. SUFFICES ASSUME Init PROVE TypeInv
  OBVIOUS
<1>2. /\ \A p \in Proc : job[p] = NoJob
      /\ Len(lexicalBuilds) = 0 /\ Len(semanticBuilds) = 0
  BY <1>1 DEF Init
<1>3. \A p \in Proc : Names(job[p], 0, 0)
  BY <1>2 DEF Names, NoJob
<1>4. NoRows \in Rows
  BY DEF NoRows, Rows
<1>5. TypeOK
  BY <1>1, <1>2, <1>3, <1>4, NoJobHolds, BoundsAssumption DEF Init, TypeOK
<1>6. \A p \in Proc : Staged(job[p])
  BY <1>2, NoJobHolds
<1> QED
  BY <1>5, <1>6 DEF TypeInv

LEMMA JobsTyped ==
  ASSUME TypeInv
  PROVE  /\ JobsOK(job, Len(lexicalBuilds), Len(semanticBuilds))
         /\ Len(lexicalBuilds) \in Nat /\ Len(semanticBuilds) \in Nat
         /\ \A p \in Proc : job[p] \in Job /\ Staged(job[p])
                            /\ Names(job[p], Len(lexicalBuilds), Len(semanticBuilds))
BY LenProperties DEF TypeInv, TypeOK, JobsOK

\* Every action replaces one job, and builds are only appended.
LEMMA JobReplaced ==
  ASSUME NEW jobs, NEW m \in Nat, NEW n \in Nat, JobsOK(jobs, m, n),
         NEW mm \in Nat, NEW nn \in Nat, m <= mm, n <= nn,
         NEW p \in Proc, NEW j \in Job, Staged(j), Names(j, mm, nn)
  PROVE  JobsOK([jobs EXCEPT ![p] = j], mm, nn)
<1>1. \A q \in Proc : Names(jobs[q], mm, nn)
  BY DEF JobsOK, Names
<1> QED
  BY <1>1 DEF JobsOK

\* What a step must establish, when it changes the job of its process to j.
LEMMA TypeInvFromJobs ==
  ASSUME TypeInv, JobsOK(job', Len(lexicalBuilds'), Len(semanticBuilds')),
         rows' \in [Snap -> Rows], mark' \in [Snap -> Config \cup {Null}],
         lexicalFile' \in [Snap -> Rows \cup {Null}],
         vectorFile' \in [Snap \X Semantic -> Vectors \cup {Null}],
         embeddings' \in [Semantic \X Text \X SUBSET Layout -> Vectors \cup {Null}],
         lexicalBuilds' \in Seq(LexicalBuild), semanticBuilds' \in Seq(SemanticBuild),
         clock' \in Nat, started' \in [{"chunks", "build", "query"} -> Nat],
         faults' \in 0..MaxFaults, alone' \in BOOLEAN,
         \A r \in provenance' : /\ Names(r, Len(lexicalBuilds'), Len(semanticBuilds'))
                                /\ r.read \subseteq Rows /\ r.vectors \subseteq Vectors
  PROVE  TypeInv'
BY DEF TypeInv, TypeOK, JobsOK

\* A step that writes nothing but its job.
LEMMA TypeInvLocal ==
  ASSUME TypeInv, UNCHANGED <<baseline, indexes, builds, provenance>>,
         started' \in [{"chunks", "build", "query"} -> Nat],
         faults' \in 0..MaxFaults, alone' \in BOOLEAN,
         NEW p \in Proc, NEW j \in Job, Staged(j),
         Names(j, Len(lexicalBuilds), Len(semanticBuilds)), job' = [job EXCEPT ![p] = j]
  PROVE  TypeInv'
<1> DEFINE m == Len(lexicalBuilds)
           n == Len(semanticBuilds)
<1>1. JobsOK(job, m, n) /\ m \in Nat /\ n \in Nat /\ Names(j, m, n)
  BY JobsTyped
<1>2. JobsOK([job EXCEPT ![p] = j], m, n)
  <2> HIDE DEF m, n
  <2>1. m <= m /\ n <= n
    BY <1>1
  <2> QED
    BY <1>1, <2>1, JobReplaced
<1> QED
  BY <1>2, TypeInvFromJobs DEF TypeInv, TypeOK, baseline, indexes, builds

LEMMA StartTyped ==
  ASSUME TypeInv, NEW p \in Proc, NEW kind \in {"chunks", "build", "query"}, NEW limit,
         NEW j \in Job, Staged(j), j.lexical = 0, j.semantic = 0, Start(p, kind, limit, j)
  PROVE  TypeInv'
<1>1. started' \in [{"chunks", "build", "query"} -> Nat]
  BY DEF TypeInv, TypeOK, Start
<1>2. alone' \in BOOLEAN
  BY DEF TypeInv, TypeOK, Start
<1>3. Names(j, Len(lexicalBuilds), Len(semanticBuilds))
  BY JobsTyped DEF Names
<1>4. faults' \in 0..MaxFaults
  BY DEF TypeInv, TypeOK, Start
<1> QED
  BY <1>1, <1>2, <1>3, <1>4, TypeInvLocal DEF Start

LEMMA TypeInvStart ==
  ASSUME TypeInv, NEW p \in Proc, StartChunks(p) \/ StartBuild(p) \/ StartQuery(p)
  PROVE  TypeInv'
<1>t. TypeOK
  BY DEF TypeInv
<1>1. CASE StartChunks(p)
  <2> DEFINE j(s, c) == [NoJob EXCEPT !.cmd = "chunks", !.pc = "upsert", !.snap = s, !.cfg = c]
  <2>1. PICK s \in Snap, c \in Config : Start(p, "chunks", MaxChunks, j(s, c))
    BY <1>1 DEF StartChunks
  <2>2. j(s, c) \in Job /\ j(s, c).lexical = 0 /\ j(s, c).semantic = 0
    BY NoJobHolds DEF Job, NoJob, Pcs
  <2>3. Staged(j(s, c))
    BY DEF NoJob, Staged, ChunkPcs, BuildPcs, QueryPcs, Queries
  <2> HIDE DEF j
  <2> QED
    BY <2>1, <2>2, <2>3, StartTyped
<1>2. ASSUME NEW s \in Snap, NEW c \in Config,
             Start(p, "build", MaxBuilds,
                   [NoJob EXCEPT !.cmd = "build", !.mode = "lexical", !.pc = "list_chunks",
                                 !.snap = s, !.cfg = c, !.fp = mark[s]])
      PROVE  TypeInv'
  <2> DEFINE j == [NoJob EXCEPT !.cmd = "build", !.mode = "lexical", !.pc = "list_chunks",
                                !.snap = s, !.cfg = c, !.fp = mark[s]]
  <2>1. mark[s] \in Config \cup {Null}
    BY <1>t DEF TypeOK
  <2>2. j \in Job /\ j.lexical = 0 /\ j.semantic = 0
    BY <2>1, NoJobHolds DEF Job, NoJob, Pcs, Modes
  <2>3. Staged(j)
    BY DEF NoJob, Staged, ChunkPcs, BuildPcs, QueryPcs, Queries
  <2> HIDE DEF j
  <2> QED
    BY <1>2, <2>2, <2>3, StartTyped DEF j
<1>3. ASSUME NEW s \in Snap, NEW g \in Semantic,
             Start(p, "build", MaxBuilds,
                   [NoJob EXCEPT !.cmd = "build", !.mode = "semantic", !.pc = "list_chunks",
                                 !.snap = s, !.model = g])
      PROVE  TypeInv'
  <2> DEFINE j == [NoJob EXCEPT !.cmd = "build", !.mode = "semantic", !.pc = "list_chunks",
                                !.snap = s, !.model = g]
  <2>2. j \in Job /\ j.lexical = 0 /\ j.semantic = 0
    BY NoJobHolds DEF Job, NoJob, Pcs, Modes
  <2>3. Staged(j)
    BY DEF NoJob, Staged, ChunkPcs, BuildPcs, QueryPcs, Queries
  <2> HIDE DEF j
  <2> QED
    BY <1>3, <2>2, <2>3, StartTyped DEF j
<1>4. CASE StartQuery(p)
  <2>1. PICK cmd \in {"query", "benchmark"}, m \in Modes, c \in Config, g \in Semantic :
          Start(p, "query", MaxQueries,
                [NoJob EXCEPT !.cmd = cmd, !.mode = m, !.cfg = c, !.model = g,
                              !.left = IF cmd = "query" THEN 1 ELSE Cases,
                              !.pc = IF m = "semantic" THEN "resolve_semantic"
                                                       ELSE "resolve_lexical"])
    BY <1>4 DEF StartQuery
  <2> DEFINE n == IF cmd = "query" THEN 1 ELSE Cases
             pc == IF m = "semantic" THEN "resolve_semantic" ELSE "resolve_lexical"
             k == [NoJob EXCEPT !.cmd = cmd, !.mode = m, !.cfg = c, !.model = g,
                                !.left = n, !.pc = pc]
  <2>2. n \in 0..Cases /\ n > 0
    BY BoundsAssumption
  <2>3. pc \in Pcs
    BY DEF Pcs
  <2>4. Start(p, "query", MaxQueries, k)
    BY <2>1
  <2>5. k.lexical = 0 /\ k.semantic = 0
    BY DEF NoJob
  <2>6. Staged(k)
    <3>1. Pinned(k)
      BY <2>2 DEF NoJob, Pinned, Modes, QueryPcs
    <3> QED
      BY <3>1 DEF NoJob, Staged, ChunkPcs, BuildPcs, QueryPcs, Queries
  <2>7. k \in Job
    <3> HIDE DEF n, pc
    <3> QED
      BY <2>2, <2>3, NoJobHolds DEF Job, NoJob
  <2> HIDE DEF k
  <2> QED
    BY <2>4, <2>5, <2>6, <2>7, StartTyped
<1> QED
  BY <1>1, <1>2, <1>3, <1>4 DEF StartBuild

\* A step that inserts no build: what is left to show is its job and the types
\* of what it writes.
LEMMA JobStep ==
  ASSUME TypeInv, UNCHANGED <<lexicalBuilds, semanticBuilds>>,
         NEW p \in Proc, NEW j \in Job, Staged(j),
         Names(j, Len(lexicalBuilds), Len(semanticBuilds)), job' = [job EXCEPT ![p] = j]
  PROVE  JobsOK(job', Len(lexicalBuilds'), Len(semanticBuilds'))
<1> DEFINE m == Len(lexicalBuilds)
           n == Len(semanticBuilds)
<1>1. JobsOK(job, m, n) /\ m \in Nat /\ n \in Nat /\ Names(j, m, n)
  BY JobsTyped
<1>2. JobsOK([job EXCEPT ![p] = j], m, n)
  <2> HIDE DEF m, n
  <2>1. m <= m /\ n <= n
    BY <1>1
  <2> QED
    BY <1>1, <2>1, JobReplaced
<1> QED
  BY <1>2

LEMMA FinishTyped ==
  ASSUME TypeInv, UNCHANGED <<lexicalBuilds, semanticBuilds>>, NEW p \in Proc, Finish(p)
  PROVE  JobsOK(job', Len(lexicalBuilds'), Len(semanticBuilds'))
<1>1. Names(NoJob, Len(lexicalBuilds), Len(semanticBuilds))
  BY JobsTyped DEF NoJob, Names
<1> QED
  BY <1>1, NoJobHolds, JobStep DEF Finish

LEMMA FaultTyped ==
  ASSUME TypeInv, Fault
  PROVE  faults' \in 0..MaxFaults /\ alone' \in BOOLEAN
<1>1. MaxFaults \in Nat
  BY BoundsAssumption
<1>2. faults \in 0..MaxFaults
  BY DEF TypeInv, TypeOK
<1>3. faults < MaxFaults /\ faults' = faults + 1
  BY DEF Fault
<1>4. alone' \in BOOLEAN
  BY DEF Fault
<1>5. faults' \in 0..MaxFaults
  BY <1>1, <1>2, <1>3
<1> QED
  BY <1>4, <1>5

LEMMA TypeInvChunks ==
  ASSUME TypeInv, NEW p \in Proc, UpsertChunks(p) \/ MarkChunks(p)
  PROVE  TypeInv'
<1>t. /\ TypeOK /\ job \in [Proc -> Job] /\ job[p] \in Job /\ Staged(job[p])
      /\ Names(job[p], Len(lexicalBuilds), Len(semanticBuilds))
  BY JobsTyped DEF TypeInv, TypeOK
<1>1. CASE UpsertChunks(p)
  <2> DEFINE j == [job[p] EXCEPT !.pc = "mark"]
  <2>1. job[p].snap \in Snap /\ job[p].cfg \in Config
    BY <1>t, <1>1 DEF UpsertChunks, At, Staged, ChunkPcs
  <2>2. rows' \in [Snap -> Rows]
    BY <1>t, <1>1, <2>1 DEF UpsertChunks, TypeOK, Rows, Layout
  <2>3. faults' \in 0..MaxFaults /\ alone' \in BOOLEAN
    BY <1>t, <1>1, FaultTyped DEF UpsertChunks, TypeOK
  <2>4. j \in Job
    BY <1>t DEF Job, Pcs
  <2>5. Staged(j) /\ Names(j, Len(lexicalBuilds), Len(semanticBuilds))
    BY <1>t, <1>1 DEF UpsertChunks, At, Job, Staged, Names, ChunkPcs, BuildPcs, QueryPcs,
                      Queries
  <2>6. job' = [job EXCEPT ![p] = j]
    BY <1>1 DEF UpsertChunks, Goto
  <2> HIDE DEF j
  <2>7. JobsOK(job', Len(lexicalBuilds'), Len(semanticBuilds'))
    BY <1>1, <2>4, <2>5, <2>6, JobStep DEF UpsertChunks, builds
  <2> QED
    BY <1>t, <1>1, <2>2, <2>3, <2>7, TypeInvFromJobs DEF UpsertChunks, TypeOK, indexes, builds
<1>2. CASE MarkChunks(p)
  <2>1. job[p].snap \in Snap /\ job[p].cfg \in Config
    BY <1>t, <1>2 DEF MarkChunks, At, Staged, ChunkPcs
  <2>2. mark' \in [Snap -> Config \cup {Null}]
    BY <1>t, <1>2, <2>1 DEF MarkChunks, TypeOK
  <2>3. JobsOK(job', Len(lexicalBuilds'), Len(semanticBuilds'))
    BY <1>2, FinishTyped DEF MarkChunks, builds
  <2> QED
    BY <1>t, <1>2, <2>2, <2>3, TypeInvFromJobs
    DEF MarkChunks, TypeOK, indexes, builds, meters
<1> QED
  BY <1>1, <1>2

LEMMA LayoutsTyped ==
  ASSUME NEW r \in Rows
  PROVE  LayoutsOf(r) \in SUBSET Layout
BY DEF LayoutsOf

\* The key, the cache entry and the document of a build that embeds.
LEMMA DocumentsTyped ==
  ASSUME TypeInv, NEW p \in Proc, At(p, "embed")
  PROVE  LET made == [snap |-> job[p].snap, text |-> TextOf[job[p].snap],
                      layouts |-> LayoutsOf(job[p].rows), model |-> job[p].model]
             cached == embeddings[EmbeddingKey(p)]
         IN /\ EmbeddingKey(p) \in Semantic \X Text \X SUBSET Layout
            /\ made \in Vectors /\ cached \in Vectors \cup {Null}
            /\ cached # Null => Relabel(p, cached) \in Vectors
<1>1. /\ TypeOK /\ job[p] \in Job /\ Staged(job[p])
  BY JobsTyped DEF TypeInv
<1>2. job[p].snap \in Snap /\ job[p].model \in Semantic /\ job[p].rows \in Rows
  BY <1>1 DEF At, Staged, BuildPcs, Job
<1>3. TextOf[job[p].snap] \in Text
  BY <1>2, TextAssumption
<1>4. LayoutsOf(job[p].rows) \in SUBSET Layout
  BY <1>2, LayoutsTyped
<1>5. EmbeddingKey(p) \in Semantic \X Text \X SUBSET Layout
  BY <1>2, <1>3, <1>4 DEF EmbeddingKey
<1>6. embeddings[EmbeddingKey(p)] \in Vectors \cup {Null}
  BY <1>1, <1>5 DEF TypeOK
<1>7. embeddings[EmbeddingKey(p)] # Null => Relabel(p, embeddings[EmbeddingKey(p)]) \in Vectors
  BY <1>2, <1>6 DEF Relabel, Vectors
<1> QED
  BY <1>2, <1>3, <1>4, <1>5, <1>6, <1>7 DEF Vectors

LEMMA TypeInvIndexes ==
  ASSUME TypeInv, NEW p \in Proc,
         ListChunks(p) \/ ReplaceLexical(p) \/ Embed(p) \/ ReplaceVectors(p) \/ Stamp(p)
  PROVE  TypeInv'
<1>t. /\ TypeOK /\ job \in [Proc -> Job] /\ job[p] \in Job /\ Staged(job[p])
      /\ Names(job[p], Len(lexicalBuilds), Len(semanticBuilds))
  BY JobsTyped DEF TypeInv, TypeOK
<1>1. CASE ListChunks(p)
  <2>1. CASE Refuses(p)
    <3>1. JobsOK(job', Len(lexicalBuilds'), Len(semanticBuilds'))
      BY <1>1, <2>1, FinishTyped DEF ListChunks, builds
    <3> QED
      BY <1>t, <1>1, <3>1, TypeInvFromJobs
      DEF ListChunks, TypeOK, baseline, indexes, builds, meters
  <2>2. CASE ~Refuses(p)
    <3> DEFINE pc == IF job[p].mode = "lexical" THEN "replace_lexical" ELSE "embed"
               j == [job[p] EXCEPT !.rows = rows[job[p].snap], !.pc = pc]
    <3>1. job[p].cmd = "build" /\ job[p].snap \in Snap
      BY <1>t, <1>1 DEF ListChunks, At, Staged, BuildPcs
    <3>2. rows[job[p].snap] \in Rows
      BY <1>t, <3>1 DEF TypeOK
    <3>3. pc \in Pcs /\ (pc = "replace_lexical" \/ pc = "embed")
          /\ (pc = "replace_lexical" <=> job[p].mode = "lexical")
      BY DEF Pcs
    <3>4. job' = [job EXCEPT ![p] = j]
      BY <1>1, <2>2 DEF ListChunks
    <3> HIDE DEF pc
    <3>5. j \in Job
      BY <1>t, <3>2, <3>3 DEF Job
    <3>6. Staged(j) /\ Names(j, Len(lexicalBuilds), Len(semanticBuilds))
      BY <1>t, <3>1, <3>3
      DEF Job, Staged, Names, ChunkPcs, BuildPcs, QueryPcs, Queries
    <3> HIDE DEF j
    <3> QED
      BY <1>t, <1>1, <3>4, <3>5, <3>6, TypeInvLocal
      DEF ListChunks, TypeOK, meters
  <2> QED
    BY <2>1, <2>2
<1>2. CASE ReplaceLexical(p)
  <2> DEFINE j == [job[p] EXCEPT !.pc = "stamp"]
  <2>1. job[p].snap \in Snap /\ job[p].rows \in Rows /\ job[p].cmd = "build"
    BY <1>t, <1>2 DEF ReplaceLexical, At, Staged, BuildPcs, Job
  <2>2. lexicalFile' \in [Snap -> Rows \cup {Null}]
    BY <1>t, <1>2, <2>1 DEF ReplaceLexical, TypeOK
  <2>3. j \in Job
    BY <1>t DEF Job, Pcs
  <2>4. Staged(j) /\ Names(j, Len(lexicalBuilds), Len(semanticBuilds))
    BY <1>t, <2>1 DEF Job, Staged, Names, ChunkPcs, BuildPcs, QueryPcs, Queries
  <2>5. job' = [job EXCEPT ![p] = j]
    BY <1>2 DEF ReplaceLexical, Goto
  <2> HIDE DEF j
  <2>6. JobsOK(job', Len(lexicalBuilds'), Len(semanticBuilds'))
    BY <1>2, <2>3, <2>4, <2>5, JobStep DEF ReplaceLexical, builds
  <2> QED
    BY <1>t, <1>2, <2>2, <2>6, TypeInvFromJobs
    DEF ReplaceLexical, TypeOK, baseline, builds, meters
<1>3. CASE Embed(p)
  <2> DEFINE made == [snap |-> job[p].snap, text |-> TextOf[job[p].snap],
                      layouts |-> LayoutsOf(job[p].rows), model |-> job[p].model]
             cached == embeddings[EmbeddingKey(p)]
             found == IF cached # Null THEN Relabel(p, cached) ELSE made
             j == [job[p] EXCEPT !.found = found, !.pc = "replace_vectors"]
  <2>0. At(p, "embed")
    BY <1>3 DEF Embed
  <2>1. /\ EmbeddingKey(p) \in Semantic \X Text \X SUBSET Layout /\ made \in Vectors
        /\ found \in Vectors
    BY <2>0, DocumentsTyped
  <2>2. /\ job' = [job EXCEPT ![p] = j]
        /\ embeddings' = [embeddings EXCEPT ![EmbeddingKey(p)] = IF @ # Null THEN @ ELSE made]
    BY <1>3 DEF Embed
  <2>3. job[p].cmd = "build" /\ job[p].mode = "semantic"
    BY <1>t, <2>0 DEF At, Staged, BuildPcs
  <2> HIDE DEF made, found
  <2>4. embeddings' \in [Semantic \X Text \X SUBSET Layout -> Vectors \cup {Null}]
    BY <1>t, <2>1, <2>2 DEF TypeOK
  <2>5. j \in Job
    BY <1>t, <2>1 DEF Job, Pcs
  <2>6. Staged(j) /\ Names(j, Len(lexicalBuilds), Len(semanticBuilds))
    BY <1>t, <2>1, <2>3 DEF Job, Staged, Names, ChunkPcs, BuildPcs, QueryPcs, Queries
  <2> HIDE DEF j
  <2>7. JobsOK(job', Len(lexicalBuilds'), Len(semanticBuilds'))
    BY <1>3, <2>2, <2>5, <2>6, JobStep DEF Embed, builds
  <2> QED
    BY <1>t, <1>3, <2>4, <2>7, TypeInvFromJobs DEF Embed, TypeOK, baseline, builds, meters
<1>4. CASE ReplaceVectors(p)
  <2> DEFINE j == [job[p] EXCEPT !.pc = "stamp"]
  <2>1. /\ job[p].snap \in Snap /\ job[p].model \in Semantic /\ job[p].found \in Vectors
        /\ job[p].cmd = "build"
    BY <1>t, <1>4 DEF ReplaceVectors, At, Staged, BuildPcs
  <2>2. vectorFile' \in [Snap \X Semantic -> Vectors \cup {Null}]
    BY <1>t, <1>4, <2>1 DEF ReplaceVectors, VectorPath, TypeOK
  <2>3. j \in Job
    BY <1>t DEF Job, Pcs
  <2>4. Staged(j) /\ Names(j, Len(lexicalBuilds), Len(semanticBuilds))
    BY <1>t, <2>1 DEF Job, Staged, Names, ChunkPcs, BuildPcs, QueryPcs, Queries
  <2>5. job' = [job EXCEPT ![p] = j]
    BY <1>4 DEF ReplaceVectors, Goto
  <2> HIDE DEF j
  <2>6. JobsOK(job', Len(lexicalBuilds'), Len(semanticBuilds'))
    BY <1>4, <2>3, <2>4, <2>5, JobStep DEF ReplaceVectors, builds
  <2> QED
    BY <1>t, <1>4, <2>2, <2>6, TypeInvFromJobs
    DEF ReplaceVectors, TypeOK, baseline, builds, meters
<1>5. CASE Stamp(p)
  <2> DEFINE j == [job[p] EXCEPT !.at = clock', !.pc = "create_build"]
  <2>1. clock' \in Nat /\ job[p].cmd = "build"
    BY <1>t, <1>5 DEF Stamp, TypeOK, At, Staged, BuildPcs
  <2>2. j \in Job
    BY <1>t, <2>1 DEF Job, Pcs
  <2>3. Staged(j) /\ Names(j, Len(lexicalBuilds), Len(semanticBuilds))
    BY <1>t, <2>1 DEF Job, Staged, Names, ChunkPcs, BuildPcs, QueryPcs, Queries
  <2>4. job' = [job EXCEPT ![p] = j]
    BY <1>5 DEF Stamp
  <2> HIDE DEF j
  <2>5. JobsOK(job', Len(lexicalBuilds'), Len(semanticBuilds'))
    BY <1>5, <2>2, <2>3, <2>4, JobStep DEF Stamp
  <2> QED
    BY <1>t, <1>5, <2>1, <2>5, TypeInvFromJobs
    DEF Stamp, TypeOK, baseline, indexes, meters
<1> QED
  BY <1>1, <1>2, <1>3, <1>4, <1>5

LEMMA TypeInvInserts ==
  ASSUME TypeInv, NEW p \in Proc, CreateLexicalBuild(p) \/ CreateSemanticBuild(p)
  PROVE  TypeInv'
<1> DEFINE m == Len(lexicalBuilds)
           n == Len(semanticBuilds)
<1>t. /\ TypeOK /\ job \in [Proc -> Job] /\ job[p] \in Job /\ Staged(job[p])
      /\ JobsOK(job, m, n) /\ m \in Nat /\ n \in Nat /\ Names(job[p], m, n)
  BY JobsTyped DEF TypeInv, TypeOK
<1>c. job[p].cmd = "build" /\ job[p].snap \in Snap
  BY <1>t DEF CreateLexicalBuild, CreateSemanticBuild, At, Staged, BuildPcs
<1>1. CASE CreateLexicalBuild(p)
  <2> DEFINE fp == IF job[p].fp # Null THEN job[p].fp ELSE job[p].cfg
             b == [at |-> job[p].at, snap |-> job[p].snap, indexed |-> job[p].rows, fp |-> fp]
             j == [job[p] EXCEPT !.lexical = m + 1, !.pc = "record"]
  <2>1. fp \in Config
    BY <1>t, <1>1, <1>c, NullAssumption DEF CreateLexicalBuild, Job, Staged
  <2>2. b \in LexicalBuild
    BY <1>t, <1>c, <2>1 DEF LexicalBuild, Job
  <2>3. lexicalBuilds' = Append(lexicalBuilds, b)
    BY <1>1 DEF CreateLexicalBuild, InsertLexicalBuild
  <2> HIDE DEF fp, b
  <2>4. lexicalBuilds' \in Seq(LexicalBuild) /\ Len(lexicalBuilds') = m + 1
    BY <1>t, <2>2, <2>3 DEF TypeOK
  <2>5. job' = [job EXCEPT ![p] = j]
    BY <1>1, <2>4 DEF CreateLexicalBuild, InsertLexicalBuild
  <2>6. j \in Job
    <3> HIDE DEF m, n
    <3>1. m + 1 \in Nat /\ n + 1 \in Nat
      BY <1>t
    <3> QED
      BY <1>t, <3>1 DEF Job, Pcs
  <2>7. Staged(j) /\ Names(j, m + 1, n)
    BY <1>t, <1>c DEF Job, Staged, Names, ChunkPcs, BuildPcs, QueryPcs, Queries
  <2>8. JobsOK(job', m + 1, n)
    <3> HIDE DEF m, n, j
    <3>1. m + 1 \in Nat /\ m <= m + 1 /\ n <= n
      BY <1>t
    <3> QED
      BY <1>t, <2>5, <2>6, <2>7, <3>1, JobReplaced
  <2>9. \A r \in provenance : Names(r, m + 1, n) /\ r.read \subseteq Rows /\ r.vectors \subseteq Vectors
    BY <1>t DEF TypeOK, Names
  <2> QED
    BY <1>t, <1>1, <2>4, <2>8, <2>9, TypeInvFromJobs
    DEF CreateLexicalBuild, InsertLexicalBuild, TypeOK, baseline, indexes, meters
<1>2. CASE CreateSemanticBuild(p)
  <2> DEFINE b == [at |-> job[p].at, snap |-> job[p].snap, model |-> job[p].model,
                   layouts |-> LayoutsOf(job[p].rows)]
             j == [job[p] EXCEPT !.semantic = n + 1, !.pc = "record"]
  <2>1. job[p].model \in Semantic /\ LayoutsOf(job[p].rows) \in SUBSET Layout
    BY <1>t, <1>2, <1>c, LayoutsTyped DEF CreateSemanticBuild, Job, Staged
  <2>2. b \in SemanticBuild
    BY <1>t, <1>c, <2>1 DEF SemanticBuild, Job
  <2>3. semanticBuilds' = Append(semanticBuilds, b)
    BY <1>2 DEF CreateSemanticBuild
  <2> HIDE DEF b
  <2>4. semanticBuilds' \in Seq(SemanticBuild) /\ Len(semanticBuilds') = n + 1
    BY <1>t, <2>2, <2>3 DEF TypeOK
  <2>5. job' = [job EXCEPT ![p] = j]
    BY <1>2, <2>4 DEF CreateSemanticBuild
  <2>6. j \in Job
    <3> HIDE DEF m, n
    <3>1. m + 1 \in Nat /\ n + 1 \in Nat
      BY <1>t
    <3> QED
      BY <1>t, <3>1 DEF Job, Pcs
  <2>7. Staged(j) /\ Names(j, m, n + 1)
    BY <1>t, <1>c DEF Job, Staged, Names, ChunkPcs, BuildPcs, QueryPcs, Queries
  <2>8. JobsOK(job', m, n + 1)
    <3> HIDE DEF m, n, j
    <3>1. n + 1 \in Nat /\ n <= n + 1 /\ m <= m
      BY <1>t
    <3> QED
      BY <1>t, <2>5, <2>6, <2>7, <3>1, JobReplaced
  <2>9. \A r \in provenance : Names(r, m, n + 1) /\ r.read \subseteq Rows /\ r.vectors \subseteq Vectors
    BY <1>t DEF TypeOK, Names
  <2> QED
    BY <1>t, <1>2, <2>4, <2>8, <2>9, TypeInvFromJobs
    DEF CreateSemanticBuild, TypeOK, baseline, indexes, meters
<1> QED
  BY <1>1, <1>2

\* The newest of some builds is one of them.
LEMMA NewestIsOne ==
  ASSUME NEW table, NEW n \in Nat, NEW ids \in SUBSET (1..n), ids # {},
         \A i \in ids : table[i].at \in Nat
  PROVE  /\ Newest(ids, table) \in ids
         /\ \A i \in ids : table[i].at <= table[Newest(ids, table)].at
<1> DEFINE f == [i \in ids |-> table[i].at]
<1>1. IsFiniteSet(ids)
  <2>1. IsFiniteSet(1..n)
    BY FS_Interval
  <2> QED
    BY <2>1, FS_Subset
<1>2. \E i \in ids : \A k \in ids : f[k] <= f[i]
  <2>1. \A i \in ids : f[i] \in Int
    <3>1. \A i \in ids : f[i] = table[i].at
      OBVIOUS
    <3>2. \A k \in Nat : k \in Int
      OBVIOUS
    <3> HIDE DEF f
    <3> QED
      BY <3>1, <3>2, Zenon
  <2> HIDE DEF f
  <2> QED
    BY <1>1, <2>1, GreatestValue
<1>3. \E i \in ids : \A k \in ids : table[k].at <= table[i].at
  BY <1>2
<1> QED
  BY <1>3 DEF Newest

LEMMA FoundLexical ==
  ASSUME TypeInv, NEW c, LexicalFor(c) # {}
  PROVE  /\ Newest(LexicalFor(c), lexicalBuilds) \in LexicalFor(c)
         /\ Newest(LexicalFor(c), lexicalBuilds) \in 1..Len(lexicalBuilds)
<1>1. /\ lexicalBuilds \in Seq(LexicalBuild) /\ Len(lexicalBuilds) \in Nat
      /\ DOMAIN lexicalBuilds = 1..Len(lexicalBuilds)
  BY LenProperties DEF TypeInv, TypeOK
<1>2. LexicalFor(c) \in SUBSET (1..Len(lexicalBuilds))
  BY <1>1 DEF LexicalFor
<1>3. \A i \in LexicalFor(c) : lexicalBuilds[i].at \in Nat
  <2>1. \A i \in 1..Len(lexicalBuilds) : lexicalBuilds[i] \in LexicalBuild
    BY <1>1, ElementOfSeq
  <2> QED
    BY <1>2, <2>1 DEF LexicalBuild
<1>4. Newest(LexicalFor(c), lexicalBuilds) \in LexicalFor(c)
  BY <1>1, <1>2, <1>3, NewestIsOne
<1> QED
  BY <1>2, <1>4

LEMMA FoundSemantic ==
  ASSUME TypeInv, NEW g, SemanticFor(g) # {}
  PROVE  /\ Newest(SemanticFor(g), semanticBuilds) \in SemanticFor(g)
         /\ Newest(SemanticFor(g), semanticBuilds) \in 1..Len(semanticBuilds)
<1>1. /\ semanticBuilds \in Seq(SemanticBuild) /\ Len(semanticBuilds) \in Nat
      /\ DOMAIN semanticBuilds = 1..Len(semanticBuilds)
  BY LenProperties DEF TypeInv, TypeOK
<1>2. SemanticFor(g) \in SUBSET (1..Len(semanticBuilds))
  BY <1>1 DEF SemanticFor
<1>3. \A i \in SemanticFor(g) : semanticBuilds[i].at \in Nat
  <2>1. \A i \in 1..Len(semanticBuilds) : semanticBuilds[i] \in SemanticBuild
    BY <1>1, ElementOfSeq
  <2> QED
    BY <1>2, <2>1 DEF SemanticBuild
<1>4. Newest(SemanticFor(g), semanticBuilds) \in SemanticFor(g)
  BY <1>1, <1>2, <1>3, NewestIsOne
<1> QED
  BY <1>2, <1>4

\* A case that ends leaves the query at a position it may take.
LEMMA CaseEnds ==
  ASSUME NEW j \in Job, j.cmd \in Queries, Pinned(j), j.left > 0,
         (j.mode = "lexical" /\ j.pc = "read_lexical") \/ j.pc = "read_vectors",
         NEW k, k = AfterCase(j)
  PROVE  /\ k \in Job /\ Staged(k) /\ k.lexical = j.lexical /\ k.semantic = j.semantic
         /\ k.cmd = j.cmd /\ k.at = j.at /\ k.vectors = j.vectors
<1>1. j.mode \in Modes /\ j.left \in 0..Cases /\ Cases \in Nat
  BY BoundsAssumption DEF Pinned, Job
<1>2. CASE j.left > 1
  <2> DEFINE n == j.left - 1
             pc == IF j.mode = "semantic" THEN "read_vectors" ELSE "read_lexical"
  <2>1. k = [j EXCEPT !.left = n, !.pc = pc]
    BY <1>2 DEF AfterCase, Job
  <2>2. n \in 0..Cases /\ n > 0
    BY <1>1, <1>2
  <2>3. pc \in Pcs /\ pc \in {"read_lexical", "read_vectors"}
        /\ (pc = "read_vectors" <=> j.mode = "semantic")
    BY DEF Pcs
  <2> HIDE DEF n, pc
  <2>4. k \in Job
    BY <2>1, <2>2, <2>3 DEF Job
  <2>5. Pinned(k)
    BY <1>1, <2>1, <2>2, <2>3 DEF Job, Pinned, QueryPcs, Modes
  <2>6. Staged(k)
    BY <2>1, <2>3, <2>5 DEF Job, Staged, ChunkPcs, BuildPcs, QueryPcs, Queries
  <2> QED
    BY <2>1, <2>4, <2>6 DEF Job
<1>3. CASE ~(j.left > 1)
  <2>1. k = [j EXCEPT !.left = 0, !.pc = "record"]
    BY <1>3 DEF AfterCase
  <2>2. k \in Job
    <3>1. 0 \in 0..Cases /\ "record" \in Pcs
      BY <1>1 DEF Pcs
    <3> QED
      BY <2>1, <3>1 DEF Job
  <2>3. Pinned(k)
    BY <2>1 DEF Job, Pinned, QueryPcs, Modes
  <2>4. Staged(k)
    BY <2>1, <2>3 DEF Job, Staged, ChunkPcs, BuildPcs, QueryPcs, Queries
  <2> QED
    BY <2>1, <2>2, <2>4 DEF Job
<1> QED
  BY <1>2, <1>3

LEMMA TypeInvFinish ==
  ASSUME TypeInv, NEW p \in Proc, Finish(p),
         UNCHANGED <<baseline, indexes, builds, provenance, meters>>
  PROVE  TypeInv'
<1>1. Names(NoJob, Len(lexicalBuilds), Len(semanticBuilds))
  BY JobsTyped DEF NoJob, Names
<1> QED
  BY <1>1, NoJobHolds, TypeInvLocal DEF Finish, TypeInv, TypeOK, meters

\* A query that goes on.
LEMMA QueryGoesOn ==
  ASSUME TypeInv, UNCHANGED <<baseline, indexes, builds, provenance, meters>>,
         NEW p \in Proc, NEW j \in Job, Staged(j),
         Names(j, Len(lexicalBuilds), Len(semanticBuilds)), job' = [job EXCEPT ![p] = j]
  PROVE  TypeInv'
BY TypeInvLocal DEF TypeInv, TypeOK, meters

LEMMA TypeInvResolve ==
  ASSUME TypeInv, NEW p \in Proc, ResolveLexical(p) \/ ResolveSemantic(p)
  PROVE  TypeInv'
<1> DEFINE m == Len(lexicalBuilds)
           n == Len(semanticBuilds)
<1>t. /\ TypeOK /\ job \in [Proc -> Job] /\ job[p] \in Job /\ Staged(job[p])
      /\ JobsOK(job, m, n) /\ m \in Nat /\ n \in Nat /\ Names(job[p], m, n)
  BY JobsTyped DEF TypeInv, TypeOK
<1>q. job[p].cmd \in Queries /\ Pinned(job[p])
  BY <1>t DEF ResolveLexical, ResolveSemantic, At, Staged, QueryPcs
<1>1. CASE ResolveLexical(p)
  <2> DEFINE ids == LexicalFor(job[p].cfg)
             i == Newest(ids, lexicalBuilds)
             pc == IF ResolvesFirst(p) THEN "resolve_semantic" ELSE "read_lexical"
             j == [job[p] EXCEPT !.lexical = i, !.pc = pc]
  <2>0. At(p, "resolve_lexical") /\ UNCHANGED <<baseline, indexes, builds, provenance, meters>>
    BY <1>1 DEF ResolveLexical
  <2>1. CASE ids = {}
    BY <1>1, <2>0, <2>1, TypeInvFinish DEF ResolveLexical
  <2>2. CASE ids # {}
    <3>1. i \in 1..m
      BY <2>2, FoundLexical
    <3>2. job' = [job EXCEPT ![p] = j]
      BY <1>1, <2>2 DEF ResolveLexical
    <3>3. pc \in Pcs /\ pc \in {"resolve_semantic", "read_lexical"}
          /\ (pc = "resolve_semantic" => job[p].mode = "hybrid")
      BY DEF Pcs, ResolvesFirst
    <3> HIDE DEF i, pc, m, n
    <3>i. i \in Nat /\ i # 0 /\ i \in 0..m
      BY <1>t, <3>1
    <3>4. j \in Job
      BY <1>t, <3>i, <3>3 DEF Job
    <3>5. Pinned(j) /\ Names(j, m, n)
      BY <1>t, <1>q, <2>0, <3>i, <3>3 DEF Job, Pinned, Names, QueryPcs, Modes, At
    <3>6. Staged(j)
      BY <1>t, <1>q, <2>0, <3>3, <3>5
      DEF Job, Staged, ChunkPcs, BuildPcs, QueryPcs, Queries
    <3> HIDE DEF j
    <3> QED
      BY <2>0, <3>2, <3>4, <3>5, <3>6, QueryGoesOn DEF m, n
  <2> QED
    BY <2>1, <2>2
<1>2. CASE ResolveSemantic(p)
  <2> DEFINE ids == SemanticFor(job[p].model)
             i == Newest(ids, semanticBuilds)
             pc == IF ResolvesFirst(p) THEN "read_lexical" ELSE "read_vectors"
             j == [job[p] EXCEPT !.semantic = i, !.pc = pc]
  <2>0. At(p, "resolve_semantic") /\ UNCHANGED <<baseline, indexes, builds, provenance, meters>>
    BY <1>2 DEF ResolveSemantic
  <2>1. CASE ids = {} \/ ~Aligned(p, i)
    BY <1>2, <2>0, <2>1, TypeInvFinish DEF ResolveSemantic
  <2>2. CASE ~(ids = {} \/ ~Aligned(p, i))
    <3>1. i \in 1..n
      BY <2>2, FoundSemantic
    <3>2. job' = [job EXCEPT ![p] = j]
      BY <1>2, <2>2 DEF ResolveSemantic
    <3>3. pc \in Pcs /\ pc \in {"read_vectors", "read_lexical"}
          /\ (pc = "read_lexical" => job[p].mode = "hybrid")
      BY DEF Pcs, ResolvesFirst
    <3> HIDE DEF i, pc, m, n
    <3>i. i \in Nat /\ i # 0 /\ i \in 0..n
      BY <1>t, <3>1
    <3>4. j \in Job
      BY <1>t, <3>i, <3>3 DEF Job
    <3>5. Pinned(j) /\ Names(j, m, n)
      BY <1>t, <1>q, <2>0, <3>i, <3>3 DEF Job, Pinned, Names, QueryPcs, Modes, At
    <3>6. Staged(j)
      BY <1>t, <1>q, <2>0, <3>3, <3>5
      DEF Job, Staged, ChunkPcs, BuildPcs, QueryPcs, Queries
    <3> HIDE DEF j
    <3> QED
      BY <2>0, <3>2, <3>4, <3>5, <3>6, QueryGoesOn DEF m, n
  <2> QED
    BY <2>1, <2>2
<1> QED
  BY <1>1, <1>2

\* What a query reads.
LEMMA ReadTyped ==
  ASSUME TypeInv, NEW p \in Proc
  PROVE  /\ At(p, "read_lexical") =>
              /\ job[p].lexical \in 1..Len(lexicalBuilds)
              /\ lexicalBuilds[job[p].lexical].snap \in Snap
              /\ lexicalFile[lexicalBuilds[job[p].lexical].snap] \in Rows \cup {Null}
         /\ At(p, "read_vectors") =>
              LET b == semanticBuilds[job[p].semantic] IN
              /\ job[p].semantic \in 1..Len(semanticBuilds)
              /\ b.snap \in Snap /\ b.model \in Semantic
              /\ vectorFile[VectorPath(b.snap, b.model)] \in Vectors \cup {Null}
<1>t. /\ TypeOK /\ job[p] \in Job /\ Staged(job[p])
      /\ Len(lexicalBuilds) \in Nat /\ Len(semanticBuilds) \in Nat
      /\ Names(job[p], Len(lexicalBuilds), Len(semanticBuilds))
  BY JobsTyped DEF TypeInv
<1>1. CASE At(p, "read_lexical")
  <2>1. job[p].lexical \in 1..Len(lexicalBuilds)
    BY <1>t, <1>1 DEF At, Staged, QueryPcs, Pinned, Names
  <2>2. lexicalBuilds[job[p].lexical] \in LexicalBuild
    BY <1>t, <2>1, ElementOfSeq DEF TypeOK
  <2> QED
    BY <1>t, <1>1, <2>1, <2>2 DEF LexicalBuild, TypeOK, At
<1>2. CASE At(p, "read_vectors")
  <2>1. job[p].semantic \in 1..Len(semanticBuilds)
    BY <1>t, <1>2 DEF At, Staged, QueryPcs, Pinned, Names
  <2>2. semanticBuilds[job[p].semantic] \in SemanticBuild
    BY <1>t, <2>1, ElementOfSeq DEF TypeOK
  <2> QED
    BY <1>t, <1>2, <2>1, <2>2 DEF SemanticBuild, TypeOK, At, VectorPath
<1> QED
  BY <1>1, <1>2

\* Reading an index ends the query or keeps the builds it names.
GoesOn(j, k) ==
    /\ k.cmd = j.cmd /\ k.lexical = j.lexical /\ k.semantic = j.semantic /\ k.at = j.at

LEMMA LexicalRead ==
  ASSUME TypeInv, NEW p \in Proc, ReadLexical(p)
  PROVE  \E k \in Job :
           /\ job' = [job EXCEPT ![p] = k] /\ Staged(k)
           /\ \/ k = NoJob
              \/ GoesOn(job[p], k) /\ k.vectors = job[p].vectors
<1> DEFINE content == lexicalFile[lexicalBuilds[job[p].lexical].snap]
           j == [job[p] EXCEPT !.read = @ \cup {content}]
           k == IF content = Null THEN NoJob
                ELSE IF j.mode = "lexical" THEN AfterCase(j)
                ELSE IF j.semantic = 0 THEN [j EXCEPT !.pc = "resolve_semantic"]
                ELSE [j EXCEPT !.pc = "read_vectors"]
<1>0. At(p, "read_lexical") /\ job' = [job EXCEPT ![p] = k]
  BY DEF ReadLexical
<1>1. job[p] \in Job /\ Staged(job[p]) /\ content \in Rows \cup {Null}
  BY <1>0, JobsTyped, ReadTyped
<1>2. /\ job[p].pc = "read_lexical" /\ job[p].cmd \in Queries /\ Pinned(job[p])
      /\ job[p].left > 0
  BY <1>0, <1>1 DEF At, Staged, QueryPcs, Pinned
<1>3. CASE content = Null
  BY <1>0, <1>3, NoJobHolds
<1>4. CASE content # Null
  <2>1. /\ j \in Job /\ j.cmd = job[p].cmd /\ j.lexical = job[p].lexical
        /\ j.semantic = job[p].semantic /\ j.vectors = job[p].vectors
        /\ j.pc = "read_lexical" /\ j.left = job[p].left /\ j.mode = job[p].mode
        /\ j.at = job[p].at
    BY <1>1, <1>2, <1>4 DEF Job
  <2>2. Pinned(j)
    BY <1>1, <1>2, <1>4 DEF Job, Pinned, QueryPcs
  <2> HIDE DEF content, j
  <2>3. CASE j.mode = "lexical"
    <3>1. k = AfterCase(j)
      BY <1>4, <2>3
    <3> HIDE DEF k
    <3>2. k \in Job /\ Staged(k) /\ GoesOn(job[p], k) /\ k.vectors = job[p].vectors
      BY <1>2, <2>1, <2>2, <2>3, <3>1, CaseEnds DEF GoesOn
    <3> QED
      BY <1>0, <3>2
  <2>4. CASE j.mode # "lexical" /\ j.semantic = 0
    <3>1. k = [j EXCEPT !.pc = "resolve_semantic"]
      BY <1>4, <2>4
    <3> HIDE DEF k
    <3>2. k \in Job
      BY <2>1, <3>1 DEF Job, Pcs
    <3>3. Pinned(k)
      BY <1>2, <2>1, <2>2, <2>4, <3>1 DEF Job, Pinned, QueryPcs
    <3>4. Staged(k)
      BY <1>2, <2>1, <3>1, <3>3 DEF Job, Staged, ChunkPcs, BuildPcs, QueryPcs, Queries
    <3> QED
      BY <1>0, <2>1, <3>1, <3>2, <3>4 DEF GoesOn, Job
  <2>5. CASE j.mode # "lexical" /\ j.semantic # 0
    <3>1. k = [j EXCEPT !.pc = "read_vectors"]
      BY <1>4, <2>5
    <3> HIDE DEF k
    <3>2. k \in Job
      BY <2>1, <3>1 DEF Job, Pcs
    <3>3. Pinned(k)
      BY <1>2, <2>1, <2>2, <2>5, <3>1 DEF Job, Pinned, QueryPcs
    <3>4. Staged(k)
      BY <1>2, <2>1, <3>1, <3>3 DEF Job, Staged, ChunkPcs, BuildPcs, QueryPcs, Queries
    <3> QED
      BY <1>0, <2>1, <3>1, <3>2, <3>4 DEF GoesOn, Job
  <2> QED
    BY <2>3, <2>4, <2>5
<1> QED
  BY <1>3, <1>4

LEMMA VectorsRead ==
  ASSUME TypeInv, NEW p \in Proc, ReadVectors(p)
  PROVE  LET b == semanticBuilds[job[p].semantic]
             content == vectorFile[VectorPath(b.snap, b.model)] IN
         \E k \in Job :
           /\ job' = [job EXCEPT ![p] = k] /\ Staged(k)
           /\ \/ k = NoJob
              \/ /\ GoesOn(job[p], k) /\ k.vectors = job[p].vectors \cup {content}
                 /\ content # Null /\ MatchesBuild(content, b)
<1> DEFINE b == semanticBuilds[job[p].semantic]
           content == vectorFile[VectorPath(b.snap, b.model)]
           j == [job[p] EXCEPT !.vectors = @ \cup {content}]
           k == IF content = Null \/ ~MatchesBuild(content, b) THEN NoJob
                ELSE AfterCase(j)
<1>0. At(p, "read_vectors") /\ job' = [job EXCEPT ![p] = k]
  BY DEF ReadVectors
<1>1. job[p] \in Job /\ Staged(job[p]) /\ content \in Vectors \cup {Null}
  BY <1>0, JobsTyped, ReadTyped
<1>2. /\ job[p].pc = "read_vectors" /\ job[p].cmd \in Queries /\ Pinned(job[p])
      /\ job[p].left > 0 /\ job[p].semantic # 0
  BY <1>0, <1>1 DEF At, Staged, QueryPcs, Pinned
<1>3. CASE content = Null \/ ~MatchesBuild(content, b)
  BY <1>0, <1>3, NoJobHolds
<1>4. CASE ~(content = Null \/ ~MatchesBuild(content, b))
  <2>1. /\ j \in Job /\ j.cmd = job[p].cmd /\ j.lexical = job[p].lexical
        /\ j.semantic = job[p].semantic /\ j.vectors = job[p].vectors \cup {content}
        /\ j.pc = "read_vectors" /\ j.left = job[p].left /\ j.mode = job[p].mode
        /\ j.at = job[p].at
    BY <1>1, <1>2, <1>4 DEF Job
  <2>2. Pinned(j)
    BY <1>1, <1>2, <1>4 DEF Job, Pinned, QueryPcs
  <2>3. k = AfterCase(j)
    BY <1>4
  <2>4. /\ k \in Job /\ Staged(k) /\ GoesOn(job[p], k)
        /\ k.vectors = job[p].vectors \cup {content}
    <3> HIDE DEF content, j, k
    <3> QED
      BY <1>2, <2>1, <2>2, <2>3, CaseEnds DEF GoesOn
  <2> HIDE DEF k
  <2> QED
    BY <1>0, <1>4, <2>4
<1> QED
  BY <1>3, <1>4

LEMMA TypeInvRead ==
  ASSUME TypeInv, NEW p \in Proc, ReadLexical(p) \/ ReadVectors(p)
  PROVE  TypeInv'
<1>1. PICK k \in Job : /\ job' = [job EXCEPT ![p] = k] /\ Staged(k)
                       /\ k = NoJob \/ GoesOn(job[p], k)
  BY LexicalRead, VectorsRead
<1>2. Names(k, Len(lexicalBuilds), Len(semanticBuilds))
  BY <1>1, JobsTyped DEF GoesOn, Names, NoJob
<1>3. UNCHANGED <<baseline, indexes, builds, provenance, meters>>
  BY DEF ReadLexical, ReadVectors
<1> QED
  BY <1>1, <1>2, <1>3, QueryGoesOn

LEMMA TypeInvRecord ==
  ASSUME TypeInv, NEW p \in Proc, Record(p)
  PROVE  TypeInv'
<1>t. TypeOK /\ job[p] \in Job /\ Names(job[p], Len(lexicalBuilds), Len(semanticBuilds))
  BY JobsTyped DEF TypeInv
<1>1. JobsOK(job', Len(lexicalBuilds'), Len(semanticBuilds'))
  BY FinishTyped DEF Record, builds
<1>2. job[p].read \subseteq Rows /\ job[p].vectors \subseteq Vectors
  BY <1>t DEF Job
<1>3. \A r \in provenance' : /\ Names(r, Len(lexicalBuilds), Len(semanticBuilds))
                             /\ r.read \subseteq Rows /\ r.vectors \subseteq Vectors
  <2> DEFINE new == [cmd |-> job[p].cmd, lexical |-> job[p].lexical,
                     semantic |-> job[p].semantic, read |-> job[p].read,
                     vectors |-> job[p].vectors]
  <2>1. Names(new, Len(lexicalBuilds), Len(semanticBuilds))
    BY <1>t DEF Names
  <2>2. new.read = job[p].read /\ new.vectors = job[p].vectors
    OBVIOUS
  <2>3. provenance' = provenance \cup {new}
    BY DEF Record
  <2> HIDE DEF new
  <2> QED
    BY <1>t, <1>2, <2>1, <2>2, <2>3 DEF TypeOK
<1> QED
  BY <1>t, <1>1, <1>3, TypeInvFromJobs DEF Record, TypeOK, baseline, indexes, builds, meters

LEMMA TypeInvFail ==
  ASSUME TypeInv, NEW p \in Proc, Fail(p)
  PROVE  TypeInv'
<1>t. TypeOK
  BY DEF TypeInv
<1>1. JobsOK(job', Len(lexicalBuilds'), Len(semanticBuilds'))
  BY FinishTyped DEF Fail, builds
<1>2. faults' \in 0..MaxFaults /\ alone' \in BOOLEAN
  BY FaultTyped DEF Fail
<1>3. embeddings' \in [Semantic \X Text \X SUBSET Layout -> Vectors \cup {Null}]
  <2>1. CASE UNCHANGED embeddings
    BY <1>t, <2>1 DEF TypeOK
  <2>2. CASE embeddings' = [embeddings EXCEPT ![EmbeddingKey(p)] = Null]
    BY <1>t, <2>2 DEF TypeOK
  <2> QED
    BY <2>1, <2>2 DEF Fail
<1> QED
  BY <1>t, <1>1, <1>2, <1>3, TypeInvFromJobs DEF Fail, TypeOK, baseline, builds

LEMMA TypeInvStep == TypeInv /\ [Next]_vars => TypeInv'
<1>1. TypeInv /\ UNCHANGED vars => TypeInv'
  BY DEF TypeInv, TypeOK, vars
<1>2. ASSUME TypeInv, NEW p \in Proc, Step(p) PROVE TypeInv'
  BY <1>2, TypeInvStart, TypeInvChunks, TypeInvIndexes, TypeInvInserts, TypeInvResolve,
     TypeInvRead, TypeInvRecord, TypeInvFail DEF Step
<1> QED
  BY <1>1, <1>2 DEF Next

\* Every reachable state has the types TypeOK gives the variables, and no
\* command or provenance row names a build that is not there.
THEOREM TypeCorrect == Spec => []TypeOK
<1>1. TypeInv => TypeOK
  BY DEF TypeInv
<1> QED
  BY <1>1, TypeInvInit, TypeInvStep, PTL DEF Spec

-----------------------------------------------------------------------------
\* What a step of one process leaves alone.

LEMMA OthersWait ==
  ASSUME TypeInv, NEW p \in Proc, Step(p)
  PROVE  \A q \in Proc : q # p => job'[q] = job[q]
<1>t. job \in [Proc -> Job]
  BY DEF TypeInv, TypeOK
<1>1. CASE StartChunks(p) \/ StartBuild(p) \/ StartQuery(p)
  BY <1>t, <1>1 DEF StartChunks, StartBuild, StartQuery, Start
<1>2. CASE UpsertChunks(p) \/ MarkChunks(p) \/ ListChunks(p) \/ ReplaceLexical(p)
           \/ Embed(p) \/ ReplaceVectors(p) \/ Stamp(p)
  BY <1>t, <1>2 DEF UpsertChunks, MarkChunks, ListChunks, ReplaceLexical, Embed,
     ReplaceVectors, Stamp, Goto, Finish
<1>3. CASE CreateLexicalBuild(p) \/ CreateSemanticBuild(p) \/ ResolveLexical(p)
           \/ ResolveSemantic(p) \/ Record(p) \/ Fail(p)
  BY <1>t, <1>3 DEF CreateLexicalBuild, InsertLexicalBuild, CreateSemanticBuild,
     ResolveLexical, ResolveSemantic, Record, Fail, Finish
<1>4. CASE ReadLexical(p) \/ ReadVectors(p)
  BY <1>t, <1>4 DEF ReadLexical, ReadVectors
<1> QED
  BY <1>1, <1>2, <1>3, <1>4 DEF Step

\* A command that starts has found and read nothing.
LEMMA Started ==
  ASSUME TypeInv, NEW p \in Proc, StartChunks(p) \/ StartBuild(p) \/ StartQuery(p)
  PROVE  /\ job'[p].lexical = 0 /\ job'[p].semantic = 0
         /\ job'[p].read = {} /\ job'[p].vectors = {} /\ job'[p].at = 0
         /\ job'[p].pc \in {"upsert", "list_chunks", "resolve_lexical", "resolve_semantic"}
         /\ job'[p].mode = "lexical" /\ job'[p].cmd = "build" => job'[p].fp = mark[job'[p].snap]
         /\ alone' => alone /\ \A q \in Proc : At(q, "idle")
         /\ UNCHANGED <<baseline, indexes, builds, provenance, faults>>
<1>t. job \in [Proc -> Job] /\ alone \in BOOLEAN
  BY DEF TypeInv, TypeOK
<1> USE DEF NoJob, Start
<1>0. /\ alone' => alone /\ \A q \in Proc : At(q, "idle")
      /\ UNCHANGED <<baseline, indexes, builds, provenance, faults>>
  BY <1>t DEF StartChunks, StartBuild, StartQuery
<1> HIDE DEF Start
<1>1. CASE StartChunks(p)
  <2>1. PICK s \in Snap, c \in Config :
          job' = [job EXCEPT ![p] = [NoJob EXCEPT !.cmd = "chunks", !.pc = "upsert",
                                                  !.snap = s, !.cfg = c]]
    BY <1>1 DEF StartChunks, Start
  <2> QED
    BY <1>t, <1>0, <2>1
<1>2. ASSUME NEW s \in Snap, NEW c \in Config,
             job' = [job EXCEPT ![p] =
                       [NoJob EXCEPT !.cmd = "build", !.mode = "lexical",
                                     !.pc = "list_chunks", !.snap = s, !.cfg = c,
                                     !.fp = mark[s]]]
      PROVE  /\ job'[p].lexical = 0 /\ job'[p].semantic = 0
             /\ job'[p].read = {} /\ job'[p].vectors = {} /\ job'[p].at = 0
             /\ job'[p].pc = "list_chunks" /\ job'[p].fp = mark[job'[p].snap]
  BY <1>t, <1>2
<1>3. ASSUME NEW s \in Snap, NEW g \in Semantic,
             job' = [job EXCEPT ![p] =
                       [NoJob EXCEPT !.cmd = "build", !.mode = "semantic",
                                     !.pc = "list_chunks", !.snap = s, !.model = g]]
      PROVE  /\ job'[p].lexical = 0 /\ job'[p].semantic = 0
             /\ job'[p].read = {} /\ job'[p].vectors = {} /\ job'[p].at = 0
             /\ job'[p].pc = "list_chunks" /\ job'[p].mode = "semantic"
  BY <1>t, <1>3
<1>4. CASE StartBuild(p)
  <2> HIDE DEF NoJob
  <2>1. \/ /\ job'[p].lexical = 0 /\ job'[p].semantic = 0
           /\ job'[p].read = {} /\ job'[p].vectors = {} /\ job'[p].at = 0
           /\ job'[p].pc = "list_chunks" /\ job'[p].fp = mark[job'[p].snap]
        \/ /\ job'[p].lexical = 0 /\ job'[p].semantic = 0
           /\ job'[p].read = {} /\ job'[p].vectors = {} /\ job'[p].at = 0
           /\ job'[p].pc = "list_chunks" /\ job'[p].mode = "semantic"
    BY <1>2, <1>3, <1>4 DEF StartBuild, Start
  <2> QED
    BY <1>0, <2>1
<1>5. CASE StartQuery(p)
  <2>1. PICK cmd \in {"query", "benchmark"}, m \in Modes, c \in Config, g \in Semantic :
          Start(p, "query", MaxQueries,
                [NoJob EXCEPT !.cmd = cmd, !.mode = m, !.cfg = c, !.model = g,
                              !.left = IF cmd = "query" THEN 1 ELSE Cases,
                              !.pc = IF m = "semantic" THEN "resolve_semantic"
                                                       ELSE "resolve_lexical"])
    BY <1>5 DEF StartQuery
  <2>2. job'[p] = [NoJob EXCEPT !.cmd = cmd, !.mode = m, !.cfg = c, !.model = g,
                                !.left = IF cmd = "query" THEN 1 ELSE Cases,
                                !.pc = IF m = "semantic" THEN "resolve_semantic"
                                                         ELSE "resolve_lexical"]
    BY <1>t, <2>1 DEF Start
  <2> QED
    BY <1>0, <2>2
<1> QED
  BY <1>1, <1>4, <1>5

NewLexical(p) ==
    [at |-> job[p].at, snap |-> job[p].snap, indexed |-> job[p].rows,
     fp |-> IF job[p].fp # Null THEN job[p].fp ELSE job[p].cfg]

NewSemantic(p) ==
    [at |-> job[p].at, snap |-> job[p].snap, model |-> job[p].model,
     layouts |-> LayoutsOf(job[p].rows)]

\* A new build is the last one.
LEMMA LexicalInserted ==
  ASSUME TypeInv, NEW p \in Proc, CreateLexicalBuild(p)
  PROVE  /\ Len(lexicalBuilds') = Len(lexicalBuilds) + 1
         /\ \A i \in 1..Len(lexicalBuilds) : lexicalBuilds'[i] = lexicalBuilds[i]
         /\ lexicalBuilds'[Len(lexicalBuilds) + 1] = NewLexical(p)
<1>1. lexicalBuilds \in Seq(LexicalBuild)
  BY DEF TypeInv, TypeOK
<1>2. lexicalBuilds' = Append(lexicalBuilds, NewLexical(p))
  BY DEF CreateLexicalBuild, InsertLexicalBuild, NewLexical
<1> QED
  BY <1>1, <1>2

LEMMA SemanticInserted ==
  ASSUME TypeInv, NEW p \in Proc, CreateSemanticBuild(p)
  PROVE  /\ Len(semanticBuilds') = Len(semanticBuilds) + 1
         /\ \A i \in 1..Len(semanticBuilds) : semanticBuilds'[i] = semanticBuilds[i]
         /\ semanticBuilds'[Len(semanticBuilds) + 1] = NewSemantic(p)
<1>1. semanticBuilds \in Seq(SemanticBuild)
  BY DEF TypeInv, TypeOK
<1>2. semanticBuilds' = Append(semanticBuilds, NewSemantic(p))
  BY DEF CreateSemanticBuild, NewSemantic
<1> QED
  BY <1>1, <1>2

\* Only the two inserting steps change the tables of builds.
LEMMA TablesKept ==
  ASSUME NEW p \in Proc, Step(p)
  PROVE  /\ ~CreateLexicalBuild(p) => lexicalBuilds' = lexicalBuilds
         /\ ~CreateSemanticBuild(p) => semanticBuilds' = semanticBuilds
<1> USE DEF builds
<1>1. CASE StartChunks(p) \/ StartBuild(p) \/ StartQuery(p)
  BY <1>1 DEF StartChunks, StartBuild, StartQuery, Start
<1>2. CASE UpsertChunks(p) \/ MarkChunks(p) \/ ListChunks(p) \/ ReplaceLexical(p)
           \/ Embed(p) \/ ReplaceVectors(p) \/ Stamp(p)
  BY <1>2 DEF UpsertChunks, MarkChunks, ListChunks, ReplaceLexical, Embed,
     ReplaceVectors, Stamp
<1>3. CASE CreateLexicalBuild(p) \/ CreateSemanticBuild(p) \/ ResolveLexical(p)
           \/ ResolveSemantic(p) \/ Record(p) \/ Fail(p)
  BY <1>3 DEF CreateLexicalBuild, InsertLexicalBuild, CreateSemanticBuild,
     ResolveLexical, ResolveSemantic, Record, Fail
<1>4. CASE ReadLexical(p) \/ ReadVectors(p)
  BY <1>4 DEF ReadLexical, ReadVectors
<1> QED
  BY <1>1, <1>2, <1>3, <1>4 DEF Step

\* Inserted builds keep their number and their fields.
LEMMA BuildsGrow ==
  ASSUME TypeInv, NEW p \in Proc, Step(p)
  PROVE  /\ DOMAIN lexicalBuilds = 1..Len(lexicalBuilds)
         /\ DOMAIN semanticBuilds = 1..Len(semanticBuilds)
         /\ DOMAIN lexicalBuilds' = 1..Len(lexicalBuilds')
         /\ DOMAIN semanticBuilds' = 1..Len(semanticBuilds')
         /\ {Len(lexicalBuilds), Len(semanticBuilds), Len(lexicalBuilds'),
             Len(semanticBuilds')} \subseteq Nat
         /\ Len(lexicalBuilds) <= Len(lexicalBuilds')
         /\ Len(semanticBuilds) <= Len(semanticBuilds')
         /\ \A i \in 1..Len(lexicalBuilds) : lexicalBuilds'[i] = lexicalBuilds[i]
         /\ \A i \in 1..Len(semanticBuilds) : semanticBuilds'[i] = semanticBuilds[i]
<1>1. TypeInv'
  BY TypeInvStep DEF Next
<1>2. /\ lexicalBuilds \in Seq(LexicalBuild) /\ lexicalBuilds' \in Seq(LexicalBuild)
      /\ semanticBuilds \in Seq(SemanticBuild) /\ semanticBuilds' \in Seq(SemanticBuild)
  BY <1>1 DEF TypeInv, TypeOK
<1>3. /\ DOMAIN lexicalBuilds = 1..Len(lexicalBuilds)
      /\ DOMAIN semanticBuilds = 1..Len(semanticBuilds)
      /\ DOMAIN lexicalBuilds' = 1..Len(lexicalBuilds')
      /\ DOMAIN semanticBuilds' = 1..Len(semanticBuilds')
      /\ {Len(lexicalBuilds), Len(semanticBuilds), Len(lexicalBuilds'),
          Len(semanticBuilds')} \subseteq Nat
  BY <1>2, LenProperties
<1>4. /\ Len(lexicalBuilds) <= Len(lexicalBuilds')
      /\ \A i \in 1..Len(lexicalBuilds) : lexicalBuilds'[i] = lexicalBuilds[i]
  <2>1. CASE CreateLexicalBuild(p)
    <3>1. /\ Len(lexicalBuilds') = Len(lexicalBuilds) + 1
          /\ \A i \in 1..Len(lexicalBuilds) : lexicalBuilds'[i] = lexicalBuilds[i]
      BY <2>1, LexicalInserted
    <3>2. Len(lexicalBuilds) \in Nat
      BY <1>3
    <3>3. Len(lexicalBuilds) <= Len(lexicalBuilds')
      BY <3>1, <3>2
    <3> QED
      BY <3>1, <3>3
  <2>2. CASE ~CreateLexicalBuild(p)
    BY <1>3, <2>2, TablesKept
  <2> QED
    BY <2>1, <2>2
<1>5. /\ Len(semanticBuilds) <= Len(semanticBuilds')
      /\ \A i \in 1..Len(semanticBuilds) : semanticBuilds'[i] = semanticBuilds[i]
  <2>1. CASE CreateSemanticBuild(p)
    <3>1. /\ Len(semanticBuilds') = Len(semanticBuilds) + 1
          /\ \A i \in 1..Len(semanticBuilds) : semanticBuilds'[i] = semanticBuilds[i]
      BY <2>1, SemanticInserted
    <3>2. Len(semanticBuilds) \in Nat
      BY <1>3
    <3>3. Len(semanticBuilds) <= Len(semanticBuilds')
      BY <3>1, <3>2
    <3> QED
      BY <3>1, <3>3
  <2>2. CASE ~CreateSemanticBuild(p)
    BY <1>3, <2>2, TablesKept
  <2> QED
    BY <2>1, <2>2
<1> QED
  BY <1>3, <1>4, <1>5

\* The fields of a build that was inserted.
LEMMA BuildTyped ==
  ASSUME TypeInv
  PROVE  /\ \A i \in 1..Len(lexicalBuilds) :
              /\ lexicalBuilds[i].snap \in Snap /\ lexicalBuilds[i].at \in Nat
              /\ lexicalBuilds[i].fp \in Config /\ lexicalBuilds[i].indexed \in Rows
         /\ \A i \in 1..Len(semanticBuilds) :
              /\ semanticBuilds[i].snap \in Snap /\ semanticBuilds[i].model \in Semantic
              /\ semanticBuilds[i].layouts \in SUBSET Layout
<1>1. lexicalBuilds \in Seq(LexicalBuild) /\ semanticBuilds \in Seq(SemanticBuild)
  BY DEF TypeInv, TypeOK
<1>2. \A i \in 1..Len(lexicalBuilds) : lexicalBuilds[i] \in LexicalBuild
  BY <1>1, ElementOfSeq
<1>3. \A i \in 1..Len(semanticBuilds) : semanticBuilds[i] \in SemanticBuild
  BY <1>1, ElementOfSeq
<1> QED
  BY <1>2, <1>3 DEF LexicalBuild, SemanticBuild

-----------------------------------------------------------------------------
\* Build rows follow files.

Written == {"stamp", "create_build"}

\* Only the steps that replace an index or take the time lead to the insert.
LEMMA NotWritten ==
  ASSUME TypeInv, NEW p \in Proc, Step(p),
         ~ReplaceLexical(p), ~ReplaceVectors(p), ~Stamp(p)
  PROVE  job'[p].pc \notin Written
<1>t. job \in [Proc -> Job]
  BY DEF TypeInv, TypeOK
<1> USE DEF Written, NoJob
<1>1. CASE StartChunks(p) \/ StartBuild(p) \/ StartQuery(p)
  BY <1>1, Started
<1>3. CASE UpsertChunks(p) \/ MarkChunks(p) \/ Record(p) \/ Fail(p)
  BY <1>t, <1>3 DEF UpsertChunks, MarkChunks, Record, Fail, Goto, Finish, Job
<1>4. CASE ListChunks(p)
  BY <1>t, <1>4 DEF ListChunks, Finish, Job
<1>5. CASE Embed(p) \/ CreateLexicalBuild(p) \/ CreateSemanticBuild(p)
  BY <1>t, <1>5 DEF Embed, CreateLexicalBuild, InsertLexicalBuild, CreateSemanticBuild, Job
<1>6. CASE ResolveLexical(p)
  BY <1>t, <1>6 DEF ResolveLexical, Finish, Job
<1>7. CASE ResolveSemantic(p)
  BY <1>t, <1>7 DEF ResolveSemantic, Finish, Job
<1>8. CASE ReadLexical(p) \/ ReadVectors(p)
  <2>1. PICK k \in Job : /\ job' = [job EXCEPT ![p] = k] /\ Staged(k)
                         /\ k = NoJob \/ GoesOn(job[p], k)
    BY <1>8, LexicalRead, VectorsRead
  <2>2. job[p].cmd \in Queries
    BY <1>8, JobsTyped DEF ReadLexical, ReadVectors, At, Staged, QueryPcs
  <2> QED
    BY <1>t, <2>1, <2>2 DEF GoesOn, Staged, BuildPcs, Queries, Job
<1> QED
  BY <1>1, <1>3, <1>4, <1>5, <1>6, <1>7, <1>8 DEF Step

\* A build that has written its index finds it in its place.
Filed(j) ==
    j.pc \in Written =>
      IF j.mode = "lexical" THEN lexicalFile[j.snap] # Null
                            ELSE vectorFile[<<j.snap, j.model>>] # Null

FilesInv == BuildsHaveIndexes /\ \A p \in Proc : Filed(job[p])

\* No step removes an index file.
LEMMA FilesStay ==
  ASSUME TypeInv, NEW p \in Proc, Step(p)
  PROVE  /\ \A s \in Snap : lexicalFile[s] # Null => lexicalFile'[s] # Null
         /\ \A path \in Snap \X Semantic : vectorFile[path] # Null => vectorFile'[path] # Null
<1>t. /\ TypeOK /\ job[p] \in Job /\ Staged(job[p])
  BY JobsTyped DEF TypeInv
<1>1. CASE ReplaceLexical(p)
  <2>1. job[p].rows # Null
    BY <1>t, NullAssumption DEF Job
  <2> QED
    BY <1>t, <1>1, <2>1 DEF ReplaceLexical, TypeOK
<1>2. CASE ReplaceVectors(p)
  <2>1. job[p].found # Null
    BY <1>t, <1>2, NullAssumption DEF ReplaceVectors, At, Staged
  <2> QED
    BY <1>t, <1>2, <2>1 DEF ReplaceVectors, TypeOK
<1>3. CASE ~ReplaceLexical(p) /\ ~ReplaceVectors(p)
  <2> USE DEF indexes
  <2>1. UNCHANGED <<lexicalFile, vectorFile>>
    BY <1>3 DEF Step, StartChunks, StartBuild, StartQuery, Start, UpsertChunks, MarkChunks,
       ListChunks, Embed, Stamp, CreateLexicalBuild, InsertLexicalBuild, CreateSemanticBuild,
       ResolveLexical, ResolveSemantic, ReadLexical, ReadVectors, Record, Fail
  <2> QED
    BY <2>1
<1> QED
  BY <1>1, <1>2, <1>3

\* The step into and along the written positions.
LEMMA FiledStep ==
  ASSUME TypeInv, FilesInv, NEW p \in Proc, Step(p)
  PROVE  Filed(job[p])'
<1>t. /\ TypeOK /\ job \in [Proc -> Job] /\ job[p] \in Job /\ Staged(job[p]) /\ Filed(job[p])
  BY JobsTyped DEF TypeInv, TypeOK, FilesInv
<1>1. CASE ReplaceLexical(p)
  <2>1. job'[p] = [job[p] EXCEPT !.pc = "stamp"]
    BY <1>t, <1>1 DEF ReplaceLexical, Goto
  <2>2. /\ job[p].snap \in Snap /\ job[p].mode = "lexical" /\ job[p].rows # Null
    BY <1>t, <1>1, NullAssumption DEF ReplaceLexical, At, Staged, BuildPcs, Job
  <2>3. lexicalFile'[job[p].snap] # Null
    BY <1>t, <1>1, <2>2 DEF ReplaceLexical, TypeOK
  <2> QED
    BY <1>t, <2>1, <2>2, <2>3 DEF Filed, Job
<1>2. CASE ReplaceVectors(p)
  <2>1. job'[p] = [job[p] EXCEPT !.pc = "stamp"]
    BY <1>t, <1>2 DEF ReplaceVectors, Goto
  <2>2. /\ job[p].snap \in Snap /\ job[p].mode = "semantic" /\ job[p].model \in Semantic
        /\ job[p].found # Null
    BY <1>t, <1>2, NullAssumption DEF ReplaceVectors, At, Staged, BuildPcs
  <2>3. vectorFile'[<<job[p].snap, job[p].model>>] # Null
    BY <1>t, <1>2, <2>2 DEF ReplaceVectors, VectorPath, TypeOK
  <2> QED
    BY <1>t, <2>1, <2>2, <2>3 DEF Filed, Job
<1>3. CASE Stamp(p)
  <2>1. job'[p] = [job[p] EXCEPT !.at = clock', !.pc = "create_build"]
    BY <1>t, <1>3 DEF Stamp
  <2>2. job[p].pc \in Written
    BY <1>3 DEF Stamp, At, Written
  <2>3. UNCHANGED <<lexicalFile, vectorFile>>
    BY <1>3 DEF Stamp, indexes
  <2> QED
    BY <1>t, <2>1, <2>2, <2>3 DEF Filed, Job
<1>4. CASE ~ReplaceLexical(p) /\ ~ReplaceVectors(p) /\ ~Stamp(p)
  BY <1>4, NotWritten DEF Filed
<1> QED
  BY <1>1, <1>2, <1>3, <1>4

LEMMA FilesInvStep == TypeInv /\ FilesInv /\ [Next]_vars => FilesInv'
<1>1. CASE UNCHANGED vars
  BY <1>1 DEF FilesInv, BuildsHaveIndexes, Filed, vars
<1>2. ASSUME TypeInv, FilesInv, NEW p \in Proc, Step(p) PROVE FilesInv'
  <2>t. /\ TypeOK /\ job[p] \in Job /\ Staged(job[p]) /\ Filed(job[p])
        /\ TypeInv'
    BY <1>2, JobsTyped, TypeInvStep DEF TypeInv, FilesInv, Next
  <2>g. /\ DOMAIN lexicalBuilds = 1..Len(lexicalBuilds)
        /\ DOMAIN semanticBuilds = 1..Len(semanticBuilds)
        /\ DOMAIN lexicalBuilds' = 1..Len(lexicalBuilds')
        /\ DOMAIN semanticBuilds' = 1..Len(semanticBuilds')
        /\ Len(lexicalBuilds) \in Nat /\ Len(semanticBuilds) \in Nat
        /\ \A i \in 1..Len(lexicalBuilds) : lexicalBuilds'[i] = lexicalBuilds[i]
        /\ \A i \in 1..Len(semanticBuilds) : semanticBuilds'[i] = semanticBuilds[i]
    BY <1>2, BuildsGrow
  <2>s. /\ \A s \in Snap : lexicalFile[s] # Null => lexicalFile'[s] # Null
        /\ \A path \in Snap \X Semantic : vectorFile[path] # Null => vectorFile'[path] # Null
    BY <1>2, FilesStay
  <2>1. \A i \in 1..Len(lexicalBuilds) : lexicalFile'[lexicalBuilds'[i].snap] # Null
    BY <1>2, <2>g, <2>s, BuildTyped DEF FilesInv, BuildsHaveIndexes
  <2>2. \A i \in 1..Len(semanticBuilds) :
          vectorFile'[VectorPath(semanticBuilds'[i].snap, semanticBuilds'[i].model)] # Null
    BY <1>2, <2>g, <2>s, BuildTyped DEF FilesInv, BuildsHaveIndexes, VectorPath
  <2>3. \A i \in DOMAIN lexicalBuilds' : lexicalFile'[lexicalBuilds'[i].snap] # Null
    <3>1. CASE CreateLexicalBuild(p)
      <4>1. /\ Len(lexicalBuilds') = Len(lexicalBuilds) + 1
            /\ lexicalBuilds'[Len(lexicalBuilds) + 1].snap = job[p].snap
        <5>1. /\ Len(lexicalBuilds') = Len(lexicalBuilds) + 1
              /\ lexicalBuilds'[Len(lexicalBuilds) + 1] = NewLexical(p)
          BY <1>2, <3>1, LexicalInserted
        <5> QED
          BY <5>1 DEF NewLexical
      <4>2. job[p].snap \in Snap /\ lexicalFile[job[p].snap] # Null
        BY <2>t, <3>1 DEF CreateLexicalBuild, At, Filed, Written, Staged, BuildPcs
      <4>3. \A i \in DOMAIN lexicalBuilds' : i \in 1..Len(lexicalBuilds) \/ i = Len(lexicalBuilds) + 1
        BY <2>g, <4>1
      <4> QED
        BY <2>1, <2>s, <4>1, <4>2, <4>3
    <3>2. CASE ~CreateLexicalBuild(p)
      BY <1>2, <2>g, <2>1, <3>2, TablesKept
    <3> QED
      BY <3>1, <3>2
  <2>4. \A i \in DOMAIN semanticBuilds' :
          vectorFile'[VectorPath(semanticBuilds'[i].snap, semanticBuilds'[i].model)] # Null
    <3>1. CASE CreateSemanticBuild(p)
      <4>1. /\ Len(semanticBuilds') = Len(semanticBuilds) + 1
            /\ semanticBuilds'[Len(semanticBuilds) + 1].snap = job[p].snap
            /\ semanticBuilds'[Len(semanticBuilds) + 1].model = job[p].model
        <5>1. /\ Len(semanticBuilds') = Len(semanticBuilds) + 1
              /\ semanticBuilds'[Len(semanticBuilds) + 1] = NewSemantic(p)
          BY <1>2, <3>1, SemanticInserted
        <5> QED
          BY <5>1 DEF NewSemantic
      <4>2. /\ job[p].snap \in Snap /\ job[p].model \in Semantic
            /\ vectorFile[<<job[p].snap, job[p].model>>] # Null
        BY <2>t, <3>1 DEF CreateSemanticBuild, At, Filed, Written, Staged, BuildPcs
      <4>3. \A i \in DOMAIN semanticBuilds' : i \in 1..Len(semanticBuilds) \/ i = Len(semanticBuilds) + 1
        BY <2>g, <4>1
      <4> QED
        BY <2>2, <2>s, <4>1, <4>2, <4>3 DEF VectorPath
    <3>2. CASE ~CreateSemanticBuild(p)
      BY <1>2, <2>g, <2>2, <3>2, TablesKept
    <3> QED
      BY <3>1, <3>2
  <2>5. \A q \in Proc : Filed(job[q])'
    <3>1. TAKE q \in Proc
    <3>2. CASE q = p
      BY <1>2, <3>2, FiledStep
    <3>3. CASE q # p
      <4>1. job'[q] = job[q] /\ Filed(job[q]) /\ Staged(job[q])
        BY <1>2, <3>3, OthersWait, JobsTyped DEF FilesInv
      <4>2. job[q].pc \in Written =>
              job[q].snap \in Snap /\ (job[q].mode # "lexical" => job[q].model \in Semantic)
        BY <4>1 DEF Written, Staged, BuildPcs
      <4> QED
        BY <2>s, <4>1, <4>2 DEF Filed
    <3> QED
      BY <3>2, <3>3
  <2> QED
    BY <2>3, <2>4, <2>5 DEF FilesInv, BuildsHaveIndexes
<1> QED
  BY <1>1, <1>2 DEF Next

LEMMA FilesInvInit == Init => FilesInv
BY DEF Init, FilesInv, BuildsHaveIndexes, Filed, NoJob, Written

\* Whichever processes build and die, no build row is without its index file.
THEOREM BuildsAreFiled == Spec => []BuildsHaveIndexes
<1>1. FilesInv => BuildsHaveIndexes
  BY DEF FilesInv
<1> QED
  BY <1>1, TypeInvInit, TypeInvStep, FilesInvInit, FilesInvStep, PTL DEF Spec

-----------------------------------------------------------------------------
\* The builds that one answer names.

OneSnapshot(r, lexical, semantic) ==
    r.lexical # 0 /\ r.semantic # 0 =>
      lexical[r.lexical].snap = semantic[r.semantic].snap

\* What was read is of a build that is named.
Cites(r) == (r.read # {} => r.lexical # 0) /\ (r.vectors # {} => r.semantic # 0)

HybridInv ==
    /\ \A p \in Proc : job[p].cmd \in Queries => OneSnapshot(job[p], lexicalBuilds, semanticBuilds)
    /\ \A r \in provenance :
         Cites(r) /\ (r.read # {} /\ r.vectors # {} => OneSnapshot(r, lexicalBuilds, semanticBuilds))

\* Only resolving changes which builds a query names.
LEMMA BuildsPinned ==
  ASSUME TypeInv, NEW p \in Proc, Step(p), ~ResolveLexical(p), ~ResolveSemantic(p)
  PROVE  \/ job'[p].cmd \notin Queries
         \/ job'[p].lexical = 0 /\ job'[p].semantic = 0
         \/ GoesOn(job[p], job'[p])
<1>t. job \in [Proc -> Job] /\ job[p] \in Job /\ Staged(job[p])
  BY JobsTyped DEF TypeInv, TypeOK
<1> USE DEF Queries
<1>1. CASE StartChunks(p) \/ StartBuild(p) \/ StartQuery(p)
  BY <1>1, Started
<1>2. CASE UpsertChunks(p) \/ MarkChunks(p) \/ Record(p) \/ Fail(p)
  BY <1>t, <1>2 DEF UpsertChunks, MarkChunks, Record, Fail, Goto, Finish, NoJob, Job, GoesOn
<1>3. CASE ReadLexical(p) \/ ReadVectors(p)
  <2>1. PICK k \in Job : /\ job' = [job EXCEPT ![p] = k] /\ Staged(k)
                         /\ k = NoJob \/ GoesOn(job[p], k)
    BY <1>3, LexicalRead, VectorsRead
  <2> QED
    BY <1>t, <2>1 DEF NoJob
<1>4. CASE ListChunks(p) \/ ReplaceLexical(p) \/ Embed(p) \/ ReplaceVectors(p) \/ Stamp(p)
           \/ CreateLexicalBuild(p) \/ CreateSemanticBuild(p)
  <2>1. job[p].cmd = "build"
    BY <1>t, <1>4 DEF ListChunks, ReplaceLexical, Embed, ReplaceVectors, Stamp,
       CreateLexicalBuild, CreateSemanticBuild, At, Staged, BuildPcs
  <2>2. job'[p].cmd \in {"build", "none"}
    BY <1>t, <1>4, <2>1 DEF ListChunks, ReplaceLexical, Embed, ReplaceVectors, Stamp,
       CreateLexicalBuild, InsertLexicalBuild, CreateSemanticBuild, Goto, Finish, NoJob, Job
  <2> QED
    BY <2>2
<1> QED
  BY <1>1, <1>2, <1>3, <1>4 DEF Step

LEMMA PinnedStep ==
  ASSUME TypeInv, HybridInv, NEW p \in Proc, Step(p)
  PROVE  job'[p].cmd \in Queries => OneSnapshot(job'[p], lexicalBuilds', semanticBuilds')
<1>t. /\ job \in [Proc -> Job] /\ job[p] \in Job /\ Staged(job[p])
      /\ Names(job[p], Len(lexicalBuilds), Len(semanticBuilds))
      /\ job[p].cmd \in Queries => OneSnapshot(job[p], lexicalBuilds, semanticBuilds)
  BY JobsTyped DEF TypeInv, TypeOK, HybridInv
<1>g. /\ Len(lexicalBuilds) \in Nat /\ Len(semanticBuilds) \in Nat
      /\ \A i \in 1..Len(lexicalBuilds) : lexicalBuilds'[i] = lexicalBuilds[i]
      /\ \A i \in 1..Len(semanticBuilds) : semanticBuilds'[i] = semanticBuilds[i]
  BY BuildsGrow
<1>1. CASE ResolveLexical(p)
  <2>1. job[p].semantic = 0
    BY <1>t, <1>1 DEF ResolveLexical, At, Staged, QueryPcs, Pinned
  <2>2. job'[p].semantic = 0
    BY <1>t, <1>1, <2>1 DEF ResolveLexical, Finish, NoJob, Job
  <2> QED
    BY <2>2 DEF OneSnapshot
<1>2. CASE ResolveSemantic(p)
  <2> DEFINE i == Newest(SemanticFor(job[p].model), semanticBuilds)
  <2>1. CASE job'[p] = NoJob
    BY <2>1 DEF NoJob, OneSnapshot
  <2>2. CASE job'[p] # NoJob
    <3>1. /\ SemanticFor(job[p].model) # {} /\ Aligned(p, i)
          /\ job'[p].semantic = i /\ job'[p].lexical = job[p].lexical
      BY <1>t, <1>2, <2>2 DEF ResolveSemantic, Finish, Job
    <3>2. UNCHANGED <<lexicalBuilds, semanticBuilds>>
      BY <1>2 DEF ResolveSemantic, builds
    <3>3. job[p].mode = "semantic" => job[p].lexical = 0
      BY <1>t, <1>2 DEF ResolveSemantic, At, Staged, QueryPcs, Pinned
    <3>4. job[p].mode \in {"semantic", "hybrid"}
      BY <1>t, <1>2 DEF ResolveSemantic, At, Staged, QueryPcs, Pinned, Modes
    <3> HIDE DEF i
    <3> QED
      BY <3>1, <3>2, <3>3, <3>4 DEF OneSnapshot, Aligned
  <2> QED
    BY <2>1, <2>2
<1>3. CASE ~ResolveLexical(p) /\ ~ResolveSemantic(p)
  <2>1. CASE GoesOn(job[p], job'[p])
    BY <1>t, <1>g, <2>1 DEF GoesOn, OneSnapshot, Names
  <2>2. CASE job'[p].lexical = 0 \/ job'[p].cmd \notin Queries
    BY <2>2 DEF OneSnapshot
  <2> QED
    BY <1>3, <2>1, <2>2, BuildsPinned
<1> QED
  BY <1>1, <1>2, <1>3

LEMMA RecordKept ==
  ASSUME NEW p \in Proc, Step(p), ~Record(p)
  PROVE  provenance' = provenance
<1>1. CASE StartChunks(p) \/ StartBuild(p) \/ StartQuery(p)
  BY <1>1 DEF StartChunks, StartBuild, StartQuery, Start
<1>2. CASE UpsertChunks(p) \/ MarkChunks(p) \/ ListChunks(p) \/ ReplaceLexical(p)
           \/ Embed(p) \/ ReplaceVectors(p) \/ Stamp(p)
  BY <1>2 DEF UpsertChunks, MarkChunks, ListChunks, ReplaceLexical, Embed,
     ReplaceVectors, Stamp
<1>3. CASE CreateLexicalBuild(p) \/ CreateSemanticBuild(p) \/ ResolveLexical(p)
           \/ ResolveSemantic(p) \/ Fail(p)
  BY <1>3 DEF CreateLexicalBuild, InsertLexicalBuild, CreateSemanticBuild,
     ResolveLexical, ResolveSemantic, Fail
<1>4. CASE ReadLexical(p) \/ ReadVectors(p)
  BY <1>4 DEF ReadLexical, ReadVectors
<1> QED
  BY <1>1, <1>2, <1>3, <1>4 DEF Step

\* A command that records cites the builds whose indexes it has read.
LEMMA Recorded ==
  ASSUME TypeInv, NEW p \in Proc, Record(p)
  PROVE  LET new == [cmd |-> job[p].cmd, lexical |-> job[p].lexical,
                     semantic |-> job[p].semantic, read |-> job[p].read,
                     vectors |-> job[p].vectors]
         IN /\ provenance' = provenance \cup {new} /\ Cites(new)
            /\ job[p].cmd \in Queries \/ (new.read = {} /\ new.vectors = {})
<1>1. job[p] \in Job /\ Staged(job[p]) /\ At(p, "record")
  BY JobsTyped DEF Record
<1>2. job[p].cmd \in {"build"} \cup Queries
  BY <1>1 DEF Job, Staged, ChunkPcs, Queries, At
<1>3. Cites(job[p])
  BY <1>1, <1>2 DEF Staged, Pinned, Cites
<1>b. job[p].cmd = "build" => job[p].read = {} /\ job[p].vectors = {}
  BY <1>1 DEF Staged
<1> DEFINE new == [cmd |-> job[p].cmd, lexical |-> job[p].lexical,
                   semantic |-> job[p].semantic, read |-> job[p].read,
                   vectors |-> job[p].vectors]
<1>4. provenance' = provenance \cup {new}
  BY DEF Record
<1>5. Cites(new) /\ (job[p].cmd \in Queries \/ (new.read = {} /\ new.vectors = {}))
  <2>1. /\ new.lexical = job[p].lexical /\ new.semantic = job[p].semantic
        /\ new.read = job[p].read /\ new.vectors = job[p].vectors
    OBVIOUS
  <2> HIDE DEF new
  <2>2. Cites(new)
    BY <1>3, <2>1 DEF Cites
  <2>3. job[p].cmd \in Queries \/ (new.read = {} /\ new.vectors = {})
    BY <1>2, <1>b, <2>1
  <2> QED
    BY <2>2, <2>3
<1> HIDE DEF new
<1> QED
  BY <1>4, <1>5 DEF new

LEMMA HybridInvStep == TypeInv /\ HybridInv /\ [Next]_vars => HybridInv'
<1>1. CASE UNCHANGED vars
  BY <1>1 DEF HybridInv, OneSnapshot, Cites, vars
<1>2. ASSUME TypeInv, HybridInv, NEW p \in Proc, Step(p) PROVE HybridInv'
  <2>g. /\ Len(lexicalBuilds) \in Nat /\ Len(semanticBuilds) \in Nat
        /\ \A i \in 1..Len(lexicalBuilds) : lexicalBuilds'[i] = lexicalBuilds[i]
        /\ \A i \in 1..Len(semanticBuilds) : semanticBuilds'[i] = semanticBuilds[i]
    BY <1>2, BuildsGrow
  <2>1. \A q \in Proc : job'[q].cmd \in Queries => OneSnapshot(job'[q], lexicalBuilds', semanticBuilds')
    <3>1. TAKE q \in Proc
    <3>2. CASE q = p
      BY <1>2, <3>2, PinnedStep
    <3>3. CASE q # p
      <4>1. /\ job'[q] = job[q] /\ (job[q].cmd \in Queries => OneSnapshot(job[q], lexicalBuilds, semanticBuilds))
            /\ Names(job[q], Len(lexicalBuilds), Len(semanticBuilds))
        BY <1>2, <3>3, OthersWait, JobsTyped DEF HybridInv
      <4> QED
        BY <2>g, <4>1 DEF OneSnapshot, Names
    <3> QED
      BY <3>2, <3>3
  <2>2. \A r \in provenance : Cites(r) /\ (r.read # {} /\ r.vectors # {} => OneSnapshot(r, lexicalBuilds', semanticBuilds'))
    <3>1. TAKE r \in provenance
    <3>2. /\ Names(r, Len(lexicalBuilds), Len(semanticBuilds)) /\ Cites(r)
          /\ r.read # {} /\ r.vectors # {} => OneSnapshot(r, lexicalBuilds, semanticBuilds)
      BY <1>2 DEF HybridInv, TypeInv, TypeOK
    <3> QED
      BY <2>g, <3>2 DEF OneSnapshot, Cites, Names
  <2>3. \A r \in provenance' : Cites(r) /\ (r.read # {} /\ r.vectors # {} => OneSnapshot(r, lexicalBuilds', semanticBuilds'))
    <3>1. CASE Record(p)
      <4> DEFINE new == [cmd |-> job[p].cmd, lexical |-> job[p].lexical,
                         semantic |-> job[p].semantic, read |-> job[p].read,
                         vectors |-> job[p].vectors]
      <4>1. /\ provenance' = provenance \cup {new} /\ Cites(new)
            /\ job[p].cmd \in Queries \/ (new.read = {} /\ new.vectors = {})
        BY <1>2, <3>1, Recorded
      <4>2. UNCHANGED <<lexicalBuilds, semanticBuilds>>
        BY <3>1 DEF Record, builds
      <4>3. job[p].cmd \in Queries => OneSnapshot(new, lexicalBuilds', semanticBuilds')
        <5>1. job[p].cmd \in Queries => OneSnapshot(job[p], lexicalBuilds, semanticBuilds)
          BY <1>2 DEF HybridInv
        <5> QED
          BY <4>2, <5>1 DEF OneSnapshot
      <4>4. new.read # {} /\ new.vectors # {} => OneSnapshot(new, lexicalBuilds', semanticBuilds')
        BY <4>1, <4>3
      <4> HIDE DEF new
      <4> QED
        BY <2>2, <4>1, <4>4
    <3>2. CASE ~Record(p)
      BY <1>2, <2>2, <3>2, RecordKept
    <3> QED
      BY <3>1, <3>2
  <2> QED
    BY <2>1, <2>3 DEF HybridInv, Cites
<1> QED
  BY <1>1, <1>2 DEF Next

LEMMA HybridInvInit == Init => HybridInv
BY DEF Init, HybridInv, NoJob, OneSnapshot, Queries

\* Both halves of every hybrid answer are of one snapshot.
THEOREM AnswersAgree == Spec => []HybridAnswersAgree
<1>1. HybridInv => HybridAnswersAgree
  BY DEF HybridInv, HybridAnswersAgree, Cites, OneSnapshot
<1> QED
  BY <1>1, TypeInvInit, TypeInvStep, HybridInvInit, HybridInvStep, PTL DEF Spec

-----------------------------------------------------------------------------
\* The vectors that an answer is computed from.

Document(s, ls, g) == [snap |-> s, text |-> TextOf[s], layouts |-> ls, model |-> g]

\* A cache entry is what its key says.
CacheSound ==
    \A g \in Semantic, t \in Text, ls \in SUBSET Layout :
      LET v == embeddings[<<g, t, ls>>] IN
      v # Null => v.text = t /\ v.layouts = ls /\ v.model = g

FoundSound(j) ==
    j.pc = "replace_vectors" => j.found = Document(j.snap, LayoutsOf(j.rows), j.model)

FilesSound ==
    \A s \in Snap, g \in Semantic :
      LET v == vectorFile[<<s, g>>] IN v # Null => v = Document(s, v.layouts, g)

\* The layouts that a semantic build of a snapshot has listed, and that its row
\* and its file carry on.
Listed(j) == j.cmd = "build" /\ j.mode = "semantic"
             /\ j.pc \in {"embed", "replace_vectors", "stamp", "create_build"}
Seen(s, ls) ==
    \/ \E i \in DOMAIN semanticBuilds :
         semanticBuilds[i].snap = s /\ semanticBuilds[i].layouts = ls
    \/ \E g \in Semantic : vectorFile[<<s, g>>] # Null /\ vectorFile[<<s, g>>].layouts = ls
    \/ \E p \in Proc : Listed(job[p]) /\ job[p].snap = s /\ LayoutsOf(job[p].rows) = ls

\* Chunks of a snapshot only gain layouts, so any two sets of them that were
\* listed are nested: as many means the same.
LayoutsGrow ==
    /\ \A s \in Snap, ls \in SUBSET Layout : Seen(s, ls) => ls \subseteq LayoutsOf(rows[s])
    /\ \A s \in Snap : \A K, L \in SUBSET Layout :
         Seen(s, K) /\ Seen(s, L) => K \subseteq L \/ L \subseteq K

\* What was read is what the build that is named recorded.
AnswersSound(r, table) ==
    \A v \in r.vectors :
      /\ r.semantic # 0
      /\ v = Document(table[r.semantic].snap, table[r.semantic].layouts,
                      table[r.semantic].model)

VectorInv ==
    /\ CacheSound /\ FilesSound /\ LayoutsGrow
    /\ \A p \in Proc : FoundSound(job[p]) /\ AnswersSound(job[p], semanticBuilds)
    /\ \A r \in provenance : AnswersSound(r, semanticBuilds)

\* The embeddings change in two steps, the vector files in one, the rows in one.
LEMMA VectorsStay ==
  ASSUME NEW p \in Proc, Step(p)
  PROVE  /\ ~Embed(p) /\ ~Fail(p) => embeddings' = embeddings
         /\ ~ReplaceVectors(p) => vectorFile' = vectorFile
         /\ ~UpsertChunks(p) => rows' = rows
<1> USE DEF baseline, indexes
<1>1. CASE StartChunks(p) \/ StartBuild(p) \/ StartQuery(p)
  BY <1>1 DEF StartChunks, StartBuild, StartQuery, Start
<1>2. CASE UpsertChunks(p) \/ MarkChunks(p) \/ ListChunks(p) \/ ReplaceLexical(p)
           \/ Embed(p) \/ ReplaceVectors(p) \/ Stamp(p)
  BY <1>2 DEF UpsertChunks, MarkChunks, ListChunks, ReplaceLexical, Embed,
     ReplaceVectors, Stamp
<1>3. CASE CreateLexicalBuild(p) \/ CreateSemanticBuild(p) \/ ResolveLexical(p)
           \/ ResolveSemantic(p) \/ Record(p) \/ Fail(p)
  BY <1>3 DEF CreateLexicalBuild, InsertLexicalBuild, CreateSemanticBuild,
     ResolveLexical, ResolveSemantic, Record, Fail
<1>4. CASE ReadLexical(p) \/ ReadVectors(p)
  BY <1>4 DEF ReadLexical, ReadVectors
<1> QED
  BY <1>1, <1>2, <1>3, <1>4 DEF Step

\* Chunks of a snapshot only gain layouts.
LEMMA LayoutsKept ==
  ASSUME TypeInv, NEW p \in Proc, Step(p), NEW s \in Snap
  PROVE  /\ LayoutsOf(rows[s]) \subseteq LayoutsOf(rows'[s])
         /\ LayoutsOf(rows[s]) \in SUBSET Layout
<1>t. TypeOK /\ job[p] \in Job /\ Staged(job[p])
  BY JobsTyped DEF TypeInv
<1>1. CASE UpsertChunks(p)
  <2>1. job[p].snap \in Snap /\ job[p].cfg # Null
    BY <1>t, <1>1, NullAssumption DEF UpsertChunks, At, Staged, ChunkPcs
  <2>2. PICK l \in Layout : rows' = [rows EXCEPT ![job[p].snap][l] = job[p].cfg]
    BY <1>1 DEF UpsertChunks, Layout
  <2>3. \A l0 \in Layout : rows[s][l0] # Null => rows'[s][l0] # Null
    BY <1>t, <2>1, <2>2 DEF TypeOK, Rows
  <2> QED
    BY <2>3 DEF LayoutsOf
<1>2. CASE ~UpsertChunks(p)
  BY <1>2, VectorsStay DEF LayoutsOf
<1> QED
  BY <1>1, <1>2

\* What a semantic build has listed it keeps.
LEMMA ListedStep ==
  ASSUME TypeInv, NEW p \in Proc, Step(p), Listed(job'[p])
  PROVE  /\ job'[p].snap = job[p].snap
         /\ \/ Listed(job[p]) /\ job'[p].rows = job[p].rows
            \/ job'[p].rows = rows[job[p].snap]
<1>t. job \in [Proc -> Job] /\ job[p] \in Job /\ Staged(job[p])
  BY JobsTyped DEF TypeInv, TypeOK
<1> USE DEF Listed
<1>1. CASE StartChunks(p) \/ StartBuild(p) \/ StartQuery(p)
  BY <1>1, Started
<1>2. CASE UpsertChunks(p) \/ MarkChunks(p) \/ Record(p) \/ Fail(p)
  BY <1>t, <1>2 DEF UpsertChunks, MarkChunks, Record, Fail, Goto, Finish, NoJob, Job
<1>3. CASE ListChunks(p)
  BY <1>t, <1>3 DEF ListChunks, Finish, NoJob, Job
<1>4. CASE Embed(p) \/ ReplaceVectors(p) \/ Stamp(p)
  BY <1>t, <1>4 DEF Embed, ReplaceVectors, Stamp, At, Goto, Job, Staged
<1>5. CASE ReplaceLexical(p) \/ CreateLexicalBuild(p) \/ CreateSemanticBuild(p)
  BY <1>t, <1>5 DEF ReplaceLexical, CreateLexicalBuild, InsertLexicalBuild,
     CreateSemanticBuild, At, Goto, Job, Staged
<1>6. CASE ResolveLexical(p) \/ ResolveSemantic(p)
  BY <1>t, <1>6 DEF ResolveLexical, ResolveSemantic, Finish, NoJob, Job
<1>7. CASE ReadLexical(p) \/ ReadVectors(p)
  <2>1. PICK k \in Job : /\ job' = [job EXCEPT ![p] = k] /\ Staged(k)
                         /\ k = NoJob \/ GoesOn(job[p], k)
    BY <1>7, LexicalRead, VectorsRead
  <2>2. job[p].cmd \in Queries
    BY <1>t, <1>7 DEF ReadLexical, ReadVectors, At, Staged, QueryPcs
  <2> QED
    BY <1>t, <2>1, <2>2 DEF GoesOn, NoJob, Queries
<1> QED
  BY <1>1, <1>2, <1>3, <1>4, <1>5, <1>6, <1>7 DEF Step

LEMMA SeenStep ==
  ASSUME TypeInv, VectorInv, NEW p \in Proc, Step(p), NEW s \in Snap, NEW ls \in SUBSET Layout,
         Seen(s, ls)'
  PROVE  Seen(s, ls) \/ ls = LayoutsOf(rows[s])
<1>t. /\ TypeOK /\ job \in [Proc -> Job] /\ job[p] \in Job /\ Staged(job[p])
      /\ FoundSound(job[p])
  BY JobsTyped DEF TypeInv, TypeOK, VectorInv
<1>1. CASE \E i \in DOMAIN semanticBuilds' :
             semanticBuilds'[i].snap = s /\ semanticBuilds'[i].layouts = ls
  <2>1. PICK i \in DOMAIN semanticBuilds' :
          semanticBuilds'[i].snap = s /\ semanticBuilds'[i].layouts = ls
    BY <1>1
  <2>g. /\ DOMAIN semanticBuilds = 1..Len(semanticBuilds)
        /\ DOMAIN semanticBuilds' = 1..Len(semanticBuilds')
        /\ Len(semanticBuilds) \in Nat
        /\ \A k \in 1..Len(semanticBuilds) : semanticBuilds'[k] = semanticBuilds[k]
    BY BuildsGrow
  <2>2. CASE i \in DOMAIN semanticBuilds
    BY <2>1, <2>2, <2>g DEF Seen
  <2>3. CASE i \notin DOMAIN semanticBuilds
    <3>1. CreateSemanticBuild(p)
      BY <2>1, <2>3, TablesKept
    <3>2. /\ Len(semanticBuilds') = Len(semanticBuilds) + 1
          /\ semanticBuilds'[Len(semanticBuilds) + 1] = NewSemantic(p)
      BY <3>1, SemanticInserted
    <3>3. i = Len(semanticBuilds) + 1
      BY <2>3, <2>g, <3>2
    <3>4. job[p].snap = s /\ LayoutsOf(job[p].rows) = ls
      BY <2>1, <3>2, <3>3 DEF NewSemantic
    <3>5. Listed(job[p])
      BY <1>t, <3>1 DEF CreateSemanticBuild, At, Staged, BuildPcs, Listed
    <3> QED
      BY <3>4, <3>5 DEF Seen
  <2> QED
    BY <2>2, <2>3
<1>2. CASE \E g \in Semantic :
             vectorFile'[<<s, g>>] # Null /\ vectorFile'[<<s, g>>].layouts = ls
  <2>1. PICK g \in Semantic :
          vectorFile'[<<s, g>>] # Null /\ vectorFile'[<<s, g>>].layouts = ls
    BY <1>2
  <2>2. CASE vectorFile'[<<s, g>>] = vectorFile[<<s, g>>]
    BY <2>1, <2>2 DEF Seen
  <2>3. CASE vectorFile'[<<s, g>>] # vectorFile[<<s, g>>]
    <3>1. ReplaceVectors(p)
      BY <2>3, VectorsStay
    <3>2. vectorFile' = [vectorFile EXCEPT ![<<job[p].snap, job[p].model>>] = job[p].found]
      BY <3>1 DEF ReplaceVectors, VectorPath
    <3>3. <<s, g>> = <<job[p].snap, job[p].model>> /\ vectorFile'[<<s, g>>] = job[p].found
      BY <1>t, <2>3, <3>2 DEF TypeOK
    <3>4. job[p].found = Document(job[p].snap, LayoutsOf(job[p].rows), job[p].model)
      BY <1>t, <3>1 DEF ReplaceVectors, At, FoundSound
    <3>5. job[p].snap = s /\ LayoutsOf(job[p].rows) = ls
      BY <2>1, <3>3, <3>4 DEF Document
    <3>6. Listed(job[p])
      BY <1>t, <3>1 DEF ReplaceVectors, At, Staged, BuildPcs, Listed
    <3> QED
      BY <3>5, <3>6 DEF Seen
  <2> QED
    BY <2>2, <2>3
<1>3. CASE \E q \in Proc :
             Listed(job'[q]) /\ job'[q].snap = s /\ LayoutsOf(job'[q].rows) = ls
  <2>1. PICK q \in Proc : Listed(job'[q]) /\ job'[q].snap = s /\ LayoutsOf(job'[q].rows) = ls
    BY <1>3
  <2>2. CASE q = p
    BY <2>1, <2>2, ListedStep DEF Seen
  <2>3. CASE q # p
    BY <2>1, <2>3, OthersWait DEF Seen
  <2> QED
    BY <2>2, <2>3
<1> QED
  BY <1>1, <1>2, <1>3 DEF Seen

LEMMA LayoutsGrowStep ==
  ASSUME TypeInv, VectorInv, NEW p \in Proc, Step(p)
  PROVE  LayoutsGrow'
<1>1. ASSUME NEW s \in Snap, NEW ls \in SUBSET Layout, Seen(s, ls)'
      PROVE  ls \subseteq LayoutsOf(rows[s]) /\ LayoutsOf(rows[s]) \subseteq LayoutsOf(rows'[s])
  BY <1>1, SeenStep, LayoutsKept DEF VectorInv, LayoutsGrow
<1>2. ASSUME NEW s \in Snap, NEW K \in SUBSET Layout, NEW L \in SUBSET Layout,
             Seen(s, K)', Seen(s, L)'
      PROVE  K \subseteq L \/ L \subseteq K
  <2>1. Seen(s, K) \/ K = LayoutsOf(rows[s])
    BY <1>2, SeenStep
  <2>2. Seen(s, L) \/ L = LayoutsOf(rows[s])
    BY <1>2, SeenStep
  <2>3. K \subseteq LayoutsOf(rows[s]) /\ L \subseteq LayoutsOf(rows[s])
    BY <1>1, <1>2
  <2> QED
    BY <2>1, <2>2, <2>3 DEF VectorInv, LayoutsGrow
<1>3. \A s \in Snap, ls \in SUBSET Layout : Seen(s, ls)' => ls \subseteq LayoutsOf(rows'[s])
  BY <1>1
<1>4. \A s \in Snap : \A K, L \in SUBSET Layout :
        Seen(s, K)' /\ Seen(s, L)' => K \subseteq L \/ L \subseteq K
  BY <1>2
<1> QED
  BY <1>3, <1>4 DEF LayoutsGrow

LEMMA CacheSoundStep ==
  ASSUME TypeInv, VectorInv, NEW p \in Proc, Step(p)
  PROVE  CacheSound' /\ (Embed(p) => FoundSound(job'[p]))
<1>t. /\ TypeOK /\ job \in [Proc -> Job] /\ job[p] \in Job /\ Staged(job[p]) /\ CacheSound
  BY JobsTyped DEF TypeInv, TypeOK, VectorInv
<1>1. CASE Embed(p)
  <2> DEFINE s == job[p].snap
             g == job[p].model
             ls == LayoutsOf(job[p].rows)
             made == [snap |-> s, text |-> TextOf[s], layouts |-> ls, model |-> g]
             cached == embeddings[EmbeddingKey(p)]
             found == IF cached # Null THEN Relabel(p, cached) ELSE made
  <2>0. At(p, "embed")
    BY <1>1 DEF Embed
  <2>1. /\ EmbeddingKey(p) = <<g, TextOf[s], ls>>
        /\ g \in Semantic /\ TextOf[s] \in Text /\ ls \in SUBSET Layout
        /\ cached \in Vectors \cup {Null}
    <3>1. EmbeddingKey(p) = <<g, TextOf[s], ls>>
      BY DEF EmbeddingKey
    <3>2. EmbeddingKey(p) \in Semantic \X Text \X SUBSET Layout /\ cached \in Vectors \cup {Null}
      BY <2>0, DocumentsTyped
    <3> HIDE DEF s, g, ls, cached
    <3> QED
      BY <3>1, <3>2
  <2>2. /\ job' = [job EXCEPT ![p].found = found, ![p].pc = "replace_vectors"]
        /\ embeddings' = [embeddings EXCEPT ![EmbeddingKey(p)] = IF @ # Null THEN @ ELSE made]
    BY <1>1 DEF Embed
  <2>3. cached # Null => cached.text = TextOf[s] /\ cached.layouts = ls /\ cached.model = g
    BY <1>t, <2>1 DEF CacheSound
  <2>4. found = Document(s, ls, g)
    <3>1. CASE cached # Null
      <4>1. found = [cached EXCEPT !.snap = s]
        BY <3>1 DEF Relabel
      <4> HIDE DEF s, g, ls, cached, found
      <4> QED
        BY <2>1, <2>3, <3>1, <4>1 DEF Vectors, Document
    <3>2. CASE cached = Null
      BY <3>2 DEF Document
    <3> QED
      BY <3>1, <3>2
  <2>5. /\ job'[p].found = found /\ job'[p].snap = s /\ job'[p].model = g
        /\ job'[p].rows = job[p].rows
    <3> HIDE DEF found
    <3> QED
      BY <1>t, <2>2 DEF Job
  <2>6. FoundSound(job'[p])
    <3> HIDE DEF found
    <3> QED
      BY <2>4, <2>5 DEF FoundSound
  <2>7. CacheSound'
    <3> SUFFICES ASSUME NEW g0 \in Semantic, NEW t0 \in Text, NEW l0 \in SUBSET Layout,
                        embeddings'[<<g0, t0, l0>>] # Null
                 PROVE  /\ embeddings'[<<g0, t0, l0>>].text = t0
                        /\ embeddings'[<<g0, t0, l0>>].layouts = l0
                        /\ embeddings'[<<g0, t0, l0>>].model = g0
      BY DEF CacheSound
    <3>1. CASE <<g0, t0, l0>> = EmbeddingKey(p) /\ cached = Null
      <4>1. embeddings'[<<g0, t0, l0>>] = made
        BY <1>t, <2>2, <3>1 DEF TypeOK
      <4>2. made.text = TextOf[s] /\ made.layouts = ls /\ made.model = g
        OBVIOUS
      <4> HIDE DEF s, g, ls, made
      <4> QED
        BY <2>1, <3>1, <4>1, <4>2
    <3>2. CASE ~(<<g0, t0, l0>> = EmbeddingKey(p) /\ cached = Null)
      <4>1. embeddings'[<<g0, t0, l0>>] = embeddings[<<g0, t0, l0>>]
        <5> HIDE DEF made
        <5> QED
          BY <1>t, <2>2, <3>2 DEF TypeOK
      <4> QED
        BY <1>t, <4>1 DEF CacheSound
    <3> QED
      BY <3>1, <3>2
  <2> QED
    BY <2>6, <2>7
<1>2. CASE Fail(p)
  <2>1. \A key \in Semantic \X Text \X SUBSET Layout :
          embeddings'[key] = embeddings[key] \/ embeddings'[key] = Null
    BY <1>t, <1>2 DEF Fail, TypeOK
  <2>2. CacheSound'
    BY <1>t, <2>1 DEF CacheSound
  <2>3. ~Embed(p)
    BY <1>2, <1>t DEF Fail, Embed, Finish, NoJob
  <2> QED
    BY <2>2, <2>3
<1>3. CASE ~Embed(p) /\ ~Fail(p)
  BY <1>t, <1>3, VectorsStay DEF CacheSound
<1> QED
  BY <1>1, <1>2, <1>3

\* Only embedding leads to the step that replaces the vectors.
LEMMA NotFound ==
  ASSUME TypeInv, NEW p \in Proc, Step(p), ~Embed(p)
  PROVE  job'[p].pc # "replace_vectors"
<1>t. job \in [Proc -> Job]
  BY DEF TypeInv, TypeOK
<1> USE DEF NoJob
<1>1. CASE StartChunks(p) \/ StartBuild(p) \/ StartQuery(p)
  BY <1>1, Started
<1>2. CASE UpsertChunks(p) \/ MarkChunks(p) \/ Record(p) \/ Fail(p)
  BY <1>t, <1>2 DEF UpsertChunks, MarkChunks, Record, Fail, Goto, Finish, Job
<1>3. CASE ListChunks(p)
  BY <1>t, <1>3 DEF ListChunks, Finish, Job
<1>4. CASE ReplaceLexical(p) \/ ReplaceVectors(p) \/ Stamp(p) \/ CreateLexicalBuild(p)
           \/ CreateSemanticBuild(p)
  BY <1>t, <1>4 DEF ReplaceLexical, ReplaceVectors, Stamp, CreateLexicalBuild,
     InsertLexicalBuild, CreateSemanticBuild, Goto, Job
<1>5. CASE ResolveLexical(p) \/ ResolveSemantic(p)
  BY <1>t, <1>5 DEF ResolveLexical, ResolveSemantic, Finish, Job
<1>6. CASE ReadLexical(p) \/ ReadVectors(p)
  <2>1. PICK k \in Job : /\ job' = [job EXCEPT ![p] = k] /\ Staged(k)
                         /\ k = NoJob \/ GoesOn(job[p], k)
    <3> HIDE DEF NoJob
    <3> QED
      BY <1>6, LexicalRead, VectorsRead
  <2>2. job[p].cmd \in Queries
    BY <1>6, JobsTyped DEF ReadLexical, ReadVectors, At, Staged, QueryPcs
  <2> QED
    BY <1>t, <2>1, <2>2 DEF GoesOn, Staged, BuildPcs, Queries, Job
<1> QED
  BY <1>1, <1>2, <1>3, <1>4, <1>5, <1>6 DEF Step

LEMMA FilesSoundStep ==
  ASSUME TypeInv, VectorInv, NEW p \in Proc, Step(p)
  PROVE  FilesSound'
<1>t. /\ TypeOK /\ job[p] \in Job /\ Staged(job[p]) /\ FilesSound /\ FoundSound(job[p])
  BY JobsTyped DEF TypeInv, VectorInv
<1>1. CASE ReplaceVectors(p)
  <2>1. vectorFile' = [vectorFile EXCEPT ![<<job[p].snap, job[p].model>>] = job[p].found]
    BY <1>1 DEF ReplaceVectors, VectorPath
  <2>2. job[p].found = Document(job[p].snap, LayoutsOf(job[p].rows), job[p].model)
    BY <1>t, <1>1 DEF ReplaceVectors, At, FoundSound
  <2>3. job[p].found.layouts = LayoutsOf(job[p].rows)
    BY <2>2 DEF Document
  <2> QED
    BY <1>t, <2>1, <2>2, <2>3 DEF FilesSound, TypeOK
<1>2. CASE ~ReplaceVectors(p)
  BY <1>t, <1>2, VectorsStay DEF FilesSound
<1> QED
  BY <1>1, <1>2

\* As many documents as the build recorded means the documents it recorded.
LEMMA ContentIsBuilds ==
  ASSUME TypeInv, VectorInv, NEW i \in 1..Len(semanticBuilds), NEW content,
         content = vectorFile[VectorPath(semanticBuilds[i].snap, semanticBuilds[i].model)],
         content # Null, MatchesBuild(content, semanticBuilds[i])
  PROVE  content = Document(semanticBuilds[i].snap, semanticBuilds[i].layouts,
                            semanticBuilds[i].model)
<1> DEFINE s == semanticBuilds[i].snap
           g == semanticBuilds[i].model
           K == content.layouts
           L == semanticBuilds[i].layouts
<1>1. s \in Snap /\ g \in Semantic /\ L \in SUBSET Layout
  BY BuildTyped
<1>2. i \in DOMAIN semanticBuilds
  BY LenProperties DEF TypeInv, TypeOK
<1>3. content \in Vectors
  BY <1>1 DEF TypeInv, TypeOK, VectorPath
<1>4. K \in SUBSET Layout
  BY <1>3 DEF Vectors
<1>5. content = Document(s, K, g)
  BY <1>1 DEF VectorInv, FilesSound, VectorPath
<1>6. Seen(s, L)
  BY <1>2 DEF Seen
<1>7. Seen(s, K)
  BY <1>1 DEF Seen, VectorPath
<1>8. K \subseteq L \/ L \subseteq K
  BY <1>1, <1>4, <1>6, <1>7 DEF VectorInv, LayoutsGrow
<1>9. IsFiniteSet(Layout)
  <2>1. IsFiniteSet({"structural"}) /\ IsFiniteSet({"fallback"})
    BY FS_Singleton
  <2>2. Layout = {"structural"} \cup {"fallback"}
    BY DEF Layout
  <2> QED
    BY <2>1, <2>2, FS_Union
<1>10. IsFiniteSet(K) /\ IsFiniteSet(L) /\ Cardinality(K) = Cardinality(L)
  BY <1>1, <1>4, <1>9, FS_Subset DEF MatchesBuild
<1>11. K = L
  <2> HIDE DEF K, L
  <2> QED
    BY <1>8, <1>10, FS_Subset
<1> QED
  BY <1>5, <1>11

LEMMA AnswersSoundStep ==
  ASSUME TypeInv, VectorInv, NEW p \in Proc, Step(p)
  PROVE  AnswersSound(job'[p], semanticBuilds')
<1>t. /\ TypeOK /\ job \in [Proc -> Job] /\ job[p] \in Job /\ Staged(job[p])
      /\ AnswersSound(job[p], semanticBuilds)
      /\ Names(job[p], Len(lexicalBuilds), Len(semanticBuilds))
  BY JobsTyped DEF TypeInv, TypeOK, VectorInv
<1>g. /\ Len(semanticBuilds) \in Nat
      /\ \A i \in 1..Len(semanticBuilds) : semanticBuilds'[i] = semanticBuilds[i]
  BY BuildsGrow
<1>1. CASE job'[p].vectors = {}
  BY <1>1 DEF AnswersSound
<1>2. CASE job'[p].vectors = job[p].vectors /\ job'[p].semantic = job[p].semantic
  BY <1>t, <1>g, <1>2 DEF AnswersSound, Names
<1>3. CASE StartChunks(p) \/ StartBuild(p) \/ StartQuery(p)
  BY <1>1, <1>3, Started
<1>4. CASE UpsertChunks(p) \/ MarkChunks(p) \/ Record(p) \/ Fail(p)
  BY <1>1, <1>2, <1>4, <1>t DEF UpsertChunks, MarkChunks, Record, Fail, Goto, Finish, NoJob, Job
<1>5. CASE ListChunks(p)
  BY <1>1, <1>2, <1>5, <1>t DEF ListChunks, Finish, NoJob, Job
<1>6. CASE Embed(p) \/ ReplaceLexical(p) \/ ReplaceVectors(p) \/ Stamp(p) \/ CreateLexicalBuild(p)
  BY <1>2, <1>6, <1>t DEF Embed, ReplaceLexical, ReplaceVectors, Stamp, CreateLexicalBuild,
     InsertLexicalBuild, Goto, Job
<1>7. CASE CreateSemanticBuild(p)
  BY <1>1, <1>7, <1>t DEF CreateSemanticBuild, At, Staged, BuildPcs, Job
<1>8. CASE ResolveLexical(p)
  BY <1>1, <1>2, <1>8, <1>t DEF ResolveLexical, Finish, NoJob, Job
<1>9. CASE ResolveSemantic(p)
  <2>1. job[p].vectors = {}
    BY <1>9, <1>t DEF ResolveSemantic, At, Staged, QueryPcs, Pinned
  <2> QED
    BY <1>1, <1>9, <1>t, <2>1 DEF ResolveSemantic, Finish, NoJob, Job
<1>10. CASE ReadLexical(p)
  <2>1. PICK k \in Job : /\ job' = [job EXCEPT ![p] = k]
                         /\ \/ k = NoJob
                            \/ GoesOn(job[p], k) /\ k.vectors = job[p].vectors
    BY <1>10, LexicalRead
  <2> QED
    BY <1>1, <1>2, <1>t, <2>1 DEF GoesOn, NoJob
<1>11. CASE ReadVectors(p)
  <2> DEFINE i == job[p].semantic
             content == vectorFile[VectorPath(semanticBuilds[i].snap, semanticBuilds[i].model)]
  <2>1. PICK k \in Job :
          /\ job' = [job EXCEPT ![p] = k]
          /\ \/ k = NoJob
             \/ /\ GoesOn(job[p], k) /\ k.vectors = job[p].vectors \cup {content}
                /\ content # Null /\ MatchesBuild(content, semanticBuilds[i])
    BY <1>11, VectorsRead
  <2>2. CASE k = NoJob
    BY <1>1, <1>t, <2>1, <2>2 DEF NoJob
  <2>3. CASE k # NoJob
    <3>1. i \in 1..Len(semanticBuilds)
      BY <1>11, ReadTyped DEF ReadVectors
    <3>2. content = Document(semanticBuilds[i].snap, semanticBuilds[i].layouts,
                             semanticBuilds[i].model)
      BY <2>1, <2>3, <3>1, ContentIsBuilds
    <3>3. /\ job'[p].vectors = job[p].vectors \cup {content}
          /\ job'[p].semantic = i
      BY <1>t, <2>1, <2>3 DEF GoesOn
    <3> HIDE DEF content
    <3> QED
      BY <1>t, <1>g, <3>1, <3>2, <3>3 DEF AnswersSound
  <2> QED
    BY <2>2, <2>3
<1> QED
  BY <1>3, <1>4, <1>5, <1>6, <1>7, <1>8, <1>9, <1>10, <1>11 DEF Step

LEMMA VectorInvStep == TypeInv /\ VectorInv /\ [Next]_vars => VectorInv'
<1>1. CASE UNCHANGED vars
  <2> USE <1>1 DEF vars
  <2>1. CacheSound' = CacheSound /\ FilesSound' = FilesSound
    BY DEF CacheSound, FilesSound
  <2>2. LayoutsGrow' = LayoutsGrow
    BY DEF LayoutsGrow, Seen
  <2> QED
    BY <2>1, <2>2 DEF VectorInv
<1>2. ASSUME TypeInv, VectorInv, NEW p \in Proc, Step(p) PROVE VectorInv'
  <2>g. /\ Len(semanticBuilds) \in Nat
        /\ \A i \in 1..Len(semanticBuilds) : semanticBuilds'[i] = semanticBuilds[i]
    BY <1>2, BuildsGrow
  <2>1. CacheSound' /\ FilesSound' /\ LayoutsGrow'
    BY <1>2, CacheSoundStep, FilesSoundStep, LayoutsGrowStep
  <2>2. \A q \in Proc : FoundSound(job'[q]) /\ AnswersSound(job'[q], semanticBuilds')
    <3>1. TAKE q \in Proc
    <3>2. CASE q = p
      <4>1. FoundSound(job'[p])
        <5>1. CASE Embed(p)
          BY <1>2, <5>1, CacheSoundStep
        <5>2. CASE ~Embed(p)
          BY <1>2, <5>2, NotFound DEF FoundSound
        <5> QED
          BY <5>1, <5>2
      <4> QED
        BY <1>2, <3>2, <4>1, AnswersSoundStep
    <3>3. CASE q # p
      <4>1. /\ job'[q] = job[q] /\ FoundSound(job[q]) /\ AnswersSound(job[q], semanticBuilds)
            /\ Names(job[q], Len(lexicalBuilds), Len(semanticBuilds))
        BY <1>2, <3>3, OthersWait, JobsTyped DEF VectorInv
      <4> QED
        BY <2>g, <4>1 DEF AnswersSound, Names
    <3> QED
      BY <3>2, <3>3
  <2>3. \A r \in provenance : AnswersSound(r, semanticBuilds')
    <3>1. TAKE r \in provenance
    <3>2. /\ Names(r, Len(lexicalBuilds), Len(semanticBuilds))
          /\ AnswersSound(r, semanticBuilds)
      BY <1>2 DEF VectorInv, TypeInv, TypeOK
    <3> QED
      BY <2>g, <3>2 DEF AnswersSound, Names
  <2>4. \A r \in provenance' : AnswersSound(r, semanticBuilds')
    <3>1. CASE Record(p)
      <4>1. AnswersSound(job[p], semanticBuilds) /\ semanticBuilds' = semanticBuilds
        BY <1>2, <3>1 DEF VectorInv, Record, builds
      <4> DEFINE new == [cmd |-> job[p].cmd, lexical |-> job[p].lexical,
                         semantic |-> job[p].semantic, read |-> job[p].read,
                         vectors |-> job[p].vectors]
      <4>2. provenance' = provenance \cup {new}
        BY <3>1 DEF Record
      <4>3. AnswersSound(new, semanticBuilds')
        BY <4>1 DEF AnswersSound
      <4> HIDE DEF new
      <4> QED
        BY <2>3, <4>2, <4>3
    <3>2. CASE ~Record(p)
      BY <1>2, <2>3, <3>2, RecordKept
    <3> QED
      BY <3>1, <3>2
  <2> QED
    BY <2>1, <2>2, <2>4 DEF VectorInv
<1> QED
  BY <1>1, <1>2 DEF Next

LEMMA VectorInvInit == Init => VectorInv
<1> SUFFICES ASSUME Init PROVE VectorInv
  OBVIOUS
<1>1. /\ \A g \in Semantic, t \in Text, ls \in SUBSET Layout : embeddings[<<g, t, ls>>] = Null
      /\ \A s \in Snap, g \in Semantic : vectorFile[<<s, g>>] = Null
      /\ semanticBuilds = <<>> /\ provenance = {}
      /\ \A p \in Proc : job[p] = NoJob
  BY DEF Init
<1>2. CacheSound /\ FilesSound
  BY <1>1 DEF CacheSound, FilesSound
<1>3. \A s \in Snap, ls \in SUBSET Layout : ~Seen(s, ls)
  <2>1. DOMAIN semanticBuilds = {}
    BY <1>1
  <2>2. \A p \in Proc : ~Listed(job[p])
    BY <1>1 DEF Listed, NoJob
  <2> QED
    BY <1>1, <2>1, <2>2 DEF Seen
<1>4. LayoutsGrow
  BY <1>3 DEF LayoutsGrow
<1> QED
  BY <1>1, <1>2, <1>4 DEF VectorInv, FoundSound, AnswersSound, NoJob

\* The vectors of every recorded answer are those of the build that it names.
THEOREM AnswersMatch == Spec => []SemanticAnswersMatchBuild
<1>1. VectorInv => SemanticAnswersMatchBuild
  BY DEF VectorInv, SemanticAnswersMatchBuild, AnswersSound, Document
<1> QED
  BY <1>1, TypeInvInit, TypeInvStep, VectorInvInit, VectorInvStep, PTL DEF Spec

-----------------------------------------------------------------------------
\* Commands that neither overlap nor fail.

\* A lexical build goes by the mark that it read, and what it indexes was built
\* under the configuration it will name.
LexicalStep(j) ==
    j.cmd = "build" /\ j.mode = "lexical" =>
      /\ j.pc = "list_chunks" => j.fp = mark[j.snap]
      /\ j.pc \in {"replace_lexical", "stamp", "create_build"} =>
           j.fp # Null /\ ConfigsOf(j.rows) = {j.fp}
      /\ j.pc \in Written => lexicalFile[j.snap] = j.rows

\* Chunks are those of their mark, but for the command that is about to mark them.
Marked(s) ==
    /\ rows[s]["fallback"] = Null
    /\ \A p \in Proc : At(p, "mark") /\ job[p].snap = s => rows[s]["structural"] = job[p].cfg
    /\ \/ mark[s] = rows[s]["structural"]
       \/ \E p \in Proc : At(p, "mark") /\ job[p].snap = s

\* The index of a build is in place, is replaced by a newer one's, or is about
\* to be: then the row of the newer build is still missing.
Replacing(j, s) == j.cmd = "build" /\ j.mode = "lexical" /\ j.snap = s /\ j.pc \in Written
Current(b) ==
    \/ lexicalFile[b.snap] = b.indexed
    \/ \E k \in DOMAIN lexicalBuilds : lexicalBuilds[k].snap = b.snap /\ lexicalBuilds[k].at > b.at
    \/ \E p \in Proc : Replacing(job[p], b.snap)

AloneInv ==
    /\ \A p, q \in Proc : ~At(p, "idle") /\ ~At(q, "idle") => p = q
    /\ \A s \in Snap : Marked(s)
    /\ \A p \in Proc : LexicalStep(job[p])
    /\ \A p \in Proc : At(p, "create_build") =>
         \A i \in DOMAIN lexicalBuilds : lexicalBuilds[i].at < job[p].at
    /\ \A i \in DOMAIN lexicalBuilds :
         /\ ConfigsOf(lexicalBuilds[i].indexed) = {lexicalBuilds[i].fp}
         /\ Current(lexicalBuilds[i])

\* created_at never runs ahead of the clock.
ClockInv ==
    /\ \A i \in DOMAIN lexicalBuilds : lexicalBuilds[i].at <= clock
    /\ \A p \in Proc : job[p].at <= clock

QuietInv == ClockInv /\ (alone => AloneInv)

LEMMA ClockInvStep ==
  ASSUME TypeInv, ClockInv, NEW p \in Proc, Step(p)
  PROVE  ClockInv'
<1>t. /\ TypeOK /\ job \in [Proc -> Job] /\ job[p] \in Job /\ Staged(job[p])
      /\ clock \in Nat /\ job[p].at <= clock /\ job[p].at \in Nat
  BY JobsTyped DEF TypeInv, TypeOK, ClockInv, Job
<1>1. /\ job'[p].at <= clock' /\ clock <= clock' /\ clock' \in Nat
  <2>1. CASE Stamp(p)
    <3>1. clock' = clock + 1 /\ job'[p].at = clock'
      BY <1>t, <2>1 DEF Stamp, Job
    <3> QED
      BY <1>t, <3>1
  <2>2. CASE ~Stamp(p)
    <3>1. clock' = clock
      <4> USE DEF builds
      <4>1. CASE StartChunks(p) \/ StartBuild(p) \/ StartQuery(p)
        BY <4>1, Started
      <4>2. CASE ~(StartChunks(p) \/ StartBuild(p) \/ StartQuery(p))
        BY <2>2, <4>2 DEF Step, UpsertChunks, MarkChunks, ListChunks, ReplaceLexical,
           Embed, ReplaceVectors, CreateLexicalBuild, InsertLexicalBuild,
           CreateSemanticBuild, ResolveLexical, ResolveSemantic, ReadLexical, ReadVectors,
           Record, Fail
      <4> QED
        BY <4>1, <4>2
    <3>2. job'[p].at = 0 \/ job'[p].at = job[p].at
      <4> USE DEF NoJob
      <4>1. CASE StartChunks(p) \/ StartBuild(p) \/ StartQuery(p)
        BY <4>1, Started
      <4>2. CASE UpsertChunks(p) \/ MarkChunks(p) \/ Record(p) \/ Fail(p)
        BY <1>t, <4>2 DEF UpsertChunks, MarkChunks, Record, Fail, Goto, Finish, Job
      <4>3. CASE ListChunks(p)
        BY <1>t, <4>3 DEF ListChunks, Finish, Job
      <4>4. CASE Embed(p) \/ ReplaceLexical(p) \/ ReplaceVectors(p) \/ CreateLexicalBuild(p)
                 \/ CreateSemanticBuild(p)
        BY <1>t, <4>4 DEF Embed, ReplaceLexical, ReplaceVectors, CreateLexicalBuild,
           InsertLexicalBuild, CreateSemanticBuild, Goto, Job
      <4>5. CASE ResolveLexical(p) \/ ResolveSemantic(p)
        BY <1>t, <4>5 DEF ResolveLexical, ResolveSemantic, Finish, Job
      <4>6. CASE ReadLexical(p) \/ ReadVectors(p)
        <5>1. PICK k \in Job : /\ job' = [job EXCEPT ![p] = k]
                               /\ k = NoJob \/ GoesOn(job[p], k)
          <6> HIDE DEF NoJob
          <6> QED
            BY <4>6, LexicalRead, VectorsRead
        <5> QED
          BY <1>t, <5>1 DEF GoesOn
      <4> QED
        BY <2>2, <4>1, <4>2, <4>3, <4>4, <4>5, <4>6 DEF Step
    <3> QED
      BY <1>t, <3>1, <3>2
  <2> QED
    BY <2>1, <2>2
<1>2. \A q \in Proc : job'[q].at <= clock'
  <2>1. TAKE q \in Proc
  <2>2. CASE q = p
    BY <1>1, <2>2
  <2>3. CASE q # p
    <3>1. job'[q] = job[q] /\ job[q].at <= clock /\ job[q].at \in Nat
      BY <2>3, OthersWait, JobsTyped DEF ClockInv, Job
    <3> QED
      BY <1>t, <1>1, <3>1
  <2> QED
    BY <2>2, <2>3
<1>g. /\ DOMAIN lexicalBuilds = 1..Len(lexicalBuilds)
      /\ DOMAIN lexicalBuilds' = 1..Len(lexicalBuilds') /\ Len(lexicalBuilds) \in Nat
      /\ \A i \in 1..Len(lexicalBuilds) : lexicalBuilds'[i] = lexicalBuilds[i]
  BY BuildsGrow
<1>3. \A i \in 1..Len(lexicalBuilds) : lexicalBuilds'[i].at <= clock'
  <2>1. \A i \in 1..Len(lexicalBuilds) : lexicalBuilds[i].at \in Nat /\ lexicalBuilds[i].at <= clock
    BY <1>g, BuildTyped DEF ClockInv
  <2> QED
    BY <1>t, <1>1, <1>g, <2>1
<1>4. \A i \in DOMAIN lexicalBuilds' : lexicalBuilds'[i].at <= clock'
  <2>1. CASE CreateLexicalBuild(p)
    <3>1. /\ Len(lexicalBuilds') = Len(lexicalBuilds) + 1
          /\ lexicalBuilds'[Len(lexicalBuilds) + 1] = NewLexical(p)
      BY <2>1, LexicalInserted
    <3>2. lexicalBuilds'[Len(lexicalBuilds) + 1].at = job[p].at
      BY <3>1 DEF NewLexical
    <3>3. \A i \in DOMAIN lexicalBuilds' :
            i \in 1..Len(lexicalBuilds) \/ i = Len(lexicalBuilds) + 1
      BY <1>g, <3>1
    <3>4. job[p].at <= clock'
      BY <1>t, <1>1
    <3> QED
      BY <1>3, <3>2, <3>3, <3>4
  <2>2. CASE ~CreateLexicalBuild(p)
    BY <1>3, <1>g, <2>2, TablesKept
  <2> QED
    BY <2>1, <2>2
<1> QED
  BY <1>2, <1>4 DEF ClockInv


\* A step after which commands have neither overlapped nor failed was taken by
\* the only command there is.
LEMMA AloneStep ==
  ASSUME TypeInv, QuietInv, NEW p \in Proc, Step(p), alone'
  PROVE  /\ alone /\ AloneInv /\ ~Fail(p)
         /\ \A q \in Proc : q # p => /\ job'[q] = job[q]
                                     /\ job[q].pc = "idle" /\ job[q].cmd = "none"
<1>1. alone /\ ~Fail(p)
  <2> USE DEF meters, Fault
  <2>1. CASE StartChunks(p) \/ StartBuild(p) \/ StartQuery(p)
    <3>1. alone
      BY <2>1, Started
    <3>2. At(p, "idle")
      BY <2>1 DEF StartChunks, StartBuild, StartQuery
    <3> QED
      BY <3>1, <3>2 DEF Fail
  <2>2. CASE UpsertChunks(p)
    BY <2>2 DEF UpsertChunks, Fail
  <2>3. CASE Fail(p)
    BY <2>3 DEF Fail
  <2>4. CASE ~(StartChunks(p) \/ StartBuild(p) \/ StartQuery(p)) /\ ~UpsertChunks(p) /\ ~Fail(p)
    BY <2>4 DEF Step, MarkChunks, ListChunks, ReplaceLexical,
           Embed, ReplaceVectors, Stamp, CreateLexicalBuild, InsertLexicalBuild,
           CreateSemanticBuild, ResolveLexical, ResolveSemantic, ReadLexical, ReadVectors,
           Record
  <2> QED
    BY <2>1, <2>2, <2>3, <2>4
<1>2. AloneInv
  BY <1>1 DEF QuietInv
<1>3. ASSUME NEW q \in Proc, q # p PROVE job[q].pc = "idle"
  <2>1. CASE StartChunks(p) \/ StartBuild(p) \/ StartQuery(p)
    BY <2>1, Started DEF At
  <2>2. CASE ~(StartChunks(p) \/ StartBuild(p) \/ StartQuery(p))
    <3>1. ~At(p, "idle")
      BY <1>1, <2>2 DEF Step, At, UpsertChunks, MarkChunks, ListChunks, ReplaceLexical,
           Embed, ReplaceVectors, Stamp, CreateLexicalBuild, CreateSemanticBuild,
           ResolveLexical, ResolveSemantic, ReadLexical, ReadVectors, Record
    <3> QED
      BY <1>2, <1>3, <3>1 DEF AloneInv, At
  <2> QED
    BY <2>1, <2>2
<1>4. \A q \in Proc : job[q].pc = "idle" => job[q].cmd = "none"
  BY JobsTyped DEF Staged
<1> QED
  BY <1>1, <1>2, <1>3, <1>4, OthersWait

\* Only two steps of a chunk build touch rows and marks.
LEMMA MarkKept ==
  ASSUME NEW p \in Proc, Step(p)
  PROVE  /\ ~MarkChunks(p) => mark' = mark
         /\ ~ReplaceLexical(p) => lexicalFile' = lexicalFile
<1> USE DEF baseline, indexes
<1>1. CASE StartChunks(p) \/ StartBuild(p) \/ StartQuery(p)
  BY <1>1 DEF StartChunks, StartBuild, StartQuery, Start
<1>2. CASE ~(StartChunks(p) \/ StartBuild(p) \/ StartQuery(p))
  BY <1>2 DEF Step, UpsertChunks, MarkChunks, ListChunks, ReplaceLexical,
           Embed, ReplaceVectors, Stamp, CreateLexicalBuild, InsertLexicalBuild,
           CreateSemanticBuild, ResolveLexical, ResolveSemantic, ReadLexical, ReadVectors,
           Record, Fail
<1> QED
  BY <1>1, <1>2

\* Where the steps that matter here lead.
LEMMA QuietPlaces ==
  ASSUME TypeInv, NEW p \in Proc, Step(p)
  PROVE  /\ ~UpsertChunks(p) => job'[p].pc # "mark"
         /\ ~Stamp(p) => job'[p].pc # "create_build"
         /\ ~ListChunks(p) => job'[p].pc # "replace_lexical"
         /\ job'[p].pc = "list_chunks" => StartBuild(p)
<1>t. job \in [Proc -> Job] /\ job[p] \in Job
  BY DEF TypeInv, TypeOK
<1> USE DEF NoJob
<1>1. CASE StartChunks(p) \/ StartBuild(p) \/ StartQuery(p)
  <2>1. job'[p].pc \in {"upsert", "list_chunks", "resolve_lexical", "resolve_semantic"}
    BY <1>1, Started
  <2>2. job'[p].pc = "list_chunks" => StartBuild(p)
    <3> HIDE DEF NoJob
    <3>1. ASSUME StartChunks(p) PROVE job'[p].pc = "upsert"
      <4>1. PICK s \in Snap, c \in Config :
              job' = [job EXCEPT ![p] =
                        [NoJob EXCEPT !.cmd = "chunks", !.pc = "upsert", !.snap = s, !.cfg = c]]
        BY <3>1 DEF StartChunks, Start
      <4> QED
        BY <1>t, <4>1
    <3>2. ASSUME StartQuery(p) PROVE job'[p].pc \in {"resolve_lexical", "resolve_semantic"}
      <4>1. PICK cmd \in {"query", "benchmark"}, m \in Modes, c \in Config, g \in Semantic :
              Start(p, "query", MaxQueries,
                    [NoJob EXCEPT !.cmd = cmd, !.mode = m, !.cfg = c, !.model = g,
                                  !.left = IF cmd = "query" THEN 1 ELSE Cases,
                                  !.pc = IF m = "semantic" THEN "resolve_semantic"
                                                           ELSE "resolve_lexical"])
        BY <3>2 DEF StartQuery
      <4> DEFINE pc == IF m = "semantic" THEN "resolve_semantic" ELSE "resolve_lexical"
                 k == [NoJob EXCEPT !.cmd = cmd, !.mode = m, !.cfg = c, !.model = g,
                                    !.left = IF cmd = "query" THEN 1 ELSE Cases, !.pc = pc]
      <4>2. k.pc = pc
        BY DEF NoJob
      <4>3. job' = [job EXCEPT ![p] = k]
        BY <4>1 DEF Start
      <4> HIDE DEF k
      <4> QED
        BY <1>t, <4>2, <4>3
    <3> QED
      BY <1>1, <3>1, <3>2
  <2> QED
    BY <2>1, <2>2
<1>2. CASE UpsertChunks(p) \/ MarkChunks(p) \/ Record(p) \/ Fail(p)
  BY <1>t, <1>2 DEF UpsertChunks, MarkChunks, Record, Fail, Goto, Finish, Job
<1>3. CASE ListChunks(p)
  BY <1>t, <1>3 DEF ListChunks, Finish, Job
<1>4. CASE Embed(p) \/ ReplaceLexical(p) \/ ReplaceVectors(p) \/ CreateLexicalBuild(p)
           \/ CreateSemanticBuild(p) \/ Stamp(p)
  BY <1>t, <1>4 DEF Embed, ReplaceLexical, ReplaceVectors, CreateLexicalBuild,
     InsertLexicalBuild, CreateSemanticBuild, Stamp, Goto, Job
<1>5. CASE ResolveLexical(p) \/ ResolveSemantic(p)
  BY <1>t, <1>5 DEF ResolveLexical, ResolveSemantic, Finish, Job
<1>6. CASE ReadLexical(p) \/ ReadVectors(p)
  <2>1. PICK k \in Job : /\ job' = [job EXCEPT ![p] = k] /\ Staged(k)
                         /\ k = NoJob \/ GoesOn(job[p], k)
    <3> HIDE DEF NoJob
    <3> QED
      BY <1>6, LexicalRead, VectorsRead
  <2>2. job[p].cmd \in Queries
    BY <1>6, JobsTyped DEF ReadLexical, ReadVectors, At, Staged, QueryPcs
  <2> QED
    BY <1>t, <2>1, <2>2 DEF GoesOn, Staged, ChunkPcs, BuildPcs, Queries
<1> QED
  BY <1>1, <1>2, <1>3, <1>4, <1>5, <1>6 DEF Step

LEMMA MarkedStep ==
  ASSUME TypeInv, QuietInv, NEW p \in Proc, Step(p), alone', NEW s \in Snap
  PROVE  Marked(s)'
<1>t. /\ rows \in [Snap -> Rows] /\ mark \in [Snap -> Config \cup {Null}]
      /\ job \in [Proc -> Job] /\ job[p] \in Job /\ Staged(job[p])
  BY JobsTyped DEF TypeInv, TypeOK
<1>a. /\ Marked(s) /\ ~Fail(p)
      /\ \A q \in Proc : q # p => job'[q] = job[q] /\ job[q].pc = "idle"
  BY AloneStep DEF AloneInv
<1>1. CASE UpsertChunks(p)
  <2>1. job[p].snap \in Snap
    BY <1>t, <1>1 DEF UpsertChunks, At, Staged, ChunkPcs
  <2>2. rows' = [rows EXCEPT ![job[p].snap]["structural"] = job[p].cfg] /\ mark' = mark
    BY <1>1 DEF UpsertChunks, Fault
  <2>3. job'[p].pc = "mark" /\ job'[p].snap = job[p].snap /\ job'[p].cfg = job[p].cfg
    BY <1>t, <1>1 DEF UpsertChunks, Goto, Job
  <2>4. \A l \in Layout : rows'[s][l] = IF s = job[p].snap /\ l = "structural" THEN job[p].cfg
                                                                               ELSE rows[s][l]
    BY <1>t, <2>1, <2>2 DEF Rows
  <2>5. job[p].pc = "upsert"
    BY <1>1 DEF UpsertChunks, At
  <2> QED
    BY <1>a, <2>2, <2>3, <2>4, <2>5 DEF Marked, At, Layout
<1>2. CASE MarkChunks(p)
  <2>1. job[p].snap \in Snap /\ job[p].pc = "mark"
    BY <1>t, <1>2 DEF MarkChunks, At, Staged, ChunkPcs
  <2>2. mark' = [mark EXCEPT ![job[p].snap] = job[p].cfg] /\ rows' = rows
    BY <1>2 DEF MarkChunks
  <2>3. job'[p].pc = "idle"
    BY <1>t, <1>2 DEF MarkChunks, Finish, NoJob
  <2> QED
    BY <1>t, <1>a, <2>1, <2>2, <2>3 DEF Marked, At
<1>3. CASE ~UpsertChunks(p) /\ ~MarkChunks(p)
  <2>1. rows' = rows /\ mark' = mark /\ job'[p].pc # "mark"
    BY <1>3, VectorsStay, MarkKept, QuietPlaces
  <2>2. job[p].pc # "mark"
    BY <1>a, <1>3 DEF Step, At, StartChunks, StartBuild, StartQuery, ListChunks,
       ReplaceLexical, Embed, ReplaceVectors, Stamp, CreateLexicalBuild,
       CreateSemanticBuild, ResolveLexical, ResolveSemantic, ReadLexical, ReadVectors, Record
  <2> QED
    BY <1>a, <2>1, <2>2 DEF Marked, At
<1> QED
  BY <1>1, <1>2, <1>3

LEMMA LexicalStepKept ==
  ASSUME TypeInv, QuietInv, NEW p \in Proc, Step(p), alone'
  PROVE  LexicalStep(job[p])'
<1>t. /\ rows \in [Snap -> Rows] /\ mark \in [Snap -> Config \cup {Null}]
      /\ lexicalFile \in [Snap -> Rows \cup {Null}]
      /\ job \in [Proc -> Job] /\ job[p] \in Job /\ Staged(job[p])
  BY JobsTyped DEF TypeInv, TypeOK
<1>a. /\ AloneInv /\ \A q \in Proc : q # p => job[q].pc = "idle"
      /\ LexicalStep(job[p])
  BY AloneStep DEF AloneInv
<1>1. CASE StartBuild(p)
  <2>1. job'[p].mode = "lexical" /\ job'[p].cmd = "build" => job'[p].fp = mark[job'[p].snap]
    BY <1>1, Started
  <2>2. mark' = mark /\ job'[p].pc \in {"upsert", "list_chunks", "resolve_lexical", "resolve_semantic"}
    BY <1>1, Started DEF baseline
  <2> QED
    BY <2>1, <2>2 DEF LexicalStep, Written
<1>2. CASE ListChunks(p)
  <2>1. CASE Refuses(p)
    <3>1. job'[p] = NoJob
      BY <1>t, <1>2, <2>1 DEF ListChunks, Finish
    <3> QED
      BY <3>1 DEF LexicalStep, NoJob
  <2>2. CASE ~Refuses(p) /\ job[p].mode = "lexical"
    <3>1. /\ job'[p].rows = rows[job[p].snap] /\ job'[p].pc = "replace_lexical"
          /\ job'[p].fp = job[p].fp
      BY <1>t, <1>2, <2>2 DEF ListChunks, Job
    <3>2. /\ job[p].snap \in Snap /\ job[p].pc = "list_chunks" /\ job[p].cmd = "build"
          /\ rows[job[p].snap] # NoRows
      BY <1>t, <1>2, <2>2 DEF ListChunks, At, Staged, BuildPcs, Refuses
    <3>3. job[p].fp = mark[job[p].snap] /\ Marked(job[p].snap)
      BY <1>a, <2>2, <3>2 DEF LexicalStep, AloneInv
    <3>4. /\ mark[job[p].snap] = rows[job[p].snap]["structural"]
          /\ rows[job[p].snap]["fallback"] = Null
      BY <1>a, <3>2, <3>3 DEF Marked, At
    <3>5. rows[job[p].snap] \in Rows
      BY <1>t, <3>2
    <3>6. rows[job[p].snap]["structural"] # Null
      BY <3>2, <3>4, <3>5 DEF Rows, NoRows, Layout
    <3>7. ConfigsOf(rows[job[p].snap]) = {rows[job[p].snap]["structural"]}
      BY <3>4, <3>6 DEF ConfigsOf, LayoutsOf, Layout
    <3> QED
      BY <3>1, <3>3, <3>4, <3>6, <3>7 DEF LexicalStep, Written
  <2>3. CASE ~Refuses(p) /\ job[p].mode # "lexical"
    <3>1. job'[p].mode # "lexical"
      BY <1>t, <1>2, <2>3 DEF ListChunks, Job
    <3> QED
      BY <3>1 DEF LexicalStep
  <2> QED
    BY <2>1, <2>2, <2>3
<1>3. CASE ReplaceLexical(p)
  <2>1. /\ job[p].pc = "replace_lexical" /\ job[p].cmd = "build" /\ job[p].mode = "lexical"
        /\ job[p].snap \in Snap
    BY <1>t, <1>3 DEF ReplaceLexical, At, Staged, BuildPcs
  <2>2. job[p].fp # Null /\ ConfigsOf(job[p].rows) = {job[p].fp}
    BY <1>a, <2>1 DEF LexicalStep
  <2>3. /\ job'[p].pc = "stamp" /\ job'[p].rows = job[p].rows /\ job'[p].fp = job[p].fp
        /\ job'[p].snap = job[p].snap
    BY <1>t, <1>3 DEF ReplaceLexical, Goto, Job
  <2>4. lexicalFile'[job[p].snap] = job[p].rows
    BY <1>t, <1>3, <2>1 DEF ReplaceLexical
  <2> QED
    BY <2>2, <2>3, <2>4 DEF LexicalStep
<1>4. CASE Stamp(p)
  <2>1. /\ job[p].pc = "stamp" /\ lexicalFile' = lexicalFile
        /\ job'[p].pc = "create_build" /\ job'[p].rows = job[p].rows /\ job'[p].fp = job[p].fp
        /\ job'[p].snap = job[p].snap /\ job'[p].mode = job[p].mode /\ job'[p].cmd = job[p].cmd
    BY <1>t, <1>4 DEF Stamp, At, Job, indexes
  <2> QED
    BY <1>a, <2>1 DEF LexicalStep, Written
<1>5. CASE ~StartBuild(p) /\ ~ListChunks(p) /\ ~ReplaceLexical(p) /\ ~Stamp(p)
  <2>1. job'[p].pc \notin {"list_chunks", "replace_lexical", "create_build"}
    BY <1>5, QuietPlaces
  <2>2. CASE ReplaceVectors(p)
    <3>1. job'[p].mode = "semantic"
      BY <1>t, <2>2 DEF ReplaceVectors, Goto, Job, At, Staged
    <3> QED
      BY <3>1 DEF LexicalStep
  <2>3. CASE ~ReplaceVectors(p)
    BY <1>5, <2>1, <2>3, NotWritten DEF LexicalStep, Written
  <2> QED
    BY <2>2, <2>3
<1> QED
  BY <1>1, <1>2, <1>3, <1>4, <1>5

\* A build that is about to be inserted is newer than all that were.
LEMMA NewerStep ==
  ASSUME TypeInv, QuietInv, NEW p \in Proc, Step(p), alone', At(p, "create_build")'
  PROVE  \A i \in DOMAIN lexicalBuilds' : lexicalBuilds'[i].at < job'[p].at
<1>1. Stamp(p)
  BY QuietPlaces DEF At
<1>2. /\ clock \in Nat /\ lexicalBuilds' = lexicalBuilds /\ job'[p].at = clock + 1
  BY <1>1 DEF TypeInv, TypeOK, Stamp, Job
<1>3. \A i \in DOMAIN lexicalBuilds : lexicalBuilds[i].at \in Nat /\ lexicalBuilds[i].at <= clock
  BY BuildTyped, BuildsGrow DEF QuietInv, ClockInv
<1>4. \A i \in DOMAIN lexicalBuilds : lexicalBuilds[i].at < clock + 1
  BY <1>2, <1>3
<1> QED
  BY <1>2, <1>4

LEMMA AttributedStep ==
  ASSUME TypeInv, QuietInv, NEW p \in Proc, Step(p), alone'
  PROVE  \A i \in DOMAIN lexicalBuilds' :
           ConfigsOf(lexicalBuilds'[i].indexed) = {lexicalBuilds'[i].fp}
<1>a. AloneInv
  BY AloneStep
<1>1. CASE CreateLexicalBuild(p)
  <2>1. /\ Len(lexicalBuilds') = Len(lexicalBuilds) + 1
        /\ lexicalBuilds'[Len(lexicalBuilds) + 1] = NewLexical(p)
        /\ \A i \in 1..Len(lexicalBuilds) : lexicalBuilds'[i] = lexicalBuilds[i]
    BY <1>1, LexicalInserted
  <2>2. /\ DOMAIN lexicalBuilds = 1..Len(lexicalBuilds)
        /\ DOMAIN lexicalBuilds' = 1..Len(lexicalBuilds') /\ Len(lexicalBuilds) \in Nat
    BY BuildsGrow
  <2>3. \A i \in DOMAIN lexicalBuilds' : i \in 1..Len(lexicalBuilds) \/ i = Len(lexicalBuilds) + 1
    BY <2>1, <2>2
  <2>4. job[p].fp # Null /\ ConfigsOf(job[p].rows) = {job[p].fp}
    <3>1. job[p].pc = "create_build" /\ job[p].cmd = "build" /\ job[p].mode = "lexical"
      BY <1>1, JobsTyped DEF CreateLexicalBuild, At, Staged, BuildPcs
    <3> QED
      BY <1>a, <3>1 DEF AloneInv, LexicalStep
  <2>5. NewLexical(p).indexed = job[p].rows /\ NewLexical(p).fp = job[p].fp
    BY <2>4 DEF NewLexical
  <2> QED
    BY <1>a, <2>1, <2>2, <2>3, <2>4, <2>5 DEF AloneInv
<1>2. CASE ~CreateLexicalBuild(p)
  BY <1>a, <1>2, TablesKept DEF AloneInv
<1> QED
  BY <1>1, <1>2

\* What Current says of a build, with the state as parameters.
IsCurrent(b, file, table, jobs) ==
    \/ file[b.snap] = b.indexed
    \/ \E k \in DOMAIN table : table[k].snap = b.snap /\ table[k].at > b.at
    \/ \E p \in Proc : Replacing(jobs[p], b.snap)

LEMMA CurrentKept ==
  ASSUME TypeInv, QuietInv, NEW p \in Proc, Step(p), alone', NEW i \in DOMAIN lexicalBuilds
  PROVE  IsCurrent(lexicalBuilds[i], lexicalFile', lexicalBuilds', job')
<1> DEFINE b == lexicalBuilds[i]
<1>t. /\ lexicalFile \in [Snap -> Rows \cup {Null}]
      /\ job \in [Proc -> Job] /\ job[p] \in Job /\ Staged(job[p])
  BY JobsTyped DEF TypeInv, TypeOK
<1>a. /\ AloneInv /\ ~Fail(p) /\ Current(b)
      /\ \A q \in Proc : q # p => job'[q] = job[q] /\ job[q].cmd = "none"
  BY AloneStep DEF AloneInv
<1>g. /\ DOMAIN lexicalBuilds = 1..Len(lexicalBuilds)
      /\ DOMAIN lexicalBuilds' = 1..Len(lexicalBuilds')
      /\ Len(lexicalBuilds) \in Nat /\ Len(lexicalBuilds') \in Nat
      /\ Len(lexicalBuilds) <= Len(lexicalBuilds')
      /\ \A k \in 1..Len(lexicalBuilds) : lexicalBuilds'[k] = lexicalBuilds[k]
  BY BuildsGrow
<1>b. b.snap \in Snap
  BY <1>g, BuildTyped
\* A newer build stays.
<1>1. CASE \E k \in DOMAIN lexicalBuilds : lexicalBuilds[k].snap = b.snap /\ lexicalBuilds[k].at > b.at
  <2>1. PICK k \in DOMAIN lexicalBuilds : lexicalBuilds[k].snap = b.snap /\ lexicalBuilds[k].at > b.at
    BY <1>1
  <2>2. k \in DOMAIN lexicalBuilds' /\ lexicalBuilds'[k] = lexicalBuilds[k]
    BY <1>g
  <2> HIDE DEF b
  <2>3. IsCurrent(b, lexicalFile', lexicalBuilds', job')
    BY <2>1, <2>2 DEF IsCurrent
  <2> QED
    BY <2>3 DEF b
\* The file stays, unless another build of the snapshot replaces it.
<1>2. CASE lexicalFile[b.snap] = b.indexed
  <2>1. CASE ReplaceLexical(p) /\ job[p].snap = b.snap
    <3>1. Replacing(job'[p], b.snap)
      BY <1>t, <2>1 DEF ReplaceLexical, At, Goto, Staged, Job, Replacing, Written, BuildPcs
    <3> QED
      BY <3>1 DEF IsCurrent
  <2>2. CASE ReplaceLexical(p) /\ job[p].snap # b.snap
    <3>1. lexicalFile'[b.snap] = lexicalFile[b.snap]
      BY <1>t, <1>b, <2>2 DEF ReplaceLexical
    <3> QED
      BY <1>2, <3>1 DEF IsCurrent
  <2>3. CASE ~ReplaceLexical(p)
    BY <1>2, <2>3, MarkKept DEF IsCurrent
  <2> QED
    BY <2>1, <2>2, <2>3
\* The build that replaced it is inserted.
<1>3. CASE Replacing(job[p], b.snap)
  <2>0. job[p].pc \in Written /\ job[p].mode = "lexical" /\ job[p].cmd = "build" /\ job[p].snap = b.snap
    BY <1>3 DEF Replacing
  <2>1. CASE Stamp(p)
    <3>1. Replacing(job'[p], b.snap)
      <4>1. /\ job'[p].cmd = job[p].cmd /\ job'[p].mode = job[p].mode
            /\ job'[p].snap = job[p].snap /\ job'[p].pc = "create_build"
        BY <1>t, <2>1 DEF Stamp, Job
      <4> HIDE DEF b
      <4> QED
        BY <2>0, <4>1 DEF Replacing, Written
    <3> QED
      BY <3>1 DEF IsCurrent
  <2>2. CASE CreateLexicalBuild(p)
    <3> DEFINE n == Len(lexicalBuilds) + 1
    <3>1. Len(lexicalBuilds') = n /\ lexicalBuilds'[n] = NewLexical(p)
      BY <2>2, LexicalInserted
    <3>2. n \in DOMAIN lexicalBuilds'
      BY <1>g, <3>1
    <3>3. lexicalBuilds'[n].snap = b.snap /\ lexicalBuilds'[n].at = job[p].at
      BY <2>0, <3>1 DEF NewLexical
    <3>4. b.at < job[p].at
      BY <1>a, <2>2 DEF CreateLexicalBuild, AloneInv
    <3>5. job[p].at \in Nat /\ b.at \in Nat
      BY <1>t, <1>g, BuildTyped DEF Job
    <3> HIDE DEF n, b
    <3>6. lexicalBuilds'[n].at > b.at
      BY <3>3, <3>4, <3>5
    <3>7. IsCurrent(b, lexicalFile', lexicalBuilds', job')
      BY <3>2, <3>3, <3>6 DEF IsCurrent
    <3> QED
      BY <3>7 DEF b
  <2>3. CASE ~Stamp(p) /\ ~CreateLexicalBuild(p)
    <3>1. FALSE
      BY <1>a, <2>0, <2>3 DEF Step, Written, At, StartChunks, StartBuild, StartQuery,
         UpsertChunks, MarkChunks, ListChunks, ReplaceLexical, Embed, ReplaceVectors,
         CreateSemanticBuild, ResolveLexical, ResolveSemantic, ReadLexical, ReadVectors, Record
    <3> QED
      BY <3>1
  <2> QED
    BY <2>1, <2>2, <2>3
<1> QED
  <2>1. \A q \in Proc : Replacing(job[q], b.snap) => q = p
    BY <1>a DEF Replacing
  <2> QED
    BY <1>a, <1>1, <1>2, <1>3, <2>1 DEF Current

LEMMA CurrentStep ==
  ASSUME TypeInv, QuietInv, NEW p \in Proc, Step(p), alone'
  PROVE  \A i \in DOMAIN lexicalBuilds' : IsCurrent(lexicalBuilds'[i], lexicalFile', lexicalBuilds', job')
<1>a. AloneInv
  BY AloneStep
<1>g. /\ DOMAIN lexicalBuilds = 1..Len(lexicalBuilds)
      /\ DOMAIN lexicalBuilds' = 1..Len(lexicalBuilds') /\ Len(lexicalBuilds) \in Nat
      /\ \A k \in 1..Len(lexicalBuilds) : lexicalBuilds'[k] = lexicalBuilds[k]
  BY BuildsGrow
<1>1. CASE CreateLexicalBuild(p)
  <2>1. /\ Len(lexicalBuilds') = Len(lexicalBuilds) + 1
        /\ lexicalBuilds'[Len(lexicalBuilds) + 1] = NewLexical(p)
    BY <1>1, LexicalInserted
  <2>2. IsCurrent(NewLexical(p), lexicalFile', lexicalBuilds', job')
    <3>1. job[p].pc = "create_build" /\ job[p].cmd = "build" /\ job[p].mode = "lexical"
      BY <1>1, JobsTyped DEF CreateLexicalBuild, At, Staged, BuildPcs
    <3>2. lexicalFile[job[p].snap] = job[p].rows
      BY <1>a, <3>1 DEF AloneInv, LexicalStep, Written
    <3>3. lexicalFile' = lexicalFile
      BY <1>1 DEF CreateLexicalBuild, InsertLexicalBuild, indexes
    <3> QED
      BY <3>2, <3>3 DEF IsCurrent, NewLexical
  <2>3. \A i \in DOMAIN lexicalBuilds' : i \in DOMAIN lexicalBuilds \/ i = Len(lexicalBuilds) + 1
    BY <1>g, <2>1
  <2> QED
    BY <1>g, <2>1, <2>2, <2>3, CurrentKept
<1>2. CASE ~CreateLexicalBuild(p)
  BY <1>2, CurrentKept, TablesKept
<1> QED
  BY <1>1, <1>2

LEMMA AloneInvStep ==
  ASSUME TypeInv, QuietInv, NEW p \in Proc, Step(p), alone'
  PROVE  AloneInv'
<1>1. \A q \in Proc : q # p => job'[q] = job[q] /\ job[q].pc = "idle" /\ job[q].cmd = "none"
  BY AloneStep
<1>2. (\A q, r \in Proc : ~At(q, "idle") /\ ~At(r, "idle") => q = r)'
  BY <1>1 DEF At
<1>3. (\A s \in Snap : Marked(s))'
  BY MarkedStep
<1>4. (\A q \in Proc : LexicalStep(job[q]))'
  <2>1. ASSUME NEW q \in Proc, q # p PROVE LexicalStep(job[q])'
    BY <1>1, <2>1 DEF LexicalStep
  <2> QED
    BY <2>1, LexicalStepKept
<1>5. (\A q \in Proc : At(q, "create_build") =>
         \A i \in DOMAIN lexicalBuilds : lexicalBuilds[i].at < job[q].at)'
  <2>1. ASSUME NEW q \in Proc, At(q, "create_build")' PROVE q = p
    BY <1>1, <2>1 DEF At
  <2> QED
    BY <2>1, NewerStep
<1>6. (\A i \in DOMAIN lexicalBuilds : /\ ConfigsOf(lexicalBuilds[i].indexed) = {lexicalBuilds[i].fp}
                                       /\ Current(lexicalBuilds[i]))'
  BY AttributedStep, CurrentStep DEF Current, IsCurrent
<1> QED
  BY <1>2, <1>3, <1>4, <1>5, <1>6 DEF AloneInv

LEMMA QuietInvStep == TypeInv /\ QuietInv /\ [Next]_vars => QuietInv'
<1>1. ASSUME TypeInv, QuietInv, NEW p \in Proc, Step(p) PROVE QuietInv'
  BY <1>1, ClockInvStep, AloneInvStep DEF QuietInv
<1>2. ASSUME QuietInv, UNCHANGED vars PROVE QuietInv'
  BY <1>2 DEF QuietInv, ClockInv, AloneInv, At, Marked, LexicalStep, Current, vars
<1> QED
  BY <1>1, <1>2 DEF Next

LEMMA QuietInvInit == Init => QuietInv
<1>1. SUFFICES ASSUME Init PROVE QuietInv
  OBVIOUS
<1>2. DOMAIN lexicalBuilds = {} /\ clock = 0
  BY <1>1 DEF Init
<1>3. \A p \in Proc : job[p] = NoJob
  BY <1>1 DEF Init
<1>4. ClockInv
  BY <1>2, <1>3 DEF ClockInv, NoJob
<1>5. \A s \in Snap : Marked(s)
  <2>1. \A s \in Snap : rows[s] = NoRows /\ mark[s] = Null
    BY <1>1 DEF Init
  <2>2. NoRows["fallback"] = Null /\ NoRows["structural"] = Null
    BY DEF NoRows, Layout
  <2>3. \A p \in Proc : ~At(p, "mark")
    BY <1>3 DEF At, NoJob
  <2> QED
    BY <2>1, <2>2, <2>3 DEF Marked
<1>6. \A p \in Proc : At(p, "idle") /\ LexicalStep(job[p])
  BY <1>3 DEF At, LexicalStep, NoJob
<1>7. AloneInv
  BY <1>2, <1>5, <1>6 DEF AloneInv, At
<1> QED
  BY <1>4, <1>7 DEF QuietInv

\* A lexical build names the configuration of the chunks that it indexed, when
\* commands neither overlap nor fail.  The mark that a build reads is the
\* configuration of the rows it lists next only if no chunk build is between its
\* two commits and no fallback rows are left of an earlier one; both are
\* conjuncts of AloneInv.
THEOREM BuildsAreAttributed == Spec => []LexicalBuildsAreAttributed
<1>1. TypeInv /\ QuietInv => LexicalBuildsAreAttributed
  BY DEF QuietInv, AloneInv, LexicalBuildsAreAttributed
<1> QED
  BY <1>1, TypeInvInit, TypeInvStep, QuietInvInit, QuietInvStep, PTL DEF Spec

\* The newest lexical build of a snapshot describes the index that queries
\* read, when commands neither overlap nor fail.  A build's created_at is taken
\* from a clock that no earlier row is ahead of, so the build that replaced the
\* index is also the newest row once it is inserted.
THEOREM NewestIsRead == Spec => []NewestBuildIsRead
<1>1. TypeInv /\ QuietInv => NewestBuildIsRead
  BY DEF QuietInv, AloneInv, Current, Replacing, NewestBuildIsRead
<1> QED
  BY <1>1, TypeInvInit, TypeInvStep, QuietInvInit, QuietInvStep, PTL DEF Spec

-----------------------------------------------------------------------------
\* Rankings of chunks, and their best parts.

\* No chunk twice.
IsListing(s) ==
    /\ s \in Seq(Item)
    /\ \A i, k \in 1..Len(s) : s[i] = s[k] => i = k

\* A query answers with chunks of the snapshot, each listed once.
LEMMA RankingsAreListings ==
  ASSUME NEW L \in Rankings
  PROVE  IsListing(L)
<1>1. PICK S \in SUBSET Item : L \in SetToSeqs(S)
  BY DEF Rankings, SetToAllKPermutations
<1>2. L \in [1..Cardinality(S) -> S] /\ \A i, k \in 1..Cardinality(S) : i # k => L[i] # L[k]
  BY <1>1 DEF SetToSeqs
<1>3. IsFiniteSet(S) /\ Cardinality(S) \in Nat
  BY <1>1, QueryAssumption, FS_Subset, FS_CardinalityType
<1>4. L \in Seq(Item) /\ Len(L) = Cardinality(S)
  BY <1>2, <1>3
<1> QED
  BY <1>2, <1>4 DEF IsListing

\* A listing has as many places as chunks, and every chunk has one of them.
LEMMA ListedOnce ==
  ASSUME NEW s, IsListing(s)
  PROVE  /\ Len(s) \in Nat
         /\ ToSet(s) \subseteq Item
         /\ \A i \in 1..Len(s) : s[i] \in ToSet(s)
         /\ \A x \in ToSet(s) : \E i \in 1..Len(s) : s[i] = x
         /\ IsFiniteSet(ToSet(s)) /\ Cardinality(ToSet(s)) = Len(s)
<1>1. s \in [1..Len(s) -> Item] /\ Len(s) \in Nat /\ DOMAIN s = 1..Len(s)
  BY DEF IsListing
<1>2. /\ ToSet(s) \subseteq Item
      /\ \A i \in 1..Len(s) : s[i] \in ToSet(s)
      /\ \A x \in ToSet(s) : \E i \in 1..Len(s) : s[i] = x
  BY <1>1 DEF ToSet
<1>3. s \in Surjection(1..Len(s), ToSet(s)) /\ s \in Injection(1..Len(s), ToSet(s))
  <2>1. s \in [1..Len(s) -> ToSet(s)]
    BY <1>1, <1>2
  <2>2. IsInjective(s)
    BY <1>1 DEF IsInjective, IsListing
  <2>3. s \in Injection(1..Len(s), ToSet(s))
    BY <2>1, <2>2 DEF Injection
  <2> QED
    BY <1>2, <2>1, <2>3 DEF Surjection
<1>4. IsFiniteSet(1..Len(s)) /\ Cardinality(1..Len(s)) = Len(s)
  <2> DEFINE n == Len(s)
  <2>1. n \in Nat
    BY <1>1
  <2> HIDE DEF n
  <2>2. IsFiniteSet(1..n) /\ Cardinality(1..n) = n
    BY <2>1, FS_Interval
  <2> QED
    BY <2>2 DEF n
<1> QED
  BY <1>1, <1>2, <1>3, <1>4, FS_Surjection

\* The best results are the first ones, in the same places.
LEMMA BestPart ==
  ASSUME NEW s, IsListing(s), NEW n \in Nat
  PROVE  /\ IsListing(Best(s, n))
         /\ Len(Best(s, n)) = Smaller(n, Len(s))
         /\ \A i \in 1..Len(Best(s, n)) : i \in 1..Len(s) /\ Best(s, n)[i] = s[i]
         /\ ToSet(Best(s, n)) \subseteq ToSet(s)
<1> DEFINE k == Smaller(n, Len(s))
<1>1. s \in Seq(Item) /\ Len(s) \in Nat /\ k \in Nat /\ k <= Len(s)
  BY DEF IsListing, Smaller
<1>2. \A i \in 1..k : s[i] \in Item
  BY <1>1
<1>3. Best(s, n) = SubSeq(s, 1, k)
  BY DEF Best
<1> HIDE DEF k
<1>4. /\ Best(s, n) \in Seq(Item)
      /\ Len(Best(s, n)) = k
      /\ \A i \in 1..k : Best(s, n)[i] = s[i]
  BY <1>1, <1>2, <1>3, SubSeqProperties
<1>5. IsListing(Best(s, n))
  BY <1>1, <1>4 DEF IsListing
<1>6. \A x \in ToSet(Best(s, n)) : x \in ToSet(s)
  BY <1>1, <1>4, <1>5, ListedOnce
<1> QED
  BY <1>1, <1>4, <1>5, <1>6 DEF k

\* Cutting a listing that is not longer than the limit leaves it alone,
LEMMA BestOfFew ==
  ASSUME NEW s, IsListing(s), NEW n \in Nat, Len(s) <= n
  PROVE  Best(s, n) = s
<1>1. Smaller(n, Len(s)) = Len(s)
  BY DEF Smaller, IsListing
<1> QED
  BY <1>1, SubSeqFull DEF Best, IsListing

\* so that the second cut at the same limit does.
LEMMA BestTwice ==
  ASSUME NEW s, IsListing(s), NEW n \in Nat
  PROVE  Best(Best(s, n), n) = Best(s, n)
<1>1. IsListing(Best(s, n)) /\ Len(Best(s, n)) <= n
  BY BestPart DEF Smaller, IsListing
<1> QED
  BY <1>1, BestOfFew

\* The rank of a chunk is its place in the list.
LEMMA RankIsPlace ==
  ASSUME NEW s, IsListing(s)
  PROVE  /\ \A i \in 1..Len(s) : RankIn(s, s[i]) = i
         /\ \A x \in ToSet(s) : RankIn(s, x) \in 1..Len(s) /\ s[RankIn(s, x)] = x
         /\ \A x : x \notin ToSet(s) => RankIn(s, x) = Unranked
<1>1. DOMAIN s = 1..Len(s)
  BY DEF IsListing
<1>2. ASSUME NEW x \in ToSet(s)
      PROVE  RankIn(s, x) \in 1..Len(s) /\ s[RankIn(s, x)] = x
  <2>1. RankIn(s, x) = CHOOSE i \in 1..Len(s) : s[i] = x
    BY <1>1, <1>2 DEF RankIn
  <2>2. \E i \in 1..Len(s) : s[i] = x
    BY <1>2, ListedOnce
  <2> QED
    BY <2>1, <2>2
<1>3. ASSUME NEW i \in 1..Len(s)
      PROVE  RankIn(s, s[i]) = i
  <2>1. s[i] \in ToSet(s)
    BY ListedOnce
  <2> QED
    BY <1>2, <2>1 DEF IsListing
<1>4. \A x : x \notin ToSet(s) => RankIn(s, x) = Unranked
  BY DEF RankIn
<1> QED
  BY <1>2, <1>3, <1>4

\* Ranks are denominators, also of a chunk that is not in the list.
LEMMA RanksArePositive ==
  ASSUME NEW s, IsListing(s), NEW x
  PROVE  RankIn(s, x) \in Nat \ {0}
<1>1. CASE x \in ToSet(s)
  BY <1>1, RankIsPlace, ListedOnce
<1>2. CASE x \notin ToSet(s)
  BY <1>2, RankIsPlace DEF Unranked
<1> QED
  BY <1>1, <1>2

-----------------------------------------------------------------------------
\* The order of fusion.

\* Products of natural numbers keep their order.
LEMMA LargerProduct ==
  ASSUME NEW a \in Nat, NEW b \in Nat, NEW c \in Nat
  PROVE  /\ a <= b => a * c <= b * c
         /\ a < b /\ c > 0 => a * c < b * c
         /\ a * c \in Nat
<1>1. PICK d \in Int : b = a + d
  <2>1. b = a + (b - a)
    OBVIOUS
  <2> QED
    BY <2>1
<1>2. b * c = a * c + d * c
  BY <1>1
<1>3. d >= 0 => d * c >= 0
  OBVIOUS
<1>4. d > 0 /\ c > 0 => d * c > 0
  OBVIOUS
<1>5. a * c \in Nat
  OBVIOUS
<1> QED
  BY <1>1, <1>2, <1>3, <1>4, <1>5

\* A fraction, not negative.
IsFraction(s) == s.num \in Nat /\ s.den \in Nat /\ s.den > 0

\* Comparing the cross products orders fractions, as the quotients would be.
LEMMA FractionsAreOrdered ==
  ASSUME NEW s, NEW u, NEW v, IsFraction(s), IsFraction(u), IsFraction(v)
  PROVE  /\ ~Exceeds(s, s)
         /\ Exceeds(s, u) => ~Exceeds(u, s)
         /\ Exceeds(s, u) /\ ~Exceeds(v, u) => Exceeds(s, v)
         /\ ~Exceeds(u, s) /\ Exceeds(u, v) => Exceeds(s, v)
         /\ ~Exceeds(u, s) /\ ~Exceeds(v, u) => ~Exceeds(v, s)
<1> DEFINE a == s.num  p == s.den
           b == u.num  q == u.den
           c == v.num  r == v.den
<1>1. a \in Nat /\ b \in Nat /\ c \in Nat /\ p \in Nat /\ q \in Nat /\ r \in Nat /\ p > 0 /\ q > 0 /\ r > 0
  BY DEF IsFraction
<1>2. /\ Exceeds(s, s) <=> a * p > a * p
      /\ Exceeds(s, u) <=> a * q > b * p
      /\ Exceeds(u, s) <=> b * p > a * q
      /\ Exceeds(s, v) <=> a * r > c * p
      /\ Exceeds(v, s) <=> c * p > a * r
      /\ Exceeds(u, v) <=> b * r > c * q
      /\ Exceeds(v, u) <=> c * q > b * r
  BY DEF Exceeds
<1> HIDE DEF a, b, c, p, q, r
<1>3. /\ a * p \in Nat /\ a * q \in Nat /\ b * p \in Nat /\ a * r \in Nat /\ c * p \in Nat
      /\ b * r \in Nat /\ c * q \in Nat
  BY <1>1, LargerProduct
<1>4. /\ (a * q) * r = (a * r) * q
      /\ (b * p) * r = (b * r) * p
      /\ (c * q) * p = (c * p) * q
  BY <1>1
<1>5. ASSUME a * q > b * p, b * r >= c * q PROVE a * r > c * p
  <2>1. (a * q) * r > (b * p) * r
    BY <1>1, <1>3, <1>5, LargerProduct
  <2>2. (b * r) * p >= (c * q) * p
    BY <1>1, <1>3, <1>5, LargerProduct
  <2>3. (a * r) * q > (c * p) * q
    BY <1>1, <1>3, <1>4, <2>1, <2>2
  <2>4. a * r <= c * p => (a * r) * q <= (c * p) * q
    BY <1>1, <1>3, LargerProduct
  <2> QED
    BY <1>1, <1>3, <2>3, <2>4
<1>6. ASSUME a * q >= b * p, b * r > c * q PROVE a * r > c * p
  <2>1. (a * q) * r >= (b * p) * r
    BY <1>1, <1>3, <1>6, LargerProduct
  <2>2. (b * r) * p > (c * q) * p
    BY <1>1, <1>3, <1>6, LargerProduct
  <2>3. (a * r) * q > (c * p) * q
    BY <1>1, <1>3, <1>4, <2>1, <2>2
  <2>4. a * r <= c * p => (a * r) * q <= (c * p) * q
    BY <1>1, <1>3, LargerProduct
  <2> QED
    BY <1>1, <1>3, <2>3, <2>4
<1>7. ASSUME a * q >= b * p, b * r >= c * q PROVE a * r >= c * p
  <2>1. (a * q) * r >= (b * p) * r
    BY <1>1, <1>3, <1>7, LargerProduct
  <2>2. (b * r) * p >= (c * q) * p
    BY <1>1, <1>3, <1>7, LargerProduct
  <2>3. (a * r) * q >= (c * p) * q
    BY <1>1, <1>3, <1>4, <2>1, <2>2
  <2>4. a * r < c * p => (a * r) * q < (c * p) * q
    BY <1>1, <1>3, LargerProduct
  <2> QED
    BY <1>1, <1>3, <2>3, <2>4
<1> QED
  BY <1>2, <1>3, <1>5, <1>6, <1>7

\* A rank, or that of none.
LEMMA ScoresAreFractions ==
  ASSUME NEW a \in Nat \ {0}, NEW b \in Nat \ {0}
  PROVE  IsFraction(Score(a, b)) /\ Score(a, b) = Score(b, a)
<1> DEFINE P == Share(a)
           Q == Share(b)
<1>1. P.num \in Nat /\ P.den \in Nat /\ P.den > 0 /\ Q.num \in Nat /\ Q.den \in Nat /\ Q.den > 0
  BY QueryAssumption DEF Share
<1>2. Score(a, b) = [num |-> P.num * Q.den + Q.num * P.den, den |-> P.den * Q.den]
  BY DEF Score
<1>3. Score(b, a) = [num |-> Q.num * P.den + P.num * Q.den, den |-> Q.den * P.den]
  BY DEF Score
<1> HIDE DEF P, Q
<1>4. /\ P.num * Q.den \in Nat /\ Q.num * P.den \in Nat /\ P.den * Q.den \in Nat
      /\ P.den * Q.den > 0 /\ P.den * Q.den = Q.den * P.den
  <2>1. /\ P.num * Q.den \in Nat /\ Q.num * P.den \in Nat /\ P.den * Q.den \in Nat
    BY <1>1, LargerProduct
  <2>2. P.den * Q.den > 0 * Q.den
    BY <1>1, LargerProduct
  <2>3. P.den * Q.den = Q.den * P.den
    BY <1>1
  <2> QED
    BY <1>1, <2>1, <2>2, <2>3
<1> QED
  BY <1>2, <1>3, <1>4 DEF IsFraction

\* What the order of fusion compares.
IsCandidate(e) == IsFraction(e.score) /\ e.best \in Nat /\ e.item \in Int

\* The sort key of the fusion orders the candidates, no two of them alike.
LEMMA PrecedesIsOrder ==
  ASSUME NEW e, NEW f, NEW j, IsCandidate(e), IsCandidate(f), IsCandidate(j)
  PROVE  /\ ~Precedes(e, e)
         /\ Precedes(e, f) /\ Precedes(f, j) => Precedes(e, j)
         /\ e.item # f.item => Precedes(e, f) \/ Precedes(f, e)
<1>1. /\ IsFraction(e.score) /\ IsFraction(f.score) /\ IsFraction(j.score)
      /\ e.best \in Nat /\ f.best \in Nat /\ j.best \in Nat
      /\ e.item \in Int /\ f.item \in Int /\ j.item \in Int
  BY DEF IsCandidate
<1>2. /\ ~Exceeds(e.score, e.score)
      /\ Exceeds(e.score, f.score) => ~Exceeds(f.score, e.score)
      /\ Exceeds(f.score, j.score) => ~Exceeds(j.score, f.score)
      /\ Exceeds(e.score, f.score) /\ ~Exceeds(j.score, f.score) => Exceeds(e.score, j.score)
      /\ ~Exceeds(f.score, e.score) /\ Exceeds(f.score, j.score) => Exceeds(e.score, j.score)
      /\ ~Exceeds(f.score, e.score) /\ ~Exceeds(j.score, f.score) => ~Exceeds(j.score, e.score)
  BY <1>1, FractionsAreOrdered
<1>3. ~Precedes(e, e)
  BY <1>1, <1>2 DEF Precedes
<1>4. ASSUME Precedes(e, f), Precedes(f, j) PROVE Precedes(e, j)
  <2>1. CASE Exceeds(e.score, f.score)
    BY <1>2, <1>4, <2>1 DEF Precedes
  <2>2. CASE Exceeds(f.score, j.score)
    BY <1>2, <1>4, <2>2 DEF Precedes
  <2>3. CASE ~Exceeds(e.score, f.score) /\ ~Exceeds(f.score, j.score)
    BY <1>1, <1>2, <1>4, <2>3 DEF Precedes
  <2> QED
    BY <2>1, <2>2, <2>3
<1>5. e.item # f.item => Precedes(e, f) \/ Precedes(f, e)
  BY <1>1 DEF Precedes
<1> QED
  BY <1>3, <1>4, <1>5

\* Fusion arranges all chunks of both lists in one order, each once.
Fusing(l, m) == {Candidate(l, m, x) : x \in ToSet(l) \cup ToSet(m)}
InOrder(l, m) == {pair \in Fusing(l, m) \X Fusing(l, m) : Precedes(pair[1], pair[2])}
Whole(l, m) ==
    [i \in DOMAIN Sorted(Fusing(l, m), InOrder(l, m)) |-> Sorted(Fusing(l, m), InOrder(l, m))[i].item]

\* Every chunk that either mode found makes such a candidate.
LEMMA CandidatesAreComparable ==
  ASSUME NEW l, NEW m, IsListing(l), IsListing(m), NEW x \in Item
  PROVE  IsCandidate(Candidate(l, m, x)) /\ Candidate(l, m, x).item = x
<1>2. RankIn(l, x) \in Nat \ {0} /\ RankIn(m, x) \in Nat \ {0}
  BY RanksArePositive
<1>3. IsFraction(Score(RankIn(l, x), RankIn(m, x)))
  BY <1>2, ScoresAreFractions
<1>4. Smaller(RankIn(l, x), RankIn(m, x)) \in Nat
  BY <1>2 DEF Smaller
<1>5. x \in Int
  BY QueryAssumption
<1> QED
  BY <1>3, <1>4, <1>5 DEF IsCandidate, Candidate

\* The fused ranking lists what either mode found, each before those it precedes.
LEMMA WholeInOrder ==
  ASSUME NEW l, NEW m, IsListing(l), IsListing(m)
  PROVE  /\ IsListing(Whole(l, m))
         /\ ToSet(Whole(l, m)) = ToSet(l) \cup ToSet(m)
         /\ \A i, k \in 1..Len(Whole(l, m)) :
              i < k => Precedes(Candidate(l, m, Whole(l, m)[i]), Candidate(l, m, Whole(l, m)[k]))
<1> DEFINE S == ToSet(l) \cup ToSet(m)
           F == Fusing(l, m)
           R == InOrder(l, m)
           s == Sorted(F, R)
           w == Whole(l, m)
           c(x) == Candidate(l, m, x)
<1>1. S \subseteq Item /\ IsFiniteSet(S)
  BY ListedOnce, FS_Union
<1>2. \A x \in S : IsCandidate(c(x)) /\ c(x).item = x
  BY <1>1, CandidatesAreComparable
<1>3. F = {c(x) : x \in S}
  BY DEF Fusing
<1>4. IsFiniteSet(F) /\ Cardinality(F) = Cardinality(S)
  <2> DEFINE of == [x \in S |-> c(x)]
  <2>1. of \in [S -> F] /\ \A x \in S : of[x] = c(x)
    BY <1>3
  <2> HIDE DEF of, S, F, c
  <2>2. of \in Surjection(S, F)
    BY <1>3, <2>1 DEF Surjection
  <2>3. \A x, y \in S : of[x] = of[y] => x = y
    BY <1>2, <2>1
  <2>4. of \in Injection(S, F)
    BY <2>1, <2>3 DEF Injection, IsInjective
  <2> QED
    BY <1>1, <2>2, <2>4, FS_Surjection
<1>5. \A e \in F : IsCandidate(e) /\ e.item \in S /\ e = c(e.item)
  <2> HIDE DEF c, S, F
  <2> QED
    BY <1>2, <1>3
<1>6. \A e, f \in F : <<e, f>> \in R <=> Precedes(e, f)
  BY DEF InOrder
<1>7. /\ s \in [1..Cardinality(F) -> F]
      /\ \A e \in F : \E i \in 1..Cardinality(F) : s[i] = e
      /\ \A i, k \in 1..Cardinality(F) : i < k => <<s[i], s[k]>> \in R
  <2> HIDE DEF c, S, F, R
  <2>1. \A e \in F : <<e, e>> \notin R
    BY <1>5, <1>6, PrecedesIsOrder
  <2>2. \A e, f, j \in F : <<e, f>> \in R /\ <<f, j>> \in R => <<e, j>> \in R
    BY <1>5, <1>6, PrecedesIsOrder
  <2>3. \A e, f \in F : e # f => <<e, f>> \in R \/ <<f, e>> \in R
    BY <1>5, <1>6, PrecedesIsOrder
  <2> QED
    BY <1>4, <2>1, <2>2, <2>3, SortedInOrder
<1>8. Cardinality(S) \in Nat
  BY <1>1, FS_CardinalityType
<1>9. w \in [1..Cardinality(S) -> S] /\ \A i \in 1..Cardinality(S) : w[i] = s[i].item
  <2>1. w = [i \in 1..Cardinality(S) |-> s[i].item]
    <3>1. DOMAIN s = 1..Cardinality(S)
      BY <1>4, <1>7
    <3> QED
      BY <3>1 DEF Whole
  <2> HIDE DEF c, S, F, R, s, w
  <2> QED
    BY <1>4, <1>5, <1>7, <2>1
<1> HIDE DEF c, S, F, R, s, w
<1>10. \A i, k \in 1..Cardinality(S) : i < k => Precedes(c(w[i]), c(w[k]))
  <2>1. \A i \in 1..Cardinality(S) : s[i] \in F /\ s[i] = c(w[i])
    BY <1>4, <1>5, <1>7, <1>9
  <2>2. \A i, k \in 1..Cardinality(S) : i < k => Precedes(s[i], s[k])
    BY <1>4, <1>6, <1>7, <2>1
  <2> QED
    BY <2>1, <2>2
<1>11. \A i, k \in 1..Cardinality(S) : w[i] = w[k] => i = k
  <2>1. \A x \in S : ~Precedes(c(x), c(x))
    BY <1>2, PrecedesIsOrder
  <2> SUFFICES ASSUME NEW i \in 1..Cardinality(S), NEW k \in 1..Cardinality(S), w[i] = w[k], i # k
               PROVE  FALSE
    OBVIOUS
  <2>2. i < k \/ k < i
    BY <1>8
  <2> QED
    BY <1>9, <1>10, <2>1, <2>2
<1>12. w \in Seq(Item) /\ Len(w) = Cardinality(S) /\ DOMAIN w = 1..Cardinality(S)
  BY <1>1, <1>8, <1>9
<1>13. ToSet(w) = S
  <2>1. \A x \in S : \E i \in 1..Cardinality(S) : w[i] = x
    BY <1>2, <1>3, <1>4, <1>7, <1>9
  <2> QED
    BY <1>9, <1>12, <2>1 DEF ToSet
<1>14. IsListing(w)
  BY <1>11, <1>12 DEF IsListing
<1> QED
  BY <1>10, <1>12, <1>13, <1>14 DEF S, w, c

\* Fusing both windows loses nothing when twice the window is kept.
LEMMA FusedWhole ==
  ASSUME NEW L, NEW M, IsListing(L), IsListing(M), NEW n \in Nat
  PROVE  /\ Fuse(L, M, 2 * n, n) = Whole(Best(L, n), Best(M, n))
         /\ Len(Whole(Best(L, n), Best(M, n))) =
              Cardinality(ToSet(Best(L, n)) \cup ToSet(Best(M, n)))
         /\ Len(Whole(Best(L, n), Best(M, n))) <= 2 * n
<1> DEFINE l == Best(L, n)
           m == Best(M, n)
           w == Whole(l, m)
<1>1. IsListing(l) /\ IsListing(m) /\ Len(l) <= n /\ Len(m) <= n
  BY BestPart DEF Smaller, IsListing
<1> HIDE DEF l, m
<1>2. IsListing(w) /\ ToSet(w) = ToSet(l) \cup ToSet(m)
  BY <1>1, WholeInOrder
<1> HIDE DEF w
<1>3. Len(w) = Cardinality(ToSet(l) \cup ToSet(m)) /\ Len(w) \in Nat
  BY <1>2, ListedOnce
<1>4. Len(w) <= 2 * n
  <2>1. /\ IsFiniteSet(ToSet(l)) /\ Cardinality(ToSet(l)) = Len(l) /\ Len(l) \in Nat
        /\ IsFiniteSet(ToSet(m)) /\ Cardinality(ToSet(m)) = Len(m) /\ Len(m) \in Nat
    BY <1>1, ListedOnce
  <2>2. Cardinality(ToSet(l) \cup ToSet(m)) = Len(l) + Len(m) - Cardinality(ToSet(l) \cap ToSet(m))
    BY <2>1, FS_Union
  <2>3. Cardinality(ToSet(l) \cap ToSet(m)) \in Nat
    BY <2>1, FS_Intersection, FS_CardinalityType
  <2> QED
    BY <1>1, <1>3, <2>1, <2>2, <2>3
<1>5. Fuse(L, M, 2 * n, n) = Best(w, 2 * n)
  BY DEF Fuse, Whole, Fusing, InOrder, w, l, m
<1>6. Best(w, 2 * n) = w
  BY <1>2, <1>4, BestOfFew
<1> QED
  BY <1>3, <1>4, <1>5, <1>6 DEF w, l, m

\* Which list is called lexical makes no difference.
LEMMA FusionIsSymmetric ==
  ASSUME NEW l, NEW m, IsListing(l), IsListing(m)
  PROVE  Whole(l, m) = Whole(m, l)
<1> DEFINE S == ToSet(l) \cup ToSet(m)
<1>1. ASSUME NEW x \in S PROVE Candidate(l, m, x) = Candidate(m, l, x)
  <2>2. RankIn(l, x) \in Nat \ {0} /\ RankIn(m, x) \in Nat \ {0}
    BY RanksArePositive
  <2>3. Score(RankIn(l, x), RankIn(m, x)) = Score(RankIn(m, x), RankIn(l, x))
    BY <2>2, ScoresAreFractions
  <2>4. Smaller(RankIn(l, x), RankIn(m, x)) = Smaller(RankIn(m, x), RankIn(l, x))
    BY <2>2 DEF Smaller
  <2> QED
    BY <2>3, <2>4 DEF Candidate
<1>2. S = ToSet(m) \cup ToSet(l)
  OBVIOUS
<1>3. Fusing(l, m) = Fusing(m, l)
  <2>1. Fusing(l, m) = {Candidate(l, m, x) : x \in S} /\ Fusing(m, l) = {Candidate(m, l, x) : x \in S}
    BY DEF Fusing
  <2> HIDE DEF S
  <2> QED
    BY <1>1, <2>1
<1>4. InOrder(l, m) = InOrder(m, l)
  BY <1>3 DEF InOrder
<1> QED
  BY <1>3, <1>4 DEF Whole

\* What comes first in the order has the lower rank.
LEMMA FirstRanksLower ==
  ASSUME NEW l, NEW m, IsListing(l), IsListing(m),
         NEW x \in ToSet(l) \cup ToSet(m), NEW y \in ToSet(l) \cup ToSet(m),
         Precedes(Candidate(l, m, x), Candidate(l, m, y))
  PROVE  RankIn(Whole(l, m), x) < RankIn(Whole(l, m), y)
<1> DEFINE w == Whole(l, m)
           i == RankIn(w, x)
           k == RankIn(w, y)
<1>1. /\ IsListing(w) /\ ToSet(w) = ToSet(l) \cup ToSet(m)
      /\ \A a, b \in 1..Len(w) : a < b => Precedes(Candidate(l, m, w[a]), Candidate(l, m, w[b]))
  BY WholeInOrder
<1>2. i \in 1..Len(w) /\ k \in 1..Len(w) /\ w[i] = x /\ w[k] = y /\ Len(w) \in Nat
  <2> HIDE DEF w
  <2> QED
    BY <1>1, RankIsPlace, ListedOnce
<1>3. x \in Item /\ y \in Item
  BY ListedOnce
<1>4. IsCandidate(Candidate(l, m, x)) /\ IsCandidate(Candidate(l, m, y))
  BY <1>3, CandidatesAreComparable
<1>5. /\ ~Precedes(Candidate(l, m, x), Candidate(l, m, x))
      /\ ~Precedes(Candidate(l, m, y), Candidate(l, m, x))
  BY <1>4, PrecedesIsOrder
<1> HIDE DEF w, i, k
<1>6. i # k
  BY <1>2, <1>5
<1>7. ~(k < i)
  BY <1>1, <1>2, <1>5
<1>8. i < k
  BY <1>2, <1>6, <1>7
<1> QED
  BY <1>8 DEF i, k, w

\* Both ranks lower: the greater score.
LEMMA LowerRanksScoreMore ==
  ASSUME NEW P \in Nat, NEW Q \in Nat, NEW R \in Nat, NEW T \in Nat,
         0 < P, 0 < Q, P < R, Q < T
  PROVE  (Q + P) * (R * T) > (T + R) * (P * Q)
<1>1. (Q + P) * (R * T) = (Q * T) * R + (P * R) * T
  OBVIOUS
<1>2. (T + R) * (P * Q) = (Q * T) * P + (P * R) * Q
  OBVIOUS
<1>3. Q * T \in Nat /\ P * R \in Nat /\ Q * T > 0 /\ P * R > 0
  <2>1. Q * T > 0 * T /\ P * R > 0 * R
    BY LargerProduct
  <2>2. Q * T \in Nat /\ P * R \in Nat
    BY LargerProduct
  <2> QED
    BY <2>1, <2>2
<1> DEFINE a == Q * T
           b == P * R
<1> HIDE DEF a, b
<1>4. R * a > P * a /\ T * b > Q * b
  <2>1. a \in Nat /\ b \in Nat /\ a > 0 /\ b > 0
    BY <1>3 DEF a, b
  <2> QED
    BY <2>1, LargerProduct
<1>5. (Q * T) * R + (P * R) * T > (Q * T) * P + (P * R) * Q
  <2>1. a \in Nat /\ b \in Nat
    BY <1>3 DEF a, b
  <2>2. a * R + b * T > a * P + b * Q
    BY <1>4, <2>1
  <2> QED
    BY <2>2 DEF a, b
<1> QED
  BY <1>1, <1>2, <1>5

\* Two ranks within a short window score more than one, whatever it is.
LEMMA TwoScoreMoreThanOne ==
  ASSUME NEW K \in Nat, NEW P \in Nat, NEW Q \in Nat, NEW T \in Nat,
         0 < P, 0 < Q, P <= 2 * K + 1, Q <= 2 * K + 1, K + 1 <= T
  PROVE  (Q + P) * T > P * Q
<1>1. Q * P <= (2 * K + 1) * P /\ P * Q <= (2 * K + 1) * Q
  BY LargerProduct
<1>2. (K + 1) * (Q + P) <= T * (Q + P)
  BY LargerProduct
<1>3. (K + 1) * (Q + P) = (K * Q + K * P) + (Q + P)
  OBVIOUS
<1>4. (2 * K + 1) * P = 2 * (K * P) + P /\ (2 * K + 1) * Q = 2 * (K * Q) + Q
  OBVIOUS
<1>5. Q * P = P * Q /\ T * (Q + P) = (Q + P) * T
  OBVIOUS
<1>6. P * Q \in Nat /\ K * Q \in Nat /\ K * P \in Nat /\ (Q + P) * T \in Nat
  OBVIOUS
<1> DEFINE pq == P * Q  kq == K * Q  kp == K * P  all == (Q + P) * T
<1>7. pq \in Nat /\ kq \in Nat /\ kp \in Nat /\ all \in Nat
  BY <1>6
<1>8. pq <= 2 * kp + P /\ pq <= 2 * kq + Q /\ (kq + kp) + (Q + P) <= all
  BY <1>1, <1>2, <1>3, <1>4, <1>5
<1> HIDE DEF pq, kq, kp, all
<1>9. all > pq
  BY <1>7, <1>8
<1> QED
  BY <1>9 DEF all, pq

\* So do two ranks of which one is as good as the single one, in any window.
LEMMA TwoScoreMoreThanNoBetter ==
  ASSUME NEW P \in Nat, NEW Q \in Nat, NEW T \in Nat,
         0 < P, 0 < Q, 0 < T, P <= T \/ Q <= T
  PROVE  (Q + P) * T > P * Q
<1>1. (Q + P) * T = Q * T + P * T
  OBVIOUS
<1>2. P * T > 0 * T /\ Q * T > 0 * T
  BY LargerProduct
<1>3. P <= T => P * Q <= T * Q
  BY LargerProduct
<1>4. Q <= T => Q * P <= T * P
  BY LargerProduct
<1>5. T * Q = Q * T /\ T * P = P * T /\ Q * P = P * Q /\ 0 * T = 0
  OBVIOUS
<1>6. P * Q \in Nat /\ Q * T \in Nat /\ P * T \in Nat
  BY LargerProduct
<1> DEFINE pq == P * Q  qt == Q * T  pt == P * T
<1>7. /\ pq \in Nat /\ qt \in Nat /\ pt \in Nat /\ pt > 0 /\ qt > 0
      /\ pq <= qt \/ pq <= pt
  BY <1>2, <1>3, <1>4, <1>5, <1>6
<1> HIDE DEF pq, qt, pt
<1>8. qt + pt > pq
  BY <1>7
<1> QED
  BY <1>1, <1>8 DEF pq, qt, pt

\* Fusion prefers neither list and contradicts no two lists that agree: for any
\* limit, window and rank constant, FusesFairly holds of any two rankings.
LEMMA AnyFusionIsFair ==
  ASSUME NEW L \in Rankings, NEW M \in Rankings, NEW limit \in Wanted
  PROVE  FusesFairly(L, M, limit)
<1> DEFINE n == Window(limit)
           K == RankConstant
           l == Best(L, n)
           m == Best(M, n)
           both == ToSet(l) \cap ToSet(m)
           fused == Whole(l, m)
<1>1. n \in Nat /\ 2 * n < Unranked /\ K \in Nat /\ K > 0
  <2>1. limit \in Nat /\ CandidateWindow \in Nat /\ K \in Nat /\ K > 0
    BY QueryAssumption
  <2>2. 2 * limit < Unranked /\ 2 * CandidateWindow < Unranked
    BY QueryAssumption
  <2>3. n = limit \/ n = CandidateWindow
    BY DEF Window, Larger
  <2> QED
    BY <2>1, <2>2, <2>3
<1>2. IsListing(L) /\ IsListing(M)
  BY RankingsAreListings
<1>3. IsListing(l) /\ IsListing(m) /\ Len(l) <= n /\ Len(m) <= n
  <2>1. Len(l) = Smaller(n, Len(L)) /\ Len(m) = Smaller(n, Len(M)) /\ IsListing(l) /\ IsListing(m)
    BY <1>1, <1>2, BestPart
  <2> QED
    BY <1>1, <1>2, <2>1 DEF Smaller, IsListing
<1>4. Fuse(L, M, 2 * n, n) = fused
  BY <1>1, <1>2, FusedWhole
<1>5. Fuse(M, L, 2 * n, n) = fused
  <2>1. Fuse(M, L, 2 * n, n) = Whole(m, l)
    BY <1>1, <1>2, FusedWhole
  <2> QED
    BY <1>3, <2>1, FusionIsSymmetric
<1> HIDE DEF n, l, m
<1>6. /\ \A x \in ToSet(l) : RankIn(l, x) \in 1..n
      /\ \A x \in ToSet(m) : RankIn(m, x) \in 1..n
      /\ \A x : x \notin ToSet(l) => RankIn(l, x) = Unranked
      /\ \A x : x \notin ToSet(m) => RankIn(m, x) = Unranked
  <2>1. Len(l) \in Nat /\ Len(m) \in Nat
    BY <1>3, ListedOnce
  <2>2. /\ \A x \in ToSet(l) : RankIn(l, x) \in 1..Len(l)
        /\ \A x \in ToSet(m) : RankIn(m, x) \in 1..Len(m)
        /\ \A x : x \notin ToSet(l) => RankIn(l, x) = Unranked
        /\ \A x : x \notin ToSet(m) => RankIn(m, x) = Unranked
    BY <1>3, RankIsPlace
  <2> QED
    BY <1>1, <1>3, <2>1, <2>2
<1>7. /\ Share(Unranked) = [num |-> 0, den |-> 1]
      /\ \A i \in 1..n : Share(i) = [num |-> 1, den |-> K + i]
  BY <1>1 DEF Share, Unranked
<1>8. \A i, k \in 1..n : Score(i, k) = [num |-> (K + k) + (K + i), den |-> (K + i) * (K + k)]
  BY <1>1, <1>7 DEF Score
<1>9. \A i \in 1..n : /\ Score(i, Unranked) = [num |-> 1, den |-> K + i]
                     /\ Score(Unranked, i) = [num |-> 1, den |-> K + i]
  <2> SUFFICES ASSUME NEW i \in 1..n
               PROVE  /\ Score(i, Unranked) = [num |-> 1, den |-> K + i]
                      /\ Score(Unranked, i) = [num |-> 1, den |-> K + i]
    OBVIOUS
  <2>1. Score(i, Unranked) = [num |-> 1 * 1 + 0 * (K + i), den |-> (K + i) * 1]
    BY <1>7 DEF Score
  <2>2. Score(Unranked, i) = [num |-> 0 * (K + i) + 1 * 1, den |-> 1 * (K + i)]
    BY <1>7 DEF Score
  <2>3. /\ 1 * 1 + 0 * (K + i) = 1 /\ (K + i) * 1 = K + i
        /\ 0 * (K + i) + 1 * 1 = 1 /\ 1 * (K + i) = K + i
    BY <1>1
  <2> QED
    BY <2>1, <2>2, <2>3
<1>10. ASSUME NEW x \in both, NEW y \in both,
              RankIn(l, x) < RankIn(l, y), RankIn(m, x) < RankIn(m, y)
       PROVE  RankIn(fused, x) < RankIn(fused, y)
  <2> DEFINE P == K + RankIn(l, x)
             Q == K + RankIn(m, x)
             R == K + RankIn(l, y)
             T == K + RankIn(m, y)
  <2>1. /\ RankIn(l, x) \in 1..n /\ RankIn(m, x) \in 1..n
        /\ RankIn(l, y) \in 1..n /\ RankIn(m, y) \in 1..n
    BY <1>6
  <2>2. /\ P \in Nat /\ Q \in Nat /\ R \in Nat /\ T \in Nat
        /\ 0 < P /\ 0 < Q /\ P < R /\ Q < T
    BY <1>1, <1>10, <2>1
  <2>3. /\ Candidate(l, m, x).score = [num |-> Q + P, den |-> P * Q]
        /\ Candidate(l, m, y).score = [num |-> T + R, den |-> R * T]
    BY <1>8, <2>1 DEF Candidate
  <2> HIDE DEF P, Q, R, T
  <2>4. (Q + P) * (R * T) > (T + R) * (P * Q)
    BY <2>2, LowerRanksScoreMore
  <2>5. Precedes(Candidate(l, m, x), Candidate(l, m, y))
    BY <2>3, <2>4 DEF Precedes, Exceeds
  <2> QED
    BY <1>3, <2>5, FirstRanksLower
<1>11. ASSUME NEW x \in both, NEW y \in ToSet(fused) \ both,
              n <= K + 1 \/ Smaller(RankIn(l, x), RankIn(m, x)) <= Smaller(RankIn(l, y), RankIn(m, y))
       PROVE  RankIn(fused, x) < RankIn(fused, y)
  <2> DEFINE P == K + RankIn(l, x)
             Q == K + RankIn(m, x)
  <2>1. y \in ToSet(l) \cup ToSet(m)
    BY <1>3, WholeInOrder
  <2>2. \E i \in 1..n : /\ Candidate(l, m, y).score = [num |-> 1, den |-> K + i]
                        /\ Smaller(RankIn(l, y), RankIn(m, y)) = i
    <3>1. CASE y \in ToSet(l) /\ y \notin ToSet(m)
      <4>1. RankIn(l, y) \in 1..n /\ RankIn(m, y) = Unranked
        BY <1>6, <3>1
      <4>2. Smaller(RankIn(l, y), RankIn(m, y)) \in 1..n
        BY <1>1, <4>1 DEF Smaller, Unranked
      <4> QED
        BY <1>1, <1>9, <4>1, <4>2 DEF Candidate, Smaller, Unranked
    <3>2. CASE y \notin ToSet(l) /\ y \in ToSet(m)
      <4>1. RankIn(m, y) \in 1..n /\ RankIn(l, y) = Unranked
        BY <1>6, <3>2
      <4>2. Smaller(RankIn(l, y), RankIn(m, y)) \in 1..n
        BY <1>1, <4>1 DEF Smaller, Unranked
      <4> QED
        BY <1>1, <1>9, <4>1, <4>2 DEF Candidate, Smaller, Unranked
    <3> QED
      BY <1>11, <2>1, <3>1, <3>2
  <2>3. PICK i \in 1..n : /\ Candidate(l, m, y).score = [num |-> 1, den |-> K + i]
                           /\ Smaller(RankIn(l, y), RankIn(m, y)) = i
    BY <2>2
  <2>4. RankIn(l, x) \in 1..n /\ RankIn(m, x) \in 1..n
    BY <1>6
  <2> DEFINE T == K + i
  <2>5. /\ P \in Nat /\ Q \in Nat /\ T \in Nat /\ 0 < P /\ 0 < Q /\ 0 < T /\ K + 1 <= T
        /\ n <= K + 1 => P <= 2 * K + 1 /\ Q <= 2 * K + 1
    BY <1>1, <2>4
  <2>6. n <= K + 1 \/ P <= T \/ Q <= T
    BY <1>1, <1>11, <2>3, <2>4 DEF Smaller
  <2>7. Candidate(l, m, x).score = [num |-> Q + P, den |-> P * Q]
    BY <1>8, <2>4 DEF Candidate
  <2>8. Candidate(l, m, y).score = [num |-> 1, den |-> T]
    BY <2>3
  <2> HIDE DEF P, Q, T
  <2>9. (Q + P) * T > P * Q
    BY <1>1, <2>5, <2>6, TwoScoreMoreThanOne, TwoScoreMoreThanNoBetter
  <2>10. P * Q \in Nat /\ 1 * (P * Q) = P * Q
    BY <2>5
  <2>11. Precedes(Candidate(l, m, x), Candidate(l, m, y))
    BY <2>7, <2>8, <2>9, <2>10 DEF Precedes, Exceeds
  <2> QED
    BY <1>3, <2>1, <2>11, FirstRanksLower
<1> QED
  BY <1>4, <1>5, <1>10, <1>11 DEF FusesFairly, n, l, m, both

\* No two answers, limit, rank constant and window are an exception.
LEMMA NoneUnfair == Unfair = {}
  BY AnyFusionIsFair DEF Unfair

-----------------------------------------------------------------------------
\* The counts of a package.

\* A window holds what is wanted, and is far from the rank of the unranked.
LEMMA WindowsAreWide ==
  ASSUME NEW limit \in Wanted
  PROVE  /\ limit \in Nat /\ limit > 0
         /\ Window(limit) \in Nat /\ limit <= Window(limit) /\ 2 * Window(limit) < Unranked
<1>1. limit \in Nat /\ limit > 0 /\ CandidateWindow \in Nat
  BY QueryAssumption
<1>2. 2 * limit < Unranked /\ 2 * CandidateWindow < Unranked
  BY QueryAssumption
<1> QED
  BY <1>1, <1>2 DEF Window, Larger

\* The results are cut, the total is kept, and a cut is never taken back.
LEMMA LimitedFields ==
  ASSUME NEW r, NEW n, NEW b, NEW limit
  PROVE  /\ Limited([results |-> r, total |-> n, truncated |-> b], limit).results = Best(r, limit)
         /\ Limited([results |-> r, total |-> n, truncated |-> b], limit).total = n
         /\ Limited([results |-> r, total |-> n, truncated |-> b], limit).truncated <=> b \/ n > limit
<1> DEFINE p == [results |-> r, total |-> n, truncated |-> b]
<1>1. p.results = r /\ p.total = n /\ p.truncated = b /\ DOMAIN p = {"results", "total", "truncated"}
  OBVIOUS
<1>2. Limited(p, limit) = [p EXCEPT !.results = Best(r, limit), !.truncated = b \/ n > limit]
  BY <1>1 DEF Limited
<1> QED
  BY <1>1, <1>2

\* The counts and flags of a hybrid package and of a comparison, as the indexes
\* would have them, for any two rankings and any limit.
LEMMA AnyTotalsAreTrue ==
  ASSUME NEW L \in Rankings, NEW M \in Rankings, NEW limit \in Wanted
  PROVE  TotalsTruly(L, M, limit)
<1> DEFINE n == Window(limit)
           l == Best(L, n)
           m == Best(M, n)
           fused == Whole(l, m)
           shown == Best(fused, limit)
           matching == Cardinality(ToSet(L) \cup ToSet(M))
           hybrid == Hybrid(L, M, limit)
           partial == Len(L) > n \/ Len(M) > n
           lexical == Answer(L, n)
           semantic == Answer(M, n)
           entries == Entries(lexical, semantic, hybrid, limit)
<1>1. /\ limit \in Nat /\ limit > 0 /\ n \in Nat /\ limit <= n
  BY WindowsAreWide
<1>2. IsListing(L) /\ IsListing(M)
  BY RankingsAreListings
<1>3. /\ IsListing(l) /\ Len(l) = Smaller(n, Len(L)) /\ ToSet(l) \subseteq ToSet(L)
      /\ IsListing(m) /\ Len(m) = Smaller(n, Len(M)) /\ ToSet(m) \subseteq ToSet(M)
      /\ Best(l, n) = l /\ Best(m, n) = m
  <2> HIDE DEF n
  <2> QED
    BY <1>1, <1>2, BestPart, BestTwice
<1>4. lexical = [results |-> l, total |-> Len(L), truncated |-> Len(L) > n]
  BY DEF Answer
<1>5. semantic = [results |-> m, total |-> Len(M), truncated |-> Len(M) > n]
  BY DEF Answer
<1>6. /\ Fuse(l, m, 2 * n, n) = fused
      /\ Len(fused) = Cardinality(ToSet(l) \cup ToSet(m))
      /\ IsListing(fused) /\ ToSet(fused) = ToSet(l) \cup ToSet(m)
  <2>1. IsListing(fused) /\ ToSet(fused) = ToSet(l) \cup ToSet(m)
    <3> HIDE DEF l, m
    <3> QED
      BY <1>3, WholeInOrder
  <2> HIDE DEF l, m, n
  <2>2. Fuse(l, m, 2 * n, n) = Whole(Best(l, n), Best(m, n))
    BY <1>1, <1>3, FusedWhole
  <2>3. Len(fused) = Cardinality(ToSet(Best(l, n)) \cup ToSet(Best(m, n)))
    BY <1>1, <1>3, FusedWhole
  <2> QED
    BY <1>3, <2>1, <2>2, <2>3
<1>7. hybrid = [fused |-> fused, results |-> shown,
                total |-> IF partial THEN Larger(Len(fused), Larger(Len(L), Len(M))) ELSE Len(fused),
                truncated |-> partial \/ Len(fused) > limit,
                lowerBound |-> partial,
                byLexical |-> Cardinality(ToSet(shown) \cap ToSet(l)),
                bySemantic |-> Cardinality(ToSet(shown) \cap ToSet(m))]
  <2>1. hybrid = Compose(lexical, semantic, limit)
    BY DEF Hybrid
  <2>2. Fuse(lexical.results, semantic.results, 2 * Window(limit), Window(limit)) = fused
    BY <1>4, <1>5, <1>6
  <2>3. /\ lexical.results = l /\ lexical.total = Len(L) /\ lexical.truncated = (Len(L) > n)
        /\ semantic.results = m /\ semantic.total = Len(M) /\ semantic.truncated = (Len(M) > n)
    BY <1>4, <1>5
  <2> HIDE DEF lexical, semantic, fused, l, m, hybrid
  <2> QED
    BY <2>1, <2>2, <2>3 DEF Compose, TotalOf, Contributed
<1>8. /\ Len(L) \in Nat /\ IsFiniteSet(ToSet(L)) /\ Cardinality(ToSet(L)) = Len(L)
      /\ Len(M) \in Nat /\ IsFiniteSet(ToSet(M)) /\ Cardinality(ToSet(M)) = Len(M)
  BY <1>2, ListedOnce
<1>9. IsFiniteSet(ToSet(L) \cup ToSet(M)) /\ matching \in Nat
  BY <1>8, FS_Union, FS_CardinalityType
<1>10. Len(L) <= matching /\ Len(M) <= matching
  <2>1. ToSet(L) \in SUBSET (ToSet(L) \cup ToSet(M)) /\ ToSet(M) \in SUBSET (ToSet(L) \cup ToSet(M))
    OBVIOUS
  <2> QED
    BY <1>8, <1>9, <2>1, FS_Subset
<1>11. Len(fused) <= matching /\ Len(fused) \in Nat
  <2>1. ToSet(l) \cup ToSet(m) \in SUBSET (ToSet(L) \cup ToSet(M))
    BY <1>3
  <2> HIDE DEF fused, l, m
  <2> QED
    BY <1>6, <1>9, <2>1, FS_Subset, FS_CardinalityType
<1>12. ~partial => Len(fused) = matching
  <2> SUFFICES ASSUME ~partial PROVE Len(fused) = matching
    OBVIOUS
  <2>1. Len(L) <= n /\ Len(M) <= n
    BY <1>1, <1>8
  <2>2. l = L /\ m = M
    <3> HIDE DEF n
    <3> QED
      BY <1>1, <1>2, <2>1, BestOfFew
  <2> HIDE DEF fused, l, m
  <2> QED
    BY <1>6, <2>2
<1>13. IsListing(shown) /\ Len(shown) = Smaller(limit, Len(fused)) /\ ToSet(shown) \subseteq ToSet(l) \cup ToSet(m)
  <2> HIDE DEF fused
  <2> QED
    BY <1>1, <1>6, BestPart
<1>14. Len(shown) <= Cardinality(ToSet(shown) \cap ToSet(l)) + Cardinality(ToSet(shown) \cap ToSet(m))
  <2> HIDE DEF shown, l, m
  <2> DEFINE a == ToSet(shown) \cap ToSet(l)
             b == ToSet(shown) \cap ToSet(m)
  <2>1. IsFiniteSet(ToSet(shown)) /\ Cardinality(ToSet(shown)) = Len(shown)
    BY <1>13, ListedOnce
  <2>2. a \in SUBSET ToSet(shown) /\ b \in SUBSET ToSet(shown) /\ ToSet(shown) = a \cup b
    BY <1>13
  <2> HIDE DEF a, b
  <2>3. IsFiniteSet(a) /\ IsFiniteSet(b) /\ IsFiniteSet(a \cap b)
    BY <2>1, <2>2, FS_Subset, FS_Intersection
  <2>4. Cardinality(a \cup b) = Cardinality(a) + Cardinality(b) - Cardinality(a \cap b)
    BY <2>3, FS_Union
  <2>5. Cardinality(a \cap b) \in Nat /\ Cardinality(a) \in Nat /\ Cardinality(b) \in Nat
    BY <2>3, FS_CardinalityType
  <2>6. Len(shown) <= Cardinality(a) + Cardinality(b)
    BY <2>1, <2>2, <2>4, <2>5
  <2> QED
    BY <2>6 DEF a, b
<1>15. hybrid.total <= matching
  <2> HIDE DEF hybrid, fused, matching, n
  <2> QED
    BY <1>7, <1>8, <1>10, <1>11 DEF Larger
<1>16. hybrid.lowerBound \/ hybrid.total = matching
  <2> HIDE DEF hybrid, fused, matching, n
  <2> QED
    BY <1>7, <1>12
<1>17. hybrid.truncated <=> Len(hybrid.results) < matching
  <2>1. partial => limit < matching
    BY <1>1, <1>8, <1>9, <1>10
  <2>2. hybrid.truncated = (partial \/ Len(fused) > limit) /\ hybrid.results = shown
    <3> HIDE DEF hybrid, fused, shown
    <3> QED
      BY <1>7
  <2> HIDE DEF hybrid, fused, matching, shown, partial
  <2>3. Len(shown) \in Nat /\ (Len(shown) = limit \/ Len(shown) = Len(fused)) /\ Len(shown) <= limit
        /\ Len(shown) <= Len(fused)
    BY <1>1, <1>11, <1>13 DEF Smaller
  <2>4. CASE partial
    <3>1. Len(shown) < matching
      BY <1>1, <1>9, <2>1, <2>3, <2>4
    <3> QED
      BY <2>2, <2>4, <3>1
  <2>5. CASE ~partial
    <3>1. Len(fused) > limit <=> Len(shown) < matching
      BY <1>1, <1>9, <1>11, <1>12, <2>3, <2>5
    <3> QED
      BY <2>2, <2>5, <3>1
  <2> QED
    BY <2>4, <2>5
<1>18. Len(hybrid.results) <= hybrid.byLexical + hybrid.bySemantic
  <2> HIDE DEF hybrid, fused, shown, l, m
  <2> QED
    BY <1>7, <1>14
<1>19. entries = [lexical |-> Limited(lexical, limit), semantic |-> Limited(semantic, limit), hybrid |-> hybrid]
  BY DEF Entries
<1>20. ASSUME NEW list, IsListing(list)
       PROVE  /\ Limited(Answer(list, n), limit).total = Len(list)
              /\ Limited(Answer(list, n), limit).truncated
                   <=> Len(Limited(Answer(list, n), limit).results) < Len(list)
  <2>1. /\ Limited(Answer(list, n), limit).results = Best(Best(list, n), limit)
        /\ Limited(Answer(list, n), limit).total = Len(list)
        /\ Limited(Answer(list, n), limit).truncated <=> Len(list) > n \/ Len(list) > limit
    <3> DEFINE r == Best(list, n)
               count == Len(list)
               cut == count > n
    <3>1. Answer(list, n) = [results |-> r, total |-> count, truncated |-> cut]
      BY DEF Answer
    <3> HIDE DEF r, cut
    <3>2. /\ Limited(Answer(list, n), limit).results = Best(r, limit)
          /\ Limited(Answer(list, n), limit).total = count
          /\ Limited(Answer(list, n), limit).truncated <=> cut \/ count > limit
      BY <3>1, LimitedFields, SMTT(20)
    <3> QED
      BY <3>2 DEF r, cut
  <2> HIDE DEF n
  <2>2. IsListing(Best(list, n)) /\ Len(Best(list, n)) = Smaller(n, Len(list)) /\ Len(list) \in Nat
    BY <1>1, <1>20, BestPart, ListedOnce
  <2>3. Len(Best(Best(list, n), limit)) = Smaller(limit, Smaller(n, Len(list)))
    BY <1>1, <2>2, BestPart
  <2>4. (Len(list) > n) \/ Len(list) > limit <=> Smaller(limit, Smaller(n, Len(list))) < Len(list)
    BY <1>1, <2>2 DEF Smaller
  <2> QED
    BY <2>1, <2>3, <2>4
<1>21. /\ entries.lexical.total = Len(L) /\ entries.semantic.total = Len(M)
       /\ \A mode \in {"lexical", "semantic"} :
            entries[mode].truncated <=> Len(entries[mode].results) < entries[mode].total
  <2> HIDE DEF entries, n, hybrid
  <2>1. /\ Limited(lexical, limit).total = Len(L)
        /\ Limited(lexical, limit).truncated <=> Len(Limited(lexical, limit).results) < Len(L)
    BY <1>2, <1>20
  <2>2. /\ Limited(semantic, limit).total = Len(M)
        /\ Limited(semantic, limit).truncated <=> Len(Limited(semantic, limit).results) < Len(M)
    BY <1>2, <1>20
  <2> HIDE DEF lexical, semantic
  <2> QED
    BY <1>19, <2>1, <2>2
<1> QED
  <2> HIDE DEF entries, matching, hybrid
  <2>1. TotalsTruly(L, M, limit) <=>
          /\ hybrid.total <= matching
          /\ hybrid.lowerBound \/ hybrid.total = matching
          /\ hybrid.truncated <=> Len(hybrid.results) < matching
          /\ Len(hybrid.results) <= hybrid.byLexical + hybrid.bySemantic
          /\ entries.lexical.total = Len(L) /\ entries.semantic.total = Len(M)
          /\ \A mode \in {"lexical", "semantic"} :
               entries[mode].truncated <=> Len(entries[mode].results) < entries[mode].total
    BY DEF TotalsTruly, entries, matching, hybrid
  <2> QED
    BY <1>15, <1>16, <1>17, <1>18, <1>21, <2>1

\* No two answers and limit are an exception.
LEMMA NoneMiscounted == Miscounted = {}
  BY AnyTotalsAreTrue DEF Miscounted

-----------------------------------------------------------------------------
\* The alignment of a comparison.

\* What the alignment sorts, and its order, which the hybrid ranks decide.
Table(l, m, w, shown) ==
    {[item |-> x, lexical |-> RankIn(l, x), semantic |-> RankIn(m, x), hybrid |-> RankIn(w, x)] :
       x \in shown}
RowOrder(table) == {pair \in table \X table : RowPrecedes(pair[1], pair[2])}

\* The alignment lists every displayed chunk once, by its hybrid rank.
LEMMA RowsInOrder ==
  ASSUME NEW l, NEW m, NEW w, IsListing(l), IsListing(m), IsListing(w), NEW shown \in SUBSET ToSet(w)
  PROVE  /\ Sorted(Table(l, m, w, shown), RowOrder(Table(l, m, w, shown)))
              \in [1..Cardinality(shown) -> Table(l, m, w, shown)]
         /\ \A row \in Table(l, m, w, shown) : \E i \in 1..Cardinality(shown) :
              Sorted(Table(l, m, w, shown), RowOrder(Table(l, m, w, shown)))[i] = row
         /\ \A i, k \in 1..Cardinality(shown) : i < k =>
              Sorted(Table(l, m, w, shown), RowOrder(Table(l, m, w, shown)))[i].hybrid
                < Sorted(Table(l, m, w, shown), RowOrder(Table(l, m, w, shown)))[k].hybrid
         /\ Cardinality(shown) \in Nat
<1> DEFINE row(x) == [item |-> x, lexical |-> RankIn(l, x), semantic |-> RankIn(m, x),
                      hybrid |-> RankIn(w, x)]
           T == Table(l, m, w, shown)
           R == RowOrder(T)
           s == Sorted(T, R)
<1>1. IsFiniteSet(shown) /\ Cardinality(shown) \in Nat
  BY ListedOnce, FS_Subset, FS_CardinalityType
<1>2. T = {row(x) : x \in shown}
  BY DEF Table
<1>3. \A x \in shown : row(x).item = x /\ row(x).hybrid \in Nat /\ row(x).hybrid = RankIn(w, x)
  BY RankIsPlace, ListedOnce
<1>4. \A x, y \in shown : RankIn(w, x) = RankIn(w, y) => x = y
  BY RankIsPlace
<1>5. \A r, u \in T : r.hybrid = u.hybrid => r = u
  <2> HIDE DEF row, T
  <2> QED
    BY <1>2, <1>3, <1>4
<1>6. \A r \in T : r.hybrid \in Nat
  <2> HIDE DEF row, T
  <2> QED
    BY <1>2, <1>3
<1>12. \A r \in T : r.lexical \in Int /\ r.semantic \in Int /\ r.hybrid \in Int /\ r.item \in Int
  <2>1. \A x \in shown : /\ RankIn(l, x) \in Int /\ RankIn(m, x) \in Int /\ RankIn(w, x) \in Int
                        /\ x \in Int
    <3> SUFFICES ASSUME NEW x \in shown
                 PROVE  /\ RankIn(l, x) \in Int /\ RankIn(m, x) \in Int /\ RankIn(w, x) \in Int
                        /\ x \in Int
      OBVIOUS
    <3>1. RankIn(l, x) \in Int /\ RankIn(m, x) \in Int /\ RankIn(w, x) \in Int
      BY RanksArePositive
    <3>2. x \in Item
      BY ListedOnce
    <3>3. x \in Int
      BY <3>2, QueryAssumption
    <3> QED
      BY <3>1, <3>3
  <2>2. \A x \in shown : /\ row(x).lexical = RankIn(l, x) /\ row(x).semantic = RankIn(m, x)
                        /\ row(x).hybrid = RankIn(w, x) /\ row(x).item = x
    OBVIOUS
  <2> HIDE DEF row, T
  <2> QED
    BY <1>2, <2>1, <2>2
<1>7. \A r, u \in T : RowPrecedes(r, u) <=> r.hybrid < u.hybrid
  <2> HIDE DEF T
  <2> SUFFICES ASSUME NEW r \in T, NEW u \in T
               PROVE  RowPrecedes(r, u) <=> r.hybrid < u.hybrid
    OBVIOUS
  <2>1. SortKey(r)[1] = r.hybrid /\ SortKey(u)[1] = u.hybrid
    BY DEF SortKey
  <2>2. r.hybrid \in Nat /\ u.hybrid \in Nat
    BY <1>6
  <2>3. CASE r.hybrid < u.hybrid
    <3>1. \A k \in 1..(1 - 1) : SortKey(r)[k] = SortKey(u)[k]
      OBVIOUS
    <3>2. 1 \in 1..4
      OBVIOUS
    <3> QED
      BY <2>1, <2>3, <3>1, <3>2 DEF RowPrecedes
  <2>4. CASE ~(r.hybrid < u.hybrid)
    <3> SUFFICES ASSUME RowPrecedes(r, u) PROVE FALSE
      BY <2>4
    <3>1. PICK i \in 1..4 : /\ SortKey(r)[i] < SortKey(u)[i]
                            /\ \A k \in 1..(i - 1) : SortKey(r)[k] = SortKey(u)[k]
      BY DEF RowPrecedes
    <3>2. CASE i = 1
      BY <2>1, <2>4, <3>1, <3>2
    <3>3. CASE i # 1
      <4>1. 1 \in 1..(i - 1)
        BY <3>3
      <4>2. r.hybrid = u.hybrid
        BY <2>1, <3>1, <4>1
      <4>3. r = u
        BY <1>5, <4>2
      <4>4. SortKey(r)[i] = r.hybrid \/ SortKey(r)[i] = r.lexical \/ SortKey(r)[i] = r.semantic
            \/ SortKey(r)[i] = r.item
        BY DEF SortKey
      <4>5. SortKey(r)[i] < SortKey(r)[i] /\ SortKey(r)[i] \in Int
        BY <1>12, <3>1, <4>3, <4>4
      <4> QED
        BY <4>5
    <3> QED
      BY <3>2, <3>3
  <2> QED
    BY <2>3, <2>4
<1>8. IsFiniteSet(T) /\ Cardinality(T) = Cardinality(shown)
  <2> DEFINE of == [x \in shown |-> row(x)]
  <2>1. of \in [shown -> T] /\ \A x \in shown : of[x] = row(x)
    BY <1>2
  <2> HIDE DEF of, T, row
  <2>2. of \in Surjection(shown, T)
    BY <1>2, <2>1 DEF Surjection
  <2>3. \A x, y \in shown : of[x] = of[y] => x = y
    BY <1>3, <2>1
  <2>4. of \in Injection(shown, T)
    BY <2>1, <2>3 DEF Injection, IsInjective
  <2> QED
    BY <1>1, <2>2, <2>4, FS_Surjection
<1>9. \A r, u \in T : <<r, u>> \in R <=> r.hybrid < u.hybrid
  BY <1>7 DEF RowOrder
<1>10. /\ s \in [1..Cardinality(T) -> T]
       /\ \A r \in T : \E i \in 1..Cardinality(T) : s[i] = r
       /\ \A i, k \in 1..Cardinality(T) : i < k => <<s[i], s[k]>> \in R
  <2> HIDE DEF T, R
  <2>1. \A r \in T : <<r, r>> \notin R
    BY <1>6, <1>9
  <2>2. \A r, u, v \in T : <<r, u>> \in R /\ <<u, v>> \in R => <<r, v>> \in R
    BY <1>6, <1>9
  <2>3. \A r, u \in T : r # u => <<r, u>> \in R \/ <<u, r>> \in R
    BY <1>5, <1>6, <1>9
  <2> QED
    BY <1>8, <2>1, <2>2, <2>3, SortedInOrder
<1> HIDE DEF T, R, s
<1>11. \A i, k \in 1..Cardinality(shown) : i < k => s[i].hybrid < s[k].hybrid
  BY <1>8, <1>9, <1>10
<1> QED
  BY <1>1, <1>8, <1>10, <1>11 DEF T, R, s

\* The alignment table agrees with each mode's results and candidates, for any
\* two rankings and any limit.
LEMMA AnyAlignmentIsTrue ==
  ASSUME NEW L \in Rankings, NEW M \in Rankings, NEW limit \in Wanted
  PROVE  AlignsTruly(L, M, limit)
<1> DEFINE n == Window(limit)
           l == Best(L, n)
           m == Best(M, n)
           fused == Whole(l, m)
           lexical == Answer(L, n)
           semantic == Answer(M, n)
           hybrid == Compose(lexical, semantic, limit)
           entries == Entries(lexical, semantic, hybrid, limit)
           shown == Shown(entries)
           T == Table(l, m, fused, shown)
           compared == Compare(L, M, limit)
           aligned == Sorted(T, RowOrder(T))
           N == Cardinality(shown)
<1>1. limit \in Nat /\ limit > 0 /\ n \in Nat /\ limit <= n /\ 2 * n < Unranked
  BY WindowsAreWide
<1>2. IsListing(L) /\ IsListing(M)
  BY RankingsAreListings
<1>3. IsListing(l) /\ IsListing(m) /\ Best(l, n) = l /\ Best(m, n) = m
  <2> HIDE DEF n
  <2> QED
    BY <1>1, <1>2, BestPart, BestTwice
<1>4. /\ Fuse(l, m, 2 * n, n) = fused /\ Len(fused) <= 2 * n
      /\ IsListing(fused) /\ ToSet(fused) = ToSet(l) \cup ToSet(m)
  <2>1. IsListing(fused) /\ ToSet(fused) = ToSet(l) \cup ToSet(m)
    <3> HIDE DEF l, m
    <3> QED
      BY <1>3, WholeInOrder
  <2> HIDE DEF l, m, n
  <2>2. Fuse(l, m, 2 * n, n) = Whole(Best(l, n), Best(m, n)) /\ Len(Whole(Best(l, n), Best(m, n))) <= 2 * n
    BY <1>1, <1>3, FusedWhole
  <2> QED
    BY <1>3, <2>1, <2>2
<1>5. lexical.results = l /\ semantic.results = m
  BY DEF Answer
<1>6. hybrid.fused = fused /\ hybrid.results = Best(fused, limit)
  <2>1. Fuse(lexical.results, semantic.results, 2 * Window(limit), Window(limit)) = fused
    BY <1>4, <1>5
  <2> HIDE DEF lexical, semantic, fused
  <2> QED
    BY <2>1 DEF Compose
<1>7. /\ entries.lexical.results = Best(l, limit)
      /\ entries.semantic.results = Best(m, limit)
      /\ entries.hybrid.results = Best(fused, limit)
      /\ DOMAIN entries = {"lexical", "semantic", "hybrid"}
  <2>1. /\ Limited(lexical, limit).results = Best(l, limit)
        /\ Limited(semantic, limit).results = Best(m, limit)
    BY <1>5, LimitedFields DEF Answer
  <2> HIDE DEF lexical, semantic, hybrid, l, m, fused
  <2> QED
    BY <1>6, <2>1 DEF Entries
<1>8. shown \in SUBSET ToSet(fused)
      /\ \A mode \in {"lexical", "semantic", "hybrid"} : ToSet(entries[mode].results) \subseteq shown
  <2> HIDE DEF entries, l, m, fused
  <2>1. /\ ToSet(Best(l, limit)) \subseteq ToSet(l) /\ ToSet(Best(m, limit)) \subseteq ToSet(m)
        /\ ToSet(Best(fused, limit)) \subseteq ToSet(fused)
    BY <1>1, <1>3, <1>4, BestPart
  <2>2. \A mode \in {"lexical", "semantic", "hybrid"} : ToSet(entries[mode].results) \subseteq ToSet(fused)
    BY <1>4, <1>7, <2>1
  <2> QED
    BY <1>7, <2>2 DEF Shown
<1>9. compared.entries = entries /\ compared.alignment = aligned
  <2>1. compared.entries = entries /\ compared.alignment = Alignment(lexical, semantic, hybrid, limit)
    BY DEF Compare
  <2>2. Alignment(lexical, semantic, hybrid, limit) = Arranged(entries, lexical, semantic, fused)
    BY <1>6 DEF Alignment
  <2>3. T = {AlignmentRow(x, lexical, semantic, fused) : x \in shown}
    <3> HIDE DEF lexical, semantic, fused, l, m, shown
    <3> QED
      BY <1>5 DEF Table, AlignmentRow
  <2>4. Arranged(entries, lexical, semantic, fused) = aligned
    <3> HIDE DEF lexical, semantic, fused, l, m, entries
    <3> QED
      BY <2>3 DEF Arranged, RowOrder
  <2> QED
    BY <2>1, <2>2, <2>4
<1> HIDE DEF l, m, n, fused, entries, shown, compared, aligned
<1>10. /\ aligned \in [1..N -> T]
       /\ \A row \in T : \E i \in 1..N : aligned[i] = row
       /\ \A i, k \in 1..N : i < k => aligned[i].hybrid < aligned[k].hybrid
       /\ N \in Nat
  <2>1. shown \in SUBSET ToSet(fused)
    BY <1>8
  <2> HIDE DEF T, N
  <2> QED
    BY <1>3, <1>4, <2>1, RowsInOrder DEF aligned, T, N
<1>11. /\ \A i \in 1..N : /\ aligned[i].item \in shown
                           /\ aligned[i].lexical = RankIn(l, aligned[i].item)
                           /\ aligned[i].semantic = RankIn(m, aligned[i].item)
                           /\ aligned[i].hybrid = RankIn(fused, aligned[i].item)
       /\ \A x \in shown : \E i \in 1..N : aligned[i].item = x
  <2>1. \A row \in T : /\ row.item \in shown
                       /\ row.lexical = RankIn(l, row.item)
                       /\ row.semantic = RankIn(m, row.item)
                       /\ row.hybrid = RankIn(fused, row.item)
    BY DEF Table
  <2>2. ASSUME NEW x \in shown PROVE \E row \in T : row.item = x
    <3> DEFINE made == [item |-> x, lexical |-> RankIn(l, x), semantic |-> RankIn(m, x),
                        hybrid |-> RankIn(fused, x)]
    <3>1. made \in T
      BY DEF Table
    <3>2. made.item = x
      OBVIOUS
    <3> QED
      BY <3>1, <3>2
  <2> HIDE DEF T, N
  <2> QED
    BY <1>10, <2>1, <2>2
<1> HIDE DEF T, N
<1>12. DOMAIN aligned = 1..N /\ Len(aligned) = N
  BY <1>10
<1>13. {aligned[i].item : i \in DOMAIN aligned} = shown
  BY <1>11, <1>12
<1>14. ASSUME NEW i \in 1..N
       PROVE  /\ aligned[i].lexical = RankIn(l, aligned[i].item)
              /\ aligned[i].semantic = RankIn(m, aligned[i].item)
              /\ aligned[i].hybrid # Unranked
              /\ \A k \in 1..N : i < k => aligned[i].hybrid < aligned[k].hybrid
  <2>1. RankIn(fused, aligned[i].item) \in 1..Len(fused) /\ Len(fused) \in Nat
    BY <1>4, <1>8, <1>11, RankIsPlace, ListedOnce
  <2>2. aligned[i].hybrid # Unranked
    BY <1>1, <1>4, <1>11, <2>1 DEF Unranked
  <2> QED
    BY <1>10, <1>11, <2>2
<1> DEFINE rowOf(x) == CHOOSE i \in DOMAIN aligned : aligned[i].item = x
<1>15. ASSUME NEW x \in shown
       PROVE  rowOf(x) \in 1..N /\ aligned[rowOf(x)].item = x
  BY <1>11, <1>12
<1> HIDE DEF rowOf
<1>16. ASSUME NEW list, IsListing(list), NEW i \in DOMAIN Best(list, limit)
       PROVE  /\ Best(list, limit)[i] \in ToSet(Best(list, limit))
              /\ RankIn(list, Best(list, limit)[i]) = i
  <2>1. /\ IsListing(Best(list, limit))
        /\ \A k \in 1..Len(Best(list, limit)) : k \in 1..Len(list) /\ Best(list, limit)[k] = list[k]
    BY <1>1, <1>16, BestPart
  <2>2. i \in 1..Len(Best(list, limit))
    BY <1>16, <2>1 DEF IsListing
  <2>3. Best(list, limit)[i] = list[i] /\ i \in 1..Len(list)
    BY <2>1, <2>2
  <2> QED
    BY <1>16, <2>1, <2>2, <2>3, ListedOnce, RankIsPlace
<1>17. \A i \in DOMAIN entries.lexical.results : aligned[rowOf(entries.lexical.results[i])].lexical = i
  <2> SUFFICES ASSUME NEW i \in DOMAIN Best(l, limit)
               PROVE  aligned[rowOf(Best(l, limit)[i])].lexical = i
    BY <1>7
  <2>1. Best(l, limit)[i] \in shown /\ RankIn(l, Best(l, limit)[i]) = i
    BY <1>3, <1>7, <1>8, <1>16
  <2> QED
    BY <1>11, <1>15, <2>1
<1>18. \A i \in DOMAIN entries.semantic.results : aligned[rowOf(entries.semantic.results[i])].semantic = i
  <2> SUFFICES ASSUME NEW i \in DOMAIN Best(m, limit)
               PROVE  aligned[rowOf(Best(m, limit)[i])].semantic = i
    BY <1>7
  <2>1. Best(m, limit)[i] \in shown /\ RankIn(m, Best(m, limit)[i]) = i
    BY <1>3, <1>7, <1>8, <1>16
  <2> QED
    BY <1>11, <1>15, <2>1
<1>19. \A i \in DOMAIN entries.hybrid.results : aligned[rowOf(entries.hybrid.results[i])].hybrid = i
  <2> SUFFICES ASSUME NEW i \in DOMAIN Best(fused, limit)
               PROVE  aligned[rowOf(Best(fused, limit)[i])].hybrid = i
    BY <1>7
  <2>1. Best(fused, limit)[i] \in shown /\ RankIn(fused, Best(fused, limit)[i]) = i
    BY <1>4, <1>7, <1>8, <1>16
  <2> QED
    BY <1>11, <1>15, <2>1
<1>20. \A mode \in {"lexical", "semantic", "hybrid"} :
         \A i \in DOMAIN entries[mode].results : aligned[rowOf(entries[mode].results[i])][mode] = i
  BY <1>17, <1>18, <1>19
<1> QED
  <2>1. AlignsTruly(L, M, limit) <=>
          /\ {aligned[i].item : i \in DOMAIN aligned} = shown
          /\ Len(aligned) = N
          /\ \A i \in DOMAIN aligned :
               /\ aligned[i].lexical = RankIn(l, aligned[i].item)
               /\ aligned[i].semantic = RankIn(m, aligned[i].item)
               /\ aligned[i].hybrid # Unranked
               /\ \A k \in DOMAIN aligned : i < k => aligned[i].hybrid < aligned[k].hybrid
          /\ \A mode \in {"lexical", "semantic", "hybrid"} :
               \A i \in DOMAIN entries[mode].results :
                 aligned[rowOf(entries[mode].results[i])][mode] = i
    <3>1. compared = Compare(L, M, limit) /\ compared.alignment = aligned /\ compared.entries = entries
          /\ l = Best(L, Window(limit)) /\ m = Best(M, Window(limit)) /\ shown = Shown(entries)
          /\ N = Cardinality(shown)
      BY <1>9 DEF compared, l, m, n, shown, N
    <3> QED
      BY <3>1 DEF AlignsTruly, rowOf
  <2> QED
    BY <1>12, <1>13, <1>14, <1>20, <2>1

\* No three answers are an exception.
LEMMA NoneMisaligned == Misaligned = {}
  BY AnyAlignmentIsTrue DEF Misaligned

-----------------------------------------------------------------------------
\* Whichever answers a command composes.

\* A hybrid query never prefers a mode, contradicts both, or ranks what one mode
\* found above what both found, whatever the two answers, the window and the
\* rank constant are (fuse_hybrid_results).
THEOREM FusionStaysFair == Spec => []FusionIsFair
<1>1. FusionIsFair
  BY NoneUnfair DEF FusionIsFair
<1> QED
  BY <1>1, PTL

\* The totals, lower bounds, flags and attributions of a hybrid package, and
\* those of the entries of a comparison, are true of what the indexes match,
\* wherever the window and the limit cut (_build_diagnostics).
THEOREM TotalsStayTruthful == Spec => []TotalsAreTruthful
<1>1. TotalsAreTruthful
  BY NoneMiscounted DEF TotalsAreTruthful
<1> QED
  BY <1>1, PTL

\* The alignment table of a comparison has each chunk on display once, with the
\* rank that each mode gave it, in the order of every mode (_build_alignment).
THEOREM AlignmentStaysTruthful == Spec => []AlignmentIsTruthful
<1>1. AlignmentIsTruthful
  BY NoneMisaligned DEF AlignmentIsTruthful
<1> QED
  BY <1>1, PTL
=============================================================================
