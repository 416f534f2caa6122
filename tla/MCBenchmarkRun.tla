---------------------------- MODULE MCBenchmarkRun ----------------------------
(***************************************************************************)
(* Small instances of BenchmarkRun for TLC, and of what is calculated from *)
(* a run and said of several.                                              *)
(***************************************************************************)
EXTENDS BenchmarkRun, RankMetrics, RunComparison

Chunk(path, language, first, last) ==
    [path |-> path, language |-> language, first |-> first, last |-> last]
Judge(path, language, first, last, grade) ==
    [path |-> path, language |-> language, first |-> first, last |-> last, grade |-> grade]

\* Two chunks of one file and one of another.
MCFound == {Chunk("a.php", "php", 1, 2), Chunk("a.php", "php", 3, 4), Chunk("b.js", "js", 1, 2)}

\* Whole files, lines within a chunk and across two, of either grade; a wrong
\* language; and three that must be refused.
MCJudgments ==
    {Judge("a.php", AnyLanguage, Unanchored, Unanchored, g) : g \in 1..2}
      \cup {Judge("a.php", "php", 2, 3, g) : g \in 1..2}
      \cup {Judge("a.php", AnyLanguage, 4, 4, 2), Judge("a.php", "js", 1, 4, 1),
            Judge("b.js", "js", Unanchored, Unanchored, 1)}
      \cup {Judge("a.php", AnyLanguage, 2, Unanchored, 1), Judge("a.php", "php", 4, 3, 1),
            Judge("b.js", AnyLanguage, Unanchored, Unanchored, 0)}

\* Whatever results the cases of a run had (JudgesTruly), their metrics are of one
\* cloth and no judgment is credited twice; the percentile is the nearest rank
\* (calculate_benchmark_case_metrics, summarize_query_latencies).
MetricsAreTruthful == pc \in Measuring => Misjudged = {} /\ Misranked = {}

\* Evidence that a reviewer may accept is of one run throughout, also where its
\* pieces are only compared by way of a third; and a comparison of several runs
\* says what comparisons of every two of them say (ComparesTruly).
ComparisonsAreTruthful == report # "idle" => Patchwork = {} /\ Misreported = {}
=============================================================================
