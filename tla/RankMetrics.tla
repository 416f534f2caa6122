----------------------------- MODULE RankMetrics -----------------------------
(* How `eval benchmark` judges one case: which results match which authored  *)
(* judgments, and the recall, reciprocal rank and graded gains among the     *)
(* first k of them; and which latency stands for the slowest of all cases.   *)
(*                                                                           *)
(* Abstracted: discounted gains are not computed (TLC has no logarithms):    *)
(* the property compares every prefix of the gains with the ideal ones,      *)
(* which bounds the discounted sums; ratios are kept as their two counts.    *)
EXTENDS SequencesExt, Ordering

CONSTANTS
    Judgments,    \* what may be authored, also what must be refused
    MaxJudged,    \* bound: judgments of a case
    Found,        \* chunks that may be found: path, language, first and last line
    Cutoffs,      \* values of k
    MaxSamples    \* bound: latencies that are summarised

Unanchored == 0   \* a line that a judgment does not name
AnyLanguage == "any"

ASSUME MetricsAssumption ==
    /\ MaxJudged \in Nat \ {0} /\ MaxSamples \in Nat \ {0}
    /\ Cutoffs \subseteq Nat \ {0} /\ IsFiniteSet(Found)
    /\ \A j \in Judgments : j.first \in Nat /\ j.last \in Nat /\ j.grade \in Int

-----------------------------------------------------------------------------
\* The dataset.

\* A judgment has both lines or none, in order, and a positive grade.
ValidJudgment(j) ==
    /\ (j.first = Unanchored) = (j.last = Unanchored)
    /\ j.last >= j.first
    /\ j.grade >= 1

\* At least one judgment.
ValidCases ==
    LET valid == {j \in Judgments : ValidJudgment(j)} IN
    UNION {[1..n -> valid] : n \in 1..MaxJudged}

-----------------------------------------------------------------------------
\* One case: the judgments and the ranked results.

Matches(result, j) ==
    /\ result.path = j.path
    /\ j.language \in {AnyLanguage, result.language}
    /\ j.first = Unanchored \/ ~(result.last < j.first \/ result.first > j.last)

Matching(judged, result) == {i \in DOMAIN judged : Matches(result, judged[i])}

\* The higher grade comes first, the first of equals.
Outranks(judged, i, other) ==
    \/ judged[i].grade > judged[other].grade
    \/ judged[i].grade = judged[other].grade /\ i < other

\* The judgment that a result is credited with.
Selected(judged, candidates) ==
    CHOOSE i \in candidates : \A other \in candidates : i = other \/ Outranks(judged, i, other)

\* Mutant: a judgment may be credited again and again.
CandidatesAgain(judged, result, credited) == Matching(judged, result)

Candidates(judged, result, credited) == Matching(judged, result) \ credited

\* The judgment that each of the first n results is credited with, 0 for none.
Credits(judged, results) ==
    LET credits[n \in 0..Len(results)] ==
          IF n = 0 THEN <<>>
          ELSE LET open == Candidates(judged, results[n], ToSet(credits[n - 1]))
               IN Append(credits[n - 1], IF open = {} THEN 0 ELSE Selected(judged, open))
    IN credits[Len(results)]

Gains(judged, results) ==
    [n \in DOMAIN results |->
       LET i == Credits(judged, results)[n] IN IF i = 0 THEN 0 ELSE judged[i].grade]

\* The first k results count.
Ranked(results, k) == SubSeq(results, 1, IF k < Len(results) THEN k ELSE Len(results))

Relevant(judged, ranked) == {n \in DOMAIN ranked : Matching(judged, ranked[n]) # {}}

CaseMetrics(judged, results, k) ==
    LET ranked == Ranked(results, k)
        relevant == Relevant(judged, ranked)
    IN [matched |-> Cardinality(UNION {Matching(judged, ranked[n]) : n \in relevant}),
        first |-> IF relevant = {} THEN 0 ELSE Min(relevant),
        gains |-> Gains(judged, ranked)]

\* The authored grades, best first, as far as k results could earn them.
IdealGains(judged, k) ==
    LET all == DOMAIN judged
        order == Sorted(all, {pair \in all \X all : Outranks(judged, pair[1], pair[2])})
    IN Ranked([n \in DOMAIN order |-> judged[order[n]].grade], k)

\* Latencies: the index of the 95th percentile among n in order.
P95Index(n) == LET ceiling == (95 * n + 99) \div 100 IN IF ceiling > 1 THEN ceiling - 1 ELSE 0

-----------------------------------------------------------------------------
\* What the metrics promise, and the inputs for which they do not.

GainUpTo(gains, n) ==
    LET total[i \in 0..n] == IF i = 0 THEN 0 ELSE total[i - 1] + (2^gains[i] - 1)
    IN total[n]
Dominated(gains, ideal) ==
    \A n \in DOMAIN gains :
      GainUpTo(gains, n) <= GainUpTo(ideal, IF n < Len(ideal) THEN n ELSE Len(ideal))

\* The metrics of a case are of one cloth, whichever chunks overlap whichever
\* judgments: recall, reciprocal rank and gain are all zero or all positive; the
\* first relevant result is credited; no prefix of the results earns more than
\* the ideal one, so that no chunk found twice lifts nDCG above 1; a longer
\* cutoff never lowers recall and leaves the earlier gains alone.
JudgesTruly(judged, results, k) ==
    LET m == CaseMetrics(judged, results, k)
        longer == CaseMetrics(judged, results, k + 1)
        credited == {n \in DOMAIN m.gains : m.gains[n] > 0}
    IN /\ (m.matched = 0) = (m.first = 0) /\ (m.first = 0) = (credited = {})
       /\ m.first # 0 => m.first \in credited
       /\ Cardinality(credited) <= m.matched /\ m.matched <= Len(judged)
       /\ Dominated(m.gains, IdealGains(judged, k))
       /\ m.matched <= longer.matched
       /\ \A n \in DOMAIN m.gains : m.gains[n] = longer.gains[n]

\* The percentile is the nearest rank: 95 of 100 samples are not above it, and
\* the one before it is too low for that.
IsNearestRank(n) ==
    LET rank == P95Index(n) + 1 IN
    /\ rank \in 1..n
    /\ 100 * rank >= 95 * n /\ 100 * (rank - 1) < 95 * n

Misjudged == {c \in ValidCases \X SetToAllKPermutations(Found) \X Cutoffs :
                ~JudgesTruly(c[1], c[2], c[3])}
Misranked == {n \in 1..MaxSamples : ~IsNearestRank(n)}
=============================================================================
