----------------------------- MODULE HybridQuery -----------------------------
(* What a query answers: the package of one retrieval mode, the reciprocal   *)
(* rank fusion of two of them (`query hybrid`), and the comparison of all    *)
(* three modes (`compare query-modes`).                                      *)
(*                                                                           *)
(* Abstracted: a chunk is a number in the order of path, line, byte and      *)
(* identifier; what an index finds for a query is the ranking of all its     *)
(* matches; scores are exact fractions where the code adds floats; what the  *)
(* packages say beyond ranks, counts and flags is left out, and whose        *)
(* answers may be fused is IndexBuilds'.                                     *)
EXTENDS SequencesExt, Ordering

CONSTANTS
    Item,             \* chunks
    CandidateWindow,  \* candidate_window_size
    RankConstant,     \* rank_constant
    Wanted            \* values of max_results

\* What a None rank is sorted as.
Unranked == 10000

\* No list is so long that a rank could be mistaken for None: max_results is at
\* most 100, the window is 50.
ASSUME QueryAssumption ==
    /\ Item \subseteq Int /\ IsFiniteSet(Item)
    /\ {CandidateWindow, RankConstant} \cup Wanted \subseteq Nat \ {0}
    /\ \A n \in {CandidateWindow} \cup Wanted : 2 * n < Unranked

Rankings == SetToAllKPermutations(Item)

Larger(a, b) == IF a > b THEN a ELSE b
Smaller(a, b) == IF a < b THEN a ELSE b
Best(list, n) == SubSeq(list, 1, Smaller(n, Len(list)))

RankIn(list, x) ==
    IF x \in ToSet(list) THEN CHOOSE i \in DOMAIN list : list[i] = x ELSE Unranked

-----------------------------------------------------------------------------
\* One retrieval mode.

\* The engine counts all matches and returns the best of them.
Answer(matches, limit) ==
    [results |-> Best(matches, limit), total |-> Len(matches),
     truncated |-> Len(matches) > limit]

-----------------------------------------------------------------------------
\* Reciprocal rank fusion.

\* 1 / (RankConstant + rank), nothing for a list without the chunk.
Share(rank) == IF rank = Unranked THEN [num |-> 0, den |-> 1]
                                  ELSE [num |-> 1, den |-> RankConstant + rank]

\* Mutant: the denominators are added, as if the mean rank counted.
ScoreOfMeanRank(a, b) ==
    [num |-> Share(a).num + Share(b).num, den |-> Share(a).den + Share(b).den]

Score(a, b) ==
    [num |-> Share(a).num * Share(b).den + Share(b).num * Share(a).den,
     den |-> Share(a).den * Share(b).den]

Exceeds(s, u) == s.num * u.den > u.num * s.den

\* What is fused: a chunk with its sort key of score, best rank and position.
Candidate(l, m, x) ==
    [score |-> Score(RankIn(l, x), RankIn(m, x)),
     best |-> Smaller(RankIn(l, x), RankIn(m, x)), item |-> x]

Precedes(one, other) ==
    \/ Exceeds(one.score, other.score)
    \/ /\ ~Exceeds(other.score, one.score)
       /\ \/ one.best < other.best
          \/ one.best = other.best /\ one.item < other.item

Fuse(L, M, limit, window) ==
    LET l == Best(L, window)
        m == Best(M, window)
        fused == {Candidate(l, m, x) : x \in ToSet(l) \cup ToSet(m)}
        ordered == Sorted(fused, {pair \in fused \X fused : Precedes(pair[1], pair[2])})
    IN Best([i \in DOMAIN ordered |-> ordered[i].item], limit)

-----------------------------------------------------------------------------
\* `query hybrid`.

Window(limit) == Larger(limit, CandidateWindow)

\* Mutant: the components' totals are added.
TotalOfSum(found, lexical, semantic) == lexical.total + semantic.total

\* A component that was cut short may have matched more than was fused.
TotalOf(found, lexical, semantic) ==
    IF lexical.truncated \/ semantic.truncated
    THEN Larger(Len(found), Larger(lexical.total, semantic.total))
    ELSE Len(found)

Contributed(shown, component) == Cardinality(ToSet(shown) \cap ToSet(component.results))

\* The package composed of the answers of both components.
Compose(lexical, semantic, limit) ==
    LET found == Fuse(lexical.results, semantic.results, 2 * Window(limit), Window(limit))
        partial == lexical.truncated \/ semantic.truncated
    IN [fused |-> found,
        results |-> Best(found, limit),
        total |-> TotalOf(found, lexical, semantic),
        truncated |-> partial \/ Len(found) > limit,
        lowerBound |-> partial,
        byLexical |-> Contributed(Best(found, limit), lexical),
        bySemantic |-> Contributed(Best(found, limit), semantic)]

Hybrid(L, M, limit) == Compose(Answer(L, Window(limit)), Answer(M, Window(limit)), limit)

-----------------------------------------------------------------------------
\* `compare query-modes`.

\* A component's package is cut to what the user asked for.
Limited(package, limit) ==
    [package EXCEPT !.results = Best(@, limit),
                    !.truncated = @ \/ package.total > limit]

AlignmentRow(x, lexical, semantic, ranking) ==
    [item |-> x, lexical |-> RankIn(lexical.results, x),
     semantic |-> RankIn(semantic.results, x), hybrid |-> RankIn(ranking, x)]

SortKey(row) == <<row.hybrid, row.lexical, row.semantic, row.item>>
RowPrecedes(r, u) ==
    \E i \in 1..4 : /\ SortKey(r)[i] < SortKey(u)[i]
                    /\ \A k \in 1..(i - 1) : SortKey(r)[k] = SortKey(u)[k]

Entries(lexical, semantic, hybrid, limit) ==
    [lexical |-> Limited(lexical, limit), semantic |-> Limited(semantic, limit),
     hybrid |-> hybrid]

Shown(entries) == UNION {ToSet(entries[mode].results) : mode \in DOMAIN entries}

\* A row for each chunk on display, in order.
Arranged(entries, lexical, semantic, ranking) ==
    LET table == {AlignmentRow(x, lexical, semantic, ranking) : x \in Shown(entries)}
    IN Sorted(table, {pair \in table \X table : RowPrecedes(pair[1], pair[2])})

\* Mutant: hybrid ranks are read off the displayed hybrid results.
AlignmentOfDisplayed(lexical, semantic, hybrid, limit) ==
    Arranged(Entries(lexical, semantic, hybrid, limit), lexical, semantic, hybrid.results)

\* Ranks are those among all candidates.
Alignment(lexical, semantic, hybrid, limit) ==
    Arranged(Entries(lexical, semantic, hybrid, limit), lexical, semantic, hybrid.fused)

Compare(L, M, limit) ==
    LET lexical == Answer(L, Window(limit))
        semantic == Answer(M, Window(limit))
        hybrid == Compose(lexical, semantic, limit)
    IN [entries |-> Entries(lexical, semantic, hybrid, limit),
        alignment |-> Alignment(lexical, semantic, hybrid, limit)]

-----------------------------------------------------------------------------
\* What a package promises, and the inputs over which it does not.

\* Fusion prefers neither mode and never contradicts both: exchanging the lists
\* changes nothing; of two chunks in both lists the one that both rank higher
\* comes first; and what both modes found comes before what one of them found,
\* where the window is no longer than RankConstant + 1, and in any window, also
\* of the largest limits, before what is not ranked higher by the mode that found
\* it than by either of the two (fuse_hybrid_results).
FusesFairly(L, M, limit) ==
    LET window == Window(limit)
        fused == Fuse(L, M, 2 * window, window)
        l == Best(L, window)
        m == Best(M, window)
        common == ToSet(l) \cap ToSet(m)
        best(x) == Smaller(RankIn(l, x), RankIn(m, x))
    IN /\ fused = Fuse(M, L, 2 * window, window)
       /\ \A x, y \in common :
            RankIn(l, x) < RankIn(l, y) /\ RankIn(m, x) < RankIn(m, y) =>
              RankIn(fused, x) < RankIn(fused, y)
       /\ \A x \in common, y \in ToSet(fused) \ common :
            window <= RankConstant + 1 \/ best(x) <= best(y) =>
              RankIn(fused, x) < RankIn(fused, y)
Unfair == {q \in Rankings \X Rankings \X Wanted : ~FusesFairly(q[1], q[2], q[3])}

\* The counts and flags of the hybrid package are true of what the indexes
\* match, which the package does not hold: the total is the number of different
\* matches, or not more than that where it is called a lower bound; truncated
\* means that matches are missing; every result is attributed to a component.
\* The entries of a comparison keep that meaning when they are cut to size
\* (_build_diagnostics, _limit_result_package, docs/cli-reference.md:683).
TotalsTruly(L, M, limit) ==
    LET hybrid == Hybrid(L, M, limit)
        matching == Cardinality(ToSet(L) \cup ToSet(M))
        entries == Entries(Answer(L, Window(limit)), Answer(M, Window(limit)), hybrid, limit)
    IN /\ hybrid.total <= matching
       /\ hybrid.lowerBound \/ hybrid.total = matching
       /\ hybrid.truncated <=> Len(hybrid.results) < matching
       /\ Len(hybrid.results) <= hybrid.byLexical + hybrid.bySemantic
       /\ entries.lexical.total = Len(L) /\ entries.semantic.total = Len(M)
       /\ \A mode \in {"lexical", "semantic"} :
            entries[mode].truncated <=> Len(entries[mode].results) < entries[mode].total
Miscounted == {q \in Rankings \X Rankings \X Wanted : ~TotalsTruly(q[1], q[2], q[3])}

\* The alignment of a comparison has one row for each chunk on display, no mode
\* that had the chunk among its candidates is missing from its row, and each
\* mode's block of results is the alignment in the order of that mode's ranks.
AlignsTruly(L, M, limit) ==
    LET compared == Compare(L, M, limit)
        aligned == compared.alignment
        rowOf(x) == CHOOSE i \in DOMAIN aligned : aligned[i].item = x
    IN /\ {aligned[i].item : i \in DOMAIN aligned} = Shown(compared.entries)
       /\ Len(aligned) = Cardinality(Shown(compared.entries))
       /\ \A i \in DOMAIN aligned :
            /\ aligned[i].lexical = RankIn(Best(L, Window(limit)), aligned[i].item)
            /\ aligned[i].semantic = RankIn(Best(M, Window(limit)), aligned[i].item)
            /\ aligned[i].hybrid # Unranked
            /\ \A k \in DOMAIN aligned : i < k => aligned[i].hybrid < aligned[k].hybrid
       /\ \A mode \in {"lexical", "semantic", "hybrid"} :
            \A i \in DOMAIN compared.entries[mode].results :
              aligned[rowOf(compared.entries[mode].results[i])][mode] = i
Misaligned == {q \in Rankings \X Rankings \X Wanted : ~AlignsTruly(q[1], q[2], q[3])}
=============================================================================
