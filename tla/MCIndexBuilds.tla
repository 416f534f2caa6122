---------------------------- MODULE MCIndexBuilds ----------------------------
(***************************************************************************)
(* Small instances of IndexBuilds for TLC, and of the answers that queries *)
(* are composed of.                                                        *)
(***************************************************************************)
EXTENDS IndexBuilds, HybridQuery, TLC

CONSTANTS p1, p2, A, B, m1, m2, txt

OneProc == {p1}
TwoProcs == {p1, p2}

\* Nothing changed between the snapshots, so one may reuse the other's vectors.
MCTextOf == [s \in Snap |-> txt]

\* A hybrid query or a comparison has read both components.
Composing == \E p \in Proc : At(p, "record") /\ job[p].mode = "hybrid"

\* Whatever two answers are fused (FusesFairly), fusion prefers neither mode and
\* never contradicts both (fuse_hybrid_results).
FusionIsFair == Composing => Unfair = {}

\* Whatever two answers are composed (TotalsTruly), the counts and flags of the
\* package are true of what the indexes match (_build_diagnostics).
TotalsAreTruthful == Composing => Miscounted = {}

\* Whatever answers are compared (AlignsTruly), the alignment table agrees with
\* each mode's results and candidates (_build_alignment).
AlignmentIsTruthful == Composing => Misaligned = {}

Symmetry == Permutations(Proc) \cup Permutations(Config) \cup Permutations(Semantic)
=============================================================================
