---------------------------- MODULE RunComparison ----------------------------
(* What `eval report` and `compare benchmark-runs` make of finished runs:    *)
(* whether the four pieces of evidence of a run may be read as one, and what *)
(* is said of several runs side by side.                                     *)
(*                                                                           *)
(* Abstracted: a piece of evidence gives each of its fields a value; dataset *)
(* stands for id, version, fingerprint, size and cases, build for all ids    *)
(* and settings of the indexes, results for all metrics, durations and their *)
(* time.  Whether the evidence is there and complete is BenchmarkRun's.  Of  *)
(* the eight metrics one is kept: all are compared alike.                    *)
EXTENDS SequencesExt

CONSTANTS
    Measured,    \* values of a metric
    MaxForeign,  \* bound: fields of one piece, keys of one entry with a value of their own
    MaxCompared  \* bound: runs side by side

NoValue == -1    \* of a metric that a run does not have

ASSUME ComparisonAssumption ==
    /\ Measured \subseteq Nat /\ MaxForeign \in Nat /\ MaxCompared \in Nat \ {0, 1}

-----------------------------------------------------------------------------
\* The evidence of one run.

Common == {"run", "repository", "snapshot", "mode", "dataset"}
Holds == [record   |-> Common \cup {"k", "results"},
          run_json |-> Common \cup {"k", "build"},
          metrics_json |-> Common \cup {"k", "build", "results"},
          origin   |-> Common \cup {"k", "build"}]  \* its provenance
Pieces == DOMAIN Holds

Agree(one, other, fields) == \A f \in fields : one[f] = other[f]

ArtifactAgrees(e) == Agree(e.run_json, e.record, Common)

\* Mutant: metrics.json is compared with the row only.
MetricsAgreeWithRecord(e) ==
    Agree(e.metrics_json, e.record, Common \cup {"k", "results"})

\* What the row does not hold is compared with run.json.
MetricsAgree(e) ==
    /\ Agree(e.metrics_json, e.record, Common \cup {"k", "results"})
    /\ Agree(e.metrics_json, e.run_json, {"repository", "snapshot", "build", "k"})

ProvenanceAgrees(e) ==
    /\ Agree(e.origin, e.record, Common)
    /\ Agree(e.origin, e.run_json, {"k", "build"})

Accepted(e) == ArtifactAgrees(e) /\ MetricsAgree(e) /\ ProvenanceAgrees(e)

-----------------------------------------------------------------------------
\* Several runs, as a sequence of entries in the order of the request.

ContextKeys == {"snapshot", "dataset", "k"}
ConfigurationKeys == {"configuration"}

ValuesOf(entries, key) == {entries[i][key] : i \in DOMAIN entries}

Differences(entries) ==
    {key \in ContextKeys \cup ConfigurationKeys : Cardinality(ValuesOf(entries, key)) > 1}

ApplesToApples(entries) == Differences(entries) \cap ContextKeys = {}

Better(direction, a, b) == IF direction = "higher_is_better" THEN a > b ELSE a < b

Available(entries) == {i \in DOMAIN entries : entries[i].measured # NoValue}

\* The best of the values there are, and who has it.
BestValue(entries, direction) ==
    CHOOSE best \in {entries[i].measured : i \in Available(entries)} :
      \A i \in Available(entries) : ~Better(direction, entries[i].measured, best)
Winners(entries, direction) ==
    {i \in Available(entries) : entries[i].measured = BestValue(entries, direction)}

Outcome(entries, direction) ==
    IF Available(entries) = {} THEN "unavailable"
    ELSE IF Cardinality(Winners(entries, direction)) > 1 THEN "tie" ELSE "winner"

-----------------------------------------------------------------------------
\* What a comparison promises, and the inputs for which it does not.

\* Values of fields, some of which are another run's.
Altered(fields) ==
    {[f \in fields |-> IF f \in foreign THEN 1 ELSE 0] :
       foreign \in {fs \in SUBSET fields : Cardinality(fs) <= MaxForeign}}

Packages ==
    [record : {[f \in Holds.record |-> 0]}, run_json : Altered(Holds.run_json),
     metrics_json : Altered(Holds.metrics_json), origin : Altered(Holds.origin)]

\* A report prints one field from the row, the next from run.json, metrics.json
\* or the provenance, and not every two of them are compared.
IsOfOneRun(e) ==
    \A one, other \in Pieces : Agree(e[one], e[other], Holds[one] \cap Holds[other])
Patchwork == {e \in Packages : Accepted(e) /\ ~IsOfOneRun(e)}

EntryOf(context, m) ==
    [key \in DOMAIN context \cup {"measured"} |-> IF key = "measured" THEN m ELSE context[key]]
Entry == {EntryOf(context, m) :
            context \in Altered(ContextKeys \cup ConfigurationKeys), m \in Measured \cup {NoValue}}

\* What is said of all runs is what would be said of them two by two: they are
\* comparable if every two are, a difference is one of two of them, the winners
\* are those that none beats, and the order of the request changes nothing.
ComparesTruly(entries, direction) ==
    LET two(i, k) == <<entries[i], entries[k]>>
        turned(s) == {Len(entries) + 1 - i : i \in s}
    IN /\ ApplesToApples(entries) <=> \A i, k \in DOMAIN entries : ApplesToApples(two(i, k))
       /\ Differences(entries) = UNION {Differences(two(i, k)) : i, k \in DOMAIN entries}
       /\ Outcome(entries, direction) = "unavailable" <=>
            \A i \in DOMAIN entries : entries[i].measured = NoValue
       /\ Outcome(entries, direction) # "unavailable" =>
            /\ Winners(entries, direction) =
                 {i \in Available(entries) : \A k \in DOMAIN entries :
                    k # i => 1 \in Winners(two(i, k), direction)}
            /\ (Outcome(entries, direction) = "tie") =
                 \E i, k \in Winners(entries, direction) : i # k
            /\ Winners(Reverse(entries), direction) = turned(Winners(entries, direction))
       /\ Outcome(Reverse(entries), direction) = Outcome(entries, direction)
       /\ Differences(Reverse(entries)) = Differences(entries)
Directions == {"higher_is_better", "lower_is_better"}
Misreported ==
    {q \in (UNION {[1..n -> Entry] : n \in 2..MaxCompared}) \X Directions :
       ~ComparesTruly(q[1], q[2])}
=============================================================================
