-------------------------- MODULE BenchmarkRunProofs --------------------------
(* What TLAPS proves of BenchmarkRun, for every number of cases and every    *)
(* bound on the signals and the failures, and of what is calculated from its *)
(* results (RankMetrics) and said of finished runs (RunComparison).          *)
(*                                                                           *)
(* The last two are facts about operators, and come first: whatever is       *)
(* judged, found and compared, no input is in the sets of wrong answers that *)
(* MetricsAreTruthful and ComparisonsAreTruthful say are empty.              *)
(*                                                                           *)
(* The properties of the run are facts about what is left when the command   *)
(* has ended; Inv says what is there at every place on the way.              *)
EXTENDS MCBenchmarkRun, OrderLemmas, SequenceTheorems, TLAPS

-----------------------------------------------------------------------------
\* The evidence of one run.

\* Pieces that a reviewer accepts agree in every field that two of them hold,
\* also where the two are only compared by way of a third.
LEMMA AcceptedIsOfOneRun ==
  ASSUME NEW e, Accepted(e)
  PROVE  IsOfOneRun(e)
<1> DEFINE fields == Common \cup {"k", "build", "results"}
<1>1. Pieces = {"record", "run_json", "metrics_json", "origin"}
  BY DEF Pieces, Holds
<1>2. /\ Holds["record"] = Common \cup {"k", "results"}
      /\ Holds["run_json"] = Common \cup {"k", "build"}
      /\ Holds["metrics_json"] = Common \cup {"k", "build", "results"}
      /\ Holds["origin"] = Common \cup {"k", "build"}
  BY DEF Holds
<1>3. /\ \A f \in Common : /\ e.run_json[f] = e.record[f] /\ e.metrics_json[f] = e.record[f]
                           /\ e.origin[f] = e.record[f]
      /\ e.metrics_json["k"] = e.record["k"] /\ e.metrics_json["k"] = e.run_json["k"]
      /\ e.origin["k"] = e.run_json["k"]
      /\ e.metrics_json["results"] = e.record["results"]
      /\ e.metrics_json["build"] = e.run_json["build"] /\ e.origin["build"] = e.run_json["build"]
  BY DEF Accepted, ArtifactAgrees, MetricsAgree, ProvenanceAgrees, Agree
<1>4. "k" \notin Common /\ "build" \notin Common /\ "results" \notin Common
  BY DEF Common
<1> SUFFICES ASSUME NEW one \in Pieces, NEW other \in Pieces, NEW f \in Holds[one] \cap Holds[other]
             PROVE  e[one][f] = e[other][f]
  BY DEF IsOfOneRun, Agree
<1>5. f \in fields
  BY <1>1, <1>2
<1>6. CASE f \in Common
  BY <1>1, <1>3, <1>6
<1>7. CASE f = "k"
  BY <1>1, <1>3, <1>7
<1>8. CASE f = "build"
  <2>1. one # "record" /\ other # "record"
    BY <1>2, <1>4, <1>8
  <2> QED
    BY <1>1, <1>3, <1>8, <2>1
<1>9. CASE f = "results"
  <2>1. one \in {"record", "metrics_json"} /\ other \in {"record", "metrics_json"}
    BY <1>1, <1>2, <1>4, <1>9
  <2> QED
    BY <1>3, <1>9, <2>1
<1> QED
  BY <1>5, <1>6, <1>7, <1>8, <1>9

\* No evidence is an exception.
LEMMA NonePatchwork == Patchwork = {}
  BY AcceptedIsOfOneRun DEF Patchwork

-----------------------------------------------------------------------------
\* Several runs.

\* Runs side by side, each with a value or none.
IsRequest(es) ==
    /\ Len(es) \in Nat /\ DOMAIN es = 1..Len(es)
    /\ \A i \in 1..Len(es) : es[i].measured \in Int

\* A set has several elements if two of them differ.
LEMMA SeveralDiffer ==
  ASSUME NEW S, IsFiniteSet(S)
  PROVE  Cardinality(S) > 1 <=> \E x, y \in S : x # y
<1>1. Cardinality(S) \in Nat
  BY FS_CardinalityType
<1>2. Cardinality(S) = 0 <=> S = {}
  BY FS_EmptySet
<1>3. Cardinality(S) = 1 <=> \E x : S = {x}
  BY FS_Singleton
<1>4. CASE S = {}
  BY <1>2, <1>4
<1>5. CASE S # {}
  <2>1. (\E x : S = {x}) <=> ~\E x, y \in S : x # y
    BY <1>5
  <2> QED
    BY <1>1, <1>2, <1>3, <1>5, <2>1
<1> QED
  BY <1>4, <1>5

\* A difference is one between two of the runs.
LEMMA DifferencesAreOfTwo ==
  ASSUME NEW es, Len(es) \in Nat, DOMAIN es = 1..Len(es), NEW key
  PROVE  key \in Differences(es) <=>
           /\ key \in ContextKeys \cup ConfigurationKeys
           /\ \E i, k \in DOMAIN es : es[i][key] # es[k][key]
<1> DEFINE S == DOMAIN es
           V == ValuesOf(es, key)
           value == [i \in S |-> es[i][key]]
<1>1. IsFiniteSet(S)
  BY FS_Interval
<1>2. V = {es[i][key] : i \in S}
  BY DEF ValuesOf
<1>3. IsFiniteSet(V)
  <2>1. value \in [S -> V] /\ \A i \in S : value[i] = es[i][key]
    BY <1>2
  <2> HIDE DEF value, S, V
  <2>2. \A x \in V : \E i \in S : value[i] = x
    BY <1>2, <2>1
  <2>3. value \in Surjection(S, V)
    BY <2>1, <2>2 DEF Surjection
  <2> QED
    BY <1>1, <2>3, FS_Surjection
<1>4. Cardinality(V) > 1 <=> \E x, y \in V : x # y
  <2> HIDE DEF V
  <2> QED
    BY <1>3, SeveralDiffer
<1>5. (\E x, y \in V : x # y) <=> \E i, k \in S : es[i][key] # es[k][key]
  <2> HIDE DEF V, S
  <2> QED
    BY <1>2
<1> QED
  BY <1>4, <1>5 DEF Differences

\* The winners are those that none with a value is better than.
LEMMA WinnersAreUnbeaten ==
  ASSUME NEW es, IsRequest(es), NEW direction \in Directions
  PROVE  /\ Winners(es, direction) =
              {i \in Available(es) :
                 \A k \in Available(es) : ~Better(direction, es[k].measured, es[i].measured)}
         /\ Available(es) # {} => Winners(es, direction) # {}
<1> DEFINE S == Available(es)
           V == {es[i].measured : i \in S}
           higher == direction = "higher_is_better"
           f == [i \in S |-> IF higher THEN es[i].measured ELSE 0 - es[i].measured]
           best == BestValue(es, direction)
<1>1. S \subseteq 1..Len(es) /\ IsFiniteSet(S)
  <2>1. S \in SUBSET (1..Len(es)) /\ Len(es) \in Nat
    BY DEF Available, IsRequest
  <2>2. IsFiniteSet(1..Len(es))
    BY <2>1, FS_Interval
  <2> QED
    BY <2>1, <2>2, FS_Subset
<1>2. \A i \in S : es[i].measured \in Int
  BY <1>1 DEF IsRequest
<1>3. CASE S = {}
  BY <1>3 DEF Winners
<1>4. CASE S # {}
  <2>1. \E i \in S : \A k \in S : f[k] <= f[i]
    <3>1. \A i \in S : f[i] \in Int
      BY <1>2
    <3> HIDE DEF f, S
    <3> QED
      BY <1>1, <1>4, <3>1, GreatestValue
  <2>2. PICK top \in S : \A k \in S : f[k] <= f[top]
    BY <2>1
  <2>3. \A k \in S : ~Better(direction, es[k].measured, es[top].measured)
    <3> SUFFICES ASSUME NEW k \in S PROVE ~Better(direction, es[k].measured, es[top].measured)
      OBVIOUS
    <3>1. f[k] <= f[top] /\ es[k].measured \in Int /\ es[top].measured \in Int
      BY <1>2, <2>2
    <3> QED
      BY <3>1 DEF Better
  <2>4. best \in V /\ \A k \in S : ~Better(direction, es[k].measured, best)
    <3>1. \E v \in V : \A k \in S : ~Better(direction, es[k].measured, v)
      BY <2>3
    <3>2. best = CHOOSE v \in V : \A k \in S : ~Better(direction, es[k].measured, v)
      BY DEF BestValue
    <3> HIDE DEF best, V, S
    <3> QED
      BY <3>1, <3>2
  <2>5. PICK b \in S : best = es[b].measured
    BY <2>4
  <2>6. Winners(es, direction) = {i \in S : es[i].measured = best}
    BY DEF Winners
  <2> HIDE DEF best, S, V
  <2>7. \A i \in S : es[i].measured = best <=>
                       \A k \in S : ~Better(direction, es[k].measured, es[i].measured)
    <3> SUFFICES ASSUME NEW i \in S,
                        \A k \in S : ~Better(direction, es[k].measured, es[i].measured)
                 PROVE  es[i].measured = best
      BY <2>4
    <3>1. ~Better(direction, best, es[i].measured) /\ ~Better(direction, es[i].measured, best)
      BY <2>4, <2>5
    <3>2. best \in Int /\ es[i].measured \in Int
      BY <1>2, <2>5
    <3> QED
      BY <3>1, <3>2 DEF Better
  <2>8. b \in Winners(es, direction)
    BY <2>5, <2>6
  <2> QED
    BY <2>6, <2>7, <2>8 DEF S
<1> QED
  BY <1>3, <1>4

\* Two runs side by side.
LEMMA OfTwo ==
  ASSUME NEW es, IsRequest(es), NEW i \in DOMAIN es, NEW k \in DOMAIN es, NEW direction \in Directions
  PROVE  /\ IsRequest(<<es[i], es[k]>>)
         /\ \A key : key \in Differences(<<es[i], es[k]>>) <=>
                     key \in ContextKeys \cup ConfigurationKeys /\ es[i][key] # es[k][key]
         /\ i \in Available(es) =>
              (1 \in Winners(<<es[i], es[k]>>, direction) <=>
                 (k \in Available(es) => ~Better(direction, es[k].measured, es[i].measured)))
<1> DEFINE two == <<es[i], es[k]>>
<1>1. Len(two) = 2 /\ DOMAIN two = 1..2 /\ two[1] = es[i] /\ two[2] = es[k]
  OBVIOUS
<1>2. es[i].measured \in Int /\ es[k].measured \in Int
  BY DEF IsRequest
<1> HIDE DEF two
<1>3. IsRequest(two)
  <2>1. \A j \in 1..2 : j = 1 \/ j = 2
    OBVIOUS
  <2> QED
    BY <1>1, <1>2, <2>1 DEF IsRequest
<1>4. ASSUME NEW key
      PROVE  key \in Differences(two) <=>
               key \in ContextKeys \cup ConfigurationKeys /\ es[i][key] # es[k][key]
  <2>1. (\E a, b \in 1..2 : two[a][key] # two[b][key]) <=> es[i][key] # es[k][key]
    <3>1. \A j \in 1..2 : j = 1 \/ j = 2
      OBVIOUS
    <3>2. 1 \in 1..2 /\ 2 \in 1..2
      OBVIOUS
    <3> QED
      BY <1>1, <3>1, <3>2
  <2>2. key \in Differences(two) <=>
           /\ key \in ContextKeys \cup ConfigurationKeys
           /\ \E a, b \in 1..2 : two[a][key] # two[b][key]
    <3>1. Len(two) \in Nat /\ DOMAIN two = 1..Len(two)
      BY <1>1
    <3>2. key \in Differences(two) <=>
            /\ key \in ContextKeys \cup ConfigurationKeys
            /\ \E a, b \in DOMAIN two : two[a][key] # two[b][key]
      BY <3>1, DifferencesAreOfTwo
    <3> QED
      BY <1>1, <3>2
  <2> QED
    BY <2>1, <2>2
<1>5. ASSUME i \in Available(es)
      PROVE  1 \in Winners(two, direction) <=>
                 (k \in Available(es) => ~Better(direction, es[k].measured, es[i].measured))
  <2>1. Winners(two, direction) =
          {j \in Available(two) :
             \A other \in Available(two) : ~Better(direction, two[other].measured, two[j].measured)}
    BY <1>3, WinnersAreUnbeaten
  <2>2. es[i].measured # NoValue /\ (k \in Available(es) <=> es[k].measured # NoValue)
    BY <1>5 DEF Available
  <2>3. Available(two) = {j \in 1..2 : two[j].measured # NoValue}
    BY <1>1 DEF Available
  <2>4. 1 \in Available(two) /\ (2 \in Available(two) <=> k \in Available(es))
    BY <1>1, <2>2, <2>3
  <2>5. \A j \in Available(two) : j = 1 \/ j = 2
    BY <2>3
  <2>6. ~Better(direction, es[i].measured, es[i].measured)
    BY <1>2 DEF Better
  <2> QED
    BY <1>1, <2>1, <2>4, <2>5, <2>6
<1> QED
  BY <1>3, <1>4, <1>5 DEF two

\* The same runs in the opposite order.
LEMMA Turned ==
  ASSUME NEW es, IsRequest(es), NEW direction \in Directions
  PROVE  /\ IsRequest(Reverse(es)) /\ DOMAIN Reverse(es) = DOMAIN es
         /\ Available(Reverse(es)) = {Len(es) + 1 - i : i \in Available(es)}
         /\ Winners(Reverse(es), direction) = {Len(es) + 1 - i : i \in Winners(es, direction)}
         /\ Differences(Reverse(es)) = Differences(es)
<1> DEFINE N == Len(es)
           r == Reverse(es)
           turn(i) == N + 1 - i
<1>1. N \in Nat /\ DOMAIN es = 1..N /\ \A i \in 1..N : es[i].measured \in Int
  BY DEF IsRequest
<1>2. r = [i \in 1..N |-> es[(N - i) + 1]]
  BY DEF Reverse
<1>3. \A i \in 1..N : turn(i) \in 1..N /\ turn(turn(i)) = i /\ r[i] = es[turn(i)] /\ r[turn(i)] = es[i]
  <2> SUFFICES ASSUME NEW i \in 1..N
               PROVE  turn(i) \in 1..N /\ turn(turn(i)) = i /\ r[i] = es[turn(i)] /\ r[turn(i)] = es[i]
    OBVIOUS
  <2>1. turn(i) \in 1..N /\ turn(turn(i)) = i /\ (N - i) + 1 = turn(i) /\ (N - turn(i)) + 1 = i
    BY <1>1
  <2> HIDE DEF N, r, turn
  <2> QED
    BY <1>2, <2>1
<1>4. Len(r) = N /\ DOMAIN r = 1..N
  <2> HIDE DEF N, r
  <2> QED
    BY <1>1, <1>2
<1> HIDE DEF r, N, turn
<1>5. IsRequest(r)
  BY <1>1, <1>3, <1>4 DEF IsRequest
<1>6. Available(r) = {turn(i) : i \in Available(es)}
  <2>1. \A i \in 1..N : i \in Available(r) <=> turn(i) \in Available(es)
    BY <1>1, <1>3, <1>4 DEF Available
  <2>2. Available(r) \subseteq 1..N /\ Available(es) \subseteq 1..N
    BY <1>1, <1>4 DEF Available
  <2>3. \A i \in Available(r) : i \in {turn(j) : j \in Available(es)}
    BY <1>3, <2>1, <2>2
  <2>4. \A i \in Available(es) : turn(i) \in Available(r)
    BY <1>3, <2>1, <2>2
  <2> QED
    BY <2>3, <2>4
<1>7. Winners(r, direction) = {turn(i) : i \in Winners(es, direction)}
  <2>1. Winners(r, direction) =
          {i \in Available(r) :
             \A k \in Available(r) : ~Better(direction, r[k].measured, r[i].measured)}
    BY <1>5, WinnersAreUnbeaten
  <2>2. Winners(es, direction) =
          {i \in Available(es) :
             \A k \in Available(es) : ~Better(direction, es[k].measured, es[i].measured)}
    BY WinnersAreUnbeaten
  <2>3. Available(r) \subseteq 1..N /\ Available(es) \subseteq 1..N
    BY <1>1, <1>4 DEF Available
  <2>4. \A i \in Available(es) : turn(i) \in Available(r) /\ r[turn(i)] = es[i]
    BY <1>3, <1>6, <2>3
  <2>5. \A i \in Available(r) : turn(i) \in Available(es) /\ r[i] = es[turn(i)] /\ turn(turn(i)) = i
    BY <1>3, <1>6, <2>3
  <2>6. \A i \in Winners(es, direction) : turn(i) \in Winners(r, direction)
    BY <2>1, <2>2, <2>4, <2>5
  <2>7. \A i \in Winners(r, direction) : turn(i) \in Winners(es, direction) /\ turn(turn(i)) = i
    BY <2>1, <2>2, <2>4, <2>5
  <2> QED
    BY <2>6, <2>7
<1>8. Differences(r) = Differences(es)
  <2> SUFFICES ASSUME NEW key PROVE key \in Differences(r) <=> key \in Differences(es)
    OBVIOUS
  <2>1. key \in Differences(r) <=>
          /\ key \in ContextKeys \cup ConfigurationKeys
          /\ \E i, k \in 1..N : r[i][key] # r[k][key]
    <3>1. IsRequest(r) /\ Len(r) = N
      BY <1>4, <1>5
    <3> HIDE DEF r
    <3> QED
      BY <3>1, DifferencesAreOfTwo
  <2>2. key \in Differences(es) <=>
          /\ key \in ContextKeys \cup ConfigurationKeys
          /\ \E i, k \in 1..N : es[i][key] # es[k][key]
    BY <1>1, DifferencesAreOfTwo DEF N
  <2>3. (\E i, k \in 1..N : r[i][key] # r[k][key]) => \E i, k \in 1..N : es[i][key] # es[k][key]
    BY <1>3
  <2>4. (\E i, k \in 1..N : es[i][key] # es[k][key]) => \E i, k \in 1..N : r[i][key] # r[k][key]
    BY <1>3
  <2> QED
    BY <2>1, <2>2, <2>3, <2>4
<1> QED
  BY <1>1, <1>4, <1>5, <1>6, <1>7, <1>8 DEF r, N, turn

\* A metric is a number, also when the run does not have it.
LEMMA EntriesAreMeasured ==
  ASSUME NEW entry \in Entry
  PROVE  entry.measured \in Int
<1>1. PICK context \in Altered(ContextKeys \cup ConfigurationKeys), value \in Measured \cup {NoValue} :
        entry = EntryOf(context, value)
  BY DEF Entry
<1>2. entry.measured = value
  BY <1>1 DEF EntryOf
<1> QED
  BY <1>2, ComparisonAssumption DEF NoValue

\* What is said of all runs is what would be said of them two by two, in either
\* order, however many they are.
LEMMA AnyComparisonIsTrue ==
  ASSUME NEW n \in Nat, NEW entries \in [1..n -> Entry], NEW direction \in Directions
  PROVE  ComparesTruly(entries, direction)
<1> DEFINE two(i, k) == <<entries[i], entries[k]>>
           W == Winners(entries, direction)
           Av == Available(entries)
           rev == Reverse(entries)
           turned(s) == {Len(entries) + 1 - i : i \in s}
           tie == \E i, k \in W : i # k
<1>1. IsRequest(entries)
  <2>1. Len(entries) = n /\ DOMAIN entries = 1..n
    OBVIOUS
  <2>2. \A i \in 1..n : entries[i].measured \in Int
    BY EntriesAreMeasured
  <2> QED
    BY <2>1, <2>2 DEF IsRequest
<1>2. \A key : key \in Differences(entries) <=>
        /\ key \in ContextKeys \cup ConfigurationKeys
        /\ \E i, k \in DOMAIN entries : entries[i][key] # entries[k][key]
  BY <1>1, DifferencesAreOfTwo DEF IsRequest
<1>3. \A i, k \in DOMAIN entries : \A key : key \in Differences(two(i, k)) <=>
        key \in ContextKeys \cup ConfigurationKeys /\ entries[i][key] # entries[k][key]
  BY <1>1, OfTwo
<1>4. ApplesToApples(entries) <=> \A i, k \in DOMAIN entries : ApplesToApples(two(i, k))
  <2> HIDE DEF two
  <2> QED
    BY <1>2, <1>3 DEF ApplesToApples
<1>5. Differences(entries) = UNION {Differences(two(i, k)) : i, k \in DOMAIN entries}
  <2> HIDE DEF two
  <2>1. \A key \in Differences(entries) : \E i, k \in DOMAIN entries : key \in Differences(two(i, k))
    BY <1>2, <1>3
  <2>2. \A i, k \in DOMAIN entries : \A key \in Differences(two(i, k)) : key \in Differences(entries)
    BY <1>2, <1>3
  <2> QED
    BY <2>1, <2>2
<1>6. /\ Av = {} <=> \A i \in DOMAIN entries : entries[i].measured = NoValue
      /\ Av \subseteq DOMAIN entries
  BY DEF Available
<1>7. /\ W = {i \in Av : \A k \in Av : ~Better(direction, entries[k].measured, entries[i].measured)}
      /\ Av # {} => W # {}
  BY <1>1, WinnersAreUnbeaten
<1>8. IsFiniteSet(W)
  <2>1. W \in SUBSET (1..Len(entries)) /\ Len(entries) \in Nat
    BY <1>1, <1>6, <1>7 DEF IsRequest
  <2>2. IsFiniteSet(1..Len(entries))
    BY <2>1, FS_Interval
  <2> HIDE DEF W
  <2> QED
    BY <2>1, <2>2, FS_Subset
<1>9. Cardinality(W) > 1 <=> tie
  <2> HIDE DEF W
  <2> QED
    BY <1>8, SeveralDiffer
<1>10. Outcome(entries, direction)
         = IF Av = {} THEN "unavailable" ELSE IF tie THEN "tie" ELSE "winner"
  <2> HIDE DEF Av, W, tie
  <2> QED
    BY <1>9 DEF Outcome, Av, W
<1>11. W = {i \in Av : \A k \in DOMAIN entries : k # i => 1 \in Winners(two(i, k), direction)}
  <2>1. ASSUME NEW i \in Av, NEW k \in DOMAIN entries
        PROVE  1 \in Winners(two(i, k), direction) <=>
                 (k \in Av => ~Better(direction, entries[k].measured, entries[i].measured))
    BY <1>1, <1>6, OfTwo
  <2>2. \A i \in Av : ~Better(direction, entries[i].measured, entries[i].measured)
    <3>1. \A i \in Av : entries[i].measured \in Int
      BY <1>1, <1>6 DEF IsRequest
    <3> QED
      BY <3>1 DEF Better
  <2> HIDE DEF two, Av, W
  <2>3. \A i \in Av :
          (\A k \in Av : ~Better(direction, entries[k].measured, entries[i].measured))
            <=> \A k \in DOMAIN entries : k # i => 1 \in Winners(two(i, k), direction)
    BY <1>6, <2>1, <2>2
  <2> QED
    BY <1>7, <2>3
<1>12. /\ IsRequest(rev) /\ Available(rev) = turned(Av)
       /\ Winners(rev, direction) = turned(W)
       /\ Differences(rev) = Differences(entries)
  BY <1>1, Turned
<1>13. Outcome(rev, direction) = Outcome(entries, direction)
  <2>1. turned(Av) = {} <=> Av = {}
    <3> HIDE DEF Av
    <3> QED
      OBVIOUS
  <2>2. Cardinality(turned(W)) > 1 <=> tie
    <3>1. W \subseteq Int /\ Len(entries) \in Int
      BY <1>1, <1>6, <1>7 DEF IsRequest
    <3>2. IsFiniteSet(turned(W))
      <4> DEFINE turn == [i \in W |-> Len(entries) + 1 - i]
      <4>1. turn \in [W -> turned(W)] /\ \A x \in turned(W) : \E i \in W : turn[i] = x
        OBVIOUS
      <4> HIDE DEF W, turned, turn
      <4>2. turn \in Surjection(W, turned(W))
        BY <4>1 DEF Surjection
      <4> QED
        BY <1>8, <4>2, FS_Surjection
    <3>3. Cardinality(turned(W)) > 1 <=> \E x, y \in turned(W) : x # y
      <4> HIDE DEF W, turned
      <4> QED
        BY <3>2, SeveralDiffer
    <3>4. (\E x, y \in turned(W) : x # y) <=> tie
      <4> DEFINE turn(i) == Len(entries) + 1 - i
      <4>1. \A i, k \in W : i # k => turn(i) # turn(k)
        <5> HIDE DEF W
        <5> QED
          BY <3>1
      <4>2. turned(W) = {turn(i) : i \in W}
        OBVIOUS
      <4> HIDE DEF W, turned, turn
      <4> QED
        BY <4>1, <4>2
    <3> QED
      BY <3>3, <3>4
  <2>3. Outcome(rev, direction)
          = IF turned(Av) = {} THEN "unavailable"
            ELSE IF Cardinality(turned(W)) > 1 THEN "tie" ELSE "winner"
    BY <1>12 DEF Outcome
  <2> HIDE DEF Av, W, turned, tie
  <2> QED
    BY <1>10, <2>1, <2>2, <2>3
<1>14. Outcome(entries, direction) = "unavailable" <=> Av = {}
  <2> HIDE DEF Av, tie
  <2> QED
    BY <1>10
<1>15. Outcome(entries, direction) # "unavailable" => (Outcome(entries, direction) = "tie") = tie
  <2> HIDE DEF Av
  <2> QED
    BY <1>10
<1> QED
  <2>1. ComparesTruly(entries, direction) <=>
          /\ ApplesToApples(entries) <=> \A i, k \in DOMAIN entries : ApplesToApples(two(i, k))
          /\ Differences(entries) = UNION {Differences(two(i, k)) : i, k \in DOMAIN entries}
          /\ Outcome(entries, direction) = "unavailable" <=>
               \A i \in DOMAIN entries : entries[i].measured = NoValue
          /\ Outcome(entries, direction) # "unavailable" =>
               /\ W = {i \in Av : \A k \in DOMAIN entries : k # i => 1 \in Winners(two(i, k), direction)}
               /\ (Outcome(entries, direction) = "tie") = tie
               /\ Winners(rev, direction) = turned(W)
          /\ Outcome(rev, direction) = Outcome(entries, direction)
          /\ Differences(rev) = Differences(entries)
    BY DEF ComparesTruly
  <2> HIDE DEF two, W, Av, rev, turned, tie
  <2> QED
    BY <1>4, <1>5, <1>6, <1>11, <1>12, <1>13, <1>14, <1>15, <2>1

\* No runs, in no order, are an exception.
LEMMA NoneMisreported == Misreported = {}
<1> SUFFICES ASSUME NEW q \in (UNION {[1..n -> Entry] : n \in 2..MaxCompared}) \X Directions
             PROVE  ComparesTruly(q[1], q[2])
  BY DEF Misreported
<1>1. PICK n \in 2..MaxCompared : q[1] \in [1..n -> Entry]
  OBVIOUS
<1>2. n \in Nat /\ q[2] \in Directions
  BY ComparisonAssumption
<1> QED
  BY <1>1, <1>2, AnyComparisonIsTrue

\* Whatever evidence is accepted is of one run, and a comparison of any number
\* of runs says what comparisons of every two of them say (generate_report.py,
\* compare_runs.py).
THEOREM ComparisonsStayTruthful == Spec => []ComparisonsAreTruthful
<1>1. ComparisonsAreTruthful
  BY NonePatchwork, NoneMisreported DEF ComparisonsAreTruthful
<1> QED
  BY <1>1, PTL

-----------------------------------------------------------------------------
\* Latencies.

\* The percentile is the nearest rank, of any number of latencies.
LEMMA AnyPercentileIsNearest ==
  ASSUME NEW n \in Nat \ {0}
  PROVE  IsNearestRank(n)
<1> DEFINE c == (95 * n + 99) \div 100
<1>1. c \in Int /\ 100 * c <= 95 * n + 99 /\ 95 * n + 99 < 100 * c + 100
  OBVIOUS
<1>2. c >= 1
  BY <1>1
<1>3. P95Index(n) = IF c > 1 THEN c - 1 ELSE 0
  BY DEF P95Index
<1> HIDE DEF c
<1>4. P95Index(n) + 1 = c
  BY <1>1, <1>2, <1>3
<1>5. c \in 1..n /\ 100 * c >= 95 * n /\ 100 * (c - 1) < 95 * n
  BY <1>1, <1>2
<1> QED
  BY <1>4, <1>5 DEF IsNearestRank

\* No number of latencies is an exception.
LEMMA NoneMisranked == Misranked = {}
  BY AnyPercentileIsNearest, MetricsAssumption DEF Misranked

-----------------------------------------------------------------------------
\* Prefix sums.

\* What a grade is worth: powers of two are counts of subsets.
Worth(grade) == 2^grade - 1

\* A higher grade is worth more, and none is worth nothing.
LEMMA WorthGrows ==
  /\ Worth(0) = 0
  /\ \A i \in Nat : Worth(i) \in Nat
  /\ \A i, k \in Nat : i <= k => Worth(i) <= Worth(k)
<1>1. ASSUME NEW i \in Nat
      PROVE  IsFiniteSet(SUBSET (1..i)) /\ Cardinality(SUBSET (1..i)) = 2^i
  <2>1. IsFiniteSet(1..i) /\ Cardinality(1..i) = i
    BY FS_Interval
  <2> QED
    BY <2>1, FS_SUBSET
<1>2. \A i \in Nat : 2^i \in Nat
  BY <1>1, FS_CardinalityType
<1>3. \A i, k \in Nat : i <= k => 2^i <= 2^k
  <2> SUFFICES ASSUME NEW i \in Nat, NEW k \in Nat, i <= k PROVE 2^i <= 2^k
    OBVIOUS
  <2>1. SUBSET (1..i) \in SUBSET (SUBSET (1..k))
    OBVIOUS
  <2> DEFINE small == SUBSET (1..i)
             large == SUBSET (1..k)
  <2>2. IsFiniteSet(large) /\ small \in SUBSET large
    BY <1>1, <2>1
  <2>3. Cardinality(small) = 2^i /\ Cardinality(large) = 2^k
    BY <1>1
  <2> HIDE DEF small, large
  <2>4. Cardinality(small) <= Cardinality(large)
    BY <2>2, FS_Subset
  <2> QED
    BY <2>3, <2>4
<1>4. 2^0 = 1
  <2>1. SUBSET (1..0) = {{}}
    OBVIOUS
  <2>2. Cardinality({{}}) = 1
    BY FS_Singleton
  <2> QED
    BY <1>1, <2>1, <2>2
<1>5. ASSUME NEW i \in Nat PROVE 2^i >= 1
  <2>1. 0 \in Nat /\ 0 <= i
    OBVIOUS
  <2> QED
    BY <1>2, <1>3, <1>4, <2>1
<1> QED
  BY <1>2, <1>3, <1>4, <1>5 DEF Worth

OfNaturals(f) == \A i \in Nat \ {0} : f[i] \in Nat

\* The sum of the first values of a sequence of natural numbers.
Sums(f) == CHOOSE total \in [Nat -> Nat] :
             total = [i \in Nat |-> IF i = 0 THEN 0 ELSE total[i - 1] + f[i]]

\* The sum exists, starts at nothing and adds one value after the other.
LEMMA SumsAdd ==
  ASSUME NEW f, OfNaturals(f)
  PROVE  /\ Sums(f) \in [Nat -> Nat]
         /\ Sums(f)[0] = 0
         /\ \A i \in Nat \ {0} : Sums(f)[i] = Sums(f)[i - 1] + f[i]
<1> DEFINE step == [pair \in (Nat \ {0}) \X Nat |-> pair[2] + f[pair[1]]]
<1>1. \A i \in Nat \ {0} : \A v \in Nat : step[<<i, v>>] = v + f[i] /\ step[<<i, v>>] \in Nat
  BY DEF OfNaturals
<1> HIDE DEF step
<1>2. \E total \in [Nat -> Nat] : Recurs(total, Nat, 0, step)
  <2>1. StartsAtZero(Nat) /\ StepsInto(Nat, step)
    BY <1>1 DEF StartsAtZero, StepsInto
  <2> QED
    BY <2>1, RecursionIsDefined
<1>3. PICK total \in [Nat -> Nat] : \A i \in Nat : total[i] = IF i = 0 THEN 0 ELSE step[<<i, total[i - 1]>>]
  BY <1>2 DEF Recurs
<1>4. total = [i \in Nat |-> IF i = 0 THEN 0 ELSE total[i - 1] + f[i]]
  <2> DEFINE body(i) == IF i = 0 THEN 0 ELSE total[i - 1] + f[i]
  <2>1. ASSUME NEW i \in Nat PROVE total[i] = body(i)
    <3>1. CASE i = 0
      BY <1>3, <3>1
    <3>2. CASE i # 0
      <4>1. total[i - 1] \in Nat /\ i \in Nat \ {0}
        BY <3>2
      <4>2. total[i] = step[<<i, total[i - 1]>>]
        BY <1>3, <3>2
      <4> QED
        BY <1>1, <3>2, <4>1, <4>2
    <3> QED
      BY <3>1, <3>2
  <2> HIDE DEF body
  <2>2. total = [i \in Nat |-> body(i)]
    BY <2>1
  <2> QED
    BY <2>2 DEF body
<1>5. Sums(f) \in [Nat -> Nat] /\ Sums(f) = [i \in Nat |-> IF i = 0 THEN 0 ELSE Sums(f)[i - 1] + f[i]]
  <2> DEFINE Adds(sum) == sum = [i \in Nat |-> IF i = 0 THEN 0 ELSE sum[i - 1] + f[i]]
  <2>1. \E sum \in [Nat -> Nat] : Adds(sum)
    BY <1>4
  <2>2. Sums(f) = CHOOSE sum \in [Nat -> Nat] : Adds(sum)
    BY DEF Sums
  <2> HIDE DEF Adds
  <2>3. Sums(f) \in [Nat -> Nat] /\ Adds(Sums(f))
    BY <2>1, <2>2
  <2> QED
    BY <2>3 DEF Adds
<1>6. \A i \in Nat : Sums(f)[i] = IF i = 0 THEN 0 ELSE Sums(f)[i - 1] + f[i]
  BY <1>5
<1> QED
  BY <1>5, <1>6

\* The gain of a prefix is such a sum.
LEMMA GainIsSum ==
  ASSUME NEW gains, NEW n \in Nat, NEW f, OfNaturals(f),
         \A i \in 1..n : f[i] = Worth(gains[i])
  PROVE  GainUpTo(gains, n) = Sums(f)[n]
<1> DEFINE Adds(total) == total = [i \in 0..n |-> IF i = 0 THEN 0 ELSE total[i - 1] + (2^gains[i] - 1)]
           got == CHOOSE total : Adds(total)
           s == Sums(f)
           start == [i \in 0..n |-> s[i]]
<1>1. GainUpTo(gains, n) = got[n]
  BY DEF GainUpTo
<1>2. /\ s \in [Nat -> Nat] /\ s[0] = 0
      /\ \A i \in Nat \ {0} : s[i] = s[i - 1] + f[i]
  BY SumsAdd
<1> HIDE DEF s
<1>3. Adds(start)
  <2> DEFINE body(i) == IF i = 0 THEN 0 ELSE start[i - 1] + (2^gains[i] - 1)
             value(i) == s[i]
  <2>1. ASSUME NEW i \in 0..n PROVE value(i) = body(i)
    <3>1. CASE i = 0
      BY <1>2, <3>1
    <3>2. CASE i # 0
      <4>1. i \in 1..n /\ i - 1 \in 0..n /\ i \in Nat \ {0}
        BY <3>2
      <4>2. start[i - 1] = s[i - 1]
        BY <4>1
      <4>3. f[i] = 2^gains[i] - 1
        BY <4>1 DEF Worth
      <4>4. s[i] = s[i - 1] + f[i]
        BY <1>2, <4>1
      <4> QED
        BY <3>2, <4>2, <4>3, <4>4
    <3> QED
      BY <3>1, <3>2
  <2>2. start = [i \in 0..n |-> value(i)]
    OBVIOUS
  <2> HIDE DEF body, value, start
  <2>3. start = [i \in 0..n |-> body(i)]
    BY <2>1, <2>2
  <2> QED
    BY <2>3 DEF body
<1>4. Adds(got)
  <2> HIDE DEF Adds, start
  <2> QED
    BY <1>3
<1> HIDE DEF got
<1>5. \A i \in 0..n : got[i] = IF i = 0 THEN 0 ELSE got[i - 1] + (2^gains[i] - 1)
  BY <1>4
<1> DEFINE Same == {i \in Nat : got[i] = s[i]}
<1>6. 0 \in Same
  BY <1>2, <1>5
<1>7. ASSUME NEW i \in 1..n, i - 1 \in Same PROVE i \in Same
  <2>1. got[i] = got[i - 1] + (2^gains[i] - 1) /\ s[i] = s[i - 1] + f[i] /\ got[i - 1] = s[i - 1]
    BY <1>2, <1>5, <1>7
  <2>2. f[i] = 2^gains[i] - 1
    BY DEF Worth
  <2> QED
    BY <2>1, <2>2
<1>8. n \in Same
  <2> HIDE DEF Same
  <2>1. \A i \in 0..n : i \in Same
    BY <1>6, <1>7, InductionUpTo
  <2> QED
    BY <2>1
<1> QED
  BY <1>1, <1>8 DEF s

\* A sum of natural numbers grows with the number of those that are summed.
LEMMA SumsGrow ==
  ASSUME NEW f, OfNaturals(f),
         NEW i \in Nat, NEW k \in Nat, i <= k
  PROVE  Sums(f)[i] <= Sums(f)[k]
<1> USE DEF OfNaturals
<1> DEFINE s == Sums(f)
           Grown == {d \in Nat : s[i] <= s[i + d]}
<1>1. s \in [Nat -> Nat] /\ \A n \in Nat \ {0} : s[n] = s[n - 1] + f[n]
  <2> HIDE DEF OfNaturals
  <2> QED
    BY SumsAdd
<1> HIDE DEF s
<1>2. 0 \in Grown
  BY <1>1
<1>3. ASSUME NEW d \in 1..(k - i), d - 1 \in Grown PROVE d \in Grown
  <2>1. i + d \in Nat \ {0} /\ i + (d - 1) = (i + d) - 1 /\ (i + d) - 1 \in Nat
    OBVIOUS
  <2>2. s[i + d] = s[(i + d) - 1] + f[i + d] /\ f[i + d] \in Nat
    BY <1>1, <2>1
  <2>3. s[i] <= s[(i + d) - 1]
    BY <1>3, <2>1
  <2>4. s[i] \in Nat /\ s[(i + d) - 1] \in Nat /\ s[i + d] \in Nat
    BY <1>1, <2>1
  <2>5. s[i] <= s[i + d]
    BY <2>2, <2>3, <2>4
  <2> QED
    BY <2>5
<1>4. k - i \in Grown
  <2> DEFINE distance == k - i
  <2>1. distance \in Nat
    OBVIOUS
  <2>2. \A d \in 1..distance : d - 1 \in Grown => d \in Grown
    BY <1>3
  <2> HIDE DEF Grown, distance
  <2>3. \A d \in 0..distance : d \in Grown
    BY <1>2, <2>1, <2>2, InductionUpTo
  <2> QED
    BY <2>1, <2>3 DEF distance
<1>5. i + (k - i) = k
  OBVIOUS
<1> QED
  BY <1>4, <1>5 DEF s

Falls(f) == \A i, k \in Nat \ {0} : i <= k => f[k] <= f[i]

\* The values at the positions in A.
Only(f, A) == [p \in Nat \ {0} |-> IF p \in A THEN f[p] ELSE 0]

\* The values at other positions count as nothing.
LEMMA OnlyIsNatural ==
  ASSUME NEW f, OfNaturals(f), NEW A
  PROVE  /\ OfNaturals(Only(f, A))
         /\ \A i \in Nat \ {0} : Only(f, A)[i] \in Nat
         /\ \A i \in Nat \ {0} : Only(f, A)[i] = IF i \in A THEN f[i] ELSE 0
  BY DEF Only, OfNaturals

\* One more position adds its value.
LEMMA PositionAdded ==
  ASSUME NEW f, OfNaturals(f),
         NEW A, NEW p \in Nat \ {0}, p \notin A, NEW B, B = A \cup {p},
         NEW n \in Nat, p <= n
  PROVE  Sums(Only(f, B))[n] = Sums(Only(f, A))[n] + f[p]
<1> DEFINE s == Sums(Only(f, A))
           t == Sums(Only(f, B))
           more(q) == IF p <= q THEN f[p] ELSE 0
           Right == {q \in Nat : t[q] = s[q] + more(q)}
<1>1. /\ OfNaturals(Only(f, A)) /\ OfNaturals(Only(f, B))
      /\ \A i \in Nat \ {0} : Only(f, A)[i] \in Nat /\ Only(f, B)[i] \in Nat
      /\ \A i \in Nat \ {0} : Only(f, B)[i] = IF i = p THEN f[p] ELSE Only(f, A)[i]
      /\ Only(f, A)[p] = 0
  BY OnlyIsNatural
<1>2. /\ s \in [Nat -> Nat] /\ s[0] = 0 /\ t \in [Nat -> Nat] /\ t[0] = 0
      /\ \A i \in Nat \ {0} : s[i] = s[i - 1] + Only(f, A)[i]
      /\ \A i \in Nat \ {0} : t[i] = t[i - 1] + Only(f, B)[i]
  BY <1>1, SumsAdd
<1> HIDE DEF s, t
<1>3. 0 \in Right
  BY <1>2
<1>4. ASSUME NEW q \in 1..n, q - 1 \in Right PROVE q \in Right
  <2>1. q \in Nat \ {0} /\ q - 1 \in Nat
    OBVIOUS
  <2>2. t[q] = t[q - 1] + Only(f, B)[q] /\ s[q] = s[q - 1] + Only(f, A)[q]
    BY <1>2, <2>1
  <2>3. t[q - 1] = s[q - 1] + more(q - 1)
    BY <1>4
  <2>4. t[q - 1] \in Nat /\ s[q - 1] \in Nat /\ Only(f, A)[q] \in Nat /\ f[p] \in Nat
    BY <1>1, <1>2, <2>1 DEF OfNaturals
  <2>5. more(q - 1) + Only(f, B)[q] = more(q) + Only(f, A)[q]
    <3>1. CASE q = p
      <4>1. Only(f, B)[q] = f[p] /\ Only(f, A)[q] = 0
        BY <1>1, <2>1, <3>1
      <4>2. more(q - 1) = 0 /\ more(q) = f[p]
        BY <2>1, <3>1
      <4> QED
        BY <2>4, <4>1, <4>2
    <3>2. CASE q # p
      <4>1. (p <= q) = (p <= q - 1)
        BY <2>1, <3>2
      <4> QED
        BY <1>1, <2>1, <2>4, <3>2, <4>1
    <3> QED
      BY <3>1, <3>2
  <2>6. more(q - 1) \in Nat /\ more(q) \in Nat /\ Only(f, B)[q] \in Nat
    BY <1>1, <2>1, <2>4
  <2> HIDE DEF more
  <2>7. t[q] = s[q] + more(q)
    BY <2>2, <2>3, <2>4, <2>5, <2>6
  <2> QED
    BY <2>1, <2>7
<1>5. n \in Right
  <2> HIDE DEF Right
  <2> QED
    BY <1>3, <1>4, InductionUpTo
<1> QED
  BY <1>5 DEF s, t

\* However positions are chosen, the first ones weigh as much.
LEMMA HeaviestFirst ==
  ASSUME NEW f, OfNaturals(f),
         Falls(f),
         NEW A, NEW n \in Nat
  PROVE  /\ Cardinality(A \cap 1..n) \in 0..n
         /\ Sums(Only(f, A))[n] <= Sums(f)[Cardinality(A \cap 1..n)]
<1> DEFINE count(q) == Cardinality(A \cap 1..q)
           s == Sums(Only(f, A))
           t == Sums(f)
           Right == {q \in Nat : s[q] <= t[count(q)]}
<1>1. /\ OfNaturals(Only(f, A))
      /\ \A i \in Nat \ {0} : Only(f, A)[i] = IF i \in A THEN f[i] ELSE 0
  BY OnlyIsNatural
<1>2. /\ s \in [Nat -> Nat] /\ s[0] = 0 /\ t \in [Nat -> Nat] /\ t[0] = 0
      /\ \A i \in Nat \ {0} : s[i] = s[i - 1] + Only(f, A)[i]
      /\ \A i \in Nat \ {0} : t[i] = t[i - 1] + f[i]
  BY <1>1, SumsAdd
<1> HIDE DEF s, t
<1>3. \A q \in Nat : IsFiniteSet(A \cap 1..q) /\ count(q) \in 0..q
  <2> TAKE q \in Nat
  <2>1. IsFiniteSet(1..q) /\ Cardinality(1..q) = q
    BY FS_Interval
  <2>2. A \cap 1..q \in SUBSET (1..q)
    OBVIOUS
  <2>3. IsFiniteSet(A \cap 1..q) /\ Cardinality(A \cap 1..q) <= Cardinality(1..q)
    BY <2>1, <2>2, FS_Subset
  <2>4. Cardinality(A \cap 1..q) \in Nat
    BY <2>3, FS_CardinalityType
  <2> QED
    BY <2>1, <2>3, <2>4
<1>4. 0 \in Right
  <2>1. count(0) = 0
    BY <1>3
  <2> QED
    BY <1>2, <2>1
<1>5. ASSUME NEW q \in 1..n, q - 1 \in Right PROVE q \in Right
  <2>1. q \in Nat \ {0} /\ q - 1 \in Nat
    OBVIOUS
  <2>2. s[q] = s[q - 1] + Only(f, A)[q] /\ s[q - 1] <= t[count(q - 1)]
    BY <1>2, <1>5, <2>1
  <2>3. count(q - 1) \in 0..(q - 1) /\ count(q) \in 0..q
    BY <1>3, <2>1
  <2>4. CASE q \in A
    <3>1. A \cap 1..q = (A \cap 1..(q - 1)) \cup {q} /\ q \notin A \cap 1..(q - 1)
      BY <2>1, <2>4
    <3>2. count(q) = count(q - 1) + 1
      <4>1. IsFiniteSet(A \cap 1..(q - 1))
        BY <1>3, <2>1
      <4> DEFINE less == A \cap 1..(q - 1)
      <4>2. Cardinality(less \cup {q}) = Cardinality(less) + 1
        <5> HIDE DEF less
        <5>1. IsFiniteSet(less) /\ q \notin less
          BY <3>1, <4>1 DEF less
        <5> QED
          BY <5>1, FS_AddElement
      <4> QED
        BY <3>1, <4>2
    <3> DEFINE c == count(q - 1)
    <3>3. c \in Nat /\ c + 1 \in Nat \ {0} /\ c + 1 <= q /\ count(q) = c + 1
      BY <2>1, <2>3, <3>2
    <3> HIDE DEF c
    <3>4. t[c + 1] = t[c] + f[c + 1] /\ f[q] <= f[c + 1]
      <4>1. (c + 1) - 1 = c
        BY <3>3
      <4> QED
        BY <1>2, <2>1, <3>3, <4>1 DEF Falls
    <3>5. s[q] = s[q - 1] + f[q] /\ s[q - 1] <= t[c]
      BY <1>1, <2>1, <2>2, <2>4 DEF c
    <3>6. s[q] \in Nat /\ s[q - 1] \in Nat /\ t[c] \in Nat /\ f[q] \in Nat /\ f[c + 1] \in Nat
      BY <1>2, <2>1, <3>3 DEF OfNaturals
    <3>7. s[q] <= t[c + 1]
      BY <3>4, <3>5, <3>6
    <3> QED
      BY <2>1, <3>3, <3>7
  <2>5. CASE q \notin A
    <3>1. A \cap 1..q = A \cap 1..(q - 1)
      BY <2>1, <2>5
    <3>2. s[q] = s[q - 1]
      BY <1>1, <1>2, <2>1, <2>2, <2>5
    <3> QED
      BY <2>1, <2>2, <3>1, <3>2
  <2> QED
    BY <2>4, <2>5
<1>6. n \in Right
  <2> HIDE DEF Right
  <2> QED
    BY <1>4, <1>5, InductionUpTo
<1> QED
  BY <1>3, <1>6 DEF s, t

\* Values taken from distinct positions of a falling sequence, in any order and
\* with gaps, never add up to more than its first values do.
LEMMA DistinctPositions ==
  ASSUME NEW f, OfNaturals(f),
         Falls(f),
         NEW J \in Nat, NEW m \in Nat, NEW place \in [1..m -> 0..J],
         \A i, k \in 1..m : place[i] = place[k] /\ place[i] # 0 => i = k,
         NEW g, OfNaturals(g),
         \A i \in 1..m : g[i] = IF place[i] = 0 THEN 0 ELSE f[place[i]]
  PROVE  Sums(g)[m] <= Sums(f)[IF m < J THEN m ELSE J]
<1> DEFINE A(i) == {place[x] : x \in 1..i} \ {0}
           s == Sums(g)
           chosen(i) == Sums(Only(f, A(i)))[J]
           Right == {i \in Nat : /\ s[i] = chosen(i)
                                 /\ IsFiniteSet(A(i)) /\ Cardinality(A(i)) <= i}
<1>1. s \in [Nat -> Nat] /\ s[0] = 0 /\ \A i \in Nat \ {0} : s[i] = s[i - 1] + g[i]
  BY SumsAdd
<1>2. /\ Sums(f) \in [Nat -> Nat] /\ Sums(f)[0] = 0
  BY SumsAdd
<1> HIDE DEF s
<1>3. \A i \in Nat : chosen(i) \in Nat
  <2> TAKE i \in Nat
  <2> DEFINE B == A(i)
  <2> HIDE DEF B
  <2>1. OfNaturals(Only(f, B))
    BY OnlyIsNatural
  <2>2. Sums(Only(f, B)) \in [Nat -> Nat]
    BY <2>1, SumsAdd
  <2> QED
    BY <2>2 DEF B
<1>4. 0 \in Right
  <2>1. A(0) = {}
    OBVIOUS
  <2>2. IsFiniteSet({}) /\ Cardinality({}) = 0
    BY FS_EmptySet
  <2> DEFINE none == Sums(Only(f, {}))[J]
  <2>3. none <= Sums(f)[0]
    <3>1. {} \cap 1..J = {}
      OBVIOUS
    <3>2. none <= Sums(f)[Cardinality({} \cap 1..J)]
      BY HeaviestFirst
    <3> HIDE DEF none
    <3> QED
      BY <2>2, <3>1, <3>2
  <2>4. chosen(0) = none
    BY <2>1
  <2>5. chosen(0) \in Nat
    BY <1>3
  <2> HIDE DEF none, chosen
  <2>6. chosen(0) = 0
    BY <1>2, <2>3, <2>4, <2>5
  <2>7. s[0] = chosen(0)
    BY <1>1, <2>6
  <2> HIDE DEF A
  <2>8. IsFiniteSet(A(0)) /\ Cardinality(A(0)) = 0
    BY <2>1, <2>2, Zenon
  <2> QED
    BY <2>7, <2>8
<1>5. ASSUME NEW i \in 1..m, i - 1 \in Right PROVE i \in Right
  <2>1. i \in Nat \ {0} /\ i - 1 \in Nat /\ i - 1 \in 0..m
    OBVIOUS
  <2>2. s[i] = s[i - 1] + g[i] /\ s[i - 1] = chosen(i - 1)
    BY <1>1, <1>5, <2>1
  <2>3. IsFiniteSet(A(i - 1)) /\ Cardinality(A(i - 1)) <= i - 1 /\ Cardinality(A(i - 1)) \in Nat
    BY <1>5, FS_CardinalityType
  <2>4. CASE place[i] = 0
    <3>1. A(i) = A(i - 1)
      <4>1. 1..i = 1..(i - 1) \cup {i}
        BY <2>1
      <4> QED
        BY <2>4, <4>1
    <3>2. s[i] = s[i - 1]
      BY <1>1, <2>1, <2>2, <2>4
    <3> HIDE DEF A
    <3>3. IsFiniteSet(A(i)) /\ Cardinality(A(i)) <= i
      BY <2>1, <2>3, <3>1
    <3>4. s[i] = chosen(i)
      BY <2>2, <3>1, <3>2
    <3> QED
      BY <2>1, <3>3, <3>4
  <2>5. CASE place[i] # 0
    <3> DEFINE B == A(i - 1)
               p == place[i]
    <3>1. p \in Nat \ {0} /\ p <= J
      BY <2>5
    <3>2. A(i) = B \cup {p}
      <4>1. 1..i = 1..(i - 1) \cup {i}
        BY <2>1
      <4> QED
        BY <2>5, <4>1
    <3>3. p \notin B
      <4>1. \A x \in 1..(i - 1) : x \in 1..m /\ x # i
        BY <2>1
      <4> QED
        BY <2>5, <4>1
    <3>4. g[i] = f[p]
      BY <2>5
    <3> DEFINE more == B \cup {p}
    <3> HIDE DEF B, p
    <3>5. Sums(Only(f, more))[J] = Sums(Only(f, B))[J] + f[p]
      <4>1. p \in Nat \ {0}
        BY <3>1
      <4>2. p <= J
        BY <3>1
      <4>3. more = B \cup {p}
        OBVIOUS
      <4> HIDE DEF more
      <4> QED
        BY <3>3, <4>1, <4>2, <4>3, PositionAdded
    <3>6. s[i] = chosen(i)
      <4>1. s[i] = Sums(Only(f, B))[J] + f[p]
        BY <2>2, <3>4 DEF B
      <4> QED
        BY <3>2, <3>5, <4>1
    <3>7. IsFiniteSet(B \cup {p}) /\ Cardinality(B \cup {p}) = Cardinality(B) + 1
      <4>1. IsFiniteSet(B)
        BY <2>3 DEF B
      <4> QED
        BY <3>3, <4>1, FS_AddElement
    <3>8. Cardinality(B) <= i - 1 /\ Cardinality(B) \in Nat
      BY <2>3 DEF B
    <3>9. Cardinality(B \cup {p}) <= i
      BY <2>1, <3>7, <3>8
    <3> QED
      BY <2>1, <3>2, <3>6, <3>7, <3>9
  <2> QED
    BY <2>4, <2>5
<1>6. m \in Right
  <2>1. \A i \in 1..m : i - 1 \in Right => i \in Right
    BY <1>5
  <2> HIDE DEF Right
  <2>2. \A i \in 0..m : i \in Right
    BY ONLY <1>4, <2>1, m \in Nat, InductionUpTo
  <2> QED
    BY <2>2
<1> DEFINE B == A(m)
           c == Cardinality(B \cap 1..J)
<1>7. B \cap 1..J = B
  <2>1. \A x \in 1..m : place[x] \in 0..J
    OBVIOUS
  <2>2. \A y \in B : y \in 1..J
    BY <2>1
  <2> QED
    BY <2>2
<1>8. s[m] = Sums(Only(f, B))[J] /\ Cardinality(B) <= m
  BY <1>6
<1> HIDE DEF B
<1>9. c \in 0..J /\ Sums(Only(f, B))[J] <= Sums(f)[c] /\ c <= m
  BY <1>7, <1>8, HeaviestFirst
<1> HIDE DEF c
<1> DEFINE least == IF m < J THEN m ELSE J
<1>10. c \in Nat /\ least \in Nat /\ c <= least
  BY <1>9
<1>11. Sums(f)[c] <= Sums(f)[least]
  <2> HIDE DEF least
  <2> QED
    BY <1>10, SumsGrow
<1>12. s[m] \in Nat /\ Sums(f)[c] \in Nat /\ Sums(f)[least] \in Nat
  BY <1>1, <1>2, <1>10
<1> HIDE DEF least
<1>13. s[m] <= Sums(f)[least]
  BY <1>8, <1>9, <1>11, <1>12
<1> QED
  BY <1>13 DEF s, least

-----------------------------------------------------------------------------
\* Credits.

\* J judgments that a dataset may hold.
Authored(judged, J) ==
  /\ J \in Nat /\ DOMAIN judged = 1..J /\ Len(judged) = J
  /\ \A i \in 1..J : judged[i].grade \in Nat \ {0}

\* A dataset that is accepted has judgments, and their grades are positive.
LEMMA CasesAreAuthored ==
  ASSUME NEW judged \in ValidCases
  PROVE  Authored(judged, Len(judged)) /\ Len(judged) # 0
<1> DEFINE valid == {j \in Judgments : ValidJudgment(j)}
<1>1. \A j \in valid : j.grade \in Nat \ {0}
  <2> SUFFICES ASSUME NEW j \in valid PROVE j.grade \in Nat \ {0}
    OBVIOUS
  <2>1. j.grade \in Int /\ j.grade >= 1
    BY MetricsAssumption DEF ValidJudgment
  <2> QED
    BY <2>1
<1>2. PICK n \in 1..MaxJudged : judged \in [1..n -> valid]
  BY DEF ValidCases
<1> HIDE DEF valid
<1>3. judged \in Seq(valid) /\ DOMAIN judged = 1..n /\ n \in Nat \ {0}
  BY <1>2, MetricsAssumption
<1>4. Len(judged) = n
  BY <1>3
<1> QED
  BY <1>1, <1>2, <1>3, <1>4 DEF Authored

\* The credited judgment is one of those to choose from.
LEMMA SelectedIsCandidate ==
  ASSUME NEW judged, NEW J, Authored(judged, J), NEW open \in SUBSET (1..J), open # {}
  PROVE  Selected(judged, open) \in open
<1> DEFINE grade == [i \in 1..J |-> judged[i].grade]
<1>1. J \in Nat /\ \A i \in 1..J : grade[i] \in Int /\ grade[i] = judged[i].grade
  BY DEF Authored
<1> HIDE DEF grade
<1>2. IsFiniteSet(open)
  <2>1. IsFiniteSet(1..J)
    BY <1>1, FS_Interval
  <2> QED
    BY <2>1, FS_Subset
<1>3. \E x \in open : \A y \in open : grade[y] <= grade[x]
  BY <1>1, <1>2, GreatestValue
<1>4. PICK x \in open : \A y \in open : grade[y] <= grade[x]
  BY <1>3
<1> DEFINE best == {y \in open : grade[y] = grade[x]}
<1>5. best \subseteq Nat /\ best # {}
  <2>1. \A y \in 1..J : y \in Nat
    BY <1>1
  <2>2. x \in best
    OBVIOUS
  <2> QED
    BY <2>1, <2>2
<1>6. \E i \in best : \A y \in best : i <= y
  <2> HIDE DEF best
  <2> QED
    BY <1>5, LeastNatural
<1>7. PICK i \in best : \A y \in best : i <= y
  BY <1>6
<1>8. \A other \in open : i = other \/ Outranks(judged, i, other)
  <2> TAKE other \in open
  <2>1. i \in 1..J /\ other \in 1..J /\ i \in open
    OBVIOUS
  <2>2. grade[i] \in Int /\ grade[other] \in Int /\ grade[x] \in Int /\ i \in Int /\ other \in Int
    BY <1>1, <2>1
  <2>3. grade[other] <= grade[i]
    BY <1>4
  <2>4. grade[other] = grade[i] => i <= other
    BY <1>7
  <2>5. grade[i] > grade[other] \/ (grade[i] = grade[other] /\ (i = other \/ i < other))
    BY <2>2, <2>3, <2>4
  <2> QED
    BY <1>1, <2>1, <2>5 DEF Outranks
<1>9. \E y \in open : \A other \in open : y = other \/ Outranks(judged, y, other)
  BY <1>8
<1> QED
  BY <1>9 DEF Selected

\* What the n-th result may still be credited with, and what it is.
Open(judged, results, C, n) == Matching(judged, results[n]) \ {C[i] : i \in 1..(n - 1)}
Award(judged, results, C, n) ==
  IF Open(judged, results, C, n) = {} THEN 0 ELSE Selected(judged, Open(judged, results, C, n))

\* A result is credited with a judgment that it matches and that is still open.
LEMMA AwardIsOpen ==
  ASSUME NEW judged, NEW J, Authored(judged, J), NEW results, NEW C, NEW n
  PROVE  /\ Matching(judged, results[n]) \in SUBSET (1..J)
         /\ Open(judged, results, C, n) = {} => Award(judged, results, C, n) = 0
         /\ Open(judged, results, C, n) # {} =>
              Award(judged, results, C, n) \in Open(judged, results, C, n)
         /\ Award(judged, results, C, n) \in 0..J
<1> DEFINE open == Open(judged, results, C, n)
<1>1. Matching(judged, results[n]) \in SUBSET (1..J)
  BY DEF Matching, Authored
<1>2. open \in SUBSET (1..J)
  BY <1>1 DEF Open
<1>3. Award(judged, results, C, n) = IF open = {} THEN 0 ELSE Selected(judged, open)
  BY DEF Award
<1> HIDE DEF open
<1>4. open # {} => Selected(judged, open) \in open
  BY <1>2, SelectedIsCandidate
<1>5. J \in Nat
  BY DEF Authored
<1>6. Award(judged, results, C, n) \in 0..J
  <2>1. 0 \in 0..J /\ \A i \in 1..J : i \in 0..J
    BY <1>5
  <2>2. open # {} => Selected(judged, open) \in 0..J
    BY <1>2, <1>4, <2>1
  <2> QED
    BY <1>3, <2>1, <2>2
<1> QED
  BY <1>1, <1>3, <1>4, <1>6 DEF open

\* The award only depends on the earlier ones, and on the results so far.
LEMMA AwardLooksBack ==
  ASSUME NEW judged, NEW results, NEW others, NEW C, NEW D, NEW n \in Nat \ {0},
         results[n] = others[n], \A i \in 1..(n - 1) : C[i] = D[i]
  PROVE  Award(judged, results, C, n) = Award(judged, others, D, n)
<1>1. {C[i] : i \in 1..(n - 1)} = {D[i] : i \in 1..(n - 1)}
  OBVIOUS
<1>2. Open(judged, results, C, n) = Open(judged, others, D, n)
  BY <1>1 DEF Open
<1> QED
  BY <1>2 DEF Award

Awarded(judged, results, C, n) == \A i \in 1..n : C[i] = Award(judged, results, C, i)

\* Rankings that begin alike are credited alike as far as they do.
LEMMA CreditsAgree ==
  ASSUME NEW judged, NEW results, NEW others, NEW C, NEW D, NEW n \in Nat,
         Awarded(judged, results, C, n), Awarded(judged, others, D, n),
         \A i \in 1..n : results[i] = others[i]
  PROVE  \A i \in 1..n : C[i] = D[i]
<1> USE DEF Awarded
<1> DEFINE Same == {x \in Nat : \A i \in 1..x : C[i] = D[i]}
<1>1. 0 \in Same
  OBVIOUS
<1>2. ASSUME NEW x \in 1..n, x - 1 \in Same PROVE x \in Same
  <2>1. \A i \in 1..(x - 1) : C[i] = D[i]
    BY <1>2
  <2>2. Award(judged, results, C, x) = Award(judged, others, D, x)
    <3>1. x \in Nat \ {0} /\ results[x] = others[x]
      OBVIOUS
    <3> QED
      BY <2>1, <3>1, AwardLooksBack
  <2>3. C[x] = D[x]
    BY <2>2
  <2> QED
    BY <2>1, <2>3
<1>3. n \in Same
  <2> HIDE DEF Same
  <2>1. \A x \in 0..n : x \in Same
    BY <1>1, <1>2, InductionUpTo
  <2> QED
    BY <2>1
<1> QED
  BY <1>3
\* The credits of a ranking, one by one.
LEMMA CreditsFollow ==
  ASSUME NEW judged, NEW J, Authored(judged, J), NEW results, NEW n \in Nat, Len(results) = n
  PROVE  /\ Credits(judged, results) \in [1..n -> 0..J]
         /\ \A i \in 1..n :
              Credits(judged, results)[i] = Award(judged, results, Credits(judged, results), i)
<1> DEFINE V == Seq(0..J)
           open(i, s) == Candidates(judged, results[i], ToSet(s))
           one(i, s) == IF open(i, s) = {} THEN 0 ELSE Selected(judged, open(i, s))
           Rec(credits) == credits = [i \in 0..n |-> IF i = 0 THEN <<>>
                                                     ELSE Append(credits[i - 1], one(i, credits[i - 1]))]
           got == CHOOSE credits : Rec(credits)
<1>1. Credits(judged, results) = got[n]
  BY DEF Credits
<1>2. \A i : \A s \in V : one(i, s) = Award(judged, results, s, Len(s) + 1) \/ i # Len(s) + 1
  <2> SUFFICES ASSUME NEW s \in V
               PROVE  one(Len(s) + 1, s) = Award(judged, results, s, Len(s) + 1)
    OBVIOUS
  <2>1. Len(s) \in Nat /\ DOMAIN s = 1..Len(s)
    OBVIOUS
  <2>2. ToSet(s) = {s[i] : i \in 1..((Len(s) + 1) - 1)}
    BY <2>1 DEF ToSet
  <2>3. open(Len(s) + 1, s) = Open(judged, results, s, Len(s) + 1)
    BY <2>2 DEF Candidates, Open
  <2> HIDE DEF open
  <2> QED
    BY <2>3 DEF Award
<1>3. \A i : \A s : one(i, s) \in 0..J
  <2> TAKE i
  <2> TAKE s
  <2>1. open(i, s) \in SUBSET (1..J)
    BY DEF Candidates, Matching, Authored
  <2>2. 0 \in 0..J /\ \A x \in 1..J : x \in 0..J
    BY DEF Authored
  <2> HIDE DEF open
  <2>3. open(i, s) # {} => Selected(judged, open(i, s)) \in open(i, s)
    BY <2>1, SelectedIsCandidate
  <2> QED
    BY <2>1, <2>2, <2>3
<1> HIDE DEF open, one
<1>4. \E credits \in [0..n -> V] :
        \A i \in 0..n : credits[i] = IF i = 0 THEN <<>> ELSE Append(credits[i - 1], one(i, credits[i - 1]))
  <2> DEFINE step == [pair \in (Nat \ {0}) \X V |-> Append(pair[2], one(pair[1], pair[2]))]
             D == 0..n
  <2>1. \A i \in Nat \ {0} : \A s \in V : step[<<i, s>>] = Append(s, one(i, s))
    OBVIOUS
  <2>2. \A i \in Nat \ {0} : \A s \in V : Append(s, one(i, s)) \in V
    BY <1>3, AppendProperties
  <2> HIDE DEF step
  <2>3. StartsAtZero(D) /\ StepsInto(V, step)
    <3>1. StartsAtZero(D)
      BY DEF StartsAtZero
    <3> HIDE DEF V
    <3>2. \A i \in Nat \ {0} : \A s \in V : step[<<i, s>>] \in V
      BY <2>1, <2>2
    <3> QED
      BY <3>1, <3>2 DEF StepsInto
  <2>4. <<>> \in V
    OBVIOUS
  <2> HIDE DEF D, V
  <2>5. \E credits \in [D -> V] : Recurs(credits, D, <<>>, step)
    BY <2>3, <2>4, RecursionIsDefined
  <2>6. PICK credits \in [D -> V] :
          \A i \in D : credits[i] = IF i = 0 THEN <<>> ELSE step[<<i, credits[i - 1]>>]
    BY <2>5 DEF Recurs
  <2>7. \A i \in D : i # 0 => i \in Nat \ {0} /\ credits[i - 1] \in V
    <3>1. \A i \in D : i # 0 => i - 1 \in D /\ i \in Nat \ {0}
      BY DEF D
    <3> QED
      BY <2>6, <3>1
  <2>8. \A i \in D : credits[i] = IF i = 0 THEN <<>> ELSE Append(credits[i - 1], one(i, credits[i - 1]))
    BY <2>1, <2>6, <2>7
  <2> QED
    BY <2>8 DEF D
<1>5. Rec(got)
  <2>1. PICK credits \in [0..n -> V] :
          \A i \in 0..n : credits[i] = IF i = 0 THEN <<>> ELSE Append(credits[i - 1], one(i, credits[i - 1]))
    BY <1>4
  <2>2. Rec(credits)
    <3> DEFINE body(i) == IF i = 0 THEN <<>> ELSE Append(credits[i - 1], one(i, credits[i - 1]))
    <3>1. \A i \in 0..n : credits[i] = body(i)
      BY <2>1
    <3> HIDE DEF body, V
    <3>2. credits = [i \in 0..n |-> body(i)]
      BY <3>1
    <3> QED
      BY <3>2 DEF body
  <2> HIDE DEF Rec
  <2> QED
    BY <2>2
<1> HIDE DEF got
<1>6. got[0] = <<>> /\ \A i \in 1..n : got[i] = Append(got[i - 1], one(i, got[i - 1]))
  <2> DEFINE body(i) == IF i = 0 THEN <<>> ELSE Append(got[i - 1], one(i, got[i - 1]))
  <2>1. got = [i \in 0..n |-> body(i)]
    BY <1>5
  <2>2. \A i \in 0..n : got[i] = body(i)
    <3> HIDE DEF body
    <3> QED
      BY <2>1
  <2>3. 0 \in 0..n /\ \A i \in 1..n : i \in 0..n /\ i # 0
    OBVIOUS
  <2> QED
    BY <2>2, <2>3
<1> DEFINE Right(s, m) == /\ s \in V /\ Len(s) = m
                          /\ \A i \in 1..m : s[i] = Award(judged, results, s, i)
           Done == {m \in Nat : Right(got[m], m)}
<1>7. 0 \in Done
  <2>1. <<>> \in V /\ Len(<<>>) = 0
    OBVIOUS
  <2>2. \A i \in 1..0 : FALSE
    OBVIOUS
  <2> HIDE DEF V
  <2>3. Right(got[0], 0)
    BY <1>6, <2>1, <2>2
  <2> HIDE DEF Right
  <2> QED
    BY <2>3
<1>8. ASSUME NEW m \in 1..n, m - 1 \in Done PROVE m \in Done
  <2> DEFINE s == got[m - 1]
             t == got[m]
             v == one(m, s)
  <2>1. s \in V /\ Len(s) = m - 1 /\ \A i \in 1..(m - 1) : s[i] = Award(judged, results, s, i)
    BY <1>8
  <2>2. t = Append(s, v) /\ v \in 0..J
    BY <1>3, <1>6
  <2>3. v = Award(judged, results, s, m)
    BY <1>2, <2>1
  <2> HIDE DEF s, t, v
  <2>4. t \in V /\ Len(t) = m /\ t[m] = v /\ \A i \in 1..(m - 1) : t[i] = s[i]
    BY <2>1, <2>2, AppendProperties
  <2>5. ASSUME NEW i \in 1..m PROVE Award(judged, results, t, i) = Award(judged, results, s, i)
    <3>1. i \in Nat \ {0} /\ \A x \in 1..(i - 1) : t[x] = s[x]
      BY <2>4
    <3> QED
      BY <3>1, AwardLooksBack
  <2>6. \A i \in 1..m : t[i] = Award(judged, results, t, i)
    BY <2>1, <2>3, <2>4, <2>5
  <2> QED
    BY <2>4, <2>6 DEF t
<1>9. Right(got[n], n)
  <2> HIDE DEF Right
  <2>1. \A m \in 1..n : m - 1 \in Done => m \in Done
    BY <1>8
  <2> HIDE DEF Done
  <2>2. \A m \in 0..n : m \in Done
    BY <1>7, <2>1, InductionUpTo
  <2>3. n \in Done
    BY <2>2
  <2> QED
    BY <2>3 DEF Done
<1>10. got[n] \in [1..n -> 0..J]
  <2>1. got[n] \in Seq(0..J) /\ Len(got[n]) = n
    BY <1>9
  <2> QED
    BY <2>1, LenProperties
<1> QED
  BY <1>1, <1>9, <1>10

\* The first k of a sequence.
Lesser(k, m) == IF k < m THEN k ELSE m
AreFirst(t, s, n) == /\ n \in Nat /\ n <= Len(s) /\ Len(t) = n /\ DOMAIN t = 1..n
                     /\ \A i \in 1..n : t[i] = s[i]

\* Cutting at k keeps the first results, in their places.
LEMMA RankedIsPrefix ==
  ASSUME NEW S, NEW s \in Seq(S), NEW k \in Nat
  PROVE  AreFirst(Ranked(s, k), s, Lesser(k, Len(s))) /\ Lesser(k, Len(s)) <= k
<1> DEFINE n == IF k < Len(s) THEN k ELSE Len(s)
<1>1. n \in Nat /\ n <= k /\ n <= Len(s)
  BY LenProperties
<1>2. Ranked(s, k) = SubSeq(s, 1, n)
  BY DEF Ranked
<1> HIDE DEF n
<1>3. \A i \in 1..n : s[i] \in S
  <2>1. \A i \in 1..n : i \in 1..Len(s)
    BY <1>1, LenProperties
  <2> QED
    BY <2>1, ElementOfSeq
<1> DEFINE t == SubSeq(s, 1, n)
<1>4. t \in Seq(S) /\ Len(t) = (IF 1 <= n THEN n - 1 + 1 ELSE 0) /\ \A i \in 1..(n - 1 + 1) : t[i] = s[1 + i - 1]
  <2>1. 1 \in Int /\ n \in Int
    BY <1>1
  <2> QED
    BY <1>3, <2>1, SubSeqProperties
<1> HIDE DEF t
<1>5. Len(t) = n /\ n - 1 + 1 = n /\ \A i \in 1..n : 1 + i - 1 = i
  BY <1>1, <1>4
<1>6. DOMAIN t = 1..n
  BY <1>4, <1>5, LenProperties
<1>7. \A i \in 1..n : t[i] = s[i]
  BY <1>4, <1>5
<1> QED
  BY <1>1, <1>2, <1>4, <1>5, <1>6, <1>7 DEF t, n, AreFirst, Lesser

\* Gains are earned by credits, and a judgment is credited once, to a result
\* that it matches.
LEMMA GainsFollowCredits ==
  ASSUME NEW judged, NEW J, Authored(judged, J),
         NEW ranked, NEW n \in Nat, Len(ranked) = n, DOMAIN ranked = 1..n,
         NEW C, C = Credits(judged, ranked), NEW gains, gains = Gains(judged, ranked)
  PROVE  /\ C \in [1..n -> 0..J] /\ DOMAIN gains = 1..n
         /\ \A i \in 1..n : /\ gains[i] = IF C[i] = 0 THEN 0 ELSE judged[C[i]].grade
                            /\ gains[i] \in Nat
                            /\ gains[i] > 0 <=> C[i] # 0
         /\ \A i \in 1..n : C[i] # 0 => C[i] \in Matching(judged, ranked[i])
         /\ \A i, k \in 1..n : C[i] = C[k] /\ C[i] # 0 => i = k
<1>1. C \in [1..n -> 0..J] /\ \A i \in 1..n : C[i] = Award(judged, ranked, C, i)
  BY CreditsFollow
<1>2. DOMAIN gains = 1..n /\ \A i \in 1..n : gains[i] = IF C[i] = 0 THEN 0 ELSE judged[C[i]].grade
  BY DEF Gains
<1>3. ASSUME NEW i \in 1..n PROVE gains[i] \in Nat /\ (gains[i] > 0 <=> C[i] # 0)
  <2>1. J \in Nat /\ C[i] \in 0..J
    BY <1>1 DEF Authored
  <2>2. CASE C[i] = 0
    BY <1>2, <2>2
  <2>3. CASE C[i] # 0
    <3>1. C[i] \in 1..J
      BY <2>1, <2>3
    <3>2. judged[C[i]].grade \in Nat \ {0}
      BY <3>1 DEF Authored
    <3>3. gains[i] \in Nat \ {0}
      BY <1>2, <2>3, <3>2
    <3> QED
      BY <2>3, <3>3
  <2> QED
    BY <2>2, <2>3
<1>4. ASSUME NEW i \in 1..n, C[i] # 0
      PROVE  C[i] \in Matching(judged, ranked[i]) /\ C[i] \notin {C[x] : x \in 1..(i - 1)}
  <2>1. C[i] \in Open(judged, ranked, C, i)
    BY <1>1, <1>4, AwardIsOpen
  <2> QED
    BY <2>1 DEF Open
<1>5. ASSUME NEW i \in 1..n, NEW k \in 1..n, C[i] = C[k], C[i] # 0 PROVE i = k
  <2>1. CASE i < k
    <3>1. i \in 1..(k - 1) /\ C[k] # 0
      BY <1>5, <2>1
    <3> QED
      BY <1>4, <1>5, <3>1
  <2>2. CASE k < i
    <3>1. k \in 1..(i - 1)
      BY <2>2
    <3> QED
      BY <1>4, <1>5, <3>1
  <2>3. i \in Int /\ k \in Int
    OBVIOUS
  <2> QED
    BY <2>1, <2>2, <2>3
<1> QED
  BY <1>1, <1>2, <1>3, <1>4, <1>5

\* The first relevant result is credited: nothing is credited before it.
LEMMA FirstIsCredited ==
  ASSUME NEW judged, NEW J, Authored(judged, J),
         NEW ranked, NEW n \in Nat, Len(ranked) = n, DOMAIN ranked = 1..n,
         NEW C, C = Credits(judged, ranked), NEW relevant, relevant = Relevant(judged, ranked),
         relevant # {}
  PROVE  Min(relevant) \in relevant /\ relevant \subseteq 1..n /\ C[Min(relevant)] # 0
<1>1. relevant \subseteq 1..n /\ \A i \in 1..n : i \in relevant <=> Matching(judged, ranked[i]) # {}
  BY DEF Relevant
<1>2. \E x \in relevant : \A y \in relevant : x <= y
  <2>1. relevant \subseteq Nat
    BY <1>1
  <2> QED
    BY <2>1, LeastNatural
<1> DEFINE first == Min(relevant)
<1>3. first \in relevant /\ \A y \in relevant : first <= y
  BY <1>2 DEF Min
<1> HIDE DEF first
<1>4. first \in 1..n /\ Matching(judged, ranked[first]) # {}
  BY <1>1, <1>3
<1>5. C \in [1..n -> 0..J] /\ \A i \in 1..n : C[i] = Award(judged, ranked, C, i)
  BY CreditsFollow
<1>6. \A i \in 1..(first - 1) : C[i] = 0
  <2> TAKE i \in 1..(first - 1)
  <2>1. i \in 1..n /\ ~(first <= i)
    BY <1>4
  <2>2. Matching(judged, ranked[i]) = {}
    BY <1>1, <1>3, <2>1
  <2>3. Open(judged, ranked, C, i) = {}
    BY <2>2 DEF Open
  <2>4. Award(judged, ranked, C, i) = 0
    BY <2>3 DEF Award
  <2> QED
    BY <1>5, <2>1, <2>4
<1>7. Matching(judged, ranked[first]) \in SUBSET (1..J)
  BY AwardIsOpen
<1>8. Open(judged, ranked, C, first) # {} /\ Open(judged, ranked, C, first) \in SUBSET (1..J)
  <2>1. PICK j \in Matching(judged, ranked[first]) : TRUE
    BY <1>4
  <2>2. j # 0
    BY <1>7, <2>1
  <2>3. j \in Open(judged, ranked, C, first)
    BY <1>6, <2>1, <2>2 DEF Open
  <2> QED
    BY <1>7, <2>3 DEF Open
<1>9. Award(judged, ranked, C, first) \in Open(judged, ranked, C, first)
  BY <1>8, AwardIsOpen
<1>10. C[first] \in 1..J
  BY <1>4, <1>5, <1>8, <1>9
<1>11. C[first] # 0
  BY <1>10
<1> QED
  BY <1>1, <1>3, <1>11 DEF first

\* What the results of a ranking match.
Reached(judged, ranked) ==
  UNION {Matching(judged, ranked[i]) : i \in Relevant(judged, ranked)}

\* No more judgments are matched than authored, and none if nothing is relevant.
LEMMA ReachedIsFinite ==
  ASSUME NEW judged, NEW J, Authored(judged, J), NEW ranked
  PROVE  /\ Reached(judged, ranked) \in SUBSET (1..J)
         /\ IsFiniteSet(Reached(judged, ranked))
         /\ Cardinality(Reached(judged, ranked)) \in 0..J
         /\ Cardinality(Reached(judged, ranked)) = 0 <=> Relevant(judged, ranked) = {}
<1> DEFINE reached == Reached(judged, ranked)
<1>1. J \in Nat
  BY DEF Authored
<1>2. \A i : Matching(judged, ranked[i]) \in SUBSET (1..J)
  BY AwardIsOpen
<1>3. reached \in SUBSET (1..J)
  BY <1>2 DEF Reached
<1>4. IsFiniteSet(1..J) /\ Cardinality(1..J) = J
  BY <1>1, FS_Interval
<1>5. reached = {} <=> Relevant(judged, ranked) = {}
  BY DEF Reached, Relevant
<1> HIDE DEF reached
<1>6. IsFiniteSet(reached) /\ Cardinality(reached) <= J
  BY <1>3, <1>4, FS_Subset
<1>7. Cardinality(reached) \in Nat /\ (Cardinality(reached) = 0 <=> reached = {})
  BY <1>6, FS_CardinalityType, FS_EmptySet
<1> QED
  BY <1>1, <1>3, <1>5, <1>6, <1>7 DEF reached

\* There are no more credited results than judgments that are matched.
LEMMA CreditedAreReached ==
  ASSUME NEW judged, NEW J, Authored(judged, J),
         NEW ranked, NEW n \in Nat, Len(ranked) = n, DOMAIN ranked = 1..n,
         NEW C, C = Credits(judged, ranked),
         NEW credited, credited = {i \in 1..n : C[i] # 0}
  PROVE  Cardinality(credited) <= Cardinality(Reached(judged, ranked))
<1> DEFINE reached == Reached(judged, ranked)
           taken == [i \in credited |-> C[i]]
<1>1. /\ \A i \in 1..n : C[i] # 0 => C[i] \in Matching(judged, ranked[i])
      /\ \A i, k \in 1..n : C[i] = C[k] /\ C[i] # 0 => i = k
  BY GainsFollowCredits
<1>2. \A i \in credited : C[i] \in reached
  <2> TAKE i \in credited
  <2>1. i \in 1..n /\ C[i] \in Matching(judged, ranked[i])
    BY <1>1
  <2>2. i \in Relevant(judged, ranked)
    BY <2>1 DEF Relevant
  <2> QED
    BY <2>1, <2>2 DEF Reached
<1>3. IsFiniteSet(reached)
  BY ReachedIsFinite
<1> HIDE DEF reached
<1>4. taken \in Injection(credited, reached)
  <2>1. taken \in [credited -> reached]
    BY <1>2
  <2>2. \A i, k \in credited : taken[i] = taken[k] => i = k
    BY <1>1
  <2> QED
    BY <2>1, <2>2 DEF Injection, IsInjective
<1> HIDE DEF taken
<1>5. Cardinality(credited) <= Cardinality(reached)
  BY <1>3, <1>4, FS_Injection
<1> QED
  BY <1>5 DEF reached

\* An order of the J judgments, the higher grades first, and the ideal gains in it.
ArrangesIdeal(order, judged, J, ideal, q) ==
  /\ order \in [1..J -> 1..J]
  /\ \A i \in 1..J : \E p \in 1..J : order[p] = i
  /\ \A p, r \in 1..J : p <= r => judged[order[r]].grade <= judged[order[p]].grade
  /\ Len(ideal) = q
  /\ \A p \in 1..q : ideal[p] = judged[order[p]].grade

\* The ideal ranking arranges all judgments, the higher grades first.
LEMMA IdealRanking ==
  ASSUME NEW judged, NEW J, Authored(judged, J), NEW k \in Nat,
         NEW q, q = IF k < J THEN k ELSE J
  PROVE  \E order : ArrangesIdeal(order, judged, J, IdealGains(judged, k), q)
<1> DEFINE all == 1..J
           before == {pair \in all \X all : Outranks(judged, pair[1], pair[2])}
           order == Sorted(all, before)
           grades == [n \in DOMAIN order |-> judged[order[n]].grade]
<1>1. J \in Nat /\ DOMAIN judged = all /\ \A i \in all : judged[i].grade \in Nat
  BY DEF Authored
<1>2. IdealGains(judged, k) = Ranked(grades, k)
  BY <1>1 DEF IdealGains
<1>3. IsFiniteSet(all) /\ Cardinality(all) = J
  BY <1>1, FS_Interval
<1>4. \A x, y \in all : <<x, y>> \in before <=> Outranks(judged, x, y)
  OBVIOUS
<1>5. \A x \in all : <<x, x>> \notin before
  <2>1. \A x \in all : x \in Int /\ judged[x].grade \in Int
    BY <1>1
  <2> QED
    BY <2>1 DEF Outranks
<1>6. \A x, y, z \in all : <<x, y>> \in before /\ <<y, z>> \in before => <<x, z>> \in before
  <2> SUFFICES ASSUME NEW x \in all, NEW y \in all, NEW z \in all,
                      Outranks(judged, x, y), Outranks(judged, y, z)
               PROVE  Outranks(judged, x, z)
    BY <1>4
  <2>1. /\ x \in Int /\ y \in Int /\ z \in Int
        /\ judged[x].grade \in Int /\ judged[y].grade \in Int /\ judged[z].grade \in Int
    BY <1>1
  <2> QED
    BY <2>1 DEF Outranks
<1>7. \A x, y \in all : x # y => <<x, y>> \in before \/ <<y, x>> \in before
  <2> SUFFICES ASSUME NEW x \in all, NEW y \in all, x # y
               PROVE  Outranks(judged, x, y) \/ Outranks(judged, y, x)
    BY <1>4
  <2>1. x \in Int /\ y \in Int /\ judged[x].grade \in Int /\ judged[y].grade \in Int
    BY <1>1
  <2> QED
    BY <2>1 DEF Outranks
<1>8. /\ order \in [all -> all]
      /\ \A x \in all : \E i \in all : order[i] = x
      /\ \A i, r \in all : i < r => <<order[i], order[r]>> \in before
  <2> HIDE DEF all, before
  <2>1. /\ order \in [1..Cardinality(all) -> all]
        /\ \A x \in all : \E i \in 1..Cardinality(all) : order[i] = x
        /\ \A i, r \in 1..Cardinality(all) : i < r => <<order[i], order[r]>> \in before
    BY <1>3, <1>5, <1>6, <1>7, SortedInOrder
  <2>2. 1..Cardinality(all) = all
    BY <1>3 DEF all
  <2> QED
    BY <2>1, <2>2
<1> HIDE DEF order
<1>9. \A p, r \in all : p <= r => judged[order[r]].grade <= judged[order[p]].grade
  <2> SUFFICES ASSUME NEW p \in all, NEW r \in all, p <= r
               PROVE  judged[order[r]].grade <= judged[order[p]].grade
    OBVIOUS
  <2>1. /\ order[p] \in all /\ order[r] \in all
        /\ judged[order[p]].grade \in Int /\ judged[order[r]].grade \in Int
    <3> HIDE DEF all
    <3>1. order[p] \in all /\ order[r] \in all
      BY <1>8
    <3> QED
      BY <1>1, <3>1
  <2>2. CASE p = r
    BY <2>1, <2>2
  <2>3. CASE p # r
    <3>1. p < r
      BY <1>1, <2>3
    <3>2. Outranks(judged, order[p], order[r])
      BY <1>4, <1>8, <2>1, <3>1
    <3> QED
      BY <2>1, <3>2 DEF Outranks
  <2> QED
    BY <2>2, <2>3
<1>10. DOMAIN order = all
  BY <1>8
<1>11. grades \in Seq(Nat) /\ Len(grades) = J /\ \A p \in all : grades[p] = judged[order[p]].grade
  <2>1. \A p \in all : judged[order[p]].grade \in Nat
    BY <1>1, <1>8
  <2>2. grades = [n \in 1..J |-> judged[order[n]].grade]
    BY <1>10
  <2>3. grades \in [1..J -> Nat]
    BY <2>1, <2>2
  <2> HIDE DEF grades
  <2>4. grades \in Seq(Nat) /\ Len(grades) = J
    BY <1>1, <2>3
  <2> QED
    BY <2>2, <2>4
<1> HIDE DEF grades
<1>12. /\ q \in Nat /\ q <= J /\ Len(Ranked(grades, k)) = q
       /\ \A p \in 1..q : Ranked(grades, k)[p] = grades[p]
  <2>1. AreFirst(Ranked(grades, k), grades, Lesser(k, Len(grades)))
    BY <1>11, RankedIsPrefix
  <2>2. q = Lesser(k, Len(grades))
    BY <1>11 DEF Lesser
  <2> QED
    BY <1>11, <2>1, <2>2 DEF AreFirst
<1>13. \A p \in 1..q : p \in all
  BY <1>1, <1>12
<1>14. \A p \in 1..q : IdealGains(judged, k)[p] = judged[order[p]].grade
  BY <1>2, <1>11, <1>12, <1>13
<1>15. ArrangesIdeal(order, judged, J, IdealGains(judged, k), q)
  BY <1>2, <1>8, <1>9, <1>12, <1>14 DEF ArrangesIdeal
<1> QED
  BY <1>15

\* No prefix of a ranking earns more than the ideal one does.
LEMMA NoneBeatsIdeal ==
  ASSUME NEW judged, NEW J, Authored(judged, J), NEW k \in Nat,
         NEW ranked, NEW n \in Nat, Len(ranked) = n, DOMAIN ranked = 1..n, n <= k
  PROVE  Dominated(Gains(judged, ranked), IdealGains(judged, k))
<1> DEFINE C == Credits(judged, ranked)
           gains == Gains(judged, ranked)
           ideal == IdealGains(judged, k)
           q == IF k < J THEN k ELSE J
<1>1. /\ C \in [1..n -> 0..J] /\ DOMAIN gains = 1..n
      /\ \A i \in 1..n : gains[i] = IF C[i] = 0 THEN 0 ELSE judged[C[i]].grade
      /\ \A i \in 1..n : gains[i] \in Nat
      /\ \A i, r \in 1..n : C[i] = C[r] /\ C[i] # 0 => i = r
  BY GainsFollowCredits
<1>2. \E order : ArrangesIdeal(order, judged, J, ideal, q)
  BY IdealRanking
<1>3. J \in Nat /\ \A i \in 1..J : judged[i].grade \in Nat
  BY DEF Authored
<1> HIDE DEF C, gains, ideal
<1>4. PICK order : /\ order \in [1..J -> 1..J]
                   /\ \A i \in 1..J : \E p \in 1..J : order[p] = i
                   /\ \A p, r \in 1..J : p <= r => judged[order[r]].grade <= judged[order[p]].grade
                   /\ Len(ideal) = q
                   /\ \A p \in 1..q : ideal[p] = judged[order[p]].grade
  BY <1>2 DEF ArrangesIdeal
<1> DEFINE f == [p \in Nat \ {0} |-> IF p \in 1..J THEN Worth(judged[order[p]].grade) ELSE 0]
           g == [i \in Nat \ {0} |-> IF i \in 1..n THEN Worth(gains[i]) ELSE 0]
<1>5. \A p \in 1..J : judged[order[p]].grade \in Nat /\ Worth(judged[order[p]].grade) \in Nat
  BY <1>3, <1>4, WorthGrows
<1>6. OfNaturals(f) /\ OfNaturals(g)
  BY <1>1, <1>5, WorthGrows DEF OfNaturals
<1>7. Falls(f)
  <2> SUFFICES ASSUME NEW p \in Nat \ {0}, NEW r \in Nat \ {0}, p <= r PROVE f[r] <= f[p]
    BY DEF Falls
  <2>1. f[p] \in Nat /\ f[r] \in Nat
    BY <1>6 DEF OfNaturals
  <2>2. CASE r \in 1..J
    <3>1. p \in 1..J
      BY <1>3, <2>2
    <3>2. judged[order[r]].grade <= judged[order[p]].grade
      BY <1>4, <2>2, <3>1
    <3>3. Worth(judged[order[r]].grade) <= Worth(judged[order[p]].grade)
      BY <1>5, <2>2, <3>1, <3>2, WorthGrows
    <3> QED
      BY <2>2, <3>1, <3>3
  <2>3. CASE r \notin 1..J
    BY <2>1, <2>3
  <2> QED
    BY <2>2, <2>3
<1>8. \A p \in 1..J : f[p] = Worth(judged[order[p]].grade)
  BY <1>3
<1>9. \A i \in 1..n : g[i] = Worth(gains[i])
  OBVIOUS
<1> HIDE DEF f, g
<1>10. ASSUME NEW m \in 1..n
       PROVE  GainUpTo(gains, m) <= GainUpTo(ideal, IF m < q THEN m ELSE q)
  <2> DEFINE place == [i \in 1..m |-> IF C[i] = 0 THEN 0 ELSE CHOOSE p \in 1..J : order[p] = C[i]]
             least == IF m < J THEN m ELSE J
  <2>1. \A i \in 1..m : i \in 1..n /\ C[i] \in 0..J
    BY <1>1
  <2>2. ASSUME NEW i \in 1..m, C[i] # 0 PROVE place[i] \in 1..J /\ order[place[i]] = C[i]
    <3>1. C[i] \in 1..J
      BY <1>3, <2>1, <2>2
    <3>2. \E p \in 1..J : order[p] = C[i]
      BY <1>4, <3>1
    <3>3. place[i] = CHOOSE p \in 1..J : order[p] = C[i]
      BY <2>2
    <3> QED
      BY <3>2, <3>3
  <2>3. ASSUME NEW i \in 1..m, C[i] = 0 PROVE place[i] = 0
    BY <2>3
  <2>4. place \in [1..m -> 0..J]
    <3>1. \A i \in 1..m : place[i] \in 0..J
      <4>1. 0 \in 0..J /\ \A p \in 1..J : p \in 0..J /\ p # 0
        BY <1>3
      <4> HIDE DEF place
      <4> QED
        BY <2>2, <2>3, <4>1
    <3>2. place = [i \in 1..m |-> place[i]]
      OBVIOUS
    <3> HIDE DEF place
    <3> QED
      BY <3>1, <3>2
  <2> HIDE DEF place
  <2>5. \A i \in 1..m : (place[i] = 0) = (C[i] = 0)
    BY <2>2, <2>3
  <2>6. \A i, r \in 1..m : place[i] = place[r] /\ place[i] # 0 => i = r
    <3> SUFFICES ASSUME NEW i \in 1..m, NEW r \in 1..m, place[i] = place[r], place[i] # 0
                 PROVE  i = r
      OBVIOUS
    <3>1. C[i] # 0 /\ C[r] # 0
      BY <2>5
    <3>2. C[i] = C[r]
      BY <2>2, <3>1
    <3> QED
      BY <1>1, <2>1, <3>1, <3>2
  <2>7. \A i \in 1..m : g[i] = IF place[i] = 0 THEN 0 ELSE f[place[i]]
    <3> TAKE i \in 1..m
    <3>1. g[i] = Worth(gains[i]) /\ gains[i] = IF C[i] = 0 THEN 0 ELSE judged[C[i]].grade
      BY <1>1, <1>9, <2>1
    <3>2. CASE C[i] = 0
      BY <2>3, <3>1, <3>2, WorthGrows
    <3>3. CASE C[i] # 0
      <4>1. place[i] \in 1..J /\ order[place[i]] = C[i] /\ place[i] # 0
        BY <2>2, <3>3
      <4>2. f[place[i]] = Worth(judged[C[i]].grade)
        BY <1>8, <4>1
      <4> QED
        BY <3>1, <3>3, <4>1, <4>2
    <3> QED
      BY <3>2, <3>3
  <2>8. m \in Nat
    OBVIOUS
  <2>9. Sums(g)[m] <= Sums(f)[least]
    BY <1>3, <1>6, <1>7, <2>4, <2>6, <2>7, <2>8, DistinctPositions
  <2>10. GainUpTo(gains, m) = Sums(g)[m]
    BY <1>6, <1>9, <2>1, <2>8, GainIsSum
  <2>11. least = (IF m < q THEN m ELSE q) /\ least \in Nat /\ least <= q /\ least <= J
    <3>1. m <= k
      OBVIOUS
    <3> QED
      BY <1>3, <2>8, <3>1
  <2>12. \A p \in 1..least : f[p] = Worth(ideal[p])
    <3>1. \A p \in 1..least : p \in 1..q /\ p \in 1..J
      BY <1>3, <2>11
    <3> QED
      BY <1>4, <1>8, <3>1
  <2> HIDE DEF least
  <2>13. GainUpTo(ideal, least) = Sums(f)[least]
    BY <1>6, <2>11, <2>12, GainIsSum
  <2> QED
    BY <2>9, <2>10, <2>11, <2>13
<1>11. Dominated(gains, ideal)
  <2>1. Len(ideal) = q
    BY <1>4
  <2> QED
    BY <1>1, <1>10, <2>1 DEF Dominated
<1> QED
  BY <1>11 DEF gains, ideal

\* Whatever is found for whatever is authored is judged truly, at any cutoff.
LEMMA AnyCaseIsJudged ==
  ASSUME NEW judged, NEW J, Authored(judged, J), NEW S, NEW results \in Seq(S), NEW k \in Nat
  PROVE  JudgesTruly(judged, results, k)
<1> DEFINE n == Lesser(k, Len(results))
           N == Lesser(k + 1, Len(results))
           ranked == Ranked(results, k)
           longer == Ranked(results, k + 1)
           C == Credits(judged, ranked)
           D == Credits(judged, longer)
           gains == Gains(judged, ranked)
           more == Gains(judged, longer)
           relevant == Relevant(judged, ranked)
           credited == {i \in DOMAIN gains : gains[i] > 0}
           case == CaseMetrics(judged, results, k)
           next == CaseMetrics(judged, results, k + 1)
<1>1. /\ n \in Nat /\ n <= k /\ Len(ranked) = n /\ DOMAIN ranked = 1..n
      /\ \A i \in 1..n : ranked[i] = results[i]
  <2>1. AreFirst(ranked, results, n) /\ n <= k
    BY RankedIsPrefix
  <2> HIDE DEF n, ranked
  <2> QED
    BY <2>1 DEF AreFirst
<1>2. /\ N \in Nat /\ Len(longer) = N /\ DOMAIN longer = 1..N
      /\ \A i \in 1..N : longer[i] = results[i]
  <2>1. k + 1 \in Nat
    OBVIOUS
  <2>2. AreFirst(longer, results, N)
    BY <2>1, RankedIsPrefix
  <2> HIDE DEF N, longer
  <2> QED
    BY <2>2 DEF AreFirst
<1>3. n <= N
  BY LenProperties DEF Lesser
<1>4. \A i \in 1..n : i \in 1..N /\ ranked[i] = longer[i]
  BY <1>1, <1>2, <1>3
<1>5. /\ case.matched = Cardinality(Reached(judged, ranked))
      /\ case.first = (IF relevant = {} THEN 0 ELSE Min(relevant))
      /\ case.gains = gains
  BY DEF CaseMetrics, Reached
<1>6. next.matched = Cardinality(Reached(judged, longer)) /\ next.gains = more
  BY DEF CaseMetrics, Reached
<1>7. J = Len(judged) /\ J \in Nat
  BY DEF Authored
<1> HIDE DEF n, N, ranked, longer
<1>8. /\ C \in [1..n -> 0..J] /\ DOMAIN gains = 1..n
      /\ \A i \in 1..n : /\ gains[i] = IF C[i] = 0 THEN 0 ELSE judged[C[i]].grade
                         /\ gains[i] > 0 <=> C[i] # 0
      /\ \A i \in 1..n : C[i] # 0 => C[i] \in Matching(judged, ranked[i])
  <2> HIDE DEF credited, case, next
  <2> QED
    BY <1>1, GainsFollowCredits
<1>9. DOMAIN more = 1..N /\ \A i \in 1..N : more[i] = IF D[i] = 0 THEN 0 ELSE judged[D[i]].grade
  <2> HIDE DEF D
  <2> QED
    BY <1>2 DEF Gains, D
<1>10. /\ \A i \in 1..n : C[i] = Award(judged, ranked, C, i)
       /\ \A i \in 1..N : D[i] = Award(judged, longer, D, i)
  BY <1>1, <1>2, CreditsFollow
<1>11. relevant # {} => Min(relevant) \in relevant /\ relevant \subseteq 1..n /\ C[Min(relevant)] # 0
  BY <1>1, FirstIsCredited
<1>12. /\ Cardinality(Reached(judged, ranked)) \in 0..J
       /\ Cardinality(Reached(judged, ranked)) = 0 <=> relevant = {}
  BY ReachedIsFinite
<1>13. Dominated(gains, IdealGains(judged, k))
  BY <1>1, NoneBeatsIdeal
<1> HIDE DEF C, D, gains, more, case, next
<1>14. credited = {i \in 1..n : C[i] # 0}
  BY <1>8
<1>15. \A i \in credited : i \in relevant
  BY <1>1, <1>8, <1>14 DEF Relevant
<1>16. Cardinality(credited) <= Cardinality(Reached(judged, ranked))
  <2> HIDE DEF credited
  <2> QED
    BY <1>1, <1>14, CreditedAreReached DEF C
<1>17. Cardinality(Reached(judged, ranked)) <= Cardinality(Reached(judged, longer))
  <2>1. \A i \in Relevant(judged, ranked) : i \in Relevant(judged, longer) /\ ranked[i] = longer[i]
    BY <1>1, <1>2, <1>4 DEF Relevant
  <2>2. Reached(judged, ranked) \in SUBSET Reached(judged, longer)
    BY <2>1 DEF Reached
  <2>3. IsFiniteSet(Reached(judged, longer))
    BY ReachedIsFinite
  <2> QED
    BY <2>2, <2>3, FS_Subset
<1>18. \A i \in 1..n : C[i] = D[i]
  <2>1. \A i \in 1..n : D[i] = Award(judged, longer, D, i)
    BY <1>4, <1>10
  <2>2. \A i \in 1..n : ranked[i] = longer[i]
    BY <1>4
  <2>3. \A i \in 1..n : C[i] = Award(judged, ranked, C, i)
    BY <1>10
  <2>4. Awarded(judged, ranked, C, n) /\ Awarded(judged, longer, D, n)
    BY <2>1, <2>3 DEF Awarded
  <2> QED
    BY <1>1, <2>2, <2>4, CreditsAgree
<1>19. \A i \in 1..n : gains[i] = more[i]
  BY <1>4, <1>8, <1>9, <1>18
<1>20. (case.matched = 0) = (case.first = 0) /\ (case.first = 0) = (credited = {})
  <2>1. CASE relevant = {}
    BY <1>5, <1>12, <1>15, <2>1
  <2>2. CASE relevant # {}
    <3>1. case.first = Min(relevant) /\ Min(relevant) \in 1..n /\ Min(relevant) # 0
      BY <1>1, <1>5, <1>11, <2>2
    <3>2. Min(relevant) \in credited
      BY <1>11, <1>14, <2>2, <3>1
    <3> QED
      BY <1>5, <1>12, <2>2, <3>1, <3>2
  <2> QED
    BY <2>1, <2>2
<1>21. case.first # 0 => case.first \in credited
  BY <1>5, <1>11, <1>14
<1>22. Cardinality(credited) <= case.matched /\ case.matched <= Len(judged)
  BY <1>5, <1>7, <1>12, <1>16
<1> HIDE DEF relevant
<1>23. case.matched <= next.matched /\ \A i \in DOMAIN case.gains : case.gains[i] = next.gains[i]
  BY <1>5, <1>6, <1>8, <1>17, <1>19
<1>24. credited = {i \in DOMAIN case.gains : case.gains[i] > 0} /\ Dominated(case.gains, IdealGains(judged, k))
  BY <1>5, <1>13
<1> HIDE DEF credited
<1> QED
  BY <1>20, <1>21, <1>22, <1>23, <1>24 DEF JudgesTruly, case, next

\* No judgments, results and cutoff are an exception.
LEMMA NoneMisjudged == Misjudged = {}
<1> SUFFICES ASSUME NEW judged \in ValidCases, NEW results \in SetToAllKPermutations(Found),
                    NEW k \in Cutoffs
             PROVE  JudgesTruly(judged, results, k)
  BY DEF Misjudged
<1>1. Authored(judged, Len(judged))
  BY CasesAreAuthored
<1>2. PICK s \in SUBSET Found : results \in SetToSeqs(s)
  BY DEF SetToAllKPermutations
<1>3. Cardinality(s) \in Nat
  <2>1. IsFiniteSet(s)
    BY MetricsAssumption, FS_Subset
  <2> QED
    BY <2>1, FS_CardinalityType
<1>4. results \in [1..Cardinality(s) -> s]
  BY <1>2 DEF SetToSeqs
<1>5. results \in Seq(s) /\ k \in Nat
  BY <1>3, <1>4, MetricsAssumption
<1> QED
  BY <1>1, <1>5, AnyCaseIsJudged

\* Whatever results the cases had and whatever was judged, the metrics of a case
\* are of one cloth, earn no more than the ideal ranking does and credit nothing
\* twice; and the percentile of any number of latencies is the nearest rank
\* (calculate_benchmark_metrics.py).
THEOREM MetricsStayTruthful == Spec => []MetricsAreTruthful
<1>1. MetricsAreTruthful
  BY NoneMisjudged, NoneMisranked DEF MetricsAreTruthful
<1> QED
  BY <1>1, PTL

-----------------------------------------------------------------------------
\* The command and the reviewer.

Disturbed(n) == signals + failures >= n

RunJsonMatchesRow ==
    /\ artifact \in Documents
    /\ artifact.linked
    /\ artifact.status = row.status
    /\ artifact.cases = row.completed

(* On the undisturbed way. *)
OnTheWay ==
    /\ pc \in {"start", "create"} => row = Null /\ done = 0
    /\ pc = "case" => done < Cases /\ row = Row("running", done, FALSE, FALSE)
    /\ pc = "count" => done > 0 /\ row = Row("running", done - 1, FALSE, FALSE)
    /\ (pc \in {"write", "relink", "finalize"} /\ ending = "succeeded") =>
          done = Cases /\ row = Row("running", done, FALSE, FALSE)
    /\ pc = "finalize" => artifact = Document(ending, TRUE)
    /\ pc \in {"provenance", "leave"} \cup Measuring =>
          /\ done = Cases
          /\ row \in Rows /\ row.status = "succeeded" /\ row.completed = Cases
          /\ row.artifact
          /\ RunJsonMatchesRow
    /\ pc \in {"provenance", "leave"} \cup (Measuring \ {"result"}) => ~row.metrics
    /\ pc \in {"leave"} \cup Measuring => provenance
    /\ pc \in {"remember", "result"} => metrics = Document("succeeded", TRUE)

(* In the handler. *)
InTheHandler ==
    /\ ending = "failed" => pc \in Finalizing \cup {"fallback", "ended", "dead"}
    /\ pc \in {"finalized", "fallback"} => ending = "failed"
    /\ ending = "failed" => row # Null /\ ~row.metrics
    /\ (ending = "failed" /\ pc \in {"write", "relink", "finalize"}) =>
          row.status # "failed"
    /\ pc = "check" => row = Null \/ (row.status # "failed" /\ ~row.metrics)
    /\ (pc = "check" /\ row # Null /\ row.artifact) => RunJsonMatchesRow
    /\ pc = "finalized" => row = Row("failed", done, TRUE, FALSE) /\ RunJsonMatchesRow

(* The row, wherever the command is. *)
InTheRow ==
    row # Null =>
        /\ row.completed \in {done - 1, done}
        /\ row.status = "failed" => row.completed = done
        /\ row.status = "succeeded" => row.completed = Cases
        /\ row.metrics => /\ pc \in {"result", "ended", "dead"}
                          /\ RowIsComplete /\ RunJsonMatchesRow /\ provenance
                          /\ metrics \in Documents /\ metrics.cases = Cases

(* What the number of disturbances rules out. *)
Disturbances ==
    /\ pc = "check" \/ ending = "failed" => Disturbed(1)
    /\ pc = "fallback" => Disturbed(2)
    /\ (pc = "ended" /\ IsRunning) => Disturbed(2)
    /\ (pc = "ended" /\ row # Null /\ row.artifact) => RunJsonMatchesRow \/ Disturbed(3)

(* The reviewer got past the row only when it named its metrics. *)
Reading == report # "idle" => row # Null /\ row.metrics

Inv == TypeOK /\ OnTheWay /\ InTheHandler /\ InTheRow /\ Disturbances /\ Reading
-----------------------------------------------------------------------------
(* Inv is inductive. *)

USE CasesAssumption, BoundsAssumption, NullAssumption

LEMMA RowType ==
    ASSUME NEW status \in {"running", "succeeded", "failed"}, NEW n \in 0..Cases,
           NEW linked \in BOOLEAN, NEW measured \in BOOLEAN
    PROVE  Row(status, n, linked, measured) \in Rows \ {Null}
  BY DEF Row, Rows, Documents

LEMMA DocumentType ==
    ASSUME done \in 0..Cases, NEW status \in {"succeeded", "failed"},
           NEW linked \in BOOLEAN
    PROVE  Document(status, linked) \in Documents \ {Null, Torn}
  BY DEF Document, Rows, Documents

LEMMA InitInv == Init => Inv
  <1> SUFFICES ASSUME Init PROVE Inv
    OBVIOUS
  <1> USE DEF Init
  <1>1. TypeOK
    <2>1. pc \in Places
      BY DEF Places
    <2>2. provenance \in BOOLEAN
      OBVIOUS
    <2>3. done \in 0..Cases /\ signals \in 0..MaxSignals /\ failures \in 0..MaxFailures
      OBVIOUS
    <2> QED BY <2>1, <2>2, <2>3 DEF TypeOK
  <1>2. OnTheWay
    BY DEF OnTheWay, Disturbed, IsRunning, Places, Executing, Finalizing, Measuring, Handling
  <1>3. InTheHandler
    BY DEF InTheHandler, Disturbed, IsRunning, Places, Executing, Finalizing, Measuring, Handling
  <1>4. InTheRow
    BY DEF InTheRow, Disturbed, IsRunning, Places, Executing, Finalizing, Measuring, Handling
  <1>5. Disturbances
    BY DEF Disturbances, Disturbed, IsRunning, Places, Executing, Finalizing, Measuring, Handling
  <1>6. Reading
    BY DEF Reading, Disturbed, IsRunning, Places, Executing, Finalizing, Measuring, Handling
  <1> QED BY <1>1, <1>2, <1>3, <1>4, <1>5, <1>6 DEF Inv

LEMMA CommandInv == Inv /\ Command => Inv'
  <1> SUFFICES ASSUME Inv, Command PROVE Inv'
    OBVIOUS
  <1> USE DEF Inv, TypeOK, OnTheWay, InTheHandler, InTheRow, Disturbances, Reading,
              Disturbed, IsRunning, Places, Executing, Finalizing, Measuring, Handling,
              RunJsonMatchesRow, RowIsComplete, ArtifactIsComplete, Row, Document,
              Rows, Documents, NextCase, evidence, counters
  <1>1. CASE Begin
    BY <1>1 DEF Begin
  <1>2. CASE Refuse
    BY <1>2 DEF Refuse
  <1>3. CASE CreateRun
    BY <1>3 DEF CreateRun
  <1>4. CASE ExecuteCase
    BY <1>4 DEF ExecuteCase
  <1>5. CASE CountCase
    BY <1>5 DEF CountCase
  <1>6. CASE WriteArtifact
    <2> USE <1>6 DEF WriteArtifact
    <2>0. artifact' \in Documents \ {Null, Torn}
      BY DocumentType
    <2>1. TypeOK'
      BY <2>0
    <2>2. OnTheWay'
      BY <2>0
    <2>3. InTheHandler'
      BY <2>0
    <2>4. InTheRow' /\ Disturbances' /\ Reading'
      BY <2>0
    <2> QED BY <2>1, <2>2, <2>3, <2>4
  <1>7. CASE Finalize
    <2> USE <1>7 DEF Finalize
    <2>0. row' \in Rows \ {Null}
      BY RowType
    <2>1. TypeOK'
      BY <2>0
    <2>2. CASE ending = "succeeded"
      <3>0. artifact \in Documents
        BY DocumentType
      <3>1. OnTheWay'
        BY <2>0, <2>2, <3>0
      <3>2. InTheHandler'
        BY <2>0, <2>2
      <3> QED BY <2>0, <2>1, <2>2, <3>1, <3>2
    <2>3. CASE ending = "failed"
      <3>1. OnTheWay'
        BY <2>0, <2>3
      <3>2. InTheHandler'
        <4>1. artifact \in Documents
          BY DocumentType
        <4> QED BY <2>0, <2>3, <4>1
      <3> QED BY <2>0, <2>1, <2>3, <3>1, <3>2
    <2> QED BY <2>2, <2>3
  <1>8. CASE RecordProvenance
    BY <1>8 DEF RecordProvenance
  <1>9. CASE LeaveTrap
    BY <1>9 DEF LeaveTrap
  <1>10. CASE Measure
    BY <1>10 DEF Measure
  <1>11. CASE WriteMetrics
    <2> USE <1>11 DEF WriteMetrics
    <2>0. metrics' \in Documents \ {Null, Torn}
      BY DocumentType
    <2>1. TypeOK'
      BY <2>0
    <2>2. OnTheWay'
      BY <2>0
    <2>3. InTheHandler'
      BY <2>0
    <2>4. InTheRow' /\ Disturbances' /\ Reading'
      BY <2>0
    <2> QED BY <2>1, <2>2, <2>3, <2>4
  <1>12. CASE RememberMetrics
    BY <1>12 DEF RememberMetrics
  <1>13. CASE End
    BY <1>13 DEF End
  <1>14. CASE CheckStarted
    BY <1>14 DEF CheckStarted
  <1>15. CASE FallBackToRow
    <2> USE <1>15 DEF FallBackToRow
    <2>0. row' \in Rows \ {Null}
      BY RowType
    <2>1. TypeOK'
      BY <2>0
    <2>2. OnTheWay'
      BY <2>0
    <2>3. InTheHandler'
      BY <2>0
    <2>4. InTheRow' /\ Disturbances' /\ Reading'
      BY <2>0
    <2> QED BY <2>1, <2>2, <2>3, <2>4
  <1> QED BY <1>1, <1>2, <1>3, <1>4, <1>5, <1>6, <1>7, <1>8, <1>9, <1>10, <1>11, <1>12, <1>13, <1>14, <1>15 DEF Command

LEMMA DisturbanceInv == Inv /\ (Signal \/ Failure \/ Kill) => Inv'
  <1> SUFFICES ASSUME Inv, Signal \/ Failure \/ Kill PROVE Inv'
    OBVIOUS
  <1> USE DEF Inv, TypeOK, OnTheWay, InTheHandler, InTheRow, Disturbances, Reading,
              Disturbed, IsRunning, Places, Executing, Finalizing, Measuring, Handling,
              RunJsonMatchesRow, RowIsComplete, ArtifactIsComplete, Row, Document,
              Rows, Documents, Alive, Fallible, RaisedAt, CutShort, evidence, counters
  <1>1. CASE Signal
    BY <1>1 DEF Signal
  <1>2. CASE Failure
    BY <1>2 DEF Failure
  <1>3. CASE Kill
    BY <1>3 DEF Kill
  <1> QED BY <1>1, <1>2, <1>3

LEMMA ReviewerInv == Inv /\ Reviewer => Inv'
  BY DEF Inv, TypeOK, OnTheWay, InTheHandler, InTheRow, Disturbances, Reading,
         Disturbed, IsRunning, RunJsonMatchesRow, RowIsComplete, ArtifactIsComplete, Row,
         Document, evidence, counters, Reviewer, ReadRow, ReadArtifact, ReadMetrics,
         ReadProvenance, Look

THEOREM Invariance == Spec => []Inv
  <1>1. Inv /\ [Next]_vars => Inv'
    <2> SUFFICES ASSUME Inv, [Next]_vars PROVE Inv'
      OBVIOUS
    <2>1. CASE UNCHANGED vars
      BY <2>1 DEF vars, Inv, TypeOK, OnTheWay, InTheHandler, InTheRow, Disturbances,
                  Reading, Disturbed, IsRunning, RunJsonMatchesRow, RowIsComplete, Row,
                  Document, Rows, Documents, Places, Executing, Finalizing, Measuring,
                  Handling
    <2> QED BY <2>1, CommandInv, DisturbanceInv, ReviewerInv DEF Next
  <1> QED BY <1>1, InitInv, PTL DEF Spec

-----------------------------------------------------------------------------
(* What follows from it. *)

(* The state keeps its type, and the counted cases stay within the dataset. *)
THEOREM TypeCorrect == Spec => []TypeOK
  <1>1. Inv => TypeOK
    BY DEF Inv
  <1> QED BY <1>1, Invariance, PTL

(* A written report describes a run that succeeded for good, whatever        *)
(* signals, failures and kills hit the command.                              *)
THEOREM ReportsStayFinal == Spec => []ReportsAreFinal
  <1>1. Inv => ReportsAreFinal
    BY DEF Inv, InTheRow, Reading, ReportsAreFinal, RowIsComplete, ArtifactIsComplete,
           RunJsonMatchesRow
  <1> QED BY <1>1, Invariance, PTL

(* A failed run's row counts every executed case. *)
THEOREM FailuresCountEveryCase == Spec => []FailedRowsCountEveryCase
  <1>1. Inv => FailedRowsCountEveryCase
    BY DEF Inv, InTheRow, FailedRowsCountEveryCase
  <1> QED BY <1>1, Invariance, PTL

(* One disturbance never leaves an ended run running. *)
THEOREM OrphansTakeTwo == Spec => []OneDisturbanceLeavesNoOrphan
  <1>1. Inv => OneDisturbanceLeavesNoOrphan
    BY DEF Inv, TypeOK, Disturbances, Disturbed, OneDisturbanceLeavesNoOrphan
  <1> QED BY <1>1, Invariance, PTL

(* With at most two disturbances an ended run's row names a whole run.json   *)
(* that tells the same outcome.                                              *)
THEOREM EvidenceTakesThree == Spec => []RowNamesItsEvidence
  <1>1. Inv => RowNamesItsEvidence
    BY DEF Inv, TypeOK, Disturbances, Disturbed, RowNamesItsEvidence, RunJsonMatchesRow
  <1> QED BY <1>1, Invariance, PTL

-----------------------------------------------------------------------------
(* The row refines BenchmarkLedger. *)

LEMMA CommandKeepsLedger == Inv /\ Command => [Ledger!Next]_(Ledger!ledger)
  <1> SUFFICES ASSUME Inv, Command PROVE [Ledger!Next]_(Ledger!ledger)
    OBVIOUS
  <1> USE DEF Ledger!Next, Ledger!Open, Ledger!Count, Ledger!Succeed, Ledger!Fail,
              Ledger!Measure, Ledger!ledger
  <1>1. CASE row' = row
    BY <1>1
  <1>2. CASE CreateRun
    <2>0. row = Null
      BY <1>2 DEF CreateRun, Inv, OnTheWay
    <2>1. row' \in Rows /\ row' # Null /\ row'.status = "running"
      <3>1. row' \in Rows /\ row'.status = "running"
        BY <1>2 DEF CreateRun, Row, Rows
      <3> QED BY <3>1
    <2>2. row'.completed = 0 /\ row'.metrics = FALSE
      BY <1>2 DEF CreateRun, Row
    <2> QED BY <2>0, <2>1, <2>2
  <1>3. CASE CountCase
    <2>1. row \in Rows /\ row # Null /\ row.status = "running" /\ row.metrics = FALSE
      <3>1. done - 1 \in 0..Cases
        BY <1>3 DEF CountCase, Inv, TypeOK, OnTheWay
      <3>2. row = [status |-> "running", completed |-> done - 1,
                   artifact |-> FALSE, metrics |-> FALSE]
        BY <1>3 DEF CountCase, Inv, OnTheWay, Row
      <3>3. row \in Rows
        BY <3>1, <3>2 DEF Rows
      <3> QED BY <3>2, <3>3
    <2>2. row' \in Rows /\ row' # Null /\ row'.status = "running" /\ row'.metrics = FALSE
      <3>1. row' \in Rows /\ row'.status = "running" /\ row'.metrics = FALSE
        BY <1>3 DEF CountCase, Row, Rows, Inv, TypeOK
      <3> QED BY <3>1
    <2>3. row'.completed = row.completed + 1 /\ row.completed < Cases
      <3>1. row.completed = done - 1 /\ row'.completed = done /\ done \in 0..Cases
        BY <1>3 DEF CountCase, Row, Inv, TypeOK, OnTheWay
      <3> QED BY <3>1
    <2> QED BY <2>1, <2>2, <2>3
  <1>4. CASE Finalize
    <2>1. row' \in Rows /\ row' # Null /\ row'.status = ending
          /\ row'.completed = done /\ row'.metrics = FALSE
      BY <1>4, RowType DEF Finalize, Row, Inv, TypeOK
    <2>2. CASE ending = "succeeded"
      <3>1. row \in Rows /\ row # Null /\ row.status = "running"
            /\ row.completed = Cases /\ row.metrics = FALSE /\ done = Cases
        <4>1. done = Cases
          BY <1>4, <2>2 DEF Finalize, Inv, OnTheWay
        <4>2. row = [status |-> "running", completed |-> done,
                     artifact |-> FALSE, metrics |-> FALSE]
          BY <1>4, <2>2 DEF Finalize, Inv, OnTheWay, Row
        <4>3. row \in Rows
          BY <4>1, <4>2 DEF Rows
        <4> QED BY <4>1, <4>2, <4>3
      <3> QED BY <2>1, <2>2, <3>1
    <2>3. CASE ending = "failed"
      <3>1. row \in Rows /\ row # Null /\ row.status \in {"running", "succeeded"}
            /\ row.metrics = FALSE
        BY <1>4, <2>3 DEF Finalize, Inv, TypeOK, InTheHandler, Rows
      <3>2. done \in {row.completed, row.completed + 1} /\ done <= Cases
        BY <3>1 DEF Inv, TypeOK, InTheRow
      <3> QED BY <2>1, <2>3, <3>1, <3>2
    <2> QED BY <2>2, <2>3 DEF Inv, TypeOK
  <1>5. CASE RememberMetrics
    <2>1. row \in Rows /\ row # Null /\ row.status = "succeeded" /\ row.metrics = FALSE
      BY <1>5 DEF RememberMetrics, Inv, TypeOK, OnTheWay, Measuring
    <2>2. row' \in Rows /\ row' # Null /\ row'.status = "succeeded" /\ row'.metrics
          /\ row'.completed = row.completed
      BY <1>5, <2>1 DEF RememberMetrics, Rows
    <2> QED BY <2>1, <2>2
  <1>6. CASE FallBackToRow
    <2>1. row' \in Rows /\ row' # Null /\ row'.status = "failed"
          /\ row'.completed = done /\ row'.metrics = FALSE
      BY <1>6, RowType DEF FallBackToRow, Row, Inv, TypeOK
    <2>2. row \in Rows /\ row # Null /\ row.metrics = FALSE
      BY <1>6 DEF FallBackToRow, Inv, TypeOK, InTheHandler
    <2>3. done \in {row.completed, row.completed + 1} /\ done <= Cases
      BY <2>2 DEF Inv, TypeOK, InTheRow
    <2>4. row.status = "failed" => row.completed = done
      BY <2>2 DEF Inv, InTheRow
    <2>5. row.status \in {"running", "succeeded", "failed"}
      BY <2>2 DEF Rows
    <2> QED BY <2>1, <2>2, <2>3, <2>4, <2>5
  <1> QED
    BY <1>1, <1>2, <1>3, <1>4, <1>5, <1>6
    DEF Command, Begin, Refuse, ExecuteCase, WriteArtifact, RecordProvenance, LeaveTrap,
        Measure, WriteMetrics, End, CheckStarted, evidence

(* For every number of cases and disturbances the row does what the ledger   *)
(* promises: it is opened once, loses no counted case, succeeds only when    *)
(* complete, and is final once it names its metrics.                         *)
THEOREM RowImplementsLedger == Spec => KeepsLedger
  <1>1. Init => Ledger!Init
    BY DEF Init, Ledger!Init
  <1>2. Inv /\ [Next]_vars => [Ledger!Next]_(Ledger!ledger)
    <2> SUFFICES ASSUME Inv, [Next]_vars PROVE [Ledger!Next]_(Ledger!ledger)
      OBVIOUS
    <2>1. CASE Command
      BY <2>1, CommandKeepsLedger
    <2>2. CASE row' = row
      BY <2>2 DEF Ledger!ledger
    <2> QED
      BY <2>1, <2>2 DEF Next, vars, Signal, Failure, Kill, CutShort, Reviewer, ReadRow,
                        ReadArtifact, ReadMetrics, ReadProvenance, Look, evidence
  <1> QED BY <1>1, <1>2, Invariance, PTL DEF Spec, KeepsLedger, Ledger!Spec
===============================================================================
