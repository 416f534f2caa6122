------------------------------ MODULE OrderLemmas ------------------------------
(***************************************************************************)
(* Facts about least and greatest values, sorting, induction and recursion *)
(* that proofs about CHOOSE, about bounds and about recursive functions    *)
(* need.  Each follows from the well-foundedness of strict inclusion among *)
(* finite sets, which is a theorem about sets: the induction theorems of   *)
(* the library take a predicate as a parameter, and these take a set.      *)
(***************************************************************************)
EXTENDS Ordering, FiniteSetTheorems, WellFoundedInduction, TLAPS

\* A family of finite sets has a member that none of the others is inside of.
LEMMA InnermostSet ==
  ASSUME NEW S, NEW F, F \subseteq FiniteSubsetsOf(S), F # {}
  PROVE  \E inner \in F : \A other \in F : other \subseteq inner => other = inner
<1>1. IsWellFoundedOn(StrictSubsetOrdering(S), FiniteSubsetsOf(S))
  BY FS_StrictSubsetOrderingWellFounded, Zenon
<1>2. PICK inner \in F : \A other \in F : <<other, inner>> \notin StrictSubsetOrdering(S)
  BY <1>1, WFMin, Zenon
<1>3. ASSUME NEW other \in F, other \subseteq inner PROVE other = inner
  <2>1. other \in SUBSET S /\ inner \in SUBSET S
    BY DEF FiniteSubsetsOf
  <2> QED
    BY <1>2, <1>3, <2>1 DEF StrictSubsetOrdering
<1> QED
  BY <1>3

\* A function with integer values has a maximum on a finite set of arguments.
LEMMA GreatestValue ==
  ASSUME NEW S, IsFiniteSet(S), S # {}, NEW f, \A x \in S : f[x] \in Int
  PROVE  \E x \in S : \A y \in S : f[y] <= f[x]
<1> DEFINE Above(x) == {y \in S : f[y] > f[x]}
           F == {Above(x) : x \in S}
<1>1. F \subseteq FiniteSubsetsOf(S)
  <2>1. \A x \in S : Above(x) \in SUBSET S
    OBVIOUS
  <2>2. \A x \in S : IsFiniteSet(Above(x))
    <3> HIDE DEF Above
    <3> QED
      BY <2>1, FS_Subset
  <2> HIDE DEF Above
  <2> QED
    BY <2>1, <2>2 DEF FiniteSubsetsOf
<1>2. F # {}
  OBVIOUS
<1>3. \E inner \in F : \A other \in F : other \subseteq inner => other = inner
  <2> HIDE DEF F
  <2> QED
    BY <1>1, <1>2, InnermostSet
<1>4. PICK x \in S : \A y \in S : Above(y) \subseteq Above(x) => Above(y) = Above(x)
  <2>1. PICK inner \in F : \A other \in F : other \subseteq inner => other = inner
    BY <1>3
  <2>2. PICK x \in S : inner = Above(x)
    OBVIOUS
  <2> HIDE DEF Above
  <2>3. \A y \in S : Above(y) \subseteq Above(x) => Above(y) = Above(x)
    BY <2>1, <2>2
  <2> QED
    BY <2>3
<1>5. ASSUME NEW y \in S, f[y] > f[x] PROVE FALSE
  <2>1. Above(y) \subseteq Above(x)
    BY <1>5
  <2>2. y \in Above(x) /\ y \notin Above(y)
    BY <1>5
  <2> QED
    BY <1>4, <2>1, <2>2
<1>6. \A y \in S : f[y] <= f[x]
  BY <1>5
<1> QED
  BY <1>6

\* Every set of natural numbers that is not empty has a least element.
LEMMA LeastNatural ==
  ASSUME NEW S, S \subseteq Nat, S # {}
  PROVE  \E x \in S : \A y \in S : x <= y
<1> DEFINE Upto(x) == 1..x
           F == {Upto(x) : x \in S}
<1>1. F \subseteq FiniteSubsetsOf(Nat)
  <2>1. \A x \in S : 1..x \in SUBSET Nat /\ IsFiniteSet(1..x)
    BY FS_Interval
  <2> QED
    BY <2>1 DEF FiniteSubsetsOf
<1>2. F # {}
  OBVIOUS
<1>3. \E inner \in F : \A other \in F : other \subseteq inner => other = inner
  <2> HIDE DEF F
  <2> QED
    BY <1>1, <1>2, InnermostSet
<1>4. PICK x \in S : \A y \in S : 1..y \subseteq 1..x => 1..y = 1..x
  <2>1. PICK inner \in F : \A other \in F : other \subseteq inner => other = inner
    BY <1>3
  <2>2. PICK x \in S : inner = Upto(x)
    OBVIOUS
  <2> HIDE DEF Upto
  <2>3. \A y \in S : Upto(y) \subseteq Upto(x) => Upto(y) = Upto(x)
    BY <2>1, <2>2
  <2> QED
    BY <2>3 DEF Upto
<1>5. ASSUME NEW y \in S, y < x PROVE FALSE
  <2>1. 1..y \subseteq 1..x
    BY <1>5
  <2>2. x \in 1..x /\ x \notin 1..y
    BY <1>5
  <2> QED
    BY <1>4, <2>1, <2>2
<1>6. \A y \in S : x <= y
  BY <1>5
<1> QED
  BY <1>6

\* Sorted arranges all elements of a finite set, each once, in the given order.
LEMMA SortedInOrder ==
  ASSUME NEW S, IsFiniteSet(S), NEW before,
         \A x \in S : <<x, x>> \notin before,
         \A x, y, z \in S : <<x, y>> \in before /\ <<y, z>> \in before => <<x, z>> \in before,
         \A x, y \in S : x # y => <<x, y>> \in before \/ <<y, x>> \in before
  PROVE  /\ Sorted(S, before) \in [1..Cardinality(S) -> S]
         /\ \A x \in S : \E i \in 1..Cardinality(S) : Sorted(S, before)[i] = x
         /\ \A i, k \in 1..Cardinality(S) :
              i < k => <<Sorted(S, before)[i], Sorted(S, before)[k]>> \in before
<1> DEFINE Earlier(x) == {y \in S : <<y, x>> \in before}
           N == Cardinality(S)
           place == [x \in S |-> Cardinality(Earlier(x)) + 1]
           s == Sorted(S, before)
<1>1. N \in Nat
  BY FS_CardinalityType
<1>2. \A x \in S : /\ Earlier(x) \in SUBSET S /\ Earlier(x) # S
                  /\ IsFiniteSet(Earlier(x)) /\ Cardinality(Earlier(x)) \in Nat
  <2>1. \A x \in S : Earlier(x) \in SUBSET S /\ x \notin Earlier(x)
    OBVIOUS
  <2> HIDE DEF Earlier
  <2> QED
    BY <2>1, FS_Subset, FS_CardinalityType
<1>3. \A x \in S : place[x] \in 1..N
  <2>1. \A x \in S : Cardinality(Earlier(x)) <= N /\ Cardinality(Earlier(x)) # N
    <3> HIDE DEF Earlier
    <3> QED
      BY <1>2, FS_Subset
  <2> HIDE DEF Earlier, N
  <2> QED
    BY <1>1, <1>2, <2>1
<1>4. ASSUME NEW x \in S, NEW y \in S, <<x, y>> \in before
      PROVE  place[x] < place[y]
  <2>1. Earlier(x) \in SUBSET Earlier(y) /\ x \in Earlier(y) /\ x \notin Earlier(x)
    BY <1>4
  <2>2. Cardinality(Earlier(x)) <= Cardinality(Earlier(y)) /\ Cardinality(Earlier(x)) # Cardinality(Earlier(y))
    <3> HIDE DEF Earlier
    <3> QED
      BY <1>2, <2>1, FS_Subset
  <2> HIDE DEF Earlier
  <2> QED
    BY <1>2, <2>2
<1>5. \A x, y \in S : place[x] = place[y] => x = y
  <2> HIDE DEF place
  <2>1. \A x \in S : place[x] \in Int
    BY <1>1, <1>3
  <2>2. \A x, y \in S : x # y => place[x] < place[y] \/ place[y] < place[x]
    BY <1>4
  <2> QED
    BY <2>1, <2>2
<1>6. \A i \in 1..N : \E x \in S : place[x] = i
  <2>1. place \in [S -> 1..N]
    BY <1>3
  <2> HIDE DEF place
  <2>2. place \in Injection(S, 1..N)
    BY <1>5, <2>1 DEF Injection, IsInjective
  <2>3. IsFiniteSet(1..N) /\ Cardinality(1..N) = N
    BY <1>1, FS_Interval
  <2>4. place \in Surjection(S, 1..N)
    <3> HIDE DEF N
    <3> QED
      BY <2>2, <2>3, FS_Injection DEF N
  <2> QED
    BY <2>4 DEF Surjection
<1>7. ASSUME NEW i \in 1..N
      PROVE  s[i] \in S /\ place[s[i]] = i
  <2>1. s[i] = CHOOSE x \in S : Cardinality(Earlier(x)) = i - 1
    BY DEF Sorted
  <2>2. \E x \in S : Cardinality(Earlier(x)) = i - 1
    <3>1. PICK x \in S : place[x] = i
      BY <1>6
    <3>2. Cardinality(Earlier(x)) + 1 = i
      BY <3>1
    <3> HIDE DEF Earlier, place
    <3> QED
      BY <1>2, <3>2, <1>1
  <2>3. s[i] \in S /\ Cardinality(Earlier(s[i])) = i - 1
    <3> HIDE DEF s, Earlier
    <3> QED
      BY <2>1, <2>2
  <2> HIDE DEF s, Earlier
  <2> QED
    BY <2>3, <1>1, <1>2
<1>8. s \in [1..N -> S]
  <2> DEFINE at(i) == CHOOSE x \in S : Cardinality(Earlier(x)) = i - 1
  <2>1. s = [i \in 1..N |-> at(i)]
    BY DEF Sorted
  <2> HIDE DEF s, N, at
  <2>2. \A i \in 1..N : at(i) \in S
    BY <1>7, <2>1
  <2> QED
    BY <2>1, <2>2
<1>9. \A x \in S : \E i \in 1..N : s[i] = x
  <2> HIDE DEF s, N, place
  <2> QED
    BY <1>3, <1>5, <1>7
<1>10. ASSUME NEW i \in 1..N, NEW k \in 1..N, i < k
       PROVE  <<s[i], s[k]>> \in before
  <2> HIDE DEF s, place
  <2>1. s[i] \in S /\ s[k] \in S /\ place[s[i]] = i /\ place[s[k]] = k
    BY <1>7
  <2>2. s[i] # s[k] /\ ~(<<s[k], s[i]>> \in before)
    BY <1>1, <1>4, <1>10, <2>1
  <2> QED
    BY <2>1, <2>2
<1> QED
  BY <1>8, <1>9, <1>10

\* Induction, for a property that is given as the set of what has it.
LEMMA InductionUpTo ==
  ASSUME NEW S, NEW n \in Nat, 0 \in S, \A i \in 1..n : i - 1 \in S => i \in S
  PROVE  \A i \in 0..n : i \in S
<1> DEFINE Bad == {i \in 0..n : i \notin S}
<1>1. Bad \subseteq Nat
  OBVIOUS
<1>2. ASSUME Bad # {} PROVE FALSE
  <2>1. \E least \in Bad : \A i \in Bad : least <= i
    <3> HIDE DEF Bad
    <3> QED
      BY <1>1, <1>2, LeastNatural
  <2>2. PICK least \in Bad : \A i \in Bad : least <= i
    BY <2>1
  <2>3. least \in 1..n /\ least - 1 \in 0..n
    BY <2>2
  <2>4. least - 1 \in S
    BY <2>2, <2>3
  <2> QED
    BY <2>2, <2>3, <2>4
<1> QED
  BY <1>2

\* A function on an initial part of the natural numbers may be defined by what
\* it has at 0 and by a step.  (The hypotheses and the conclusion are named, so
\* that the provers find the instance that a proof needs.)
StartsAtZero(D) == D \subseteq Nat /\ \A i \in D : i # 0 => i - 1 \in D
StepsInto(V, step) == \A i \in Nat \ {0} : \A v \in V : step[<<i, v>>] \in V
Recurs(f, D, base, step) == \A i \in D : f[i] = IF i = 0 THEN base ELSE step[<<i, f[i - 1]>>]

LEMMA RecursionIsDefined ==
  ASSUME NEW D, StartsAtZero(D), NEW V, NEW base \in V, NEW step, StepsInto(V, step)
  PROVE  \E f \in [D -> V] : Recurs(f, D, base, step)
<1> USE DEF StartsAtZero, StepsInto
<1> DEFINE Follows(f, n) == /\ f \in [0..n -> V]
                            /\ f[0] = base
                            /\ \A i \in 1..n : f[i] = step[<<i, f[i - 1]>>]
           Reached == {n \in Nat : \E f : Follows(f, n)}
           at(n) == CHOOSE f : Follows(f, n)
<1>1. ASSUME NEW n \in Nat PROVE Follows(at(n), n)
  <2>1. 0 \in Reached
    <3> DEFINE f == [i \in 0..0 |-> base]
    <3>1. Follows(f, 0)
      OBVIOUS
    <3> QED
      BY <3>1
  <2>2. ASSUME NEW i \in 1..n, i - 1 \in Reached PROVE i \in Reached
    <3>1. PICK f : Follows(f, i - 1)
      BY <2>2
    <3> DEFINE longer == [k \in 0..i |-> IF k < i THEN f[k] ELSE step[<<i, f[i - 1]>>]]
    <3>2. /\ f \in [0..(i - 1) -> V] /\ f[0] = base
          /\ \A k \in 1..(i - 1) : f[k] = step[<<k, f[k - 1]>>]
      BY <3>1
    <3>3. f[i - 1] \in V
      BY <3>2
    <3>4. step[<<i, f[i - 1]>>] \in V
      BY <3>3
    <3>5. longer \in [0..i -> V]
      BY <3>2, <3>4
    <3>6. longer[0] = base
      BY <3>2
    <3>7. \A k \in 1..i : longer[k] = step[<<k, longer[k - 1]>>]
      <4> SUFFICES ASSUME NEW k \in 1..i PROVE longer[k] = step[<<k, longer[k - 1]>>]
        OBVIOUS
      <4>1. longer[k - 1] = f[k - 1]
        OBVIOUS
      <4>2. CASE k = i
        BY <4>1, <4>2
      <4>3. CASE k # i
        <5>1. k \in 1..(i - 1) /\ longer[k] = f[k]
          BY <4>3
        <5> QED
          BY <3>2, <4>1, <5>1
      <4> QED
        BY <4>2, <4>3
    <3>8. Follows(longer, i)
      BY <3>5, <3>6, <3>7
    <3> HIDE DEF Follows, longer
    <3>9. \E h : Follows(h, i)
      BY <3>8
    <3> QED
      BY <3>9
  <2>3. n \in Reached
    <3> HIDE DEF Reached
    <3>1. \A i \in 0..n : i \in Reached
      BY <2>1, <2>2, InductionUpTo
    <3> QED
      BY <3>1
  <2>4. \E f : Follows(f, n)
    BY <2>3
  <2> HIDE DEF Follows
  <2> QED
    BY <2>4
<1> HIDE DEF at
<1>2. ASSUME NEW n \in Nat \ {0} PROVE at(n)[n - 1] = at(n - 1)[n - 1]
  <2> DEFINE f == at(n)
             g == at(n - 1)
             Same == {i \in Nat : f[i] = g[i]}
  <2>1. Follows(f, n) /\ Follows(g, n - 1)
    BY <1>1
  <2> HIDE DEF f, g
  <2>2. 0 \in Same
    BY <2>1
  <2>3. \A i \in 1..(n - 1) : i - 1 \in Same => i \in Same
    <3> SUFFICES ASSUME NEW i \in 1..(n - 1), f[i - 1] = g[i - 1] PROVE f[i] = g[i]
      OBVIOUS
    <3>1. f[i] = step[<<i, f[i - 1]>>] /\ g[i] = step[<<i, g[i - 1]>>]
      BY <2>1
    <3> QED
      BY <3>1
  <2>4. n - 1 \in Same
    <3>1. n - 1 \in Nat
      OBVIOUS
    <3> HIDE DEF Same
    <3>2. \A i \in 0..(n - 1) : i \in Same
      BY <2>2, <2>3, <3>1, InductionUpTo
    <3> QED
      BY <3>1, <3>2
  <2> QED
    BY <2>4 DEF f, g
<1> DEFINE f == [i \in D |-> at(i)[i]]
<1>3. ASSUME NEW i \in D PROVE f[i] \in V /\ f[i] = IF i = 0 THEN base ELSE step[<<i, f[i - 1]>>]
  <2>1. Follows(at(i), i) /\ i \in Nat /\ f[i] = at(i)[i]
    BY <1>1
  <2>2. f[i] \in V
    BY <2>1
  <2>3. CASE i = 0
    BY <2>1, <2>2, <2>3
  <2>4. CASE i # 0
    <3>1. i - 1 \in D /\ f[i - 1] = at(i - 1)[i - 1]
      BY <2>4
    <3>2. at(i)[i - 1] = at(i - 1)[i - 1]
      BY <1>2, <2>1, <2>4
    <3>3. at(i)[i] = step[<<i, at(i)[i - 1]>>]
      BY <2>1, <2>4
    <3> QED
      BY <2>1, <2>2, <2>4, <3>1, <3>2, <3>3
  <2> QED
    BY <2>3, <2>4
<1>4. f \in [D -> V]
  BY <1>3
<1> QED
  BY <1>3, <1>4 DEF Recurs
===================
