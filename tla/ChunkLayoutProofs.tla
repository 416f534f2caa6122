-------------------------- MODULE ChunkLayoutProofs --------------------------
(***************************************************************************)
(* That the chunks of a file tile it, for files of any length, whatever    *)
(* lines a parser names and wherever the blank lines are.                  *)
(***************************************************************************)
EXTENDS MCIndexPipeline, OrderLemmas

\* The greatest line of a set of lines that are all in the file.
LEMMA LastLine ==
  ASSUME NEW n \in Nat, NEW lines, lines \subseteq 1..n, lines # {}
  PROVE  \E line \in lines : \A other \in lines : other <= line
<1> DEFINE f == [line \in lines |-> line]
<1>1. IsFiniteSet(lines)
  <2>1. IsFiniteSet(1..n)
    BY FS_Interval
  <2> QED
    BY <2>1, FS_Subset
<1>2. \A line \in lines : f[line] \in Int
  OBVIOUS
<1>3. \E line \in lines : \A other \in lines : f[other] <= f[line]
  <2> HIDE DEF f
  <2> QED
    BY <1>1, <1>2, GreatestValue
<1> QED
  BY <1>3

-----------------------------------------------------------------------------
\* Structural chunks.

LEMMA StartsInFile ==
  ASSUME NEW n \in Nat \ {0}, NEW found \in SUBSET Int
  PROVE  Starts(found, n) \subseteq 1..n /\ 1 \in Starts(found, n)
BY DEF Starts, Clamped, Clamp

\* Wherever a parser finds declarations, in the file or past its end, every line
\* is in exactly one structural chunk.
THEOREM StructuralChunksTile ==
  ASSUME NEW n \in Nat \ {0}, NEW found \in SUBSET Int
  PROVE  Tiles(StructuralChunks(found, n), n)
<1> DEFINE starts == Starts(found, n)
           pieces == StructuralChunks(found, n)
<1>1. starts \subseteq 1..n /\ 1 \in starts
  BY StartsInFile
<1>2. \A c \in pieces : /\ c.first \in starts /\ c.last \in 1..n /\ c.first <= c.last
                        /\ c.last = n \/ c.last + 1 \in starts
                        /\ \A t \in starts : t <= c.first \/ t > c.last
  BY DEF StructuralChunks
<1>r. \A c, d \in pieces : c.first = d.first /\ c.last = d.last => c = d
  BY DEF StructuralChunks
<1>3. \A c \in [first : starts, last : 1..n] :
        /\ c.first <= c.last
        /\ c.last = n \/ c.last + 1 \in starts
        /\ \A t \in starts : t <= c.first \/ t > c.last
        => c \in pieces
  BY DEF StructuralChunks
<1>0. \A s \in starts : s \in Int /\ 1 <= s /\ s <= n
  BY <1>1
<1> HIDE DEF starts, pieces
<1>4. \A c \in pieces : 1 <= c.first /\ c.first <= c.last /\ c.last <= n
  BY <1>1, <1>2
<1>5. ASSUME NEW line \in 1..n
      PROVE  \E c \in pieces : c.first <= line /\ line <= c.last
  <2> DEFINE before == {s \in starts : s <= line}
             after == {s \in starts : s > line} \cup {n + 1}
  <2>1. PICK from \in before : \A s \in before : s <= from
    <3>1. before \subseteq 1..n
      BY <1>1
    <3>2. 1 \in before
      BY <1>1
    <3> HIDE DEF before
    <3> QED
      BY <3>1, <3>2, LastLine
  <2>2. PICK upto \in after : \A s \in after : upto <= s
    <3>1. after \subseteq Nat /\ n + 1 \in after
      BY <1>0
    <3> HIDE DEF after
    <3> QED
      BY <3>1, LeastNatural
  <2> DEFINE c == [first |-> from, last |-> upto - 1]
  <2>3. from \in starts /\ from <= line /\ from \in 1..n /\ upto \in 1..(n + 1) /\ line < upto
        /\ (upto = n + 1 \/ upto \in starts)
    BY <1>1
  <2>4. \A t \in starts : t <= from \/ t >= upto
    BY <1>1, <2>1, <2>2
  <2>5. c \in pieces
    BY <1>1, <1>3, <2>3, <2>4
  <2> QED
    BY <2>3, <2>5
<1>6. ASSUME NEW c \in pieces, NEW d \in pieces, c # d
      PROVE  c.last < d.first \/ d.last < c.first
  <2>1. c.first # d.first
    <3>1. SUFFICES ASSUME c.first = d.first PROVE FALSE
      OBVIOUS
    <3>2. c.last # d.last
      BY <1>r, <1>6, <3>1
    <3> QED
      BY <1>0, <1>2, <3>1, <3>2
  <2> QED
    BY <1>0, <1>2, <2>1
<1> QED
  BY <1>4, <1>5, <1>6 DEF Tiles, pieces

-----------------------------------------------------------------------------
\* Windows.

LEMMA EndOfWindow ==
  ASSUME NEW n \in Nat \ {0}, NEW blank \in SUBSET (1..n), NEW s \in 1..n
  PROVE  LET end == WindowEnd(s, n, blank) IN
         /\ end \in s..n /\ end - s < WindowLines
         /\ end - s + 1 < WindowLines /\ end < n => end \in blank
<1> DEFINE end == AtMost(s + WindowLines - 1, n)
           floor == SearchFloor(s, end)
           candidates == floor..end \cap blank
<1>1. /\ end \in s..n /\ end - s < WindowLines
      /\ end = n \/ end - s + 1 = WindowLines
  BY WindowAssumption DEF AtMost
<1>2. floor \in Int /\ floor >= s + 1
  BY <1>1, WindowAssumption DEF SearchFloor, AtLeast
<1>3. WindowEnd(s, n, blank) =
        IF end = n \/ candidates = {} THEN end
        ELSE CHOOSE line \in candidates : \A other \in candidates : other <= line
  BY DEF WindowEnd
<1> HIDE DEF end, floor
<1>4. ASSUME candidates # {}
      PROVE  (CHOOSE line \in candidates : \A other \in candidates : other <= line) \in candidates
  <2>1. candidates \subseteq 1..n
    OBVIOUS
  <2> HIDE DEF candidates
  <2>2. \E line \in candidates : \A other \in candidates : other <= line
    BY <1>4, <2>1, LastLine
  <2> QED
    BY <2>2
<1>5. CASE end = n \/ candidates = {}
  <2>1. WindowEnd(s, n, blank) = end
    BY <1>3, <1>5
  <2> HIDE DEF candidates
  <2> QED
    BY <1>1, <2>1
<1>6. CASE ~(end = n \/ candidates = {})
  <2>1. WindowEnd(s, n, blank) \in floor..end /\ WindowEnd(s, n, blank) \in blank
    BY <1>3, <1>4, <1>6
  <2> QED
    BY <1>1, <1>2, <2>1, WindowAssumption
<1> QED
  BY <1>5, <1>6

LEMMA NextWindow ==
  ASSUME NEW n \in Nat \ {0}, NEW blank \in SUBSET (1..n)
  PROVE  /\ WindowStarts(n, blank) \subseteq 1..n
         /\ ClosedUnderNext(WindowStarts(n, blank), n, blank)
BY EndOfWindow DEF WindowStarts, ClosedUnderNext

\* The starts are the least closed set: each but the first is behind a window.
LEMMA WindowBefore ==
  ASSUME NEW n \in Nat \ {0}, NEW blank \in SUBSET (1..n),
         NEW t \in WindowStarts(n, blank), t # 1
  PROVE  \E r \in WindowStarts(n, blank) : WindowEnd(r, n, blank) + 1 = t
<1> DEFINE starts == WindowStarts(n, blank)
<1>1. SUFFICES ASSUME \A r \in starts : WindowEnd(r, n, blank) + 1 # t PROVE FALSE
  OBVIOUS
<1>2. starts \subseteq 1..n /\ ClosedUnderNext(starts, n, blank)
  BY NextWindow
<1>3. \A closed \in SUBSET (1..n) : ClosedUnderNext(closed, n, blank) => t \in closed
  BY DEF WindowStarts
<1> HIDE DEF starts
<1>4. ClosedUnderNext(starts \ {t}, n, blank)
  BY <1>1, <1>2 DEF ClosedUnderNext
<1> QED
  BY <1>2, <1>3, <1>4

\* No window starts inside another.
LEMMA WindowsApart ==
  ASSUME NEW n \in Nat \ {0}, NEW blank \in SUBSET (1..n),
         NEW s \in WindowStarts(n, blank), NEW t \in WindowStarts(n, blank), s < t
  PROVE  WindowEnd(s, n, blank) < t
<1> DEFINE starts == WindowStarts(n, blank)
           End(r) == WindowEnd(r, n, blank)
           inside == {inner \in starts : \E r \in starts : r < inner /\ inner <= End(r)}
<1>1. starts \subseteq 1..n
  BY NextWindow
<1>0. \A r \in starts : r \in Int /\ 1 <= r /\ r <= n
  BY <1>1
<1>2. \A r \in starts : End(r) \in r..n
  BY <1>1, EndOfWindow
<1>3. \A inner \in starts : inner # 1 => \E r \in starts : End(r) + 1 = inner
  BY WindowBefore
<1> HIDE DEF starts, End
<1>4. ASSUME inside # {} PROVE FALSE
  <2>1. PICK inner \in inside : \A other \in inside : inner <= other
    <3>1. inside \subseteq Nat
      BY <1>0
    <3> HIDE DEF inside
    <3> QED
      BY <1>4, <3>1, LeastNatural
  <2>2. PICK v \in starts : v < inner /\ inner <= End(v)
    OBVIOUS
  <2>3. PICK r \in starts : End(r) + 1 = inner
    BY <1>0, <1>3, <2>2
  <2>4. r \in 1..n /\ v \in 1..n /\ inner \in 1..n /\ End(r) \in r..n /\ End(v) \in v..n
    BY <1>1, <1>2
  <2>5. r < inner /\ r # v
    BY <2>2, <2>3, <2>4
  <2>6. r \notin inside /\ v \notin inside
    BY <2>1, <2>2, <2>4, <2>5
  <2>7. (v < r => End(v) < r) /\ (r < v => End(r) < v)
    BY <1>2, <2>4, <2>6
  <2> QED
    BY <2>2, <2>3, <2>4, <2>5, <2>7
<1>5. s \in starts /\ t \in starts /\ End(s) \in s..n /\ t \in 1..n
  BY <1>1, <1>2 DEF starts
<1>6. ~(t <= End(s))
  BY <1>4, <1>5
<1> QED
  BY <1>5, <1>6 DEF End

\* Wherever the blank lines are, every line of a file is in exactly one window,
\* and a window is shorter than it may be only at the end or before a blank line.
THEOREM WindowsTile ==
  ASSUME NEW n \in Nat \ {0}, NEW blank \in SUBSET (1..n)
  PROVE  SensibleWindows(n, blank)
<1> DEFINE starts == WindowStarts(n, blank)
           End(r) == WindowEnd(r, n, blank)
           pieces == Windows(n, blank)
<1>1. /\ starts \subseteq 1..n /\ 1 \in starts
      /\ \A s \in starts : End(s) < n => End(s) + 1 \in starts
  BY NextWindow DEF ClosedUnderNext
<1>2. \A s \in starts : /\ End(s) \in s..n /\ End(s) - s < WindowLines
                        /\ End(s) - s + 1 < WindowLines /\ End(s) < n => End(s) \in blank
  BY <1>1, EndOfWindow
<1>3. \A s, t \in starts : s < t => End(s) < t
  BY WindowsApart
<1>0. \A s \in starts : s \in Int /\ 1 <= s /\ s <= n
  BY <1>1
<1>4. pieces = {[first |-> s, last |-> End(s)] : s \in starts}
  BY DEF Windows
<1> HIDE DEF starts, End, pieces
<1>5. \A w \in pieces : w.first \in starts /\ w.last = End(w.first)
                        /\ w = [first |-> w.first, last |-> End(w.first)]
  BY <1>4
<1>6. ASSUME NEW line \in 1..n
      PROVE  \E c \in pieces : c.first <= line /\ line <= c.last
  <2> DEFINE before == {s \in starts : s <= line}
  <2>1. PICK from \in before : \A s \in before : s <= from
    <3>1. before \subseteq 1..n
      BY <1>1
    <3>2. 1 \in before
      BY <1>1
    <3> HIDE DEF before
    <3> QED
      BY <3>1, <3>2, LastLine
  <2>2. from \in starts /\ from \in 1..n /\ from <= line /\ End(from) \in from..n
    BY <1>1, <1>2
  <2>3. line <= End(from)
    <3>1. SUFFICES ASSUME End(from) < line PROVE FALSE
      BY <2>2
    <3>2. End(from) + 1 \in before
      BY <1>1, <2>2, <3>1
    <3> QED
      BY <2>1, <2>2, <3>2
  <2>4. [first |-> from, last |-> End(from)] \in pieces
    BY <1>4, <2>2
  <2> QED
    BY <2>2, <2>3, <2>4
<1>7. ASSUME NEW c \in pieces, NEW d \in pieces, c # d
      PROVE  c.last < d.first \/ d.last < c.first
  <2>1. c.first # d.first
    BY <1>5, <1>7
  <2> QED
    BY <1>1, <1>3, <1>5, <2>1
<1>8. \A c \in pieces : 1 <= c.first /\ c.first <= c.last /\ c.last <= n
  BY <1>1, <1>2, <1>5
<1>9. \A w \in pieces : /\ w.last - w.first < WindowLines
                        /\ w.last - w.first + 1 < WindowLines /\ w.last < n => w.last \in blank
  BY <1>2, <1>5
<1> QED
  BY <1>6, <1>7, <1>8, <1>9 DEF SensibleWindows, Tiles, pieces

\* Both of them, for every file that a build may meet.
THEOREM BuildsTile == Spec => []ChunksTile
<1>1. Untiled = {}
  BY WindowAssumption, StructuralChunksTile DEF Untiled
<1>2. Mislaid = {}
  BY WindowAssumption, WindowsTile DEF Mislaid
<1>3. ChunksTile
  BY <1>1, <1>2 DEF ChunksTile
<1> QED
  BY <1>3, PTL
=============================================================================
