----------------------------- MODULE ChunkLayout -----------------------------
(* How the text of one file is cut into chunks: at the lines where a parser  *)
(* found declarations or sections, or, where it failed or found none, into   *)
(* windows of bounded length that prefer to end on a blank line.             *)
(*                                                                           *)
(* Abstracted: a line is its number; a file is how many lines it has and     *)
(* which are blank.  Bytes are left out: a chunk's are the offsets of its    *)
(* lines.  What a parser finds is any set of lines, also of lines that the   *)
(* file does not have: boundaries are cached under the hash of the           *)
(* inventory, and the text is read from the repository as it is.             *)
EXTENDS Integers, FiniteSets

CONSTANTS
    WindowLines,  \* max_lines
    SearchLines,  \* boundary_search_window
    FileLines,    \* lengths of files
    FoundLines    \* lines at which a parser may find something

ASSUME WindowAssumption ==
    /\ WindowLines \in Nat \ {0} /\ SearchLines \in Nat
    /\ FileLines \subseteq Nat \ {0} /\ FoundLines \subseteq Int

Chunk == [first : Nat, last : Nat]

-----------------------------------------------------------------------------
\* Structural chunks.

Clamp(line, n) == IF line < 1 THEN 1 ELSE IF line > n THEN n ELSE line
Clamped(found, n) == {Clamp(line, n) : line \in found}

\* Mutant: the first boundary stays where it was found.
StartsAsFound(found, n) == Clamped(found, n)

\* The first chunk starts on line 1: a single boundary gets a chunk before it,
\* the first of several is moved there.
Starts(found, n) ==
    LET clamped == Clamped(found, n) IN
    {1} \cup {s \in clamped : clamped = {s} \/ \E t \in clamped : t < s}

\* A chunk reaches to the line before the next start, or to the end.
StructuralChunks(found, n) ==
    LET starts == Starts(found, n) IN
    {c \in [first : starts, last : 1..n] :
       /\ c.first <= c.last
       /\ c.last = n \/ c.last + 1 \in starts
       /\ \A t \in starts : t <= c.first \/ t > c.last}

-----------------------------------------------------------------------------
\* Windows.

AtMost(a, b) == IF a < b THEN a ELSE b
AtLeast(a, b) == IF a > b THEN a ELSE b

SearchFloor(start, end) == AtLeast(start + 1, end - SearchLines)

\* A window that does not reach the end of the file ends on the last blank line
\* within reach, if there is one.
WindowEnd(start, n, blank) ==
    LET end == AtMost(start + WindowLines - 1, n)
        candidates == SearchFloor(start, end)..end \cap blank IN
    IF end = n \/ candidates = {} THEN end
    ELSE CHOOSE line \in candidates : \A other \in candidates : other <= line

\* The loop starts windows at line 1 and behind each window: the least such set.
ClosedUnderNext(starts, n, blank) ==
    /\ 1 \in starts
    /\ \A s \in starts : WindowEnd(s, n, blank) < n => WindowEnd(s, n, blank) + 1 \in starts
WindowStarts(n, blank) ==
    {s \in 1..n : \A starts \in SUBSET (1..n) :
                    ClosedUnderNext(starts, n, blank) => s \in starts}

Windows(n, blank) ==
    {[first |-> s, last |-> WindowEnd(s, n, blank)] : s \in WindowStarts(n, blank)}

-----------------------------------------------------------------------------
\* What a layout promises, and the files for which it does not.

\* Every line is in exactly one chunk, and no chunk leaves the file or is empty:
\* a query can return every line, and none twice.
Tiles(pieces, n) ==
    /\ \A c \in pieces : 1 <= c.first /\ c.first <= c.last /\ c.last <= n
    /\ \A line \in 1..n : \E c \in pieces : c.first <= line /\ line <= c.last
    /\ \A c, d \in pieces : c # d => c.last < d.first \/ d.last < c.first

Untiled == {n \in FileLines : \E found \in SUBSET FoundLines \ {{}} :
                                 ~Tiles(StructuralChunks(found, n), n)}

\* No window is too long, and one that is cut short before the end of the file
\* ends on a blank line.
SensibleWindows(n, blank) ==
    /\ Tiles(Windows(n, blank), n)
    /\ \A w \in Windows(n, blank) :
         /\ w.last - w.first < WindowLines
         /\ w.last - w.first + 1 < WindowLines /\ w.last < n => w.last \in blank
Mislaid == {n \in FileLines : \E blank \in SUBSET (1..n) : ~SensibleWindows(n, blank)}
=============================================================================
