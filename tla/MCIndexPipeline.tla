--------------------------- MODULE MCIndexPipeline ---------------------------
(***************************************************************************)
(* Small instances of IndexPipeline, and of ChunkLayout, for TLC.          *)
(***************************************************************************)
EXTENDS IndexPipeline, ChunkLayout, TLC

CONSTANTS p1, a, b, u, A, B

\* Two contents with structure and one without; a and b have the same spans
\* (an edit inside a line), so only their text tells their chunks apart.
MCStructural == Content \ {u}
MCLayout == {"spans", "whole", "mixed", "window"}
MCLayoutOf ==
    [text \in Content |->
       [cut \in Cut |-> CASE cut = Window -> "window"
                          [] cut = u -> "whole"
                          [] text = u -> "mixed"
                          [] OTHER -> "spans"]]

\* Whatever lines the boundaries of a file name (BoundaryChunker) and wherever
\* its blank lines are (FallbackChunker), the chunks that a build makes of it tile
\* the file, and no window is too long or cut short without a blank line.
ChunksTile == (\E p \in Proc : At(p, "materialize")) => Untiled = {} /\ Mislaid = {}

OneProc == {p1}
\* The instance treats a and b alike, and A and B.
TextSymmetry == Permutations({a, b}) \cup Permutations({A, B})
=============================================================================
