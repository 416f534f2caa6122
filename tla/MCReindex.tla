------------------------------ MODULE MCReindex ------------------------------
(***************************************************************************)
(* Small instances of Reindex for TLC.                                     *)
(***************************************************************************)
EXTENDS Reindex, TLC

CONSTANTS p1, p2, a, b, u, A, B

\* As in MCIndexPipeline: a and b have structure and the same spans, u has none.
MCStructural == Content \ {u}
MCLayout == {"spans", "whole", "mixed", "window"}
MCLayoutOf ==
    [text \in Content |->
       [cut \in Cut |-> CASE cut = Window -> "window"
                          [] cut = u -> "whole"
                          [] text = u -> "mixed"
                          [] OTHER -> "spans"]]

OneProc == {p1}
TwoProcs == {p1, p2}

\* Processes are interchangeable, and so are two texts with the same structure.
TextSymmetry == Permutations(Proc) \cup Permutations(Structural)
=============================================================================
