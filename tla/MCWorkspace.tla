----------------------------- MODULE MCWorkspace -----------------------------
(***************************************************************************)
(* Small instances of Workspace for TLC.                                   *)
(***************************************************************************)
EXTENDS Workspace, TLC

CONSTANTS p1, p2, x, y

TwoProcs == {p1, p2}

InFile(layer) == [settings |-> layer, legacy |-> Unset]

\* Nothing; the implemented provider with its model at the old place; another
\* model and a salt; a provider that is not implemented.
MCLocal ==
    {InFile(NoLayer),
     [settings |-> [NoLayer EXCEPT !.provider = LocalHash], legacy |-> "m1"],
     InFile([salt |-> "s1", provider |-> LocalHash,
             hash |-> [model |-> "m2", key |-> Key]]),
     InFile([NoLayer EXCEPT !.provider = "other"])}

\* Nothing; another model and a salt that is ignored; a key.
MCEnv ==
    {NoEnvironment,
     [NoEnvironment EXCEPT !.model = "m1", !.salt = Empty],
     [NoEnvironment EXCEPT !.key = Key]}

MCProject == InFile([NoLayer EXCEPT !.salt = "s1"])

Symmetry == Permutations(Proc) \cup Permutations(Name)
=============================================================================
