-------------------------------- MODULE MCLands --------------------------------
(***************************************************************************)
(* Lands that follow each other: one task, two attempts in its worktree.   *)
(***************************************************************************)
EXTENDS RunBranch, TLC

CONSTANTS t1, t2, a1, a2, c1, c2, c3

OneTask      == {t1}
TwoTasks     == {t1, t2}
TwoAttempts  == {a1, a2}
BothOnOne    == (a1 :> t1) @@ (a2 :> t1)
TwoChanges   == {c1, c2}
ThreeChanges == {c1, c2, c3}

Symmetry == Permutations(Change)
=============================================================================
