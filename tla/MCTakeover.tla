------------------------------ MODULE MCTakeover ------------------------------
(***************************************************************************)
(* Three scenes of landing.  In "lands" two tasks land side by side on a   *)
(* run branch that is not checked out.  In the other two it is.  In        *)
(* "shared" work is committed on it too, and a lock may reach its age      *)
(* limit, while two tasks land side by side.  In "takeover" a2 works in    *)
(* the worktree of a1, whose land may still run; the task is lost,         *)
(* cancelled and requeued, and worktrees are removed.  In the first two    *)
(* scenes a2 takes no step and the worktrees stay, in the third a3 takes   *)
(* none.                                                                   *)
(***************************************************************************)
EXTENDS MCLands

CONSTANT a3

ThreeAttempts == {a1, a2, a3}
TwoAndOne     == (a1 :> t1) @@ (a2 :> t1) @@ (a3 :> t2)

\* The constants of the module are those of the lands scene.  With the run
\* branch checked out there are two changes and two tries.
Checkout == INSTANCE RunBranch WITH
    CheckedOut <- TRUE, MayAge <- TRUE, MaxTries <- 2, Change <- TwoChanges

CheckoutStep(a) == Checkout!Work(a) \/ Checkout!LandStep(a) \/ Checkout!LandDies(a)

\* What a behaviour plays, from its first state on.
VARIABLE scene

TakeoverInit == Init /\ scene \in {"lands", "shared", "takeover"}

SharedScene ==
    \/ \E a \in {a1, a3} : CheckoutStep(a)
    \/ \E c \in TwoChanges : Checkout!SharedCommit(c)
    \/ Checkout!Age

TakeoverScene ==
    \/ Checkout!TaskStep(t1)
    \/ Checkout!Cleanup(t1)
    \/ \E a \in {a1, a2} : CheckoutStep(a)

ScenesNext ==
    /\ UNCHANGED scene
    /\ \/ scene = "lands" /\ \E a \in {a1, a3} : Work(a) \/ LandStep(a) \/ LandDies(a)
       \/ scene = "shared" /\ SharedScene
       \/ scene = "takeover" /\ TakeoverScene

ScenesSpec == TakeoverInit /\ [][ScenesNext]_<<vars, scene>>

\* No action reads the trees that were checked, and only the lands scene is
\* asked for them.
View == <<git, ledger, procs, made, scene, IF scene = "lands" THEN checked ELSE {}>>

\* The run branch only ever holds a tree whose check passed, while nobody
\* commits on it but the lands (TipIsChecked of RunBranch, rebased_and_checked).
LandsAreChecked == scene = "lands" => TipIsChecked

\* From the comparison to the record of a land no other land is between its own
\* two, while no lock reaches its age limit under a live holder (LandsGoInALine
\* of RunBranch, land_lock).
LandsInALine == scene # "shared" => LandsGoInALine
===============================================================================
