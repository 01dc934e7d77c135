------------------------------- MODULE MCTriage -------------------------------
(***************************************************************************)
(* The worktree that no step takes to an outcome, under two decisions.     *)
(***************************************************************************)
EXTENDS Triage

CONSTANTS p1, p2

TwoPatches == {p1, p2}
OnePatch   == {p1}

\* While a decision runs, the others edit, commit, switch the checkout and take
\* the task.  The main checkout moves before the first decision.  During that
\* one the checkout is switched, calls fail, and p2 is written, the latter
\* between the commit of what was uncommitted and the end of the folder.
TriageScene ==
    /\ TriageNext
    /\ decision # NoDecision /\ decision' = decision =>
          /\ tree'.there => tree.there
          /\ UNCHANGED <<row, dest, restoring, refs, old>>
    /\ dest' # dest /\ decision = NoDecision => begun = 0
    /\ tree'.on = "away" /\ tree.on # "away" =>
          begun = 1 /\ p1 \in written /\ p2 \notin written
    /\ faults' > faults => begun = 1 /\ p2 \notin written
    /\ p2 \in written' \ written =>
          begun = 1 /\ faults = 0 /\ decision.at \in {"write", "safe", "remove"}

\* For what is said of the triage and does not hold: whoever works in the
\* folder switches the checkout before a decision begins.
DetachedSpec ==
    /\ TriageInit
    /\ [][/\ TriageNext
          /\ tree'.on # tree.on => decision = NoDecision]_triageVars
===============================================================================
