------------------------------- MODULE MCWorkers -------------------------------
(***************************************************************************)
(* A worker to its end and the pane it works in, one in each scene: every  *)
(* way a worker and its commands end, and the jobs that compact its        *)
(* context.  No variable of one is read by the other; a scene plays one    *)
(* and leaves the other at its first state.                                *)
(***************************************************************************)
EXTENDS MCEnds, Compaction

CONSTANTS k1, k2, k3

ThreeCompactors == {k1, k2, k3}
OneForeground   == {k1}

\* What a behaviour plays, from its first state on.
VARIABLE scene

WorkersInit ==
    /\ Init /\ CompactionInit
    /\ scene \in {"ends", "compaction"}

EndsScene == EndsNext /\ UNCHANGED compactVars

\* k1, in the foreground, is past its start before k2 and k3, which are
\* commands, begin.  Two troubles are two jobs that die past their start.
Killed == {c \in Compactor \cap began : child[c] = "killed"}
CompactionScene ==
    /\ CompactionNext
    /\ \A p \in {k2, k3} :
          command'[p].at # "new" => child'[k1] \notin {"none", "refuse"} \cup Starting
    /\ troubles' = 2 => Cardinality(Killed') = 2
    /\ UNCHANGED vars

WorkersNext ==
    /\ UNCHANGED scene
    /\ \/ scene = "ends" /\ EndsScene
       \/ scene = "compaction" /\ CompactionScene

WorkersSpec == WorkersInit /\ [][WorkersNext]_<<vars, compactVars, scene>>

WorkersSymmetry == Rows \cup Permutations({k2, k3})
================================================================================
