------------------------------- MODULE MCBoard -------------------------------
(***************************************************************************)
(* Two scenes.  In "board" tasks that conflict, under claims, reviews and  *)
(* the operator's commands: the agents exit and are settled, and nobody    *)
(* stops a worker (MCEnds has the rest).  In "triage" the worktree that is *)
(* left under the operator's decisions (MCTriage).  No variable of one is  *)
(* read by the other; a scene plays one and leaves the other at its first  *)
(* state.                                                                  *)
(***************************************************************************)
EXTENDS TaskLedger, MCTriage, TLC

CONSTANTS a, c, d, x, r, f, dev, rev

\* a and c own the file f; c and d are in the shared checkout; x is exclusive
\* and waits for a; r reviews.
BoardTask     == {a, c, d, x, r}
BoardSeq      == (a :> 1) @@ (c :> 2) @@ (x :> 3) @@ (r :> 4) @@ (d :> 5)
BoardPriority == [t \in BoardTask |-> 0]
BoardOwn      == (a :> {f}) @@ (c :> {f}) @@ (d :> {}) @@ (x :> {}) @@ (r :> {})
BoardBlockers == (a :> {}) @@ (c :> {}) @@ (d :> {}) @@ (x :> {a}) @@ (r :> {})
BoardPrimary  == (a :> dev) @@ (c :> rev) @@ (d :> dev) @@ (x :> dev) @@ (r :> rev)
BoardFallback == (a :> NoPersona) @@ (c :> NoPersona) @@ (d :> NoPersona) @@ (x :> NoPersona) @@ (r :> dev)

BoardNext ==
    \/ \E t \in Task : Add(t)
    \/ Cancel(a) \/ RequeueByOperator(a) \/ Unblock(x, a) \/ FallBack(r)
    \/ \E w \in Worker, p \in Persona : Spawn(w, p, NoTask, NoWorker)
    \/ \E w \in Worker :
          \/ PaneOpens(w) \/ SupervisorStarted(w) \/ AgentStarted(w)
          \/ \E t \in Task : ClaimTask(w, t)
          \/ FinishRead(w) \/ SeedSteps(w) \/ StepsEnd(w, TRUE)
          \/ \E how \in {"done", "unlanded"} : DoneRead(w, how)
          \/ MarkDone(w)
          \/ AgentExits(w)
          \/ Settle(w)

\* What a behaviour plays, from its first state on.
VARIABLE scene

ScenesInit ==
    /\ Init /\ TriageInit
    /\ scene \in {"board", "triage"}

ScenesNext ==
    /\ UNCHANGED scene
    /\ \/ scene = "board" /\ BoardNext /\ UNCHANGED triageVars
       \/ scene = "triage" /\ TriageScene /\ UNCHANGED vars

ScenesSpec == ScenesInit /\ [][ScenesNext]_<<vars, triageVars, scene>>

Rows == Permutations(Worker)
==============================================================================
