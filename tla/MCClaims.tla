------------------------------- MODULE MCClaims -------------------------------
(***************************************************************************)
(* Who claims what: workers spawned for a task, workers that replace one,  *)
(* handoffs and retries, over two tasks; and attempts that follow each     *)
(* other on one task.                                                      *)
(***************************************************************************)
EXTENDS TaskLedger, TLC

CONSTANTS t1, t2, dev

ClaimsTask == {t1, t2}
InOrder    == (t1 :> 1) @@ (t2 :> 2)
Zero       == [s \in ClaimsTask |-> 0]
Nothing    == [s \in ClaimsTask |-> {}]
Dev        == [s \in ClaimsTask |-> dev]
NoDev      == [s \in ClaimsTask |-> NoPersona]

ClaimsNext ==
    \/ Add(t1) \/ Add(t2)
    \/ SpawnWorker
    \/ \E w \in Worker :
          \/ PaneOpens(w) \/ SupervisorStarted(w) \/ AgentStarted(w)
          \/ \E s \in Task : ClaimTask(w, s)
          \/ ClaimNothing(w)
          \/ Handoff(w)
          \/ AgentExits(w) \/ Settle(w)
          \/ SweepPreclaim({w})

\* Attempts that follow each other on t1: a row is written once every earlier
\* one claimed or ended, and one worker at a time is reaped.  An attempt that
\* was given up keeps its agent and its done.
AttemptsNext ==
    \/ Add(t1) \/ Cancel(t1) \/ RequeueByOperator(t1)
    \/ /\ \A w \in Worker : wstatus[w] \notin PreClaim
       /\ \E w \in Worker : Spawn(w, dev, NoTask, NoWorker)
    \/ \E w \in Worker :
          \/ PaneOpens(w) \/ SupervisorStarted(w) \/ AgentStarted(w)
          \/ ClaimTask(w, t1)
          \/ Handoff(w)
          \/ DoneRead(w, "unlanded")
          \/ MarkDone(w)
          \/ AgentExits(w) \/ Settle(w)
          \/ (\A o \in Worker : stop[o] = NoStop) /\ StopRead(w, "incomplete")
          \/ EndRow(w) \/ StopProcesses(w)

\* The scene that a behaviour plays, from its first state on.
VARIABLE scene

ClaimsInit == Init /\ scene \in {"claims", "attempts"}

ScenesNext ==
    /\ UNCHANGED scene
    /\ \/ scene = "claims" /\ ClaimsNext
       \/ scene = "attempts" /\ AttemptsNext

ClaimsSpec == ClaimsInit /\ [][ScenesNext]_<<vars, scene>>

Rows == Permutations(Worker)
==============================================================================
