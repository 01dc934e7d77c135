-------------------------- MODULE TaskLifeRefinement --------------------------
(***************************************************************************)
(* TaskLedger implements TaskLife: whatever crashes, reaps, stops and late *)
(* commands do, a task only ever moves as TaskLife says.                   *)
(***************************************************************************)
EXTENDS TaskLedger

\* A queued task that is held waits for the operator, not for a worker.
LifeOf(t) == IF tstatus[t] = "queued" /\ held[t] # "none" THEN "held" ELSE tstatus[t]

Life == INSTANCE TaskLife WITH
            Together <- {p \in Task \X Task : MayRunTogether(p[1], p[2])},
            WaitsFor <- BlockedBy,
            life     <- [t \in Task |-> LifeOf(t)],
            owner    <- cur,
            taken    <- task,
            blockers <- deps

\* No step of the ledger takes a held or a blocked task, one that does not
\* fit, a second task for a row, or moves a task where a late settle, reap,
\* `done` or `finish` of an old attempt must not (claim, requeue, mark_done).
ImplementsLife == Life!Spec
===============================================================================
