------------------------------- MODULE TaskLife -------------------------------
(***************************************************************************)
(* What the task ledger promises about the life of a task: who may take    *)
(* it, beside which others, and where it can go from each status.  Rows,   *)
(* priorities, personas, processes and attempts are left to TaskLedger,    *)
(* which implements this specification (TaskLifeRefinement).               *)
(***************************************************************************)

CONSTANTS
    Task, Worker, NoTask, NoWorker,
    Together,    \* the pairs of tasks that may be in flight together
    WaitsFor     \* the blockers each task is added with

VARIABLES
    life,        \* tasks.status, a queued task that is held on its own
    owner,       \* tasks.current_worker_id
    taken,       \* workers.task_id
    blockers     \* the task_deps rows

lives == <<life, owner, taken, blockers>>

Flying == {t \in Task : life[t] \in {"running", "landing"}}

Start ==
    /\ life = [t \in Task |-> "absent"]
    /\ owner = [t \in Task |-> NoWorker]
    /\ taken = [w \in Worker |-> NoTask]
    /\ blockers = WaitsFor

\* The tasks whose life changes from one of `from` to one of `to`.
Move(t, from, to) ==
    /\ life[t] \in from
    /\ \E s \in to : life' = [life EXCEPT ![t] = s]

Enqueue(t) == Move(t, {"absent"}, {"queued"}) /\ UNCHANGED <<owner, taken, blockers>>

\* A worker takes one task, once; its blockers are done, and it fits beside
\* everything in flight.
Take(w, t) ==
    /\ taken[w] = NoTask
    /\ \A b \in blockers[t] : life[b] = "done"
    /\ \A u \in Flying : <<t, u>> \in Together
    /\ Move(t, {"queued"}, {"running"})
    /\ owner' = [owner EXCEPT ![t] = w]
    /\ taken' = [taken EXCEPT ![w] = t]
    /\ UNCHANGED blockers

Land(t) == Move(t, {"running"}, {"landing"}) /\ UNCHANGED <<owner, taken, blockers>>

Complete(t) == Move(t, {"running", "landing"}, {"done"}) /\ UNCHANGED <<owner, taken, blockers>>

\* The task is given back: to the queue, or held until the operator asks.
GiveBack(t) ==
    /\ Move(t, {"running", "landing"}, {"queued", "held"})
    /\ owner' = [owner EXCEPT ![t] = NoWorker]
    /\ UNCHANGED <<taken, blockers>>

Withdraw(t) ==
    /\ Move(t, {"queued", "held", "running", "landing"}, {"cancelled"})
    /\ owner' = [owner EXCEPT ![t] = NoWorker]
    /\ UNCHANGED <<taken, blockers>>

Reopen(t) ==
    /\ Move(t, {"held", "cancelled"}, {"queued"})
    /\ owner' = [owner EXCEPT ![t] = NoWorker]
    /\ UNCHANGED <<taken, blockers>>

Release(t, b) ==
    /\ b \in blockers[t]
    /\ blockers' = [blockers EXCEPT ![t] = @ \ {b}]
    /\ UNCHANGED <<life, owner, taken>>

Step(t) ==
    \/ Enqueue(t)
    \/ \E w \in Worker : Take(w, t)
    \/ Land(t)
    \/ Complete(t)
    \/ GiveBack(t)
    \/ Withdraw(t)
    \/ Reopen(t)
    \/ \E b \in Task : Release(t, b)

Spec == Start /\ [][\E t \in Task : Step(t)]_lives
===============================================================================
