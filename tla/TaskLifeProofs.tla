---------------------------- MODULE TaskLifeProofs ----------------------------
(***************************************************************************)
(* TaskLedger implements TaskLife, for any number of tasks and workers.    *)
(* Each step of the ledger is one step of one task's life or a stutter;    *)
(* that a claimer has no task yet is what the inductive invariant ClaimInv *)
(* adds, and the fit beside the tasks in flight comes from ClaimFits.      *)
(* AbsentFree is there because the held reason of a task picks its life.   *)
(***************************************************************************)
EXTENDS TaskLifeRefinement, TaskLedgerProofs

\* A task that is not added yet is not held.
AbsentFree == \A t \in Task : tstatus[t] = "absent" => held[t] = "none"

\* No step takes a task out of the table, or holds one that is not in it.
LEMMA RequeueLeavesAbsent ==
    ASSUME TypeOK, NEW t, Requeue(t), NEW u \in Task, tstatus'[u] = "absent"
    PROVE  tstatus[u] = "absent" /\ held'[u] = held[u]
BY DEF Requeue, TypeOK, Active, InFlight

LEMMA NextAbsent == TypeOK /\ AbsentFree /\ [Next]_vars => AbsentFree'
<1> SUFFICES ASSUME TypeOK, AbsentFree, [Next]_vars, NEW t \in Task, tstatus'[t] = "absent"
             PROVE  tstatus[t] = "absent" /\ held'[t] = held[t]
  BY DEF AbsentFree
<1> DEFINE Ok == tstatus[t] = "absent" /\ held'[t] = held[t]
<1> USE DEF TypeOK
<1>1. ASSUME TaskCommand PROVE Ok
  BY <1>1 DEF TaskCommand, Add, Unblock, FallBack, Cancel, RequeueByOperator
<1>2. ASSUME NEW w \in Worker, NEW u \in Task, ClaimTask(w, u) PROVE Ok
  BY <1>2 DEF ClaimTask
<1>3. ASSUME NEW w \in Worker, Handoff(w) \/ SeedSteps(w) \/ MarkDone(w) PROVE Ok
  BY <1>3 DEF Handoff, SeedSteps, MarkDone, Landing, StillRuns, InFlight
<1>4. ASSUME NEW w \in Worker, Settle(w) \/ EndRow(w) \/ StopProcesses(w) PROVE Ok
  <2>1. (\E u : Requeue(u)) \/ UNCHANGED <<tstatus, cur, held, prio>>
    BY <1>4, IfHeldIsRequeue DEF Settle, EndRow, StopProcesses
  <2> QED
    BY <2>1, RequeueLeavesAbsent
<1>5. ASSUME UNCHANGED taskRows PROVE Ok
  BY <1>5 DEF taskRows
<1> QED
  BY <1>1, <1>2, <1>3, <1>4, <1>5, QuietSteps DEF Next, AgentCommand, WorkerEnds

LEMMA SameLife ==
    ASSUME UNCHANGED <<tstatus, held, cur, task, deps>>
    PROVE  UNCHANGED Life!lives
BY DEF Life!lives, LifeOf

\* A requeue gives the task back, or does nothing.
LEMMA RequeueGivesBack ==
    ASSUME TypeOK, NEW t \in Task, Requeue(t), UNCHANGED <<task, deps>>
    PROVE  Life!GiveBack(t) \/ UNCHANGED Life!lives
<1>1. CASE t \in Active
  <2>1. LifeOf(t) = tstatus[t] /\ tstatus[t] \in {"running", "landing"}
    BY <1>1 DEF LifeOf, Active, InFlight
  <2>2. LifeOf(t)' \in {"queued", "held"}
    BY <1>1 DEF Requeue, LifeOf, TypeOK
  <2>3. \A u \in Task \ {t} : LifeOf(u)' = LifeOf(u)
    BY <1>1 DEF Requeue, LifeOf, TypeOK
  <2>4. [u \in Task |-> LifeOf(u)]' = [[u \in Task |-> LifeOf(u)] EXCEPT ![t] = LifeOf(t)']
    BY <2>3
  <2>5. cur' = [cur EXCEPT ![t] = NoWorker]
    BY <1>1 DEF Requeue
  <2> QED
    BY <2>1, <2>2, <2>4, <2>5 DEF Life!GiveBack, Life!Move
<1>2. CASE t \notin Active
  BY <1>2, SameLife DEF Requeue
<1> QED
  BY <1>1, <1>2

LEMMA IfHeldGivesBack ==
    ASSUME TypeOK, NEW t \in Task \cup {NoTask}, NEW w, RequeueIfHeld(t, w), UNCHANGED <<task, deps>>
    PROVE  (\E u \in Task : Life!GiveBack(u)) \/ UNCHANGED Life!lives
<1>1. CASE t \in Active
  BY <1>1, RequeueGivesBack, SameLife DEF RequeueIfHeld, Active
<1>2. CASE t \notin Active
  BY <1>2, SameLife DEF RequeueIfHeld
<1> QED
  BY <1>1, <1>2

\* What becomes of one task whose row alone is written.
LEMMA OneMoves ==
    ASSUME TypeOK, NEW t \in Task, NEW s, NEW h,
           tstatus' = [tstatus EXCEPT ![t] = s], held' = [held EXCEPT ![t] = h]
    PROVE  [u \in Task |-> LifeOf(u)]' =
             [[u \in Task |-> LifeOf(u)] EXCEPT
                ![t] = IF s = "queued" /\ h # "none" THEN "held" ELSE s]
<1>1. \A u \in Task \ {t} : LifeOf(u)' = LifeOf(u)
  BY DEF LifeOf, TypeOK
<1>2. LifeOf(t)' = IF s = "queued" /\ h # "none" THEN "held" ELSE s
  BY DEF LifeOf, TypeOK
<1> QED
  BY <1>1, <1>2

\* A claim takes a task that is in line, not blocked, and fits.
LEMMA ClaimTakes ==
    ASSUME ClaimInv, NEW w \in Worker, NEW t \in Task, ClaimTask(w, t)
    PROVE  Life!Take(w, t)
<1>1. TypeOK /\ task[w] = NoTask
  BY ClaimerHasNone DEF ClaimInv
<1>2. t \in Startable /\ t \in Queued
  BY PickStartable DEF ClaimTask
<1>3. \A b \in deps[t] : LifeOf(b) = "done"
  BY <1>2 DEF Startable, Waits, IsBlocked, LifeOf
<1>4. \A u \in Life!Flying : <<t, u>> \in {p \in Task \X Task : MayRunTogether(p[1], p[2])}
  <2> SUFFICES ASSUME NEW u \in Life!Flying
               PROVE  <<t, u>> \in {p \in Task \X Task : MayRunTogether(p[1], p[2])}
    OBVIOUS
  <2>1. u \in Active
    BY DEF Life!Flying, LifeOf, Active, InFlight
  <2>2. MayRunTogether(t, u)
    BY <1>1, <2>1, ClaimFits
  <2> QED
    BY <2>1, <2>2 DEF Active
<1>5. Life!Move(t, {"queued"}, {"running"})
  <2>1. LifeOf(t) = "queued" /\ held' = [held EXCEPT ![t] = held[t]]
    BY <1>1, <1>2 DEF Queued, LifeOf, ClaimTask, TypeOK
  <2>2. tstatus' = [tstatus EXCEPT ![t] = "running"]
    BY DEF ClaimTask
  <2> QED
    BY <1>1, <2>1, <2>2, OneMoves DEF Life!Move
<1>6. deps[t] \subseteq Task
  BY <1>1 DEF TypeOK
<1> QED
  BY <1>1, <1>3, <1>4, <1>5, <1>6 DEF ClaimTask, Life!Take

\* The operator's commands.
LEMMA CommandLives ==
    ASSUME TypeOK, AbsentFree, TaskCommand
    PROVE  (\E t \in Task : Life!Step(t)) \/ UNCHANGED Life!lives
<1>1. ASSUME NEW t \in Task, Add(t) PROVE Life!Enqueue(t)
  <2>1. /\ tstatus' = [tstatus EXCEPT ![t] = "queued"] /\ held' = [held EXCEPT ![t] = held[t]]
        /\ LifeOf(t) = "absent" /\ UNCHANGED <<cur, task, deps>>
    BY <1>1 DEF Add, workerRows, LifeOf, TypeOK
  <2>2. [u \in Task |-> LifeOf(u)]' = [[u \in Task |-> LifeOf(u)] EXCEPT ![t] = "queued"]
    BY <1>1, <2>1, OneMoves DEF Add, AbsentFree
  <2> QED
    BY <2>1, <2>2 DEF Life!Enqueue, Life!Move
<1>2. ASSUME NEW t \in Task, NEW b \in Task, Unblock(t, b) PROVE Life!Release(t, b)
  BY <1>2 DEF Unblock, workerRows, Life!Release, LifeOf
<1>3. ASSUME NEW t \in Task, FallBack(t) PROVE UNCHANGED Life!lives
  BY <1>3, SameLife DEF FallBack, workerRows
<1>4. ASSUME NEW t \in Task, Cancel(t) PROVE Life!Withdraw(t)
  <2>1. /\ tstatus' = [tstatus EXCEPT ![t] = "cancelled"] /\ held' = [held EXCEPT ![t] = "none"]
        /\ cur' = [cur EXCEPT ![t] = NoWorker] /\ UNCHANGED <<task, deps>>
        /\ LifeOf(t) \in {"queued", "held", "running", "landing"}
    BY <1>4 DEF Cancel, LifeOf, TypeOK, TaskStatus
  <2> QED
    BY <2>1, OneMoves DEF Life!Withdraw, Life!Move
<1>5. ASSUME NEW t \in Task, RequeueByOperator(t) PROVE Life!Reopen(t)
  <2>1. /\ tstatus' = [tstatus EXCEPT ![t] = "queued"] /\ held' = [held EXCEPT ![t] = "none"]
        /\ cur' = [cur EXCEPT ![t] = NoWorker] /\ UNCHANGED <<task, deps>>
        /\ LifeOf(t) \in {"held", "cancelled"}
    BY <1>5 DEF RequeueByOperator, LifeOf, workerRows
  <2> QED
    BY <2>1, OneMoves DEF Life!Reopen, Life!Move
<1> QED
  BY <1>1, <1>2, <1>3, <1>4, <1>5 DEF TaskCommand, Life!Step

\* The agent's commands.
LEMMA AgentLives ==
    ASSUME ClaimInv, NEW w \in Worker, AgentCommand(w)
    PROVE  (\E t \in Task : Life!Step(t)) \/ UNCHANGED Life!lives
<1> USE DEF ClaimInv
<1>1. ASSUME NEW t \in Task, ClaimTask(w, t) PROVE Life!Take(w, t)
  BY <1>1, ClaimTakes
<1>2. ASSUME Handoff(w) PROVE \E t \in Task : Life!GiveBack(t)
  <2> DEFINE t == task[w]
  <2>1. t \in Task /\ tstatus[t] = "running" /\ LifeOf(t) = "running"
    BY <1>2 DEF Handoff, Holds, TypeOK, LifeOf
  <2>2. /\ tstatus' = [tstatus EXCEPT ![t] = "queued"] /\ held' = [held EXCEPT ![t] = "none"]
        /\ cur' = [cur EXCEPT ![t] = NoWorker] /\ UNCHANGED <<task, deps>>
    BY <1>2 DEF Handoff
  <2> HIDE DEF t
  <2> QED
    BY <2>1, <2>2, OneMoves DEF Life!GiveBack, Life!Move
<1>3. ASSUME SeedSteps(w) PROVE (\E t \in Task : Life!Land(t)) \/ UNCHANGED Life!lives
  <2> DEFINE t == task[w]
  <2>1. tstatus' = [tstatus EXCEPT ![t] = Landing(@)] /\ UNCHANGED <<held, cur, task, deps>>
    BY <1>3 DEF SeedSteps, workerRows
  <2>2. t \in Task \/ t \notin DOMAIN tstatus
    BY DEF TypeOK
  <2>3. CASE t \in Task /\ tstatus[t] = "running"
    <3>1. /\ tstatus' = [tstatus EXCEPT ![t] = "landing"] /\ held' = [held EXCEPT ![t] = held[t]]
          /\ LifeOf(t) = "running"
      BY <2>1, <2>3 DEF Landing, LifeOf, TypeOK
    <3> HIDE DEF t
    <3>2. [u \in Task |-> LifeOf(u)]' = [[u \in Task |-> LifeOf(u)] EXCEPT ![t] = "landing"]
      BY <2>3, <3>1, OneMoves
    <3> QED
      BY <2>1, <2>3, <3>1, <3>2 DEF Life!Land, Life!Move
  <2>4. CASE ~(t \in Task /\ tstatus[t] = "running")
    <3>1. tstatus' = tstatus
      BY <2>1, <2>2, <2>4 DEF Landing, TypeOK
    <3> QED
      BY <2>1, <3>1, SameLife
  <2> QED
    BY <2>3, <2>4
<1>4. ASSUME MarkDone(w)
      PROVE  (\E t \in Task : Life!Complete(t) \/ Life!GiveBack(t)) \/ UNCHANGED Life!lives
  <2> DEFINE t == task[w]
             parks == ack[w] = "unlanded"
  <2>1. /\ tstatus' = [tstatus EXCEPT ![t] = IF parks THEN "queued" ELSE "done"]
        /\ held' = [held EXCEPT ![t] = IF parks THEN "unlanded" ELSE "none"]
        /\ cur' = [cur EXCEPT ![t] = IF parks THEN NoWorker ELSE cur[t]]
        /\ UNCHANGED <<task, deps>> /\ tstatus[t] \in InFlight
    BY <1>4 DEF MarkDone, StillRuns
  <2>2. CASE t \in Task /\ parks
    <3>1. LifeOf(t) \in {"running", "landing"}
      BY <2>1, <2>2 DEF LifeOf, InFlight
    <3>2. /\ tstatus' = [tstatus EXCEPT ![t] = "queued"] /\ held' = [held EXCEPT ![t] = "unlanded"]
          /\ cur' = [cur EXCEPT ![t] = NoWorker]
      BY <2>1, <2>2
    <3> HIDE DEF t
    <3> QED
      BY <2>1, <2>2, <3>1, <3>2, OneMoves DEF Life!GiveBack, Life!Move
  <2>3. CASE t \in Task /\ ~parks
    <3>1. LifeOf(t) \in {"running", "landing"}
      BY <2>1, <2>3 DEF LifeOf, InFlight
    <3>2. /\ tstatus' = [tstatus EXCEPT ![t] = "done"] /\ held' = [held EXCEPT ![t] = "none"]
          /\ cur' = cur
      BY <2>1, <2>3 DEF TypeOK
    <3> HIDE DEF t
    <3>3. [u \in Task |-> LifeOf(u)]' = [[u \in Task |-> LifeOf(u)] EXCEPT ![t] = "done"]
      BY <2>3, <3>2, OneMoves
    <3> QED
      BY <2>1, <2>3, <3>1, <3>2, <3>3 DEF Life!Complete, Life!Move
  <2>4. CASE t \notin Task
    <3>1. UNCHANGED <<tstatus, held, cur>>
      BY <2>1, <2>4 DEF TypeOK
    <3> QED
      BY <2>1, <3>1, SameLife
  <2> QED
    BY <2>2, <2>3, <2>4
<1>5. ASSUME \/ ClaimNothing(w) \/ FinishRead(w) \/ FinishDies(w) \/ DoneFails(w)
             \/ \E x : StepsEnd(w, x) \/ DoneRead(w, x)
      PROVE  UNCHANGED Life!lives
  BY <1>5, SameLife DEF ClaimNothing, FinishRead, FinishDies, DoneFails, StepsEnd, DoneRead,
                        taskRows, workerRows
<1> QED
  BY <1>1, <1>2, <1>3, <1>4, <1>5 DEF AgentCommand, Life!Step

\* The ends of a worker.
LEMMA EndLives ==
    ASSUME ClaimInv, NEW w \in Worker, WorkerEnds(w)
    PROVE  (\E t \in Task : Life!Step(t)) \/ UNCHANGED Life!lives
<1> USE DEF ClaimInv
<1>1. ASSUME Settle(w) PROVE (\E t \in Task : Life!GiveBack(t)) \/ UNCHANGED Life!lives
  <2>1. CASE wstatus[w] = "working"
    <3>1. task[w] \in Task /\ Requeue(task[w]) /\ UNCHANGED <<task, deps>>
      BY <1>1, <2>1 DEF Settle, WorkingRows, TypeOK
    <3> QED
      BY <3>1, RequeueGivesBack
  <2>2. CASE wstatus[w] # "working"
    BY <1>1, <2>2, SameLife DEF Settle
  <2> QED
    BY <2>1, <2>2
<1>2. ASSUME EndRow(w) PROVE (\E t \in Task : Life!GiveBack(t)) \/ UNCHANGED Life!lives
  <2>1. stop[w].task \in Task \cup {NoTask}
    BY <1>2, StopTypes DEF EndRow
  <2> QED
    BY <1>2, <2>1, IfHeldGivesBack DEF EndRow
<1>3. ASSUME StopProcesses(w) PROVE (\E t \in Task : Life!GiveBack(t)) \/ UNCHANGED Life!lives
  <2>1. stop[w].task \in Task \cup {NoTask}
    BY <1>3, StopTypes DEF StopProcesses
  <2>2. UNCHANGED <<task, deps>>
    BY <1>3 DEF StopProcesses, workerRows
  <2> QED
    BY <1>3, <2>1, <2>2, IfHeldGivesBack, SameLife DEF StopProcesses
<1>4. ASSUME AgentExits(w) \/ ProcessDies(w) \/ StopDies(w) \/ \E as : StopRead(w, as)
      PROVE  UNCHANGED Life!lives
  BY <1>4, SameLife DEF AgentExits, ProcessDies, StopDies, StopRead, taskRows, workerRows
<1> QED
  BY <1>1, <1>2, <1>3, <1>4 DEF WorkerEnds, Life!Step

LEMMA NextLives == ClaimInv /\ AbsentFree /\ [Next]_vars => [\E t \in Task : Life!Step(t)]_Life!lives
<1> SUFFICES ASSUME ClaimInv, AbsentFree, [Next]_vars
             PROVE  (\E t \in Task : Life!Step(t)) \/ UNCHANGED Life!lives
  OBVIOUS
<1>1. CASE TaskCommand
  BY <1>1, CommandLives DEF ClaimInv
<1>2. CASE SpawnWorker \/ \E silent \in SUBSET Worker : SweepPreclaim(silent)
  BY <1>2, SameLife DEF SpawnWorker, Spawn, SweepPreclaim, taskRows
<1>3. CASE \E w \in Worker : BringUp(w)
  BY <1>3, SameLife DEF BringUp, PaneOpens, LaunchFailed, SupervisorStarted, AgentStarted,
                        taskRows, workerRows
<1>4. CASE \E w \in Worker : AgentCommand(w)
  BY <1>4, AgentLives
<1>5. CASE \E w \in Worker : WorkerEnds(w)
  BY <1>5, EndLives
<1>6. CASE UNCHANGED vars
  BY <1>6, SameLife DEF vars, taskRows, workerRows
<1> QED
  BY <1>1, <1>2, <1>3, <1>4, <1>5, <1>6 DEF Next

\* The ledger implements the life of its tasks: every step of every command,
\* sweep, stop and crash is a step of one task's life, or leaves all lives.
THEOREM Implements == Spec => ImplementsLife
<1>1. Init => Life!Start /\ AbsentFree
  BY DEF Init, Life!Start, LifeOf, AbsentFree
<1>2. ClaimInv => TypeOK
  BY DEF ClaimInv
<1> QED
  BY <1>1, <1>2, NextAbsent, NextLives, ClaimInvariant, PTL DEF Spec, ImplementsLife, Life!Spec
===============================================================================
