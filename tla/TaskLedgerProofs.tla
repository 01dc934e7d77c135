--------------------------- MODULE TaskLedgerProofs ---------------------------
(***************************************************************************)
(* Theorems of TaskLedger, for every set of tasks and workers.             *)
(***************************************************************************)
EXTENDS TaskLedger, FiniteSetTheorems, TLAPS

USE DEF InFlight, PreClaim, Live, TaskStatus, HeldReason, WorkerStatus, ProcStatus, Fin, Ack

-----------------------------------------------------------------------------
(***************************************************************************)
(* Type correctness.                                                       *)
(***************************************************************************)
LEMMA FrontOfInt ==
    ASSUME TypeOK, NEW t \in Task
    PROVE  FrontOf(t) \subseteq Int
BY SMT DEF FrontOf, TypeOK

LEMMA PickStartable ==
    ASSUME NEW w \in Worker
    PROVE  Pick(w) \subseteq Startable /\ Startable \subseteq Queued /\ Queued \subseteq Task
BY DEF Pick, First, Startable, Queued

LEMMA StopTypes ==
    ASSUME TypeOK, NEW w \in Worker
    PROVE  /\ NoStop \in Stop
           /\ \A as \in {"stopped", "incomplete"}, p \in BOOLEAN :
                [at |-> "end", task |-> task[w], as |-> as, pids |-> p] \in Stop
           /\ stop[w].at \in {"end", "signal"} =>
                /\ stop[w].task \in Task \cup {NoTask}
                /\ stop[w].as \in {"stopped", "incomplete"}
                /\ [stop[w] EXCEPT !.at = "signal"] \in Stop
<1>1. stop[w] \in Stop
  BY DEF TypeOK
<1>2. stop[w].at \in {"end", "signal"} =>
        stop[w] \in [at : {"end", "signal"}, task : Task \cup {NoTask},
                     as : {"stopped", "incomplete"}, pids : BOOLEAN]
  BY <1>1 DEF Stop, NoStop
<1> QED
  BY <1>1, <1>2 DEF Stop, NoStop, TypeOK

LEMMA RequeueTypes ==
    ASSUME TypeOK, NEW t, Requeue(t)
    PROVE  /\ tstatus' \in [Task -> TaskStatus]
           /\ cur' \in [Task -> Worker \cup {NoWorker}]
           /\ held' \in [Task -> {"none", "unlanded", "attempts"}]
           /\ prio' \in [Task -> Int]
<1>1. Boost \in Int
  BY NumberAssumption
<1> QED
  BY <1>1 DEF Requeue, TypeOK, Active

LEMMA RequeueIfHeldTypes ==
    ASSUME TypeOK, NEW t, NEW w, RequeueIfHeld(t, w)
    PROVE  /\ tstatus' \in [Task -> TaskStatus]
           /\ cur' \in [Task -> Worker \cup {NoWorker}]
           /\ held' \in [Task -> {"none", "unlanded", "attempts"}]
           /\ prio' \in [Task -> Int]
BY RequeueTypes DEF RequeueIfHeld, TypeOK

\* The starting state is well typed.
LEMMA InitTypeOK == Init => TypeOK
BY TaskAssumption, NumberAssumption DEF Init, TypeOK, Stop

LEMMA NextTypeOK == TypeOK /\ [Next]_vars => TypeOK'
<1> SUFFICES ASSUME TypeOK, [Next]_vars PROVE TypeOK'
  OBVIOUS
<1> USE DEF TypeOK
<1>1. ASSUME NEW t \in Task, Add(t) PROVE TypeOK'
  BY <1>1 DEF Add, workerRows, procs
<1>2. ASSUME NEW t \in Task, NEW b \in Task, Unblock(t, b) PROVE TypeOK'
  BY <1>2 DEF Unblock, workerRows, procs
<1>3. ASSUME NEW t \in Task, FallBack(t) PROVE TypeOK'
  BY <1>3, TaskAssumption DEF FallBack, workerRows, procs
<1>4. ASSUME NEW t \in Task, Cancel(t) PROVE TypeOK'
  BY <1>4 DEF Cancel, workerRows, procs
<1>5. ASSUME NEW t \in Task, RequeueByOperator(t) PROVE TypeOK'
  BY <1>5 DEF RequeueByOperator, workerRows, procs
<1>6. ASSUME NEW w \in Worker, NEW p \in Persona, NEW goal \in Targets \cup {NoTask},
             NEW old \in Worker \cup {NoWorker}, Spawn(w, p, goal, old)
      PROVE  TypeOK'
  BY <1>6, TaskAssumption DEF Spawn, taskRows
<1>7. ASSUME NEW w \in Worker, BringUp(w) PROVE TypeOK'
  BY <1>7 DEF BringUp, PaneOpens, LaunchFailed, SupervisorStarted, AgentStarted,
              taskRows, workerRows
<1>8. ASSUME NEW w \in Worker, NEW t \in Task, ClaimTask(w, t) PROVE TypeOK'
  BY <1>8 DEF ClaimTask, procs
<1>9. ASSUME NEW w \in Worker, ClaimNothing(w) PROVE TypeOK'
  BY <1>9 DEF ClaimNothing, taskRows, procs
<1>10. ASSUME NEW w \in Worker, Handoff(w) PROVE TypeOK'
  <2>1. FrontOf(task[w]) \subseteq Int
    BY <1>10, FrontOfInt DEF Handoff, Holds
  <2> QED
    BY <1>10, <2>1 DEF Handoff, procs
<1>11. ASSUME NEW w \in Worker, FinishRead(w) \/ FinishDies(w) \/ DoneFails(w) PROVE TypeOK'
  BY <1>11 DEF FinishRead, FinishDies, DoneFails, taskRows, workerRows
<1>12. ASSUME NEW w \in Worker, SeedSteps(w) PROVE TypeOK'
  BY <1>12 DEF SeedSteps, Landing, workerRows
<1>13. ASSUME NEW w \in Worker, NEW all \in BOOLEAN, StepsEnd(w, all) PROVE TypeOK'
  BY <1>13 DEF StepsEnd, taskRows, workerRows
<1>14. ASSUME NEW w \in Worker, NEW how \in {"done", "unlanded"}, DoneRead(w, how) PROVE TypeOK'
  BY <1>14 DEF DoneRead, taskRows, workerRows
<1>15. ASSUME NEW w \in Worker, MarkDone(w) PROVE TypeOK'
  BY <1>15 DEF MarkDone
<1>16. ASSUME NEW w \in Worker, AgentExits(w) \/ ProcessDies(w) PROVE TypeOK'
  BY <1>16 DEF AgentExits, ProcessDies, taskRows, workerRows
<1>17. ASSUME NEW w \in Worker, Settle(w) PROVE TypeOK'
  <2>1. /\ tstatus' \in [Task -> TaskStatus]
        /\ cur' \in [Task -> Worker \cup {NoWorker}]
        /\ held' \in [Task -> HeldReason]
        /\ prio' \in [Task -> Int]
    BY <1>17, RequeueTypes DEF Settle
  <2> QED
    BY <1>17, <2>1 DEF Settle, ExitRule
<1>18. ASSUME NEW w \in Worker, NEW as \in {"stopped", "incomplete"}, StopRead(w, as)
       PROVE  TypeOK'
  BY <1>18, StopTypes DEF StopRead, taskRows, workerRows
<1>19. ASSUME NEW w \in Worker, EndRow(w) PROVE TypeOK'
  <2>1. /\ tstatus' \in [Task -> TaskStatus]
        /\ cur' \in [Task -> Worker \cup {NoWorker}]
        /\ held' \in [Task -> HeldReason]
        /\ prio' \in [Task -> Int]
    BY <1>19, RequeueIfHeldTypes DEF EndRow
  <2>2. stop' \in [Worker -> Stop]
    BY <1>19, StopTypes DEF EndRow
  <2>3. wstatus' \in [Worker -> WorkerStatus]
    BY <1>19, StopTypes DEF EndRow
  <2> QED
    BY <1>19, <2>1, <2>2, <2>3 DEF EndRow
<1>20. ASSUME NEW w \in Worker, StopProcesses(w) PROVE TypeOK'
  <2>1. /\ tstatus' \in [Task -> TaskStatus]
        /\ cur' \in [Task -> Worker \cup {NoWorker}]
        /\ held' \in [Task -> HeldReason]
        /\ prio' \in [Task -> Int]
    BY <1>20, RequeueIfHeldTypes DEF StopProcesses
  <2>2. stop' \in [Worker -> Stop]
    BY <1>20, StopTypes DEF StopProcesses
  <2> QED
    BY <1>20, <2>1, <2>2 DEF StopProcesses, workerRows
<1>21. ASSUME NEW w \in Worker, StopDies(w) PROVE TypeOK'
  BY <1>21, StopTypes DEF StopDies, taskRows, workerRows
<1>22. ASSUME NEW silent \in SUBSET Worker, SweepPreclaim(silent) PROVE TypeOK'
  BY <1>22 DEF SweepPreclaim, taskRows, procs
<1>23. CASE UNCHANGED vars
  BY <1>23 DEF vars, taskRows, workerRows, procs
<1> QED
  BY <1>1, <1>2, <1>3, <1>4, <1>5, <1>6, <1>7, <1>8, <1>9, <1>10, <1>11, <1>12, <1>13,
     <1>14, <1>15, <1>16, <1>17, <1>18, <1>19, <1>20, <1>21, <1>22, <1>23
     DEF Next, TaskCommand, SpawnWorker, AgentCommand, WorkerEnds

\* Every reachable state is well typed.
THEOREM TypeCorrect == Spec => []TypeOK
BY InitTypeOK, NextTypeOK, PTL DEF Spec

-----------------------------------------------------------------------------
(***************************************************************************)
(* The queue.  A task comes in flight only by a claim, and keeps its       *)
(* worker and its count of attempts for as long as it is in flight.        *)
(***************************************************************************)
LEMMA RequeueEnds ==
    ASSUME TypeOK, NEW t, Requeue(t), NEW u \in Task, tstatus'[u] # tstatus[u]
    PROVE  u = t /\ u \in Active /\ tstatus'[u] = "queued"
BY DEF Requeue, TypeOK, Active

LEMMA RequeueKeeps ==
    ASSUME TypeOK, NEW t, Requeue(t), NEW u \in Task, u \in Active'
    PROVE  u \in Active /\ tstatus'[u] = tstatus[u] /\ cur'[u] = cur[u]
BY DEF Requeue, TypeOK, Active

LEMMA IfHeldIsRequeue ==
    ASSUME NEW t, NEW w, RequeueIfHeld(t, w)
    PROVE  Requeue(t) \/ UNCHANGED <<tstatus, cur, held, prio>>
BY DEF RequeueIfHeld

\* The steps that leave the tasks alone.
LEMMA QuietSteps ==
    /\ \A w \in Worker :
          BringUp(w) \/ ClaimNothing(w) \/ FinishRead(w) \/ FinishDies(w) \/ DoneFails(w)
          \/ AgentExits(w) \/ ProcessDies(w) \/ StopDies(w) => UNCHANGED taskRows
    /\ \A w \in Worker : \A x : StepsEnd(w, x) \/ DoneRead(w, x) \/ StopRead(w, x) => UNCHANGED taskRows
    /\ SpawnWorker \/ (\E silent \in SUBSET Worker : SweepPreclaim(silent)) => UNCHANGED taskRows
    /\ UNCHANGED vars => UNCHANGED taskRows
<1>1. ASSUME NEW w \in Worker, BringUp(w) \/ ClaimNothing(w) \/ FinishRead(w)
              \/ FinishDies(w) \/ DoneFails(w) \/ AgentExits(w) \/ ProcessDies(w) \/ StopDies(w)
       PROVE  UNCHANGED taskRows
  BY <1>1 DEF BringUp, PaneOpens, LaunchFailed, SupervisorStarted, AgentStarted,
               ClaimNothing, FinishRead, FinishDies, DoneFails, AgentExits, ProcessDies, StopDies
<1>2. ASSUME NEW w \in Worker, NEW x, StepsEnd(w, x) \/ DoneRead(w, x) \/ StopRead(w, x)
       PROVE  UNCHANGED taskRows
  BY <1>2 DEF StepsEnd, DoneRead, StopRead
<1>3. ASSUME SpawnWorker \/ \E silent \in SUBSET Worker : SweepPreclaim(silent)
       PROVE  UNCHANGED taskRows
  BY <1>3 DEF SpawnWorker, Spawn, SweepPreclaim
<1>4. ASSUME UNCHANGED vars PROVE UNCHANGED taskRows
  BY <1>4 DEF vars, taskRows
<1> QED
  BY <1>1, <1>2, <1>3, <1>4

LEMMA ActiveStep ==
    ASSUME TypeOK, [Next]_vars, NEW t \in Task, t \in Active'
    PROVE  \/ t \in Active /\ cur'[t] = cur[t] /\ attempts'[t] = attempts[t]
           \/ \E w \in Worker : ClaimTask(w, t)
<1> DEFINE Stays == t \in Active /\ cur'[t] = cur[t] /\ attempts'[t] = attempts[t]
<1> USE DEF TypeOK, Active
<1>1. ASSUME NEW u \in Task, Add(u) \/ FallBack(u) \/ Cancel(u) \/ RequeueByOperator(u)
      PROVE  Stays
  BY <1>1 DEF Add, FallBack, Cancel, RequeueByOperator
<1>2. ASSUME NEW u \in Task, NEW b \in Task, Unblock(u, b) PROVE Stays
  BY <1>2 DEF Unblock
<1>3. ASSUME NEW w \in Worker, NEW u \in Task, ClaimTask(w, u)
      PROVE  Stays \/ ClaimTask(w, t)
  BY <1>3 DEF ClaimTask
<1>4. ASSUME NEW w \in Worker, Handoff(w) PROVE Stays
  BY <1>4 DEF Handoff
<1>5. ASSUME NEW w \in Worker, SeedSteps(w) PROVE Stays
  BY <1>5 DEF SeedSteps, Landing
<1>6. ASSUME NEW w \in Worker, MarkDone(w) PROVE Stays
  BY <1>6 DEF MarkDone
<1>7. ASSUME NEW w \in Worker, Settle(w) PROVE Stays
  BY <1>7, RequeueKeeps DEF Settle
<1>8. ASSUME NEW w \in Worker, EndRow(w) PROVE Stays
  BY <1>8, RequeueKeeps, IfHeldIsRequeue DEF EndRow
<1>9. ASSUME NEW w \in Worker, StopProcesses(w) PROVE Stays
  BY <1>9, RequeueKeeps, IfHeldIsRequeue DEF StopProcesses
<1>10. ASSUME UNCHANGED taskRows PROVE Stays
  BY <1>10 DEF taskRows
<1> HIDE DEF Stays, TypeOK, Active
<1> QED
  BY <1>1, <1>2, <1>3, <1>4, <1>5, <1>6, <1>7, <1>8, <1>9, <1>10, QuietSteps
     DEF Next, TaskCommand, AgentCommand, WorkerEnds, Stays

\* A task in flight before and after the claim of t fits beside t.
LEMMA ClaimFits ==
    ASSUME TypeOK, NEW w \in Worker, NEW t \in Task, ClaimTask(w, t), NEW u \in Active
    PROVE  MayRunTogether(t, u) /\ MayRunTogether(u, t)
<1>1. PICK A : ~Waits(t, Active \cup A)
  <2>1. t \in Startable
    BY PickStartable DEF ClaimTask
  <2>2. ~Waits(t, Active \cup {v \in Slots : Before(v, t)})
    BY <2>1 DEF Startable
  <2> QED
    BY <2>2
<1>2. t \notin Review =>
        /\ Work(Active \cup A) = {} \/ (t \in Parallel /\ Work(Active \cup A) \subseteq Parallel)
        /\ t \in UsesWorktree \/ Work(Active \cup A) \subseteq UsesWorktree
        /\ \A a \in Work(Active \cup A) : Own[t] \cap Own[a] = {}
  BY <1>1 DEF Waits, Exclusive, SharedCheckout, FileHeld
<1>3. u \notin Review => u \in Work(Active \cup A)
  BY DEF Work
<1> QED
  BY <1>2, <1>3 DEF MayRunTogether

LEMMA NextFits == TypeOK /\ InFlightFits /\ [Next]_vars => InFlightFits'
<1> SUFFICES ASSUME TypeOK, InFlightFits, [Next]_vars,
                    NEW t \in Active', NEW u \in Active', t # u
             PROVE  MayRunTogether(t, u)
  BY DEF InFlightFits, MayRunTogether
<1>1. t \in Task /\ u \in Task
  BY DEF Active
<1>2. CASE t \in Active /\ u \in Active
  BY <1>2 DEF InFlightFits
<1>3. CASE t \in Active /\ u \notin Active
  <2>1. PICK w \in Worker : ClaimTask(w, u)
    BY <1>1, <1>3, ActiveStep
  <2> QED
    BY <1>1, <1>3, <2>1, ClaimFits
<1>4. CASE t \notin Active /\ u \in Active
  <2>1. PICK w \in Worker : ClaimTask(w, t)
    BY <1>1, <1>4, ActiveStep
  <2> QED
    BY <1>1, <1>4, <2>1, ClaimFits
<1>5. CASE t \notin Active /\ u \notin Active
  \* one claim brings one task in flight
  <2>1. PICK w \in Worker : ClaimTask(w, t)
    BY <1>1, <1>5, ActiveStep
  <2> QED
    BY <1>1, <1>5, <2>1 DEF ClaimTask, Active, TypeOK
<1> QED
  BY <1>2, <1>3, <1>4, <1>5

\* No two tasks in flight conflict, on any board.
THEOREM Fits == Spec => []InFlightFits
<1>1. Init => InFlightFits
  BY DEF Init, InFlightFits, Active
<1> QED
  BY <1>1, NextFits, TypeCorrect, PTL DEF Spec

LEMMA DepsShrink ==
    ASSUME TypeOK, [Next]_vars, NEW t \in Task
    PROVE  deps'[t] \subseteq deps[t]
<1>1. ASSUME NEW u \in Task, NEW b \in Task, Unblock(u, b) PROVE deps'[t] \subseteq deps[t]
  BY <1>1 DEF Unblock, TypeOK
<1>2. ASSUME NEW u \in Task, Add(u) \/ FallBack(u) \/ Cancel(u) \/ RequeueByOperator(u)
      PROVE  UNCHANGED deps
  BY <1>2 DEF Add, FallBack, Cancel, RequeueByOperator
<1>3. ASSUME NEW w \in Worker, NEW u \in Task, ClaimTask(w, u) PROVE UNCHANGED deps
  BY <1>3 DEF ClaimTask
<1>4. ASSUME NEW w \in Worker,
             Handoff(w) \/ SeedSteps(w) \/ MarkDone(w) \/ Settle(w) \/ EndRow(w) \/ StopProcesses(w)
      PROVE  UNCHANGED deps
  BY <1>4 DEF Handoff, SeedSteps, MarkDone, Settle, EndRow, StopProcesses
<1>5. ASSUME UNCHANGED taskRows PROVE UNCHANGED deps
  BY <1>5 DEF taskRows
<1> QED
  BY <1>1, <1>2, <1>3, <1>4, <1>5, QuietSteps
     DEF Next, TaskCommand, AgentCommand, WorkerEnds

LEMMA EndedStep ==
    ASSUME TypeOK, [Next]_vars, NEW t \in Task
    PROVE  /\ tstatus[t] = "done" => tstatus'[t] = "done"
           /\ tstatus[t] = "cancelled" /\ tstatus'[t] # "cancelled" =>
                 tstatus'[t] = "queued" /\ floor'[t] = attempts[t]
<1> DEFINE Ok == /\ tstatus[t] = "done" => tstatus'[t] = "done"
                 /\ tstatus[t] = "cancelled" /\ tstatus'[t] # "cancelled" =>
                       tstatus'[t] = "queued" /\ floor'[t] = attempts[t]
<1> USE DEF TypeOK, Active
<1>1. ASSUME NEW u \in Task, Add(u) \/ FallBack(u) \/ Cancel(u) \/ RequeueByOperator(u)
      PROVE  Ok
  BY <1>1 DEF Add, FallBack, Cancel, RequeueByOperator
<1>2. ASSUME NEW u \in Task, NEW b \in Task, Unblock(u, b) PROVE Ok
  BY <1>2 DEF Unblock
<1>3. ASSUME NEW w \in Worker, NEW u \in Task, ClaimTask(w, u) PROVE Ok
  <2>1. tstatus[u] = "queued"
    BY <1>3, PickStartable DEF ClaimTask, Queued
  <2> QED
    BY <1>3, <2>1 DEF ClaimTask
<1>4. ASSUME NEW w \in Worker, Handoff(w) PROVE Ok
  BY <1>4 DEF Handoff
<1>5. ASSUME NEW w \in Worker, SeedSteps(w) PROVE Ok
  BY <1>5 DEF SeedSteps, Landing
<1>6. ASSUME NEW w \in Worker, MarkDone(w) PROVE Ok
  BY <1>6 DEF MarkDone, StillRuns
<1>7. ASSUME NEW w \in Worker, Settle(w) PROVE Ok
  BY <1>7, RequeueEnds DEF Settle
<1>8. ASSUME NEW w \in Worker, EndRow(w) PROVE Ok
  BY <1>8, RequeueEnds, IfHeldIsRequeue DEF EndRow
<1>9. ASSUME NEW w \in Worker, StopProcesses(w) PROVE Ok
  BY <1>9, RequeueEnds, IfHeldIsRequeue DEF StopProcesses
<1>10. ASSUME UNCHANGED taskRows PROVE Ok
  BY <1>10 DEF taskRows
<1> HIDE DEF Ok, TypeOK, Active
<1> QED
  BY <1>1, <1>2, <1>3, <1>4, <1>5, <1>6, <1>7, <1>8, <1>9, <1>10, QuietSteps
     DEF Next, TaskCommand, AgentCommand, WorkerEnds, Ok

\* A done task stays done, and a cancelled one is queued by the operator alone.
THEOREM EndedStay == Spec => EndedTasksStay
<1>1. TypeOK /\ [Next]_vars =>
        [\A t \in Task :
           /\ tstatus[t] = "done" => tstatus'[t] = "done"
           /\ tstatus[t] = "cancelled" /\ tstatus'[t] # "cancelled" =>
                 tstatus'[t] = "queued" /\ floor'[t] = attempts[t]]_vars
  BY EndedStep
<1> QED
  BY <1>1, TypeCorrect, PTL DEF Spec, EndedTasksStay

LEMMA NextBlockers == TypeOK /\ BlockersDone /\ [Next]_vars => BlockersDone'
<1> SUFFICES ASSUME TypeOK, BlockersDone, [Next]_vars,
                    NEW t \in Active', NEW b \in deps'[t]
             PROVE  tstatus'[b] = "done"
  BY DEF BlockersDone, IsBlocked
<1>1. t \in Task /\ b \in deps[t] /\ b \in Task
  BY DepsShrink DEF Active, TypeOK
<1>2. CASE t \in Active
  BY <1>1, <1>2, EndedStep DEF BlockersDone, IsBlocked
<1>3. CASE t \notin Active
  <2>1. PICK w \in Worker : ClaimTask(w, t)
    BY <1>1, <1>3, ActiveStep
  <2>2. ~IsBlocked(t)
    BY <2>1, PickStartable DEF ClaimTask, Startable, Waits
  <2> QED
    BY <1>1, <2>2, EndedStep DEF IsBlocked
<1> QED
  BY <1>2, <1>3

\* Whatever becomes of a blocker, no task is in flight before it is done.
THEOREM Blockers == Spec => []BlockersDone
<1>1. Init => BlockersDone
  BY DEF Init, BlockersDone, Active
<1> QED
  BY <1>1, NextBlockers, TypeCorrect, PTL DEF Spec

-----------------------------------------------------------------------------
(***************************************************************************)
(* Tasks and workers.  The strengthening: a row that can still come to a   *)
(* claim has no task, whatever its status went back to.                    *)
(***************************************************************************)
Fresh(w) == proc[w] \in {"none", "inserted", "launched", "sup"}
FreshRows ==
    \A w \in Worker :
        wstatus[w] \in PreClaim \cup {"unborn"} \/ Fresh(w) => task[w] = NoTask

WorkingRows == \A w \in Worker : wstatus[w] = "working" => task[w] # NoTask

ClaimInv == TypeOK /\ FreshRows /\ WorkingRows /\ InFlightIsClaimed /\ WorkingHoldsInFlight

\* A row gets its task, its attempt and its status `working` by a claim.
LEMMA RowStep ==
    ASSUME TypeOK, [Next]_vars, NEW w \in Worker
    PROVE  \/ /\ task'[w] = task[w] /\ attempt'[w] = attempt[w]
              /\ wstatus'[w] = "working" => wstatus[w] = "working"
           \/ \E t \in Task : ClaimTask(w, t)
<1> DEFINE Same == /\ task'[w] = task[w] /\ attempt'[w] = attempt[w]
                   /\ wstatus'[w] = "working" => wstatus[w] = "working"
<1> USE DEF TypeOK
<1>1. ASSUME TaskCommand PROVE Same
  BY <1>1 DEF TaskCommand, Add, Unblock, FallBack, Cancel, RequeueByOperator, workerRows
<1>2. ASSUME SpawnWorker PROVE Same
  BY <1>2 DEF SpawnWorker, Spawn
<1>3. ASSUME NEW o \in Worker, BringUp(o) PROVE Same
  BY <1>3 DEF BringUp, PaneOpens, LaunchFailed, SupervisorStarted, AgentStarted, workerRows
<1>4. ASSUME NEW o \in Worker, NEW t \in Task, ClaimTask(o, t)
      PROVE  Same \/ ClaimTask(w, t)
  BY <1>4 DEF ClaimTask
<1>5. ASSUME NEW o \in Worker, ClaimNothing(o) \/ Handoff(o) \/ MarkDone(o) PROVE Same
  BY <1>5 DEF ClaimNothing, Handoff, MarkDone
<1>6. ASSUME NEW o \in Worker, Settle(o) PROVE Same
  BY <1>6 DEF Settle, ExitRule
<1>7. ASSUME NEW o \in Worker, EndRow(o) PROVE Same
  BY <1>7, StopTypes DEF EndRow
<1>8. ASSUME UNCHANGED workerRows PROVE Same
  BY <1>8 DEF workerRows
<1>9. ASSUME NEW o \in Worker, FinishRead(o) \/ SeedSteps(o) \/ FinishDies(o) \/ DoneFails(o)
              \/ AgentExits(o) \/ ProcessDies(o) \/ StopDies(o) \/ StopProcesses(o)
      PROVE  UNCHANGED workerRows
  BY <1>9 DEF FinishRead, SeedSteps, FinishDies, DoneFails, AgentExits, ProcessDies,
              StopDies, StopProcesses
<1>10. ASSUME NEW o \in Worker, NEW x, StepsEnd(o, x) \/ DoneRead(o, x) \/ StopRead(o, x)
       PROVE  UNCHANGED workerRows
  BY <1>10 DEF StepsEnd, DoneRead, StopRead
<1>11. ASSUME NEW silent \in SUBSET Worker, SweepPreclaim(silent) PROVE Same
  BY <1>11 DEF SweepPreclaim
<1>12. ASSUME UNCHANGED vars PROVE UNCHANGED workerRows
  BY <1>12 DEF vars, workerRows
<1> HIDE DEF Same, TypeOK
<1> QED
  BY <1>1, <1>2, <1>3, <1>4, <1>5, <1>6, <1>7, <1>8, <1>9, <1>10, <1>11, <1>12
     DEF Next, AgentCommand, WorkerEnds, Same

\* A row is fresh from its insert on, and never again once it is not.
LEMMA FreshStep ==
    ASSUME TypeOK, [Next]_vars, NEW w \in Worker
    PROVE  /\ Fresh(w)' => Fresh(w) \/ wstatus[w] = "unborn"
           /\ wstatus'[w] \in PreClaim \cup {"unborn"} =>
                 wstatus[w] \in PreClaim \cup {"unborn"} \/ Fresh(w)
<1> DEFINE Ok == /\ Fresh(w)' => Fresh(w) \/ wstatus[w] = "unborn"
                 /\ wstatus'[w] \in PreClaim \cup {"unborn"} =>
                       wstatus[w] \in PreClaim \cup {"unborn"} \/ Fresh(w)
<1> USE DEF TypeOK, Fresh
<1>1. ASSUME TaskCommand PROVE Ok
  BY <1>1 DEF TaskCommand, Add, Unblock, FallBack, Cancel, RequeueByOperator, workerRows, procs
<1>2. ASSUME SpawnWorker PROVE Ok
  BY <1>2 DEF SpawnWorker, Spawn
<1>3. ASSUME NEW o \in Worker, BringUp(o) PROVE Ok
  BY <1>3 DEF BringUp, PaneOpens, LaunchFailed, SupervisorStarted, AgentStarted, workerRows
<1>4. ASSUME NEW o \in Worker, NEW t \in Task, ClaimTask(o, t) PROVE Ok
  BY <1>4 DEF ClaimTask, procs
<1>5. ASSUME NEW o \in Worker, ClaimNothing(o) \/ Handoff(o) \/ MarkDone(o) PROVE Ok
  BY <1>5 DEF ClaimNothing, Handoff, MarkDone, procs
<1>6. ASSUME NEW o \in Worker, Settle(o) PROVE Ok
  BY <1>6 DEF Settle, ExitRule
<1>7. ASSUME NEW o \in Worker, EndRow(o) PROVE Ok
  BY <1>7, StopTypes DEF EndRow
<1>8. ASSUME NEW o \in Worker, FinishRead(o) \/ SeedSteps(o) \/ FinishDies(o) \/ DoneFails(o)
              \/ AgentExits(o) \/ ProcessDies(o) \/ StopDies(o) \/ StopProcesses(o)
      PROVE  Ok
  BY <1>8 DEF FinishRead, SeedSteps, FinishDies, DoneFails, AgentExits, ProcessDies,
              StopDies, StopProcesses, workerRows
<1>9. ASSUME NEW o \in Worker, NEW x, StepsEnd(o, x) \/ DoneRead(o, x) \/ StopRead(o, x)
      PROVE  Ok
  BY <1>9 DEF StepsEnd, DoneRead, StopRead, workerRows
<1>10. ASSUME NEW silent \in SUBSET Worker, SweepPreclaim(silent) PROVE Ok
  BY <1>10 DEF SweepPreclaim, procs
<1>11. ASSUME UNCHANGED vars PROVE Ok
  BY <1>11 DEF vars, workerRows, procs
<1> HIDE DEF Ok, TypeOK, Fresh
<1> QED
  BY <1>1, <1>2, <1>3, <1>4, <1>5, <1>6, <1>7, <1>8, <1>9, <1>10, <1>11
     DEF Next, AgentCommand, WorkerEnds, Ok

\* A worker that may claim has no task yet.
LEMMA ClaimerHasNone ==
    ASSUME FreshRows, NEW w \in Worker, NEW t, ClaimTask(w, t)
    PROVE  task[w] = NoTask
BY DEF ClaimTask, MayClaim, FreshRows

LEMMA NextFresh == TypeOK /\ FreshRows /\ [Next]_vars => FreshRows'
<1> SUFFICES ASSUME TypeOK, FreshRows, [Next]_vars, NEW w \in Worker,
                    wstatus'[w] \in PreClaim \cup {"unborn"} \/ Fresh(w)'
             PROVE  task'[w] = NoTask
  BY DEF FreshRows
<1>1. task[w] = NoTask
  BY FreshStep DEF FreshRows
<1>2. CASE task'[w] = task[w]
  BY <1>1, <1>2
<1>3. CASE \E t \in Task : ClaimTask(w, t)
  \* the claim leaves the process and ends the wait
  BY <1>3 DEF ClaimTask, MayClaim, AgentRuns, procs, Fresh, TypeOK
<1> QED
  BY <1>2, <1>3, RowStep

LEMMA NextClaimed == TypeOK /\ FreshRows /\ InFlightIsClaimed /\ [Next]_vars => InFlightIsClaimed'
<1> SUFFICES ASSUME TypeOK, FreshRows, InFlightIsClaimed, [Next]_vars, NEW t \in Active'
             PROVE  cur'[t] \in Worker /\ task'[cur'[t]] = t /\ attempt'[cur'[t]] = attempts'[t]
  BY DEF InFlightIsClaimed
<1>1. t \in Task
  BY DEF Active
<1>2. CASE \E w \in Worker : ClaimTask(w, t)
  BY <1>1, <1>2 DEF ClaimTask, TypeOK
<1>3. CASE t \in Active /\ cur'[t] = cur[t] /\ attempts'[t] = attempts[t]
  <2> DEFINE w == cur[t]
  <2>1. w \in Worker /\ task[w] = t /\ attempt[w] = attempts[t] /\ task[w] # NoTask
    BY <1>1, <1>3, NullsAssumption DEF InFlightIsClaimed
  <2>2. task'[w] = task[w] /\ attempt'[w] = attempt[w]
    BY <2>1, RowStep, ClaimerHasNone
  <2> QED
    BY <1>3, <2>1, <2>2
<1> QED
  BY <1>1, <1>2, <1>3, ActiveStep

LEMMA NextWorkingRows == TypeOK /\ WorkingRows /\ [Next]_vars => WorkingRows'
<1> SUFFICES ASSUME TypeOK, WorkingRows, [Next]_vars, NEW w \in Worker, wstatus'[w] = "working"
             PROVE  task'[w] # NoTask
  BY DEF WorkingRows
<1>1. CASE \E t \in Task : ClaimTask(w, t)
  BY <1>1, NullsAssumption DEF ClaimTask, TypeOK
<1> QED
  BY <1>1, RowStep DEF WorkingRows

LEMMA NextWorking ==
    TypeOK /\ WorkingRows /\ WorkingHoldsInFlight /\ [Next]_vars => WorkingHoldsInFlight'
<1> SUFFICES ASSUME TypeOK, WorkingRows, WorkingHoldsInFlight, [Next]_vars, NEW w \in Worker,
                    wstatus'[w] = "working", tstatus'[task'[w]] \in InFlight
             PROVE  cur'[task'[w]] = w
  BY DEF WorkingHoldsInFlight
<1>1. CASE \E t \in Task : ClaimTask(w, t)
  BY <1>1 DEF ClaimTask, TypeOK
<1>2. CASE task'[w] = task[w] /\ wstatus[w] = "working"
  <2> DEFINE t == task[w]
  <2>1. t \in Task /\ t \in Active'
    BY <1>2 DEF WorkingRows, TypeOK, Active
  <2>2. CASE t \in Active /\ cur'[t] = cur[t]
    BY <1>2, <2>2 DEF WorkingHoldsInFlight, Active
  <2>3. CASE \E o \in Worker : ClaimTask(o, t)
    \* the index refuses the task of a working row
    BY <1>2, <2>3 DEF ClaimTask, IndexAllows, MayClaim
  <2> QED
    BY <2>1, <2>2, <2>3, ActiveStep
<1> QED
  BY <1>1, <1>2, RowStep

LEMMA ClaimInvariant == Spec => []ClaimInv
<1>1. Init => ClaimInv
  BY InitTypeOK DEF Init, ClaimInv, FreshRows, WorkingRows, InFlightIsClaimed,
                    WorkingHoldsInFlight, Active
<1>2. ClaimInv /\ [Next]_vars => ClaimInv'
  BY NextTypeOK, NextFresh, NextWorkingRows, NextClaimed, NextWorking DEF ClaimInv
<1> QED
  BY <1>1, <1>2, PTL DEF Spec

\* A task in flight names the worker and the attempt that claimed it last.
THEOREM Claimed == Spec => []InFlightIsClaimed
<1>1. ClaimInv => InFlightIsClaimed
  BY DEF ClaimInv
<1> QED
  BY <1>1, ClaimInvariant, PTL

\* No working row can give back a task that another attempt has in flight.
THEOREM WorkingHolds == Spec => []WorkingHoldsInFlight
<1>1. ClaimInv => WorkingHoldsInFlight
  BY DEF ClaimInv
<1> QED
  BY <1>1, ClaimInvariant, PTL

\* A row takes one task in its life.
THEOREM OneTask == Spec => OneTaskPerRow
<1>1. ClaimInv /\ [Next]_vars =>
        [\A w \in Worker : task[w] # NoTask => task'[w] = task[w]]_vars
  BY RowStep, ClaimerHasNone DEF ClaimInv
<1> QED
  BY <1>1, ClaimInvariant, PTL DEF Spec, OneTaskPerRow

\* A target waits for a worker that was spawned for it.
THEOREM TargetWaits == Spec => TargetWaitsForItsWorker
<1> DEFINE Waits4 == \A w, o \in Worker :
                       /\ wstatus[w] \in Live /\ task[w] = NoTask /\ target[w] # NoTask
                       /\ task[o] = NoTask /\ task'[o] = target[w]
                       => target[o] = target[w]
<1>1. TypeOK /\ [Next]_vars => [Waits4]_vars
  <2> SUFFICES ASSUME TypeOK, [Next]_vars, NEW w \in Worker, NEW o \in Worker,
                      wstatus[w] \in Live, task[w] = NoTask, target[w] # NoTask,
                      task[o] = NoTask, task'[o] = target[w]
               PROVE  target[o] = target[w]
    OBVIOUS
  <2>1. PICK t \in Task : ClaimTask(o, t)
    BY RowStep
  <2>2. t = target[w] /\ t \in Pick(o)
    BY <2>1 DEF ClaimTask, TypeOK
  <2>3. CASE o = w
    BY <2>3
  <2>4. CASE o # w /\ target[o] # target[w]
    <3>1. t \in Reserved(o)
      BY <2>2, <2>4 DEF Reserved
    <3>2. t \notin Reserved(o)
      BY <2>2, <2>4 DEF Pick, First
    <3> QED
      BY <3>1, <3>2
  <2> QED
    BY <2>3, <2>4
<1> QED
  BY <1>1, TypeCorrect, PTL DEF Spec, TargetWaitsForItsWorker

-----------------------------------------------------------------------------
(***************************************************************************)
(* Handoffs, and the bound on the attempts.                                *)
(***************************************************************************)
LEMMA HandedStep ==
    ASSUME [Next]_vars
    PROVE  handed' = handed \/ \E w \in Worker : Handoff(w)
<1>1. ASSUME TaskCommand \/ SpawnWorker PROVE handed' = handed
  BY <1>1 DEF TaskCommand, Add, Unblock, FallBack, Cancel, RequeueByOperator,
              SpawnWorker, Spawn, workerRows
<1>2. ASSUME NEW w \in Worker, BringUp(w) PROVE handed' = handed
  BY <1>2 DEF BringUp, PaneOpens, LaunchFailed, SupervisorStarted, AgentStarted, workerRows
<1>3. ASSUME NEW w \in Worker, AgentCommand(w) PROVE handed' = handed \/ Handoff(w)
  BY <1>3 DEF AgentCommand, ClaimTask, ClaimNothing, FinishRead, SeedSteps, StepsEnd,
              DoneRead, MarkDone, FinishDies, DoneFails, workerRows
<1>4. ASSUME NEW w \in Worker, WorkerEnds(w) PROVE handed' = handed
  BY <1>4 DEF WorkerEnds, AgentExits, ProcessDies, Settle, StopRead, EndRow,
              StopProcesses, StopDies, workerRows
<1>5. ASSUME NEW silent, SweepPreclaim(silent) PROVE handed' = handed
  BY <1>5 DEF SweepPreclaim
<1>6. ASSUME UNCHANGED vars PROVE handed' = handed
  BY <1>6 DEF vars, workerRows
<1> QED
  BY <1>1, <1>2, <1>3, <1>4, <1>5, <1>6 DEF Next

\* A task that is handed off comes before every other task of the queue.
THEOREM HandoffFirst == Spec => HandoffIsFirst
<1> DEFINE Ok == \A w \in handed' \ handed :
                    \A u \in Task \ {task[w]} : tstatus[u] = "queued" => Before(task[w], u)'
<1>1. TypeOK /\ [Next]_vars => [Ok]_vars
  <2> SUFFICES ASSUME TypeOK, [Next]_vars, NEW w \in handed' \ handed,
                      NEW u \in Task \ {task[w]}, tstatus[u] = "queued"
               PROVE  Before(task[w], u)'
    OBVIOUS
  <2>1. w \in Worker /\ Handoff(w)
    <3>1. PICK o \in Worker : Handoff(o)
      BY HandedStep
    <3>2. handed' = handed \cup {o}
      BY <3>1 DEF Handoff
    <3> QED
      BY <3>1, <3>2
  <2> DEFINE t == task[w]
  <2>2. t \in Task /\ task'[w] = t
    BY <2>1 DEF Handoff, Holds, TypeOK
  <2>3. PICK front \in FrontOf(t) : prio' = [prio EXCEPT ![t] = front]
    BY <2>1 DEF Handoff
  <2>4. front \in Int /\ front <= prio[u] - 1
    BY <2>2, <2>3, FrontOfInt DEF FrontOf
  <2>5. prio'[t] = front /\ prio'[u] = prio[u] /\ prio[u] \in Int
    BY <2>2, <2>3 DEF TypeOK
  <2> QED
    BY <2>2, <2>4, <2>5 DEF Before
<1> QED
  BY <1>1, TypeCorrect, PTL DEF Spec, HandoffIsFirst

\* A worker that handed off has its task and works no more; each task in
\* flight was claimed since the operator's last requeue; and a task that can
\* be claimed has an attempt left.
Within(t, n) == attempts[t] - floor[t] <= n + Cardinality(HandedSince(t))
CanBeClaimed(t) == tstatus[t] = "absent" \/ (tstatus[t] = "queued" /\ held[t] = "none")
HandedRows ==
    /\ IsFiniteSet(handed)
    /\ \A w \in handed : task[w] # NoTask /\ wstatus[w] # "working"
Counts ==
    \A t \in Task :
        /\ floor[t] <= attempts[t]
        /\ t \in Active => floor[t] < attempts[t]
        /\ Within(t, MaxAttempts)
        /\ CanBeClaimed(t) => Within(t, MaxAttempts - 1)

LEMMA NextHandedRows == ClaimInv /\ HandedRows /\ [Next]_vars => HandedRows'
<1> SUFFICES ASSUME ClaimInv, HandedRows, [Next]_vars PROVE HandedRows'
  OBVIOUS
<1> USE DEF ClaimInv
<1>1. \A w \in Worker : task[w] # NoTask =>
        task'[w] # NoTask /\ (wstatus'[w] = "working" => wstatus[w] = "working")
  BY RowStep, ClaimerHasNone
<1>2. handed \in SUBSET Worker
  BY DEF TypeOK
<1>3. CASE handed' = handed
  BY <1>1, <1>2, <1>3 DEF HandedRows
<1>4. CASE \E w \in Worker : Handoff(w)
  <2>1. PICK w \in Worker : Handoff(w)
    BY <1>4
  <2>2. handed' = handed \cup {w} /\ wstatus'[w] # "working" /\ task[w] # NoTask
    BY <2>1 DEF Handoff, Holds, TypeOK
  <2>3. IsFiniteSet(handed')
    BY <2>2, FS_AddElement DEF HandedRows
  <2> QED
    BY <1>1, <1>2, <2>2, <2>3 DEF HandedRows
<1> QED
  BY <1>3, <1>4, HandedStep

LEMMA HandedSinceFinite ==
    ASSUME TypeOK, HandedRows, NEW t
    PROVE  IsFiniteSet(HandedSince(t)) /\ Cardinality(HandedSince(t)) \in Nat
<1>1. HandedSince(t) \in SUBSET handed
  BY DEF HandedSince
<1> QED
  BY <1>1, FS_Subset, FS_CardinalityType DEF HandedRows

\* What a step that moves no floor does to the handoffs of a task.
LEMMA HandedSinceStep ==
    ASSUME ClaimInv, HandedRows, [Next]_vars, NEW t \in Task, floor'[t] = floor[t]
    PROVE  /\ handed' = handed => HandedSince(t)' = HandedSince(t)
           /\ \A w \in Worker : Handoff(w) =>
                 HandedSince(t)' = HandedSince(t) \cup
                    (IF task[w] = t /\ attempt[w] > floor[t] THEN {w} ELSE {})
<1> USE DEF ClaimInv
<1>1. \A w \in handed : task'[w] = task[w] /\ attempt'[w] = attempt[w]
  BY RowStep, ClaimerHasNone DEF HandedRows, TypeOK
<1>2. ASSUME handed' = handed PROVE HandedSince(t)' = HandedSince(t)
  BY <1>1, <1>2 DEF HandedSince
<1>3. ASSUME NEW w \in Worker, Handoff(w)
      PROVE  HandedSince(t)' = HandedSince(t) \cup
                (IF task[w] = t /\ attempt[w] > floor[t] THEN {w} ELSE {})
  <2>1. handed' = handed \cup {w} /\ task'[w] = task[w] /\ attempt'[w] = attempt[w]
    BY <1>3 DEF Handoff
  <2> QED
    BY <1>1, <2>1 DEF HandedSince
<1> QED
  BY <1>2, <1>3

LEMMA RequeueCounts ==
    ASSUME TypeOK, NEW u, Requeue(u), NEW t \in Task
    PROVE  \/ tstatus'[t] = tstatus[t] /\ held'[t] = held[t]
           \/ tstatus'[t] = "queued" /\ (held'[t] = "none" => attempts[t] - floor[t] < MaxAttempts)
BY NumberAssumption DEF Requeue, UsedUp, TypeOK, Active

LEMMA NextCounts == ClaimInv /\ HandedRows /\ Counts /\ [Next]_vars => Counts'
<1> SUFFICES ASSUME ClaimInv, HandedRows, Counts, [Next]_vars, NEW t \in Task
             PROVE  /\ floor'[t] <= attempts'[t]
                    /\ t \in Active' => floor'[t] < attempts'[t]
                    /\ Within(t, MaxAttempts)'
                    /\ CanBeClaimed(t)' => Within(t, MaxAttempts - 1)'
  BY DEF Counts
<1> DEFINE n == Cardinality(HandedSince(t))
           Ok == /\ floor'[t] <= attempts'[t]
                 /\ t \in Active' => floor'[t] < attempts'[t]
                 /\ attempts'[t] - floor'[t] <= MaxAttempts + n'
                 /\ CanBeClaimed(t)' => attempts'[t] - floor'[t] < MaxAttempts + n'
<1> SUFFICES Ok
  <2>1. attempts'[t] \in Nat /\ floor'[t] \in Nat
    BY NextTypeOK DEF ClaimInv, TypeOK
  <2>2. n' \in Nat
    <3>1. TypeOK' /\ HandedRows'
      BY NextTypeOK, NextHandedRows DEF ClaimInv
    <3>2. IsFiniteSet(HandedSince(t)') /\ Cardinality(HandedSince(t)') \in Nat
      <4>1. HandedSince(t)' \in SUBSET handed'
        BY DEF HandedSince
      <4> QED
        BY <3>1, <4>1, FS_Subset, FS_CardinalityType DEF HandedRows
    <3> QED
      BY <3>2
  <2> QED
    BY <2>1, <2>2, NumberAssumption DEF Within
<1>a. /\ attempts[t] \in Nat /\ floor[t] \in Nat /\ MaxAttempts \in Nat \ {0} /\ n \in Nat
  BY HandedSinceFinite, NumberAssumption DEF ClaimInv, TypeOK
<1>b. /\ floor[t] <= attempts[t]
      /\ t \in Active => floor[t] < attempts[t]
      /\ attempts[t] - floor[t] <= MaxAttempts + n
      /\ CanBeClaimed(t) => attempts[t] - floor[t] < MaxAttempts + n
  BY <1>a DEF Counts, Within
<1>c. ASSUME floor'[t] = floor[t], handed' = handed PROVE n' = n
  BY <1>c, HandedSinceStep
<1> DEFINE Same == attempts'[t] = attempts[t] /\ floor'[t] = floor[t] /\ handed' = handed
           Row  == tstatus'[t] = tstatus[t] /\ held'[t] = held[t]
<1>d. ASSUME Same, Row PROVE Ok
  BY <1>a, <1>b, <1>c, <1>d DEF Active, CanBeClaimed
<1>e. ASSUME Same, tstatus'[t] \notin InFlight, ~CanBeClaimed(t)' PROVE Ok
  BY <1>a, <1>b, <1>c, <1>e DEF Active
<1> HIDE DEF n, Ok
<1>1. ASSUME NEW u \in Task, Add(u) PROVE Ok
  <2>1. Same
    BY <1>1 DEF Add, workerRows
  <2>2. n' = n
    BY <1>c, <2>1
  <2>3. Row \/ (tstatus[t] = "absent" /\ tstatus'[t] = "queued")
    BY <1>1 DEF Add, ClaimInv, TypeOK
  <2> QED
    BY <1>a, <1>b, <1>d, <2>1, <2>2, <2>3 DEF Ok, Active, CanBeClaimed
<1>2. ASSUME NEW u \in Task, FallBack(u) \/ \E b \in Task : Unblock(u, b) PROVE Ok
  BY <1>2, <1>d DEF FallBack, Unblock, workerRows
<1>3. ASSUME NEW u \in Task, Cancel(u) PROVE Ok
  <2>1. Same
    BY <1>3 DEF Cancel
  <2>2. Row \/ tstatus'[t] = "cancelled"
    BY <1>3 DEF Cancel, ClaimInv, TypeOK
  <2> QED
    BY <1>d, <1>e, <2>1, <2>2 DEF CanBeClaimed
<1>4. ASSUME NEW u \in Task, RequeueByOperator(u) PROVE Ok
  <2>1. CASE u # t
    BY <1>4, <1>d, <2>1 DEF RequeueByOperator, workerRows, ClaimInv, TypeOK
  <2>2. CASE u = t
    <3>1. floor'[t] = attempts[t] /\ attempts'[t] = attempts[t] /\ tstatus'[t] = "queued"
      BY <1>4, <2>2 DEF RequeueByOperator, ClaimInv, TypeOK
    <3>2. n' \in Nat
      <4>1. TypeOK' /\ HandedRows'
        BY NextTypeOK, NextHandedRows DEF ClaimInv
      <4>2. HandedSince(t)' \in SUBSET handed'
        BY DEF HandedSince
      <4> QED
        BY <4>1, <4>2, FS_Subset, FS_CardinalityType DEF HandedRows, n
    <3> QED
      BY <1>a, <3>1, <3>2 DEF Ok, Active
  <2> QED
    BY <2>1, <2>2
<1>5. ASSUME NEW w \in Worker, NEW u \in Task, ClaimTask(w, u) PROVE Ok
  <2>1. handed' = handed /\ floor'[t] = floor[t]
    BY <1>5 DEF ClaimTask
  <2>2. CASE u # t
    BY <1>5, <1>d, <2>1, <2>2 DEF ClaimTask, ClaimInv, TypeOK
  <2>3. CASE u = t
    <3>1. CanBeClaimed(t)
      BY <1>5, <2>3, PickStartable DEF ClaimTask, Queued, CanBeClaimed
    <3>2. attempts'[t] = attempts[t] + 1 /\ tstatus'[t] = "running"
      BY <1>5, <2>3 DEF ClaimTask, ClaimInv, TypeOK
    <3> QED
      BY <1>a, <1>b, <1>c, <2>1, <3>1, <3>2 DEF Ok, CanBeClaimed
  <2> QED
    BY <2>2, <2>3
<1>6. ASSUME NEW w \in Worker, Handoff(w) PROVE Ok
  <2>1. attempts'[t] = attempts[t] /\ floor'[t] = floor[t]
    BY <1>6 DEF Handoff
  <2>2. CASE task[w] # t
    <3>1. HandedSince(t)' = HandedSince(t)
      BY <1>6, <2>1, <2>2, HandedSinceStep
    <3>2. Row
      BY <1>6, <2>2 DEF Handoff, ClaimInv, TypeOK
    <3> QED
      BY <1>a, <1>b, <2>1, <3>1, <3>2 DEF Ok, n, Active, CanBeClaimed
  <2>3. CASE task[w] = t
    <3>1. t \in Active /\ cur[t] = w
      BY <1>6, <2>3 DEF Handoff, Holds, Active
    <3>2. attempt[w] > floor[t]
      BY <1>a, <1>b, <3>1 DEF ClaimInv, InFlightIsClaimed
    <3>3. HandedSince(t)' = HandedSince(t) \cup {w}
      BY <1>6, <2>1, <2>3, <3>2, HandedSinceStep
    <3>4. w \notin HandedSince(t)
      BY <1>6 DEF Handoff, HandedSince, HandedRows
    <3>5. n' = n + 1
      BY <3>3, <3>4, FS_AddElement, HandedSinceFinite DEF n, ClaimInv
    <3>6. t \notin Active'
      BY <1>6, <2>3 DEF Handoff, Active, ClaimInv, TypeOK
    <3> QED
      BY <1>a, <1>b, <2>1, <3>5, <3>6 DEF Ok
  <2> QED
    BY <2>2, <2>3
<1>7. ASSUME NEW w \in Worker, SeedSteps(w) PROVE Ok
  <2>1. Same
    BY <1>7 DEF SeedSteps, workerRows
  <2>2. Row \/ (tstatus[t] = "running" /\ tstatus'[t] = "landing")
    BY <1>7 DEF SeedSteps, Landing, ClaimInv, TypeOK
  <2> QED
    BY <1>a, <1>b, <1>c, <1>d, <2>1, <2>2 DEF Ok, Active, CanBeClaimed
<1>8. ASSUME NEW w \in Worker, MarkDone(w) PROVE Ok
  <2>1. Same
    BY <1>8 DEF MarkDone
  <2>2. Row \/ (tstatus'[t] \in {"queued", "done"} /\ (tstatus'[t] = "queued" => held'[t] = "unlanded"))
    BY <1>8 DEF MarkDone, ClaimInv, TypeOK
  <2> QED
    BY <1>d, <1>e, <2>1, <2>2 DEF CanBeClaimed
<1>9. ASSUME NEW w \in Worker, Settle(w) \/ EndRow(w) \/ StopProcesses(w) PROVE Ok
  <2>1. Same
    BY <1>9 DEF Settle, EndRow, StopProcesses, workerRows
  <2>2. Row \/ (tstatus'[t] = "queued" /\ (held'[t] = "none" => attempts[t] - floor[t] < MaxAttempts))
    BY <1>9, RequeueCounts, IfHeldIsRequeue DEF Settle, EndRow, StopProcesses, ClaimInv
  <2> QED
    BY <1>a, <1>b, <1>c, <1>d, <2>1, <2>2 DEF Ok, Active, CanBeClaimed
<1>10. ASSUME UNCHANGED taskRows PROVE Ok
  BY <1>10, <1>6, <1>d, HandedStep DEF taskRows
<1> QED
  BY <1>1, <1>2, <1>3, <1>4, <1>5, <1>6, <1>7, <1>8, <1>9, <1>10, QuietSteps
     DEF Next, TaskCommand, AgentCommand, WorkerEnds

\* However a task is retried, its claims since the last requeue by the
\* operator stay within max_attempts and its handoffs.
THEOREM Retries == Spec => []RetriesBounded
<1> DEFINE Inv == ClaimInv /\ HandedRows /\ Counts
<1>1. Init => Inv
  <2>1. Init => ClaimInv
    BY InitTypeOK DEF Init, ClaimInv, FreshRows, WorkingRows, InFlightIsClaimed,
                      WorkingHoldsInFlight, Active
  <2>2. Init => HandedRows
    BY FS_EmptySet DEF Init, HandedRows
  <2>3. ASSUME Init, NEW t \in Task PROVE Cardinality(HandedSince(t)) = 0
    <3>1. HandedSince(t) = {}
      BY <2>3 DEF Init, HandedSince
    <3> QED
      BY <3>1, FS_EmptySet
  <2>4. ASSUME Init, NEW t \in Task
        PROVE  /\ attempts[t] = 0 /\ floor[t] = 0 /\ t \notin Active
               /\ Cardinality(HandedSince(t)) = 0
    BY <2>3, <2>4 DEF Init, Active
  <2>5. Init => Counts
    BY <2>4, NumberAssumption DEF Counts, Within
  <2> QED
    BY <2>1, <2>2, <2>5
<1>2. Inv /\ [Next]_vars => Inv'
  BY NextTypeOK, NextFresh, NextWorkingRows, NextClaimed, NextWorking, NextHandedRows, NextCounts
     DEF ClaimInv
<1>3. Inv => RetriesBounded
  BY DEF Counts, Within, RetriesBounded
<1> QED
  BY <1>1, <1>2, <1>3, PTL DEF Spec

-----------------------------------------------------------------------------
(***************************************************************************)
(* The plan.  The set that Slots chooses exists, as the queue is finite;   *)
(* the proofs by induction over the queue take a smallest counterexample.  *)
(***************************************************************************)

LEMMA SmallestSet ==
    ASSUME NEW S, IsFiniteSet(S), NEW D, D \subseteq SUBSET S, D # {}
    PROVE  \E T \in D : \A U \in D : U \subseteq T => U = T
<1>1. IsWellFoundedOn(StrictSubsetOrdering(S), SUBSET S)
  BY FS_StrictSubsetOrderingWellFounded, FS_FiniteSubsetsOfFinite
<1>2. PICK T \in D : \A U \in D : ~(<<U, T>> \in StrictSubsetOrdering(S))
  BY <1>1, WFMin
<1>3. \A U \in D : U \subseteq T => U = T
  BY <1>2 DEF StrictSubsetOrdering
<1>4. QED
  BY <1>3

\* The claim order is a strict total order.
LEMMA OrderIsTotal ==
    ASSUME TypeOK, NEW t \in Task, NEW u \in Task
    PROVE  /\ ~(Before(t, u) /\ Before(u, t))
           /\ t # u => Before(t, u) \/ Before(u, t)
           /\ \A v \in Task : Before(t, u) /\ Before(u, v) => Before(t, v)
<1>1. /\ prio \in [Task -> Int] /\ TaskSeq \in [Task -> Nat]
      /\ TaskSeq[t] = TaskSeq[u] => t = u
  BY NumberAssumption, OrderAssumption DEF TypeOK
<1>2. QED
  BY <1>1 DEF Before

\* A finite set of tasks has a last one.
LEMMA LastTask ==
    ASSUME TypeOK, NEW Q \in SUBSET Task, IsFiniteSet(Q), Q # {}
    PROVE  \E m \in Q : \A u \in Q \ {m} : Before(u, m)
<1> DEFINE HasLast(T) == \E m \in T : \A u \in T \ {m} : Before(u, m)
           Bad == {T \in SUBSET Q : T # {} /\ ~HasLast(T)}
<1> SUFFICES ASSUME Bad # {} PROVE FALSE
  OBVIOUS
<1>1. PICK T \in Bad : \A U \in Bad : U \subseteq T => U = T
  <2>1. Bad \subseteq SUBSET Q
    OBVIOUS
  <2> HIDE DEF Bad
  <2>2. QED
    BY <2>1, SmallestSet
<1>2. PICK x \in T : TRUE
  OBVIOUS
<1>3. T \ {x} \notin Bad
  BY <1>1
<1>4. CASE T \ {x} = {}
  BY <1>2, <1>4
<1>5. CASE T \ {x} # {}
  <2>1. PICK m \in T \ {x} : \A u \in (T \ {x}) \ {m} : Before(u, m)
    BY <1>3, <1>5
  <2>2. CASE Before(x, m)
    BY <2>1, <2>2
  <2>3. CASE Before(m, x)
    <3>1. \A u \in T \ {x} : Before(u, x)
      BY <2>1, <2>3, OrderIsTotal
    <3>2. QED
      BY <1>2, <3>1
  <2>4. QED
    BY <1>2, <2>1, <2>2, <2>3, OrderIsTotal
<1>6. QED
  BY <1>4, <1>5

\* S is the plan of the tasks T: what the loop over T takes.
Plans(S, T) ==
    \A t \in T : t \in S <=> Staffed(t) /\ ~Waits(t, Active \cup {u \in S : Before(u, t)})

\* Every finite queue has a plan: the last task is taken beside the plan of
\* the others, which it does not change.
LEMMA PlanExists ==
    ASSUME TypeOK, NEW Q \in SUBSET Task, IsFiniteSet(Q)
    PROVE  \E S \in SUBSET Q : Plans(S, Q)
<1> DEFINE HasPlan(T) == \E S \in SUBSET T : Plans(S, T)
           Bad == {T \in SUBSET Q : ~HasPlan(T)}
<1> SUFFICES ASSUME Bad # {} PROVE FALSE
  OBVIOUS
<1>1. PICK T \in Bad : \A U \in Bad : U \subseteq T => U = T
  <2>1. Bad \subseteq SUBSET Q
    OBVIOUS
  <2> HIDE DEF Bad
  <2>2. QED
    BY <2>1, SmallestSet
<1>2. T # {}
  BY DEF Plans
<1>3. PICK m \in T : \A u \in T \ {m} : Before(u, m)
  BY <1>2, LastTask, FS_Subset
<1>4. PICK S \in SUBSET (T \ {m}) : Plans(S, T \ {m})
  BY <1>1
<1> DEFINE Taken == Staffed(m) /\ ~Waits(m, Active \cup {u \in S : Before(u, m)})
           New == IF Taken THEN S \cup {m} ELSE S
<1>5. New \in SUBSET T /\ (m \in New <=> Taken)
  OBVIOUS
<1>6. \A t \in T : {u \in New : Before(u, t)} = {u \in S : Before(u, t)}
  BY <1>3, OrderIsTotal
<1>7. Plans(New, T)
  <2> SUFFICES ASSUME NEW t \in T
               PROVE  t \in New <=> Staffed(t) /\ ~Waits(t, Active \cup {u \in New : Before(u, t)})
    BY DEF Plans
  <2>1. CASE t = m
    BY <1>5, <1>6, <2>1
  <2>2. CASE t # m
    <3>1. t \in S <=> Staffed(t) /\ ~Waits(t, Active \cup {u \in S : Before(u, t)})
      BY <1>4, <2>2 DEF Plans
    <3>2. QED
      BY <1>6, <2>2, <3>1
  <2>3. QED
    BY <2>1, <2>2
<1>8. QED
  BY <1>5, <1>7

LEMMA SlotsFit ==
    ASSUME TypeOK, IsFiniteSet(Queued)
    PROVE  Slots \in SUBSET Queued /\ Plans(Slots, Queued)
<1>1. \E S \in SUBSET Queued : Plans(S, Queued)
  BY PlanExists DEF Queued
<1>2. QED
  BY <1>1 DEF Slots, Plans

\* The first task that is not blocked stands before everything the plan takes.
LEMMA FirstStarts == TypeOK /\ IsFiniteSet(Queued) => QueueMoves
<1> SUFFICES ASSUME TypeOK, IsFiniteSet(Queued), Active \subseteq Review,
                    NEW f \in First({t \in Queued : ~IsBlocked(t)})
             PROVE  f \in Startable
  BY DEF QueueMoves
<1>1. f \in Queued /\ ~IsBlocked(f) /\ Queued \subseteq Task
  BY DEF First, Queued
<1>2. ASSUME NEW u \in Slots, Before(u, f)
      PROVE  FALSE
  <2>1. u \in Queued /\ ~IsBlocked(u)
    BY <1>2, SlotsFit DEF Plans, Waits
  <2>2. u = f \/ Before(f, u)
    BY <2>1 DEF First
  <2>3. QED
    BY <1>1, <1>2, <2>1, <2>2, OrderIsTotal
<1>3. Active \cup {u \in Slots : Before(u, f)} = Active
  BY <1>2
<1>4. ~Waits(f, Active)
  BY <1>1 DEF Waits, Exclusive, SharedCheckout, FileHeld, Work
<1>5. QED
  BY <1>1, <1>3, <1>4 DEF Startable

-----------------------------------------------------------------------------
(***************************************************************************)
(* The loop.  What it left after a task is known in closed form: this is a *)
(* function with the equation of PlanAfter, so there is one; and the first *)
(* task of the queue where PlanAfter differed would not differ.            *)
(***************************************************************************)
PlanUpTo(t) ==
    [active |-> Active \cup {u \in Slots : u = t \/ Before(u, t)},
     start  |-> {u \in Startable : u = t \/ Before(u, t)}]

\* What the loop starts from, or what the task before t left, were it PlanUpTo.
PlanBefore(t) ==
    [active |-> Active \cup {u \in Slots : Before(u, t)},
     start  |-> {u \in Startable : Before(u, t)}]

LEMMA LastIsLast ==
    ASSUME TypeOK, NEW Q \in SUBSET Task, IsFiniteSet(Q), Q # {}
    PROVE  LastOf(Q) \in Q /\ \A u \in Q \ {LastOf(Q)} : Before(u, LastOf(Q))
  BY LastTask DEF LastOf

LEMMA EarlierIsQueued ==
    ASSUME TypeOK, IsFiniteSet(Queued), NEW t \in Queued
    PROVE  /\ Earlier(t) \in SUBSET Task /\ Earlier(t) \subseteq Queued
           /\ IsFiniteSet(Earlier(t)) /\ t \notin Earlier(t)
<1>1. Queued \subseteq Task /\ Earlier(t) \subseteq Queued
  BY DEF Queued, Earlier
<1>2. t \notin Earlier(t)
  BY <1>1, OrderIsTotal DEF Earlier
<1>3. QED
  BY <1>1, <1>2, FS_Subset

LEMMA PlansToo ==
    ASSUME TypeOK, IsFiniteSet(Queued)
    PROVE  /\ Slots \subseteq Queued /\ Startable \subseteq Queued
           /\ \A t \in Queued : /\ t \in Startable <=> ~Waits(t, PlanBefore(t).active)
                                /\ t \in Slots <=> t \in Startable /\ Staffed(t)
<1>1. Slots \subseteq Queued /\ Plans(Slots, Queued)
  BY SlotsFit
<1>2. QED
  BY <1>1 DEF Plans, Startable, PlanBefore

\* The last task before t leaves what stands before t.
LEMMA PlanGoesOn ==
    ASSUME TypeOK, IsFiniteSet(Queued), NEW t \in Queued
    PROVE  PlanBefore(t) = IF Earlier(t) = {} THEN [active |-> Active, start |-> {}]
                           ELSE PlanUpTo(LastOf(Earlier(t)))
<1>1. Slots \subseteq Queued /\ Startable \subseteq Queued
  BY PlansToo
<1>2. CASE Earlier(t) = {}
  <2>1. {u \in Slots : Before(u, t)} = {} /\ {u \in Startable : Before(u, t)} = {}
    BY <1>1, <1>2 DEF Earlier
  <2>2. QED
    BY <1>2, <2>1 DEF PlanBefore
<1>3. CASE Earlier(t) # {}
  <2> DEFINE e == LastOf(Earlier(t))
  <2>1. e \in Earlier(t) /\ \A u \in Earlier(t) \ {e} : Before(u, e)
    BY <1>3, EarlierIsQueued, LastIsLast
  <2>2. e \in Task /\ t \in Task /\ Queued \subseteq Task /\ Before(e, t)
    BY <2>1, EarlierIsQueued DEF Earlier, Queued
  <2> HIDE DEF e
  <2>3. \A u \in Queued : Before(u, t) <=> u = e \/ Before(u, e)
    BY <2>1, <2>2, OrderIsTotal DEF Earlier
  <2>4. PlanBefore(t) = PlanUpTo(e)
    BY <1>1, <2>3 DEF PlanBefore, PlanUpTo
  <2>5. QED
    BY <1>3, <2>4 DEF e
<1>4. QED
  BY <1>2, <1>3

LEMMA StepIsPlan ==
    ASSUME TypeOK, IsFiniteSet(Queued), NEW t \in Queued
    PROVE  PlanStep(PlanBefore(t), t) = PlanUpTo(t)
<1>1. /\ Slots \subseteq Queued /\ Startable \subseteq Queued
      /\ t \in Startable <=> ~Waits(t, PlanBefore(t).active)
      /\ t \in Slots <=> t \in Startable /\ Staffed(t)
  BY PlansToo
<1>2. CASE t \notin Startable
  <2>1. PlanUpTo(t) = PlanBefore(t)
    BY <1>1, <1>2 DEF PlanUpTo, PlanBefore
  <2>2. QED
    BY <1>1, <1>2, <2>1 DEF PlanStep
<1>3. CASE t \in Startable
  <2>1. PlanUpTo(t).start = PlanBefore(t).start \cup {t}
    BY <1>3 DEF PlanUpTo, PlanBefore
  <2>2. PlanUpTo(t).active = PlanBefore(t).active \cup (IF Staffed(t) THEN {t} ELSE {})
    BY <1>1, <1>3 DEF PlanUpTo, PlanBefore
  <2>3. PlanUpTo(t) = [active |-> PlanUpTo(t).active, start |-> PlanUpTo(t).start]
    BY DEF PlanUpTo
  <2>4. QED
    BY <1>1, <1>3, <2>1, <2>2, <2>3 DEF PlanStep
<1>4. QED
  BY <1>2, <1>3

LEMMA PlanHasEquation ==
    ASSUME TypeOK, IsFiniteSet(Queued)
    PROVE  PlanAfter = [t \in Queued |->
              PlanStep(IF Earlier(t) = {} THEN [active |-> Active, start |-> {}]
                       ELSE PlanAfter[LastOf(Earlier(t))], t)]
<1> DEFINE Body(g, t) == PlanStep(IF Earlier(t) = {} THEN [active |-> Active, start |-> {}]
                                  ELSE g[LastOf(Earlier(t))], t)
           plan == [t \in Queued |-> PlanUpTo(t)]
<1>1. ASSUME NEW t \in Queued PROVE plan[t] = Body(plan, t)
  <2>1. Earlier(t) # {} => LastOf(Earlier(t)) \in Queued
    BY EarlierIsQueued, LastIsLast
  <2>2. Body(plan, t) = PlanStep(PlanBefore(t), t)
    <3>1. CASE Earlier(t) = {}
      BY <3>1, PlanGoesOn
    <3>2. CASE Earlier(t) # {}
      BY <2>1, <3>2, PlanGoesOn
    <3>3. QED
      BY <3>1, <3>2
  <2>3. QED
    BY <2>2, StepIsPlan
<1>2. plan = [t \in Queued |-> Body(plan, t)]
  BY <1>1
<1> HIDE DEF plan
<1>3. \E g : g = [t \in Queued |-> Body(g, t)]
  BY <1>2
<1>4. QED
  BY <1>3 DEF PlanAfter

\* The loop leaves after each task what the plan has up to it.
LEMMA LoopIsPlan ==
    ASSUME TypeOK, IsFiniteSet(Queued), NEW x \in Queued
    PROVE  PlanAfter[x] = PlanUpTo(x)
<1> DEFINE Bad == {t \in Queued : PlanAfter[t] # PlanUpTo(t)}
<1> SUFFICES ASSUME Bad # {} PROVE FALSE
  OBVIOUS
<1>1. PICK t \in Bad : \A u \in Bad : Earlier(u) \subseteq Earlier(t) => Earlier(u) = Earlier(t)
  <2> DEFINE Places == {Earlier(u) : u \in Bad}
  <2>1. Places \subseteq SUBSET Queued /\ Places # {}
    BY EarlierIsQueued
  <2> HIDE DEF Places
  <2>2. PICK T \in Places : \A U \in Places : U \subseteq T => U = T
    BY <2>1, SmallestSet
  <2>3. QED
    BY <2>2 DEF Places
<1>2. t \in Queued /\ PlanAfter[t] # PlanUpTo(t)
  BY <1>1
<1>3. PlanAfter[t] = PlanStep(IF Earlier(t) = {} THEN [active |-> Active, start |-> {}]
                              ELSE PlanAfter[LastOf(Earlier(t))], t)
  BY <1>2, PlanHasEquation
<1>4. CASE Earlier(t) = {}
  BY <1>2, <1>3, <1>4, PlanGoesOn, StepIsPlan
<1>5. CASE Earlier(t) # {}
  <2> DEFINE e == LastOf(Earlier(t))
  <2>1. e \in Earlier(t) /\ e \in Queued /\ Earlier(t) \subseteq Queued /\ e \notin Earlier(e)
    BY <1>2, <1>5, EarlierIsQueued, LastIsLast
  <2>2. e \in Task /\ t \in Task /\ Queued \subseteq Task /\ Before(e, t)
    BY <1>2, <2>1 DEF Earlier, Queued
  <2> HIDE DEF e
  <2>3. Earlier(e) \subseteq Earlier(t)
    BY <2>2, OrderIsTotal DEF Earlier
  <2>4. PlanAfter[e] = PlanUpTo(e)
    BY <1>1, <2>1, <2>3
  <2>5. PlanAfter[t] = PlanStep(PlanBefore(t), t)
    BY <1>2, <1>3, <1>5, <2>4, PlanGoesOn DEF e
  <2>6. QED
    BY <1>2, <2>5, StepIsPlan
<1>6. QED
  BY <1>4, <1>5

LEMMA LoopFindsAll == TypeOK /\ IsFiniteSet(Queued) => PlanIsTheLoop
<1> SUFFICES ASSUME TypeOK, IsFiniteSet(Queued) PROVE Startable = PlanLoop
  BY DEF PlanIsTheLoop
<1>1. Startable \subseteq Queued
  BY PlansToo
<1>2. CASE Queued = {}
  BY <1>1, <1>2 DEF PlanLoop
<1>3. CASE Queued # {}
  <2>1. /\ LastOf(Queued) \in Queued
        /\ \A u \in Queued \ {LastOf(Queued)} : Before(u, LastOf(Queued))
    BY <1>3, LastIsLast DEF Queued
  <2>2. PlanAfter[LastOf(Queued)].start = PlanUpTo(LastOf(Queued)).start
    BY <2>1, LoopIsPlan
  <2>3. {u \in Startable : u = LastOf(Queued) \/ Before(u, LastOf(Queued))} = Startable
    BY <1>1, <2>1
  <2>4. QED
    BY <1>3, <2>2, <2>3 DEF PlanLoop, PlanUpTo
<1>4. QED
  BY <1>2, <1>3

\* The tasks that were added are finitely many: one comes with each Add.
FinitelyMany == IsFiniteSet({t \in Task : tstatus[t] # "absent"})

\* Only Add brings a task into the table.
LEMMA OnlyAddAdds ==
    ASSUME TypeOK, [Next]_vars, NEW t \in Task, tstatus[t] = "absent", tstatus'[t] # "absent"
    PROVE  Add(t)
<1> USE DEF TypeOK
<1>1. ASSUME NEW u \in Task, Add(u) PROVE u = t
  BY <1>1 DEF Add
<1>2. ASSUME NEW u \in Task, Cancel(u) \/ RequeueByOperator(u) \/ FallBack(u) \/ \E b \in Task : Unblock(u, b)
      PROVE  FALSE
  BY <1>2 DEF Cancel, RequeueByOperator, FallBack, Unblock
<1>3. ASSUME NEW w \in Worker, NEW u \in Task, ClaimTask(w, u) PROVE FALSE
  BY <1>3, PickStartable DEF ClaimTask, Queued
<1>4. ASSUME NEW w \in Worker, Handoff(w) \/ SeedSteps(w) \/ MarkDone(w) PROVE FALSE
  BY <1>4 DEF Handoff, SeedSteps, MarkDone, Landing, StillRuns
<1>5. ASSUME NEW w \in Worker, Settle(w) \/ EndRow(w) \/ StopProcesses(w) PROVE FALSE
  <2>1. (\E u : Requeue(u)) \/ UNCHANGED <<tstatus, cur, held, prio>>
    BY <1>5, IfHeldIsRequeue DEF Settle, EndRow, StopProcesses
  <2> QED
    BY <2>1, RequeueEnds DEF Active
<1>6. ASSUME UNCHANGED taskRows PROVE FALSE
  BY <1>6 DEF taskRows
<1> HIDE DEF TypeOK
<1> QED
  BY <1>1, <1>2, <1>3, <1>4, <1>5, <1>6, QuietSteps DEF Next, TaskCommand, AgentCommand, WorkerEnds

LEMMA StepFinite ==
    ASSUME TypeOK, FinitelyMany, [Next]_vars
    PROVE  FinitelyMany'
<1> DEFINE A == {t \in Task : tstatus[t] # "absent"}
<1>1. ASSUME NEW t \in Task, Add(t)
      PROVE  FinitelyMany'
  <2>1. {u \in Task : tstatus'[u] # "absent"} \subseteq A \cup {t}
    BY <1>1 DEF Add, TypeOK
  <2>2. IsFiniteSet(A \cup {t})
    BY FS_AddElement DEF FinitelyMany
  <2>3. QED
    BY <2>1, <2>2, FS_Subset DEF FinitelyMany
<1>2. ASSUME \A t \in Task : tstatus[t] = "absent" => tstatus'[t] = "absent"
      PROVE  FinitelyMany'
  <2>1. {u \in Task : tstatus'[u] # "absent"} \subseteq A
    BY <1>2
  <2>2. QED
    BY <2>1, FS_Subset DEF FinitelyMany
<1>3. QED
  BY <1>1, <1>2, OnlyAddAdds

LEMMA QueueIsFinite == Spec => [](TypeOK /\ IsFiniteSet(Queued))
<1>1. Init => FinitelyMany
  <2>1. Init => {t \in Task : tstatus[t] # "absent"} = {}
    BY DEF Init
  <2>2. QED
    BY <2>1, FS_EmptySet DEF FinitelyMany
<1>2. TypeOK /\ FinitelyMany => IsFiniteSet(Queued)
  <2>1. Queued \subseteq {t \in Task : tstatus[t] # "absent"}
    BY DEF Queued
  <2>2. QED
    BY <2>1, FS_Subset DEF FinitelyMany
<1>3. QED
  BY <1>1, <1>2, TypeCorrect, NextTypeOK, StepFinite, PTL DEF Spec

\* Whatever was added, retried, parked or handed off, the queue never waits for
\* itself: with no work in flight its first task that is not blocked can start.
THEOREM QueueNeverWaits == Spec => []QueueMoves
  BY QueueIsFinite, FirstStarts, PTL

\* Whoever is alive, in flight or in line, the loop of Board::plan collects what
\* the claim picks from: the two definitions of the plan agree on any board.
THEOREM LoopIsThePlan == Spec => []PlanIsTheLoop
  BY QueueIsFinite, LoopFindsAll, PTL

=============================================================================
