------------------------------ MODULE TaskLedger ------------------------------
(***************************************************************************)
(* The task ledger of one run (crates/horch-core/src/taskledger): the      *)
(* queue, the claim, the attempts, and the ends of workers.                *)
(*                                                                         *)
(* The ledger is one SQLite file.  A write that runs in Store::immediate   *)
(* is one action here.  A command that reads the file, decides, and writes *)
(* in a later transaction is two actions with the values it read kept in a *)
(* variable (fin, ack, stop): other commands run in between.                        *)
(*                                                                         *)
(* A worker is one row of the workers table, and it lives once.  Rows of   *)
(* the worktrees table are no part of this module.                         *)
(*                                                                         *)
(* A definition under a comment that starts with "Bug:" is a mutated form  *)
(* of the one that follows; no action uses it.  PROJECT.json names the     *)
(* property that each one breaks.                                          *)
(***************************************************************************)
EXTENDS Integers, FiniteSets

CONSTANTS
    Task, Worker, Persona,
    NoTask, NoWorker, NoPersona,
    File,
    MaxAttempts,        \* runs.max_attempts
    Boost,              \* RETRY_PRIORITY_BOOST
    Review,             \* the tasks of kind 'review'
    Parallel,           \* the tasks with parallel = 1
    UsesWorktree,       \* the tasks that do not work in the shared checkout
    Own,                \* the files each task owns
    TaskSeq, Priority,  \* tasks.seq, and tasks.priority as `add` writes it
    BlockedBy,          \* the blockers each task is added with
    Primary, Fallback,  \* claimable_by as added, and fallback_persona
    Targets             \* the tasks a spawn may name as its target

ASSUME NullsAssumption ==
    NoTask \notin Task /\ NoWorker \notin Worker /\ NoPersona \notin Persona

ASSUME TaskAssumption ==
    /\ Review \subseteq Task /\ Parallel \subseteq Task
    /\ UsesWorktree \subseteq Task /\ Targets \subseteq Task
    /\ Own \in [Task -> SUBSET File]
    /\ BlockedBy \in [Task -> SUBSET Task]
    /\ Primary \in [Task -> Persona]
    /\ Fallback \in [Task -> Persona \cup {NoPersona}]

ASSUME NumberAssumption ==
    /\ MaxAttempts \in Nat \ {0} /\ Boost \in Nat \ {0}
    /\ TaskSeq \in [Task -> Nat] /\ Priority \in [Task -> Int]

\* Every task has its own seq, and `add` refuses a blocker that is not there.
ASSUME OrderAssumption ==
    /\ \A t, u \in Task : TaskSeq[t] = TaskSeq[u] => t = u
    /\ \A t \in Task : \A b \in BlockedBy[t] : TaskSeq[b] < TaskSeq[t]

VARIABLES
    \* the tasks and task_deps tables
    tstatus, cur, held, attempts, floor, prio, claimable, deps,
    \* the workers table
    wstatus, persona, task, attempt, target, prev, handed,
    \* processes: the worker's, its detached `finish`, its `done`, the attempts
    \* with every finish step through, and the one stop of each worker
    proc, fin, ack, through, stop

taskRows   == <<tstatus, cur, held, attempts, floor, prio, claimable, deps>>
workerRows == <<wstatus, persona, task, attempt, target, prev, handed>>
procs      == <<proc, fin, ack, through, stop>>
vars       == <<taskRows, workerRows, procs>>

InFlight == {"running", "landing"}
PreClaim == {"spawning", "starting", "claiming"}
Live     == PreClaim \cup {"working"}

TaskStatus   == {"absent", "queued", "running", "landing", "done", "cancelled"}
HeldReason   == {"none", "unlanded", "attempts"}
WorkerStatus == Live \cup {"unborn", "launch_failed", "no_task", "incomplete",
                           "stopped", "done"}

(***************************************************************************)
(* inserted: the row exists.  launched: the pane runs `horch worker`.      *)
(* sup: the supervisor runs.  agent: so does the agent.  orphan: the agent *)
(* outlived its supervisor.  exited: the agent ended and the supervisor    *)
(* has not settled the row.                                                *)
(***************************************************************************)
ProcStatus == {"none", "inserted", "launched", "sup", "agent", "orphan", "exited", "gone"}

\* A `finish` before and after it seeded its steps, and a `done` that passed
\* its checks and has not written yet.  Each lives on without its agent.
Fin == {"idle", "seed", "steps"}
Ack == {"idle", "done", "unlanded"}

NoStop == [at |-> "idle"]
Stop == {NoStop} \cup [at : {"end", "signal"}, task : Task \cup {NoTask},
                       as : {"stopped", "incomplete"}, pids : BOOLEAN]

TypeOK ==
    /\ tstatus \in [Task -> TaskStatus]
    /\ cur \in [Task -> Worker \cup {NoWorker}]
    /\ held \in [Task -> HeldReason]
    /\ attempts \in [Task -> Nat]
    /\ floor \in [Task -> Nat]
    /\ prio \in [Task -> Int]
    /\ claimable \in [Task -> Persona]
    /\ deps \in [Task -> SUBSET Task]
    /\ wstatus \in [Worker -> WorkerStatus]
    /\ persona \in [Worker -> Persona \cup {NoPersona}]
    /\ task \in [Worker -> Task \cup {NoTask}]
    /\ attempt \in [Worker -> Nat]
    /\ target \in [Worker -> Task \cup {NoTask}]
    /\ prev \in [Worker -> Worker \cup {NoWorker}]
    /\ handed \in SUBSET Worker
    /\ proc \in [Worker -> ProcStatus]
    /\ fin \in [Worker -> Fin]
    /\ ack \in [Worker -> Ack]
    /\ through \in SUBSET Worker
    /\ stop \in [Worker -> Stop]

-----------------------------------------------------------------------------
(***************************************************************************)
(* The board: what can start, in which order, and who takes it.            *)
(***************************************************************************)
\* Bug: the reviews count as work.
WorkAll(A) == A
Work(A) == A \ Review
Active  == {t \in Task : tstatus[t] \in InFlight}
\* Bug: a held task is in line.
QueuedOrHeld == {t \in Task : tstatus[t] = "queued"}
Queued  == {t \in Task : tstatus[t] = "queued" /\ held[t] = "none"}

Before(t, u) == prio[t] < prio[u] \/ (prio[t] = prio[u] /\ TaskSeq[t] < TaskSeq[u])

Staffed(t) == \E w \in Worker : wstatus[w] \in Live /\ persona[w] = claimable[t]

\* Bug: a cancelled blocker counts as finished.
IsBlockedUnlessEnded(t) == \E b \in deps[t] : tstatus[b] \notin {"done", "cancelled"}
\* Bug: the shared checkout is held by exclusive tasks alone.
SharedIfExclusive(t, A) == t \notin UsesWorktree /\ ~(Work(A) \subseteq UsesWorktree \cup Parallel)

IsBlocked(t) == \E b \in deps[t] : tstatus[b] # "done"
Exclusive(t, A) == Work(A) # {} /\ (t \notin Parallel \/ ~(Work(A) \subseteq Parallel))
SharedCheckout(t, A) == t \notin UsesWorktree /\ ~(Work(A) \subseteq UsesWorktree)
FileHeld(t, A) == \E a \in Work(A) : Own[t] \cap Own[a] # {}

\* Why t cannot start beside the tasks A.
Waits(t, A) ==
    \/ IsBlocked(t)
    \/ t \notin Review /\ (Exclusive(t, A) \/ SharedCheckout(t, A) \/ FileHeld(t, A))

\* Bug: a task nobody will claim holds its slot.
SlotsOfAll ==
    CHOOSE S \in SUBSET Queued : \A t \in Queued :
        t \in S <=> ~Waits(t, Active \cup {u \in S : Before(u, t)})

(***************************************************************************)
(* The greedy plan: the queued tasks are taken in claim order, each beside *)
(* the running ones and the chosen ones before it.  Only a task that some  *)
(* live worker can claim holds its slot.  Before is a strict total order,  *)
(* so exactly one set fits.                                                *)
(***************************************************************************)
Slots ==
    CHOOSE S \in SUBSET Queued : \A t \in Queued :
        t \in S <=> Staffed(t) /\ ~Waits(t, Active \cup {u \in S : Before(u, t)})

Startable ==
    {t \in Queued : ~Waits(t, Active \cup {u \in Slots : Before(u, t)})}

(***************************************************************************)
(* The same plan as the loop of Board::plan makes it: each queued task on  *)
(* what the one before it left.                                            *)
(***************************************************************************)
Earlier(t) == {u \in Queued : Before(u, t)}
LastOf(S)  == CHOOSE t \in S : \A u \in S \ {t} : Before(u, t)

PlanStep(plan, t) ==
    IF Waits(t, plan.active) THEN plan
    ELSE [active |-> plan.active \cup (IF Staffed(t) THEN {t} ELSE {}),
          start  |-> plan.start \cup {t}]

PlanAfter[t \in Queued] ==
    PlanStep(IF Earlier(t) = {} THEN [active |-> Active, start |-> {}]
             ELSE PlanAfter[LastOf(Earlier(t))], t)

PlanLoop == IF Queued = {} THEN {} ELSE PlanAfter[LastOf(Queued)].start

\* Bug: a worker reserves its task only once its agent is up.
ReservedByClaiming(w) ==
    {target[o] : o \in {o \in Worker \ {w} : wstatus[o] = "claiming" /\ task[o] = NoTask}}

\* The tasks other live workers were spawned for and have not claimed yet:
\* claimed_at is set exactly when task_id is.
Reserved(w) ==
    {target[o] : o \in {o \in Worker \ {w} : wstatus[o] \in Live /\ task[o] = NoTask}}

Predecessor(w) == IF prev[w] = NoWorker THEN NoTask ELSE task[prev[w]]

First(S) == {t \in S : \A u \in S \ {t} : Before(t, u)}

\* The task w takes, as a set of at most one.
Pick(w) ==
    LET mine == {t \in Startable : claimable[t] = persona[w] /\ t \notin Reserved(w)}
    IN  IF target[w] \in Startable THEN {target[w]}
        ELSE IF Predecessor(w) \in mine THEN {Predecessor(w)}
        ELSE First(mine)

-----------------------------------------------------------------------------
Init ==
    /\ tstatus = [t \in Task |-> "absent"]
    /\ cur = [t \in Task |-> NoWorker]
    /\ held = [t \in Task |-> "none"]
    /\ attempts = [t \in Task |-> 0]
    /\ floor = [t \in Task |-> 0]
    /\ prio = Priority
    /\ claimable = Primary
    /\ deps = BlockedBy
    /\ wstatus = [w \in Worker |-> "unborn"]
    /\ persona = [w \in Worker |-> NoPersona]
    /\ task = [w \in Worker |-> NoTask]
    /\ attempt = [w \in Worker |-> 0]
    /\ target = [w \in Worker |-> NoTask]
    /\ prev = [w \in Worker |-> NoWorker]
    /\ handed = {}
    /\ proc = [w \in Worker |-> "none"]
    /\ fin = [w \in Worker |-> "idle"]
    /\ ack = [w \in Worker |-> "idle"]
    /\ through = {}
    /\ stop = [w \in Worker |-> NoStop]

-----------------------------------------------------------------------------
(***************************************************************************)
(* The orchestrator's commands on tasks.                                   *)
(***************************************************************************)

\* Tasks get their seq in the order they are added.
Add(t) ==
    /\ tstatus[t] = "absent"
    /\ \A u \in Task : TaskSeq[u] < TaskSeq[t] => tstatus[u] # "absent"
    /\ tstatus' = [tstatus EXCEPT ![t] = "queued"]
    /\ UNCHANGED <<cur, held, attempts, floor, prio, claimable, deps, workerRows, procs>>

Unblock(t, b) ==
    /\ tstatus[t] # "absent"
    /\ b \in deps[t]
    /\ deps' = [deps EXCEPT ![t] = @ \ {b}]
    /\ UNCHANGED <<tstatus, cur, held, attempts, floor, prio, claimable, workerRows, procs>>

\* Bug: a task with no fallback persona falls back to none.
FallBackUnchecked(t) ==
    /\ tstatus[t] = "queued"
    /\ claimable' = [claimable EXCEPT ![t] = Fallback[t]]
    /\ UNCHANGED <<tstatus, cur, held, attempts, floor, prio, deps, workerRows, procs>>

FallBack(t) ==
    /\ tstatus[t] = "queued"
    /\ Fallback[t] # NoPersona
    /\ claimable' = [claimable EXCEPT ![t] = Fallback[t]]
    /\ UNCHANGED <<tstatus, cur, held, attempts, floor, prio, deps, workerRows, procs>>

\* The stop of the holder that follows is StopRead(w, "stopped").
Cancel(t) ==
    /\ tstatus[t] \notin {"absent", "done", "cancelled"}
    /\ tstatus' = [tstatus EXCEPT ![t] = "cancelled"]
    /\ cur' = [cur EXCEPT ![t] = NoWorker]
    /\ held' = [held EXCEPT ![t] = "none"]
    /\ wstatus' = [w \in Worker |->
                     IF w = cur[t] /\ wstatus[w] \in Live THEN "stopped" ELSE wstatus[w]]
    /\ UNCHANGED <<attempts, floor, prio, claimable, deps,
                   persona, task, attempt, target, prev, handed, procs>>

RequeueByOperator(t) ==
    /\ tstatus[t] = "cancelled" \/ (tstatus[t] = "queued" /\ held[t] # "none")
    /\ tstatus' = [tstatus EXCEPT ![t] = "queued"]
    /\ held' = [held EXCEPT ![t] = "none"]
    /\ floor' = [floor EXCEPT ![t] = attempts[t]]
    /\ cur' = [cur EXCEPT ![t] = NoWorker]
    /\ UNCHANGED <<attempts, prio, claimable, deps, workerRows, procs>>

-----------------------------------------------------------------------------
(***************************************************************************)
(* Bringing up a worker.                                                   *)
(***************************************************************************)

\* horch spawn writes the row first.  A replaced worker must have ended.
Spawn(w, p, goal, old) ==
    /\ wstatus[w] = "unborn"
    /\ old # NoWorker => wstatus[old] \notin Live \cup {"unborn"}
    /\ goal # NoTask => tstatus[goal] # "absent"
    /\ wstatus' = [wstatus EXCEPT ![w] = "spawning"]
    /\ persona' = [persona EXCEPT ![w] = p]
    /\ target' = [target EXCEPT ![w] = goal]
    /\ prev' = [prev EXCEPT ![w] = old]
    /\ proc' = [proc EXCEPT ![w] = "inserted"]
    /\ UNCHANGED <<taskRows, task, attempt, handed, fin, ack, through, stop>>

PaneOpens(w) ==
    /\ proc[w] = "inserted"
    /\ proc' = [proc EXCEPT ![w] = "launched"]
    /\ UNCHANGED <<taskRows, workerRows, fin, ack, through, stop>>

\* The gate refused, the pane did not open, or `horch worker` reported an
\* error at its start.
LaunchFailed(w) ==
    /\ proc[w] \in {"inserted", "launched", "sup"}
    /\ proc' = [proc EXCEPT ![w] = "gone"]
    /\ wstatus' = [wstatus EXCEPT ![w] =
                     IF @ \in {"spawning", "starting"} THEN "launch_failed" ELSE @]
    /\ UNCHANGED <<taskRows, persona, task, attempt, target, prev, handed, fin, ack, through, stop>>

\* Whatever the row says, it is starting now.
SupervisorStarted(w) ==
    /\ proc[w] = "launched"
    /\ proc' = [proc EXCEPT ![w] = "sup"]
    /\ wstatus' = [wstatus EXCEPT ![w] = "starting"]
    /\ UNCHANGED <<taskRows, persona, task, attempt, target, prev, handed, fin, ack, through, stop>>

AgentStarted(w) ==
    /\ proc[w] = "sup"
    /\ proc' = [proc EXCEPT ![w] = "agent"]
    /\ wstatus' = [wstatus EXCEPT ![w] = IF @ = "starting" THEN "claiming" ELSE @]
    /\ UNCHANGED <<taskRows, persona, task, attempt, target, prev, handed, fin, ack, through, stop>>

-----------------------------------------------------------------------------
(***************************************************************************)
(* The agent's commands.  `finish` detaches from the agent; a `done` runs  *)
(* while the agent waits for it.                                           *)
(***************************************************************************)
AgentRuns(w) == proc[w] \in {"agent", "orphan"} /\ ack[w] = "idle"

\* Bug: the unique index is missing.
IndexMissing(w, t) == TRUE
\* Bug: a working worker may claim again.
MayClaimLive(w) == AgentRuns(w) /\ wstatus[w] \in Live

\* The unique index of workers: one `working` row per task.
IndexAllows(w, t) == \A o \in Worker \ {w} : ~(wstatus[o] = "working" /\ task[o] = t)

\* A second claim by a working worker changes nothing.
MayClaim(w) == AgentRuns(w) /\ wstatus[w] \in PreClaim

ClaimTask(w, t) ==
    /\ MayClaim(w)
    /\ t \in Pick(w)
    /\ IndexAllows(w, t)
    /\ tstatus' = [tstatus EXCEPT ![t] = "running"]
    /\ cur' = [cur EXCEPT ![t] = w]
    /\ attempts' = [attempts EXCEPT ![t] = @ + 1]
    /\ wstatus' = [wstatus EXCEPT ![w] = "working"]
    /\ task' = [task EXCEPT ![w] = t]
    /\ attempt' = [attempt EXCEPT ![w] = attempts[t] + 1]
    /\ UNCHANGED <<held, floor, prio, claimable, deps, persona, target, prev, handed, procs>>

ClaimNothing(w) ==
    /\ MayClaim(w)
    /\ Pick(w) = {}
    /\ wstatus' = [wstatus EXCEPT ![w] = "no_task"]
    /\ UNCHANGED <<taskRows, persona, task, attempt, target, prev, handed, procs>>

\* The task of w, as `finish` and `done` read it: its row may have ended.
Holds(w) ==
    /\ task[w] # NoTask
    /\ tstatus[task[w]] # "cancelled"
    /\ cur[task[w]] = w

\* Bug: only the task's own priority is moved.
FrontOfItself(t) == {prio[t] - 1}

\* The priority in front of every queued task, the held ones too, as a set of
\* one.
FrontOf(t) ==
    LET queue == {u \in Task \ {t} : tstatus[u] = "queued"}
        low   == {prio[t]} \cup {prio[u] - 1 : u \in IF queue = {} THEN {t} ELSE queue}
    IN  {p \in low : \A n \in low : p <= n}

Handoff(w) ==
    /\ AgentRuns(w)
    /\ Holds(w)
    /\ wstatus[w] = "working"
    /\ tstatus[task[w]] = "running"
    /\ LET t == task[w]
       IN  /\ tstatus' = [tstatus EXCEPT ![t] = "queued"]
           /\ cur' = [cur EXCEPT ![t] = NoWorker]
           /\ held' = [held EXCEPT ![t] = "none"]
           /\ \E front \in FrontOf(t) : prio' = [prio EXCEPT ![t] = front]
    /\ wstatus' = [wstatus EXCEPT ![w] = "incomplete"]
    /\ handed' = handed \cup {w}
    /\ UNCHANGED <<attempts, floor, claimable, deps, persona, task, attempt, target, prev, procs>>

\* finish reads the task first, and seeds the steps in a transaction.
FinishRead(w) ==
    /\ AgentRuns(w)
    /\ Holds(w)
    /\ task[w] \notin Review
    /\ fin[w] = "idle"
    /\ fin' = [fin EXCEPT ![w] = IF tstatus[task[w]] = "running" THEN "seed" ELSE "steps"]
    /\ UNCHANGED <<taskRows, workerRows, proc, ack, through, stop>>

\* Bug: the update does not ask that the task still runs.
LandingAlways(s) == "landing"

Landing(s) == IF s = "running" THEN "landing" ELSE s

SeedSteps(w) ==
    /\ fin[w] = "seed"
    /\ fin' = [fin EXCEPT ![w] = "steps"]
    /\ tstatus' = [tstatus EXCEPT ![task[w]] = Landing(@)]
    /\ UNCHANGED <<cur, held, attempts, floor, prio, claimable, deps, workerRows,
                   proc, ack, through, stop>>

\* The steps ran: every one is through, or one is not, or not any more.
StepsEnd(w, all) ==
    /\ fin[w] = "steps"
    /\ fin' = [fin EXCEPT ![w] = "idle"]
    /\ through' = IF all THEN through \cup {w} ELSE through \ {w}
    /\ UNCHANGED <<taskRows, workerRows, proc, ack, stop>>

\* The finish is killed; the steps it recorded stay.
FinishDies(w) ==
    /\ fin[w] # "idle"
    /\ fin' = [fin EXCEPT ![w] = "idle"]
    /\ UNCHANGED <<taskRows, workerRows, proc, ack, through, stop>>

\* done checks the task and the steps before its transaction.
DoneRead(w, how) ==
    /\ AgentRuns(w)
    /\ Holds(w)
    /\ wstatus[w] # "done"
    /\ how = "unlanded" \/ task[w] \in Review \/ w \in through
    /\ ack' = [ack EXCEPT ![w] = how]
    /\ UNCHANGED <<taskRows, workerRows, proc, fin, through, stop>>

\* Bug: nothing is checked again.
AnyStatus(t) == TRUE

\* All that the transaction checks again: the task was not ended meanwhile.
StillRuns(t) == tstatus[t] \in InFlight

MarkDone(w) ==
    /\ ack[w] # "idle"
    /\ StillRuns(task[w])
    /\ LET t == task[w]
           parks == ack[w] = "unlanded"
       IN  /\ tstatus' = [tstatus EXCEPT ![t] = IF parks THEN "queued" ELSE "done"]
           /\ held' = [held EXCEPT ![t] = IF parks THEN "unlanded" ELSE "none"]
           /\ cur' = [cur EXCEPT ![t] = IF parks THEN NoWorker ELSE @]
    /\ wstatus' = [wstatus EXCEPT ![w] = "done"]
    /\ ack' = [ack EXCEPT ![w] = "idle"]
    /\ UNCHANGED <<attempts, floor, prio, claimable, deps,
                   persona, task, attempt, target, prev, handed, proc, fin, through, stop>>

\* The done is refused, or it is killed.
DoneFails(w) ==
    /\ ack[w] # "idle"
    /\ ack' = [ack EXCEPT ![w] = "idle"]
    /\ UNCHANGED <<taskRows, workerRows, proc, fin, through, stop>>

-----------------------------------------------------------------------------
(***************************************************************************)
(* The ends of a worker.                                                   *)
(***************************************************************************)
\* Bug: one attempt more.
UsedUpLate(t) == attempts[t] - floor[t] > MaxAttempts

UsedUp(t) == attempts[t] - floor[t] >= MaxAttempts

\* Back in the queue, or held.  Whose task it is now is not asked.
Requeue(t) ==
    IF t \in Active
    THEN /\ tstatus' = [tstatus EXCEPT ![t] = "queued"]
         /\ cur' = [cur EXCEPT ![t] = NoWorker]
         /\ held' = [held EXCEPT ![t] = IF UsedUp(t) THEN "attempts" ELSE @]
         /\ prio' = [prio EXCEPT ![t] = IF UsedUp(t) THEN @ ELSE @ - Boost]
    ELSE UNCHANGED <<tstatus, cur, held, prio>>

RequeueIfHeld(t, w) ==
    IF t \in Active /\ cur[t] = w THEN Requeue(t) ELSE UNCHANGED <<tstatus, cur, held, prio>>

AgentExits(w) ==
    /\ proc[w] \in {"agent", "orphan"}
    /\ proc' = [proc EXCEPT ![w] = IF @ = "agent" THEN "exited" ELSE "gone"]
    /\ UNCHANGED <<taskRows, workerRows, fin, ack, through, stop>>

\* A crash, a kill or a closed pane; the agent may outlive its supervisor.
ProcessDies(w) ==
    /\ proc[w] \in {"launched", "sup", "agent", "exited"}
    /\ \E p \in {"gone"} \cup (IF proc[w] = "agent" THEN {"orphan"} ELSE {}) :
          proc' = [proc EXCEPT ![w] = p]
    /\ UNCHANGED <<taskRows, workerRows, fin, ack, through, stop>>

\* The end status of a worker whose agent exited in status s.
ExitRule(s) ==
    CASE s = "working" -> "incomplete"
      [] s \in {"starting", "spawning"} -> "launch_failed"
      [] s = "claiming" -> "no_task"
      [] OTHER -> s

Settle(w) ==
    /\ proc[w] = "exited"
    /\ proc' = [proc EXCEPT ![w] = "gone"]
    /\ wstatus' = [wstatus EXCEPT ![w] = ExitRule(@)]
    /\ IF wstatus[w] = "working" THEN Requeue(task[w])
                                 ELSE UNCHANGED <<tstatus, cur, held, prio>>
    /\ UNCHANGED <<attempts, floor, claimable, deps,
                   persona, task, attempt, target, prev, handed, fin, ack, through, stop>>

\* stop (as "stopped") and reap (as "incomplete") read the row first.
StopRead(w, as) ==
    /\ stop[w] = NoStop
    /\ wstatus[w] # "unborn"
    /\ as = "incomplete" => wstatus[w] \in Live \cup {"incomplete"}
    /\ stop' = [stop EXCEPT ![w] =
                  [at |-> "end", task |-> task[w], as |-> as,
                   pids |-> proc[w] = "agent"]]
    /\ UNCHANGED <<taskRows, workerRows, proc, fin, ack, through>>

\* The transaction: the row ends, and the task that was read is queued.
EndRow(w) ==
    /\ stop[w].at = "end"
    /\ wstatus' = [wstatus EXCEPT ![w] = IF @ \in Live THEN stop[w].as ELSE @]
    /\ RequeueIfHeld(stop[w].task, w)
    /\ stop' = [stop EXCEPT ![w].at = "signal"]
    /\ UNCHANGED <<attempts, floor, claimable, deps,
                   persona, task, attempt, target, prev, handed, proc, fin, ack, through>>

\* The signals go to the pids that were read, and the pane that was read
\* closes: a process that came up since then may stay.  A reap then looks at
\* the task once more.
StopProcesses(w) ==
    /\ stop[w].at = "signal"
    /\ \E p \in {"gone", proc[w]} :
          /\ stop[w].pids => p = "gone"
          /\ proc' = [proc EXCEPT ![w] = p]
    /\ IF stop[w].as = "incomplete" THEN RequeueIfHeld(stop[w].task, w)
                                    ELSE UNCHANGED <<tstatus, cur, held, prio>>
    /\ stop' = [stop EXCEPT ![w] = NoStop]
    /\ UNCHANGED <<attempts, floor, claimable, deps, workerRows, fin, ack, through>>

\* The stop is killed between its steps.
StopDies(w) ==
    /\ stop[w] # NoStop
    /\ stop' = [stop EXCEPT ![w] = NoStop]
    /\ UNCHANGED <<taskRows, workerRows, proc, fin, ack, through>>

\* Bug: only the rows whose agent never ran are looked at.
LostStarting == {w \in Worker : wstatus[w] = "starting" /\ proc[w] \in {"gone", "orphan"}}

\* The rows whose recorded supervisor is gone before a claim.
Lost == {w \in Worker : wstatus[w] \in {"starting", "claiming"} /\ proc[w] \in {"gone", "orphan"}}

\* One transaction ends the lost rows and the silent ones.
SweepPreclaim(silent) ==
    /\ \A w \in silent : wstatus[w] \in PreClaim
    /\ silent \cup Lost # {}
    /\ wstatus' = [w \in Worker |->
                     IF w \in silent \cup Lost
                     THEN IF wstatus[w] = "claiming" THEN "no_task" ELSE "launch_failed"
                     ELSE wstatus[w]]
    /\ UNCHANGED <<taskRows, persona, task, attempt, target, prev, handed, procs>>

-----------------------------------------------------------------------------
TaskCommand ==
    \E t \in Task :
        \/ Add(t)
        \/ \E b \in Task : Unblock(t, b)
        \/ FallBack(t)
        \/ Cancel(t)
        \/ RequeueByOperator(t)

SpawnWorker ==
    \E w \in Worker, p \in Persona, goal \in Targets \cup {NoTask}, old \in Worker \cup {NoWorker} :
        Spawn(w, p, goal, old)

BringUp(w) == PaneOpens(w) \/ LaunchFailed(w) \/ SupervisorStarted(w) \/ AgentStarted(w)

AgentCommand(w) ==
    \/ \E t \in Task : ClaimTask(w, t)
    \/ ClaimNothing(w)
    \/ Handoff(w)
    \/ FinishRead(w)
    \/ SeedSteps(w)
    \/ \E all \in BOOLEAN : StepsEnd(w, all)
    \/ \E how \in {"done", "unlanded"} : DoneRead(w, how)
    \/ MarkDone(w)
    \/ FinishDies(w)
    \/ DoneFails(w)

WorkerEnds(w) ==
    \/ AgentExits(w)
    \/ ProcessDies(w)
    \/ Settle(w)
    \/ \E as \in {"stopped", "incomplete"} : StopRead(w, as)
    \/ EndRow(w)
    \/ StopProcesses(w)
    \/ StopDies(w)

Next ==
    \/ TaskCommand
    \/ SpawnWorker
    \/ \E w \in Worker : BringUp(w) \/ AgentCommand(w) \/ WorkerEnds(w)
    \/ \E silent \in SUBSET Worker : SweepPreclaim(silent)

Spec == Init /\ [][Next]_vars

-----------------------------------------------------------------------------
(***************************************************************************)
(* Fairness.  A supervisor settles an agent that exited.  Each pass of the *)
(* watchdog ends the rows that were lost before a claim, and reaps a       *)
(* working row whose agent is gone; a stop goes on to its signals, and a   *)
(* reap that is killed is tried again.                                     *)
(* No agent, orchestrator or process owes a step.                          *)
(***************************************************************************)
NeverCheckedIn == {w \in Worker : wstatus[w] = "spawning" /\ proc[w] = "gone"}

ReapDead(w) ==
    /\ wstatus[w] = "working"
    /\ proc[w] \in {"exited", "gone"}
    /\ StopRead(w, "incomplete")

Fairness ==
    /\ WF_vars(SweepPreclaim(NeverCheckedIn))
    /\ \A w \in Worker :
          /\ WF_vars(Settle(w))
          /\ SF_vars(ReapDead(w))
          /\ SF_vars(EndRow(w))
          /\ WF_vars(StopProcesses(w))

FairSpec == Spec /\ Fairness

-----------------------------------------------------------------------------
(***************************************************************************)
(* What the queue promises.                                                *)
(***************************************************************************)

\* No two tasks of work in flight conflict: neither is exclusive, at most one
\* is in the shared checkout, and they own no file in common (Board::wait).
MayRunTogether(t, u) ==
    t \notin Review /\ u \notin Review =>
        /\ t \in Parallel /\ u \in Parallel
        /\ t \in UsesWorktree \/ u \in UsesWorktree
        /\ Own[t] \cap Own[u] = {}

InFlightFits == \A t, u \in Active : t # u => MayRunTogether(t, u)

\* Every blocker a task in flight still names is done, however the blocker
\* or the task was retried, parked, cancelled or requeued (Board::blocked_by).
BlockersDone == \A t \in Active : ~IsBlocked(t)

\* With no work in flight the first queued task that is not blocked can
\* start: the queue never waits for itself, nor for a review (Board::plan).
QueueMoves ==
    LET ready == {t \in Queued : ~IsBlocked(t)}
    IN  Active \subseteq Review => First(ready) \subseteq Startable

\* The set that the claim picks from is the one that the loop collects
\* (Board::plan, Board::startable), whichever personas have a worker.
PlanIsTheLoop == Startable = PlanLoop

\* A done task stays done; a cancelled one leaves only by the operator's
\* requeue, which starts its count of attempts anew.  A late `done`, settle
\* or reap of an old attempt brings neither back (mark_done, requeue).
EndedTasksStay ==
    [][\A t \in Task :
          /\ tstatus[t] = "done" => tstatus'[t] = "done"
          /\ tstatus[t] = "cancelled" /\ tstatus'[t] # "cancelled" =>
                tstatus'[t] = "queued" /\ floor'[t] = attempts[t]]_vars

(***************************************************************************)
(* What relates tasks and workers.                                         *)
(***************************************************************************)

\* While the task of a working row is in flight it is that worker's: an exit
\* or a reap of the row requeues no other attempt (requeue_after_exit does
\* not ask whose task it is).
WorkingHoldsInFlight ==
    \A w \in Worker :
        wstatus[w] = "working" /\ tstatus[task[w]] \in InFlight => cur[task[w]] = w

\* A task in flight names the worker that claimed it last: a stop or reap
\* of that row, and no other, can give it back (requeue_if_held).
InFlightIsClaimed ==
    \A t \in Active :
        /\ cur[t] \in Worker
        /\ task[cur[t]] = t
        /\ attempt[cur[t]] = attempts[t]

\* A row takes one task in its life, though its status can go back.
OneTaskPerRow == [][\A w \in Worker : task[w] # NoTask => task'[w] = task[w]]_vars

\* The task a live worker was spawned for and has not claimed yet is claimed
\* by no worker that was spawned for another, or for none (TRF-24).
TargetWaitsForItsWorker ==
    [][\A w, o \in Worker :
          /\ wstatus[w] \in Live /\ task[w] = NoTask /\ target[w] # NoTask
          /\ task[o] = NoTask /\ task'[o] = target[w]
          => target[o] = target[w]]_vars

\* A task that is handed off is first in line, before the retried tasks and
\* the held ones too, which an operator may release (tasks::handoff).
HandoffIsFirst ==
    [][\A w \in handed' \ handed :
          \A u \in Task \ {task[w]} : tstatus[u] = "queued" => Before(task[w], u)']_vars

\* Past the last requeue by the operator, a task is claimed at most
\* max_attempts times, and once more for each attempt that handed off.
HandedSince(t) == {w \in handed : task[w] = t /\ attempt[w] > floor[t]}
RetriesBounded ==
    \A t \in Task : attempts[t] - floor[t] <= MaxAttempts + Cardinality(HandedSince(t))

\* Rows whose processes are gone do not stay live: from some time on there is
\* none (sweep_preclaim, reap, settle).
LostRowsEnd == <>[](\A w \in Worker : wstatus[w] \in Live => proc[w] # "gone")

(***************************************************************************)
(* What the documentation says and the code does not do.                   *)
(***************************************************************************)

\* taskledger/mod.rs: every read-then-write is one transaction.  A task
\* becomes done together with the worker that holds it.
DoneByItsHolder ==
    [][\A t \in Task : tstatus[t] # "done" /\ tstatus'[t] = "done" =>
          wstatus[cur[t]] # "done" /\ wstatus'[cur[t]] = "done"]_vars

=============================================================================
