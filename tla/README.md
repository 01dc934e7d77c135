# multi-herdr in TLA+

A verification development for the fleet code of this repository: what a fleet
keeps in its ledger, who may work on what, how work ends, and how it gets on the
run branch. Paths are relative to `crates/horch-core/src/` unless they start with
`crates/`; `taskledger/` is shortened to `tl/`.

A *run* has an orchestrator and a queue of *tasks*. *Workers* are agents in panes
of a terminal multiplexer, each with a supervisor process and a row in the ledger,
a SQLite file that every `horch` process opens. A worker claims one task, works in
a git worktree, runs `horch finish` (a detached process that runs the finish steps,
the land among them) and `horch done`. A watchdog process passes over the ledger
every few seconds and reaps, sweeps, wakes and cleans up. There is no server: all
of it is processes that read and write the ledger, files, locks and git, and any of
them can die between two of its steps.

## Inventory

### The task ledger

| Component | State | Operations | Hard behaviour | What makes it correct |
|---|---|---|---|---|
| **Queue and claim** (`tl/tasks.rs`, `tl/sql_words.rs`, `tl/model.rs`) | `tasks` (status, held_reason, current_worker_id, attempts, attempts_floor, priority, claimable_by), `task_deps`, `task_files` | add, unblock, claim, handoff, fallback, cancel, requeue, requeue by the operator, the plan of the board | claims of many workers in any order against a plan that was computed for another moment; priorities that move; targets reserved by workers that have not started | tasks in flight never conflict; blockers are done; the plan is what the claim gives; the queue never waits for itself; a handoff is first; retries are bounded |
| **Worker rows and supervisor** (`tl/workers.rs`, `tl/supervisor.rs`) | `workers` (status, task_id, attempt, target, previous_worker_id) | insert, start, check-in, launch failure, exit rule, settle, sweep before the claim | a process of the chain spawner, pane, supervisor, agent dies at any point; a supervisor comes up late | a row takes one task; an ended row stays ended; a lost row ends |
| **Stop and reap** (`tl/stop.rs`) | `stops`, worker rows, processes | stop, reap, stop of a cancelled worker | reads the row, then ends it in a transaction, then signals; a claim, done or exit in between; the finish process is in another group and survives | only the attempt that holds a task gives it back |
| **Finish and done** (`tl/finish/mod.rs`) | `finish_steps`, task status landing and done | open, seed, run and record steps, complete | the command outlives its worker; done checks outside the transaction that writes | a task becomes done by its holder; ended tasks stay ended |
| **Landing and worktrees** (`tl/finish/land.rs`) | `worktrees` (status, landed_commit), branches, the run branch, the land lock | land (rebase, check, lock, compare, fast-forward, record), undo, land again, cleanup, retry of the cleanup | two lands at once; the run branch moves during a check; a land whose task is lost; a crash with the lock; cleanup against a commit | only checked trees land; nothing that landed or was committed is lost; rows tell the truth |
| **Finish steps other than land** (`tl/finish/codesweep.rs`, `complexity.rs`, `pr.rs`, `detach.rs`) | verdicts per tree, review rounds, pull request | code sweep, complexity gate, pull request | a verdict of one tree used for another; a step seeded again after a land | a step is through for the tree that lands (not modelled yet) |
| **Watchdog** (`tl/watchdog.rs`, `crates/horch/src/cmd/taskledger_watch.rs`) | its lock and check-in, notes on workers | sweep, reap of dead agents, nudges, rewake, restart with a new binary | two watchdogs; a pass over rows that change under it | what is lost is found; at most one runs |
| **Outbox and wakes** (`tl/outbox.rs`, `crates/horch/src/cmd/taskledger_wake.rs`) | `outbox` rows with a dedup key, the drain lock | write in the causing transaction, write_now, drain, mark delivered | crash between send and mark; crash between commit and write_now | a need that is committed becomes mail; a wake that is sent again makes no second mail; a mail that asks has its question listed until it is answered or a week is over |
| **Orchestrator** (`tl/orchestrator.rs`) | orchestrator row of the run, respawn count and time, stop flag, launch lock | claim, check, register, respawn, pending launch, record stop | passes of the watchdog, launches by the operator and deaths of the agent interleave; at most 3 respawns, 10 minutes apart | a run has one agent, in its workspace, with its route; nobody alive is replaced; a death is answered |
| **Runs, gates, close** (`tl/runs.rs`) | `runs`, `run_gates` | create, gate, close, abandon | gates take no lock and share one folder; the tip the gate passed is not the tip that closes; a close looks before its transaction | a closed run has no open work; a passed gate is of the tree of its tip |
| **Triage and worktree commands** (`tl/triage/`, `tl/worktree_ops.rs`) | worktree decisions, archive refs | triage, apply, create, drop | a decision for a worktree that is used again | only gc, after 30 days, forgets work |
| **Store and schema** (`tl/store.rs`, `tl/schema.rs`, `tl/util.rs`) | the SQLite file | `immediate` transactions, migrations, indexes | which reads are inside the transaction | taken as atomic steps in every module |
| **Import, ticket map, status, timer** (`tl/import.rs`, `map.rs`, `status.rs`, `timer.rs`) | none of their own | copy, parse, render, one delayed message | none | not modelled, but for the settled rule of `status.rs` (in RunClose) |

### Around the ledger

| Component | State | Operations and hard behaviour |
|---|---|---|
| **Directory lock** (`fsx.rs`) | a lock directory with an owner file, a breaker guard | publish by rename, staleness by pid or age, break, release; breakers and a late holder race over files. One holder at a time; a dead one does not keep callers out |
| **Spawn** (`crates/horch/src/cmd/spawn.rs`, `taskledger_spawn.rs`) | role names, launch markers | gate against the plan, insert of the row, start of the pane |
| **Execution** (`execution/`) | session records, role registry, briefs, panes | spawn or resume of a record, the worker in its pane, `horch done`, sweeps; each writes the record in an order that nobody enforces. A worker has its own brief; its record says what it does; its end is known |
| **Messaging** (`messaging/mail.rs`, `mailbox.rs`, `channel.rs`, `delivery.rs`) | mail files (pending, acked, keys, questions, pushed), role registry | enqueue with a key, push, the courier, ack, prune; crash between the files of one mail. Pending mail has a courier, and becomes known |
| **Background jobs** (`heartbeat.rs`, `procid.rs`, `compaction/`) | job directory, heartbeat, spawn marker | start once, found lost, finish; a late heartbeat; who clears the folder. One job types into a pane; no job is forgotten |
| **Telemetry** (`telemetry/`) | event files, cursors, collector lock | append then cursor, singleton with handshake (not modelled) |
| **Routing, quota** (`routing/`) | readings | pure decisions |
| **Roster, skills, harness, workspace, vcs, runtime, sweep** | files | parsing, launching, layout, wrappers; one-pass cleanup |
| **Command line, marketplace, installers, documentation sync, end-to-end tests** (`crates/horch`, `crates/horch-marketplace`, `crates/herdr-install`, `crates/herdr-docs-sync`, `crates/horch-e2e`) | none shared with the fleet | entry points and stand-alone tools |

### How they interact

- Through the **ledger**: every status above is a row, and every writer is a
  process of its own. `Store::immediate` makes a read and a write one step;
  the hard cases are the reads that happen before it.
- Through **git**: lands, agents, cleanups and the operator move branches.
- Through **locks**: one land at a time per repository, one drain, one watchdog
  per run, one orchestrator per workspace.
- Through **signals and exits**: a stop signals the agent and its supervisor, the
  supervisor settles the exit of its agent, the watchdog reaps what nobody settles.
- Through **messages**: outbox rows become mail, mail is pushed into panes.

## Modules

| Module | Models | Theorems |
|---|---|---|
| `TaskLedger` | queue, claim, worker rows, supervisor, stop, reap, finish, done | `TaskLedgerProofs` |
| `TaskLife`, `TaskLifeRefinement` | the abstract life of one task, and the map from TaskLedger to it | `TaskLifeProofs` |
| `RunBranch` | landing, undo, cleanup, the run branch and the land lock | `RunBranchProofs` |
| `LockService` | what a lock promises to those that take it in one step | |
| `DirLock` | the directory lock over its files, which implements `LockService` | `DirLockProofs` |
| `Wakes` | the outbox, its drain, keyed mail and questions | `MailProofs` |
| `Courier` | the push of a mail and the courier of a workspace | `MailProofs` |
| `Seat` | the orchestrator of a run: launch, claim, route, stop, respawn | `RunProofs` |
| `RunClose` | the gates and the close of a run | `RunProofs` |
| `Session` | spawn, resume, worker, `horch done`, sweeps of a session record | `SessionProofs` |
| `Compaction` | the compaction jobs of one role | `UpkeepProofs` |
| `Triage` | one worktree under triage, restore, drop, gc and cleanup | `UpkeepProofs` |

`MCEnds` and `MCClaims` instantiate TaskLedger, `MCLands` RunBranch, `MCTriage` Triage. The
other MC modules play several *scenes*: `MCTakeover` three of RunBranch, `MCBoard` the board of
TaskLedger and MCTriage, `MCWorkers` MCEnds and Compaction, `MCServices` Seat, RunClose, Courier and Session,
`MCAnswers` Wakes, DirLock, Seat, Courier and TaskLedger. Those
are no compositions: no variable of a scene is read by another, and a behaviour plays the one
that its first state chose, so one run asks its questions of each by itself. Contracts hold the modules together:
RunBranch, Seat and Compaction take a lock in one step, which `LockService` allows and DirLock is shown to implement; RunClose reads
statuses of tasks and worktrees that TaskLedger, RunBranch and Triage change.

### What is left

1. **FinishSteps**: the verdicts per tree, review rounds, steps seeded again after a
   land; to be proved: what lands passed every step.
2. **SpawnGate**: the gate of a spawn counts rows that are inserted beside it
   (`tl/tasks.rs:1647`); `StopLaunch`: a stop between a decided respawn and its launch
   (`tl/orchestrator.rs:194`).
3. Composition: Triage with RunBranch over one worktree, and the land lock of RunBranch as a
   client of LockService.
4. **Telemetry**: append then cursor, and the handshake of its singleton.

## TaskLedger

One run of the ledger. `TaskLedger.tla` has one action per command, sweep or process
step, and every action is a whole handler.

| Variable | In the code |
|---|---|
| `tstatus`, `held`, `cur`, `attempts`, `floor`, `prio`, `claimable` | `tasks.status` (`"absent"` before `add`), `held_reason`, `current_worker_id`, `attempts`, `attempts_floor`, `priority`, `claimable_by` |
| `deps` | `task_deps` |
| `wstatus`, `persona`, `task`, `attempt`, `target`, `prev` | `workers.status` (`"unborn"` before the insert), `persona`, `task_id`, `attempt`, `target_task_id`, `previous_worker_id`; `claimed_at` is set exactly when `task_id` is |
| `handed` | the workers that ended `handed_off` |
| `proc` | the processes of the worker, from the spawner over the pane and the supervisor to the agent, and its exit |
| `fin`, `ack`, `stop` | where the detached `finish`, the `done` and the stop or reap of the worker are, with what they read before their transaction |
| `through` | the workers whose finish steps are through |

What a task is (`Review`, `Parallel`, `UsesWorktree`, `Own`, `TaskSeq`, `Priority`,
`BlockedBy`, `Primary`, `Fallback`) is fixed when it is added, so it is a constant.

*Reads before a transaction.* `horch done` reads its task and its steps and then
writes (`DoneRead`, `MarkDone`); a stop reads the row, ends it, and signals (`StopRead`,
`EndRow`, `StopProcesses`); `finish` reads, seeds and ends (`FinishRead`, `SeedSteps`,
`StepsEnd`). Anything may happen between two of those. Everything inside
`Store::immediate` is one action.

*Processes.* `ProcessDies` may hit a worker at any time; `FinishDies`, `DoneFails` and
`StopDies` kill a command between its steps.

*The plan.* `Board::plan` is a greedy loop over the queue. `Slots` states its result as
the one set that fits, which the other proofs use; `PlanLoop` is the loop itself, a function that
gives for each queued task the plan after its turn (`PlanAfter`), and `PlanIsTheLoop` says that both collect the same.

*The life of a task.* `TaskLife` is what the ledger promises of one task: it is queued,
taken, given back, held, landed, done or cancelled in a fixed order.
`TaskLifeRefinement` maps each row to it, and `ImplementsLife` says that every step
of the ledger is a step of one life, or of none.

*Left out here:* the worktree rows (RunBranch, Triage), outbox rows (Wakes), the gate of a spawn, notes,
questions and waits of workers, and the three signals of a stop, which are one step.

## RunBranch

Landing, for tasks with a worktree each. A branch is the *set of changes* on it: a rebase
on the run branch adds its changes, a fast-forward is a superset, an ancestor a subset.
This keeps what the properties tell apart (what is on which branch, what was checked) and
drops the order of commits.

| Variable | In the code |
|---|---|
| `target` | the run branch |
| `branch`, `dir` | the branch and the folder of each task's worktree |
| `wt`, `landedAt` | `worktrees.status`, `landed_commit` |
| `holder`, `cancelled`, `claimed` | `tasks.current_worker_id`, the cancelled tasks, the attempts that claimed |
| `land` | the land of each attempt: the stage it is at, the tip before it, the run branch it rebased on, the head it lands, what `fast_forward` read, the tries and checks, whether it holds the guard of the lock |
| `lock` | the owner of the land lock, whether it lives, whether the lock reached its age limit |
| `rm` | the cleanup of each worktree, between its folder and its branch |
| `checked`, `made` | history: the trees whose check passed, the changes that were committed |

The actions follow `land_stages` and `rebase_and_check` stage by stage, since each stage is a
git command or a file operation that others can run beside: `ReadTarget`, `Rebase`,
`CheckPasses`, `ReadHead`, `TakeLock`, `Compare`, `ReadAgain`, `Move`, `RecordLanded`, with the
red, the failed and the killed form of each. A second try keeps the lock (`TryAgain`), a
stop lets go of it and then resets the branch (`UndoRebase`) and opens the row (`Reopen`).
`LoseTask` stands for every way the task leaves its worker while its finish runs on;
TaskLedger has those ways one by one.

Three constants choose the world. `CheckedOut`: the run branch is checked out in the main
checkout, so it moves by `git merge --ff-only` and by commits of shared work
(`SharedCommit`), else by `git update-ref`. `MayAge`: a lock may reach its age limit while
its holder lives (`Age`). `Quiet`: nobody commits in a worktree while a land runs in it.

*Left out:* the push to a remote, uncommitted files, parked and dropped worktrees (Triage), the land
of work in the shared checkout, and the file steps of the lock (DirLock).

## DirLock

The lock that landing, the launch of an orchestrator, the watchdog, a compaction start,
the update, claims on checkouts (`vcs/landing.rs`) and project notes take (`fsx.rs`).

| Variable | In the code |
|---|---|
| `lock` | the directory `<name>.lock` with its owner file: whose, and whether it reached its age limit |
| `breaker` | the directory `<name>.lock.break`: none, new, or older than 5 s |
| `flock` | who holds `BreakerGuard` |
| `at`, `dead` | where each process is in `acquire`, `break_lock`, its work and its drop; the dead ones |
| `sawOld`, `broke` | what `is_stale` read; whether `break_lock` moved the lock away |
| `ages` | how often a lock reached its limit |

Each file operation is a step: stage and rename, the reads of age and owner, the breaker
`mkdir`, the second look at the lock, the move, the `rmdir`, the drop that reads the owner
and then removes. *Left out:* locks without an owner file that older binaries made.

`LockService` is the lock its callers see: a client asks, gives up, takes the lock in one step when nobody
that lives has it, drops it, or dies; the first lock that reaches its age limit ends that. `PlaceOf` maps a process to it:
it asks while it is anywhere in `acquire`, the breaking of another's lock included, and has the lock until its drop is over.
`ImplementsLock` is the refinement.

## Wakes and Courier

`Wakes` is how a change that the orchestrator must know of becomes one mail.

| Variable | In the code |
|---|---|
| `needs`, `round` | the board: a cause that needs the orchestrator, and the state its key names (attempts, time, reviews) |
| `due` | commands between their commit and `write_now` |
| `rows`, `delivered` | `outbox` and its delivered mark; a key is there once (`ON CONFLICT DO NOTHING`) |
| `drain`, `drainLock` | where a drain is and the rows it has yet to send; `send_lock` |
| `keys`, `made` | `mail/keys`, the ids made so far |
| `pending`, `acked`, `open`, `aged` | `mail/pending`, `mail/acked`, `mail/questions`, ids whose key is over the retention |
| `told`, `mailed`, `closed` | history: the author heard; the ids that were published; the questions that were closed |

A command commits (`Arise`) and writes its row in a transaction of its own (`WriteNow`,
or `CrashBeforeWrite`); the watchdog writes the rows that are missing (`Reconcile`). A drain
takes `send_lock` and sends row by row: key, question, pending, push, mark, each a file.
A question leaves `open` when it is answered (`CloseQuestion`), or when it is a week old and somebody lists the questions
(`QuestionAges`, `open_questions`), whatever became of its mail; mail that is pending has no age limit.

`Courier` is how a mail reaches the pane: `mail`, `pushed`, `acking`, `overdue` are the files
and ages of each mail, `sender` where the push of its sender is, `place`, `courierLock`,
`seen`, `seenPushed` and `resend` what a courier does, holds, and read in this pass;
`typed`, `known`, `asked` and `missed` are history. A courier passes over what is pending, types once what its
push can have missed, then digests, and looks again after it let go of its lock. *Left out:* the mail
of worker roles, the relay socket, and the text.

## Seat and RunClose

`Seat` is which agent orchestrates a run, in which workspace.

| Variable | In the code |
|---|---|
| `born`, `active`, `home`, `stopped`, `respawns`, `recent` | `runs`: active, `workspace_id`, `orchestrator_stopped_at`, `orchestrator_respawns`, `last_respawn_at` within 10 minutes |
| `row` | the orchestrator row of the run: status, workspace, PID |
| `decided` | a pass of the watchdog between its transaction and its launch |
| `spaces` | the workspaces that are open |
| `launcher`, `started` | the processes that launch an orchestrator, the orchestrator lock of their workspace, and the run they chose and claimed |
| `route` | the pane that the mailbox has for the role orchestrator |

A launcher takes the lock of its workspace, chooses, claims in a transaction, registers
the route and runs its agent under the lock; the check of the watchdog reads the row and the holder and
replaces or ends the row of an agent that is gone. The operator stops, closes, adopts and launches meanwhile.

`RunClose` is the end of a run: `runStatus`, `work` and `tree` are the rows; `tip` and `good` the run
branch and the tips whose tree the check passes; `pr` and `declined` the pull request;
`verdict` the newest result of each tip, `folder` the one gate folder of the run and the tip that is in it,
`gateRow` its row; `gate` each gate command with the tip it read and what its check saw; `closer` the close
commands, with what they read outside their transaction. `mixed` is history: the tips whose newest result is of a
check that saw another tree than theirs.

`run_gate` takes no lock, so any number of gates run at a time: one reads the tip (`ReadTip`), moves the folder
(`CheckOut`), and its check (`StartCheck`, `CheckEnds`) runs on whatever is there, also when another gate moves the folder
or a close removes it; the result is recorded under the tip that was read (`RecordGate`). A check that saw more than one
tree can end either way.

A close that finds the run settled asks for the gate and the pull request (`ReadGuards`); one that finds it
unsettled goes to its transaction without (`LookSettled`), to be refused there, and is not refused when
the run has become settled by then.

## Session

`record` is the session record (state, pane, age, summary), `spawner` where each
`horch spawn` is, `pane`, `worker`, `loaded` and `doing` the pane, the worker process in it, the
brief it loaded and its `horch done`; `roleId` and `brief` the mailbox; `startError` the startup errors.
`reported`, `informed`, `late` and `shared` are history: who queued a report and told the
orchestrator; whether one that starts was given up or lost its role; which records two spawners had at a
time (two resumes that both found it ended, a launch that was taken for vanished, a startup error that
another resume can find). The properties leave those records out. All in one workspace. *Left out:* the claims that make a done refuse, and the state sweep.

## Compaction and Triage

`Compaction` has the job folder of one role: `job`, `heart`, `spawned`, `recent`, `lost` are
its files and ages, `startLock` the lock of a start, `command` and `child` each `horch compact` with
the job it spawned, `sends` the compact lines that job typed. `told`, `began`, `disturbed` (a
live job lost its folder), `misclaimed` (a claim of a lost job
fell on another one than was looked at, or while one was on its way into the folder) and `unseen` are history. The folder has no owner:
a start clears it under the lock, a job that ends and a start that failed without it.
`InForeground` are the commands that are `--foreground`: they take no lock. *Left out:* texts, tokens, `--request`.

`Triage` has one worktree: `tree` (the folder: where its HEAD is and what is
uncommitted), `heads`, `dest`, `remote` (branches), `refs` and `old` (archive and trash
refs), `row` and `owner` (the worktree row and its task), `decision` (the decision that runs, with
what it read) and `restoring`. A commit is the sequence of patches of its history.
`written`, `astray` (committed on a detached HEAD) and `purged` are history. The six
decisions of `triage apply` run step by step (adopt, commit, push, write the ref, remove, unbranch, record), beside
edits, the task, drop, restore, the cleanup of the watchdog and gc. *Left out:* stashes, findings,
tickets, and the facts and texts of a row.

## Runs

| Run | Instance | Shows |
|---|---|---|
| `board` (MCBoard) | two scenes. *board*: 4 tasks of work that conflict in every way the board knows (one exclusive and blocked, two in the shared checkout, two with a file in common) and a review, 2 workers, 2 personas. *triage*: 1 worktree, 2 decisions, 2 patches | `InFlightFits`, `BlockersDone`, `QueueMoves`, `PlanIsTheLoop`; `OnlyGcForgets` |
| `workers` (MCWorkers) | two scenes. *ends*: 1 task, 2 workers, every action of `Next`. *compaction*: 3 jobs, one of them `--foreground` | `TypeOK`, `InFlightIsClaimed`, `ImplementsLife`; `OneJobInPane`, `NoJobIsForgotten` |
| `claims` (MCClaims) | two scenes: 2 tasks and 3 workers with targets and predecessors; 3 attempts that follow each other on one task | `OneTaskPerRow`, `TargetWaitsForItsWorker`, `HandoffIsFirst`, `WorkingHoldsInFlight`, `RetriesBounded` |
| `landing` (MCTakeover) | three scenes, quiet. *lands*: two tasks side by side, 3 changes, 3 tries, run branch not checked out. *shared*: it is checked out, two tasks beside commits of shared work, locks that age. *takeover*: two attempts in one worktree with losses, cancels, requeues and cleanups | `LandsAreChecked` (in *lands*), `LandsInALine` (but in *shared*), `LandedStays`, `WorkKept`, `LandedIsOnTarget` |
| `services` (MCServices) | 2 runs and 2 workspaces; 1 task and 1 close beside a gate; 2 gates and a close, 2 tips; 2 mails and 2 couriers; 2 spawners, 2 records, 1 role | `SeatIsKept`, `NoneReplacedAlive`, `ClosesSettled`, `GateIsOfItsTip`, `CourierStays`, `NoNeedlessResend`, `BriefIsItsOwn`, `AgentIsLive`, `LeftIsEnded`, `LeftIsKnown`, `ServicesTypeOK` |
| `answers` (MCAnswers) | 2 causes and 2 drains; 3 processes at one lock; 1 run, 3 launches; 2 mails, 1 courier; 1 task and 2 workers that are lost; under the fairness of each | `NeedIsMailed`, `DeadLockGoes`, `DeathIsAnswered`, `MailBecomesKnown`, `LostRowsEnd`, `QuestionIsListed`, `NoSecondMail`, `OneHolder`, `ImplementsLock` |

The types of Compaction and Triage are in no run: `CompactionInvariant` and `TriageTypeCorrect` prove them.
Each run ends within about three minutes on two cores. Deadlock is checked in none: an
instance has a bounded number of rows, changes, launches, decisions or mails, and when they are used up nothing is left to do.

### Bounds

*Ledger.* A row claims once, so the number of workers bounds the number of claims and
with it every counter; no state constraint is used. `MaxAttempts` is 1 or 2, so that
the limit is reached. Two workers are enough for every race of this code, which is
always between an attempt and the command that ends or follows it; a third one is there
where a stale command of the first attempt must meet the third, or where a
target, its worker and a thief are three. The MC modules restrict the
next-state relation rather than the states: `BoardNext` cancels and requeues one task and
has no crashes, `EndsNext` allows one stop and one command (a finish or a done) at a time and no replaced workers,
`AttemptsNext` brings up one worker at a time, `LostScene` has what can lose a worker and what finds it, and its second worker comes when the first has no process left.

*Landing.* Every conflict of a land is with one other land, commit, loss or cleanup, so two
attempts show it; with three changes a branch can gain one before, during and
after the land of the other. Past the second try a try differs from the one before in its
count alone (the lock is held by then), so three tries in *lands*, and two in the other scenes, reach what the
five of the code do. The `VIEW` leaves the history of the checked trees out where no property reads it.

*Services, answers, compaction, triage.* One respawn of the three the code allows, and a launch more than
respawns, so that the budget ends and a launch is by hand. A round and an id more than the first, so that
a cause comes back and a key is made anew. Faults and age limits are one, or two where a second is the
retry of the first; they happen in the scene and at the place where they are
told apart from a command that did not run (`WakesScene`, `LockScene`, `MailScene`, `CompactionScene`, `TriageScene`
and `SessionScene` say which). Two gates run beside a run without tasks and its close (`GatesScene`), one beside its work (`WorkScene`):
a gate reads no task, and a task step no folder. In triage the others edit, commit, switch the checkout and take the task
during a decision; the second patch is written between the commit of what was uncommitted and the removal of the folder,
which is where an edit can be lost.

The theorems have none of these bounds but the constants of the modules.

### Fairness

- `Fairness` of TaskLedger (scene *lost* of `answers`): the watchdog loop repeats for as long as a run is active. Each pass runs the sweep,
  so `SweepPreclaim` of the workers that never checked in is weakly fair, and reaps working rows whose agent is
  gone: a reap can be disabled and enabled by other commands, and a killed one is tried again by a
  later pass, so `ReapDead` and `EndRow` are strongly fair. A supervisor waits for its agent and
  settles, and a stop goes on to its signals: weakly fair.
- `WakesFairness`: a pass of the watchdog (`crates/horch/src/cmd/taskledger_watch.rs:120`–`180`, at
  least every 30 s) reconciles the board and drains the outbox; a drain that began goes on. Weak.
- `LockFairness`: a process that calls goes on (`acquire`, its retries, its deadline), and a breaker directory gets 5 s old. Weak.
- `SeatFairness`: the watchdog checks, and starts what it decided or fails to; ten minutes pass; a launcher goes on. Weak.
- `CourierFairness`: senders and couriers go on and time passes: weak. A pass finds the pane idle, and sends
  its digest: strong, since other lines keep the pane busy in between.

No agent, operator or orchestrator owes a step, and no process that died comes back by itself.
In `MCAnswers` a behaviour plays one scene, so one fairness formula serves a step
of each scene: WF of `scene = "wakes" /\ A \/ scene = "lock" /\ B` is WF of `A` in the one, of `B` in the other.

## What the code does not do

Each of these runs checks one statement of the repository, and TLC finds a behaviour that breaks it.
`PROJECT.json` quotes the line of each.

| Run | Statement | Behaviour |
|---|---|---|
| `done_late` | every read-then-write is one transaction | a `done` reads, its worker is reaped, another attempt claims; the late write marks that attempt's task done |
| `others_work` | a task that is lost keeps its branch | a red or failed land of a reaped worker resets the branch the next one commits on |
| `detached` | a failed decision deletes nothing, and no commit is lost | a worker commits on a detached HEAD and parks; the decision fails, and the watchdog then removes the folder, because the recorded branch has nothing to land |
| `unguarded` | `run close` needs a passing gate and a merged or declined pull request | a close looks while the last task is open, so it asks for neither; the task ends, the transaction finds the run settled and closes it as done |
| `resend` | the courier resends each due report, every 5 min, until it is acknowledged | the sender typed the report and recorded that; every pass of the courier finds it due and unread at an idle pane, and types it no more (a digest line counts it) |
| `expiry` | a question stays open until it is answered | its mail is pending for a week; the next listing deletes the question |

The models also contain, as the code does, and the properties above allow:

- Ledger: a stop that read its row before the claim, whose task then stays in flight under an
  ended row; a row that is `starting` again when its supervisor comes up late; a review beside an
  exclusive task; a cancel during a land, after which the row of the worktree is landing or open.
- Landing: without `Quiet` a commit that is made while the check runs lands with the head that is
  read after it, unchecked, and the reset after a red check takes it off the branch. `fast_forward` reads the
  run branch again after the comparison (`finish/land.rs:700`), so a land whose lock was broken at its age limit can swap away
  another one where the branch is not checked out.
- Lock: the drop of a guard reads the owner and then removes (`fsx.rs:440`–`451`), which is not one
  step when the lock was broken at its age limit in between.
- Mail: a key that is over its retention allows a second mail; a pass that read a mail before its
  push record was written types it twice.
- Seat and close: a stop between the decision of a respawn and its launch does not keep the
  launch away; two runs can be in one workspace after an adoption; a close of a run reads its status
  outside the transaction; two gates share a folder, and a check can run on the tip of the other gate, or on no folder, and be recorded for
  its own (`mixed`, which `GateIsOfItsTip` leaves out); a task can be added to a closed run.
- Session: with three spawners two resumes can both take one record (`execution/plan.rs:218`), and a resume
  can read the startup error of the worker before it as its own; a worker whose live spawner was given up, or
  whose role was freed by a done or a sweep of another one, can run the brief of the next one.
- Compaction: a start that failed clears the folder without the lock and can take it from a live
  job, beside which a second one can start (`disturbed`), although the comments of `create_job` and `start_locked` exclude it; a claim of a lost job can fall on the one that came next (`jobfile.rs:156`, `:180`), or come while that one
  is between the emptying of the folder and its `job.json`: a job that ends removes its own files and leaves such a `lost` (`:172`), so
  when the next job dies, its loss looks claimed.
- Triage: the row that `horch worktree new` makes for a requeued task whose worktree was archived is the
  archived one; a restored worktree of a parked task is open while its task is held, so it is not listed again.

## Theorems

Proved for every value of the constants, under the assumptions of the modules
on their constants, which the runs evaluate: `NullsAssumption`, `TaskAssumption`,
`NumberAssumption` and `OrderAssumption` of TaskLedger, and one of each other module
(`RunBranchAssumption`, `DirLockAssumption`, ...). The bounds that remain (`MaxTries`, `MaxRound`,
`MaxFaults`, ...) are any numbers.

| Theorem | Module | Says |
|---|---|---|
| `TypeCorrect` | TaskLedgerProofs | `Spec => []TypeOK` |
| `Fits`, `Blockers`, `EndedStay` | TaskLedgerProofs | tasks in flight do not conflict; their blockers are done; ended tasks stay |
| `QueueNeverWaits` | TaskLedgerProofs | the queue never waits for itself |
| `LoopIsThePlan` | TaskLedgerProofs | the set the claim picks from is what the loop of `Board::plan` collects |
| `Claimed`, `WorkingHolds`, `OneTask`, `TargetWaits` | TaskLedgerProofs | rows and tasks agree |
| `HandoffFirst`, `Retries` | TaskLedgerProofs | a handoff is first; retries are bounded |
| `Implements` | TaskLifeProofs | TaskLedger implements TaskLife |
| `LandingTypeCorrect` | RunBranchProofs | `Spec => []TypeOK`: no land tries more than `MaxTries` times |
| `OneAtATime` | RunBranchProofs | lands go in a line, while `~MayAge` |
| `NeverTakenBack`, `RecordedIsLanded` | RunBranchProofs | what landed stays, and rows name what landed, while `CheckedOut \/ ~MayAge` |
| `CommitsAreKept` | RunBranchProofs | no commit is lost, while `Quiet` and `CheckedOut \/ ~MayAge` |
| `TreesAreChecked` | RunBranchProofs | the run branch only holds checked trees, while `Quiet`, `~CheckedOut`, `~MayAge` and `[]OneLandEach` |
| `LockIsTyped`, `LockHasOneHolder` | DirLockProofs | the lock has one holder while no lock reached its age limit |
| `LockIsService`, `LockIsExclusive` | DirLockProofs | DirLock implements LockService, so whoever has a guard has it alone, its drop included |
| `SeatInvariant`, `SeatsAreKept`, `NobodyReplacedAlive` | RunProofs | a run has one agent, its workspace and its route; nobody alive is replaced |
| `CloseInvariant`, `GatesAreOfTheirTips`, `ClosesAreSettled` | RunProofs | a passed result is of the tree of its tip, with any number of gates, unless the folder was moved before the check ended; a run that closes is settled, with or without a gate |
| `WakesInvariant`, `QuestionsAreListed`, `OneMailAWake` | MailProofs | a question is listed before its mail and until it is answered or its retention ends; a wake that is sent again makes no second mail |
| `CourierTypeCorrect`, `CouriersStay`, `NobodyResends` | MailProofs | pending mail keeps its courier; what was typed and recorded is not typed again |
| `CompactionInvariant`, `OneJobAtATime` | UpkeepProofs | one job types into a pane, where none is `--foreground` |
| `NoJobIsLost` | UpkeepProofs | no compaction job is forgotten, where none is `--foreground` |
| `ServicesAreTyped` | SessionProofs | the type invariant of MCServices, for any constants |
| `TriageTypeCorrect`, `WorkIsNotForgotten` | UpkeepProofs | only gc forgets work |
| `SessionInvariant`, `BriefsAreOwn`, `AgentsAreLive`, `NoPhantomIsLeft`, `LeaversAreKnown` | SessionProofs | a worker has its own brief; its record says what it does, and its end; its end is known |

*The ledger.* `Fits` and `Blockers` are inductive with the types: a task comes in flight by
a claim alone, the claim takes from `Startable`, which compares it with everything active,
and a task that stays in flight stays active. Blockers only leave `deps`, and a done
blocker stays done (`EndedStay`). `WorkingHoldsInFlight` is not inductive: the
exit of a row requeues the task of the row without asking whose it is. What saves it is
`ClaimInv`: a row before its claim, or whose processes are still coming up, has no task
(`FreshRows`), a working row has a task (`WorkingRows`), the task in flight names its claimer and its count
of attempts (`InFlightIsClaimed`), so two working rows cannot have the same task in flight. `RetriesBounded` adds
`HandedRows` (the rows that handed off are finitely many, have a task and work no more) and
`Counts` (a task in flight has been claimed since its last floor, its claims are within
`MaxAttempts` and its handoffs, and one that can be claimed has an attempt left).

*The queue.* `QueueMoves` is about `Slots`, the set that the greedy loop chooses. That such
a set exists (`PlanExists`) needs no recursion: the queued tasks are finitely many (only `Add` adds), and
a finite set of tasks for which no plan exists would have a smallest one, by the
well-foundedness of the strict subset on finite sets; taking its last task away leaves one with a plan, which extends. The first task of the
queue that is not blocked then fits, since only reviews are active.

`LoopIsThePlan` is about the same set. `PlanAfter` has an equation because its recursion goes to an earlier task of a
finite queue. Where the loop and `Slots` differed there would be a first task on which they do;
before it both have put the same tasks beside the active ones, so both ask `Waits` the same question.

*The refinement.* `LifeOf` maps a queued task that is held to `"held"`; the rest of the map is the
identity on rows. `Implements` uses `ClaimInv`, for the claimer that has no task yet, and
`AbsentFree`, that a task is not held before it is added.

*Landing.* That two lands are under the lock is excluded by `LockInv`: a land that has the guard
is the owner in the lock, and from its comparison on a land has it. `BaseInv` then says that after the
comparison the run branch is the one that the land rebased on, which its head contains: a
step of anyone else that moved it would be a land under the lock too. With the run branch
checked out none of this is needed, as git merges forward only; `BranchInv` joins both cases.

`CommitsAreKept` rests on `TipsInv`: while a worktree is quiet, the tip a land keeps for its reset and the
branch it may reset differ only in what is on the run branch, so the reset loses nothing, whoever
resets and however late; and on `CleanInv`, for the cleanup that removes a branch.
`TreesAreChecked` adds `HeadInv`: from its check on, a land whose run branch did not move since it was read has a head whose
check passed, or nothing to land. Its hypothesis
`[]OneLandEach`, one land at a time in each worktree, cannot be dropped: with a holder
and two stale lands of earlier attempts in one worktree the branch can change twice between a check and the read of the
head after it, and come to a head that nobody checked. The ledger gives a worktree to one attempt at a time, but a
finish may outlive its attempt; the scene *lands* has one attempt for each task.

*The directory lock.* `OneHolder` is not inductive: a process that breaks a lock or gives its own back
removes whatever is at the path. `LockSafe` says what is there when it does: while no lock aged, a live holder, and a live process
that removes its own lock, have theirs at the path, and a live breaker that looked again removes the lock of a
dead process, which cannot come back. `LockIsService` takes one step of LockService from each action: the rename that publishes is
`Take`, and by `LockSafe` no live process has a guard or is in its drop then; every other step of `acquire` and `break_lock` is a stutter,
the second look and the move of a stale lock among them.

*Wakes.* The mail that stands for a wake is the one its key file names (`MailHasItsKey`), ids are new
(`IdsAreMade`), the one drain that sends has `send_lock` (`KeysFit`), and what it is about to publish is what its key names
(`SendsAnew`). A question that expired is over the retention (`aged`), so only of younger mail is anything said. A drain goes through the rows by their place; that there is a first
one left (`FirstPlace`) is the well-foundedness of `<`.

*The courier.* `CourierStays` needs `AskedIsSent` (a mail a courier was started for was published) and the
look that a courier takes after it let go of its lock. `NoNeedlessResend` needs `SendersInOrder`,
`TypedIsRecorded` (what was typed inside its budget is recorded before it is overdue) and `PassesAreOver` (what a pass
read of a mail that is due is not older than its record).

*Seat and close.* A launcher that is past its claim is where the row of its run says, and
the run is where the launcher is (`RowIsThere`, `LaunchersKnown`): a claim is refused while somebody holds
the lock of the run's workspace, and it moves the row. The watchdog looks for the holder there. `CloseInv` says of each
gate that its check, when it passed and saw nothing but the tip that the gate read, passed on that tree (`GateTrue`): the result
is recorded under that tip, whatever was committed while the check ran. When it saw more, the tip goes to `mixed`.

*Compaction.* `FolderInv`: unless a live job lost its folder (`disturbed`), what is in it is of the job that works
(`FolderIsOwned`); the spawn mark of a job that starts is recent (`StartIsRecent`); and before the first failure nobody's folder is
disturbed, at most one job is under way, and whoever beats is the owner of the heartbeat (`Untroubled`), which is what makes
a lost folder show in `disturbed`. With a `--foreground` command that is false: it takes no start lock, so a command that found nothing live can empty the folder
under it, and a third one start beside it. The theorem therefore assumes `InForeground = {}`; the scene *compaction* has one,
past its start, as a person who starts it from a terminal has before a scheduled one begins.

`NoJobIsLost` adds `LossInv`: a job that ended is told, or its command is about to tell, or it is still in the folder; a command that is past
its look and its claim has seen to the job it found there (`LossIsTold`); and a `lost` in the folder is about the job that is in it
(`ClaimIsTold`), as none is there when the next one comes (`ClaimIsOver`). The last is what `misclaimed` guards: `claim_lost` reads and writes without
the lock.

*Triage.* `WorkIsHeld` strengthens `OnlyGcForgets`: what was written is uncommitted in the folder, on a branch or
in a ref, without the detached head, which `astray` accounts for. A step that removes a holder (the folder, a branch, a ref, a history
that is rewritten) has looked for another one first, or moved what it held; `WorkStaysHeld` turns that into the invariant.
The rebase and the archive read histories as sequences; the lemmas about them (`SeqOfASet`, `SetOfSum`,
`SetOfPrefix`, `RebasedHas`) say what a history holds after a prefix is cut or patches are replayed.

*Session.* A record does not say who wrote it last, so `SessionInv` says who can write it now. `OneUser`: two spawners
that can both still write one record are in `shared`, since only a claim makes a spawner a user, and a claim finds its
record ended, planned or gone from its pane. `RolesAreApart`: until its brief is written the planned record of a spawner keeps
others from its role, from then on the brief does, until its worker has read it. `ErrorsFit`: a startup error that a spawner can find is of its own
worker. For a spawner that is alone with its record, `RecordsFit` then says how far the record is
for each place of the spawner and the worker (`Ladder`): `mark_starting` may come before the worker has read its brief or
after its agent ended, and must leave what it finds in all but the first case. `LeftOver` is what remains of that once the
pane is gone and the next resume may write.

### Checked, not proved

- *Liveness* (`LostRowsEnd`, `NeedIsMailed`, `DeadLockGoes`, `DeathIsAnswered`, `MailBecomesKnown`): the
  installed provers have no ENABLED.
- `OneJobInPane` and `NoJobIsForgotten` with a `--foreground` job: the scene *compaction* has one, the theorems have none (see above).
- Statements about code that breaks them (above) have no theorem.

## Not modelled

`PROJECT.json` names every component with its reason. In short: parsers and renderers (import, ticket map, status,
roster, skills), pure decisions (routing, quota, layout), wrappers of external programs (harness adapters, git, the
terminal multiplexer), one-pass cleanups, and stand-alone tools (marketplace, installers, documentation sync). SQLite
transactions are atomic steps, git commands are atomic steps with the outcomes the code distinguishes.
The finish steps other than land, the gate of a spawn, telemetry and timers have protocols of their own and are planned or open.

Hazards that no property covers yet: the drop of a lock guard that was broken at its age limit (`fsx.rs:441`), two
spawns that refuse each other (`tl/tasks.rs:1647`), a stop between the decision of a respawn and its launch
(`tl/orchestrator.rs:194`), two resumes of one record (`execution/plan.rs:218`), a commit during the check of a land
(`finish/land.rs:657`, which `Quiet` excludes).

Parts of hazards that no property covers: a spawner that dies between the insert of its row and its pane (`LostRowsEnd` is
of rows whose processes are gone, and that one has none yet); the swap of a land whose lock reached its age limit where
the run branch is not checked out (`finish/land.rs:700`); a second compaction job beside a live one whose folder was
emptied without the lock.

## Running

    tlc -workers 2 -config MCBoard.cfg MCBoard.tla
    tlapm TaskLedgerProofs.tla

