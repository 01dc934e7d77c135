-------------------------------- MODULE Session --------------------------------
(***************************************************************************)
(* The session record of a worker, from the spawn to `horch done`          *)
(* (execution/service.rs, store.rs, records.rs, lifecycle.rs, with         *)
(* cmd/spawn.rs and cmd/messaging.rs).                                     *)
(*                                                                         *)
(* A spawner closes what others abandoned, takes a role and a record,      *)
(* writes the brief of the role, splits a pane, runs the worker there and  *)
(* waits for it.  The worker reads the brief, registers the role, runs its *)
(* agent and records its exit.  The agent runs `horch done`, which reports *)
(* and closes the pane, and with it everybody in it.  A record that ended  *)
(* can be resumed.  Each of them writes the record in transactions of its  *)
(* own, in an order that nobody enforces.                                  *)
(*                                                                         *)
(* A pane, and the worker in it, has the name of its spawner.  All is in   *)
(* one workspace.  Left out: the worktree claims that make `done` refuse   *)
(* (vcs/landing.rs), a failed write of the record, and the state sweep,    *)
(* whose end of a record is that of a resume.                              *)
(*                                                                         *)
(* A definition under a comment that starts with "Bug:" is a mutated form  *)
(* of the one that follows; no action uses it.                             *)
(***************************************************************************)
EXTENDS Naturals, FiniteSets

CONSTANTS
    Spawner, NoSpawner,
    Record, NoRecord,
    Role

\* A startup error is kept under record-<id> or under pane-<pane>.
ASSUME SessionAssumption ==
    /\ NoSpawner \notin Spawner /\ NoRecord \notin Record
    /\ Record \cap Spawner = {}

VARIABLES
    record,         \* the session records
    spawner,        \* where each spawner is, and what it spawns
    pane,           \* "none", "open" or "closed"
    worker,         \* where the worker in the pane is
    loaded,         \* the brief it loaded: the spawner that wrote it
    doing,          \* where the `horch done` in the pane is
    roleId, brief,  \* the mailbox: the pane of each role, who wrote its brief
    startError,     \* startup-errors/, by record or pane: the spawners it is new for
    reported, informed, \* history: who queued a report, told the orchestrator
    late,           \* history: one that starts was given up, or lost its role
    shared          \* history: records that two spawners had at a time

mailbox   == <<roleId, brief>>
inPane    == <<pane, worker, loaded, doing>>
histories == <<reported, informed, late, shared>>
sessionVars == <<record, spawner, inPane, mailbox, startError, histories>>

Live    == {"starting", "running"}
EndedAs == {"done", "failed", "launch failed"}

NoState == [state |-> "none", pane |-> NoSpawner, role |-> "none", old |-> FALSE, summed |-> FALSE]

\* Where a spawner has its record and is not through.
Spawning == {"brief", "split", "run", "mark", "wait", "failed", "clean"}
\* Where the agent of a worker has run.
Ran == {"exited", "tell", "left"}

SpawnerAt == {"new", "look", "vanish", "check", "recover", "free", "claim", "over", "dead"} \cup Spawning
WorkerAt  == {"none", "load", "register", "set running", "launch", "agent", "error", "close", "killed"} \cup Ran
DoneAt    == {"none", "report", "mark", "unregister", "close"}

RecordData  == [state : {"none", "planned"} \cup Live \cup EndedAs, pane : Spawner \cup {NoSpawner},
                role : Role \cup {"none"}, old : BOOLEAN, summed : BOOLEAN]
SpawnerData == [at : SpawnerAt, rec : Record \cup {NoRecord}, role : Role \cup {"none"},
                resumes : BOOLEAN, frees : SUBSET (Role \cup {"none"})]

SessionTypeOK ==
    /\ record \in [Record -> RecordData]
    /\ spawner \in [Spawner -> SpawnerData]
    /\ pane \in [Spawner -> {"none", "open", "closed"}]
    /\ worker \in [Spawner -> WorkerAt]
    /\ \A s \in Spawner : worker[s] \notin {"none", "killed", "left"} => pane[s] = "open"
    /\ loaded \in [Spawner -> Spawner \cup {NoSpawner}]
    /\ doing \in [Spawner -> DoneAt]
    /\ roleId \in [Role -> Spawner \cup {NoSpawner}]
    /\ brief \in [Role -> Spawner \cup {NoSpawner}]
    /\ startError \in [Record \cup Spawner -> SUBSET Spawner]
    /\ reported \subseteq Spawner /\ informed \subseteq Spawner
    /\ late \in BOOLEAN /\ shared \subseteq Record

SessionInit ==
    /\ record = [r \in Record |-> NoState]
    /\ spawner = [s \in Spawner |-> [at |-> "new", rec |-> NoRecord, role |-> "none",
                                     resumes |-> FALSE, frees |-> {}]]
    /\ pane = [s \in Spawner |-> "none"]
    /\ worker = [s \in Spawner |-> "none"]
    /\ loaded = [s \in Spawner |-> NoSpawner]
    /\ doing = [s \in Spawner |-> "none"]
    /\ roleId = [o \in Role |-> NoSpawner] /\ brief = [o \in Role |-> NoSpawner]
    /\ startError = [k \in Record \cup Spawner |-> {}]
    /\ reported = {} /\ informed = {} /\ late = FALSE /\ shared = {}

-----------------------------------------------------------------------------
(***************************************************************************)
(* Shared steps.                                                           *)
(***************************************************************************)
SpawnerGoes(s, from, to) ==
    /\ spawner[s].at = from
    /\ spawner' = [spawner EXCEPT ![s].at = to]

WorkerGoes(w, from, to) ==
    /\ worker[w] = from
    /\ worker' = [worker EXCEPT ![w] = to]

\* Every write stamps updated_at.
Writes(r, state) == record' = [record EXCEPT ![r] = [@ EXCEPT !.state = state, !.old = FALSE]]

\* It has its role, and its worker has not read the brief.
Awaits(k) == spawner[k].at \in {"brief", "split", "run"} \/ worker[k] = "load"

\* Mailbox::unregister, by s.
Unregister(s, roles) ==
    /\ roleId' = [o \in Role |-> IF o \in roles THEN NoSpawner ELSE roleId[o]]
    /\ brief' = [o \in Role |-> IF o \in roles THEN NoSpawner ELSE brief[o]]
    /\ late' = (late \/ \E k \in Spawner \ {s} : Awaits(k) /\ spawner[k].role \in roles)
    /\ UNCHANGED <<reported, informed, shared>>

\* Bug: an agent outlives its pane.
Detached == {"none", "left", "agent"}

Apart == {"none", "left"}

\* The pane takes the worker, its agent and its `done` with it.
ClosePane(w) ==
    /\ pane' = [pane EXCEPT ![w] = "closed"]
    /\ worker' = [worker EXCEPT ![w] = IF @ \in Apart THEN @ ELSE "killed"]
    /\ doing' = [doing EXCEPT ![w] = "none"]
    /\ UNCHANGED loaded

\* The worker process ends: the pane line is an exec.
Leaves(w, from) ==
    /\ worker[w] = from
    /\ worker' = [worker EXCEPT ![w] = "left"]
    /\ pane' = [pane EXCEPT ![w] = "closed"]
    /\ doing' = [doing EXCEPT ![w] = "none"]
    /\ UNCHANGED loaded

RecordOf(w) == spawner[loaded[w]].rec

-----------------------------------------------------------------------------
(***************************************************************************)
(* horch spawn, up to the record.                                          *)
(***************************************************************************)
SpawnFresh(s, r, o) ==
    /\ spawner[s].at = "new"
    /\ record[r].state = "none" /\ \A k \in Spawner : spawner[k].rec # r
    /\ spawner' = [spawner EXCEPT ![s] = [@ EXCEPT !.at = "recover", !.rec = r, !.role = o]]
    /\ UNCHANGED <<record, inPane, mailbox, startError, histories>>

Resume(s, r, o) ==
    /\ spawner[s].at = "new"
    /\ record[r].state # "none"
    /\ spawner' = [spawner EXCEPT ![s] =
                     [@ EXCEPT !.at = "look", !.rec = r, !.role = o, !.resumes = TRUE]]
    /\ UNCHANGED <<record, inPane, mailbox, startError, histories>>

Working(r) == record[r].state \in {"planned"} \cup Live
PaneIsGone(r) == record[r].pane # NoSpawner /\ pane[record[r].pane] = "closed"

\* end_if_pane_closed: the read, and the pane.
LookForPane(s) ==
    LET r == spawner[s].rec
    IN  /\ spawner[s].at = "look"
        /\ SpawnerGoes(s, "look", IF Working(r) /\ PaneIsGone(r) THEN "vanish" ELSE "check")
        /\ UNCHANGED <<record, inPane, mailbox, startError, histories>>

\* mark_pane_vanished asks for the status again, but for no pane.
MarkVanished(s) ==
    LET r == spawner[s].rec
    IN  /\ SpawnerGoes(s, "vanish", "check")
        /\ IF Working(r) THEN Writes(r, "failed") ELSE UNCHANGED record
        /\ shared' = IF PaneIsGone(r) THEN shared ELSE shared \cup {r}
        /\ UNCHANGED <<inPane, mailbox, startError, reported, informed, late>>

\* check_resumable refuses a record that is still working.
CheckResumable(s) ==
    /\ spawner[s].at = "check"
    /\ SpawnerGoes(s, "check", IF Working(spawner[s].rec) THEN "over" ELSE "recover")
    /\ UNCHANGED <<record, inPane, mailbox, startError, histories>>

Abandoned == {r \in Record : record[r].state = "planned" /\ record[r].pane = NoSpawner /\ record[r].old}

\* It still spawns, or its worker still starts.
AtWork(k) == spawner[k].at \in Spawning \/ worker[k] \in {"load", "register", "set running"}

\* recover_abandoned, and then the roles of what it closed.
RecoverAbandoned(s) ==
    /\ spawner[s].at = "recover"
    /\ record' = [r \in Record |->
                    IF r \in Abandoned THEN [record[r] EXCEPT !.state = "launch failed", !.old = FALSE]
                    ELSE record[r]]
    /\ spawner' = [spawner EXCEPT ![s] =
                     [@ EXCEPT !.at = IF Abandoned = {} THEN "claim" ELSE "free",
                               !.frees = {record[r].role : r \in Abandoned}]]
    /\ late' = (late \/ \E k \in Spawner : spawner[k].rec \in Abandoned /\ AtWork(k))
    /\ UNCHANGED <<inPane, mailbox, startError, reported, informed, shared>>

FreeRoles(s) ==
    /\ spawner[s].at = "free"
    /\ Unregister(s, spawner[s].frees)
    /\ spawner' = [spawner EXCEPT ![s] = [@ EXCEPT !.at = "claim", !.frees = {}]]
    /\ UNCHANGED <<record, inPane, startError>>

\* Bug: only the mailbox is asked.
InMailbox(o) == roleId[o] # NoSpawner \/ brief[o] # NoSpawner

\* role_taken and planned_role
RoleTaken(o) ==
    \/ roleId[o] # NoSpawner \/ brief[o] # NoSpawner
    \/ \E r \in Record : record[r].state = "planned" /\ record[r].role = o

\* claim, in one transaction; upsert of a resume asks for no status.
Claim(s) ==
    LET r == spawner[s].rec
        o == spawner[s].role
    IN  /\ spawner[s].at = "claim"
        /\ SpawnerGoes(s, "claim", IF RoleTaken(o) THEN "over" ELSE "brief")
        /\ IF RoleTaken(o) THEN UNCHANGED <<record, shared>>
           ELSE /\ record' = [record EXCEPT ![r] = [NoState EXCEPT !.state = "planned", !.role = o]]
                /\ shared' = IF \E k \in Spawner \ {s} :
                                   spawner[k].rec = r
                                     /\ (spawner[k].at \in Spawning \/ pane[k] = "open")
                             THEN shared \cup {r} ELSE shared
        /\ UNCHANGED <<inPane, mailbox, startError, reported, informed, late>>

-----------------------------------------------------------------------------
(***************************************************************************)
(* launch_stages, mark_starting, and the wait for the worker.              *)
(***************************************************************************)
WriteBrief(s) ==
    /\ SpawnerGoes(s, "brief", "split")
    /\ brief' = [brief EXCEPT ![spawner[s].role] = s]
    /\ UNCHANGED <<record, inPane, roleId, startError, histories>>

SplitPane(s) ==
    /\ SpawnerGoes(s, "split", "run")
    /\ pane' = [pane EXCEPT ![s] = "open"]
    /\ UNCHANGED <<record, worker, loaded, doing, mailbox, startError, histories>>

RunInPane(s) ==
    /\ pane[s] = "open"
    /\ SpawnerGoes(s, "run", "mark")
    /\ worker' = [worker EXCEPT ![s] = "load"]
    /\ UNCHANGED <<record, pane, loaded, doing, mailbox, startError, histories>>

StageFails(s) ==
    /\ spawner[s].at \in {"brief", "split", "run"}
    /\ SpawnerGoes(s, spawner[s].at, "failed")
    /\ UNCHANGED <<record, inPane, mailbox, startError, histories>>

\* Bug: the worker may have touched it already.
AlwaysStarting(r) == TRUE

Untouched(r) == record[r].state \in {"planned", "launch failed"}

\* mark_starting, after the worker could run for any time.
MarkStarting(s) ==
    LET r == spawner[s].rec
    IN  /\ SpawnerGoes(s, "mark", "wait")
        /\ record' = [record EXCEPT ![r] =
                        [@ EXCEPT !.pane = s, !.old = FALSE,
                                  !.state = IF Untouched(r) THEN "starting" ELSE record[r].state]]
        /\ UNCHANGED <<inPane, mailbox, startError, histories>>

FoundError(s) == s \in startError[spawner[s].rec] \cup startError[s]

\* await_worker: an error that an earlier worker left is deleted and ignored.
AwaitWorker(s) ==
    /\ spawner[s].at = "wait"
    /\ \/ FoundError(s) /\ SpawnerGoes(s, "wait", "failed")
       \/ /\ ~FoundError(s)
          /\ roleId[spawner[s].role] = s
          /\ SpawnerGoes(s, "wait", "over")
    /\ startError' = [startError EXCEPT ![spawner[s].rec] = {}, ![s] = {}]
    /\ UNCHANGED <<record, inPane, mailbox, histories>>

\* The wait ends, after seconds, without either; the worker can still start.
AwaitEnds(s) ==
    /\ spawner[s].at = "wait"
    /\ ~FoundError(s) /\ worker[s] # "error"
    /\ SpawnerGoes(s, "wait", "over")
    /\ UNCHANGED <<record, inPane, mailbox, startError, histories>>

\* launch_failed and record_failed_start: end_live, the pane, the role.
EndLaunch(s) ==
    LET r == spawner[s].rec
    IN  /\ SpawnerGoes(s, "failed", "clean")
        /\ IF Working(r) THEN Writes(r, "launch failed") ELSE UNCHANGED record
        /\ UNCHANGED <<inPane, mailbox, startError, histories>>

CleanUp(s) ==
    /\ SpawnerGoes(s, "clean", "over")
    /\ IF pane[s] = "open" THEN ClosePane(s) ELSE UNCHANGED inPane
    /\ Unregister(s, {spawner[s].role})
    /\ UNCHANGED <<record, startError>>

SpawnerDies(s) ==
    /\ spawner[s].at \in Spawning
    /\ SpawnerGoes(s, spawner[s].at, "dead")
    /\ UNCHANGED <<record, inPane, mailbox, startError, histories>>

-----------------------------------------------------------------------------
(***************************************************************************)
(* run_worker.                                                             *)
(***************************************************************************)
\* Without a brief nothing is recorded; the error is left under the pane.
LoadBrief(w) ==
    /\ worker[w] = "load"
    /\ LET b == brief[spawner[w].role]
       IN  IF b = NoSpawner
           THEN /\ Leaves(w, "load")
                /\ startError' = [startError EXCEPT ![w] = {w}]
           ELSE /\ WorkerGoes(w, "load", "register")
                /\ loaded' = [loaded EXCEPT ![w] = b]
                /\ UNCHANGED <<pane, doing, startError>>
    /\ UNCHANGED <<record, spawner, mailbox, histories>>

RegisterRole(w) ==
    /\ WorkerGoes(w, "register", "set running")
    /\ roleId' = [roleId EXCEPT ![spawner[w].role] = w]
    /\ UNCHANGED <<record, spawner, pane, loaded, doing, brief, startError, histories>>

\* record_exit ends a record that is live.
RecordExit(w) ==
    LET r == RecordOf(w)
    IN  IF record[r].state \in Live
        THEN \E state \in {"done", "failed"} : Writes(r, state)
        ELSE Writes(r, record[r].state)

\* enter_context or register fails: fail_startup.
StartupFails(w) ==
    /\ WorkerGoes(w, "register", "error")
    /\ LET r == RecordOf(w)
       IN  Writes(r, IF record[r].state \in Live THEN "failed" ELSE record[r].state)
    /\ UNCHANGED <<spawner, pane, loaded, doing, mailbox, startError, histories>>

LeaveStartError(w) ==
    /\ WorkerGoes(w, "error", "close")
    /\ startError' = [startError EXCEPT ![RecordOf(w)] = {s \in Spawner : spawner[s].at # "new"}]
    /\ shared' = IF \E s \in Spawner \ {w} : spawner[s].at # "new" /\ spawner[s].rec = RecordOf(w)
                 THEN shared \cup {RecordOf(w)} ELSE shared
    /\ UNCHANGED <<record, spawner, pane, loaded, doing, mailbox, reported, informed, late>>

CloseOwnPane(w) ==
    /\ Leaves(w, "close")
    /\ UNCHANGED <<record, spawner, mailbox, startError, histories>>

\* Bug: every end is kept, that of a recovery too.
AnyEnd(r) == record[r].state \in EndedAs

EndsIt(r) == record[r].state \in {"done", "failed"}

\* mark_running
SetRunning(w) ==
    LET r == RecordOf(w)
    IN  /\ WorkerGoes(w, "set running", "launch")
        /\ IF EndsIt(r) THEN UNCHANGED record ELSE Writes(r, "running")
        /\ UNCHANGED <<spawner, pane, loaded, doing, mailbox, startError, histories>>

LaunchAgent(w) ==
    /\ WorkerGoes(w, "launch", "agent")
    /\ UNCHANGED <<record, spawner, pane, loaded, doing, mailbox, startError, histories>>

\* The agent does not start: its exit is recorded, and nobody is told.
AgentFailsToStart(w) ==
    /\ Leaves(w, "launch")
    /\ RecordExit(w)
    /\ UNCHANGED <<spawner, mailbox, startError, histories>>

EndedItNow(w) == record[RecordOf(w)].state \in Live

\* agent_exited: it tells when record_exit ended the record.
AgentExited(w) ==
    /\ worker[w] = "agent"
    /\ RecordExit(w)
    /\ WorkerGoes(w, "agent", IF EndedItNow(w) THEN "tell" ELSE "exited")
    /\ UNCHANGED <<spawner, pane, loaded, doing, mailbox, startError, histories>>

TellEarlyExit(w) ==
    /\ WorkerGoes(w, "tell", "exited")
    /\ informed' = informed \cup {w}
    /\ UNCHANGED <<record, spawner, pane, loaded, doing, mailbox, startError, reported, late, shared>>

WorkerEnds(w) ==
    /\ Leaves(w, "exited")
    /\ UNCHANGED <<record, spawner, mailbox, startError, histories>>

-----------------------------------------------------------------------------
(***************************************************************************)
(* horch done, which the agent runs, and runs again.                       *)
(***************************************************************************)
DoneGoes(w, from, to) ==
    /\ doing[w] = from
    /\ doing' = [doing EXCEPT ![w] = to]

\* done_recorded
StartDone(w) ==
    /\ worker[w] = "agent"
    /\ doing[w] = "none"
    /\ DoneGoes(w, "none", IF record[RecordOf(w)].summed THEN "unregister" ELSE "report")
    /\ UNCHANGED <<record, spawner, pane, worker, loaded, mailbox, startError, histories>>

\* Bug: a report that is not queued is reported later.
GoesOn == "mark"

Refuses == "none"

QueueReport(w) ==
    /\ \/ DoneGoes(w, "report", "mark") /\ reported' = reported \cup {w}
       \/ DoneGoes(w, "report", Refuses) /\ UNCHANGED reported
    /\ UNCHANGED <<record, spawner, pane, worker, loaded, mailbox, startError, informed, late, shared>>

\* SessionLedger::done: a record that ended keeps how it ended.
MarkDone(w) ==
    LET r == RecordOf(w)
    IN  /\ DoneGoes(w, "mark", "unregister")
        /\ record' = [record EXCEPT ![r] =
                        [@ EXCEPT !.summed = TRUE, !.old = FALSE,
                                  !.state = IF record[r].state \in EndedAs THEN record[r].state ELSE "done"]]
        /\ UNCHANGED <<spawner, pane, worker, loaded, mailbox, startError, histories>>

DoneUnregisters(w) ==
    /\ DoneGoes(w, "unregister", "close")
    /\ Unregister(w, {spawner[w].role})
    /\ UNCHANGED <<record, spawner, pane, worker, loaded, startError>>

DoneCloses(w) ==
    /\ doing[w] = "close"
    /\ ClosePane(w)
    /\ UNCHANGED <<record, spawner, mailbox, startError, histories>>

\* The command timeout of the agent, or a herdr that does not answer.
DoneStops(w) ==
    /\ doing[w] # "none"
    /\ DoneGoes(w, doing[w], "none")
    /\ UNCHANGED <<record, spawner, pane, worker, loaded, mailbox, startError, histories>>

-----------------------------------------------------------------------------
(***************************************************************************)
(* The operator closes a pane; ABANDONED_AFTER passes.                     *)
(***************************************************************************)
PaneCloses(w) ==
    /\ pane[w] = "open"
    /\ ClosePane(w)
    /\ UNCHANGED <<record, spawner, mailbox, startError, histories>>

FiveMinutes(r) ==
    /\ record[r].state = "planned" /\ ~record[r].old
    /\ record' = [record EXCEPT ![r].old = TRUE]
    /\ UNCHANGED <<spawner, inPane, mailbox, startError, histories>>

-----------------------------------------------------------------------------
SpawnerStep(s) ==
    \/ LookForPane(s) \/ MarkVanished(s) \/ CheckResumable(s)
    \/ RecoverAbandoned(s) \/ FreeRoles(s) \/ Claim(s)
    \/ WriteBrief(s) \/ SplitPane(s) \/ RunInPane(s) \/ StageFails(s)
    \/ MarkStarting(s) \/ AwaitWorker(s) \/ AwaitEnds(s)
    \/ EndLaunch(s) \/ CleanUp(s)

WorkerStep(w) ==
    \/ LoadBrief(w) \/ RegisterRole(w) \/ StartupFails(w)
    \/ LeaveStartError(w) \/ CloseOwnPane(w)
    \/ SetRunning(w) \/ LaunchAgent(w) \/ AgentFailsToStart(w)
    \/ AgentExited(w) \/ TellEarlyExit(w) \/ WorkerEnds(w)

DoneStep(w) ==
    \/ StartDone(w) \/ QueueReport(w) \/ MarkDone(w)
    \/ DoneUnregisters(w) \/ DoneCloses(w) \/ DoneStops(w)

SessionNext ==
    \/ \E s \in Spawner :
          \/ \E r \in Record, o \in Role : SpawnFresh(s, r, o) \/ Resume(s, r, o)
          \/ SpawnerStep(s) \/ SpawnerDies(s)
          \/ WorkerStep(s) \/ DoneStep(s)
          \/ PaneCloses(s)
    \/ \E r \in Record : FiveMinutes(r)

SessionSpec == SessionInit /\ [][SessionNext]_sessionVars

-----------------------------------------------------------------------------
(***************************************************************************)
(* Properties.                                                             *)
(***************************************************************************)
\* Nobody else runs, or is spawned, for the record of w.
Own(w) ==
    /\ loaded[w] = w /\ RecordOf(w) \notin shared
    /\ \A v \in Spawner : loaded[v] \in {v, NoSpawner}

\* A worker runs the brief of its own spawner: two spawners never have one role
\* at a time, unless one was given up, or its role freed by another one, while
\* its worker had not read the brief, or two of them had one record.
BriefIsItsOwn ==
    late \/ shared # {} \/ \A w \in Spawner : loaded[w] \in {w, NoSpawner}

\* While an agent runs that is the only one of its record, the record says so
\* (starting or running), or it holds the agent's summary: whatever its spawner,
\* a recovery or a failed wait write, and whenever they write it.
AgentIsLive ==
    \A w \in Spawner :
        worker[w] = "agent" /\ Own(w)
            => record[RecordOf(w)].state \in Live \/ record[RecordOf(w)].summed

\* architecture.md: no phantom-live record.  A worker that loaded its brief and
\* left does not stay live in its record once its spawner is through with it.
LeftIsEnded ==
    \A w \in Spawner :
        worker[w] = "left" /\ spawner[w].at = "over" /\ Own(w)
            => \/ record[RecordOf(w)].pane # w
               \/ record[RecordOf(w)].state \notin Live

\* The orchestrator knows of every agent that left: its report is queued, or
\* its worker told.  A record has its summary only after the report.
LeftIsKnown ==
    /\ \A w \in Spawner : worker[w] = "exited" /\ Own(w) => w \in reported \cup informed
    /\ \A w \in Spawner : doing[w] \in {"mark"} => w \in reported

==============================================================================
