------------------------------- MODULE Compaction -------------------------------
(***************************************************************************)
(* The compaction of a worker's context (compaction/jobfile.rs, job.rs,    *)
(* heartbeat.rs, with cmd/compact.rs and cmd/context.rs).                  *)
(*                                                                         *)
(* `horch compact` looks at the row of its role, asks its guards and,      *)
(* under a start lock, clears the job folder, spawns a job and waits for   *)
(* its first step.  The job creates job.json, beats, types the compact     *)
(* line into the pane, waits for the marker in the transcript, types the   *)
(* resume line and reports.  Whoever looks at a job that was lost claims   *)
(* the loss and records it.  The folder has no owner: it is cleared under  *)
(* the lock by a start, and without it by a job that ends and by a start   *)
(* that failed.                                                            *)
(*                                                                         *)
(* One role with its folder.  A job has the name of its command.  Left     *)
(* out: the texts, the tokens and the age of the handoff, which only       *)
(* decide whether the guards pass, and --request, which starts no job.     *)
(*                                                                         *)
(* A definition under a comment that starts with "Bug:" is a mutated form  *)
(* of the one that follows; no action uses it.                             *)
(***************************************************************************)
EXTENDS Naturals, FiniteSets

CONSTANTS
    Compactor, NoCompactor,
    InForeground,   \* those that are horch compact --foreground, from a terminal
    MaxSends,       \* max_sends of the harness
    MaxTroubles     \* failed calls, kills and suspensions

ASSUME CompactionAssumption ==
    /\ NoCompactor \notin Compactor /\ InForeground \subseteq Compactor
    /\ MaxSends \in Nat \ {0} /\ MaxTroubles \in Nat

VARIABLES
    job,            \* job.json: "none", "start" or "runs", and whose it is
    heart,          \* heartbeat: whose it is, and whether it is fresh
    spawned,        \* the file spawned is there
    recent,         \* spawned, or job.json without it, is of the last 30 s
    lost,           \* the file lost is there
    startLock,
    command,        \* where each command is, and the job it looked at
    child,          \* where its job is
    sends,          \* compact lines the job typed
    told,           \* history: the jobs of which an event was recorded
    began,          \* history: the jobs that got past step start
    disturbed,      \* history: a live job lost its folder, after a trouble
    misclaimed,     \* history: a claim fell on another job than was looked at,
                    \* or while one was on its way into the folder
    unseen,         \* history: jobs that died behind the look of another
                    \* command, or whose command died before it told
    troubles

folder   == <<job, heart, spawned, recent, lost>>
jobs     == <<child, sends>>
pasts    == <<told, began, disturbed, misclaimed, unseen>>
compactVars == <<folder, startLock, command, jobs, pasts, troubles>>

NoJob   == [step |-> "none", by |-> NoCompactor]
NoHeart == [by |-> NoCompactor, fresh |-> FALSE]

Starting == {"create", "prepare", "beat"}
\* Where a job works in the pane.
InPane == {"idle", "marker", "settle", "reading"}
Exited == {"exit 0", "exit 3", "killed"}
JobAt  == {"none", "refuse", "tell", "clear"} \cup Starting \cup InPane \cup Exited

CommandAt == {"new", "claim", "guards", "lock", "check", "empty", "spawn",
              "record", "wait", "failed", "tell failed", "over"}

JobFile == [step : {"none", "start", "runs"}, by : Compactor \cup {NoCompactor}]
Heart   == [by : Compactor \cup {NoCompactor}, fresh : BOOLEAN]
Place   == [at : CommandAt, saw : Compactor \cup {NoCompactor}]

FolderTypeOK ==
    /\ job \in JobFile /\ (job.step = "none" <=> job.by = NoCompactor)
    /\ heart \in Heart
    /\ spawned \in BOOLEAN /\ recent \in BOOLEAN /\ lost \in BOOLEAN

CommandTypeOK ==
    /\ startLock \in Compactor \cup {NoCompactor}
    /\ command \in [Compactor -> Place]
    /\ \A p \in Compactor :
          /\ command[p].at \in {"check", "empty", "spawn", "record"} => startLock = p
          /\ command[p].at = "claim" => command[p].saw \in Compactor

JobTypeOK ==
    /\ child \in [Compactor -> JobAt]
    /\ sends \in [Compactor -> 0 .. MaxSends]
    /\ \A c \in Compactor : child[c] \in InPane \cup {"beat", "tell", "clear"} => c \in began

HistoryTypeOK ==
    /\ told \in SUBSET Compactor /\ began \in SUBSET Compactor /\ unseen \in SUBSET Compactor
    /\ disturbed \in BOOLEAN /\ misclaimed \in BOOLEAN
    /\ troubles \in 0 .. MaxTroubles

CompactionTypeOK == FolderTypeOK /\ CommandTypeOK /\ JobTypeOK /\ HistoryTypeOK

CompactionInit ==
    /\ job = NoJob /\ heart = NoHeart /\ spawned = FALSE
    /\ recent = FALSE /\ lost = FALSE
    /\ startLock = NoCompactor
    /\ command = [p \in Compactor |-> [at |-> "new", saw |-> NoCompactor]]
    /\ child = [p \in Compactor |-> "none"] /\ sends = [p \in Compactor |-> 0]
    /\ told = {} /\ began = {} /\ disturbed = FALSE /\ misclaimed = FALSE
    /\ unseen = {}
    /\ troubles = 0

Running(c) == c \in Compactor /\ child[c] \notin {"none"} \cup Exited

Trouble == troubles < MaxTroubles /\ troubles' = troubles + 1

CommandGoes(p, from, to) ==
    /\ command[p].at = from
    /\ command' = [command EXCEPT ![p].at = to]

JobGoes(c, from, to) ==
    /\ child[c] = from
    /\ child' = [child EXCEPT ![c] = to]

-----------------------------------------------------------------------------
(***************************************************************************)
(* liveness: a heartbeat speaks for its process; without one, a spawn or a *)
(* job.json of the last 30 s does.                                         *)
(***************************************************************************)
IsRunning ==
    IF heart.by # NoCompactor THEN heart.fresh /\ Running(heart.by)
    ELSE recent /\ (spawned \/ job.step # "none")

IsLost == ~IsRunning /\ job.step # "none"

\* clear_on_exit, of the job that ends, or of the start that failed.
ClearFolder ==
    /\ job' = NoJob /\ heart' = NoHeart /\ spawned' = FALSE
    /\ UNCHANGED <<recent, lost>>

\* A job that goes on is behind what is in the folder.
FolderIsLive == \E c \in Compactor : Running(c) /\ c \in {job.by, heart.by}

-----------------------------------------------------------------------------
(***************************************************************************)
(* schedule: the row, the guards, and the start.                           *)
(***************************************************************************)
\* build_row reads the liveness of the job; a live one ends the command.
Look(p) ==
    /\ command[p].at = "new" /\ p \notin InForeground
    /\ command' = [command EXCEPT ![p] =
          [at |-> IF IsRunning THEN "over" ELSE IF IsLost THEN "claim" ELSE "guards",
           saw |-> IF IsLost THEN job.by ELSE NoCompactor]]
    /\ UNCHANGED <<folder, startLock, jobs, pasts, troubles>>

\* claim_lost: create_new
IsFirst == ~lost

\* Its start has emptied the folder, and it is not in it yet.
OnItsWay(c) == command[c].at = "spawn" \/ child[c] = "create"

ClaimLoss(p) ==
    /\ command[p].at = "claim"
    /\ command' = [command EXCEPT ![p] = [at |-> "guards", saw |-> NoCompactor]]
    /\ lost' = TRUE
    /\ told' = IF IsFirst THEN told \cup {command[p].saw} ELSE told
    /\ misclaimed' = (misclaimed \/ job.by # command[p].saw \/ \E c \in Compactor : OnItsWay(c))
    /\ UNCHANGED <<job, heart, spawned, recent, startLock, jobs, began, disturbed, unseen,
                   troubles>>

\* target, route_and_handoff: no pane, the fresh route, a handoff
\* that is missing or older than the ask.
GuardsRefuse(p) ==
    /\ CommandGoes(p, "guards", "over")
    /\ UNCHANGED <<folder, startLock, jobs, pasts, troubles>>

GuardsPass(p) ==
    /\ CommandGoes(p, "guards", "lock")
    /\ UNCHANGED <<folder, startLock, jobs, pasts, troubles>>

\* Bug: a start does not wait for another one.
NeverWaits == TRUE

StartLockIsFree == startLock = NoCompactor

\* start_locked
TakeStartLock(p) ==
    /\ StartLockIsFree
    /\ CommandGoes(p, "lock", "check")
    /\ startLock' = p
    /\ UNCHANGED <<folder, jobs, pasts, troubles>>

StartTimesOut(p) ==
    /\ ~StartLockIsFree
    /\ Trouble
    /\ CommandGoes(p, "lock", "failed")
    /\ UNCHANGED <<folder, startLock, jobs, pasts>>

\* Bug: only a job that beats is live, not one that was just spawned.
Beats == heart.by # NoCompactor /\ IsRunning

LiveNow == IsRunning

\* Live: already running.
CheckAgain(p) ==
    /\ CommandGoes(p, "check", IF LiveNow THEN "over" ELSE "empty")
    /\ startLock' = IF LiveNow THEN NoCompactor ELSE p
    /\ UNCHANGED <<folder, jobs, pasts, troubles>>

\* Bug: the claim of the last job stays.
LostStays == lost

LostGoes == FALSE

EmptyFolder(p) ==
    /\ CommandGoes(p, "empty", "spawn")
    /\ job' = NoJob /\ heart' = NoHeart /\ spawned' = FALSE
    /\ lost' = LostGoes
    /\ disturbed' = (disturbed \/ (FolderIsLive /\ troubles > 0))
    /\ UNCHANGED <<recent, startLock, jobs, told, began, misclaimed, unseen, troubles>>

SpawnJob(p) ==
    /\ CommandGoes(p, "spawn", "record")
    /\ child' = [child EXCEPT ![p] = "create"]
    /\ UNCHANGED <<folder, startLock, sends, pasts, troubles>>

SpawnFails(p) ==
    /\ Trouble
    /\ CommandGoes(p, "spawn", "failed")
    /\ startLock' = NoCompactor
    /\ UNCHANGED <<folder, jobs, pasts>>

\* record_spawn, after which the lock is free; the write can fail.
RecordSpawn(p) ==
    /\ startLock' = NoCompactor
    /\ \/ /\ CommandGoes(p, "record", "wait")
          /\ spawned' = TRUE /\ recent' = TRUE
          /\ UNCHANGED troubles
       \/ /\ CommandGoes(p, "record", "failed")
          /\ Trouble
          /\ UNCHANGED <<spawned, recent>>
    /\ UNCHANGED <<job, heart, lost, jobs, pasts>>

\* The handshake: job.json is past step start, whoever wrote it, or the job
\* exited; an exit of 0 or 3 is no failure of the start.
Handshake(p) ==
    /\ command[p].at = "wait"
    /\ \/ /\ job.step = "runs" \/ child[p] \in {"exit 0", "exit 3"}
          /\ CommandGoes(p, "wait", "over")
       \/ /\ job.step # "runs" /\ child[p] = "killed"
          /\ CommandGoes(p, "wait", "failed")
    /\ UNCHANGED <<folder, startLock, jobs, pasts, troubles>>

\* timed_out: the job did not start in 30 s.
KillSlowJob(p) ==
    /\ command[p].at = "wait" /\ child[p] \in Starting
    /\ Trouble
    /\ CommandGoes(p, "wait", "failed")
    /\ child' = [child EXCEPT ![p] = "killed"]
    /\ UNCHANGED <<folder, startLock, sends, pasts>>

\* start_failed: clear the folder, record compact-failed.
ClearFailedStart(p) ==
    /\ CommandGoes(p, "failed", "tell failed")
    /\ ClearFolder
    /\ disturbed' = (disturbed \/ FolderIsLive)
    /\ UNCHANGED <<startLock, jobs, told, began, misclaimed, unseen, troubles>>

TellFailedStart(p) ==
    /\ CommandGoes(p, "tell failed", "over")
    /\ told' = told \cup {p}
    /\ UNCHANGED <<folder, startLock, jobs, began, disturbed, misclaimed, unseen, troubles>>

\* The command is killed; a lock of a dead process is free (module DirLock).
CommandDies(p) ==
    /\ command[p].at \notin {"new", "over"}
    /\ Trouble
    /\ command' = [command EXCEPT ![p] = [at |-> "over", saw |-> NoCompactor]]
    /\ startLock' = IF startLock = p THEN NoCompactor ELSE startLock
    /\ unseen' = IF command[p].at \in {"failed", "tell failed"} THEN unseen \cup {p} ELSE unseen
    /\ UNCHANGED <<folder, jobs, told, began, disturbed, misclaimed>>

-----------------------------------------------------------------------------
\* job.json as c writes it; without spawned its file time counts.
WriteJob(c, step) ==
    /\ job' = [step |-> step, by |-> c]
    /\ recent' = (recent \/ ~spawned)

(***************************************************************************)
(* The job.                                                                *)
(***************************************************************************)
\* --foreground: no look, no start.
Foreground(p) ==
    /\ p \in InForeground
    /\ CommandGoes(p, "new", "over")
    /\ child' = [child EXCEPT ![p] = "create"]
    /\ UNCHANGED <<folder, startLock, sends, pasts, troubles>>

\* create_job: create_new; a second job ends without an event.
CreateJob(c) ==
    /\ child[c] = "create"
    /\ IF job.step # "none"
       THEN JobGoes(c, "create", "exit 0") /\ UNCHANGED <<job, recent>>
       ELSE JobGoes(c, "create", "prepare") /\ WriteJob(c, "start")
    /\ UNCHANGED <<heart, spawned, lost, startLock, command, sends, pasts, troubles>>

\* prepare: the guards again, the plan, and the first step, which makes the
\* file anew if it is gone.
Prepare(c) ==
    /\ JobGoes(c, "prepare", "beat")
    /\ WriteJob(c, "runs")
    /\ began' = began \cup {c}
    /\ UNCHANGED <<heart, spawned, lost, startLock, command, sends, told, disturbed,
                   misclaimed, unseen, troubles>>

PrepareRefuses(c) ==
    /\ JobGoes(c, "prepare", "refuse")
    /\ ClearFolder
    /\ UNCHANGED <<startLock, command, sends, pasts, troubles>>

RefuseJob(c) ==
    /\ JobGoes(c, "refuse", "exit 3")
    /\ told' = told \cup {c}
    /\ UNCHANGED <<folder, startLock, command, sends, began, disturbed, misclaimed, unseen,
                   troubles>>

\* heartbeat::start returns with the first beat written.
StartHeart(c) ==
    /\ JobGoes(c, "beat", "idle")
    /\ heart' = [by |-> c, fresh |-> TRUE]
    /\ UNCHANGED <<job, spawned, recent, lost, startLock, command, sends, pasts, troubles>>

\* The thread beats every 2 s, and each new step writes job.json.
BeatAgain(c) ==
    /\ child[c] \in InPane \cup {"tell", "clear"}
    /\ heart # [by |-> c, fresh |-> TRUE]
    /\ heart' = [by |-> c, fresh |-> TRUE]
    /\ UNCHANGED <<job, spawned, recent, lost, startLock, command, jobs, pasts, troubles>>

StepInPane(c, from, to) ==
    /\ JobGoes(c, from, to)
    /\ WriteJob(c, "runs")
    /\ UNCHANGED <<heart, spawned, lost, startLock, command, pasts, troubles>>

\* send_until_marker: wait_idle, send, await_marker; then resume, which waits
\* for idle, restores the mode and types, and wait_post_tokens.
SendCompact(c)  == StepInPane(c, "idle", "marker") /\ sends' = [sends EXCEPT ![c] = @ + 1]
SendAgain(c)    == sends[c] < MaxSends /\ StepInPane(c, "marker", "idle") /\ UNCHANGED sends
SeeMarker(c)    == StepInPane(c, "marker", "settle") /\ UNCHANGED sends
TypeResume(c)   == StepInPane(c, "settle", "reading") /\ UNCHANGED sends
ReadTokens(c)   == StepInPane(c, "reading", "tell") /\ UNCHANGED sends

\* Each failure of a call, and each timeout, ends the job.
JobFails(c) ==
    /\ child[c] \in InPane \ {"reading"}
    /\ StepInPane(c, child[c], "tell") /\ UNCHANGED sends

\* Every end records an event and reports.
TellEnd(c) ==
    /\ JobGoes(c, "tell", "clear")
    /\ told' = told \cup {c}
    /\ UNCHANGED <<folder, startLock, command, sends, began, disturbed, misclaimed, unseen,
                   troubles>>

ClearAndExit(c) ==
    /\ child[c] = "clear"
    /\ \E code \in {"exit 0", "exit 3"} : JobGoes(c, "clear", code)
    /\ ClearFolder
    /\ UNCHANGED <<startLock, command, sends, pasts, troubles>>

\* Another command is past its look at the row.
AnotherStarts(c) == \E p \in Compactor \ {c} : command[p].at \notin {"new", "over"}

JobDies(c) ==
    /\ Running(c)
    /\ Trouble
    /\ child' = [child EXCEPT ![c] = "killed"]
    /\ unseen' = IF AnotherStarts(c) THEN unseen \cup {c} ELSE unseen
    /\ UNCHANGED <<folder, startLock, command, sends, told, began, disturbed, misclaimed>>

-----------------------------------------------------------------------------
(***************************************************************************)
(* Time.                                                                   *)
(***************************************************************************)
\* 30 s after a spawn its job beats, or it is over, and so is its command.
SpawnAges ==
    /\ recent
    /\ \A p \in Compactor : command[p].at \notin {"wait", "failed"} /\ child[p] \notin Starting
    /\ recent' = FALSE
    /\ UNCHANGED <<job, heart, spawned, lost, startLock, command, jobs, pasts, troubles>>

\* A machine that slept: the first reader is earlier than the next beat.
HeartAges ==
    /\ heart.fresh
    /\ Trouble
    /\ heart' = [heart EXCEPT !.fresh = FALSE]
    /\ UNCHANGED <<job, spawned, recent, lost, startLock, command, jobs, pasts>>

-----------------------------------------------------------------------------
CommandStep(p) ==
    \/ Look(p) \/ ClaimLoss(p) \/ GuardsRefuse(p) \/ GuardsPass(p)
    \/ TakeStartLock(p) \/ StartTimesOut(p) \/ CheckAgain(p) \/ EmptyFolder(p)
    \/ SpawnJob(p) \/ SpawnFails(p) \/ RecordSpawn(p)
    \/ Handshake(p) \/ KillSlowJob(p) \/ ClearFailedStart(p) \/ TellFailedStart(p)

JobStep(c) ==
    \/ CreateJob(c) \/ Prepare(c) \/ PrepareRefuses(c) \/ RefuseJob(c)
    \/ StartHeart(c) \/ BeatAgain(c)
    \/ SendCompact(c) \/ SendAgain(c) \/ SeeMarker(c) \/ TypeResume(c) \/ ReadTokens(c)
    \/ JobFails(c)
    \/ TellEnd(c) \/ ClearAndExit(c)

CompactionNext ==
    \/ \E p \in Compactor :
          \/ CommandStep(p) \/ CommandDies(p) \/ Foreground(p)
          \/ JobStep(p) \/ JobDies(p)
    \/ SpawnAges \/ HeartAges

CompactionSpec == CompactionInit /\ [][CompactionNext]_compactVars

-----------------------------------------------------------------------------
(***************************************************************************)
(* Properties.                                                             *)
(***************************************************************************)
\* Two jobs never type into one pane, unless a live job lost its folder: to a
\* start that failed, or to one that took it for lost.
OneJobInPane ==
    disturbed \/ \A c, d \in Compactor : {child[c], child[d]} \subseteq InPane => c = d

\* A job that got past its start and is gone from its folder was recorded, as
\* compacted or as failed, by itself, by its command or by whoever cleared
\* after it; unless a claim fell on the job that came next, or before that
\* job was there.
NoJobIsForgotten ==
    disturbed \/ misclaimed \/
    \A c \in began \ unseen :
        child[c] \in Exited /\ job.by # c /\ command[c].at \notin {"failed", "tell failed"}
            => c \in told
==============================================================================
