---------------------------------- MODULE Seat ----------------------------------
(***************************************************************************)
(* The seat of a run: which orchestrator runs it, in which workspace       *)
(* (taskledger/orchestrator.rs, with cmd/recipes.rs, cmd/taskledger.rs and *)
(* cmd/taskledger_watch.rs).                                               *)
(*                                                                         *)
(* A launcher takes the lock of its workspace, chooses a run, claims it,   *)
(* writes the route of its workspace and runs its agent with the lock      *)
(* held.  The watchdog of a run checks its orchestrator row: it records    *)
(* the holder of the lock, and answers a confirmed death, or a respawn     *)
(* that did not start, with a launch, a few times, ten minutes apart.  The *)
(* operator stops, closes and launches meanwhile.                          *)
(*                                                                         *)
(* A launcher is a number: the processes that were started, in order.  The *)
(* lock of a process that is gone is free (module DirLock).  Left out: the *)
(* runs of one-off tasks (solo), which have no seat, and herdr when it     *)
(* cannot say whether a workspace is open: the watchdog waits then.        *)
(*                                                                         *)
(* A definition under a comment that starts with "Bug:" is a mutated form  *)
(* of the one that follows; no action uses it.                             *)
(***************************************************************************)
EXTENDS Naturals, FiniteSets

CONSTANTS
    Run, NoRun,
    Workspace, NoWorkspace,
    MaxRespawns,        \* RESPAWNS_PER_RUN
    MaxLaunches         \* launchers ever started

ASSUME SeatAssumption ==
    /\ NoRun \notin Run
    /\ NoWorkspace \notin Workspace
    /\ {MaxRespawns, MaxLaunches} \subseteq Nat

Launcher == 1 .. MaxLaunches
NoPid == 0

VARIABLES
    born, active,   \* runs
    home,           \* runs.workspace_id
    stopped,        \* runs.orchestrator_stopped_at
    respawns,       \* runs.orchestrator_respawns
    recent,         \* a respawn less than RESPAWN_EVERY_S ago
    row,            \* the orchestrator row of each run
    decided,        \* Outcome::Respawned: the workspace a pass will launch in
    spaces,         \* the workspaces of herdr
    started,        \* launchers so far
    launcher,
    route           \* mailbox: the pane of the role orchestrator

ledger  == <<born, active, home, stopped, respawns, recent, row>>
outside == <<spaces, started, launcher, route>>
seatVars == <<ledger, decided, outside>>

NoRow == [status |-> "none", in |-> NoWorkspace, pid |-> NoPid]
Unborn == [at |-> "new", in |-> NoWorkspace, slug |-> NoRun, run |-> NoRun]
Gone   == [Unborn EXCEPT !.at = "gone"]

\* Where a launcher holds the orchestrator lock of its workspace.
Inside == {"choose", "claim", "route", "runs"}

SeatTypeOK ==
    /\ active \subseteq born /\ born \subseteq Run
    /\ home \in [Run -> Workspace \cup {NoWorkspace}]
    /\ {stopped, recent} \subseteq SUBSET born
    /\ respawns \in [Run -> 0 .. MaxRespawns]
    /\ row \in [Run -> [status : {"none", "spawning", "working", "ended"},
                        in : Workspace \cup {NoWorkspace}, pid : Launcher \cup {NoPid}]]
    /\ decided \in [Run -> Workspace \cup {NoWorkspace}]
    /\ spaces \subseteq Workspace
    /\ started \in 0 .. MaxLaunches
    /\ launcher \in [Launcher ->
          [at : {"new", "lock", "choose", "claim", "route", "runs", "gone"},
           in : Workspace \cup {NoWorkspace}, slug : Run \cup {NoRun}, run : Run \cup {NoRun}]]
    /\ route \in [Workspace -> Launcher \cup {NoPid}]
    /\ \A l \in Launcher : launcher[l].at = "new" <=> l > started
    /\ \A l, k \in Launcher :
          {launcher[l].at, launcher[k].at} \subseteq Inside /\ launcher[l].in = launcher[k].in
             => l = k

SeatInit ==
    /\ born = {} /\ active = {}
    /\ home = [r \in Run |-> NoWorkspace]
    /\ stopped = {} /\ recent = {}
    /\ respawns = [r \in Run |-> 0]
    /\ row = [r \in Run |-> NoRow]
    /\ decided = [r \in Run |-> NoWorkspace]
    /\ spaces = Workspace
    /\ started = 0
    /\ launcher = [l \in Launcher |-> Unborn]
    /\ route = [w \in Workspace |-> NoPid]

Alive(l) == l \in Launcher /\ launcher[l].at \notin {"new", "gone"}

\* The live process that holds the orchestrator lock of w, if any.
Holder(w) ==
    {l \in Launcher : launcher[l].in = w /\ launcher[l].at \in Inside}

IsLive(r) == row[r].status \in {"spawning", "working"}
OthersIn(r, w) == {o \in active \ {r} : home[o] = w}

-----------------------------------------------------------------------------
(***************************************************************************)
(* The commands of the operator and the agents.                            *)
(***************************************************************************)
\* insert_run, in the workspace of the caller, or outside herdr.
NewRun(r, w) ==
    /\ r \notin born
    /\ w # NoWorkspace => OthersIn(r, w) = {}
    /\ born' = born \cup {r} /\ active' = active \cup {r}
    /\ home' = [home EXCEPT ![r] = w]
    /\ row' = [row EXCEPT ![r] = [status |-> "working", in |-> w, pid |-> NoPid]]
    /\ UNCHANGED <<stopped, respawns, recent, decided, outside>>

\* The first status or plan-workers from a pane.
AdoptWorkspace(r, w) ==
    /\ r \in born /\ home[r] = NoWorkspace
    /\ home' = [home EXCEPT ![r] = w]
    /\ UNCHANGED <<born, active, stopped, respawns, recent, row, decided, outside>>

\* horch fleet stop
RecordStop(r) ==
    /\ r \in active \ stopped
    /\ stopped' = stopped \cup {r}
    /\ UNCHANGED <<born, active, home, respawns, recent, row, decided, outside>>

Ended(r) == IF IsLive(r) THEN [row EXCEPT ![r].status = "ended"] ELSE row

CloseRun(r) ==
    /\ r \in active
    /\ active' = active \ {r}
    /\ stopped' = stopped \cup {r}
    /\ row' = Ended(r)
    /\ UNCHANGED <<born, home, respawns, recent, decided, outside>>

-----------------------------------------------------------------------------
(***************************************************************************)
(* A launcher: pane-launch of a fleet orchestrator.                        *)
(***************************************************************************)
Starts(w, slug) ==
    /\ w \in spaces
    /\ started < MaxLaunches
    /\ started' = started + 1
    /\ launcher' = [launcher EXCEPT ![started + 1] =
                       [at |-> "lock", in |-> w, slug |-> slug, run |-> NoRun]]

Launch(w) ==
    /\ Starts(w, NoRun)
    /\ UNCHANGED <<ledger, decided, spaces, route>>

At(l, place) == launcher[l].at = place
Goes(l, place) == launcher' = [launcher EXCEPT ![l].at = place]
Ends(l) == launcher' = [launcher EXCEPT ![l] = Gone]

LockIsFree(w) == Holder(w) = {}

\* hold_orchestrator_lock does not wait.
TakeLock(l) ==
    /\ At(l, "lock")
    /\ IF LockIsFree(launcher[l].in) THEN Goes(l, "choose") ELSE Ends(l)
    /\ UNCHANGED <<ledger, decided, spaces, started, route>>

\* launch_run: the run of the respawn, else the one of the workspace, else
\* the one of the project.
Fitting(w, slug) ==
    LET own == {r \in active : home[r] = w}
    IN  IF slug # NoRun THEN active \cap {slug}
        ELSE IF own # {} THEN own ELSE active

ChooseRun(l) ==
    /\ At(l, "choose")
    /\ LET fit == Fitting(launcher[l].in, launcher[l].slug)
       IN  launcher' = [launcher EXCEPT ![l].at = "claim",
                           ![l].run = IF Cardinality(fit) = 1
                                      THEN CHOOSE r \in fit : TRUE ELSE NoRun]
    /\ UNCHANGED <<ledger, decided, spaces, started, route>>

\* No run fits, or it was closed since: the agent runs without one.
ClaimNothing(l) ==
    /\ At(l, "claim")
    /\ launcher[l].run \notin active
    /\ launcher' = [launcher EXCEPT ![l].at = "route", ![l].run = NoRun]
    /\ UNCHANGED <<ledger, decided, spaces, started, route>>

Moves(l) == home[launcher[l].run] \notin {launcher[l].in, NoWorkspace}

\* Bug: the agent of the other workspace is not looked for.
RefusedIfTaken(l) == Moves(l) /\ OthersIn(launcher[l].run, launcher[l].in) # {}
\* Bug: the live row keeps its workspace.
SeatedWhereItWas(r, w) ==
    IF IsLive(r) THEN row[r] ELSE [status |-> "working", in |-> w, pid |-> NoPid]

\* Claimed::Skipped and refuse_a_taken_workspace
Refused(l) ==
    /\ Moves(l)
    /\ \/ Holder(home[launcher[l].run]) # {}
       \/ OthersIn(launcher[l].run, launcher[l].in) # {}

ClaimRefused(l) ==
    /\ At(l, "claim")
    /\ launcher[l].run \in active
    /\ Refused(l)
    /\ Ends(l)
    /\ UNCHANGED <<ledger, decided, spaces, started, route>>

\* live_orchestrator: the live row moves here, or a new one is written.
SeatedAt(r, w) ==
    IF IsLive(r) THEN [row[r] EXCEPT !.in = w]
                 ELSE [status |-> "working", in |-> w, pid |-> NoPid]

ClaimRun(l) ==
    LET r == launcher[l].run
        w == launcher[l].in
    IN  /\ At(l, "claim")
        /\ r \in active
        /\ ~Refused(l)
        /\ home' = [home EXCEPT ![r] = w]
        /\ stopped' = stopped \ {r}
        /\ row' = [row EXCEPT ![r] = SeatedAt(r, w)]
        /\ Goes(l, "route")
        /\ UNCHANGED <<born, active, respawns, recent, decided, spaces, started, route>>

\* register_role
WriteRoute(l) ==
    /\ At(l, "route")
    /\ route' = [route EXCEPT ![launcher[l].in] = l]
    /\ Goes(l, "runs")
    /\ UNCHANGED <<ledger, decided, spaces, started>>

\* The agent exits, or the launcher fails or is killed; the lock is free.
LauncherEnds(l) ==
    /\ Alive(l)
    /\ Ends(l)
    /\ UNCHANGED <<ledger, decided, spaces, started, route>>

CloseWorkspace(w) ==
    /\ w \in spaces
    /\ spaces' = spaces \ {w}
    /\ launcher' = [l \in Launcher |-> IF launcher[l].in = w THEN Gone ELSE launcher[l]]
    /\ UNCHANGED <<ledger, decided, started, route>>

-----------------------------------------------------------------------------
(***************************************************************************)
(* check: a pass of the watchdog over the orchestrator of r.               *)
(***************************************************************************)
SeatOf(r) == IF row[r].in # NoWorkspace THEN row[r].in ELSE home[r]

Checks(r) ==
    /\ r \in active \ stopped
    /\ decided[r] = NoWorkspace
    /\ IsLive(r)
    /\ SeatOf(r) # NoWorkspace

\* Only here a row that waits for its launch becomes working.
Register(r) ==
    /\ Checks(r)
    /\ \E l \in Holder(SeatOf(r)) :
          /\ row[r].pid # l \/ row[r].status = "spawning"
          /\ row' = [row EXCEPT ![r].pid = l, ![r].status = "working"]
    /\ UNCHANGED <<born, active, home, stopped, respawns, recent, decided, outside>>

\* Bug: a respawn that did not start is not tried again.
RecordedAgentGone(r) == row[r].pid # NoPid /\ ~Alive(row[r].pid)

\* dead and pending: nobody holds the lock, and the recorded agent is gone or
\* the respawn did not start.
AgentGone(r) == row[r].status = "spawning" \/ (row[r].pid # NoPid /\ ~Alive(row[r].pid))

IsDead(r) ==
    /\ Checks(r)
    /\ Holder(SeatOf(r)) = {}
    /\ AgentGone(r)

EndWithoutRespawn(r) ==
    /\ IsDead(r)
    /\ SeatOf(r) \notin spaces \/ respawns[r] = MaxRespawns
    /\ row' = Ended(r)
    /\ UNCHANGED <<born, active, home, stopped, respawns, recent, decided, outside>>

\* The respawn counts before its launch; a row that waits is kept.
Respawn(r) ==
    /\ IsDead(r)
    /\ SeatOf(r) \in spaces
    /\ respawns[r] < MaxRespawns /\ r \notin recent
    /\ respawns' = [respawns EXCEPT ![r] = @ + 1]
    /\ recent' = recent \cup {r}
    /\ row' = IF row[r].status = "spawning" THEN row
              ELSE [row EXCEPT ![r] = [status |-> "spawning", in |-> SeatOf(r), pid |-> NoPid]]
    /\ decided' = [decided EXCEPT ![r] = SeatOf(r)]
    /\ UNCHANGED <<born, active, home, stopped, outside>>

\* respawn_orchestrator, after the transaction of the check.
LaunchRespawn(r) ==
    /\ decided[r] # NoWorkspace
    /\ Starts(decided[r], r)
    /\ decided' = [decided EXCEPT ![r] = NoWorkspace]
    /\ UNCHANGED <<ledger, spaces, route>>

\* The launch fails (launch_failed), or the watchdog dies before it.
LaunchFails(r) ==
    /\ decided[r] # NoWorkspace
    /\ decided' = [decided EXCEPT ![r] = NoWorkspace]
    /\ UNCHANGED <<ledger, outside>>

TenMinutes(r) ==
    /\ r \in recent
    /\ recent' = recent \ {r}
    /\ UNCHANGED <<born, active, home, stopped, respawns, row, decided, outside>>

-----------------------------------------------------------------------------
LauncherStep(l) ==
    \/ TakeLock(l) \/ ChooseRun(l)
    \/ ClaimNothing(l) \/ ClaimRefused(l) \/ ClaimRun(l)
    \/ WriteRoute(l)

Check(r) == Register(r) \/ EndWithoutRespawn(r) \/ Respawn(r)

SeatNext ==
    \/ \E r \in Run :
          \/ \E w \in Workspace \cup {NoWorkspace} : NewRun(r, w)
          \/ \E w \in Workspace : AdoptWorkspace(r, w)
          \/ RecordStop(r) \/ CloseRun(r)
          \/ Check(r) \/ LaunchRespawn(r) \/ LaunchFails(r) \/ TenMinutes(r)
    \/ \E w \in Workspace : Launch(w) \/ CloseWorkspace(w)
    \/ \E l \in Launcher : LauncherStep(l) \/ LauncherEnds(l)

SeatSpec == SeatInit /\ [][SeatNext]_seatVars

\* A watchdog passes over each active run; what was started goes on.
SeatFairness ==
    /\ \A r \in Run : /\ WF_seatVars(Check(r))
                      /\ WF_seatVars(LaunchRespawn(r) \/ LaunchFails(r))
                      /\ WF_seatVars(TenMinutes(r))
    /\ \A l \in Launcher : WF_seatVars(LauncherStep(l))

FairSeatSpec == SeatSpec /\ SeatFairness

-----------------------------------------------------------------------------
(***************************************************************************)
(* Properties.                                                             *)
(***************************************************************************)
Runs(l, r) == launcher[l].at \in {"route", "runs"} /\ launcher[l].run = r

\* A run belongs to one workspace, and to one agent, and so does its mail: while
\* the agent that claimed it lives, no other launcher moves it away, claims it
\* too, or takes over its route, though it started in the same workspace.
SeatIsKept ==
    \A l \in Launcher :
        /\ \A r \in active :
              Runs(l, r) => home[r] = launcher[l].in /\ \A k \in Launcher : Runs(k, r) => k = l
        /\ At(l, "runs") => route[launcher[l].in] = l

\* The watchdog replaces or ends no row whose agent runs, whether or not a
\* pass has recorded its process, and wherever it was launched.
NoneReplacedAlive ==
    [][\A r \in Run :
         (Respawn(r) \/ EndWithoutRespawn(r)) => \A l \in Launcher : ~Runs(l, r)]_seatVars

\* The death of a recorded agent, and a respawn that did not start, is answered
\* while the run is active and nobody stops it: once no more is launched, a row
\* whose seat is empty has ended, or it never had a process.
DeathIsAnswered ==
    <>[](\A r \in active \ stopped :
           IsLive(r) /\ Holder(SeatOf(r)) = {}
             => row[r].status = "working" /\ (row[r].pid = NoPid \/ Alive(row[r].pid)))
==============================================================================
