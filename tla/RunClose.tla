-------------------------------- MODULE RunClose --------------------------------
(***************************************************************************)
(* The end of a run: the run gate, `horch ledger run close` and what it    *)
(* needs (taskledger/runs.rs, status.rs, finish/pr.rs and                  *)
(* cmd/taskledger.rs).                                                     *)
(*                                                                         *)
(* A gate reads the tip of the run branch, checks it out in the folder of  *)
(* the run's gates, runs the check there and records the result.  Gates    *)
(* take no lock: one can move the folder while the check of another runs   *)
(* in it.  A close looks whether the run is settled; when it is, it asks   *)
(* for the tip and the pull request, and when it is not, for nothing.      *)
(* Then it looks again in the transaction that closes the run.  Tasks are  *)
(* added, land and are parked meanwhile, and the operator merges the pull  *)
(* request.                                                                *)
(*                                                                         *)
(* A task has one worktree; the life of both is in TaskLedger and          *)
(* RunBranch.                                                              *)
(*                                                                         *)
(* A definition under a comment that starts with "Bug:" is a mutated form  *)
(* of the one that follows; no action uses it.                             *)
(***************************************************************************)
EXTENDS Naturals, FiniteSets

CONSTANTS
    RunTask,
    Gate,           \* gate commands
    Closer,         \* close commands
    HasPr,          \* the run has a remote, and gh
    MaxTip          \* commits on the run branch

ASSUME CloseAssumption == HasPr \in BOOLEAN /\ MaxTip \in Nat

Tip == 0 .. MaxTip
NoTip == MaxTip + 1

VARIABLES
    runStatus,      \* runs.status
    work,           \* the status of each task
    tree,           \* the worktree row of each task
    tip, good,      \* the run branch; the tips whose tree the check passes
    pr, declined,   \* the pull request; runs.pr_declined_reason
    verdict,        \* run_gates: the newest gate of each tip
    folder,         \* the gate folder: the tip it holds, or none
    gateRow,        \* its worktree row: "none", "open", "cleaned"
    gate,           \* each gate command; saw: what its check ran on
    closer,
    mixed           \* history: the tips whose newest result is of a check that
                    \* did not run on that tip alone

tasks  == <<work, tree>>
branch == <<tip, good, pr>>
gates  == <<verdict, folder, gateRow, gate>>
closeVars == <<runStatus, declined, tasks, branch, gates, closer, mixed>>

NoGate == [at |-> "idle", tip |-> NoTip, saw |-> {}, passed |-> FALSE]
NoClose == [at |-> "idle", how |-> "done", active |-> FALSE,
            guards |-> FALSE, tip |-> NoTip, pr |-> "none"]

CloseTypeOK ==
    /\ runStatus \in {"active", "done", "abandoned"}
    /\ work \in [RunTask -> {"none", "open", "done", "cancelled"}]
    /\ tree \in [RunTask -> {"none", "open", "parked", "settled"}]
    /\ tip \in Tip /\ good \subseteq Tip
    /\ pr \in {"none", "open", "merged"} /\ declined \in BOOLEAN
    /\ verdict \in [Tip -> {"none", "passed", "failed"}]
    /\ folder \in Tip \cup {NoTip}
    /\ gateRow \in {"none", "open", "cleaned"}
    /\ gateRow = "none" => \A t \in Tip : verdict[t] = "none"
    /\ gate \in [Gate ->
          [at : {"idle", "checkout", "start", "check", "record"},
           tip : Tip \cup {NoTip}, saw : SUBSET (Tip \cup {NoTip}), passed : BOOLEAN]]
    /\ closer \in [Closer ->
          [at : {"idle", "settled", "guards", "write"}, how : {"done", "declined", "abandon"},
           active : BOOLEAN, guards : BOOLEAN, tip : Tip \cup {NoTip},
           pr : {"none", "open", "merged"}]]
    /\ mixed \subseteq Tip

CloseInit ==
    /\ runStatus = "active"
    /\ work = [t \in RunTask |-> "none"]
    /\ tree = [t \in RunTask |-> "none"]
    /\ tip = 0 /\ good \in SUBSET Tip
    /\ pr = "none" /\ declined = FALSE
    /\ verdict = [t \in Tip |-> "none"]
    /\ folder = NoTip /\ gateRow = "none"
    /\ gate = [g \in Gate |-> NoGate]
    /\ closer = [c \in Closer |-> NoClose]
    /\ mixed = {}

-----------------------------------------------------------------------------
(***************************************************************************)
(* The work of the run.                                                    *)
(***************************************************************************)
\* tasks::add asks for no status of the run.
AddTask(t) ==
    /\ work[t] = "none"
    /\ work' = [work EXCEPT ![t] = "open"]
    /\ UNCHANGED <<runStatus, declined, tree, branch, gates, closer, mixed>>

OpenTree(t) ==
    /\ work[t] = "open" /\ tree[t] = "none"
    /\ tree' = [tree EXCEPT ![t] = "open"]
    /\ UNCHANGED <<runStatus, declined, work, branch, gates, closer, mixed>>

\* Its commits land on the run branch, and its folder is removed or stays.
LandTask(t) ==
    /\ work[t] = "open" /\ tree[t] = "open"
    /\ tip < MaxTip /\ tip' = tip + 1
    /\ work' = [work EXCEPT ![t] = "done"]
    /\ \E s \in {"settled", "parked"} : tree' = [tree EXCEPT ![t] = s]
    /\ UNCHANGED <<runStatus, declined, good, pr, gates, closer, mixed>>

\* A cancel, or a done with nothing to land; what is there is parked.
EndTask(t, how) ==
    /\ work[t] = "open"
    /\ work' = [work EXCEPT ![t] = how]
    /\ tree' = [tree EXCEPT ![t] = IF @ = "open" THEN "parked" ELSE @]
    /\ UNCHANGED <<runStatus, declined, branch, gates, closer, mixed>>

\* horch worktree triage apply
Triage(t) ==
    /\ tree[t] = "parked"
    /\ tree' = [tree EXCEPT ![t] = "settled"]
    /\ UNCHANGED <<runStatus, declined, work, branch, gates, closer, mixed>>

\* The operator commits, opens the pull request, merges it.
CommitOnBranch ==
    /\ tip < MaxTip /\ tip' = tip + 1
    /\ UNCHANGED <<runStatus, declined, tasks, good, pr, gates, closer, mixed>>

PullRequest ==
    /\ HasPr
    /\ \/ pr = "none" /\ pr' = "open"
       \/ pr = "open" /\ pr' = "merged"
    /\ UNCHANGED <<runStatus, declined, tasks, tip, good, gates, closer, mixed>>

-----------------------------------------------------------------------------
(***************************************************************************)
(* run_gate and record_gate, of any number of gates at once.               *)
(***************************************************************************)
ReadTip(g) ==
    /\ gate[g].at = "idle"
    /\ gate' = [gate EXCEPT ![g] = [NoGate EXCEPT !.at = "checkout", !.tip = tip]]
    /\ UNCHANGED <<runStatus, declined, tasks, branch, verdict, folder, gateRow, closer, mixed>>

\* The gates when the folder holds t: the checks that run go on in it.
GatesSee(t) ==
    [g \in Gate |-> IF gate[g].at = "check" THEN [gate[g] EXCEPT !.saw = @ \cup {t}] ELSE gate[g]]

\* checkout_tip: one folder, also while the check of another gate runs in it.
CheckOut(g) ==
    /\ gate[g].at = "checkout"
    /\ folder' = gate[g].tip
    /\ gate' = [GatesSee(gate[g].tip) EXCEPT ![g].at = "start"]
    /\ UNCHANGED <<runStatus, declined, tasks, branch, verdict, gateRow, closer, mixed>>

\* Once its log is there, on what the folder holds by now; without a folder no
\* check starts (GateFails).
StartCheck(g) ==
    /\ gate[g].at = "start" /\ folder # NoTip
    /\ gate' = [gate EXCEPT ![g].at = "check", ![g].saw = {folder}]
    /\ UNCHANGED <<runStatus, declined, tasks, branch, verdict, folder, gateRow, closer, mixed>>

\* A check that saw two trees can end either way.  One that a signal kills has
\* no exit code, and did not pass.
CheckEnds(g) ==
    /\ gate[g].at = "check"
    /\ \E passed \in BOOLEAN :
          /\ passed => \A t \in Tip : gate[g].saw = {t} => t \in good
          /\ gate' = [gate EXCEPT ![g].at = "record", ![g].passed = passed]
    /\ UNCHANGED <<runStatus, declined, tasks, branch, verdict, folder, gateRow, closer, mixed>>

\* Bug: the result is of the branch as it is once the check has ended.
TipByNow(g) == tip

\* The tip that was read at the start.
GatedTip(g) == gate[g].tip

\* record_gate and its gate_worktree_row
RecordGate(g) ==
    /\ gate[g].at = "record"
    /\ verdict' = [verdict EXCEPT ![GatedTip(g)] = IF gate[g].passed THEN "passed" ELSE "failed"]
    /\ mixed' = IF gate[g].saw = {gate[g].tip}
                THEN mixed \ {gate[g].tip} ELSE mixed \cup {gate[g].tip}
    /\ gateRow' = "open"
    /\ gate' = [gate EXCEPT ![g] = NoGate]
    /\ UNCHANGED <<runStatus, declined, tasks, branch, folder, closer>>

\* A dirty folder is refused, git fails, or the command is killed.
GateFails(g) ==
    /\ gate[g].at # "idle"
    /\ gate' = [gate EXCEPT ![g] = NoGate]
    /\ UNCHANGED <<runStatus, declined, tasks, branch, verdict, folder, gateRow, closer, mixed>>

-----------------------------------------------------------------------------
(***************************************************************************)
(* close_run_cmd.                                                          *)
(***************************************************************************)
\* unsettled: tasks not ended, worktrees open, or parked and undecided.
OpenTasks == {t \in RunTask : work[t] = "open"}
OpenTrees == {t \in RunTask : tree[t] = "open"}
Parked    == {t \in RunTask : tree[t] = "parked"}
Settled   == OpenTasks \cup OpenTrees \cup Parked = {}

\* resolve_run: the run as it is before everything else.
StartClose(c, how) ==
    /\ closer[c].at = "idle"
    /\ closer' = [closer EXCEPT ![c] =
          [NoClose EXCEPT !.at = IF how = "abandon" THEN "write" ELSE "settled",
                          !.how = how, !.active = (runStatus = "active")]]
    /\ UNCHANGED <<runStatus, declined, tasks, branch, gates, mixed>>

\* An unsettled run goes to the transaction without guards.  It is refused
\* there, unless the run has become settled.
LookSettled(c) ==
    /\ closer[c].at = "settled"
    /\ closer' = [closer EXCEPT ![c].at = IF Settled THEN "guards" ELSE "write"]
    /\ UNCHANGED <<runStatus, declined, tasks, branch, gates, mixed>>

\* close_guards
ReadGuards(c) ==
    /\ closer[c].at = "guards"
    /\ closer' = [closer EXCEPT ![c].at = "write", ![c].guards = TRUE,
                                ![c].tip = tip, ![c].pr = pr]
    /\ UNCHANGED <<runStatus, declined, tasks, branch, gates, mixed>>

\* check_guards: no PR to wait for, merged, or declined.
GuardsPass(c) ==
    /\ verdict[closer[c].tip] = "passed"
    /\ ~HasPr \/ closer[c].pr = "merged" \/ closer[c].how = "declined"

\* remove_gate_worktree: no open row, or git refuses; else the folder goes,
\* also from under a check.
GateFolderStays == UNCHANGED <<gateRow, folder, gate>>

GateFolderGoes ==
    /\ gateRow = "open" /\ gateRow' = "cleaned"
    /\ folder' = NoTip
    /\ gate' = GatesSee(NoTip)

Closes(c, s) ==
    /\ runStatus' = s
    /\ GateFolderStays \/ GateFolderGoes
    /\ closer' = [closer EXCEPT ![c] = NoClose]

\* Bug: the transaction does not look again.
SettledBefore(c) == closer[c].guards

\* close_inner: unsettled once more
SettledStill(c) == Settled

\* The transaction: the run row is the one that was read at the start.
CloseDone(c) ==
    /\ closer[c].at = "write" /\ closer[c].how # "abandon"
    /\ closer[c].active
    /\ SettledStill(c)
    /\ closer[c].guards => GuardsPass(c)
    /\ Closes(c, "done")
    /\ declined' = (declined \/ (closer[c].guards /\ closer[c].how = "declined"))
    /\ UNCHANGED <<tasks, branch, verdict, mixed>>

\* --abandon cancels the open tasks first; parked folders keep the run.
AbandonRun(c) ==
    /\ closer[c].at = "write" /\ closer[c].how = "abandon"
    /\ closer[c].active
    /\ work' = [t \in RunTask |-> IF work[t] = "open" THEN "cancelled" ELSE work[t]]
    /\ \E kept \in SUBSET OpenTrees :
          /\ tree' = [t \in RunTask |-> IF tree[t] # "open" THEN tree[t]
                                        ELSE IF t \in kept THEN "parked" ELSE "settled"]
          /\ IF Parked \cup kept = {}
             THEN Closes(c, "abandoned")
             ELSE /\ closer' = [closer EXCEPT ![c] = NoClose]
                  /\ GateFolderStays /\ UNCHANGED runStatus
    /\ UNCHANGED <<declined, branch, verdict, mixed>>

CloseRefused(c) ==
    /\ closer[c].at = "write"
    /\ \/ ~closer[c].active
       \/ closer[c].how # "abandon"
          /\ (~SettledStill(c) \/ (closer[c].guards /\ ~GuardsPass(c)))
    /\ closer' = [closer EXCEPT ![c] = NoClose]
    /\ UNCHANGED <<runStatus, declined, tasks, branch, gates, mixed>>

-----------------------------------------------------------------------------
CloseNext ==
    \/ \E t \in RunTask :
          \/ AddTask(t) \/ OpenTree(t) \/ LandTask(t) \/ Triage(t)
          \/ \E how \in {"done", "cancelled"} : EndTask(t, how)
    \/ CommitOnBranch \/ PullRequest
    \/ \E g \in Gate :
          \/ ReadTip(g) \/ CheckOut(g) \/ StartCheck(g) \/ CheckEnds(g) \/ RecordGate(g)
          \/ GateFails(g)
    \/ \E c \in Closer :
          \/ \E how \in {"done", "declined", "abandon"} : StartClose(c, how)
          \/ LookSettled(c) \/ ReadGuards(c)
          \/ CloseDone(c) \/ AbandonRun(c) \/ CloseRefused(c)

CloseSpec == CloseInit /\ [][CloseNext]_closeVars

-----------------------------------------------------------------------------
(***************************************************************************)
(* Properties.                                                             *)
(***************************************************************************)
\* A passing gate on a tip is of a tree that passes the check, whatever was
\* committed while the check ran, unless the folder was moved by another gate, or
\* removed by a close, before that check ended.
GateIsOfItsTip ==
    \A t \in Tip : verdict[t] = "passed" => t \in good \cup mixed

\* A run that closes, as done or as abandoned, leaves no open task, no open
\* worktree and no parked folder without a decision, whatever was added or
\* parked since the command looked.
ClosesSettled == [][runStatus' # runStatus => Settled']_closeVars

\* docs/fleet-workflow.md: `run close` needs a settled run, a passing gate on the
\* run-branch tip, and a merged or declined PR.  Here the gate is any passing
\* one, of whatever tip.
CloseIsGuarded ==
    [][runStatus' = "done" /\ runStatus # "done" =>
         /\ \E t \in Tip : verdict[t] = "passed"
         /\ ~HasPr \/ pr = "merged" \/ declined']_closeVars
==============================================================================
