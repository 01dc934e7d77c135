------------------------------- MODULE RunBranch -------------------------------
(***************************************************************************)
(* Landing: how the work of the tasks of one run gets on the run branch    *)
(* (crates/horch-core/src/taskledger/finish/land.rs).                      *)
(*                                                                         *)
(* Every task has one worktree, a folder with a branch of its own.  The    *)
(* finish of an attempt rebases that branch on the run branch, runs the    *)
(* check, and fast-forwards the run branch under the land lock of the      *)
(* repository.  A finish is a process of its own: it outlives its worker,  *)
(* and a later attempt works in the same worktree.                         *)
(*                                                                         *)
(* A branch is the set of the changes it holds: a rebase on another branch *)
(* adds its changes, and an ancestor is a subset.  The push to a remote,   *)
(* uncommitted files and a task parked by done --unlanded are left out.    *)
(*                                                                         *)
(* A definition under a comment that starts with "Bug:" is a mutated form  *)
(* of the one that follows; no action uses it.                             *)
(***************************************************************************)
EXTENDS Naturals, FiniteSets

CONSTANTS
    Task, Attempt, NoAttempt,
    TaskOf,         \* the task each attempt claims
    Change,         \* what can be committed
    MaxTries,       \* MAX_LAND_TRIES
    CheckedOut,     \* the run branch is checked out in the main checkout
    MayAge,         \* a lock may reach its age limit under a live holder
    Quiet           \* nobody commits in a worktree while a land runs in it

ASSUME RunBranchAssumption ==
    /\ NoAttempt \notin Attempt
    /\ TaskOf \in [Attempt -> Task]
    /\ MaxTries \in Nat \ {0}
    /\ {CheckedOut, MayAge, Quiet} \subseteq BOOLEAN

VARIABLES
    \* git: the run branch, the branch of each worktree, the worktrees on disk
    target, branch, dir,
    \* the ledger: worktrees.status and landed_commit, tasks.current_worker_id,
    \* the cancelled tasks, the attempts that claimed
    wt, landedAt, holder, cancelled, claimed,
    \* processes: the land of each attempt, the land lock, the cleanup of each
    \* worktree
    land, lock, rm,
    \* history: the trees whose check passed, and the changes committed
    checked, made

git    == <<target, branch, dir>>
ledger == <<wt, landedAt, holder, cancelled, claimed>>
procs  == <<land, lock, rm>>
past   == <<checked, made>>
vars   == <<git, ledger, procs, past>>

OpenWorktree   == {"open", "landing"}             \* WORKTREES_OPEN
LandedWorktree == {"landed", "cleanup_failed"}    \* WORKTREES_LANDED
WorktreeStatus == OpenWorktree \cup LandedWorktree \cup {"none", "cleaned", "abandoned"}

(***************************************************************************)
(* tip: the head before the land.  base: the run branch it rebased on.     *)
(* new: the head it lands.  fresh: the run branch that fast_forward reads. *)
(* has: it holds the guard of a lock.                                      *)
(***************************************************************************)
NotLanding == [at |-> "idle", tip |-> {}, base |-> {}, new |-> {}, fresh |-> {},
               tries |-> 0, has |-> FALSE, why |-> "none"]
LandAt == {"idle", "start", "mark", "target", "rebase", "check", "head", "lock",
           "compare", "ff", "move", "record", "undo", "reopen"}
Land == [at : LandAt, tip : SUBSET Change, base : SUBSET Change, new : SUBSET Change,
         fresh : SUBSET Change, tries : 0 .. MaxTries - 1,
         has : BOOLEAN, why : {"none", "red", "error"}]

Unlocked == [by |-> NoAttempt, alive |-> FALSE, aged |-> FALSE]
Lock == [by : Attempt \cup {NoAttempt}, alive : BOOLEAN, aged : BOOLEAN]

TypeOK ==
    /\ target \in SUBSET Change
    /\ branch \in [Task -> SUBSET Change]
    /\ dir \in [Task -> BOOLEAN]
    /\ wt \in [Task -> WorktreeStatus]
    /\ landedAt \in [Task -> SUBSET Change]
    /\ holder \in [Task -> Attempt \cup {NoAttempt}]
    /\ cancelled \in SUBSET Task
    /\ claimed \in SUBSET Attempt
    /\ land \in [Attempt -> Land]
    /\ lock \in Lock
    /\ rm \in [Task -> {"idle", "folder", "branch"}]
    /\ checked \in SUBSET SUBSET Change
    /\ made \in SUBSET Change

Init ==
    /\ target = {}
    /\ branch = [t \in Task |-> {}]
    /\ dir = [t \in Task |-> FALSE]
    /\ wt = [t \in Task |-> "none"]
    /\ landedAt = [t \in Task |-> {}]
    /\ holder = [t \in Task |-> NoAttempt]
    /\ cancelled = {}
    /\ claimed = {}
    /\ land = [a \in Attempt |-> NotLanding]
    /\ lock = Unlocked
    /\ rm = [t \in Task |-> "idle"]
    /\ checked = {}
    /\ made = {}

-----------------------------------------------------------------------------
(***************************************************************************)
(* The task and its worktree.                                              *)
(***************************************************************************)
Claim(a) ==
    /\ a \notin claimed
    /\ holder[TaskOf[a]] = NoAttempt
    /\ TaskOf[a] \notin cancelled
    /\ claimed' = claimed \cup {a}
    /\ holder' = [holder EXCEPT ![TaskOf[a]] = a]
    /\ UNCHANGED <<git, wt, landedAt, cancelled, procs, past>>

\* A reap, a stop, an exit or a handoff: the finish of the worker runs on.
LoseTask(t) ==
    /\ holder[t] # NoAttempt
    /\ holder' = [holder EXCEPT ![t] = NoAttempt]
    /\ UNCHANGED <<git, wt, landedAt, cancelled, claimed, procs, past>>

Cancel(t) ==
    /\ t \notin cancelled
    /\ cancelled' = cancelled \cup {t}
    /\ holder' = [holder EXCEPT ![t] = NoAttempt]
    /\ wt' = [wt EXCEPT ![t] = IF @ \in OpenWorktree THEN "abandoned" ELSE @]
    /\ UNCHANGED <<git, landedAt, claimed, procs, past>>

RequeueByOperator(t) ==
    /\ t \in cancelled
    /\ cancelled' = cancelled \ {t}
    /\ wt' = [wt EXCEPT ![t] = IF @ = "abandoned" /\ dir[t] THEN "open" ELSE @]
    /\ UNCHANGED <<git, landedAt, holder, claimed, procs, past>>

\* A new folder, on a new branch from the run branch.
CreateWorktree(a) ==
    LET t == TaskOf[a] IN
    /\ holder[t] = a
    /\ wt[t] \in {"none", "cleaned"}
    /\ ~dir[t]
    /\ dir' = [dir EXCEPT ![t] = TRUE]
    /\ branch' = [branch EXCEPT ![t] = target]
    /\ wt' = [wt EXCEPT ![t] = "open"]
    /\ landedAt' = [landedAt EXCEPT ![t] = {}]
    /\ UNCHANGED <<target, holder, cancelled, claimed, procs, past>>

LandsIn(t) == {a \in Attempt : TaskOf[a] = t /\ land[a].at # "idle"}

Commit(a, c) ==
    LET t == TaskOf[a] IN
    /\ holder[t] = a
    /\ dir[t]
    /\ c \notin made
    /\ Quiet => LandsIn(t) = {}
    /\ made' = made \cup {c}
    /\ branch' = [branch EXCEPT ![t] = @ \cup {c}]
    /\ UNCHANGED <<target, dir, ledger, procs, checked>>

\* Work in the shared checkout is committed on the run branch itself, under
\* no lock.
SharedCommit(c) ==
    /\ CheckedOut
    /\ c \notin made
    /\ made' = made \cup {c}
    /\ target' = target \cup {c}
    /\ UNCHANGED <<branch, dir, ledger, procs, checked>>

-----------------------------------------------------------------------------
(***************************************************************************)
(* The land lock: the holder's own nonce is in it while alive and by say   *)
(* so.  A lock is broken when its holder is dead, or at its age limit.     *)
(***************************************************************************)
\* Bug: the lock of a live holder is broken too.
AlwaysBreakable == TRUE

OwnsLock(a) == lock.by = a /\ lock.alive
Breakable   == lock.by = NoAttempt \/ ~lock.alive \/ lock.aged
Released(a) == IF land[a].has /\ OwnsLock(a) THEN Unlocked ELSE lock

Age ==
    /\ MayAge
    /\ lock.alive
    /\ ~lock.aged
    /\ lock' = [lock EXCEPT !.aged = TRUE]
    /\ UNCHANGED <<git, ledger, land, rm, past>>

(***************************************************************************)
(* The stages of a land.                                                   *)
(***************************************************************************)
\* Bug: the run branch is not compared again under the lock.
NeverMoved(a) == TRUE
\* Bug: the next try rebases and does not check again.
CheckedOnce(a) == IF land[a].tries = 0 THEN "check" ELSE "head"

StillMine(a)  == holder[TaskOf[a]] = a
Unmoved(a)    == target = land[a].base
KeepsLock(a)  == land[a].has
AfterRebase(a) == "check"
UndoTo(a)     == land[a].tip
LandedHead(a) == land[a].new
MoreTries(a)  == land[a].tries + 1 < MaxTries

\* A red stage or an error lets go of the lock, then resets the branch.
Stops(a, why) ==
    /\ land' = [land EXCEPT ![a].at = "undo", ![a].has = FALSE, ![a].why = why]
    /\ lock' = Released(a)

\* The land step of a finish that found its task still its own.
FinishStarts(a) ==
    /\ StillMine(a)
    /\ land[a].at = "idle"
    /\ wt[TaskOf[a]] \in OpenWorktree \cup LandedWorktree
    /\ land' = [land EXCEPT ![a].at = "start"]
    /\ UNCHANGED <<git, ledger, lock, rm, past>>

\* A landed worktree with no new commit has nothing to land; with new ones it
\* is open again.
StartLand(a) ==
    LET t == TaskOf[a]
        landed == wt[t] \in LandedWorktree
    IN
    /\ land[a].at = "start"
    /\ wt' = [wt EXCEPT ![t] = IF landed /\ ~(branch[t] \subseteq target) THEN "open" ELSE @]
    /\ land' = [land EXCEPT ![a] =
                  IF StillMine(a) /\ dir[t] /\ (landed => ~(branch[t] \subseteq target))
                  THEN [@ EXCEPT !.at = "mark"]
                  ELSE NotLanding]
    /\ UNCHANGED <<git, landedAt, holder, cancelled, claimed, lock, rm, past>>

\* The folder is dirty, or git or the ledger fails: no stage ran.
StartFails(a) ==
    LET t == TaskOf[a] IN
    /\ land[a].at \in {"start", "mark"}
    /\ wt' = [wt EXCEPT ![t] = IF @ = "landing" THEN "open" ELSE @]
    /\ land' = [land EXCEPT ![a] = NotLanding]
    /\ UNCHANGED <<git, landedAt, holder, cancelled, claimed, lock, rm, past>>

Mark(a) ==
    LET t == TaskOf[a] IN
    /\ land[a].at = "mark"
    /\ wt' = [wt EXCEPT ![t] = "landing"]
    /\ land' = [land EXCEPT ![a].at = "target", ![a].tip = branch[t]]
    /\ UNCHANGED <<git, landedAt, holder, cancelled, claimed, lock, rm, past>>

\* A lock that is held already is refreshed first; a lost one is an error.
ReadTarget(a) ==
    /\ land[a].at = "target"
    /\ land[a].has => OwnsLock(a)
    /\ lock' = IF land[a].has THEN [lock EXCEPT !.aged = FALSE] ELSE lock
    /\ land' = [land EXCEPT ![a].at = "rebase", ![a].base = target]
    /\ UNCHANGED <<git, ledger, rm, past>>

Rebase(a) ==
    LET t == TaskOf[a] IN
    /\ land[a].at = "rebase"
    /\ dir[t]
    /\ branch' = [branch EXCEPT ![t] = @ \cup land[a].base]
    /\ land' = [land EXCEPT ![a].at = AfterRebase(a)]
    /\ UNCHANGED <<target, dir, ledger, lock, rm, past>>

RebaseConflicts(a) ==
    /\ land[a].at = "rebase"
    /\ ~(land[a].base \subseteq branch[TaskOf[a]])
    /\ Stops(a, "red")
    /\ UNCHANGED <<git, ledger, rm, past>>

CheckPasses(a) ==
    /\ land[a].at = "check"
    /\ dir[TaskOf[a]]
    /\ checked' = checked \cup {branch[TaskOf[a]]}
    /\ land' = [land EXCEPT ![a].at = "head"]
    /\ UNCHANGED <<git, ledger, lock, rm, made>>

CheckFails(a) ==
    /\ land[a].at = "check"
    /\ Stops(a, "red")
    /\ UNCHANGED <<git, ledger, rm, past>>

\* The head is read after the check.
ReadHead(a) ==
    LET t == TaskOf[a] IN
    /\ land[a].at = "head"
    /\ IF land[a].base \subseteq branch[t]
       THEN /\ land' = [land EXCEPT ![a].at = IF land[a].has THEN "compare" ELSE "lock",
                                    ![a].new = branch[t]]
            /\ UNCHANGED lock
       ELSE Stops(a, "red")
    /\ UNCHANGED <<git, ledger, rm, past>>

TakeLock(a) ==
    /\ land[a].at = "lock"
    /\ Breakable
    /\ lock' = [by |-> a, alive |-> TRUE, aged |-> FALSE]
    /\ land' = [land EXCEPT ![a].at = "compare", ![a].has = TRUE]
    /\ UNCHANGED <<git, ledger, rm, past>>

LockTimesOut(a) ==
    /\ land[a].at = "lock"
    /\ lock.by # NoAttempt
    /\ Stops(a, "red")
    /\ UNCHANGED <<git, ledger, rm, past>>

\* The run branch did not move since it was read, and the task is looked at
\* once more.  A task that is lost keeps its branch as it is.
Compare(a) ==
    /\ land[a].at = "compare"
    /\ Unmoved(a)
    /\ IF StillMine(a)
       THEN /\ land' = [land EXCEPT ![a].at = "ff"]
            /\ UNCHANGED lock
       ELSE /\ land' = [land EXCEPT ![a] = NotLanding]
            /\ lock' = Released(a)
    /\ UNCHANGED <<git, ledger, rm, past>>

\* The run branch moved: the next try keeps the lock.
TryAgain(a) ==
    /\ land[a].at = "compare"
    /\ ~Unmoved(a)
    /\ IF MoreTries(a)
       THEN /\ land' = [land EXCEPT ![a].at = "target", ![a].tries = @ + 1,
                                    ![a].has = KeepsLock(a)]
            /\ lock' = IF KeepsLock(a) THEN lock ELSE Released(a)
       ELSE Stops(a, "red")
    /\ UNCHANGED <<git, ledger, rm, past>>

\* fast_forward reads the run branch again.
ReadAgain(a) ==
    /\ land[a].at = "ff"
    /\ land' = [land EXCEPT ![a].at = "move", ![a].fresh = target]
    /\ UNCHANGED <<git, ledger, lock, rm, past>>

\* Bug: git reset --hard.
Forced(a) == TRUE

\* git merge --ff-only when the run branch is checked out, else git
\* update-ref with the value that was read.
FastForwards(a) ==
    IF CheckedOut THEN target \subseteq land[a].new \/ land[a].new \subseteq target
                  ELSE target = land[a].fresh

Move(a) ==
    /\ land[a].at = "move"
    /\ IF FastForwards(a)
       THEN /\ target' = IF CheckedOut /\ land[a].new \subseteq target
                         THEN target ELSE land[a].new
            /\ land' = [land EXCEPT ![a].at = "record"]
            /\ UNCHANGED lock
       ELSE /\ Stops(a, "red")
            /\ UNCHANGED target
    /\ UNCHANGED <<branch, dir, ledger, rm, past>>

\* The row, whatever it says now, then the lock.
RecordLanded(a) ==
    LET t == TaskOf[a] IN
    /\ land[a].at = "record"
    /\ wt' = [wt EXCEPT ![t] = "landed"]
    /\ landedAt' = [landedAt EXCEPT ![t] = LandedHead(a)]
    /\ land' = [land EXCEPT ![a] = NotLanding]
    /\ lock' = Released(a)
    /\ UNCHANGED <<git, holder, cancelled, claimed, rm, past>>

\* Git, the lock or the ledger fails in a stage before the fast-forward.
StageFails(a) ==
    /\ land[a].at \in {"target", "rebase", "check", "head", "lock", "compare", "ff"}
    /\ Stops(a, "error")
    /\ UNCHANGED <<git, ledger, rm, past>>

UndoRebase(a) ==
    LET t == TaskOf[a] IN
    /\ land[a].at = "undo"
    /\ branch' = IF dir[t] THEN [branch EXCEPT ![t] = UndoTo(a)] ELSE branch
    /\ land' = [land EXCEPT ![a].at = "reopen"]
    /\ UNCHANGED <<target, dir, ledger, lock, rm, past>>

\* A red stage opens the row whatever it says; an error opens one that lands.
Reopen(a) ==
    LET t == TaskOf[a] IN
    /\ land[a].at = "reopen"
    /\ wt' = [wt EXCEPT ![t] = IF land[a].why = "red" \/ @ = "landing" THEN "open" ELSE @]
    /\ land' = [land EXCEPT ![a] = NotLanding]
    /\ UNCHANGED <<git, landedAt, holder, cancelled, claimed, lock, rm, past>>

\* The finish is killed; its lock stays, with a dead holder.
LandDies(a) ==
    /\ land[a].at # "idle"
    /\ land' = [land EXCEPT ![a] = NotLanding]
    /\ lock' = IF land[a].has /\ OwnsLock(a) THEN [lock EXCEPT !.alive = FALSE] ELSE lock
    /\ UNCHANGED <<git, ledger, rm, past>>

-----------------------------------------------------------------------------
(***************************************************************************)
(* Cleanup, by a finish that landed or by the watchdog that tries again.   *)
(***************************************************************************)
SafeToRemove(t) == dir[t] => branch[t] \subseteq target

\* Bug: git branch -D.
DeletesAnyBranch(t) == TRUE

\* git branch -d deletes a branch that is on the run branch, and no other.
DeletesBranch(t) == branch[t] \subseteq target

StartCleanup(t) ==
    /\ rm[t] = "idle"
    /\ wt[t] \in LandedWorktree
    /\ SafeToRemove(t)
    /\ rm' = [rm EXCEPT ![t] = "folder"]
    /\ UNCHANGED <<git, ledger, land, lock, past>>

RemoveFolder(t) ==
    /\ rm[t] = "folder"
    /\ dir' = [dir EXCEPT ![t] = FALSE]
    /\ rm' = [rm EXCEPT ![t] = "branch"]
    /\ UNCHANGED <<target, branch, ledger, land, lock, past>>

DeleteBranch(t) ==
    /\ rm[t] = "branch"
    /\ DeletesBranch(t)
    /\ branch' = [branch EXCEPT ![t] = {}]
    /\ wt' = [wt EXCEPT ![t] = "cleaned"]
    /\ rm' = [rm EXCEPT ![t] = "idle"]
    /\ UNCHANGED <<target, dir, landedAt, holder, cancelled, claimed, land, lock, past>>

CleanupFails(t) ==
    /\ rm[t] # "idle"
    /\ wt' = [wt EXCEPT ![t] = "cleanup_failed"]
    /\ rm' = [rm EXCEPT ![t] = "idle"]
    /\ UNCHANGED <<git, landedAt, holder, cancelled, claimed, land, lock, past>>

CleanupDies(t) ==
    /\ rm[t] # "idle"
    /\ rm' = [rm EXCEPT ![t] = "idle"]
    /\ UNCHANGED <<git, ledger, land, lock, past>>

-----------------------------------------------------------------------------
TaskStep(t) ==
    \/ LoseTask(t)
    \/ Cancel(t)
    \/ RequeueByOperator(t)

Work(a) ==
    \/ Claim(a)
    \/ CreateWorktree(a)
    \/ \E c \in Change : Commit(a, c)

LandStep(a) ==
    \/ FinishStarts(a) \/ StartLand(a) \/ StartFails(a) \/ Mark(a)
    \/ ReadTarget(a) \/ Rebase(a) \/ RebaseConflicts(a)
    \/ CheckPasses(a) \/ CheckFails(a) \/ ReadHead(a)
    \/ TakeLock(a) \/ LockTimesOut(a) \/ Compare(a) \/ TryAgain(a)
    \/ ReadAgain(a) \/ Move(a) \/ RecordLanded(a)
    \/ StageFails(a) \/ UndoRebase(a) \/ Reopen(a)

Cleanup(t) ==
    \/ StartCleanup(t)
    \/ RemoveFolder(t)
    \/ DeleteBranch(t)
    \/ CleanupFails(t)
    \/ CleanupDies(t)

Next ==
    \/ \E t \in Task : TaskStep(t) \/ Cleanup(t)
    \/ \E a \in Attempt : Work(a) \/ LandStep(a) \/ LandDies(a)
    \/ \E c \in Change : SharedCommit(c)
    \/ Age

Spec == Init /\ [][Next]_vars

-----------------------------------------------------------------------------
(***************************************************************************)
(* What landing promises.                                                  *)
(***************************************************************************)

\* Lands go in a line: from the comparison to the record of the land, no
\* other land is between its own two, whoever dies with the lock (land_lock).
UnderLock == {"compare", "ff", "move", "record"}
LandsGoInALine ==
    \A a, b \in Attempt : land[a].at \in UnderLock /\ land[b].at \in UnderLock => a = b

\* What is on the run branch stays on it: no land takes back another one,
\* however the lands, their retries and their crashes interleave (the lock,
\* the comparison under it, and fast_forward, "never forced").
LandedStays == [][target \subseteq target']_vars

\* The run branch only ever holds a tree whose check passed: not the sum of
\* two branches that pass alone (the rebase, the check after it, and the
\* comparison under the lock; "work never lands untested").
TipIsChecked == target = {} \/ target \in checked

\* A worktree that the ledger calls landed, cleaned or cleanup_failed landed
\* at a commit that is on the run branch, whatever later attempts did in it.
LandedIsOnTarget ==
    \A t \in Task : wt[t] \in LandedWorktree \cup {"cleaned"} => landedAt[t] \subseteq target

\* No commit is lost: not by the reset after a red stage, not by a crash, not
\* by the removal of the worktree (undo_rebase, delete_worktree).
WorkKept == made \subseteq target \cup UNION {branch[t] : t \in Task}

(***************************************************************************)
(* What the comments say and the code does not do.                         *)
(***************************************************************************)

\* land.rs: a task that is no longer this worker's keeps its branch as it is,
\* another worker can use the worktree now.  While a worker holds the task,
\* no step but one of its own land takes changes off the branch.
BranchIsTheHolders ==
    [][\A t \in Task :
          /\ holder[t] # NoAttempt /\ holder'[t] = holder[t] /\ dir'[t]
          /\ ~(branch[t] \subseteq branch'[t])
          => land'[holder[t]] # land[holder[t]]]_vars

=============================================================================
