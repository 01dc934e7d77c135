-------------------------------- MODULE DirLock --------------------------------
(***************************************************************************)
(* The cross-process lock of horch: a directory with an owner file         *)
(* (crates/horch-core/src/fsx.rs, DirLock).                                *)
(*                                                                         *)
(* The lock is taken by a rename that fails when it exists, so it is never *)
(* seen without its owner.  A waiter breaks a lock whose owner is dead or  *)
(* that reached its age limit: it takes a flock, makes a breaker directory *)
(* beside the lock, looks at the lock again and moves it away.  A holder   *)
(* gives the lock back by its path, after it read its own name there.      *)
(*                                                                         *)
(* A process waits for or holds one lock at a time, so its name stands for *)
(* the nonce of its guard: what it left at the path is gone before it      *)
(* publishes again.  All run on one host.  Left out: the locks without an  *)
(* owner file that older binaries made.                                    *)
(*                                                                         *)
(* A definition under a comment that starts with "Bug:" is a mutated form  *)
(* of the one that follows; no action uses it.                             *)
(***************************************************************************)
EXTENDS Naturals, FiniteSets

CONSTANTS
    Proc, NoProc,
    MaxAges             \* how often a lock reaches its age limit

ASSUME DirLockAssumption ==
    /\ NoProc \notin Proc
    /\ MaxAges \in Nat

VARIABLES
    lock,       \* <name>.lock: its owner, and whether it reached its limit
    breaker,    \* <name>.lock.break: "none", "new", or "old" (5 s)
    flock,      \* who holds the BreakerGuard
    dead,
    at,         \* where each process is
    sawOld,     \* is_stale: the age it read was over the limit
    broke,      \* break_lock: it moved the lock away
    ages        \* how often a lock reached its limit so far

lockVars == <<lock, breaker, flock, dead, at, sawOld, broke, ages>>

Unlocked == [by |-> NoProc, aged |-> FALSE]

Waits  == {"look", "stage", "age", "owner", "wait"}
Breaks == {"mkdir", "clear", "age again", "owner again", "remove", "rmdir"}
Works  == {"held", "refresh", "refreshed"}
Drops  == {"drop", "remove own"}

LockTypeOK ==
    /\ lock \in [by : Proc \cup {NoProc}, aged : BOOLEAN]
    /\ breaker \in {"none", "new", "old"}
    /\ flock \in Proc \cup {NoProc}
    /\ \A p \in Proc : flock = p <=> p \notin dead /\ at[p] \in Breaks
    /\ dead \in SUBSET Proc
    /\ at \in [Proc -> {"idle", "guard"} \cup Waits \cup Breaks \cup Works \cup Drops]
    /\ sawOld \in [Proc -> BOOLEAN]
    /\ broke \in [Proc -> BOOLEAN]
    /\ ages \in 0 .. MaxAges

LockInit ==
    /\ lock = Unlocked
    /\ breaker = "none"
    /\ flock = NoProc
    /\ dead = {}
    /\ at = [p \in Proc |-> "idle"]
    /\ sawOld = [p \in Proc |-> FALSE]
    /\ broke = [p \in Proc |-> FALSE]
    /\ ages = 0

Exists == lock # Unlocked
Owns(p) == lock.by = p

-----------------------------------------------------------------------------
Step(p, from, to) ==
    /\ p \notin dead
    /\ at[p] = from
    /\ at' = [at EXCEPT ![p] = to]

\* Inside acquire: publish, or wait for the holder.
Acquire(p) ==
    /\ Step(p, "idle", "look")
    /\ UNCHANGED <<lock, breaker, flock, dead, sawOld, broke, ages>>

Look(p) ==
    /\ Step(p, "look", IF Exists THEN "age" ELSE "stage")
    /\ UNCHANGED <<lock, breaker, flock, dead, sawOld, broke, ages>>

\* The owner file is in the staging directory that this rename moves.
Publish(p) ==
    /\ Step(p, "stage", IF Exists THEN "age" ELSE "held")
    /\ lock' = IF Exists THEN lock ELSE [by |-> p, aged |-> FALSE]
    /\ UNCHANGED <<breaker, flock, dead, sawOld, broke, ages>>

\* is_stale reads the age of the directory, then its owner file.
ReadAge(p, from, to) ==
    /\ Step(p, from, to)
    /\ sawOld' = [sawOld EXCEPT ![p] = lock.aged]
    /\ UNCHANGED <<lock, breaker, flock, dead, broke, ages>>

Stale(p) == sawOld[p] \/ lock.by \in dead

ReadOwner(p) ==
    /\ Step(p, "owner", IF Stale(p) THEN "guard" ELSE "wait")
    /\ UNCHANGED <<lock, breaker, flock, dead, sawOld, broke, ages>>

\* wait_or_timeout
TryAgain(p) ==
    /\ Step(p, "wait", "look")
    /\ UNCHANGED <<lock, breaker, flock, dead, sawOld, broke, ages>>

GiveUp(p) ==
    /\ Step(p, "wait", "idle")
    /\ UNCHANGED <<lock, breaker, flock, dead, sawOld, broke, ages>>

-----------------------------------------------------------------------------
(***************************************************************************)
(* break_lock.                                                             *)
(***************************************************************************)
\* Bug: the breaker of a killed process stays.
BreakerStays == FALSE
\* Bug: the lock is not looked at again under the breaker.
LookedOnce(p) == TRUE

\* Bug: the breaker directory alone keeps two breakers apart.
NoFlock == TRUE
FlockIsFree == flock = NoProc

TakeGuard(p) ==
    /\ Step(p, "guard", IF FlockIsFree THEN "mkdir" ELSE "wait")
    /\ flock' = IF FlockIsFree THEN p ELSE flock
    /\ UNCHANGED <<lock, breaker, dead, sawOld, broke, ages>>

MakeBreaker(p) ==
    /\ Step(p, "mkdir", IF breaker = "none" THEN "age again" ELSE "clear")
    /\ breaker' = IF breaker = "none" THEN "new" ELSE breaker
    /\ UNCHANGED <<lock, flock, dead, sawOld, broke, ages>>

\* clear_stale_breaker: a killed process left it.
BreakerIsStale == breaker = "old"

ClearBreaker(p) ==
    /\ Step(p, "clear", "wait")
    /\ breaker' = IF BreakerIsStale THEN "none" ELSE breaker
    /\ flock' = NoProc
    /\ UNCHANGED <<lock, dead, sawOld, broke, ages>>

StillStale(p) == Stale(p)

ReadOwnerAgain(p) ==
    /\ Step(p, "owner again", IF StillStale(p) THEN "remove" ELSE "rmdir")
    /\ broke' = [broke EXCEPT ![p] = FALSE]
    /\ UNCHANGED <<lock, breaker, flock, dead, sawOld, ages>>

\* remove_lock renames whatever lock is at the path.
RemoveStale(p) ==
    /\ Step(p, "remove", "rmdir")
    /\ lock' = Unlocked
    /\ broke' = [broke EXCEPT ![p] = Exists]
    /\ UNCHANGED <<breaker, flock, dead, sawOld, ages>>

RemoveBreaker(p) ==
    /\ Step(p, "rmdir", IF broke[p] THEN "look" ELSE "wait")
    /\ breaker' = "none"
    /\ flock' = NoProc
    /\ UNCHANGED <<lock, dead, sawOld, broke, ages>>

-----------------------------------------------------------------------------
(***************************************************************************)
(* The guard: DirLockGuard::refresh and its drop.                          *)
(***************************************************************************)
Refresh(p) ==
    /\ Step(p, "held", IF Owns(p) THEN "refresh" ELSE "drop")
    /\ UNCHANGED <<lock, breaker, flock, dead, sawOld, broke, ages>>

\* The heartbeat file goes into the directory at the path, whoever owns it.
WriteHeartbeat(p) ==
    /\ Step(p, "refresh", IF Exists THEN "refreshed" ELSE "drop")
    /\ lock' = [lock EXCEPT !.aged = FALSE]
    /\ UNCHANGED <<breaker, flock, dead, sawOld, broke, ages>>

\* A lock that is not its own any more loses the heartbeat file again, which
\* is a write to that directory too.
CheckHeartbeat(p) ==
    /\ Step(p, "refreshed", IF Owns(p) THEN "held" ELSE "drop")
    /\ lock' = [lock EXCEPT !.aged = @ /\ Owns(p)]
    /\ UNCHANGED <<breaker, flock, dead, sawOld, broke, ages>>

Release(p) ==
    /\ Step(p, "held", "drop")
    /\ UNCHANGED <<lock, breaker, flock, dead, sawOld, broke, ages>>

DropReads(p) ==
    /\ Step(p, "drop", IF Owns(p) THEN "remove own" ELSE "idle")
    /\ UNCHANGED <<lock, breaker, flock, dead, sawOld, broke, ages>>

DropRemoves(p) ==
    /\ Step(p, "remove own", "idle")
    /\ lock' = Unlocked
    /\ UNCHANGED <<breaker, flock, dead, sawOld, broke, ages>>

-----------------------------------------------------------------------------
(***************************************************************************)
(* The environment.                                                        *)
(***************************************************************************)
\* The kernel drops the flock of a dead process; its directories stay.
Die(p) ==
    /\ p \notin dead
    /\ dead' = dead \cup {p}
    /\ flock' = IF flock = p THEN NoProc ELSE flock
    /\ UNCHANGED <<lock, breaker, at, sawOld, broke, ages>>

LockAges ==
    /\ Exists /\ ~lock.aged
    /\ ages < MaxAges /\ ages' = ages + 1
    /\ lock' = [lock EXCEPT !.aged = TRUE]
    /\ UNCHANGED <<breaker, flock, dead, at, sawOld, broke>>

BreakerAges ==
    /\ breaker = "new"
    /\ breaker' = "old"
    /\ UNCHANGED <<lock, flock, dead, at, sawOld, broke, ages>>

-----------------------------------------------------------------------------
\* What a process does inside acquire.
AcquireStep(p) ==
    \/ Look(p) \/ Publish(p)
    \/ ReadAge(p, "age", "owner") \/ ReadOwner(p)
    \/ TakeGuard(p) \/ MakeBreaker(p) \/ ClearBreaker(p)
    \/ ReadAge(p, "age again", "owner again") \/ ReadOwnerAgain(p)
    \/ RemoveStale(p) \/ RemoveBreaker(p)

HolderStep(p) ==
    \/ Refresh(p) \/ WriteHeartbeat(p) \/ CheckHeartbeat(p)
    \/ Release(p) \/ DropReads(p) \/ DropRemoves(p)

LockNext ==
    \/ \E p \in Proc :
          \/ Acquire(p) \/ AcquireStep(p) \/ TryAgain(p) \/ GiveUp(p)
          \/ HolderStep(p)
          \/ Die(p)
    \/ LockAges
    \/ BreakerAges

LockSpec == LockInit /\ [][LockNext]_lockVars

\* A process in acquire goes on; time passes; callers keep coming.
LockFairness ==
    /\ \A p \in Proc : /\ WF_lockVars(AcquireStep(p))
                       /\ WF_lockVars(Acquire(p))
                       /\ WF_lockVars(TryAgain(p) \/ GiveUp(p))
    /\ WF_lockVars(BreakerAges)

FairLockSpec == LockSpec /\ LockFairness

-----------------------------------------------------------------------------
(***************************************************************************)
(* Properties.                                                             *)
(***************************************************************************)
Lives(p, places) == p \notin dead /\ at[p] \in places
Holds(p) == Lives(p, Works)

\* While no lock has reached its age limit, a process that holds the guard owns
\* the lock, so two never hold it, whoever dies in acquire, in break_lock or with
\* the lock held: a breaker that looked again moves no lock of a live process.
OneHolder == ages = 0 => \A p \in Proc : Holds(p) => Owns(p)

\* What a caller sees of the lock: it waits in acquire, it has a guard until the
\* drop of it is over, or it is dead.
PlaceOf(p) ==
    CASE p \in dead                -> "dead"
      [] Lives(p, {"idle"})        -> "out"
      [] Lives(p, Works \cup Drops) -> "has"
      [] OTHER                     -> "asks"

Service == INSTANCE LockService WITH
               Client <- Proc,
               place  <- [p \in Proc |-> PlaceOf(p)],
               aged   <- ages > 0

\* The rename, the two looks under the breaker and the drop by the path are one
\* lock: a process gets it in one step, when no live process has a guard of it,
\* and whoever breaks locks takes it from nobody that lives, whoever dies where.
ImplementsLock == Service!ServiceSpec

\* The lock of a dead process and the breaker of a dead breaker do not keep
\* callers out: while a live process calls, the lock goes, and it stays gone.
DeadLockGoes ==
    <>[](lock.by \in dead => \A q \in Proc \ dead : at[q] \in Works \cup Drops)
==============================================================================
