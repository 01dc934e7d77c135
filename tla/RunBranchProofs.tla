---------------------------- MODULE RunBranchProofs ----------------------------
(***************************************************************************)
(* Proofs about landing, for every number of tasks, attempts, changes and  *)
(* tries.                                                                  *)
(*                                                                         *)
(* The lock: while no lock reaches its age limit under a live holder, the  *)
(* guard that a land holds is in the lock, so at most one land is between  *)
(* its comparison and its record.  The run branch is then still the one it *)
(* was compared with, which the new head contains.                         *)
(***************************************************************************)
EXTENDS RunBranch, TLAPS

(***************************************************************************)
(* Types.                                                                  *)
(***************************************************************************)

\* Stages that change the land record of one attempt, field by field.
LEMMA AtTypes ==
    ASSUME land \in [Attempt -> Land], NEW a \in Attempt, NEW x \in LandAt
    PROVE  /\ [land EXCEPT ![a].at = x] \in [Attempt -> Land]
           /\ \A h \in BOOLEAN : [land EXCEPT ![a].at = x, ![a].has = h] \in [Attempt -> Land]
           /\ \A s \in SUBSET Change :
                 /\ [land EXCEPT ![a].at = x, ![a].tip = s] \in [Attempt -> Land]
                 /\ [land EXCEPT ![a].at = x, ![a].base = s] \in [Attempt -> Land]
                 /\ [land EXCEPT ![a].at = x, ![a].new = s] \in [Attempt -> Land]
                 /\ [land EXCEPT ![a].at = x, ![a].fresh = s] \in [Attempt -> Land]
<1>1. [land EXCEPT ![a].at = x] \in [Attempt -> Land]
  BY DEF Land
<1>2. ASSUME NEW h \in BOOLEAN
      PROVE  [land EXCEPT ![a].at = x, ![a].has = h] \in [Attempt -> Land]
  BY DEF Land
<1>3. ASSUME NEW s \in SUBSET Change
      PROVE  /\ [land EXCEPT ![a].at = x, ![a].tip = s] \in [Attempt -> Land]
             /\ [land EXCEPT ![a].at = x, ![a].base = s] \in [Attempt -> Land]
             /\ [land EXCEPT ![a].at = x, ![a].new = s] \in [Attempt -> Land]
             /\ [land EXCEPT ![a].at = x, ![a].fresh = s] \in [Attempt -> Land]
  <2>1. [land EXCEPT ![a].at = x, ![a].tip = s] \in [Attempt -> Land]
    BY DEF Land
  <2>2. [land EXCEPT ![a].at = x, ![a].base = s] \in [Attempt -> Land]
    BY DEF Land
  <2>3. [land EXCEPT ![a].at = x, ![a].new = s] \in [Attempt -> Land]
    BY DEF Land
  <2>4. [land EXCEPT ![a].at = x, ![a].fresh = s] \in [Attempt -> Land]
    BY DEF Land
  <2>5. QED
    BY <2>1, <2>2, <2>3, <2>4
<1>4. QED
  BY <1>1, <1>2, <1>3

LEMMA NullTypes == NotLanding \in Land /\ Unlocked \in Lock
BY RunBranchAssumption DEF NotLanding, Unlocked, Land, LandAt, Lock

\* A land that stops keeps the types of the land and of the lock.
LEMMA StopsTypes ==
    ASSUME land \in [Attempt -> Land], lock \in Lock, NEW a \in Attempt,
           NEW why \in {"none", "red", "error"}, Stops(a, why)
    PROVE  land' \in [Attempt -> Land] /\ lock' \in Lock
<1>1. [land EXCEPT ![a].at = "undo", ![a].has = FALSE, ![a].why = why] \in [Attempt -> Land]
  <2>1. [land[a] EXCEPT !.at = "undo", !.has = FALSE, !.why = why] \in Land
    BY DEF Land, LandAt
  <2>2. [land EXCEPT ![a].at = "undo", ![a].has = FALSE, ![a].why = why]
          = [land EXCEPT ![a] = [land[a] EXCEPT !.at = "undo", !.has = FALSE, !.why = why]]
    OBVIOUS
  <2>3. QED
    BY <2>1, <2>2
<1>2. QED
  BY <1>1, NullTypes DEF Stops, Released

\* The steps of a land keep the types of the land and of the lock.
LEMMA LandTypes ==
    ASSUME TypeOK, NEW a \in Attempt, LandStep(a) \/ LandDies(a)
    PROVE  land' \in [Attempt -> Land] /\ lock' \in Lock
<1> USE RunBranchAssumption, NullTypes
<1>1. /\ land \in [Attempt -> Land] /\ lock \in Lock /\ TaskOf[a] \in Task
      /\ target \in SUBSET Change /\ branch[TaskOf[a]] \in SUBSET Change
  BY DEF TypeOK
<1> HIDE RunBranchAssumption
<1>2. CASE FinishStarts(a) \/ StartLand(a) \/ StartFails(a) \/ Mark(a)
  <2>1. CASE FinishStarts(a)
    BY <1>1, <2>1, AtTypes DEF FinishStarts, LandAt
  <2>2. CASE StartLand(a)
    BY <1>1, <2>2, AtTypes DEF StartLand, LandAt
  <2>3. CASE StartFails(a)
    BY <1>1, <2>3 DEF StartFails
  <2>4. CASE Mark(a)
    BY <1>1, <2>4, AtTypes DEF Mark, LandAt
  <2>5. QED
    BY <1>2, <2>1, <2>2, <2>3, <2>4
<1>3. CASE ReadTarget(a)
  <2>1. land' \in [Attempt -> Land]
    BY <1>1, <1>3, AtTypes DEF ReadTarget, LandAt
  <2>2. lock' \in Lock
    BY <1>1, <1>3 DEF ReadTarget, Lock
  <2>3. QED
    BY <2>1, <2>2
<1>4. CASE Rebase(a)
  BY <1>1, <1>4, AtTypes DEF Rebase, AfterRebase, LandAt
<1>5. CASE RebaseConflicts(a) \/ CheckFails(a) \/ LockTimesOut(a) \/ StageFails(a)
  BY <1>1, <1>5, StopsTypes DEF RebaseConflicts, CheckFails, LockTimesOut, StageFails
<1>6. CASE CheckPasses(a)
  BY <1>1, <1>6 DEF CheckPasses, Land, LandAt
<1>7. CASE ReadHead(a)
  <2>1. CASE land[a].base \subseteq branch[TaskOf[a]]
    <3>1. (IF land[a].has THEN "compare" ELSE "lock") \in LandAt
      BY DEF LandAt
    <3>2. [land EXCEPT ![a].at = IF land[a].has THEN "compare" ELSE "lock",
                       ![a].new = branch[TaskOf[a]]] \in [Attempt -> Land]
      BY <1>1, <3>1, AtTypes
    <3>3. QED
      BY <1>1, <1>7, <2>1, <3>2 DEF ReadHead
  <2>2. CASE ~(land[a].base \subseteq branch[TaskOf[a]])
    BY <1>1, <1>7, <2>2, StopsTypes DEF ReadHead
  <2>3. QED
    BY <2>1, <2>2
<1>8. CASE TakeLock(a)
  <2>1. land' \in [Attempt -> Land]
    BY <1>1, <1>8, AtTypes DEF TakeLock, LandAt
  <2>2. lock' \in Lock
    BY <1>8 DEF TakeLock, Lock
  <2>3. QED
    BY <2>1, <2>2
<1>9. CASE Compare(a)
  <2>1. "ff" \in LandAt
    BY DEF LandAt
  <2>2. CASE StillMine(a)
    <3>1. [land EXCEPT ![a].at = "ff"] \in [Attempt -> Land]
      BY <1>1, <2>1, AtTypes
    <3>2. QED
      BY <1>1, <1>9, <2>2, <3>1 DEF Compare
  <2>3. CASE ~StillMine(a)
    BY <1>1, <1>9, <2>3 DEF Compare, Released
  <2>4. QED
    BY <2>2, <2>3
<1>10. CASE TryAgain(a)
  <2>1. CASE MoreTries(a)
    <3>1. /\ "target" \in LandAt
          /\ land[a].tries + 1 \in 0 .. MaxTries - 1
          /\ KeepsLock(a) \in BOOLEAN
      BY <1>1, <2>1, RunBranchAssumption DEF MoreTries, KeepsLock, Land, LandAt
    <3>2. [land EXCEPT ![a].at = "target", ![a].tries = @ + 1, ![a].has = KeepsLock(a)]
            \in [Attempt -> Land]
      BY <1>1, <3>1 DEF Land
    <3>3. QED
      BY <1>1, <1>10, <2>1, <3>2 DEF TryAgain, Released
  <2>2. CASE ~MoreTries(a)
    BY <1>1, <1>10, <2>2, StopsTypes DEF TryAgain
  <2>3. QED
    BY <2>1, <2>2
<1>11. CASE ReadAgain(a)
  BY <1>1, <1>11, AtTypes DEF ReadAgain, LandAt
<1>12. CASE Move(a)
  <2>1. "record" \in LandAt
    BY DEF LandAt
  <2>2. CASE FastForwards(a)
    <3>1. [land EXCEPT ![a].at = "record"] \in [Attempt -> Land]
      BY <1>1, <2>1, AtTypes
    <3>2. QED
      BY <1>1, <1>12, <2>2, <3>1 DEF Move
  <2>3. CASE ~FastForwards(a)
    BY <1>1, <1>12, <2>3, StopsTypes DEF Move
  <2>4. QED
    BY <2>2, <2>3
<1>13. CASE RecordLanded(a) \/ Reopen(a)
  BY <1>1, <1>13 DEF RecordLanded, Reopen, Released
<1>14. CASE UndoRebase(a)
  BY <1>1, <1>14, AtTypes DEF UndoRebase, LandAt
<1>15. CASE LandDies(a)
  BY <1>1, <1>15 DEF LandDies, Lock
<1>16. QED
  BY <1>2, <1>3, <1>4, <1>5, <1>6, <1>7, <1>8, <1>9, <1>10, <1>11, <1>12, <1>13, <1>14, <1>15
     DEF LandStep

\* The steps of a land keep every type.
LEMMA LandStepTypes ==
    ASSUME TypeOK, NEW a \in Attempt, LandStep(a) \/ LandDies(a)
    PROVE  TypeOK'
<1>1. land' \in [Attempt -> Land] /\ lock' \in Lock
  BY LandTypes
<1>2. TaskOf[a] \in Task /\ land[a] \in Land
  BY RunBranchAssumption DEF TypeOK
<1>3. /\ land[a].tip \in SUBSET Change /\ land[a].base \in SUBSET Change
      /\ land[a].new \in SUBSET Change
  BY <1>2 DEF Land
<1>4. target' \in SUBSET Change
  <2>1. CASE Move(a)
    BY <1>3, <2>1 DEF Move, TypeOK
  <2>2. CASE ~Move(a)
    BY <2>2 DEF LandStep, LandDies, FinishStarts, StartLand, StartFails, Mark, ReadTarget, Rebase,
       RebaseConflicts, CheckPasses, CheckFails, ReadHead, TakeLock, LockTimesOut, Compare,
       TryAgain, ReadAgain, RecordLanded, StageFails, UndoRebase, Reopen, git, TypeOK
  <2>3. QED
    BY <2>1, <2>2
<1>5. branch' \in [Task -> SUBSET Change] /\ dir' \in [Task -> BOOLEAN]
  <2>1. CASE Rebase(a)
    BY <1>2, <1>3, <2>1 DEF Rebase, TypeOK
  <2>2. CASE UndoRebase(a)
    BY <1>2, <1>3, <2>2 DEF UndoRebase, UndoTo, TypeOK
  <2>3. CASE ~Rebase(a) /\ ~UndoRebase(a)
    BY <2>3 DEF LandStep, LandDies, FinishStarts, StartLand, StartFails, Mark, ReadTarget,
       RebaseConflicts, CheckPasses, CheckFails, ReadHead, TakeLock, LockTimesOut, Compare,
       TryAgain, ReadAgain, Move, RecordLanded, StageFails, Reopen, git, TypeOK
  <2>4. QED
    BY <2>1, <2>2, <2>3
<1>6. wt' \in [Task -> WorktreeStatus] /\ landedAt' \in [Task -> SUBSET Change]
  <2>1. {"open", "landing", "landed"} \subseteq WorktreeStatus
    BY DEF WorktreeStatus, OpenWorktree, LandedWorktree
  <2>2. CASE StartLand(a) \/ StartFails(a) \/ Mark(a) \/ Reopen(a)
    BY <1>2, <2>1, <2>2 DEF StartLand, StartFails, Mark, Reopen, TypeOK
  <2>3. CASE RecordLanded(a)
    BY <1>2, <1>3, <2>1, <2>3 DEF RecordLanded, LandedHead, TypeOK
  <2>4. CASE ~(StartLand(a) \/ StartFails(a) \/ Mark(a) \/ Reopen(a) \/ RecordLanded(a))
    BY <2>4 DEF LandStep, LandDies, FinishStarts, ReadTarget, Rebase,
       RebaseConflicts, CheckPasses, CheckFails, ReadHead, TakeLock, LockTimesOut, Compare,
       TryAgain, ReadAgain, Move, StageFails, UndoRebase, ledger, TypeOK
  <2>5. QED
    BY <2>2, <2>3, <2>4
<1>7. /\ holder' \in [Task -> Attempt \cup {NoAttempt}] /\ cancelled' \in SUBSET Task
      /\ claimed' \in SUBSET Attempt /\ rm' \in [Task -> {"idle", "folder", "branch"}]
  BY DEF LandStep, LandDies, FinishStarts, StartLand, StartFails, Mark, ReadTarget, Rebase,
     RebaseConflicts, CheckPasses, CheckFails, ReadHead, TakeLock, LockTimesOut, Compare,
     TryAgain, ReadAgain, Move, RecordLanded, StageFails, UndoRebase, Reopen, ledger, TypeOK
<1>8. checked' \in SUBSET SUBSET Change /\ made' \in SUBSET Change
  <2>1. CASE CheckPasses(a)
    BY <1>2, <2>1 DEF CheckPasses, TypeOK
  <2>2. CASE ~CheckPasses(a)
    BY <2>2 DEF LandStep, LandDies, FinishStarts, StartLand, StartFails, Mark, ReadTarget, Rebase,
       RebaseConflicts, CheckFails, ReadHead, TakeLock, LockTimesOut, Compare,
       TryAgain, ReadAgain, Move, RecordLanded, StageFails, UndoRebase, Reopen, past, TypeOK
  <2>3. QED
    BY <2>1, <2>2
<1>9. QED
  BY <1>1, <1>4, <1>5, <1>6, <1>7, <1>8 DEF TypeOK

\* So do the steps of the tasks, of the attempts and of the cleanup.
LEMMA OtherTypes ==
    ASSUME TypeOK,
           \/ \E t \in Task : TaskStep(t) \/ Cleanup(t)
           \/ \E a \in Attempt : Work(a)
           \/ \E c \in Change : SharedCommit(c)
           \/ Age
    PROVE  TypeOK'
<1> {"open", "abandoned", "cleaned", "cleanup_failed"} \subseteq WorktreeStatus
  BY DEF WorktreeStatus, OpenWorktree, LandedWorktree
<1>1. ASSUME NEW t \in Task, TaskStep(t)
      PROVE  TypeOK'
  BY <1>1 DEF TaskStep, LoseTask, Cancel, RequeueByOperator, git, procs, past, TypeOK
<1>2. ASSUME NEW t \in Task, Cleanup(t)
      PROVE  TypeOK'
  BY <1>2 DEF Cleanup, StartCleanup, RemoveFolder, DeleteBranch, CleanupFails, CleanupDies,
     git, ledger, past, TypeOK
<1>3. ASSUME NEW a \in Attempt, Work(a)
      PROVE  TypeOK'
  <2>1. TaskOf[a] \in Task
    BY RunBranchAssumption
  <2>2. CASE Claim(a)
    BY <2>1, <2>2 DEF Claim, git, procs, past, TypeOK
  <2>3. CASE CreateWorktree(a)
    BY <2>1, <2>3 DEF CreateWorktree, procs, past, TypeOK
  <2>4. CASE \E c \in Change : Commit(a, c)
    BY <2>1, <2>4 DEF Commit, ledger, procs, TypeOK
  <2>5. QED
    BY <1>3, <2>2, <2>3, <2>4 DEF Work
<1>4. ASSUME NEW c \in Change, SharedCommit(c)
      PROVE  TypeOK'
  BY <1>4 DEF SharedCommit, ledger, procs, TypeOK
<1>5. CASE Age
  <2>1. [lock EXCEPT !.aged = TRUE] \in Lock
    BY DEF Lock, TypeOK
  <2>2. QED
    BY <1>5, <2>1 DEF Age, git, ledger, past, TypeOK
<1>6. QED
  BY <1>1, <1>2, <1>3, <1>4, <1>5

\* Every step keeps the types.
LEMMA StepTypes ==
    ASSUME TypeOK, [Next]_vars
    PROVE  TypeOK'
<1>1. CASE UNCHANGED vars
  BY <1>1 DEF vars, git, ledger, procs, past, TypeOK
<1>2. CASE Next
  BY <1>2, LandStepTypes, OtherTypes DEF Next
<1>3. QED
  BY <1>1, <1>2

LEMMA InitTypes == Init => TypeOK
BY NullTypes, RunBranchAssumption DEF Init, TypeOK, WorktreeStatus

\* Type correctness of landing.
THEOREM LandingTypeCorrect == Spec => []TypeOK
BY InitTypes, StepTypes, PTL DEF Spec

-----------------------------------------------------------------------------
(***************************************************************************)
(* The lock.                                                               *)
(***************************************************************************)

\* The guard that a land holds is in the lock, and it has one from its
\* comparison to its record.
LockInv ==
    /\ ~lock.aged
    /\ \A a \in Attempt : land[a].has => OwnsLock(a)
    /\ \A a \in Attempt : land[a].at \in UnderLock => land[a].has

\* A land that takes no lock, and lets go of its own or keeps it.
LEMMA KeepsOrReleases ==
    ASSUME LockInv, NEW a \in Attempt,
           \A b \in Attempt \ {a} : land'[b] = land[b],
           \/ lock' = lock /\ (land'[a].has => land[a].has)
           \/ lock' = Released(a) /\ ~land'[a].has,
           land'[a].at \in UnderLock => land'[a].has
    PROVE  LockInv'
<1>1. ~lock'.aged
  BY DEF LockInv, Released, Unlocked
<1>2. ASSUME NEW b \in Attempt, land'[b].has
      PROVE  lock'.by = b /\ lock'.alive
  <2>1. lock.by = b /\ lock.alive
    BY <1>2 DEF LockInv, OwnsLock
  <2>2. lock' = lock
    BY <1>2, <2>1 DEF LockInv, OwnsLock, Released
  <2>3. QED
    BY <2>1, <2>2
<1>3. QED
  BY <1>1, <1>2 DEF LockInv, OwnsLock

\* A stop drops the guard.
LEMMA StopsReleases ==
    ASSUME TypeOK, LockInv, NEW a \in Attempt, NEW why, Stops(a, why)
    PROVE  LockInv'
<1>1. land \in [Attempt -> Land]
  BY DEF TypeOK
<1>2. /\ \A b \in Attempt \ {a} : land'[b] = land[b]
      /\ ~land'[a].has /\ land'[a].at = "undo"
  BY <1>1 DEF Stops, Land
<1>3. QED
  BY <1>2, KeepsOrReleases DEF Stops, UnderLock

LEMMA LandLocks ==
    ASSUME TypeOK, LockInv, NEW a \in Attempt, LandStep(a) \/ LandDies(a)
    PROVE  LockInv'
<1>1. land \in [Attempt -> Land] /\ land[a] \in Land /\ ~NotLanding.has /\ NotLanding.at = "idle"
  BY DEF TypeOK, NotLanding
<1>2. CASE FinishStarts(a) \/ Mark(a) \/ Rebase(a) \/ CheckPasses(a) \/ UndoRebase(a)
  <2>1. /\ \A b \in Attempt \ {a} : land'[b] = land[b]
        /\ land'[a].has = land[a].has
        /\ land'[a].at \notin UnderLock
    BY <1>1, <1>2 DEF FinishStarts, Mark, Rebase, AfterRebase, CheckPasses, UndoRebase, UnderLock, Land
  <2>2. lock' = lock
    BY <1>2 DEF FinishStarts, Mark, Rebase, CheckPasses, UndoRebase
  <2>3. QED
    BY <2>1, <2>2, KeepsOrReleases
<1>3. CASE StartLand(a)
  <2>1. /\ \A b \in Attempt \ {a} : land'[b] = land[b]
        /\ land'[a].has => land[a].has
        /\ land'[a].at \notin UnderLock
    BY <1>1, <1>3 DEF StartLand, UnderLock, Land
  <2>2. QED
    BY <1>3, <2>1, KeepsOrReleases DEF StartLand
<1>4. CASE StartFails(a) \/ Reopen(a) \/ RecordLanded(a) \/ LandDies(a)
  <2>1. \A b \in Attempt \ {a} : land'[b] = land[b]
    BY <1>1, <1>4 DEF StartFails, Reopen, RecordLanded, LandDies
  <2>2. land'[a] = NotLanding
    BY <1>1, <1>4 DEF StartFails, Reopen, RecordLanded, LandDies
  <2>3. CASE LandDies(a)
    <3>1. ASSUME NEW b \in Attempt, land'[b].has
          PROVE  OwnsLock(b)'
      <4>1. b # a /\ OwnsLock(b)
        BY <1>1, <2>1, <2>2, <3>1 DEF LockInv
      <4>2. lock' = lock
        BY <2>3, <4>1 DEF LandDies, OwnsLock
      <4>3. QED
        BY <4>1, <4>2 DEF OwnsLock
    <3>2. ~lock'.aged
      BY <2>3 DEF LandDies, LockInv, TypeOK, Lock
    <3>3. \A b \in Attempt : land'[b].at \in UnderLock => land'[b].has
      BY <1>1, <2>1, <2>2 DEF LockInv, UnderLock
    <3>4. QED
      BY <3>1, <3>2, <3>3 DEF LockInv
  <2>4. CASE StartFails(a) \/ Reopen(a) \/ RecordLanded(a)
    BY <1>1, <2>1, <2>2, <2>4, KeepsOrReleases DEF StartFails, Reopen, RecordLanded, UnderLock
  <2>5. QED
    BY <1>4, <2>3, <2>4
<1>5. CASE ReadTarget(a)
  <2>1. /\ \A b \in Attempt \ {a} : land'[b] = land[b]
        /\ land'[a].has = land[a].has
        /\ land'[a].at \notin UnderLock
    BY <1>1, <1>5 DEF ReadTarget, UnderLock, Land
  <2>2. lock' = lock
    BY <1>5 DEF ReadTarget, LockInv, TypeOK, Lock
  <2>3. QED
    BY <2>1, <2>2, KeepsOrReleases
<1>6. CASE RebaseConflicts(a) \/ CheckFails(a) \/ LockTimesOut(a) \/ StageFails(a)
  BY <1>6, StopsReleases DEF RebaseConflicts, CheckFails, LockTimesOut, StageFails
<1>7. CASE ReadHead(a)
  <2>1. CASE land[a].base \subseteq branch[TaskOf[a]]
    <3>1. /\ \A b \in Attempt \ {a} : land'[b] = land[b]
          /\ land'[a].has = land[a].has
          /\ land'[a].at \in UnderLock => land[a].has
      BY <1>1, <1>7, <2>1 DEF ReadHead, UnderLock, Land
    <3>2. QED
      BY <1>7, <2>1, <3>1, KeepsOrReleases DEF ReadHead
  <2>2. CASE ~(land[a].base \subseteq branch[TaskOf[a]])
    BY <1>7, <2>2, StopsReleases DEF ReadHead
  <2>3. QED
    BY <2>1, <2>2
<1>8. CASE TakeLock(a)
  <2>1. \A b \in Attempt : ~land[b].has
    BY <1>8, RunBranchAssumption DEF TakeLock, Breakable, LockInv, OwnsLock
  <2>2. /\ \A b \in Attempt \ {a} : land'[b] = land[b]
        /\ land'[a].has
    BY <1>1, <1>8 DEF TakeLock, Land
  <2>3. lock'.by = a /\ lock'.alive /\ ~lock'.aged
    BY <1>8 DEF TakeLock
  <2>4. QED
    BY <2>1, <2>2, <2>3 DEF LockInv, OwnsLock
<1>9. CASE Compare(a)
  <2>1. CASE StillMine(a)
    <3>1. /\ \A b \in Attempt \ {a} : land'[b] = land[b]
          /\ land'[a].has = land[a].has
          /\ land[a].at = "compare"
      BY <1>1, <1>9, <2>1 DEF Compare, Land
    <3>2. QED
      BY <1>9, <2>1, <3>1, KeepsOrReleases DEF Compare, LockInv, UnderLock
  <2>2. CASE ~StillMine(a)
    BY <1>1, <1>9, <2>2, KeepsOrReleases DEF Compare, UnderLock
  <2>3. QED
    BY <2>1, <2>2
<1>10. CASE TryAgain(a)
  <2>1. CASE MoreTries(a)
    <3>1. land[a].has
      BY <1>10 DEF TryAgain, LockInv, UnderLock
    <3>2. /\ \A b \in Attempt \ {a} : land'[b] = land[b]
          /\ land'[a].at = "target"
      BY <1>1, <1>10, <2>1 DEF TryAgain, Land
    <3>3. QED
      BY <1>10, <2>1, <3>1, <3>2, KeepsOrReleases DEF TryAgain, KeepsLock, UnderLock
  <2>2. CASE ~MoreTries(a)
    BY <1>10, <2>2, StopsReleases DEF TryAgain
  <2>3. QED
    BY <2>1, <2>2
<1>11. CASE ReadAgain(a)
  <2>1. /\ \A b \in Attempt \ {a} : land'[b] = land[b]
        /\ land'[a].has = land[a].has
        /\ land[a].at = "ff"
    BY <1>1, <1>11 DEF ReadAgain, Land
  <2>2. QED
    BY <1>11, <2>1, KeepsOrReleases DEF ReadAgain, LockInv, UnderLock
<1>12. CASE Move(a)
  <2>1. CASE FastForwards(a)
    <3>1. /\ \A b \in Attempt \ {a} : land'[b] = land[b]
          /\ land'[a].has = land[a].has
          /\ land[a].at = "move"
      BY <1>1, <1>12, <2>1 DEF Move, Land
    <3>2. QED
      BY <1>12, <2>1, <3>1, KeepsOrReleases DEF Move, LockInv, UnderLock
  <2>2. CASE ~FastForwards(a)
    BY <1>12, <2>2, StopsReleases DEF Move
  <2>3. QED
    BY <2>1, <2>2
<1>13. QED
  BY <1>2, <1>3, <1>4, <1>5, <1>6, <1>7, <1>8, <1>9, <1>10, <1>11, <1>12 DEF LandStep

LEMMA StepLocks ==
    ASSUME TypeOK, LockInv, ~MayAge, [Next]_vars
    PROVE  LockInv'
<1>1. CASE \E a \in Attempt : LandStep(a) \/ LandDies(a)
  BY <1>1, LandLocks
<1>2. CASE ~(\E a \in Attempt : LandStep(a) \/ LandDies(a))
  <2>1. land' = land /\ lock' = lock
    BY <1>2 DEF Next, TaskStep, LoseTask, Cancel, RequeueByOperator, Work, Claim, CreateWorktree,
       Commit, SharedCommit, Age, Cleanup, StartCleanup, RemoveFolder, DeleteBranch,
       CleanupFails, CleanupDies, vars, procs
  <2>2. QED
    BY <2>1 DEF LockInv, OwnsLock
<1>3. QED
  BY <1>1, <1>2

LEMMA InitLocks == Init => LockInv
BY DEF Init, LockInv, Unlocked, NotLanding, UnderLock

LEMMA OneHasTheLock == LockInv => LandsGoInALine
BY DEF LockInv, OwnsLock, LandsGoInALine

\* While no lock reaches its age limit under a live holder, at most one land
\* is between its comparison and its record.
THEOREM OneAtATime ==
    ASSUME ~MayAge
    PROVE  Spec => []LandsGoInALine
<1>1. TypeOK /\ LockInv /\ [Next]_vars => TypeOK' /\ LockInv'
  BY StepTypes, StepLocks
<1>2. QED
  BY <1>1, InitTypes, InitLocks, OneHasTheLock, PTL DEF Spec

-----------------------------------------------------------------------------
(***************************************************************************)
(* The run branch.                                                         *)
(***************************************************************************)

\* From the wait for the lock on, the head that lands holds the run branch it
\* was rebased on, and after the comparison the run branch is still that one.
BaseInv ==
    \A a \in Attempt :
        /\ land[a].at \in {"lock"} \cup UnderLock => land[a].base \subseteq land[a].new
        /\ land[a].at \in {"ff", "move"} => target = land[a].base

\* A land that stops is at none of these stages.
LEMMA StopsBase ==
    ASSUME TypeOK, BaseInv, NEW a \in Attempt, NEW why, Stops(a, why), target' = target
    PROVE  BaseInv'
<1>1. /\ \A b \in Attempt \ {a} : land'[b] = land[b]
      /\ land'[a].at = "undo"
  BY DEF Stops, TypeOK, Land
<1>2. QED
  BY <1>1 DEF BaseInv, UnderLock

\* The steps of a land that move no branch.
LEMMA LandBase ==
    ASSUME TypeOK, BaseInv, NEW a \in Attempt, LandStep(a) \/ LandDies(a), ~Move(a)
    PROVE  BaseInv'
<1>1. land \in [Attempt -> Land] /\ land[a] \in Land /\ NotLanding.at = "idle"
  BY DEF TypeOK, NotLanding
<1>2. target' = target
  BY DEF LandStep, LandDies, FinishStarts, StartLand, StartFails, Mark, ReadTarget, Rebase,
     RebaseConflicts, CheckPasses, CheckFails, ReadHead, TakeLock, LockTimesOut, Compare,
     TryAgain, ReadAgain, RecordLanded, StageFails, UndoRebase, Reopen, git
<1>3. CASE RebaseConflicts(a) \/ CheckFails(a) \/ LockTimesOut(a) \/ StageFails(a)
  BY <1>2, <1>3, StopsBase DEF RebaseConflicts, CheckFails, LockTimesOut, StageFails
<1>4. CASE FinishStarts(a) \/ StartLand(a) \/ StartFails(a) \/ Mark(a) \/ ReadTarget(a)
           \/ Rebase(a) \/ CheckPasses(a) \/ UndoRebase(a) \/ Reopen(a) \/ RecordLanded(a)
           \/ LandDies(a)
  <2>1. \A b \in Attempt \ {a} : land'[b] = land[b]
    BY <1>1, <1>4 DEF FinishStarts, StartLand, StartFails, Mark, ReadTarget, Rebase, AfterRebase,
       CheckPasses, UndoRebase, Reopen, RecordLanded, LandDies
  <2>2. land'[a].at \in {"idle", "start", "mark", "target", "rebase", "check", "head", "reopen"}
    <3>1. CASE FinishStarts(a) \/ StartLand(a) \/ StartFails(a) \/ Mark(a)
      BY <1>1, <3>1 DEF FinishStarts, StartLand, StartFails, Mark, Land
    <3>2. CASE ReadTarget(a) \/ Rebase(a) \/ CheckPasses(a) \/ UndoRebase(a)
      BY <1>1, <3>2 DEF ReadTarget, Rebase, AfterRebase, CheckPasses, UndoRebase, Land
    <3>3. CASE Reopen(a) \/ RecordLanded(a) \/ LandDies(a)
      BY <1>1, <3>3 DEF Reopen, RecordLanded, LandDies
    <3>4. QED
      BY <1>4, <3>1, <3>2, <3>3
  <2>3. QED
    BY <1>2, <2>1, <2>2 DEF BaseInv, UnderLock
<1>5. CASE ReadHead(a)
  <2>1. CASE land[a].base \subseteq branch[TaskOf[a]]
    <3>1. /\ \A b \in Attempt \ {a} : land'[b] = land[b]
          /\ land'[a].base = land[a].base
          /\ land'[a].new = branch[TaskOf[a]]
          /\ land'[a].at \in {"compare", "lock"}
      BY <1>1, <1>5, <2>1 DEF ReadHead, Land
    <3>2. QED
      BY <1>2, <2>1, <3>1 DEF BaseInv
  <2>2. CASE ~(land[a].base \subseteq branch[TaskOf[a]])
    BY <1>2, <1>5, <2>2, StopsBase DEF ReadHead
  <2>3. QED
    BY <2>1, <2>2
<1>6. CASE TakeLock(a) \/ ReadAgain(a)
  <2>1. /\ \A b \in Attempt \ {a} : land'[b] = land[b]
        /\ land'[a].base = land[a].base /\ land'[a].new = land[a].new
        /\ \/ land[a].at = "lock" /\ land'[a].at = "compare"
           \/ land[a].at = "ff" /\ land'[a].at = "move"
    BY <1>1, <1>6 DEF TakeLock, ReadAgain, Land
  <2>2. QED
    BY <1>2, <2>1 DEF BaseInv, UnderLock
<1>7. CASE Compare(a)
  <2>1. CASE StillMine(a)
    <3>1. /\ \A b \in Attempt \ {a} : land'[b] = land[b]
          /\ land'[a].base = land[a].base /\ land'[a].new = land[a].new
          /\ land[a].at = "compare" /\ target = land[a].base
      BY <1>1, <1>7, <2>1 DEF Compare, Unmoved, Land
    <3>2. QED
      BY <1>2, <3>1 DEF BaseInv, UnderLock
  <2>2. CASE ~StillMine(a)
    <3>1. /\ \A b \in Attempt \ {a} : land'[b] = land[b]
          /\ land'[a].at = "idle"
      BY <1>1, <1>7, <2>2 DEF Compare
    <3>2. QED
      BY <1>2, <3>1 DEF BaseInv, UnderLock
  <2>3. QED
    BY <2>1, <2>2
<1>8. CASE TryAgain(a)
  <2>1. CASE MoreTries(a)
    <3>1. /\ \A b \in Attempt \ {a} : land'[b] = land[b]
          /\ land'[a].at = "target"
      BY <1>1, <1>8, <2>1 DEF TryAgain, Land
    <3>2. QED
      BY <1>2, <3>1 DEF BaseInv, UnderLock
  <2>2. CASE ~MoreTries(a)
    BY <1>2, <1>8, <2>2, StopsBase DEF TryAgain
  <2>3. QED
    BY <2>1, <2>2
<1>9. QED
  BY <1>3, <1>4, <1>5, <1>6, <1>7, <1>8 DEF LandStep

\* The one land that moves the run branch is the one under the lock.
LEMMA MoveBase ==
    ASSUME TypeOK, BaseInv, LandsGoInALine, NEW a \in Attempt, Move(a)
    PROVE  BaseInv'
<1>1. land \in [Attempt -> Land]
  BY DEF TypeOK
<1>2. CASE FastForwards(a)
  <2>1. /\ \A b \in Attempt \ {a} : land'[b] = land[b]
        /\ land'[a].base = land[a].base /\ land'[a].new = land[a].new
        /\ land[a].at = "move" /\ land'[a].at = "record"
    BY <1>1, <1>2 DEF Move, Land
  <2>2. \A b \in Attempt \ {a} : land[b].at \notin UnderLock
    BY <2>1 DEF LandsGoInALine, UnderLock
  <2>3. QED
    BY <2>1, <2>2 DEF BaseInv, UnderLock
<1>3. CASE ~FastForwards(a)
  BY <1>3, StopsBase DEF Move
<1>4. QED
  BY <1>2, <1>3

LEMMA StepBase ==
    ASSUME TypeOK, BaseInv, LandsGoInALine, ~CheckedOut, [Next]_vars
    PROVE  BaseInv'
<1>1. CASE \E a \in Attempt : LandStep(a) \/ LandDies(a)
  BY <1>1, LandBase, MoveBase
<1>2. CASE ~(\E a \in Attempt : LandStep(a) \/ LandDies(a))
  <2>1. land' = land /\ target' = target
    BY <1>2 DEF Next, TaskStep, LoseTask, Cancel, RequeueByOperator, Work, Claim, CreateWorktree,
       Commit, SharedCommit, Age, Cleanup, StartCleanup, RemoveFolder, DeleteBranch,
       CleanupFails, CleanupDies, vars, git, procs
  <2>2. QED
    BY <2>1 DEF BaseInv
<1>3. QED
  BY <1>1, <1>2

LEMMA InitBase == Init => BaseInv
BY DEF Init, BaseInv, NotLanding, UnderLock

\* No step takes a change off the run branch.
LEMMA StepStays ==
    ASSUME TypeOK, CheckedOut \/ BaseInv, [Next]_vars
    PROVE  target \subseteq target'
<1>1. ASSUME NEW a \in Attempt, Move(a)
      PROVE  target \subseteq target'
  <2>1. CASE CheckedOut
    BY <1>1, <2>1 DEF Move, FastForwards
  <2>2. CASE ~CheckedOut
    BY <1>1, <2>2 DEF Move, BaseInv, UnderLock
  <2>3. QED
    BY <2>1, <2>2
<1>2. ASSUME NEW c \in Change, SharedCommit(c)
      PROVE  target \subseteq target'
  BY <1>2 DEF SharedCommit
<1>3. CASE ~(\E a \in Attempt : Move(a)) /\ ~(\E c \in Change : SharedCommit(c))
  BY <1>3 DEF Next, TaskStep, LoseTask, Cancel, RequeueByOperator, Work, Claim, CreateWorktree,
     Commit, Age, Cleanup, StartCleanup, RemoveFolder, DeleteBranch, CleanupFails, CleanupDies,
     LandStep, LandDies, FinishStarts, StartLand, StartFails, Mark, ReadTarget, Rebase,
     RebaseConflicts, CheckPasses, CheckFails, ReadHead, TakeLock, LockTimesOut, Compare,
     TryAgain, ReadAgain, RecordLanded, StageFails, UndoRebase, Reopen, vars, git
<1>4. QED
  BY <1>1, <1>2, <1>3

\* The inductive invariant of landing: where the run branch is not checked out
\* nothing but the lock keeps two lands apart.
BranchInv ==
    /\ TypeOK
    /\ ~CheckedOut => LockInv /\ BaseInv

LEMMA StepBranch ==
    ASSUME CheckedOut \/ ~MayAge, BranchInv, [Next]_vars
    PROVE  BranchInv' /\ target \subseteq target'
<1>1. TypeOK'
  BY StepTypes DEF BranchInv
<1>2. ASSUME ~CheckedOut
      PROVE  LockInv' /\ BaseInv'
  BY <1>2, StepLocks, StepBase, OneHasTheLock DEF BranchInv
<1>3. target \subseteq target'
  BY StepStays DEF BranchInv
<1>4. QED
  BY <1>1, <1>2, <1>3 DEF BranchInv

LEMMA InitBranch == Init => BranchInv
BY InitTypes, InitLocks, InitBase DEF BranchInv

\* What is on the run branch stays on it: always while the branch is checked
\* out, where git merges forward only; elsewhere while no lock reaches its
\* age limit under a live holder.
THEOREM NeverTakenBack ==
    ASSUME CheckedOut \/ ~MayAge
    PROVE  Spec => LandedStays
<1>1. BranchInv /\ [Next]_vars => BranchInv' /\ [target \subseteq target']_vars
  BY StepBranch
<1>2. QED
  BY <1>1, InitBranch, PTL DEF Spec, LandedStays

\* A land that records has moved the run branch to its head, and what was
\* recorded for a worktree is on the run branch.
OnInv ==
    /\ \A a \in Attempt : land[a].at = "record" => land[a].new \subseteq target
    /\ \A t \in Task : landedAt[t] \subseteq target

LEMMA LandOn ==
    ASSUME TypeOK, OnInv, NEW a \in Attempt, LandStep(a) \/ LandDies(a), ~Move(a)
    PROVE  OnInv'
<1>1. land \in [Attempt -> Land] /\ land[a] \in Land /\ NotLanding.at = "idle"
  BY DEF TypeOK, NotLanding
<1>2. target' = target
  BY DEF LandStep, LandDies, FinishStarts, StartLand, StartFails, Mark, ReadTarget, Rebase,
     RebaseConflicts, CheckPasses, CheckFails, ReadHead, TakeLock, LockTimesOut, Compare,
     TryAgain, ReadAgain, RecordLanded, StageFails, UndoRebase, Reopen, git
<1>3. (\A b \in Attempt \ {a} : land'[b] = land[b]) /\ land'[a].at # "record"
  <2>1. CASE FinishStarts(a) \/ StartLand(a) \/ StartFails(a) \/ Mark(a) \/ ReadTarget(a)
    BY <1>1, <2>1 DEF FinishStarts, StartLand, StartFails, Mark, ReadTarget, Land
  <2>2. CASE Rebase(a) \/ CheckPasses(a) \/ UndoRebase(a) \/ ReadAgain(a) \/ TakeLock(a)
    BY <1>1, <2>2 DEF Rebase, AfterRebase, CheckPasses, UndoRebase, ReadAgain, TakeLock, Land
  <2>3. CASE Reopen(a) \/ RecordLanded(a) \/ LandDies(a)
    BY <1>1, <2>3 DEF Reopen, RecordLanded, LandDies
  <2>4. CASE RebaseConflicts(a) \/ CheckFails(a) \/ LockTimesOut(a) \/ StageFails(a)
    BY <1>1, <2>4 DEF RebaseConflicts, CheckFails, LockTimesOut, StageFails, Stops, Land
  <2>5. CASE ReadHead(a)
    BY <1>1, <2>5 DEF ReadHead, Stops, Land
  <2>6. CASE Compare(a)
    BY <1>1, <2>6 DEF Compare, Land
  <2>7. CASE TryAgain(a)
    BY <1>1, <2>7 DEF TryAgain, Stops, Land
  <2>8. QED
    BY <2>1, <2>2, <2>3, <2>4, <2>5, <2>6, <2>7 DEF LandStep
<1>4. CASE RecordLanded(a)
  BY <1>2, <1>3, <1>4 DEF RecordLanded, LandedHead, OnInv, TypeOK
<1>5. CASE ~RecordLanded(a)
  <2>1. landedAt' = landedAt
    BY <1>5 DEF LandStep, LandDies, FinishStarts, StartLand, StartFails, Mark, ReadTarget, Rebase,
       RebaseConflicts, CheckPasses, CheckFails, ReadHead, TakeLock, LockTimesOut, Compare,
       TryAgain, ReadAgain, Move, StageFails, UndoRebase, Reopen, ledger
  <2>2. QED
    BY <1>2, <1>3, <2>1 DEF OnInv
<1>6. QED
  BY <1>4, <1>5

LEMMA MoveOn ==
    ASSUME TypeOK, OnInv, target \subseteq target', NEW a \in Attempt, Move(a)
    PROVE  OnInv'
<1>1. land \in [Attempt -> Land] /\ landedAt' = landedAt
  BY DEF TypeOK, Move, ledger
<1>2. /\ \A b \in Attempt \ {a} : land'[b] = land[b]
      /\ land'[a].at = "record" => land'[a].new \subseteq target'
  <2>1. CASE FastForwards(a)
    BY <1>1, <2>1 DEF Move, Land
  <2>2. CASE ~FastForwards(a)
    BY <1>1, <2>2 DEF Move, Stops, Land
  <2>3. QED
    BY <2>1, <2>2
<1>3. QED
  BY <1>1, <1>2 DEF OnInv

LEMMA StepOn ==
    ASSUME TypeOK, OnInv, target \subseteq target', [Next]_vars
    PROVE  OnInv'
<1>1. CASE \E a \in Attempt : LandStep(a) \/ LandDies(a)
  BY <1>1, LandOn, MoveOn
<1>2. CASE \E a \in Attempt : CreateWorktree(a)
  BY <1>2 DEF CreateWorktree, OnInv, TypeOK, procs
<1>3. CASE ~(\E a \in Attempt : LandStep(a) \/ LandDies(a) \/ CreateWorktree(a))
  <2>1. land' = land /\ landedAt' = landedAt
    BY <1>3 DEF Next, TaskStep, LoseTask, Cancel, RequeueByOperator, Work, Claim,
       Commit, SharedCommit, Age, Cleanup, StartCleanup, RemoveFolder, DeleteBranch,
       CleanupFails, CleanupDies, vars, ledger, procs
  <2>2. QED
    BY <2>1 DEF OnInv
<1>4. QED
  BY <1>1, <1>2, <1>3

LEMMA InitOn == Init => OnInv
BY DEF Init, OnInv, NotLanding

\* The commit a worktree landed at is on the run branch for good, under the
\* same assumption.
THEOREM RecordedIsLanded ==
    ASSUME CheckedOut \/ ~MayAge
    PROVE  Spec => []LandedIsOnTarget
<1>1. BranchInv /\ OnInv /\ [Next]_vars => BranchInv' /\ OnInv'
  BY StepBranch, StepOn DEF BranchInv
<1>2. OnInv => LandedIsOnTarget
  BY DEF OnInv, LandedIsOnTarget
<1>3. QED
  BY <1>1, <1>2, InitBranch, InitOn, PTL DEF Spec

-----------------------------------------------------------------------------
(***************************************************************************)
(* The branches.                                                           *)
(***************************************************************************)

\* A worktree that was never made or is cleaned has no folder, and nothing
\* that the run branch lacks; a row in cleanup is neither of these, and its
\* folder is gone before its branch.
CleanInv ==
    \A t \in Task :
        /\ wt[t] \in {"none", "cleaned"} => ~dir[t] /\ branch[t] \subseteq target
        /\ rm[t] # "idle" => wt[t] \notin {"none", "cleaned"}
        /\ rm[t] = "branch" => ~dir[t]

\* The stages of a land that has noted the tip of its branch.
Marked == LandAt \ {"idle", "start", "mark"}

\* The tip that a land resets to and the branch differ only in what is on the
\* run branch, which holds all that the land rebases on.
TipsInv ==
    \A a \in Attempt :
        /\ land[a].base \subseteq target
        /\ land[a].at \in Marked => land[a].tip \cup target = branch[TaskOf[a]] \cup target

\* WorkKept, change by change.
ChangesKept == \A c \in made : c \in target \/ \E t \in Task : c \in branch[t]

KeptInv == CleanInv /\ TipsInv /\ ChangesKept

LEMMA KeptOneByOne == ChangesKept <=> WorkKept
BY DEF ChangesKept, WorkKept

\* What a step of a land may do to its own record.
LEMMA LandFrame ==
    ASSUME TypeOK, NEW a \in Attempt, LandStep(a) \/ LandDies(a)
    PROVE  /\ \A b \in Attempt \ {a} : land'[b] = land[b]
           /\ land'[a].base \subseteq land[a].base \cup target
           /\ land'[a].at \in Marked =>
                 \/ Mark(a) /\ land'[a].tip = branch[TaskOf[a]]
                 \/ land[a].at \in Marked /\ land'[a].tip = land[a].tip
<1>1. land \in [Attempt -> Land] /\ land[a] \in Land
  BY DEF TypeOK
<1>2. NotLanding.base = {} /\ NotLanding.at = "idle"
  BY DEF NotLanding
<1>3. CASE FinishStarts(a) \/ StartLand(a) \/ StartFails(a)
  BY <1>1, <1>2, <1>3 DEF FinishStarts, StartLand, StartFails, Land, Marked
<1>4. CASE Mark(a)
  BY <1>1, <1>4 DEF Mark, Land
<1>5. CASE ReadTarget(a) \/ Rebase(a) \/ CheckPasses(a) \/ UndoRebase(a)
  BY <1>1, <1>5 DEF ReadTarget, Rebase, AfterRebase, CheckPasses, UndoRebase, Land, LandAt, Marked
<1>6. CASE RebaseConflicts(a) \/ CheckFails(a) \/ LockTimesOut(a) \/ StageFails(a)
  BY <1>1, <1>6 DEF RebaseConflicts, CheckFails, LockTimesOut, StageFails, Stops, Land, LandAt, Marked
<1>7. CASE ReadHead(a)
  BY <1>1, <1>7 DEF ReadHead, Stops, Land, LandAt, Marked
<1>8. CASE TakeLock(a) \/ ReadAgain(a)
  BY <1>1, <1>8 DEF TakeLock, ReadAgain, Land, LandAt, Marked
<1>9. CASE Compare(a)
  BY <1>1, <1>2, <1>9 DEF Compare, Land, LandAt, Marked
<1>10. CASE TryAgain(a)
  BY <1>1, <1>10 DEF TryAgain, Stops, Land, LandAt, Marked
<1>11. CASE Move(a)
  BY <1>1, <1>11 DEF Move, Stops, Land, LandAt, Marked
<1>12. CASE RecordLanded(a) \/ Reopen(a) \/ LandDies(a)
  BY <1>1, <1>2, <1>12 DEF RecordLanded, Reopen, LandDies, Marked
<1>13. QED
  BY <1>3, <1>4, <1>5, <1>6, <1>7, <1>8, <1>9, <1>10, <1>11, <1>12 DEF LandStep

\* What a step of a land may do to its worktree and to its branch.
LEMMA LandGit ==
    ASSUME TypeOK, NEW a \in Attempt, LandStep(a) \/ LandDies(a)
    PROVE  /\ dir' = dir /\ rm' = rm /\ made' = made
           /\ \A t \in Task : wt'[t] \in {"none", "cleaned"} => wt'[t] = wt[t]
           /\ \/ branch' = branch
              \/ /\ dir[TaskOf[a]] /\ land[a].at # "idle"
                 /\ branch' = [branch EXCEPT ![TaskOf[a]] = @ \cup land[a].base]
              \/ /\ dir[TaskOf[a]] /\ land[a].at \in Marked
                 /\ branch' = [branch EXCEPT ![TaskOf[a]] = land[a].tip]
<1>1. dir' = dir /\ rm' = rm /\ made' = made
  BY DEF LandStep, LandDies, FinishStarts, StartLand, StartFails, Mark, ReadTarget, Rebase,
     RebaseConflicts, CheckPasses, CheckFails, ReadHead, TakeLock, LockTimesOut, Compare,
     TryAgain, ReadAgain, Move, RecordLanded, StageFails, UndoRebase, Reopen, git, past
<1>2. \A t \in Task : wt'[t] \in {"none", "cleaned"} => wt'[t] = wt[t]
  <2>1. CASE StartLand(a) \/ StartFails(a) \/ Mark(a) \/ Reopen(a) \/ RecordLanded(a)
    BY <2>1 DEF StartLand, StartFails, Mark, Reopen, RecordLanded, TypeOK
  <2>2. CASE ~(StartLand(a) \/ StartFails(a) \/ Mark(a) \/ Reopen(a) \/ RecordLanded(a))
    BY <2>2 DEF LandStep, LandDies, FinishStarts, ReadTarget, Rebase,
       RebaseConflicts, CheckPasses, CheckFails, ReadHead, TakeLock, LockTimesOut, Compare,
       TryAgain, ReadAgain, Move, StageFails, UndoRebase, ledger
  <2>3. QED
    BY <2>1, <2>2
<1>3. CASE Rebase(a)
  BY <1>1, <1>2, <1>3 DEF Rebase
<1>4. CASE UndoRebase(a)
  <2>1. land[a].at \in Marked
    BY <1>4 DEF UndoRebase, Marked, LandAt
  <2>2. QED
    BY <1>1, <1>2, <1>4, <2>1 DEF UndoRebase, UndoTo
<1>5. CASE ~Rebase(a) /\ ~UndoRebase(a)
  <2>1. branch' = branch
    BY <1>5 DEF LandStep, LandDies, FinishStarts, StartLand, StartFails, Mark, ReadTarget,
       RebaseConflicts, CheckPasses, CheckFails, ReadHead, TakeLock, LockTimesOut, Compare,
       TryAgain, ReadAgain, Move, RecordLanded, StageFails, Reopen, git
  <2>2. QED
    BY <1>1, <1>2, <2>1
<1>6. QED
  BY <1>3, <1>4, <1>5

\* The steps of a land lose nothing: a rebase adds what is on the run branch,
\* and a reset leaves out nothing else.
LEMMA LandKeeps ==
    ASSUME TypeOK, KeptInv, target \subseteq target',
           NEW a \in Attempt, LandStep(a) \/ LandDies(a)
    PROVE  KeptInv'
<1> DEFINE t == TaskOf[a]
<1>1. t \in Task /\ branch \in [Task -> SUBSET Change] /\ \A b \in Attempt : TaskOf[b] \in Task
  BY RunBranchAssumption DEF TypeOK
<1>2. dir' = dir /\ rm' = rm /\ made' = made
  BY LandGit
<1>3. \A u \in Task \ {t} : branch'[u] = branch[u]
  BY <1>1, LandGit
<1>4. branch'[t] \cup target' = branch[t] \cup target'
  <2>1. CASE branch' = branch
    BY <2>1
  <2>2. CASE branch' = [branch EXCEPT ![t] = @ \cup land[a].base]
    <3>1. land[a].base \subseteq target
      BY DEF KeptInv, TipsInv
    <3>2. QED
      BY <1>1, <2>2, <3>1
  <2>3. CASE land[a].at \in Marked /\ branch' = [branch EXCEPT ![t] = land[a].tip]
    <3>1. land[a].tip \cup target = branch[t] \cup target
      BY <2>3 DEF KeptInv, TipsInv
    <3>2. QED
      BY <1>1, <2>3, <3>1
  <2>4. QED
    BY <2>1, <2>2, <2>3, LandGit
<1>5. CleanInv'
  <2> SUFFICES ASSUME NEW u \in Task
               PROVE  /\ wt'[u] \in {"none", "cleaned"} => ~dir'[u] /\ branch'[u] \subseteq target'
                      /\ rm'[u] # "idle" => wt'[u] \notin {"none", "cleaned"}
                      /\ rm'[u] = "branch" => ~dir'[u]
    BY DEF CleanInv
  <2>1. wt'[u] \in {"none", "cleaned"} => wt'[u] = wt[u]
    BY LandGit
  <2>2. ~dir[u] => branch'[u] = branch[u]
    BY <1>1, LandGit
  <2>3. QED
    BY <1>2, <2>1, <2>2 DEF KeptInv, CleanInv
<1>6. TipsInv'
  <2> SUFFICES ASSUME NEW b \in Attempt
               PROVE  /\ land'[b].base \subseteq target'
                      /\ land'[b].at \in Marked =>
                            land'[b].tip \cup target' = branch'[TaskOf[b]] \cup target'
    BY DEF TipsInv
  <2>1. /\ land[b].base \subseteq target
        /\ land[b].at \in Marked => land[b].tip \cup target = branch[TaskOf[b]] \cup target
    BY DEF KeptInv, TipsInv
  <2>2. branch'[TaskOf[b]] \cup target' = branch[TaskOf[b]] \cup target'
    BY <1>1, <1>3, <1>4
  <2>3. land'[b].base \subseteq target'
    BY <2>1, LandFrame
  <2>4. ASSUME land'[b].at \in Marked
        PROVE  land'[b].tip \cup target' = branch[TaskOf[b]] \cup target'
    <3>1. \/ land'[b].tip = branch[TaskOf[b]]
          \/ land[b].at \in Marked /\ land'[b].tip = land[b].tip
      BY <2>4, LandFrame
    <3>2. QED
      BY <2>1, <3>1
  <2>5. QED
    BY <2>2, <2>3, <2>4
<1>7. ChangesKept'
  <2> SUFFICES ASSUME NEW c \in made
               PROVE  c \in target' \/ \E u \in Task : c \in branch'[u]
    BY <1>2 DEF ChangesKept
  <2>1. CASE c \in target
    BY <2>1
  <2>2. ASSUME NEW u \in Task, c \in branch[u]
        PROVE  c \in target' \/ \E v \in Task : c \in branch'[v]
    BY <1>1, <1>3, <1>4, <2>2
  <2>3. QED
    BY <2>1, <2>2 DEF KeptInv, ChangesKept
<1>8. QED
  BY <1>5, <1>6, <1>7 DEF KeptInv

\* So do the steps of the tasks, of the attempts and of the cleanup: while
\* worktrees are quiet a commit falls between the lands, and only a branch that
\* is on the run branch is deleted.
LEMMA OthersKeep ==
    ASSUME TypeOK, KeptInv, Quiet,
           \/ \E t \in Task : TaskStep(t) \/ Cleanup(t)
           \/ \E a \in Attempt : Work(a)
           \/ \E c \in Change : SharedCommit(c)
           \/ Age
    PROVE  KeptInv'
<1>1. /\ branch \in [Task -> SUBSET Change] /\ dir \in [Task -> BOOLEAN]
      /\ wt \in [Task -> WorktreeStatus]
      /\ rm \in [Task -> {"idle", "folder", "branch"}]
      /\ \A a \in Attempt : TaskOf[a] \in Task
  BY RunBranchAssumption DEF TypeOK
<1>2. ASSUME UNCHANGED <<git, land, rm, made>>,
             \A t \in Task : wt'[t] \in {"none", "cleaned"} => wt'[t] = wt[t]
      PROVE  KeptInv'
  BY <1>2 DEF KeptInv, CleanInv, TipsInv, ChangesKept, git
<1>3. ASSUME NEW t \in Task, TaskStep(t)
      PROVE  KeptInv'
  <2>1. UNCHANGED <<git, land, rm, made>>
    BY <1>3 DEF TaskStep, LoseTask, Cancel, RequeueByOperator, procs, past
  <2>2. \A u \in Task : wt'[u] \in {"none", "cleaned"} => wt'[u] = wt[u]
    BY <1>1, <1>3 DEF TaskStep, LoseTask, Cancel, RequeueByOperator
  <2>3. QED
    BY <1>2, <2>1, <2>2
<1>4. ASSUME NEW t \in Task, Cleanup(t)
      PROVE  KeptInv'
  <2>1. CASE StartCleanup(t) \/ CleanupDies(t)
    BY <1>1, <2>1 DEF StartCleanup, CleanupDies, LandedWorktree, KeptInv, CleanInv, TipsInv,
       ChangesKept, git, ledger, past
  <2>2. CASE RemoveFolder(t)
    BY <1>1, <2>2 DEF RemoveFolder, KeptInv, CleanInv, TipsInv, ChangesKept, ledger, past
  <2>3. CASE CleanupFails(t)
    BY <1>1, <2>3 DEF CleanupFails, KeptInv, CleanInv, TipsInv, ChangesKept, git, past
  <2>4. CASE DeleteBranch(t)
    <3>1. /\ branch[t] \subseteq target /\ ~dir[t]
          /\ branch' = [branch EXCEPT ![t] = {}]
          /\ wt' = [wt EXCEPT ![t] = "cleaned"] /\ rm' = [rm EXCEPT ![t] = "idle"]
          /\ UNCHANGED <<target, dir, land, made>>
      BY <2>4 DEF DeleteBranch, DeletesBranch, KeptInv, CleanInv, past
    <3>2. CleanInv'
      BY <1>1, <3>1 DEF KeptInv, CleanInv
    <3>3. TipsInv'
      BY <1>1, <3>1 DEF KeptInv, TipsInv
    <3>4. ChangesKept'
      BY <1>1, <3>1 DEF KeptInv, ChangesKept
    <3>5. QED
      BY <3>2, <3>3, <3>4 DEF KeptInv
  <2>5. QED
    BY <1>4, <2>1, <2>2, <2>3, <2>4 DEF Cleanup
<1>5. ASSUME NEW a \in Attempt, Claim(a)
      PROVE  KeptInv'
  BY <1>2, <1>5 DEF Claim, procs, past
<1>6. ASSUME NEW a \in Attempt, CreateWorktree(a)
      PROVE  KeptInv'
  <2> DEFINE t == TaskOf[a]
  <2>1. /\ t \in Task /\ branch[t] \subseteq target /\ rm[t] = "idle"
        /\ branch' = [branch EXCEPT ![t] = target] /\ dir' = [dir EXCEPT ![t] = TRUE]
        /\ wt' = [wt EXCEPT ![t] = "open"]
        /\ UNCHANGED <<target, land, rm, made>>
    BY <1>1, <1>6 DEF CreateWorktree, KeptInv, CleanInv, procs, past
  <2>2. CleanInv'
    BY <1>1, <2>1 DEF KeptInv, CleanInv
  <2>3. TipsInv'
    BY <1>1, <2>1 DEF KeptInv, TipsInv
  <2>4. ChangesKept'
    BY <1>1, <2>1 DEF KeptInv, ChangesKept
  <2>5. QED
    BY <2>2, <2>3, <2>4 DEF KeptInv
<1>7. ASSUME NEW a \in Attempt, NEW c \in Change, Commit(a, c)
      PROVE  KeptInv'
  <2> DEFINE t == TaskOf[a]
  <2>1. /\ t \in Task /\ dir[t]
        /\ branch' = [branch EXCEPT ![t] = @ \cup {c}] /\ made' = made \cup {c}
        /\ UNCHANGED <<target, dir, wt, land, rm>>
    BY <1>1, <1>7 DEF Commit, ledger, procs
  <2>2. \A b \in Attempt : TaskOf[b] = t => land[b].at \notin Marked
    BY <1>7 DEF Commit, LandsIn, Marked
  <2>3. CleanInv'
    BY <1>1, <2>1 DEF KeptInv, CleanInv
  <2>4. TipsInv'
    BY <1>1, <2>1, <2>2 DEF KeptInv, TipsInv
  <2>5. ChangesKept'
    BY <1>1, <2>1 DEF KeptInv, ChangesKept
  <2>6. QED
    BY <2>3, <2>4, <2>5 DEF KeptInv
<1>8. ASSUME NEW c \in Change, SharedCommit(c)
      PROVE  KeptInv'
  BY <1>8 DEF SharedCommit, KeptInv, CleanInv, TipsInv, ChangesKept, ledger, procs
<1>9. CASE Age
  BY <1>2, <1>9 DEF Age, ledger, past
<1>10. QED
  BY <1>3, <1>4, <1>5, <1>6, <1>7, <1>8, <1>9 DEF Work

LEMMA StepKeeps ==
    ASSUME TypeOK, KeptInv, Quiet, target \subseteq target', [Next]_vars
    PROVE  KeptInv'
<1>1. CASE UNCHANGED vars
  BY <1>1 DEF vars, git, ledger, procs, past, KeptInv, CleanInv, TipsInv, ChangesKept
<1>2. CASE Next
  BY <1>2, LandKeeps, OthersKeep DEF Next
<1>3. QED
  BY <1>1, <1>2

LEMMA InitKept == Init => KeptInv
BY DEF Init, KeptInv, CleanInv, TipsInv, ChangesKept, NotLanding, Marked

\* No commit is lost to a reset, a crash or a cleanup, whoever lands in a
\* worktree and however many: nobody commits in it while a land runs there, and
\* no lock that keeps two lands apart reaches its age limit.
THEOREM CommitsAreKept ==
    ASSUME Quiet, CheckedOut \/ ~MayAge
    PROVE  Spec => []WorkKept
<1>1. BranchInv /\ KeptInv /\ [Next]_vars => BranchInv' /\ KeptInv'
  BY StepBranch, StepKeeps DEF BranchInv
<1>2. KeptInv => WorkKept
  BY KeptOneByOne DEF KeptInv
<1>3. QED
  BY <1>1, <1>2, InitBranch, InitKept, PTL DEF Spec

-----------------------------------------------------------------------------
(***************************************************************************)
(* The trees.                                                              *)
(***************************************************************************)

\* In a worktree one land runs at a time.
OneLandEach ==
    \A a, b \in Attempt :
        TaskOf[a] = TaskOf[b] /\ land[a].at # "idle" /\ land[b].at # "idle" => a = b

\* From its check on, a land whose run branch did not move since it was read
\* has a head that was checked, or has nothing to land.
HeadInv ==
    \A a \in Attempt :
        land[a].base = target =>
            /\ land[a].at = "head" /\ target \subseteq branch[TaskOf[a]] =>
                  branch[TaskOf[a]] \in checked \cup {target}
            /\ land[a].at \in {"lock", "compare", "ff", "move"} =>
                  land[a].new \in checked \cup {target}

TipInv == TipIsChecked /\ HeadInv

\* A land that is neither after its check nor before its move says nothing.
Silent(a) == land'[a].at \notin {"head", "lock", "compare", "ff", "move"}

\* The steps of a land but the move.
LandTips ==
    \A a \in Attempt :
        (LandStep(a) \/ LandDies(a)) /\ ~Move(a) =>
            /\ target' = target /\ checked \subseteq checked'
            /\ branch[TaskOf[a]] # branch'[TaskOf[a]] => land[a].at # "idle"
            /\ \/ Silent(a)
               \/ land'[a].at = "head" /\ branch' = branch /\ branch[TaskOf[a]] \in checked'
               \/ /\ land[a].at = "head" /\ land'[a].at \in {"lock", "compare"}
                  /\ land'[a].base = land[a].base /\ land'[a].new = branch[TaskOf[a]]
                  /\ land[a].base \subseteq branch[TaskOf[a]]
               \/ /\ land[a].at \in {"lock", "compare", "ff"} /\ land'[a].at # "head"
                  /\ land'[a].base = land[a].base /\ land'[a].new = land[a].new

LEMMA LandsTip == ASSUME TypeOK PROVE LandTips
<1> SUFFICES ASSUME NEW a \in Attempt, LandStep(a) \/ LandDies(a), ~Move(a)
             PROVE  /\ target' = target /\ checked \subseteq checked'
                    /\ branch[TaskOf[a]] # branch'[TaskOf[a]] => land[a].at # "idle"
                    /\ \/ Silent(a)
                       \/ land'[a].at = "head" /\ branch' = branch /\ branch[TaskOf[a]] \in checked'
                       \/ /\ land[a].at = "head" /\ land'[a].at \in {"lock", "compare"}
                          /\ land'[a].base = land[a].base /\ land'[a].new = branch[TaskOf[a]]
                          /\ land[a].base \subseteq branch[TaskOf[a]]
                       \/ /\ land[a].at \in {"lock", "compare", "ff"} /\ land'[a].at # "head"
                          /\ land'[a].base = land[a].base /\ land'[a].new = land[a].new
  BY DEF LandTips
<1>1. land \in [Attempt -> Land] /\ land[a] \in Land /\ NotLanding.at = "idle"
  BY DEF TypeOK, NotLanding
<1>2. target' = target /\ checked \subseteq checked'
  BY DEF LandStep, LandDies, FinishStarts, StartLand, StartFails, Mark, ReadTarget, Rebase,
     RebaseConflicts, CheckPasses, CheckFails, ReadHead, TakeLock, LockTimesOut, Compare,
     TryAgain, ReadAgain, RecordLanded, StageFails, UndoRebase, Reopen, git, past
<1>3. branch[TaskOf[a]] # branch'[TaskOf[a]] => land[a].at # "idle"
  BY LandGit DEF Marked
<1>4. CASE CheckPasses(a)
  <2>1. land'[a].at = "head" /\ branch' = branch /\ branch[TaskOf[a]] \in checked'
    BY <1>1, <1>4 DEF CheckPasses, git, Land
  <2>2. QED
    BY <1>2, <1>3, <2>1
<1>5. CASE ReadHead(a)
  <2>1. CASE land[a].base \subseteq branch[TaskOf[a]]
    <3>1. /\ land[a].at = "head" /\ land'[a].at \in {"lock", "compare"}
          /\ land'[a].base = land[a].base /\ land'[a].new = branch[TaskOf[a]]
      BY <1>1, <1>5, <2>1 DEF ReadHead, Land
    <3>2. QED
      BY <1>2, <1>3, <2>1, <3>1
  <2>2. CASE ~(land[a].base \subseteq branch[TaskOf[a]])
    <3>1. Silent(a)
      BY <1>1, <1>5, <2>2 DEF ReadHead, Stops, Silent, Land
    <3>2. QED
      BY <1>2, <1>3, <3>1
  <2>3. QED
    BY <2>1, <2>2
<1>6. CASE TakeLock(a) \/ ReadAgain(a) \/ (Compare(a) /\ StillMine(a))
  <2>1. /\ land[a].at \in {"lock", "compare", "ff"} /\ land'[a].at # "head"
        /\ land'[a].base = land[a].base /\ land'[a].new = land[a].new
    BY <1>1, <1>6 DEF TakeLock, ReadAgain, Compare, Land
  <2>2. QED
    BY <1>2, <1>3, <2>1
<1>7. CASE ~(CheckPasses(a) \/ ReadHead(a) \/ TakeLock(a) \/ ReadAgain(a)
             \/ (Compare(a) /\ StillMine(a)))
  <2>1. Silent(a)
    <3>1. CASE FinishStarts(a) \/ StartLand(a) \/ StartFails(a) \/ Mark(a) \/ ReadTarget(a)
      BY <1>1, <3>1 DEF FinishStarts, StartLand, StartFails, Mark, ReadTarget, Silent, Land
    <3>2. CASE Rebase(a) \/ UndoRebase(a)
      BY <1>1, <3>2 DEF Rebase, AfterRebase, UndoRebase, Silent, Land
    <3>3. CASE RebaseConflicts(a) \/ CheckFails(a) \/ LockTimesOut(a) \/ StageFails(a)
      BY <1>1, <3>3 DEF RebaseConflicts, CheckFails, LockTimesOut, StageFails, Stops, Silent, Land
    <3>4. CASE Compare(a) /\ ~StillMine(a)
      BY <1>1, <3>4 DEF Compare, Silent
    <3>5. CASE TryAgain(a)
      BY <1>1, <3>5 DEF TryAgain, Stops, Silent, Land
    <3>6. CASE RecordLanded(a) \/ Reopen(a) \/ LandDies(a)
      BY <1>1, <3>6 DEF RecordLanded, Reopen, LandDies, Silent
    <3>7. QED
      BY <1>7, <3>1, <3>2, <3>3, <3>4, <3>5, <3>6 DEF LandStep
  <2>2. QED
    BY <1>2, <1>3, <2>1
<1>8. QED
  BY <1>4, <1>5, <1>6, <1>7

LEMMA LandChecks ==
    ASSUME TypeOK, TipInv, OneLandEach, NEW a \in Attempt, LandStep(a) \/ LandDies(a), ~Move(a)
    PROVE  TipInv'
<1>1. /\ target' = target /\ checked \subseteq checked'
      /\ \A b \in Attempt \ {a} : land'[b] = land[b]
  BY LandsTip, LandFrame DEF LandTips
<1>2. TipIsChecked'
  BY <1>1 DEF TipInv, TipIsChecked
<1>3. ASSUME NEW b \in Attempt, b # a, land[b].at = "head"
      PROVE  branch'[TaskOf[b]] = branch[TaskOf[b]]
  <2>1. CASE TaskOf[b] = TaskOf[a]
    BY <1>3, <2>1, LandsTip DEF LandTips, OneLandEach
  <2>2. CASE TaskOf[b] # TaskOf[a]
    BY <2>2, LandGit, RunBranchAssumption DEF TypeOK
  <2>3. QED
    BY <2>1, <2>2
<1>4. HeadInv'
  <2> SUFFICES ASSUME NEW b \in Attempt, land'[b].base = target
               PROVE  /\ land'[b].at = "head" /\ target \subseteq branch'[TaskOf[b]] =>
                            branch'[TaskOf[b]] \in checked' \cup {target}
                      /\ land'[b].at \in {"lock", "compare", "ff", "move"} =>
                            land'[b].new \in checked' \cup {target}
    BY <1>1 DEF HeadInv
  <2>1. CASE b # a
    BY <1>1, <1>3, <2>1 DEF TipInv, HeadInv
  <2>2. CASE b = a
    <3>1. \/ Silent(a)
          \/ land'[a].at = "head" /\ branch' = branch /\ branch[TaskOf[a]] \in checked'
          \/ /\ land[a].at = "head" /\ land'[a].at \in {"lock", "compare"}
             /\ land'[a].base = land[a].base /\ land'[a].new = branch[TaskOf[a]]
             /\ land[a].base \subseteq branch[TaskOf[a]]
          \/ /\ land[a].at \in {"lock", "compare", "ff"} /\ land'[a].at # "head"
             /\ land'[a].base = land[a].base /\ land'[a].new = land[a].new
      BY LandsTip DEF LandTips
    <3>2. CASE Silent(a)
      BY <2>2, <3>2 DEF Silent
    <3>3. CASE land'[a].at = "head" /\ branch' = branch /\ branch[TaskOf[a]] \in checked'
      BY <2>2, <3>3
    <3>4. CASE /\ land[a].at = "head" /\ land'[a].at \in {"lock", "compare"}
               /\ land'[a].base = land[a].base /\ land'[a].new = branch[TaskOf[a]]
               /\ land[a].base \subseteq branch[TaskOf[a]]
      BY <1>1, <2>2, <3>4 DEF TipInv, HeadInv
    <3>5. CASE /\ land[a].at \in {"lock", "compare", "ff"} /\ land'[a].at # "head"
               /\ land'[a].base = land[a].base /\ land'[a].new = land[a].new
      BY <1>1, <2>2, <3>5 DEF TipInv, HeadInv
    <3>6. QED
      BY <3>1, <3>2, <3>3, <3>4, <3>5
  <2>3. QED
    BY <2>1, <2>2
<1>5. QED
  BY <1>2, <1>4 DEF TipInv

\* The move: the run branch is the one the head was rebased on.
LEMMA MoveChecks ==
    ASSUME TypeOK, TipInv, TipsInv, BaseInv, ~CheckedOut, target \subseteq target',
           NEW a \in Attempt, Move(a)
    PROVE  TipInv'
<1>1. land \in [Attempt -> Land]
  BY DEF TypeOK
<1>2. /\ branch' = branch /\ checked' = checked
      /\ land[a].at = "move" /\ land[a].base = target
      /\ land[a].new \in checked \cup {target}
      /\ land'[a].at \in {"record", "undo"}
      /\ \A b \in Attempt \ {a} : land'[b] = land[b]
      /\ target' \in {target, land[a].new}
  <2>1. land[a].at = "move" /\ land[a].base = target /\ branch' = branch /\ checked' = checked
    BY DEF Move, BaseInv, past
  <2>2. land[a].new \in checked \cup {target}
    BY <2>1 DEF TipInv, HeadInv
  <2>3. CASE FastForwards(a)
    BY <1>1, <2>1, <2>2, <2>3 DEF Move, Land
  <2>4. CASE ~FastForwards(a)
    BY <1>1, <2>1, <2>2, <2>4 DEF Move, Stops, Land
  <2>5. QED
    BY <2>3, <2>4
<1>3. TipIsChecked'
  BY <1>2 DEF TipInv, TipIsChecked
<1>4. HeadInv'
  <2> SUFFICES ASSUME NEW b \in Attempt, land'[b].base = target', b # a
               PROVE  /\ land'[b].at = "head" /\ target' \subseteq branch'[TaskOf[b]] =>
                            branch'[TaskOf[b]] \in checked' \cup {target'}
                      /\ land'[b].at \in {"lock", "compare", "ff", "move"} =>
                            land'[b].new \in checked' \cup {target'}
    BY <1>2 DEF HeadInv
  <2>1. land'[b] = land[b] /\ land[b].base \subseteq target
    BY <1>2 DEF TipsInv
  <2>2. target' = target
    BY <2>1
  <2>3. QED
    BY <1>2, <2>1, <2>2 DEF TipInv, HeadInv
<1>5. QED
  BY <1>3, <1>4 DEF TipInv

\* The other steps: a branch that they change under a land is then the run
\* branch.
LEMMA OthersCheck ==
    ASSUME TypeOK, TipInv, CleanInv, Quiet, ~CheckedOut,
           \/ \E t \in Task : TaskStep(t) \/ Cleanup(t)
           \/ \E a \in Attempt : Work(a)
           \/ Age
    PROVE  TipInv'
<1>1. branch \in [Task -> SUBSET Change] /\ \A a \in Attempt : TaskOf[a] \in Task
  BY RunBranchAssumption DEF TypeOK
<1>2. UNCHANGED <<target, land, checked>>
  BY DEF TaskStep, LoseTask, Cancel, RequeueByOperator, Work, Claim, CreateWorktree, Commit, Age,
     Cleanup, StartCleanup, RemoveFolder, DeleteBranch, CleanupFails, CleanupDies, git, procs, past
<1>3. \A a \in Attempt :
         land[a].at = "head" /\ target \subseteq branch'[TaskOf[a]] =>
            branch'[TaskOf[a]] \in {target, branch[TaskOf[a]]}
  <2>1. CASE branch' = branch
    BY <2>1
  <2>2. ASSUME NEW t \in Task, DeleteBranch(t)
        PROVE  \A u \in Task : target \subseteq branch'[u] => branch'[u] \in {target, branch[u]}
    BY <1>1, <2>2 DEF DeleteBranch
  <2>3. ASSUME NEW a \in Attempt, CreateWorktree(a)
        PROVE  \A u \in Task : branch'[u] \in {target, branch[u]}
    BY <1>1, <2>3 DEF CreateWorktree
  <2>4. ASSUME NEW a \in Attempt, NEW c \in Change, Commit(a, c)
        PROVE  \A b \in Attempt : land[b].at = "head" => branch'[TaskOf[b]] = branch[TaskOf[b]]
    BY <1>1, <2>4 DEF Commit, LandsIn
  <2>5. CASE ~(\E t \in Task : DeleteBranch(t))
             /\ ~(\E a \in Attempt : CreateWorktree(a) \/ \E c \in Change : Commit(a, c))
    <3>1. branch' = branch
      BY <2>5 DEF TaskStep, LoseTask, Cancel, RequeueByOperator, Work, Claim, Age,
         Cleanup, StartCleanup, RemoveFolder, CleanupFails, CleanupDies, git
    <3>2. QED
      BY <3>1
  <2>6. QED
    BY <1>1, <2>2, <2>3, <2>4, <2>5
<1>4. QED
  BY <1>2, <1>3 DEF TipInv, TipIsChecked, HeadInv

LEMMA StepChecks ==
    ASSUME TypeOK, TipInv, KeptInv, BaseInv, OneLandEach, Quiet, ~CheckedOut,
           target \subseteq target', [Next]_vars
    PROVE  TipInv'
<1>1. CASE UNCHANGED vars
  BY <1>1 DEF vars, git, procs, past, TipInv, TipIsChecked, HeadInv
<1>2. CASE \E a \in Attempt : LandStep(a) \/ LandDies(a)
  BY <1>2, LandChecks, MoveChecks DEF KeptInv
<1>3. CASE \/ \E t \in Task : TaskStep(t) \/ Cleanup(t)
           \/ \E a \in Attempt : Work(a)
           \/ Age
  BY <1>3, OthersCheck DEF KeptInv
<1>4. QED
  BY <1>1, <1>2, <1>3 DEF Next, SharedCommit

LEMMA InitTip == Init => TipInv
BY DEF Init, TipInv, TipIsChecked, HeadInv, NotLanding

\* The run branch only holds trees whose check passed: with commits in no
\* worktree that a land runs in, one land at a time in each worktree, and the
\* run branch moved by the lands alone, under locks that do not age.
THEOREM TreesAreChecked ==
    ASSUME Quiet, ~CheckedOut, ~MayAge
    PROVE  Spec /\ []OneLandEach => []TipIsChecked
<1>1. BranchInv /\ KeptInv /\ TipInv /\ OneLandEach /\ [Next]_vars
        => BranchInv' /\ KeptInv' /\ TipInv'
  BY StepBranch, StepKeeps, StepChecks DEF BranchInv
<1>2. TipInv => TipIsChecked
  BY DEF TipInv
<1>3. QED
  BY <1>1, <1>2, InitBranch, InitKept, InitTip, PTL DEF Spec

=============================================================================
