----------------------------- MODULE DirLockProofs -----------------------------
(***************************************************************************)
(* Theorems about the directory lock.  OneHolder is not inductive: a       *)
(* process that breaks a lock, and one that gives its lock back, remove    *)
(* what is at the path, so the invariant also says what is there when they *)
(* do (LockSafe).  From it each step is one of LockService, or none.       *)
(***************************************************************************)
EXTENDS DirLock, TLAPS

\* While no lock has reached its limit: nobody saw one that had, a live process
\* has its own lock at the path until its guard is dropped, and a live breaker
\* that looked again removes the lock of a dead process.
LockSafe ==
    ages = 0 =>
        /\ ~lock.aged
        /\ \A p \in Proc : ~sawOld[p]
        /\ \A p \in Proc : Lives(p, Works \cup Drops) => lock.by = p
        /\ \A p \in Proc : Lives(p, {"remove"}) => lock.by \in dead

LockInv == LockTypeOK /\ LockSafe

ProcNext(p) ==
    Acquire(p) \/ AcquireStep(p) \/ TryAgain(p) \/ GiveUp(p) \/ HolderStep(p) \/ Die(p)

-----------------------------------------------------------------------------
LEMMA LockInitSafe == LockInit => LockInv
  BY DirLockAssumption
     DEF LockInit, LockInv, LockTypeOK, LockSafe, Unlocked, Lives, Works, Breaks, Waits, Drops

LEMMA LockStutters ==
  ASSUME LockInv, UNCHANGED lockVars PROVE LockInv'
  BY DEF LockInv, LockTypeOK, LockSafe, lockVars, Lives

\* A process that goes on inside acquire, without a lock to remove.
LEMMA AcquireSafe ==
  ASSUME LockInv, NEW p \in Proc,
         \/ Acquire(p) \/ Look(p) \/ TryAgain(p) \/ GiveUp(p) \/ ReadOwner(p)
         \/ ReadAge(p, "age", "owner") \/ ReadAge(p, "age again", "owner again")
  PROVE  LockInv'
  <1>1. CASE Acquire(p)
    BY <1>1, DirLockAssumption
       DEF LockInv, LockTypeOK, LockSafe, Acquire, Step, Lives, Works, Breaks, Waits, Drops
  <1>2. CASE Look(p)
    BY <1>2, DirLockAssumption
       DEF LockInv, LockTypeOK, LockSafe, Look, Step, Lives, Works, Breaks, Waits, Drops
  <1>3. CASE TryAgain(p)
    BY <1>3, DirLockAssumption
       DEF LockInv, LockTypeOK, LockSafe, TryAgain, Step, Lives, Works, Breaks, Waits, Drops
  <1>4. CASE GiveUp(p)
    BY <1>4, DirLockAssumption
       DEF LockInv, LockTypeOK, LockSafe, GiveUp, Step, Lives, Works, Breaks, Waits, Drops
  <1>5. CASE ReadOwner(p)
    BY <1>5, DirLockAssumption
       DEF LockInv, LockTypeOK, LockSafe, ReadOwner, Step, Lives, Works, Breaks, Waits, Drops
  <1>6. ASSUME NEW from, NEW to, ReadAge(p, from, to),
               <<from, to>> \in {<<"age", "owner">>, <<"age again", "owner again">>}
        PROVE  LockInv'
    <2>1. LockTypeOK'
      BY <1>6, DirLockAssumption
         DEF LockInv, LockTypeOK, ReadAge, Step, Works, Breaks, Waits, Drops
    <2>2. LockSafe'
      BY <1>6 DEF LockInv, LockTypeOK, LockSafe, ReadAge, Step, Lives, Works, Drops
    <2> QED BY <2>1, <2>2 DEF LockInv
  <1> QED BY <1>1, <1>2, <1>3, <1>4, <1>5, <1>6

\* Nobody holds a lock that does not exist.
LEMMA PublishSafe ==
  ASSUME LockInv, NEW p \in Proc, Publish(p) PROVE LockInv'
  <1>1. CASE Exists
    BY <1>1, DirLockAssumption
       DEF LockInv, LockTypeOK, LockSafe, Publish, Step, Lives, Works, Breaks, Waits, Drops
  <1>2. CASE ~Exists
    <2>1. LockTypeOK'
      BY <1>2, DirLockAssumption
         DEF LockInv, LockTypeOK, Publish, Step, Works, Breaks, Waits, Drops
    <2>2. lock.by = NoProc
      BY <1>2 DEF Exists, Unlocked
    <2>3. LockSafe'
      BY <1>2, <2>2, DirLockAssumption
         DEF LockInv, LockTypeOK, LockSafe, Publish, Step, Lives, Works
    <2> QED BY <2>1, <2>3 DEF LockInv
  <1> QED BY <1>1, <1>2

\* The flock gives break_lock to one process at a time.
LEMMA BreakSafe ==
  ASSUME LockInv, NEW p \in Proc,
         \/ TakeGuard(p) \/ MakeBreaker(p) \/ ClearBreaker(p)
         \/ ReadOwnerAgain(p) \/ RemoveBreaker(p)
  PROVE  LockInv'
  <1>1. CASE TakeGuard(p)
    BY <1>1, DirLockAssumption
       DEF LockInv, LockTypeOK, LockSafe, TakeGuard, FlockIsFree, Step, Lives, Works, Breaks, Waits, Drops
  <1>2. CASE MakeBreaker(p)
    BY <1>2, DirLockAssumption
       DEF LockInv, LockTypeOK, LockSafe, MakeBreaker, Step, Lives, Works, Breaks, Waits, Drops
  <1>3. CASE ClearBreaker(p)
    BY <1>3, DirLockAssumption
       DEF LockInv, LockTypeOK, LockSafe, ClearBreaker, BreakerIsStale, Step, Lives, Works, Breaks,
           Waits, Drops
  <1>4. CASE ReadOwnerAgain(p)
    BY <1>4, DirLockAssumption
       DEF LockInv, LockTypeOK, LockSafe, ReadOwnerAgain, StillStale, Stale, Step, Lives, Works, Breaks,
           Waits, Drops
  <1>5. CASE RemoveBreaker(p)
    BY <1>5, DirLockAssumption
       DEF LockInv, LockTypeOK, LockSafe, RemoveBreaker, Step, Lives, Works, Breaks, Waits, Drops
  <1> QED BY <1>1, <1>2, <1>3, <1>4, <1>5

\* The lock that a breaker removes is the one of a dead process, so no live
\* process holds it, and no other breaker is about to remove the next one.
LEMMA RemoveStaleSafe ==
  ASSUME LockInv, NEW p \in Proc, RemoveStale(p) PROVE LockInv'
  <1>1. LockTypeOK'
    BY DirLockAssumption
       DEF LockInv, LockTypeOK, RemoveStale, Unlocked, Exists, Step, Works, Breaks, Waits, Drops
  <1>2. ASSUME ages = 0 PROVE lock.by \in dead
    BY <1>2 DEF LockInv, LockSafe, RemoveStale, Step, Lives
  <1>3. ASSUME ages = 0, NEW q \in Proc PROVE ~Lives(q, Works \cup Drops)
    BY <1>2, <1>3 DEF LockInv, LockSafe, Lives
  <1>4. ASSUME NEW q \in Proc, q # p PROVE ~Lives(q, {"remove"})
    BY <1>4 DEF LockInv, LockTypeOK, RemoveStale, Step, Lives, Breaks
  <1>5. LockSafe'
    BY <1>3, <1>4 DEF LockInv, LockTypeOK, LockSafe, RemoveStale, Unlocked, Step, Lives, Works, Drops
  <1> QED BY <1>1, <1>5 DEF LockInv

\* A holder refreshes and gives back its own lock.
LEMMA HolderSafe ==
  ASSUME LockInv, NEW p \in Proc, HolderStep(p) PROVE LockInv'
  <1>1. CASE Refresh(p)
    BY <1>1, DirLockAssumption
       DEF LockInv, LockTypeOK, LockSafe, Refresh, Owns, Step, Lives, Works, Breaks, Waits, Drops
  <1>2. CASE Release(p)
    BY <1>2, DirLockAssumption
       DEF LockInv, LockTypeOK, LockSafe, Release, Step, Lives, Works, Breaks, Waits, Drops
  <1>3. CASE DropReads(p)
    BY <1>3, DirLockAssumption
       DEF LockInv, LockTypeOK, LockSafe, DropReads, Owns, Step, Lives, Works, Breaks, Waits, Drops
  <1>4. CASE WriteHeartbeat(p)
    <2>1. LockTypeOK'
      BY <1>4, DirLockAssumption
         DEF LockInv, LockTypeOK, WriteHeartbeat, Step, Works, Breaks, Waits, Drops
    <2>2. LockSafe'
      BY <1>4 DEF LockInv, LockTypeOK, LockSafe, WriteHeartbeat, Step, Lives, Works
    <2> QED BY <2>1, <2>2 DEF LockInv
  <1>5. CASE CheckHeartbeat(p)
    <2>1. LockTypeOK'
      <3>1. lock' \in [by : Proc \cup {NoProc}, aged : BOOLEAN]
        BY <1>5 DEF LockInv, LockTypeOK, CheckHeartbeat
      <3> QED
        BY <1>5, <3>1, DirLockAssumption
           DEF LockInv, LockTypeOK, CheckHeartbeat, Step, Works, Breaks, Waits, Drops
    <2>2. lock'.by = lock.by /\ (~lock.aged => ~lock'.aged)
      BY <1>5 DEF LockInv, LockTypeOK, CheckHeartbeat
    <2>3. LockSafe'
      BY <1>5, <2>2 DEF LockInv, LockTypeOK, LockSafe, CheckHeartbeat, Step, Lives, Works
    <2> QED BY <2>1, <2>3 DEF LockInv
  <1>6. CASE DropRemoves(p)
    <2>1. LockTypeOK'
      BY <1>6, DirLockAssumption
         DEF LockInv, LockTypeOK, DropRemoves, Unlocked, Step, Works, Breaks, Waits, Drops
    <2>2. ages = 0 => lock.by = p
      BY <1>6 DEF LockInv, LockSafe, DropRemoves, Step, Lives, Drops
    <2>3. ASSUME ages = 0, NEW q \in Proc, q # p
          PROVE  ~Lives(q, Works \cup Drops \cup {"remove"})
      BY <1>6, <2>2, <2>3 DEF LockInv, LockSafe, DropRemoves, Step, Lives
    <2>4. UNCHANGED <<dead, sawOld, ages>> /\ ~lock'.aged
      BY <1>6 DEF DropRemoves, Unlocked
    \* Nobody that lives has a guard or removes a lock now.
    <2>5. ASSUME ages = 0, NEW q \in Proc PROVE ~Lives(q, Works \cup Drops \cup {"remove"})'
      <3>1. at' = [at EXCEPT ![p] = "idle"] /\ DOMAIN at = Proc
        BY <1>6 DEF LockInv, LockTypeOK, DropRemoves, Step
      <3>2. CASE q = p
        BY <3>1, <3>2 DEF Lives, Works, Drops
      <3>3. CASE q # p
        BY <2>3, <2>4, <2>5, <3>1, <3>3 DEF Lives
      <3> QED BY <3>2, <3>3
    <2>6. LockSafe'
      BY <2>4, <2>5 DEF LockInv, LockSafe, Lives
    <2> QED BY <2>1, <2>6 DEF LockInv
  <1> QED BY <1>1, <1>2, <1>3, <1>4, <1>5, <1>6 DEF HolderStep

\* The dead hold nothing; the kernel frees their flock.
LEMMA DieSafe ==
  ASSUME LockInv, NEW p \in Proc, Die(p) PROVE LockInv'
  BY DirLockAssumption
     DEF LockInv, LockTypeOK, LockSafe, Die, Lives, Works, Breaks, Waits, Drops

LEMMA TimeSafe ==
  ASSUME LockInv, LockAges \/ BreakerAges PROVE LockInv'
  <1>1. CASE LockAges
    <2>1. lock' \in [by : Proc \cup {NoProc}, aged : BOOLEAN]
      BY <1>1 DEF LockInv, LockTypeOK, LockAges
    <2>2. ages' \in 0 .. MaxAges /\ ages' # 0
      BY <1>1, DirLockAssumption DEF LockInv, LockTypeOK, LockAges
    <2> QED BY <1>1, <2>1, <2>2 DEF LockInv, LockTypeOK, LockSafe, LockAges
  <1>2. CASE BreakerAges
    BY <1>2 DEF LockInv, LockTypeOK, LockSafe, BreakerAges, Lives
  <1> QED BY <1>1, <1>2

LEMMA LockInvStays == ASSUME LockInv, [LockNext]_lockVars PROVE LockInv'
  <1>1. CASE UNCHANGED lockVars
    BY <1>1, LockStutters
  <1>2. CASE LockAges \/ BreakerAges
    BY <1>2, TimeSafe
  <1>3. ASSUME NEW p \in Proc, ProcNext(p) PROVE LockInv'
    <2>1. CASE AcquireStep(p)
      BY <2>1, AcquireSafe, PublishSafe, BreakSafe, RemoveStaleSafe DEF AcquireStep
    <2>2. CASE Acquire(p) \/ TryAgain(p) \/ GiveUp(p)
      BY <2>2, AcquireSafe
    <2>3. CASE HolderStep(p)
      BY <2>3, HolderSafe
    <2>4. CASE Die(p)
      BY <2>4, DieSafe
    <2> QED BY <1>3, <2>1, <2>2, <2>3, <2>4 DEF ProcNext
  <1> QED BY <1>1, <1>2, <1>3 DEF LockNext, ProcNext

\* The invariant holds in every reachable state.
THEOREM LockInvariant == LockSpec => []LockInv
  <1>1. LockInit => LockInv
    BY LockInitSafe
  <1>2. LockInv /\ [LockNext]_lockVars => LockInv'
    BY LockInvStays
  <1> QED BY <1>1, <1>2, PTL DEF LockSpec

\* However many processes wait for, hold, refresh, break and give back the lock,
\* and die anywhere: while no lock reaches its age limit, who holds the guard
\* owns the lock.
THEOREM LockHasOneHolder == LockSpec => []OneHolder
  <1>1. LockInv => OneHolder
    BY DEF LockInv, LockSafe, OneHolder, Holds, Owns, Lives
  <1> QED BY <1>1, LockInvariant, PTL

\* Every reachable state of the lock is well typed: the flock is with a live
\* process inside break_lock, and with nobody else.
THEOREM LockIsTyped == LockSpec => []LockTypeOK
  <1>1. LockInv => LockTypeOK
    BY DEF LockInv
  <1> QED BY <1>1, LockInvariant, PTL

-----------------------------------------------------------------------------
(***************************************************************************)
(* The lock implements LockService.                                        *)
(***************************************************************************)
\* Where acquire, and the lock it breaks, may take a process.
Asking == {"guard"} \cup Waits \cup Breaks

LEMMA PlacesOf ==
  ASSUME NEW p \in Proc, p \notin dead
  PROVE  /\ at[p] = "idle" => PlaceOf(p) = "out"
         /\ at[p] \in Asking => PlaceOf(p) = "asks"
         /\ at[p] \in Works \cup Drops => PlaceOf(p) = "has"
  BY DEF PlaceOf, Lives, Asking, Waits, Breaks, Works, Drops

LEMMA PlacesAfter ==
  ASSUME NEW p \in Proc, p \notin dead'
  PROVE  /\ at'[p] = "idle" => PlaceOf(p)' = "out"
         /\ at'[p] \in Asking => PlaceOf(p)' = "asks"
         /\ at'[p] \in Works \cup Drops => PlaceOf(p)' = "has"
  BY DEF PlaceOf, Lives, Asking, Waits, Breaks, Works, Drops

\* A step of one process moves it, or nobody, in the service.
LEMMA OneGoes ==
  ASSUME LockTypeOK, NEW p \in Proc, NEW from, NEW to, Step(p, from, to), UNCHANGED <<dead, ages>>
  PROVE  /\ p \notin dead /\ p \notin dead' /\ at[p] = from /\ at'[p] = to
         /\ \A q \in Proc \ {p} : PlaceOf(q)' = PlaceOf(q)
         /\ Service!Goes(p, PlaceOf(p), PlaceOf(p)')
         /\ PlaceOf(p)' = PlaceOf(p) => UNCHANGED Service!serviceVars
  <1>1. /\ p \notin dead /\ p \notin dead' /\ at[p] = from /\ at'[p] = to
        /\ \A q \in Proc \ {p} : at'[q] = at[q]
    BY DEF Step, LockTypeOK
  <1>2. \A q \in Proc \ {p} : PlaceOf(q)' = PlaceOf(q)
    BY <1>1 DEF PlaceOf, Lives
  <1>3. [q \in Proc |-> PlaceOf(q)]' = [[q \in Proc |-> PlaceOf(q)] EXCEPT ![p] = PlaceOf(p)']
    BY <1>2
  <1>4. Service!Goes(p, PlaceOf(p), PlaceOf(p)')
    BY <1>3 DEF Service!Goes
  <1>5. PlaceOf(p)' = PlaceOf(p) => UNCHANGED Service!serviceVars
    BY <1>2 DEF Service!serviceVars
  <1> QED
    BY <1>1, <1>2, <1>4, <1>5

\* A process in acquire stays in it, publishes, or gives up.
LEMMA AcquireServes ==
  ASSUME LockInv, NEW p \in Proc,
         Acquire(p) \/ AcquireStep(p) \/ TryAgain(p) \/ GiveUp(p)
  PROVE  \/ Service!Ask(p) \/ Service!GiveUp(p) \/ Service!Take(p)
         \/ UNCHANGED Service!serviceVars
  <1> USE DEF LockInv
  <1>1. CASE Acquire(p)
    <2>1. Step(p, "idle", "look") /\ UNCHANGED <<dead, ages>>
      BY <1>1 DEF Acquire
    <2>2. PlaceOf(p) = "out" /\ PlaceOf(p)' = "asks"
      BY <2>1, OneGoes, PlacesOf, PlacesAfter DEF Asking, Waits
    <2> QED
      BY <2>1, <2>2, OneGoes DEF Service!Ask
  <1>2. CASE GiveUp(p)
    <2>1. Step(p, "wait", "idle") /\ UNCHANGED <<dead, ages>>
      BY <1>2 DEF GiveUp
    <2>2. PlaceOf(p) = "asks" /\ PlaceOf(p)' = "out"
      BY <2>1, OneGoes, PlacesOf, PlacesAfter DEF Asking, Waits
    <2> QED
      BY <2>1, <2>2, OneGoes DEF Service!GiveUp
  <1>3. CASE Publish(p) /\ ~Exists
    <2>1. Step(p, "stage", "held") /\ UNCHANGED <<dead, ages>>
      BY <1>3 DEF Publish
    <2>2. PlaceOf(p) = "asks" /\ PlaceOf(p)' = "has"
      BY <2>1, OneGoes, PlacesOf, PlacesAfter DEF Asking, Waits, Works
    \* Whoever lives and has a guard owns the lock that is there.
    <2>3. ASSUME ages = 0, NEW q \in Proc PROVE PlaceOf(q) # "has"
      <3>1. lock.by = NoProc
        BY <1>3 DEF Exists, Unlocked
      <3>2. ~Lives(q, Works \cup Drops)
        BY <2>3, <3>1, DirLockAssumption DEF LockSafe
      <3> QED
        BY <3>2 DEF PlaceOf, Lives
    <2>4. ages > 0 \/ \A q \in Proc : [r \in Proc |-> PlaceOf(r)][q] # "has"
      BY <2>3 DEF LockTypeOK
    <2> QED
      BY <2>1, <2>2, <2>4, OneGoes DEF Service!Take
  <1>4. CASE (AcquireStep(p) /\ ~(Publish(p) /\ ~Exists)) \/ TryAgain(p)
    <2>1. UNCHANGED <<dead, ages>>
      BY <1>4
         DEF AcquireStep, Look, Publish, ReadAge, ReadOwner, TakeGuard, MakeBreaker, ClearBreaker,
             ReadOwnerAgain, RemoveStale, RemoveBreaker, TryAgain
    <2>2. PICK from \in Asking, to \in Asking : Step(p, from, to)
      BY <1>4
         DEF AcquireStep, Look, Publish, ReadAge, ReadOwner, TakeGuard, MakeBreaker, ClearBreaker,
             ReadOwnerAgain, RemoveStale, RemoveBreaker, TryAgain, Asking, Waits, Breaks
    <2>3. PlaceOf(p) = "asks" /\ PlaceOf(p)' = "asks"
      BY <2>1, <2>2, OneGoes, PlacesOf, PlacesAfter
    <2> QED
      BY <2>1, <2>2, <2>3, OneGoes
  <1> QED
    BY <1>1, <1>2, <1>3, <1>4 DEF AcquireStep

\* A holder has it until its drop is over.
LEMMA HolderServes ==
  ASSUME LockInv, NEW p \in Proc, HolderStep(p)
  PROVE  Service!Drop(p) \/ UNCHANGED Service!serviceVars
  <1> USE DEF LockInv
  <1>1. UNCHANGED <<dead, ages>>
    BY DEF HolderStep, Refresh, WriteHeartbeat, CheckHeartbeat, Release, DropReads, DropRemoves
  <1>2. PICK from \in Works \cup Drops, to \in Works \cup Drops \cup {"idle"} : Step(p, from, to)
    BY DEF HolderStep, Refresh, WriteHeartbeat, CheckHeartbeat, Release, DropReads, DropRemoves, Works,
           Drops
  <1>3. PlaceOf(p) = "has" /\ PlaceOf(p)' \in {"has", "out"}
    BY <1>1, <1>2, OneGoes, PlacesOf, PlacesAfter
  <1> QED
    BY <1>1, <1>2, <1>3, OneGoes DEF Service!Drop

LEMMA DieServes ==
  ASSUME LockInv, NEW p \in Proc, Die(p)
  PROVE  Service!Die(p)
  <1>1. p \notin dead /\ dead' = dead \cup {p} /\ UNCHANGED <<at, ages>>
    BY DEF Die
  <1>2. PlaceOf(p) \in {"out", "asks", "has"} /\ PlaceOf(p)' = "dead"
    BY <1>1 DEF PlaceOf, Lives
  <1>3. \A q \in Proc \ {p} : PlaceOf(q)' = PlaceOf(q)
    BY <1>1 DEF PlaceOf, Lives
  <1>4. [q \in Proc |-> PlaceOf(q)]' = [[q \in Proc |-> PlaceOf(q)] EXCEPT ![p] = "dead"]
    BY <1>2, <1>3
  <1>5. Service!Goes(p, PlaceOf(p), "dead")
    BY <1>1, <1>4 DEF Service!Goes
  <1> QED
    BY <1>2, <1>5 DEF Service!Die

LEMMA TimeServes ==
  ASSUME LockInv, LockAges \/ BreakerAges
  PROVE  Service!Age \/ UNCHANGED Service!serviceVars
  <1>1. UNCHANGED <<dead, at>>
    BY DEF LockAges, BreakerAges
  <1>2. [q \in Proc |-> PlaceOf(q)]' = [q \in Proc |-> PlaceOf(q)]
    BY <1>1 DEF PlaceOf, Lives
  <1>3. CASE LockAges
    <2>1. ages' > 0
      BY <1>3 DEF LockAges, LockInv, LockTypeOK
    <2> QED
      BY <1>2, <2>1 DEF Service!Age
  <1>4. CASE BreakerAges
    BY <1>2, <1>4 DEF BreakerAges, Service!serviceVars
  <1> QED
    BY <1>3, <1>4

\* The directory, its owner file, the breaker and the flock are one lock, as
\* the callers see it: whatever the interleaving and whoever dies, each step is
\* one of LockService or none.
THEOREM LockIsService == LockSpec => ImplementsLock
  <1>1. LockInit => Service!ServiceInit
    <2> SUFFICES ASSUME LockInit PROVE Service!ServiceInit
      OBVIOUS
    <2>1. \A p \in Proc : PlaceOf(p) = "out"
      BY PlacesOf DEF LockInit
    <2> QED
      BY <2>1 DEF LockInit, Service!ServiceInit
  <1>2. LockInv /\ [LockNext]_lockVars => [Service!ServiceNext]_(Service!serviceVars)
    <2> SUFFICES ASSUME LockInv, [LockNext]_lockVars
                 PROVE  Service!ServiceNext \/ UNCHANGED Service!serviceVars
      OBVIOUS
    <2>1. CASE UNCHANGED lockVars
      BY <2>1 DEF lockVars, Service!serviceVars, PlaceOf, Lives
    <2>2. CASE LockAges \/ BreakerAges
      BY <2>2, TimeServes DEF Service!ServiceNext
    <2>3. ASSUME NEW p \in Proc, ProcNext(p)
          PROVE  Service!ServiceNext \/ UNCHANGED Service!serviceVars
      <3>1. CASE Acquire(p) \/ AcquireStep(p) \/ TryAgain(p) \/ GiveUp(p)
        BY <3>1, AcquireServes DEF Service!ServiceNext
      <3>2. CASE HolderStep(p)
        BY <3>2, HolderServes DEF Service!ServiceNext
      <3>3. CASE Die(p)
        BY <3>3, DieServes DEF Service!ServiceNext
      <3> QED
        BY <2>3, <3>1, <3>2, <3>3 DEF ProcNext
    <2> QED
      BY <2>1, <2>2, <2>3 DEF LockNext, ProcNext
  <1> QED
    BY <1>1, <1>2, LockInvariant, PTL DEF LockSpec, ImplementsLock, Service!ServiceSpec

\* While no lock reaches its age limit one process at most, of those that live,
\* has a guard whose drop is not over.
THEOREM LockIsExclusive == LockSpec => []Service!OneHas
  <1>1. LockInv => Service!OneHas
    <2> SUFFICES ASSUME LockInv, ages = 0, NEW p \in Proc, NEW q \in Proc,
                        PlaceOf(p) = "has", PlaceOf(q) = "has"
                 PROVE  p = q
      BY DEF Service!OneHas, LockInv, LockTypeOK
    <2>1. Lives(p, Works \cup Drops) /\ Lives(q, Works \cup Drops)
      BY DEF PlaceOf, Lives
    <2> QED
      BY <2>1 DEF LockInv, LockSafe
  <1> QED
    BY <1>1, LockInvariant, PTL
==============================================================================
