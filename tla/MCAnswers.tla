------------------------------ MODULE MCAnswers -------------------------------
(***************************************************************************)
(* What must be answered, one service in each scene: a wake, a call for a  *)
(* lock, the death of an orchestrator, a mail, a worker that is lost.  No  *)
(* variable of one is read by another; a scene plays one and leaves the    *)
(* others at their first state.                                            *)
(***************************************************************************)
EXTENDS Wakes, DirLock, Seat, Courier

CONSTANTS p1, p2, p3, limit, reviews, d1, d2, r1, wake, report, c1, t1, l1, l2, dev, nil

AnswersProc == {p1, p2, p3}
AnswersCause == {limit, reviews}
AnswersDrainer == {d1, d2}
AnswersRun == {r1}
AnswersMail == {wake, report}
AnswersCourier == {c1}

\* The ledger, with one task and two workers.
LostTask   == {t1}
LostWorker == {l1, l2}
NoTasks    == {}
TaskZero   == [t \in LostTask |-> 0]
TaskEmpty  == [t \in LostTask |-> {}]
TaskDev    == [t \in LostTask |-> dev]
TaskNil    == [t \in LostTask |-> nil]

VARIABLES
    tstatus, cur, held, attempts, floor, prio, claimable, deps,
    wstatus, persona, task, attempt, target, prev, handed,
    proc, fin, ack, through, stop

L == INSTANCE TaskLedger WITH
       Task <- LostTask, Worker <- LostWorker, Persona <- {dev}, File <- NoTasks,
       NoTask <- nil, NoWorker <- nil, NoPersona <- nil,
       MaxAttempts <- 1, Boost <- 10, Review <- NoTasks, Parallel <- LostTask,
       UsesWorktree <- LostTask, Own <- TaskEmpty, TaskSeq <- TaskZero,
       Priority <- TaskZero, BlockedBy <- TaskEmpty, Primary <- TaskDev,
       Fallback <- TaskNil, Targets <- NoTasks

taskVars == <<tstatus, cur, held, attempts, floor, prio, claimable, deps,
              wstatus, persona, task, attempt, target, prev, handed,
              proc, fin, ack, through, stop>>

\* The service that a behaviour plays, from its first state on.
VARIABLE scene

answersVars == <<wakeVars, lockVars, seatVars, mailVars, taskVars, scene>>

AnswersInit ==
    /\ WakesInit /\ LockInit /\ SeatInit /\ CourierInit /\ L!Init
    /\ scene \in {"wakes", "lock", "seat", "mail", "lost"}

\* A key ages only where one cause arises.
WakesScene ==
    /\ WakesNext
    /\ aged' # {} => \E c \in Cause : round'[c] = 0
    /\ UNCHANGED <<lockVars, seatVars, mailVars, taskVars>>

\* A lock reaches its age limit only between two processes.
LockScene ==
    /\ LockNext
    /\ ages' > 0 => at'[p3] = "idle" /\ p3 \in dead'
    /\ UNCHANGED <<wakeVars, seatVars, mailVars, taskVars>>

SeatScene == SeatNext /\ UNCHANGED <<wakeVars, lockVars, mailVars, taskVars>>

\* The report is published after the wake.  A process dies, or a call fails,
\* before that.
MailScene ==
    /\ CourierNext
    /\ mail[wake] = "none" => mail'[report] = "none"
    /\ failures' > failures => mail[report] = "none"
    /\ UNCHANGED <<wakeVars, lockVars, seatVars, taskVars>>

\* Workers that are lost at any point, with the steps that find them.
LostScene ==
    /\ \/ L!Add(t1)
       \/ \E w \in LostWorker :
             \/ (w = l2 => proc[l1] = "gone") /\ L!Spawn(w, dev, nil, nil)
             \/ L!BringUp(w)
             \/ L!ClaimTask(w, t1) \/ L!ClaimNothing(w)
             \/ L!WorkerEnds(w)
       \/ \E silent \in SUBSET LostWorker : L!SweepPreclaim(silent)
    /\ UNCHANGED <<wakeVars, lockVars, seatVars, mailVars>>

AnswersNext ==
    /\ UNCHANGED scene
    /\ \/ scene = "wakes" /\ WakesScene
       \/ scene = "lock" /\ LockScene
       \/ scene = "seat" /\ SeatScene
       \/ scene = "mail" /\ MailScene
       \/ scene = "lost" /\ LostScene

\* The fairness of the service that is played: WakesFairness, LockFairness,
\* SeatFairness, CourierFairness and Fairness of TaskLedger.  A behaviour plays one scene, so one formula
\* serves a step of each: WF of \/ scene = "wakes" /\ A \/ scene = "lock" /\ B is
\* WF of A where the scene is wakes, and WF of B where it is lock.
InWakes(A) == scene = "wakes" /\ A /\ UNCHANGED <<lockVars, seatVars, mailVars, taskVars, scene>>
InLock(A)  == scene = "lock" /\ A /\ UNCHANGED <<wakeVars, seatVars, mailVars, taskVars, scene>>
InSeat(A)  == scene = "seat" /\ A /\ UNCHANGED <<wakeVars, lockVars, mailVars, taskVars, scene>>
InMail(A)  == scene = "mail" /\ A /\ UNCHANGED <<wakeVars, lockVars, seatVars, taskVars, scene>>
InLost(A)  == scene = "lost" /\ A /\ UNCHANGED <<wakeVars, lockVars, seatVars, mailVars, scene>>

AnswersFairness ==
    /\ WF_answersVars(\/ InWakes(Reconcile(limit))
                      \/ InLock(AcquireStep(p1))
                      \/ InSeat(Check(r1))
                      \/ InMail(SenderStep(wake))
                      \/ InLost(L!SweepPreclaim(L!NeverCheckedIn)))
    /\ WF_answersVars(\/ InWakes(Reconcile(reviews))
                      \/ InLock(AcquireStep(p2))
                      \/ InSeat(LaunchRespawn(r1) \/ LaunchFails(r1))
                      \/ InMail(SenderStep(report))
                      \/ InLost(L!Settle(l1)))
    /\ WF_answersVars(\/ InWakes(\E d \in Drainer : Drain(d, None))
                      \/ InLock(Acquire(p1))
                      \/ InSeat(TenMinutes(r1))
                      \/ InMail(MailIsDue(wake))
                      \/ InLost(L!Settle(l2)))
    /\ WF_answersVars(\/ InWakes(DrainStep(d1))
                      \/ InLock(Acquire(p2))
                      \/ InSeat(LauncherStep(1))
                      \/ InMail(MailIsDue(report))
                      \/ InLost(L!StopProcesses(l1)))
    /\ WF_answersVars(\/ InWakes(DrainStep(d2))
                      \/ InLock(TryAgain(p1) \/ GiveUp(p1))
                      \/ InSeat(LauncherStep(2))
                      \/ InMail(CourierStep(c1))
                      \/ InLost(L!StopProcesses(l2)))
    /\ WF_answersVars(\/ InLock(TryAgain(p2) \/ GiveUp(p2))
                      \/ InSeat(LauncherStep(3)))
    /\ WF_answersVars(InLock(AcquireStep(p3)))
    /\ WF_answersVars(InLock(Acquire(p3)))
    /\ WF_answersVars(InLock(TryAgain(p3) \/ GiveUp(p3)))
    /\ WF_answersVars(InLock(BreakerAges))
    /\ SF_answersVars(InMail(IdleTarget(c1)) \/ InLost(L!ReapDead(l1)))
    /\ SF_answersVars(InMail(Digest(c1)) \/ InLost(L!ReapDead(l2)))
    /\ SF_answersVars(InLost(L!EndRow(l1)))
    /\ SF_answersVars(InLost(L!EndRow(l2)))

AnswersSpec == AnswersInit /\ [][AnswersNext]_answersVars /\ AnswersFairness

\* The mail alone, and the wakes alone, for what is said of them and does not
\* hold.
MailAloneSpec  == scene = "mail" /\ AnswersSpec
WakesAloneSpec == scene = "wakes" /\ AnswersSpec

\* Rows whose processes are gone do not stay live (LostRowsEnd of TaskLedger;
\* sweep_preclaim, reap, settle).
LostRowsEnd == L!LostRowsEnd
===============================================================================
