------------------------------ MODULE UpkeepProofs ------------------------------
(***************************************************************************)
(* Theorems about the upkeep of a fleet: the compaction of a worker's      *)
(* context (module Compaction), for any number of commands, jobs and       *)
(* failures, and the worktree that no step takes to an outcome (module     *)
(* Triage), for any number of patches, decisions and failures.             *)
(*                                                                         *)
(* That two jobs never type into one pane needs that what is in the folder *)
(* is of the one that works (FolderIsOwned), that a job that starts is     *)
(* seen to run (StartIsRecent), and what holds before the first failure    *)
(* (Untroubled), when no live job can lose its folder.  That no job is     *)
(* forgotten needs what is known of a job that is gone, by whether it is   *)
(* still in the folder, and of the claim beside it (LossInv).  That only   *)
(* gc forgets work is inductive without the commits of a detached HEAD     *)
(* (WorkIsHeld); it rests on what the histories of git have in common.     *)
(***************************************************************************)
EXTENDS Compaction, Triage, FiniteSetTheorems, TLAPS

-----------------------------------------------------------------------------
(***************************************************************************)
(* Compaction.                                                             *)
(***************************************************************************)

\* A line is typed again only while some are left, and a job is spawned once.
SendsFit ==
    \A c \in Compactor :
        /\ command[c].at \notin {"record", "wait", "failed", "tell failed", "over"} => child[c] = "none"
        /\ child[c] \in {"none"} \cup Starting => sends[c] = 0
        /\ child[c] = "idle" => sends[c] < MaxSends

CompactionInv == CompactionTypeOK /\ SendsFit

LEMMA CompactionBounds ==
    /\ NoCompactor \notin Compactor /\ InForeground \subseteq Compactor
    /\ MaxSends \in Nat \ {0} /\ MaxTroubles \in Nat
    /\ NoJob \in JobFile /\ NoJob.step = "none" /\ NoJob.by = NoCompactor
    /\ NoHeart \in Heart /\ NoHeart.by = NoCompactor
  BY CompactionAssumption DEF NoJob, NoHeart, JobFile, Heart

LEMMA CompactionInitInv == CompactionInit => CompactionInv
  <1> SUFFICES ASSUME CompactionInit PROVE CompactionInv
    OBVIOUS
  <1>1. command \in [Compactor -> Place] /\ \A p \in Compactor : command[p].at = "new"
    BY DEF CompactionInit, Place, CommandAt
  <1>2. child \in [Compactor -> JobAt] /\ \A p \in Compactor : child[p] = "none"
    BY DEF CompactionInit, JobAt
  <1>3. sends \in [Compactor -> 0 .. MaxSends] /\ \A p \in Compactor : sends[p] = 0
    BY CompactionBounds DEF CompactionInit
  <1>4. job \in JobFile /\ heart \in Heart /\ job.step = "none" /\ job.by = NoCompactor
    BY CompactionBounds DEF CompactionInit
  <1>5. FolderTypeOK
    BY <1>4, CompactionBounds DEF CompactionInit, FolderTypeOK
  <1>8. HistoryTypeOK
    <2>1. troubles \in 0 .. MaxTroubles
      BY CompactionBounds DEF CompactionInit
    <2> QED
      BY <2>1 DEF CompactionInit, HistoryTypeOK
  <1>6. CommandTypeOK
    BY <1>1, CompactionBounds DEF CompactionInit, CommandTypeOK
  <1>7. JobTypeOK
    BY <1>2, <1>3 DEF CompactionInit, JobTypeOK, InPane
  <1> QED
    BY <1>1, <1>2, <1>3, <1>5, <1>6, <1>7, <1>8
       DEF CompactionInv, CompactionTypeOK, SendsFit, InPane, Starting

LEMMA TroubleCounts == troubles \in 0 .. MaxTroubles /\ Trouble => troubles' \in 0 .. MaxTroubles
  BY CompactionBounds DEF Trouble

\* A command that goes from one place to another.
LEMMA CommandMoves ==
  ASSUME CompactionTypeOK, NEW p \in Compactor, NEW from \in CommandAt, NEW to \in CommandAt,
         CommandGoes(p, from, to)
  PROVE  /\ command[p].at = from /\ command'[p].at = to /\ command'[p].saw = command[p].saw
         /\ command' \in [Compactor -> Place]
         /\ \A q \in Compactor \ {p} : command'[q] = command[q]
  <1>1. command \in [Compactor -> Place]
    BY DEF CompactionTypeOK, CommandTypeOK
  <1> QED
    BY <1>1 DEF CommandGoes, Place

LEMMA JobMoves ==
  ASSUME CompactionTypeOK, NEW c \in Compactor, NEW from \in JobAt, NEW to \in JobAt,
         JobGoes(c, from, to)
  PROVE  /\ child[c] = from /\ child'[c] = to
         /\ child' \in [Compactor -> JobAt]
         /\ \A d \in Compactor \ {c} : child'[d] = child[d]
  BY DEF CompactionTypeOK, JobTypeOK, JobGoes

\* The files of the folder.
LEMMA JobWritten ==
  ASSUME FolderTypeOK, NEW c \in Compactor, NEW step \in {"start", "runs"}, WriteJob(c, step)
  PROVE  /\ job' \in JobFile /\ (job'.step = "none" <=> job'.by = NoCompactor)
         /\ recent' \in BOOLEAN
  BY CompactionBounds DEF FolderTypeOK, WriteJob, JobFile

LEMMA FolderIsTyped ==
  ASSUME CompactionTypeOK, NEW p \in Compactor,
         CommandStep(p) \/ CommandDies(p) \/ Foreground(p) \/ JobStep(p) \/ JobDies(p)
            \/ SpawnAges \/ HeartAges
  PROVE  FolderTypeOK'
  <1> USE DEF CompactionTypeOK, FolderTypeOK
  <1>1. CASE Look(p) \/ GuardsRefuse(p) \/ GuardsPass(p) \/ TakeStartLock(p) \/ StartTimesOut(p) \/ CheckAgain(p) \/ SpawnJob(p) \/ SpawnFails(p) \/ Handshake(p)
    BY <1>1 DEF Look, GuardsRefuse, GuardsPass, TakeStartLock, StartTimesOut, CheckAgain, SpawnJob, SpawnFails, Handshake, folder
  <1>2. CASE KillSlowJob(p) \/ TellFailedStart(p) \/ CommandDies(p) \/ Foreground(p) \/ RefuseJob(p) \/ TellEnd(p) \/ JobDies(p)
    BY <1>2 DEF KillSlowJob, TellFailedStart, CommandDies, Foreground, RefuseJob, TellEnd, JobDies, folder
  <1>3. CASE ClaimLoss(p)
    BY <1>3 DEF ClaimLoss
  <1>4. CASE EmptyFolder(p)
    BY <1>4, CompactionBounds DEF EmptyFolder, LostGoes
  <1>5. CASE RecordSpawn(p)
    BY <1>5 DEF RecordSpawn
  <1>6. CASE ClearFailedStart(p) \/ PrepareRefuses(p) \/ ClearAndExit(p)
    <2>1. ClearFolder
      BY <1>6 DEF ClearFailedStart, PrepareRefuses, ClearAndExit
    <2> QED
      BY <2>1, CompactionBounds DEF ClearFolder
  <1>7. CASE CreateJob(p)
    BY <1>7, JobWritten DEF CreateJob
  <1>8. CASE Prepare(p)
    BY <1>8, JobWritten DEF Prepare
  <1>9. CASE StartHeart(p) \/ BeatAgain(p)
    <2>1. heart' = [by |-> p, fresh |-> TRUE] /\ UNCHANGED <<job, spawned, recent, lost>>
      BY <1>9 DEF StartHeart, BeatAgain
    <2>2. [by |-> p, fresh |-> TRUE] \in Heart
      BY DEF Heart
    <2> QED
      BY <2>1, <2>2
  <1>10. CASE SendCompact(p) \/ SendAgain(p) \/ SeeMarker(p) \/ TypeResume(p) \/ ReadTokens(p) \/ JobFails(p)
    BY <1>10, JobWritten DEF SendCompact, SendAgain, SeeMarker, TypeResume, ReadTokens, JobFails, StepInPane
  <1>11. CASE SpawnAges
    BY <1>11 DEF SpawnAges
  <1>12. CASE HeartAges
    BY <1>12 DEF HeartAges, Heart
  <1> QED
    BY <1>1, <1>2, <1>3, <1>4, <1>5, <1>6, <1>7, <1>8, <1>9, <1>10, <1>11, <1>12 DEF CommandStep, JobStep

\* The commands, and the lock of the start.
LEMMA CommandsAreTyped ==
  ASSUME CompactionTypeOK, NEW p \in Compactor,
         CommandStep(p) \/ CommandDies(p) \/ Foreground(p) \/ JobStep(p) \/ JobDies(p)
            \/ SpawnAges \/ HeartAges
  PROVE  CommandTypeOK'
  <1> USE CompactionBounds
  <1>1. ASSUME NEW from \in CommandAt, NEW to \in CommandAt, CommandGoes(p, from, to), to # "claim",
               startLock' \in Compactor \cup {NoCompactor},
               to \in {"check", "empty", "spawn", "record"} => startLock' = p,
               startLock # p => startLock' \in {startLock, p},
               startLock' = p => startLock \in {p, NoCompactor}
        PROVE  CommandTypeOK'
    <2>1. /\ command'[p].at = to /\ command' \in [Compactor -> Place]
          /\ \A q \in Compactor \ {p} : command'[q] = command[q]
      BY <1>1, CommandMoves
    <2> QED
      BY <1>1, <2>1 DEF CompactionTypeOK, CommandTypeOK
  <1> USE DEF CommandAt
  <1>2. CASE GuardsRefuse(p) \/ GuardsPass(p) \/ TakeStartLock(p) \/ StartTimesOut(p)
    BY <1>1, <1>2
       DEF GuardsRefuse, GuardsPass, TakeStartLock, StartTimesOut, StartLockIsFree, CompactionTypeOK,
           CommandTypeOK
  <1>3. CASE CheckAgain(p)
    <2>1. CASE LiveNow
      <3>1. CommandGoes(p, "check", "over") /\ startLock' = NoCompactor /\ startLock = p
        BY <1>3, <2>1 DEF CheckAgain, CommandGoes, CompactionTypeOK, CommandTypeOK
      <3> QED
        BY <1>1, <3>1
    <2>2. CASE ~LiveNow
      <3>1. CommandGoes(p, "check", "empty") /\ startLock' = p /\ startLock = p
        BY <1>3, <2>2 DEF CheckAgain, CommandGoes, CompactionTypeOK, CommandTypeOK
      <3> QED
        BY <1>1, <3>1
    <2> QED
      BY <2>1, <2>2
  <1>4. CASE EmptyFolder(p) \/ SpawnJob(p)
    BY <1>1, <1>4 DEF EmptyFolder, SpawnJob, CommandGoes, CompactionTypeOK, CommandTypeOK
  <1>5. CASE SpawnFails(p) \/ RecordSpawn(p)
    BY <1>1, <1>5 DEF SpawnFails, RecordSpawn, CommandGoes, CompactionTypeOK, CommandTypeOK
  <1>6. CASE Handshake(p) \/ KillSlowJob(p) \/ ClearFailedStart(p) \/ TellFailedStart(p)
    BY <1>1, <1>6
       DEF Handshake, KillSlowJob, ClearFailedStart, TellFailedStart, CompactionTypeOK, CommandTypeOK
  <1>7. CASE Foreground(p)
    BY <1>1, <1>7 DEF Foreground, CompactionTypeOK, CommandTypeOK
  <1>8. CASE Look(p)
    <2>1. IsLost => job.by \in Compactor
      BY DEF IsLost, CompactionTypeOK, FolderTypeOK, JobFile
    <2> QED
      BY <1>8, <2>1 DEF Look, CompactionTypeOK, CommandTypeOK, Place
  <1>9. CASE ClaimLoss(p) \/ CommandDies(p)
    <2>1. PICK to \in {"guards", "over"} :
             command' = [command EXCEPT ![p] = [at |-> to, saw |-> NoCompactor]]
      BY <1>9 DEF ClaimLoss, CommandDies
    <2>2. [at |-> to, saw |-> NoCompactor] \in Place
      BY DEF Place
    <2>3. startLock' \in {startLock, NoCompactor} /\ (startLock' # startLock => startLock = p)
      BY <1>9 DEF ClaimLoss, CommandDies
    <2> QED
      BY <2>1, <2>2, <2>3 DEF CompactionTypeOK, CommandTypeOK
  <1>10. CASE JobStep(p) \/ JobDies(p) \/ SpawnAges \/ HeartAges
    <2>1. UNCHANGED <<command, startLock>>
      BY <1>10
         DEF JobStep, JobDies, SpawnAges, HeartAges, CreateJob, Prepare, PrepareRefuses, RefuseJob,
             StartHeart, BeatAgain, SendCompact, SendAgain, SeeMarker, TypeResume, ReadTokens, JobFails,
             StepInPane, TellEnd, ClearAndExit
    <2> QED
      BY <2>1 DEF CompactionTypeOK, CommandTypeOK
  <1> QED
    BY <1>2, <1>3, <1>4, <1>5, <1>6, <1>7, <1>8, <1>9, <1>10 DEF CommandStep

\* Where a command has not spawned its job.
Early == {"new", "claim", "guards", "lock", "check", "empty", "spawn"}

LEMMA OnlyOneMoves ==
  ASSUME CompactionTypeOK, NEW p \in Compactor, CommandStep(p) \/ CommandDies(p) \/ Foreground(p)
  PROVE  /\ \A q \in Compactor \ {p} : command'[q] = command[q]
         /\ command'[p].at \in CommandAt
         /\ command'[p].at \in Early => command[p].at \in Early /\ UNCHANGED child
  <1>1. command' \in [Compactor -> Place]
    BY CommandsAreTyped DEF CommandTypeOK
  <1>2. command \in [Compactor -> Place]
    BY DEF CompactionTypeOK, CommandTypeOK
  <1>3. \A q \in Compactor \ {p} : command'[q] = command[q]
    BY <1>2
       DEF CommandStep, CommandDies, Foreground, CommandGoes, Look, ClaimLoss, GuardsRefuse, GuardsPass,
           TakeStartLock, StartTimesOut, CheckAgain, EmptyFolder, SpawnJob, SpawnFails, RecordSpawn,
           Handshake, KillSlowJob, ClearFailedStart, TellFailedStart
  <1>4. command'[p].at \in CommandAt
    BY <1>1 DEF Place
  <1>5. ASSUME NEW from, NEW to, CommandGoes(p, from, to)
        PROVE  command[p].at = from /\ command'[p].at = to
    BY <1>2, <1>5 DEF CommandGoes, Place
  <1>6. command'[p].at \in Early => command[p].at \in Early /\ UNCHANGED child
    <2>1. CASE \/ GuardsRefuse(p) \/ GuardsPass(p) \/ TakeStartLock(p) \/ StartTimesOut(p)
               \/ EmptyFolder(p)
      BY <1>5, <2>1
         DEF GuardsRefuse, GuardsPass, TakeStartLock, StartTimesOut, EmptyFolder, Early, jobs
    <2>2. CASE CheckAgain(p)
      BY <1>5, <2>2 DEF CheckAgain, Early, jobs
    <2>3. CASE SpawnJob(p) \/ SpawnFails(p) \/ RecordSpawn(p) \/ Handshake(p)
      <3>1. command'[p].at \in {"record", "failed", "wait", "over"}
        BY <1>5, <2>3 DEF SpawnJob, SpawnFails, RecordSpawn, Handshake
      <3> QED
        BY <3>1 DEF Early
    <2>4. CASE KillSlowJob(p) \/ ClearFailedStart(p) \/ TellFailedStart(p) \/ Foreground(p)
      <3>1. command'[p].at \in {"failed", "tell failed", "over"}
        BY <1>5, <2>4 DEF KillSlowJob, ClearFailedStart, TellFailedStart, Foreground
      <3> QED
        BY <3>1 DEF Early
    <2>5. CASE Look(p)
      BY <2>5 DEF Look, Early, jobs
    <2>6. CASE ClaimLoss(p)
      BY <2>6 DEF ClaimLoss, Early, jobs
    <2>7. CASE CommandDies(p)
      <3>1. command'[p].at = "over"
        BY <1>2, <2>7 DEF CommandDies
      <3> QED
        BY <3>1 DEF Early
    <2> QED
      BY <2>1, <2>2, <2>3, <2>4, <2>5, <2>6, <2>7 DEF CommandStep
  <1> QED
    BY <1>3, <1>4, <1>6

\* What a command, or a start in the foreground, does to its job.
LEMMA CommandsJob ==
  ASSUME CompactionInv, NEW p \in Compactor, CommandStep(p) \/ CommandDies(p) \/ Foreground(p)
  PROVE  /\ UNCHANGED <<sends, began>>
         /\ \/ UNCHANGED child
            \/ child' = [child EXCEPT ![p] = "create"] /\ child[p] = "none"
            \/ child' = [child EXCEPT ![p] = "killed"]
  <1>1. CASE SpawnJob(p) \/ Foreground(p)
    <2>1. command[p].at \in {"spawn", "new"}
      BY <1>1 DEF SpawnJob, Foreground, CommandGoes
    <2>2. child[p] = "none"
      BY <2>1 DEF CompactionInv, SendsFit
    <2> QED
      BY <1>1, <2>2 DEF SpawnJob, Foreground, pasts
  <1>2. CASE KillSlowJob(p)
    BY <1>2 DEF KillSlowJob, pasts
  <1>3. CASE \/ Look(p) \/ ClaimLoss(p) \/ GuardsRefuse(p) \/ GuardsPass(p) \/ TakeStartLock(p)
             \/ StartTimesOut(p) \/ CheckAgain(p) \/ EmptyFolder(p)
    BY <1>3
       DEF Look, ClaimLoss, GuardsRefuse, GuardsPass, TakeStartLock, StartTimesOut, CheckAgain,
           EmptyFolder, jobs, pasts
  <1>4. CASE \/ SpawnFails(p) \/ RecordSpawn(p) \/ Handshake(p) \/ ClearFailedStart(p)
             \/ TellFailedStart(p) \/ CommandDies(p)
    BY <1>4
       DEF SpawnFails, RecordSpawn, Handshake, ClearFailedStart, TellFailedStart, CommandDies, jobs, pasts
  <1> QED
    BY <1>1, <1>2, <1>3, <1>4 DEF CommandStep

LEMMA CommandsFit ==
  ASSUME CompactionInv, NEW p \in Compactor, CommandStep(p) \/ CommandDies(p) \/ Foreground(p)
  PROVE  JobTypeOK' /\ SendsFit'
  <1>1. child' \in [Compactor -> JobAt]
    BY CommandsJob DEF CompactionInv, CompactionTypeOK, JobTypeOK, JobAt, Starting, Exited
  <1>2. JobTypeOK'
    BY <1>1, CommandsJob DEF CompactionInv, CompactionTypeOK, JobTypeOK, InPane
  <1>3. ASSUME NEW c \in Compactor
        PROVE  /\ command'[c].at \in Early => child'[c] = "none"
               /\ child'[c] \in {"none"} \cup Starting => sends'[c] = 0
               /\ child'[c] = "idle" => sends'[c] < MaxSends
    <2>1. /\ command[c].at \in Early => child[c] = "none"
          /\ child[c] \in {"none"} \cup Starting => sends[c] = 0
          /\ child[c] = "idle" => sends[c] < MaxSends
      BY DEF CompactionInv, SendsFit, Early
    <2>2. command'[c].at \in Early => child'[c] = "none"
      BY <2>1, OnlyOneMoves, CommandsJob DEF CompactionInv, CompactionTypeOK, JobTypeOK
    <2>3. \/ child'[c] = child[c]
          \/ child'[c] = "create" /\ child[c] = "none"
          \/ child'[c] = "killed"
      BY CommandsJob DEF CompactionInv, CompactionTypeOK, JobTypeOK
    <2> QED
      BY <2>1, <2>2, <2>3, CommandsJob DEF Starting
  <1>4. SendsFit'
    <2>1. \A c \in Compactor : command'[c].at \in CommandAt
      BY CommandsAreTyped DEF CompactionInv, CommandTypeOK, Place
    <2> QED
      BY <1>3, <2>1 DEF SendsFit, Early, CommandAt
  <1> QED
    BY <1>2, <1>4

\* Where a job goes with a step of its own, a death included.
JobGraph ==
    {<<"create", "exit 0">>, <<"create", "prepare">>, <<"prepare", "beat">>, <<"prepare", "refuse">>,
     <<"refuse", "exit 3">>, <<"beat", "idle">>, <<"idle", "marker">>, <<"marker", "idle">>,
     <<"marker", "settle">>, <<"settle", "reading">>, <<"reading", "tell">>, <<"idle", "tell">>,
     <<"marker", "tell">>, <<"settle", "tell">>, <<"tell", "clear">>, <<"clear", "exit 0">>,
     <<"clear", "exit 3">>}

LEMMA JobsMove ==
  ASSUME CompactionTypeOK, NEW c \in Compactor, JobStep(c) \/ JobDies(c)
  PROVE  /\ UNCHANGED command
         /\ child' = child \/ child' = [child EXCEPT ![c] = child'[c]]
         /\ \/ <<child[c], child'[c]>> \in JobGraph
            \/ child[c] \notin {"none"} \cup Exited /\ child'[c] \in {child[c], "killed"}
  <1>1. ASSUME NEW from, NEW to, JobGoes(c, from, to)
        PROVE  child[c] = from /\ child'[c] = to /\ child' = [child EXCEPT ![c] = child'[c]]
    BY <1>1 DEF CompactionTypeOK, JobTypeOK, JobGoes
  <1>2. CASE CreateJob(c)
    <2>1. PICK to \in {"exit 0", "prepare"} : JobGoes(c, "create", to)
      BY <1>2 DEF CreateJob
    <2> QED
      BY <1>1, <1>2, <2>1 DEF CreateJob, JobGraph
  <1>3. CASE Prepare(c) \/ PrepareRefuses(c) \/ RefuseJob(c) \/ StartHeart(c) \/ TellEnd(c)
    <2>1. \/ JobGoes(c, "prepare", "beat") \/ JobGoes(c, "prepare", "refuse")
          \/ JobGoes(c, "refuse", "exit 3") \/ JobGoes(c, "beat", "idle") \/ JobGoes(c, "tell", "clear")
      BY <1>3 DEF Prepare, PrepareRefuses, RefuseJob, StartHeart, TellEnd
    <2>2. UNCHANGED command
      BY <1>3 DEF Prepare, PrepareRefuses, RefuseJob, StartHeart, TellEnd
    <2> QED
      BY <1>1, <2>1, <2>2 DEF JobGraph
  <1>4. CASE BeatAgain(c)
    BY <1>4 DEF BeatAgain, jobs, InPane, Exited
  <1>5. CASE SendCompact(c) \/ SendAgain(c) \/ SeeMarker(c) \/ TypeResume(c) \/ ReadTokens(c)
    <2>1. \/ StepInPane(c, "idle", "marker") \/ StepInPane(c, "marker", "idle")
          \/ StepInPane(c, "marker", "settle") \/ StepInPane(c, "settle", "reading")
          \/ StepInPane(c, "reading", "tell")
      BY <1>5 DEF SendCompact, SendAgain, SeeMarker, TypeResume, ReadTokens
    <2> QED
      BY <1>1, <2>1 DEF StepInPane, JobGraph
  <1>6. CASE JobFails(c)
    <2>1. StepInPane(c, child[c], "tell") /\ child[c] \in InPane \ {"reading"}
      BY <1>6 DEF JobFails
    <2> QED
      BY <1>1, <2>1 DEF StepInPane, JobGraph, InPane
  <1>7. CASE ClearAndExit(c)
    <2>1. PICK to \in {"exit 0", "exit 3"} : JobGoes(c, "clear", to)
      BY <1>7 DEF ClearAndExit
    <2> QED
      BY <1>1, <1>7, <2>1 DEF ClearAndExit, JobGraph
  <1>8. CASE JobDies(c)
    BY <1>8 DEF JobDies, Running, CompactionTypeOK, JobTypeOK
  <1> QED
    BY <1>2, <1>3, <1>4, <1>5, <1>6, <1>7, <1>8 DEF JobStep

LEMMA JobsFit ==
  ASSUME CompactionInv, NEW c \in Compactor, JobStep(c) \/ JobDies(c)
  PROVE  JobTypeOK' /\ SendsFit'
  <1> USE CompactionBounds DEF CompactionInv, CompactionTypeOK
  <1>1. /\ UNCHANGED command
        /\ child' = child \/ child' = [child EXCEPT ![c] = child'[c]]
        /\ child[c] \in JobAt /\ child[c] # "none"
        /\ child'[c] \in JobAt /\ child'[c] # "none"
    BY JobsMove DEF JobTypeOK, JobGraph, Exited, Starting, InPane, JobAt
  <1>2. /\ child' \in [Compactor -> JobAt]
        /\ \A d \in Compactor \ {c} : child'[d] = child[d]
    BY <1>1 DEF JobTypeOK
  <1>3. began \subseteq began' /\ began' \in SUBSET Compactor
    BY DEF JobStep, JobDies, CreateJob, Prepare, PrepareRefuses, RefuseJob, StartHeart, BeatAgain,
           SendCompact, SendAgain, SeeMarker, TypeResume, ReadTokens, JobFails, StepInPane, TellEnd,
           ClearAndExit, pasts, HistoryTypeOK
  <1>4. child'[c] \in InPane \cup {"beat", "tell", "clear"} => c \in began'
    <2>1. CASE child[c] = "prepare"
      BY <2>1, <1>2, JobsMove
         DEF JobGraph, JobStep, JobDies, CreateJob, Prepare, PrepareRefuses, RefuseJob, StartHeart,
             BeatAgain, SendCompact, SendAgain, SeeMarker, TypeResume, ReadTokens, JobFails, StepInPane,
             TellEnd, ClearAndExit, JobGoes, InPane
    <2>2. CASE child[c] # "prepare"
      BY <2>2, <1>3, JobsMove DEF JobGraph, JobTypeOK, InPane, Exited
    <2> QED
      BY <2>1, <2>2
  <1>5. sends' \in [Compactor -> 0 .. MaxSends]
        /\ (\A d \in Compactor \ {c} : sends'[d] = sends[d])
        /\ (child'[c] \in Starting => sends'[c] = 0)
        /\ (child'[c] = "idle" => sends'[c] < MaxSends)
    <2>1. CASE SendCompact(c)
      <3>1. child[c] = "idle" /\ child'[c] = "marker"
        BY <2>1, JobsMove DEF SendCompact, StepInPane, JobGoes, JobTypeOK
      <3>2. sends[c] \in 0 .. MaxSends /\ sends[c] < MaxSends
        BY <3>1 DEF JobTypeOK, SendsFit
      <3>3. sends' = [sends EXCEPT ![c] = sends[c] + 1] /\ sends[c] + 1 \in 0 .. MaxSends
        BY <2>1, <3>2 DEF SendCompact
      <3>4. \A d \in Compactor \ {c} : sends'[d] = sends[d]
        BY <3>3 DEF JobTypeOK
      <3>5. sends' \in [Compactor -> 0 .. MaxSends]
        BY <3>3 DEF JobTypeOK
      <3> QED
        BY <3>1, <3>4, <3>5 DEF Starting
    <2>2. CASE SendAgain(c)
      BY <1>2, <2>2 DEF SendAgain, StepInPane, JobGoes, JobTypeOK, SendsFit, Starting
    <2>3. CASE ~SendCompact(c) /\ ~SendAgain(c)
      <3>1. UNCHANGED sends
        BY <2>3
           DEF JobStep, JobDies, CreateJob, Prepare, PrepareRefuses, RefuseJob, StartHeart, BeatAgain,
               SeeMarker, TypeResume, ReadTokens, JobFails, StepInPane, TellEnd, ClearAndExit, jobs
      <3>2. child'[c] \in Starting => child[c] \in Starting
        BY JobsMove DEF JobGraph, Starting, Exited
      <3>3. child'[c] = "idle" => child[c] \in {"beat", "idle"}
        <4>1. CASE \/ CreateJob(c) \/ Prepare(c) \/ PrepareRefuses(c) \/ RefuseJob(c) \/ StartHeart(c)
                   \/ BeatAgain(c)
          BY <4>1
             DEF CreateJob, Prepare, PrepareRefuses, RefuseJob, StartHeart, BeatAgain, JobGoes, JobTypeOK,
                 jobs
        <4>2. CASE SeeMarker(c) \/ TypeResume(c) \/ ReadTokens(c) \/ JobFails(c) \/ TellEnd(c)
          BY <4>2
             DEF SeeMarker, TypeResume, ReadTokens, JobFails, StepInPane, TellEnd, JobGoes, JobTypeOK
        <4>3. CASE ClearAndExit(c) \/ JobDies(c)
          BY <4>3 DEF ClearAndExit, JobDies, JobGoes, JobTypeOK
        <4> QED
          BY <2>3, <4>1, <4>2, <4>3 DEF JobStep
      <3> QED
        <4>1. child[c] \in Starting => sends[c] = 0
          BY DEF SendsFit
        <4>2. child[c] \in {"beat", "idle"} => sends[c] < MaxSends
          <5>1. child[c] = "beat" => sends[c] = 0
            BY <4>1 DEF Starting
          <5>2. child[c] = "idle" => sends[c] < MaxSends
            BY DEF SendsFit
          <5>3. 0 < MaxSends
            BY CompactionBounds
          <5> QED
            BY <5>1, <5>2, <5>3
        <4> QED
          BY <3>1, <3>2, <3>3, <4>1, <4>2 DEF JobTypeOK
    <2> QED
      BY <2>1, <2>2, <2>3
  <1>6. JobTypeOK'
    BY <1>2, <1>3, <1>4, <1>5 DEF JobTypeOK
  <1>7. SendsFit'
    BY <1>1, <1>2, <1>5 DEF SendsFit
  <1> QED
    BY <1>6, <1>7

LEMMA HistoryIsTyped ==
  ASSUME CompactionTypeOK, NEW p \in Compactor,
         CommandStep(p) \/ CommandDies(p) \/ Foreground(p) \/ JobStep(p) \/ JobDies(p)
            \/ SpawnAges \/ HeartAges
  PROVE  HistoryTypeOK'
  <1> USE DEF CompactionTypeOK, HistoryTypeOK
  <1>1. troubles' \in 0 .. MaxTroubles
    <2>1. Trouble \/ UNCHANGED troubles
      BY DEF CommandStep, CommandDies, Foreground, Look, ClaimLoss, GuardsRefuse, GuardsPass,
             TakeStartLock, StartTimesOut, CheckAgain, EmptyFolder, SpawnJob, SpawnFails, RecordSpawn,
             Handshake, KillSlowJob, ClearFailedStart, TellFailedStart, JobStep, JobDies, CreateJob,
             Prepare, PrepareRefuses, RefuseJob, StartHeart, BeatAgain, SendCompact, SendAgain,
             SeeMarker, TypeResume, ReadTokens, JobFails, StepInPane, TellEnd, ClearAndExit, SpawnAges,
             HeartAges
    <2> QED
      BY <2>1, TroubleCounts
  <1>2. CASE \/ ClaimLoss(p) \/ EmptyFolder(p) \/ ClearFailedStart(p) \/ TellFailedStart(p)
             \/ CommandDies(p)
    <2>1. ClaimLoss(p) => command[p].saw \in Compactor
      BY DEF ClaimLoss, CommandTypeOK
    <2> QED
      BY <1>1, <1>2, <2>1
         DEF ClaimLoss, EmptyFolder, ClearFailedStart, TellFailedStart, CommandDies, jobs
  <1>3. CASE RefuseJob(p) \/ TellEnd(p) \/ Prepare(p) \/ JobDies(p)
    BY <1>1, <1>3 DEF RefuseJob, TellEnd, Prepare, JobDies
  <1>4. UNCHANGED pasts => HistoryTypeOK'
    BY <1>1 DEF pasts
  <1>5. CASE \/ Look(p) \/ GuardsRefuse(p) \/ GuardsPass(p) \/ TakeStartLock(p) \/ StartTimesOut(p)
             \/ CheckAgain(p) \/ SpawnJob(p) \/ SpawnFails(p) \/ RecordSpawn(p) \/ Handshake(p)
             \/ KillSlowJob(p) \/ Foreground(p)
    BY <1>4, <1>5
       DEF Look, GuardsRefuse, GuardsPass, TakeStartLock, StartTimesOut, CheckAgain, SpawnJob,
           SpawnFails, RecordSpawn, Handshake, KillSlowJob, Foreground
  <1>6. CASE \/ CreateJob(p) \/ PrepareRefuses(p) \/ StartHeart(p) \/ BeatAgain(p) \/ SendCompact(p)
             \/ SendAgain(p) \/ SeeMarker(p) \/ TypeResume(p) \/ ReadTokens(p) \/ JobFails(p)
             \/ ClearAndExit(p) \/ SpawnAges \/ HeartAges
    BY <1>4, <1>6
       DEF CreateJob, PrepareRefuses, StartHeart, BeatAgain, SendCompact, SendAgain, SeeMarker,
           TypeResume, ReadTokens, JobFails, StepInPane, ClearAndExit, SpawnAges, HeartAges
  <1> QED
    BY <1>2, <1>3, <1>5, <1>6 DEF CommandStep, JobStep

LEMMA CompactionNextInv == CompactionInv /\ [CompactionNext]_compactVars => CompactionInv'
  <1> SUFFICES ASSUME CompactionInv, [CompactionNext]_compactVars PROVE CompactionInv'
    OBVIOUS
  <1> USE DEF CompactionInv, CompactionTypeOK
  <1>1. CASE UNCHANGED compactVars
    BY <1>1
       DEF compactVars, folder, jobs, pasts, FolderTypeOK, CommandTypeOK, JobTypeOK, HistoryTypeOK,
           SendsFit
  <1>2. ASSUME NEW p \in Compactor, CommandStep(p) \/ CommandDies(p) \/ Foreground(p)
        PROVE  CompactionInv'
    BY <1>2, FolderIsTyped, CommandsAreTyped, HistoryIsTyped, CommandsFit
  <1>3. ASSUME NEW p \in Compactor, JobStep(p) \/ JobDies(p)
        PROVE  CompactionInv'
    BY <1>3, FolderIsTyped, CommandsAreTyped, HistoryIsTyped, JobsFit
  <1>4. CASE SpawnAges \/ HeartAges
    <2>1. UNCHANGED <<command, startLock, child, sends, began>>
      BY <1>4 DEF SpawnAges, HeartAges, jobs, pasts
    <2>2. FolderTypeOK' /\ HistoryTypeOK'
      <3>1. CASE \E p \in Compactor : TRUE
        BY <1>4, <3>1, FolderIsTyped, HistoryIsTyped
      <3>2. CASE ~\E p \in Compactor : TRUE
        <4>1. HistoryTypeOK'
          BY <1>4, TroubleCounts DEF SpawnAges, HeartAges, HistoryTypeOK, pasts
        <4>2. FolderTypeOK'
          BY <1>4 DEF SpawnAges, HeartAges, FolderTypeOK, Heart
        <4> QED
          BY <4>1, <4>2
      <3> QED
        BY <3>1, <3>2
    <2> QED
      BY <2>1, <2>2 DEF CommandTypeOK, JobTypeOK, SendsFit
  <1> QED
    BY <1>1, <1>2, <1>3, <1>4 DEF CompactionNext

\* The folder of a role, its commands and its jobs are well typed, whichever of
\* them die: the lock of a start is with the command that starts (start_locked),
\* and a line is typed at most max_sends times (send_until_marker).
THEOREM CompactionInvariant == CompactionSpec => []CompactionInv
  BY CompactionInitInv, CompactionNextInv, PTL DEF CompactionSpec

\* The jobs that are behind the folder, those whose heart beats, and those that
\* may yet write it.
Owner(c)   == child[c] \in {"prepare", "beat", "tell", "clear"} \cup InPane
Beating(c) == child[c] \in {"tell", "clear"} \cup InPane
Active(c)  == child[c] = "create" \/ Owner(c)

\* What is in the folder is of the job that works.
FolderIsOwned == disturbed \/ \A c \in Compactor : Owner(c) => job.by = c

\* A job that starts has a spawn or a job.json that is recent.
StartIsRecent ==
    /\ \A c \in Compactor : child[c] \in Starting /\ spawned => recent
    /\ \A c \in Compactor : child[c] \in {"prepare", "beat"} => recent
    /\ \A p \in Compactor : command[p].at = "spawn" => ~spawned

\* Before the first trouble.
Untroubled ==
    /\ ~disturbed
    /\ \A c, d \in Compactor : Active(c) /\ Active(d) => c = d
    /\ \A p, c \in Compactor : command[p].at \in {"empty", "spawn"} => ~Active(c)
    /\ \A c \in Compactor : child[c] = "create" => command[c].at = "record" \/ spawned
    /\ \A c \in Compactor : Beating(c) => heart.by = c
    /\ heart.by # NoCompactor => heart.fresh /\ Beating(heart.by)
    /\ \A c \in Compactor : child[c] # "killed" /\ command[c].at \notin {"failed", "tell failed"}

FolderInv == CompactionInv /\ FolderIsOwned /\ StartIsRecent /\ (troubles = 0 => Untroubled)

LEMMA FolderInitInv == CompactionInit => FolderInv
  <1> SUFFICES ASSUME CompactionInit PROVE FolderInv
    OBVIOUS
  <1>1. \A c \in Compactor : child[c] = "none" /\ command[c].at = "new"
    BY DEF CompactionInit
  <1>2. heart.by = NoCompactor /\ ~disturbed
    BY CompactionBounds DEF CompactionInit
  <1> QED
    BY <1>1, <1>2, CompactionInitInv
       DEF FolderInv, FolderIsOwned, StartIsRecent, Untroubled, Owner, Beating, Active, InPane, Starting

\* Whoever works is seen to run, before the first trouble.
LEMMA WorkIsSeen ==
  ASSUME FolderInv, troubles = 0, NEW c \in Compactor, Owner(c) \/ (child[c] = "create" /\ spawned)
  PROVE  IsRunning
  <1>1. CASE heart.by # NoCompactor
    <2>1. heart.fresh /\ Beating(heart.by) /\ heart.by \in Compactor
      BY <1>1 DEF FolderInv, Untroubled, CompactionInv, CompactionTypeOK, FolderTypeOK, Heart
    <2>2. Running(heart.by)
      BY <2>1 DEF Beating, Running, InPane, Exited
    <2> QED
      BY <1>1, <2>1, <2>2 DEF IsRunning
  <1>2. CASE heart.by = NoCompactor
    <2>1. child[c] \in Starting /\ (child[c] = "create" => spawned)
      BY <1>2, CompactionBounds DEF FolderInv, Untroubled, Owner, Beating, Starting
    <2>2. recent
      BY <2>1 DEF FolderInv, StartIsRecent, Starting
    <2>3. spawned \/ job.step # "none"
      <3>1. Owner(c) => job.by = c
        BY DEF FolderInv, FolderIsOwned, Untroubled
      <3> QED
        BY <3>1, CompactionBounds DEF FolderInv, CompactionInv, CompactionTypeOK, FolderTypeOK
    <2> QED
      BY <1>2, <2>2, <2>3 DEF IsRunning
  <1> QED
    BY <1>1, <1>2

\* What a step of a command leaves of the folder.
LEMMA CommandsFolder ==
  ASSUME CompactionInv, NEW p \in Compactor, CommandStep(p) \/ CommandDies(p) \/ Foreground(p)
  PROVE  /\ disturbed => disturbed'
         /\ ~EmptyFolder(p) /\ ~ClearFailedStart(p) => UNCHANGED <<job, heart, disturbed>>
         /\ ~EmptyFolder(p) /\ ~ClearFailedStart(p) /\ ~RecordSpawn(p) => UNCHANGED <<spawned, recent>>
         /\ \A c \in Compactor : Owner(c)' => Owner(c)
  <1>1. CASE EmptyFolder(p) \/ ClearFailedStart(p)
    BY <1>1 DEF EmptyFolder, ClearFailedStart, jobs, Owner
  <1>2. CASE ~EmptyFolder(p) /\ ~ClearFailedStart(p)
    <2>1. UNCHANGED <<job, heart, disturbed>>
      BY <1>2
         DEF CommandStep, CommandDies, Foreground, Look, ClaimLoss, GuardsRefuse, GuardsPass,
             TakeStartLock, StartTimesOut, CheckAgain, SpawnJob, SpawnFails, RecordSpawn,
             Handshake, KillSlowJob, TellFailedStart, folder, pasts
    <2>2. ~RecordSpawn(p) => UNCHANGED <<spawned, recent>>
      BY <1>2
         DEF CommandStep, CommandDies, Foreground, Look, ClaimLoss, GuardsRefuse, GuardsPass,
             TakeStartLock, StartTimesOut, CheckAgain, SpawnJob, SpawnFails,
             Handshake, KillSlowJob, TellFailedStart, folder
    <2>3. \A c \in Compactor : child'[c] \in {child[c], "create", "killed"}
      BY CommandsJob DEF CompactionInv, CompactionTypeOK, JobTypeOK
    <2> QED
      BY <1>2, <2>1, <2>2, <2>3 DEF Owner, InPane
  <1> QED
    BY <1>1, <1>2

LEMMA CommandsOwned ==
  ASSUME FolderInv, NEW p \in Compactor, CommandStep(p) \/ CommandDies(p) \/ Foreground(p)
  PROVE  FolderIsOwned'
  <1> USE DEF FolderInv
  <1>1. CASE EmptyFolder(p)
    <2> SUFFICES ASSUME ~disturbed', NEW c \in Compactor, Owner(c) PROVE FALSE
      BY CommandsFolder DEF FolderIsOwned
    <2>1. job.by = c /\ Running(c) /\ ~(FolderIsLive /\ troubles > 0)
      BY <1>1 DEF EmptyFolder, FolderIsOwned, Owner, Running, InPane, Exited
    <2>2. troubles = 0
      BY <2>1 DEF FolderIsLive, CompactionInv, CompactionTypeOK, HistoryTypeOK
    <2> QED
      BY <1>1, <2>2 DEF Untroubled, EmptyFolder, CommandGoes, Active
  <1>2. CASE ClearFailedStart(p)
    <2> SUFFICES ASSUME ~disturbed', NEW c \in Compactor, Owner(c) PROVE FALSE
      BY CommandsFolder DEF FolderIsOwned
    <2>1. job.by = c /\ Running(c) /\ ~FolderIsLive
      BY <1>2 DEF ClearFailedStart, FolderIsOwned, Owner, Running, InPane, Exited
    <2> QED
      BY <2>1 DEF FolderIsLive
  <1>3. CASE ~EmptyFolder(p) /\ ~ClearFailedStart(p)
    BY <1>3, CommandsFolder DEF FolderIsOwned
  <1> QED
    BY <1>1, <1>2, <1>3

\* What a step of a job leaves alone.
LEMMA JobsLeave ==
  ASSUME NEW c \in Compactor, JobStep(c) \/ JobDies(c)
  PROVE  UNCHANGED <<disturbed, startLock, command>> /\ (~JobDies(c) => UNCHANGED troubles)
  <1>1. CASE CreateJob(c) \/ Prepare(c) \/ PrepareRefuses(c) \/ RefuseJob(c) \/ StartHeart(c) \/ BeatAgain(c)
    BY <1>1 DEF CreateJob, Prepare, PrepareRefuses, RefuseJob, StartHeart, BeatAgain, pasts
  <1>2. CASE SendCompact(c) \/ SendAgain(c) \/ SeeMarker(c) \/ TypeResume(c) \/ ReadTokens(c) \/ JobFails(c)
    BY <1>2
       DEF SendCompact, SendAgain, SeeMarker, TypeResume, ReadTokens, JobFails, StepInPane, pasts
  <1>3. CASE TellEnd(c) \/ ClearAndExit(c) \/ JobDies(c)
    BY <1>3 DEF TellEnd, ClearAndExit, JobDies, pasts
  <1> QED
    BY <1>1, <1>2, <1>3 DEF JobStep

LEMMA JobsOwned ==
  ASSUME FolderInv, NEW c \in Compactor, JobStep(c) \/ JobDies(c)
  PROVE  FolderIsOwned'
  <1>0. UNCHANGED disturbed
    BY JobsLeave
  <1> SUFFICES ASSUME ~disturbed PROVE FolderIsOwned'
    BY <1>0 DEF FolderIsOwned
  <1> USE DEF FolderInv
  <1>1. \A d \in Compactor : Owner(d) => job.by = d /\ job.step # "none"
    BY CompactionBounds DEF FolderIsOwned, CompactionInv, CompactionTypeOK, FolderTypeOK
  <1>2. \A d \in Compactor \ {c} : Owner(d)' <=> Owner(d)
    BY JobsMove DEF CompactionInv, CompactionTypeOK, JobTypeOK, Owner
  <1>3. ASSUME NEW from, NEW to, JobGoes(c, from, to)
        PROVE  child[c] = from /\ child'[c] = to
    BY <1>3 DEF CompactionInv, CompactionTypeOK, JobTypeOK, JobGoes
  <1>4. /\ \A d \in Compactor \ {c} : Owner(d) => job'.by = d
        /\ Owner(c)' => job'.by = c
    <2>1. CASE CreateJob(c)
      <3>1. CASE job.step = "none"
        BY <1>1, <2>1, <3>1 DEF CreateJob, WriteJob
      <3>2. CASE job.step # "none"
        <4>1. child'[c] = "exit 0" /\ UNCHANGED job
          BY <1>3, <2>1, <3>2 DEF CreateJob
        <4> QED
          BY <1>1, <4>1 DEF Owner, InPane
      <3> QED
        BY <3>1, <3>2
    <2>2. CASE \/ Prepare(c) \/ SendCompact(c) \/ SendAgain(c) \/ SeeMarker(c) \/ TypeResume(c)
               \/ ReadTokens(c) \/ JobFails(c)
      <3>1. Owner(c)
        BY <2>2
           DEF Prepare, SendCompact, SendAgain, SeeMarker, TypeResume, ReadTokens, JobFails, StepInPane,
               JobGoes, Owner, InPane
      <3>2. job'.by = c
        BY <2>2
           DEF Prepare, SendCompact, SendAgain, SeeMarker, TypeResume, ReadTokens, JobFails, StepInPane,
               WriteJob
      <3> QED
        BY <1>1, <3>1, <3>2
    <2>3. CASE PrepareRefuses(c) \/ ClearAndExit(c)
      <3>1. Owner(c)
        BY <2>3 DEF PrepareRefuses, ClearAndExit, JobGoes, Owner
      <3>2. child'[c] \in {"refuse", "exit 0", "exit 3"}
        BY <1>3, <2>3 DEF PrepareRefuses, ClearAndExit
      <3> QED
        BY <1>1, <3>1, <3>2 DEF Owner, InPane
    <2>4. CASE RefuseJob(c) \/ StartHeart(c) \/ BeatAgain(c) \/ TellEnd(c) \/ JobDies(c)
      <3>1. UNCHANGED job
        BY <2>4 DEF RefuseJob, StartHeart, BeatAgain, TellEnd, JobDies, folder
      <3>2. Owner(c)' => Owner(c)
        <4>1. RefuseJob(c) => child'[c] = "exit 3"
          BY <1>3 DEF RefuseJob
        <4>2. StartHeart(c) => child[c] = "beat"
          BY <1>3 DEF StartHeart
        <4>3. TellEnd(c) => child[c] = "tell"
          BY <1>3 DEF TellEnd
        <4>4. BeatAgain(c) => child'[c] = child[c]
          BY DEF BeatAgain, jobs
        <4>5. JobDies(c) => child'[c] = "killed"
          BY DEF JobDies, CompactionInv, CompactionTypeOK, JobTypeOK
        <4> QED
          BY <2>4, <4>1, <4>2, <4>3, <4>4, <4>5 DEF Owner, InPane
      <3> QED
        BY <1>1, <3>1, <3>2
    <2> QED
      BY <2>1, <2>2, <2>3, <2>4 DEF JobStep
  <1> QED
    BY <1>2, <1>4 DEF FolderIsOwned

\* Only the start that emptied the folder is about to spawn.
LEMMA SpawnIsReached ==
  ASSUME CompactionInv, NEW p \in Compactor, CommandStep(p) \/ CommandDies(p), ~EmptyFolder(p)
  PROVE  command'[p].at # "spawn"
  <1> SUFFICES ASSUME command'[p].at = "spawn" PROVE FALSE
    OBVIOUS
  <1>1. command \in [Compactor -> Place]
    BY DEF CompactionInv, CompactionTypeOK, CommandTypeOK
  <1>2. ASSUME NEW from, NEW to, to # "spawn" PROVE ~CommandGoes(p, from, to)
    BY <1>1, <1>2 DEF CommandGoes, Place
  <1>3. ASSUME NEW v, command' = [command EXCEPT ![p] = v] PROVE command'[p] = v
    BY <1>1, <1>3
  <1>4. ~Look(p)
    <2> SUFFICES ASSUME Look(p) PROVE FALSE
      OBVIOUS
    <2>1. command'[p] = [at |-> IF IsRunning THEN "over" ELSE IF IsLost THEN "claim" ELSE "guards",
                         saw |-> IF IsLost THEN job.by ELSE NoCompactor]
      BY <1>3 DEF Look
    <2> QED
      BY <2>1
  <1>5. ~ClaimLoss(p) /\ ~CommandDies(p)
    <2> SUFFICES ASSUME NEW to \in {"over", "guards"},
                        command' = [command EXCEPT ![p] = [at |-> to, saw |-> NoCompactor]]
        PROVE  FALSE
      BY DEF ClaimLoss, CommandDies
    <2>1. command'[p] = [at |-> to, saw |-> NoCompactor]
      BY <1>3
    <2> QED
      BY <2>1
  <1> QED
    BY <1>2, <1>4, <1>5
       DEF CommandStep, GuardsRefuse, GuardsPass, TakeStartLock, StartTimesOut, CheckAgain, SpawnJob,
           SpawnFails, RecordSpawn, Handshake, KillSlowJob, ClearFailedStart, TellFailedStart

LEMMA CommandsRecent ==
  ASSUME FolderInv, NEW p \in Compactor, CommandStep(p) \/ CommandDies(p) \/ Foreground(p),
         InForeground = {}
  PROVE  StartIsRecent'
  <1> USE DEF FolderInv
  <1>0. ~Foreground(p)
    BY DEF Foreground
  <1>1. CASE EmptyFolder(p) \/ ClearFailedStart(p)
    <2>1. UNCHANGED <<recent, child>> /\ ~spawned'
      BY <1>1 DEF EmptyFolder, ClearFailedStart, ClearFolder, jobs
    <2> QED
      BY <2>1 DEF StartIsRecent
  <1>2. CASE RecordSpawn(p)
    <2>1. UNCHANGED child /\ (UNCHANGED <<spawned, recent>> \/ recent')
      BY <1>2 DEF RecordSpawn, jobs
    <2>2. \A q \in Compactor : command'[q].at # "spawn"
      <3>1. startLock = p /\ \A q \in Compactor \ {p} : command[q].at # "spawn"
        BY <1>2 DEF RecordSpawn, CommandGoes, CompactionInv, CompactionTypeOK, CommandTypeOK
      <3>2. command'[p].at \in {"wait", "failed"}
        BY <1>2, CommandMoves DEF RecordSpawn, CommandAt, CompactionInv
      <3> QED
        BY <3>1, <3>2, OnlyOneMoves DEF CompactionInv
    <2> QED
      BY <2>1, <2>2 DEF StartIsRecent
  <1>3. CASE SpawnJob(p)
    <2>1. /\ command[p].at = "spawn" /\ ~spawned /\ startLock = p
          /\ UNCHANGED <<spawned, recent>> /\ child' = [child EXCEPT ![p] = "create"]
      BY <1>3
         DEF SpawnJob, CommandGoes, folder, StartIsRecent, CompactionInv, CompactionTypeOK, CommandTypeOK
    <2>2. \A c \in Compactor : child'[c] \in {"prepare", "beat"} => child[c] \in {"prepare", "beat"}
      BY <2>1 DEF CompactionInv, CompactionTypeOK, JobTypeOK
    <2> QED
      BY <2>1, <2>2 DEF StartIsRecent
  <1>4. CASE ~EmptyFolder(p) /\ ~ClearFailedStart(p) /\ ~RecordSpawn(p) /\ ~SpawnJob(p)
    <2>1. UNCHANGED <<spawned, recent>>
      BY <1>4, CommandsFolder
    <2>2. \A c \in Compactor : child'[c] \in {child[c], "killed"}
      BY <1>0, <1>4
         DEF CommandStep, CommandDies, Look, ClaimLoss, GuardsRefuse, GuardsPass,
             TakeStartLock, StartTimesOut, CheckAgain, SpawnFails, Handshake, KillSlowJob,
             TellFailedStart, jobs, CompactionInv, CompactionTypeOK, JobTypeOK
    <2>3. command'[p].at # "spawn"
      BY <1>0, <1>4, SpawnIsReached
    <2>4. \A q \in Compactor : command'[q].at = "spawn" => command[q].at = "spawn"
      BY <2>3, OnlyOneMoves DEF CompactionInv
    <2> QED
      BY <2>1, <2>2, <2>4 DEF StartIsRecent, Starting
  <1> QED
    BY <1>1, <1>2, <1>3, <1>4

LEMMA JobsRecent ==
  ASSUME FolderInv, NEW c \in Compactor, JobStep(c) \/ JobDies(c)
  PROVE  StartIsRecent'
  <1> USE DEF FolderInv
  <1>0. UNCHANGED command
    BY JobsLeave
  <1>1. \A d \in Compactor \ {c} : child'[d] = child[d]
    BY JobsMove DEF CompactionInv, CompactionTypeOK, JobTypeOK
  <1>2. /\ child'[c] \in Starting => child[c] \in Starting
        /\ child'[c] \in {"prepare", "beat"} /\ ~CreateJob(c) => child[c] \in {"prepare", "beat"}
    <2>1. child'[c] \in Starting => child[c] \in Starting
      BY JobsMove DEF CompactionInv, JobGraph, Starting, Exited
    <2>2. ASSUME ~CreateJob(c), child[c] = "create" PROVE child'[c] \in {"create", "killed"}
      BY <2>2
         DEF JobStep, JobDies, Prepare, PrepareRefuses, RefuseJob, StartHeart, BeatAgain,
             SendCompact, SendAgain, SeeMarker, TypeResume, ReadTokens, JobFails, StepInPane, TellEnd,
             ClearAndExit, JobGoes, InPane, CompactionInv, CompactionTypeOK, JobTypeOK
    <2> QED
      BY <2>1, <2>2 DEF Starting
  <1>3. (spawned' => spawned) /\ (recent => recent')
    <2>1. CASE PrepareRefuses(c) \/ ClearAndExit(c)
      <3>1. ClearFolder
        BY <2>1 DEF PrepareRefuses, ClearAndExit
      <3> QED
        BY <3>1, Zenon DEF ClearFolder
    <2>2. CASE \/ CreateJob(c) \/ Prepare(c) \/ SendCompact(c) \/ SendAgain(c) \/ SeeMarker(c)
               \/ TypeResume(c) \/ ReadTokens(c) \/ JobFails(c)
      <3>1. UNCHANGED spawned /\ (UNCHANGED recent \/ \E step \in {"start", "runs"} : WriteJob(c, step))
        BY <2>2
           DEF CreateJob, Prepare, SendCompact, SendAgain, SeeMarker, TypeResume, ReadTokens, JobFails,
               StepInPane
      <3>2. spawned' = spawned
        BY <3>1
      <3>3. CASE UNCHANGED recent
        BY <3>2, <3>3, Zenon
      <3>4. CASE \E step \in {"start", "runs"} : WriteJob(c, step)
        <4>1. recent' = (recent \/ ~spawned)
          BY <3>4, Zenon DEF WriteJob
        <4> QED
          BY <3>2, <4>1, Zenon
      <3> QED
        BY <3>1, <3>3, <3>4
    <2>3. CASE RefuseJob(c) \/ StartHeart(c) \/ BeatAgain(c) \/ TellEnd(c) \/ JobDies(c)
      <3>1. CASE RefuseJob(c) \/ TellEnd(c) \/ JobDies(c)
        <4>1. UNCHANGED folder
          BY <3>1, Zenon DEF RefuseJob, TellEnd, JobDies
        <4> QED
          BY <4>1, Zenon DEF folder
      <3>2. CASE StartHeart(c) \/ BeatAgain(c)
        <4>1. spawned' = spawned /\ recent' = recent
          BY <3>2, Zenon DEF StartHeart, BeatAgain
        <4> QED
          BY <4>1, Zenon
      <3> QED
        BY <2>3, <3>1, <3>2
    <2> QED
      BY <2>1, <2>2, <2>3 DEF JobStep
  <1>4. CreateJob(c) /\ child'[c] = "prepare" => recent'
    <2> SUFFICES ASSUME CreateJob(c), child'[c] = "prepare" PROVE recent'
      OBVIOUS
    <2>1. child[c] = "create" /\ (spawned => recent)
      BY DEF CreateJob, JobGoes, StartIsRecent, Starting
    <2>2. job.step = "none"
      BY DEF CreateJob, JobGoes, CompactionInv, CompactionTypeOK, JobTypeOK
    <2> QED
      BY <2>1, <2>2 DEF CreateJob, WriteJob
  <1>5. CreateJob(c) => child'[c] # "beat"
    BY DEF CreateJob, JobGoes, CompactionInv, CompactionTypeOK, JobTypeOK
  <1> QED
    BY <1>0, <1>1, <1>2, <1>3, <1>4, <1>5 DEF StartIsRecent

\* The commands while nothing has failed and no job is in the foreground.
LEMMA CommandsUntroubled ==
  ASSUME FolderInv, NEW p \in Compactor, CommandStep(p) \/ CommandDies(p), troubles' = 0,
         InForeground = {}
  PROVE  Untroubled'
  <1> USE DEF FolderInv
  <1>0. troubles = 0 /\ Untroubled /\ ~Trouble
    <2>1. Trouble => troubles' > 0
      BY DEF Trouble, CompactionInv, CompactionTypeOK, HistoryTypeOK
    <2>2. Trouble \/ UNCHANGED troubles
      BY DEF CommandStep, CommandDies, Look, ClaimLoss, GuardsRefuse, GuardsPass,
             TakeStartLock, StartTimesOut, CheckAgain, EmptyFolder, SpawnJob, SpawnFails, RecordSpawn,
             Handshake, KillSlowJob, ClearFailedStart, TellFailedStart
    <2> QED
      BY <2>1, <2>2
  <1>1. ASSUME NEW from, NEW to, CommandGoes(p, from, to)
        PROVE  command[p].at = from /\ command'[p].at = to
    BY <1>1 DEF CommandGoes, CompactionInv, CompactionTypeOK, CommandTypeOK, Place
  <1>2. \A q \in Compactor \ {p} : command'[q] = command[q]
    BY OnlyOneMoves DEF CompactionInv
  <1>3. /\ command[p].at \in {"check", "empty", "spawn", "record"} => startLock = p
        /\ \A q \in Compactor \ {p} : command[q].at \in {"check", "empty", "spawn", "record"} => startLock = q
    BY DEF CompactionInv, CompactionTypeOK, CommandTypeOK
  \* A command that leaves the folder and the jobs alone.
  <1>4. ASSUME UNCHANGED <<job, heart, spawned, child, disturbed>>,
               command'[p].at \notin {"empty", "spawn", "failed", "tell failed"},
               command[p].at = "record" => spawned
        PROVE  Untroubled'
    <2>1. \A c \in Compactor : (Active(c)' <=> Active(c)) /\ (Beating(c)' <=> Beating(c))
      BY <1>4 DEF Active, Beating, Owner
    <2>2. (heart.by # NoCompactor => heart.fresh /\ Beating(heart.by))'
      BY <1>0, <1>4 DEF Untroubled, Beating
    <2>3. \A c \in Compactor : child'[c] = "create" => command'[c].at = "record" \/ spawned'
      BY <1>0, <1>2, <1>4 DEF Untroubled
    <2>4. \A q, c \in Compactor : command'[q].at \in {"empty", "spawn"} => ~Active(c)'
      BY <1>0, <1>2, <1>4, <2>1 DEF Untroubled
    <2>5. \A c \in Compactor : child'[c] # "killed" /\ command'[c].at \notin {"failed", "tell failed"}
      BY <1>0, <1>2, <1>4 DEF Untroubled
    <2> QED
      BY <1>0, <1>4, <2>1, <2>2, <2>3, <2>4, <2>5 DEF Untroubled
  <1>5. CASE CheckAgain(p) /\ ~LiveNow
    <2>1. UNCHANGED <<folder, child, disturbed>> /\ command[p].at = "check" /\ command'[p].at = "empty"
      BY <1>1, <1>5 DEF CheckAgain, jobs, pasts
    <2>2. \A c \in Compactor : ~Active(c)
      <3> SUFFICES ASSUME NEW c \in Compactor, Active(c) PROVE FALSE
        OBVIOUS
      <3>1. ~IsRunning
        BY <1>5 DEF LiveNow
      <3>2. ~Owner(c) /\ ~spawned /\ child[c] = "create"
        BY <1>0, <3>1, WorkIsSeen DEF Active
      <3>3. command[c].at = "record"
        BY <1>0, <3>2 DEF Untroubled
      <3> QED
        BY <1>3, <2>1, <3>3
    <2>3. \A c \in Compactor : ~Active(c)' /\ (Beating(c)' <=> Beating(c))
      BY <2>1, <2>2 DEF Active, Owner, Beating
    <2>4. \A c \in Compactor : child'[c] # "killed" /\ command'[c].at \notin {"failed", "tell failed"}
      BY <1>0, <1>2, <2>1 DEF Untroubled
    <2>5. (heart.by # NoCompactor => heart.fresh /\ Beating(heart.by))'
      BY <1>0, <2>1 DEF Untroubled, folder, Beating
    <2>6. \A c \in Compactor : (Beating(c) => heart.by = c)' /\ child'[c] # "create"
      BY <2>2, <2>3, <2>1 DEF Active, Owner, Beating
    <2>7. ~disturbed'
      BY <1>0, <2>1 DEF Untroubled
    <2> QED
      BY <2>3, <2>4, <2>5, <2>6, <2>7 DEF Untroubled
  <1>6. CASE EmptyFolder(p)
    <2>1. /\ command[p].at = "empty" /\ command'[p].at = "spawn" /\ UNCHANGED child
          /\ heart'.by = NoCompactor
      BY <1>1, <1>6, CompactionBounds DEF EmptyFolder, jobs
    <2>2. ~disturbed'
      <3>1. disturbed' = (disturbed \/ (FolderIsLive /\ troubles > 0))
        BY <1>6, Zenon DEF EmptyFolder
      <3>2. ~(troubles > 0)
        BY <1>0
      <3>3. ~disturbed
        BY <1>0, Zenon DEF Untroubled
      <3> QED
        BY <3>1, <3>2, <3>3, Zenon
    <2>3. \A c \in Compactor : ~Active(c)
      BY <1>0, <2>1 DEF Untroubled
    <2>4. \A c \in Compactor : ~Active(c)' /\ ~Beating(c)'
      BY <2>1, <2>3 DEF Active, Owner, Beating
    <2>5. \A c \in Compactor : child'[c] # "killed" /\ command'[c].at \notin {"failed", "tell failed"}
      BY <1>0, <1>2, <2>1 DEF Untroubled
    <2> QED
      BY <2>1, <2>2, <2>4, <2>5 DEF Untroubled, Active
  <1>7. CASE SpawnJob(p)
    <2>1. /\ command[p].at = "spawn" /\ command'[p].at = "record" /\ UNCHANGED <<heart, disturbed>>
          /\ child' = [child EXCEPT ![p] = "create"]
      BY <1>1, <1>7 DEF SpawnJob, folder, pasts
    <2>2. child'[p] = "create" /\ \A c \in Compactor \ {p} : child'[c] = child[c]
      BY <2>1 DEF CompactionInv, CompactionTypeOK, JobTypeOK
    <2>3. \A c \in Compactor : ~Active(c)
      BY <1>0, <2>1 DEF Untroubled
    <2>4. \A c \in Compactor : Active(c)' => c = p
      BY <2>2, <2>3 DEF Active, Owner
    <2>5. \A c \in Compactor : ~Beating(c)' /\ ~Beating(c)
      BY <2>2, <2>3 DEF Active, Owner, Beating, InPane
    <2>6. heart'.by = NoCompactor
      <3>1. heart.by \in Compactor \cup {NoCompactor}
        BY DEF CompactionInv, CompactionTypeOK, FolderTypeOK, Heart
      <3> QED
        BY <1>0, <2>1, <2>5, <3>1 DEF Untroubled
    <2>7. \A q \in Compactor : command'[q].at \notin {"empty", "spawn"}
      BY <1>2, <1>3, <2>1
    <2>8. \A c \in Compactor : child'[c] = "create" => command'[c].at = "record"
      BY <2>1, <2>2, <2>3 DEF Active
    <2>9. \A c \in Compactor : child'[c] # "killed" /\ command'[c].at \notin {"failed", "tell failed"}
      BY <1>0, <1>2, <2>1, <2>2 DEF Untroubled
    <2> QED
      BY <1>0, <2>1, <2>4, <2>5, <2>6, <2>7, <2>8, <2>9 DEF Untroubled
  <1>8. CASE RecordSpawn(p)
    <2>1. /\ command[p].at = "record" /\ command'[p].at = "wait"
          /\ UNCHANGED <<heart, child, disturbed>> /\ spawned' = TRUE
      BY <1>0, <1>1, <1>8 DEF RecordSpawn, jobs, pasts
    <2>2. \A c \in Compactor : (Active(c)' <=> Active(c)) /\ (Beating(c)' <=> Beating(c))
      BY <2>1 DEF Active, Beating, Owner
    <2>3. (heart.by # NoCompactor => heart.fresh /\ Beating(heart.by))'
      BY <1>0, <2>1 DEF Untroubled, Beating
    <2>4. \A q, c \in Compactor : command'[q].at \in {"empty", "spawn"} => ~Active(c)'
      BY <1>0, <1>2, <2>1, <2>2 DEF Untroubled
    <2>5. \A c \in Compactor : child'[c] # "killed" /\ command'[c].at \notin {"failed", "tell failed"}
      BY <1>0, <1>2, <2>1 DEF Untroubled
    <2> QED
      BY <1>0, <2>1, <2>2, <2>3, <2>4, <2>5 DEF Untroubled
  <1>9. CASE \/ Look(p) \/ ClaimLoss(p) \/ GuardsRefuse(p) \/ GuardsPass(p) \/ TakeStartLock(p)
             \/ (CheckAgain(p) /\ LiveNow) \/ Handshake(p)
    <2>1. UNCHANGED <<job, heart, spawned, child, disturbed>>
      BY <1>9
         DEF Look, ClaimLoss, GuardsRefuse, GuardsPass, TakeStartLock, CheckAgain, Handshake,
             folder, jobs, pasts
    <2>2. command'[p].at \in {"over", "claim", "guards", "lock", "check"} /\ command[p].at # "record"
      <3>1. command \in [Compactor -> Place]
        BY DEF CompactionInv, CompactionTypeOK, CommandTypeOK
      <3>2. ASSUME NEW v, command' = [command EXCEPT ![p] = v] PROVE command'[p] = v
        BY <3>1, <3>2
      <3>3. ASSUME Look(p) PROVE command'[p].at \in {"over", "claim", "guards"} /\ command[p].at = "new"
        <4>1. command'[p] = [at |-> IF IsRunning THEN "over" ELSE IF IsLost THEN "claim" ELSE "guards",
                             saw |-> IF IsLost THEN job.by ELSE NoCompactor]
          BY <3>2, <3>3 DEF Look
        <4> QED
          BY <3>3, <4>1 DEF Look
      <3>4. ASSUME ClaimLoss(p) PROVE command'[p].at = "guards" /\ command[p].at = "claim"
        <4>1. command'[p] = [at |-> "guards", saw |-> NoCompactor]
          BY <3>2, <3>4 DEF ClaimLoss
        <4> QED
          BY <3>4, <4>1 DEF ClaimLoss
      <3>5. ASSUME GuardsRefuse(p) \/ GuardsPass(p) \/ TakeStartLock(p)
            PROVE  command'[p].at \in {"over", "lock", "check"} /\ command[p].at \in {"guards", "lock"}
        BY <1>1, <3>5 DEF GuardsRefuse, GuardsPass, TakeStartLock
      <3>6. ASSUME CheckAgain(p) /\ LiveNow PROVE command'[p].at = "over" /\ command[p].at = "check"
        BY <1>1, <3>6 DEF CheckAgain
      <3>7. ASSUME Handshake(p) PROVE command'[p].at = "over" /\ command[p].at = "wait"
        BY <1>0, <1>1, <3>7 DEF Handshake, Untroubled
      <3> QED
        BY <1>9, <3>3, <3>4, <3>5, <3>6, <3>7
    <2> QED
      BY <1>4, <2>1, <2>2
  <1>10. ~(\/ StartTimesOut(p) \/ SpawnFails(p) \/ KillSlowJob(p) \/ ClearFailedStart(p)
           \/ TellFailedStart(p) \/ CommandDies(p))
    BY <1>0, <1>1
       DEF StartTimesOut, SpawnFails, KillSlowJob, ClearFailedStart, TellFailedStart, CommandDies,
           Untroubled
  <1> QED
    BY <1>5, <1>6, <1>7, <1>8, <1>9, <1>10 DEF CommandStep

\* The jobs while nothing has failed.
LEMMA JobsUntroubled ==
  ASSUME FolderInv, NEW c \in Compactor, JobStep(c) \/ JobDies(c), troubles' = 0
  PROVE  Untroubled'
  <1> USE DEF FolderInv
  <1>0. troubles = 0 /\ Untroubled /\ ~JobDies(c) /\ JobStep(c)
    <2>1. troubles \in Nat /\ (JobDies(c) => troubles' = troubles + 1)
      BY DEF JobDies, Trouble, CompactionInv, CompactionTypeOK, HistoryTypeOK
    <2> QED
      BY <2>1, JobsLeave
  <1>1. UNCHANGED <<command, disturbed>>
    BY JobsLeave
  <1>2. \A d \in Compactor \ {c} : child'[d] = child[d]
    BY JobsMove DEF CompactionInv, CompactionTypeOK, JobTypeOK
  <1>3. ASSUME NEW from, NEW to, JobGoes(c, from, to)
        PROVE  child[c] = from /\ child'[c] = to
    BY <1>3 DEF CompactionInv, CompactionTypeOK, JobTypeOK, JobGoes
  <1>4. heart.by \in Compactor \cup {NoCompactor} /\ NoCompactor \notin Compactor
    BY CompactionBounds DEF CompactionInv, CompactionTypeOK, FolderTypeOK, Heart
  <1>5. /\ ~disturbed
        /\ \A d, e \in Compactor : Active(d) /\ Active(e) => d = e
        /\ \A p, d \in Compactor : command[p].at \in {"empty", "spawn"} => ~Active(d)
        /\ \A d \in Compactor : child[d] = "create" => command[d].at = "record" \/ spawned
        /\ \A d \in Compactor : Beating(d) => heart.by = d
        /\ heart.by # NoCompactor => heart.fresh /\ Beating(heart.by)
        /\ \A d \in Compactor : child[d] # "killed" /\ command[d].at \notin {"failed", "tell failed"}
    BY <1>0 DEF Untroubled
  <1>6. \A d \in Compactor \ {c} : (Active(d)' <=> Active(d)) /\ (Beating(d)' <=> Beating(d))
    BY <1>2 DEF Active, Beating, Owner
  <1>7. \A d \in Compactor : Beating(d) => Active(d)
    BY DEF Active, Beating, Owner
  \* A step of the one job that is active.
  <1>8. ASSUME Active(c), child'[c] \notin {"create", "killed"},
               Beating(c)' => heart'.by = c,
               heart'.by # NoCompactor => heart'.fresh /\ heart'.by = c /\ Beating(c)'
        PROVE  Untroubled'
    <2>1. \A d \in Compactor \ {c} : ~Active(d) /\ ~Active(d)' /\ ~Beating(d)'
      BY <1>5, <1>6, <1>7, <1>8
    <2>2. \A d \in Compactor : child'[d] # "create" /\ child'[d] # "killed"
      BY <1>2, <1>5, <1>8, <2>1 DEF Active
    <2>3. \A p \in Compactor : command[p].at \notin {"empty", "spawn"}
      BY <1>5, <1>8
    <2>4. (heart.by # NoCompactor => heart.fresh /\ Beating(heart.by))'
      BY <1>8
    <2> QED
      BY <1>1, <1>5, <1>8, <2>1, <2>2, <2>3, <2>4 DEF Untroubled
  <1>9. Beating(c) => heart.by = c /\ heart.fresh
    BY <1>4, <1>5
  <1>10. ~Beating(c) /\ Active(c) => heart.by = NoCompactor
    BY <1>4, <1>5, <1>7
  <1>11. CASE CreateJob(c) \/ Prepare(c)
    <2>1. child[c] \in {"create", "prepare"} /\ child'[c] \in {"exit 0", "prepare", "beat"} /\ UNCHANGED heart
      BY <1>3, <1>11 DEF CreateJob, Prepare
    <2>2. Active(c) /\ ~Beating(c) /\ ~Beating(c)'
      BY <2>1 DEF Active, Owner, Beating, InPane
    <2> QED
      BY <1>8, <1>10, <2>1, <2>2
  <1>12. CASE PrepareRefuses(c) \/ ClearAndExit(c)
    <2>1. child[c] \in {"prepare", "clear"} /\ child'[c] \in {"refuse", "exit 0", "exit 3"}
      BY <1>3, <1>12 DEF PrepareRefuses, ClearAndExit
    <2>2. heart'.by = NoCompactor
      BY <1>12, CompactionBounds DEF PrepareRefuses, ClearAndExit, ClearFolder
    <2>3. Active(c) /\ ~Beating(c)'
      BY <2>1 DEF Active, Owner, Beating, InPane
    <2> QED
      BY <1>8, <2>1, <2>2, <2>3
  <1>13. CASE StartHeart(c) \/ BeatAgain(c)
    <2>1. heart' = [by |-> c, fresh |-> TRUE]
      BY <1>13 DEF StartHeart, BeatAgain
    <2>2. child[c] \in {"beat", "tell", "clear"} \cup InPane /\ child'[c] \in {"tell", "clear"} \cup InPane
      <3>1. CASE StartHeart(c)
        BY <1>3, <3>1 DEF StartHeart, InPane
      <3>2. CASE BeatAgain(c)
        BY <3>2 DEF BeatAgain, jobs
      <3> QED
        BY <1>13, <3>1, <3>2
    <2>3. Active(c) /\ Beating(c)' /\ child'[c] \notin {"create", "killed"}
      BY <2>2 DEF Active, Owner, Beating, InPane
    <2> QED
      BY <1>8, <2>1, <2>3
  <1>14. CASE \/ SendCompact(c) \/ SendAgain(c) \/ SeeMarker(c) \/ TypeResume(c)
              \/ ReadTokens(c) \/ JobFails(c) \/ TellEnd(c)
    <2>1. /\ child[c] \in {"tell"} \cup InPane /\ child'[c] \in {"tell", "clear"} \cup InPane
          /\ UNCHANGED heart
      BY <1>3, <1>14
         DEF SendCompact, SendAgain, SeeMarker, TypeResume, ReadTokens, JobFails, TellEnd, StepInPane,
             InPane, folder
    <2>2. Active(c) /\ Beating(c) /\ Beating(c)' /\ child'[c] \notin {"create", "killed"}
      BY <2>1 DEF Active, Owner, Beating, InPane
    <2> QED
      BY <1>8, <1>9, <2>1, <2>2
  <1>15. CASE RefuseJob(c)
    <2>1. child[c] = "refuse" /\ child'[c] = "exit 3" /\ UNCHANGED <<heart, spawned>>
      BY <1>3, <1>15 DEF RefuseJob, folder
    <2>2. ~Active(c) /\ ~Active(c)' /\ ~Beating(c) /\ ~Beating(c)'
      BY <2>1 DEF Active, Owner, Beating, InPane
    <2>3. \A d \in Compactor : (Active(d)' <=> Active(d)) /\ (Beating(d)' <=> Beating(d))
      BY <1>6, <2>2
    <2>4. (heart.by # NoCompactor => heart.fresh /\ Beating(heart.by))'
      BY <1>4, <1>5, <2>1, <2>3
    <2> QED
      BY <1>1, <1>2, <1>5, <2>1, <2>3, <2>4 DEF Untroubled
  <1> QED
    BY <1>0, <1>11, <1>12, <1>13, <1>14, <1>15 DEF JobStep

\* 30 s pass, or a machine sleeps.
LEMMA TimeKeepsFolder ==
  ASSUME FolderInv, SpawnAges \/ HeartAges
  PROVE  FolderIsOwned' /\ StartIsRecent' /\ (troubles' = 0 => Untroubled')
  <1> USE DEF FolderInv
  <1>1. CASE SpawnAges
    <2>1. UNCHANGED <<job, heart, spawned, child, command, disturbed, troubles>> /\ ~recent'
      BY <1>1 DEF SpawnAges, jobs, pasts
    <2>2. \A c \in Compactor : child[c] \notin Starting
      BY <1>1 DEF SpawnAges
    <2>3. FolderIsOwned'
      BY <2>1 DEF FolderIsOwned, Owner
    <2>4. StartIsRecent'
      BY <2>1, <2>2 DEF StartIsRecent, Starting
    <2>5. Untroubled => Untroubled'
      BY <2>1 DEF Untroubled, Active, Beating, Owner
    <2> QED
      BY <2>1, <2>3, <2>4, <2>5
  <1>2. CASE HeartAges
    <2>1. UNCHANGED <<job, spawned, recent, child, command, disturbed>> /\ troubles' = troubles + 1
      BY <1>2 DEF HeartAges, Trouble, jobs, pasts
    <2>2. FolderIsOwned'
      BY <2>1 DEF FolderIsOwned, Owner
    <2>3. StartIsRecent'
      BY <2>1 DEF StartIsRecent, Starting
    <2>4. troubles' # 0
      BY <2>1 DEF CompactionInv, CompactionTypeOK, HistoryTypeOK
    <2> QED
      BY <2>2, <2>3, <2>4
  <1> QED
    BY <1>1, <1>2

LEMMA FolderNextInv ==
  ASSUME InForeground = {}, FolderInv, [CompactionNext]_compactVars
  PROVE  FolderInv'
  <1>1. CompactionInv'
    BY CompactionNextInv DEF FolderInv
  <1>2. CASE UNCHANGED compactVars
    <2>1. UNCHANGED <<job, heart, spawned, recent, child, command, disturbed, troubles>>
      BY <1>2 DEF compactVars, folder, jobs, pasts
    <2>2. FolderIsOwned' /\ StartIsRecent'
      BY <2>1 DEF FolderInv, FolderIsOwned, StartIsRecent, Owner
    <2>3. Untroubled => Untroubled'
      BY <2>1 DEF Untroubled, Active, Beating, Owner
    <2> QED
      BY <1>1, <2>1, <2>2, <2>3 DEF FolderInv
  <1>3. ASSUME NEW p \in Compactor, CommandStep(p) \/ CommandDies(p) PROVE FolderInv'
    <2>1. FolderIsOwned'
      BY <1>3, CommandsOwned
    <2>2. StartIsRecent'
      BY <1>3, CommandsRecent
    <2>3. troubles' = 0 => Untroubled'
      BY <1>3, CommandsUntroubled
    <2> QED
      BY <1>1, <2>1, <2>2, <2>3 DEF FolderInv
  <1>4. ASSUME NEW c \in Compactor, JobStep(c) \/ JobDies(c) PROVE FolderInv'
    BY <1>1, <1>4, JobsOwned, JobsRecent, JobsUntroubled DEF FolderInv
  <1>5. CASE SpawnAges \/ HeartAges
    BY <1>1, <1>5, TimeKeepsFolder DEF FolderInv
  <1>6. \A p \in Compactor : ~Foreground(p)
    BY DEF Foreground
  <1> QED
    BY <1>2, <1>3, <1>4, <1>5, <1>6 DEF CompactionNext

\* Two jobs never type into one pane (start_locked, create_job_file), whatever
\* is killed or comes too late, unless a live job lost its folder.  That no
\* command is horch compact --foreground is needed: one takes no start lock, and
\* a command that found nothing live empties the folder under its job.
THEOREM OneJobAtATime ==
  ASSUME InForeground = {}
  PROVE  CompactionSpec => []OneJobInPane
  <1>1. FolderInv => OneJobInPane
    BY DEF FolderInv, FolderIsOwned, Owner, OneJobInPane
  <1>2. FolderInv /\ [CompactionNext]_compactVars => FolderInv'
    BY FolderNextInv
  <1> QED
    BY <1>1, <1>2, FolderInitInv, PTL DEF CompactionSpec

\* A job that got past its start and is gone, and what an end or a loss of it
\* has left: an event, or a command that is about to record one.
Ended(c)   == c \in began /\ child[c] \in Exited
Excused(c) == c \in told \cup unseen \/ command[c].at \in {"failed", "tell failed"}

\* Whoever ends by itself has told.
EndIsTold ==
    /\ \A c \in began : child[c] \notin {"none", "create", "prepare", "refuse"}
    /\ \A c \in Compactor : child[c] = "clear" => c \in told
    /\ \A c \in began : child[c] \in {"exit 0", "exit 3"} => c \in told

\* A claim in the folder is of the job in the folder.
ClaimIsTold ==
    disturbed \/ misclaimed \/ (lost /\ job.by # NoCompactor => job.by \in told)

\* No claim is in the folder when the next job comes.
ClaimIsOver == misclaimed \/ (lost => \A c \in Compactor : ~OnItsWay(c))

\* A job that is gone is excused or still in the folder, and it is excused as
\* soon as a command of another job is past its look and its claim.
LossIsTold ==
    disturbed \/ misclaimed \/
        /\ \A c \in Compactor : Ended(c) => Excused(c) \/ job.by = c
        /\ \A p, c \in Compactor :
              /\ command[p].at \notin {"new", "over", "claim"}
              /\ job.by = c /\ c # p /\ Ended(c)
              => Excused(c)

LossInv == FolderInv /\ EndIsTold /\ ClaimIsTold /\ ClaimIsOver /\ LossIsTold

LEMMA LossInitInv == CompactionInit => LossInv
  <1> SUFFICES ASSUME CompactionInit PROVE LossInv
    OBVIOUS
  <1>1. began = {} /\ ~lost /\ \A c \in Compactor : child[c] = "none"
    BY DEF CompactionInit
  <1> QED
    BY <1>1, FolderInitInv DEF LossInv, EndIsTold, ClaimIsTold, ClaimIsOver, LossIsTold, Ended

\* What is recorded stays so.
LEMMA HistoryGrows ==
  ASSUME CompactionInv, NEW p \in Compactor,
         CommandStep(p) \/ CommandDies(p) \/ JobStep(p) \/ JobDies(p)
  PROVE  /\ told \subseteq told' /\ unseen \subseteq unseen'
         /\ disturbed => disturbed'
         /\ misclaimed => misclaimed'
         /\ ~Prepare(p) => UNCHANGED began
  <1>1. CASE \/ ClaimLoss(p) \/ EmptyFolder(p) \/ ClearFailedStart(p) \/ TellFailedStart(p)
             \/ CommandDies(p)
    <2>1. told \subseteq told' /\ unseen \subseteq unseen' /\ UNCHANGED began
      BY <1>1 DEF ClaimLoss, EmptyFolder, ClearFailedStart, TellFailedStart, CommandDies
    <2>2. EmptyFolder(p) \/ ClearFailedStart(p) => (disturbed => disturbed')
      BY Zenon DEF EmptyFolder, ClearFailedStart
    <2>3. ClaimLoss(p) => (misclaimed => misclaimed')
      BY Zenon DEF ClaimLoss
    <2>4. ~EmptyFolder(p) /\ ~ClearFailedStart(p) => disturbed' = disturbed
      BY <1>1 DEF ClaimLoss, TellFailedStart, CommandDies
    <2>5. ~ClaimLoss(p) => misclaimed' = misclaimed
      BY <1>1 DEF EmptyFolder, ClearFailedStart, TellFailedStart, CommandDies
    <2> QED
      BY <2>1, <2>2, <2>3, <2>4, <2>5
  <1>2. CASE RefuseJob(p) \/ TellEnd(p) \/ Prepare(p) \/ JobDies(p)
    <2>1. told \subseteq told' /\ unseen \subseteq unseen' /\ (~Prepare(p) => UNCHANGED began)
      BY <1>2 DEF RefuseJob, TellEnd, Prepare, JobDies
    <2>2. UNCHANGED <<disturbed, misclaimed>>
      BY <1>2 DEF RefuseJob, TellEnd, Prepare, JobDies
    <2> QED
      BY <2>1, <2>2
  <1>3. ASSUME UNCHANGED pasts
        PROVE  /\ told \subseteq told' /\ unseen \subseteq unseen' /\ UNCHANGED began
               /\ disturbed => disturbed'
               /\ misclaimed => misclaimed'
    <2>1. UNCHANGED <<told, unseen, began>>
      BY <1>3 DEF pasts
    <2>2. (disturbed => disturbed') /\ (misclaimed => misclaimed')
      BY <1>3, Zenon DEF pasts
    <2> QED
      BY <2>1, <2>2
  <1>4. CASE \/ Look(p) \/ GuardsRefuse(p) \/ GuardsPass(p) \/ TakeStartLock(p) \/ StartTimesOut(p)
             \/ CheckAgain(p) \/ SpawnJob(p) \/ SpawnFails(p) \/ RecordSpawn(p) \/ Handshake(p)
             \/ KillSlowJob(p)
    <2>1. UNCHANGED pasts
      BY <1>4
         DEF Look, GuardsRefuse, GuardsPass, TakeStartLock, StartTimesOut, CheckAgain, SpawnJob,
             SpawnFails, RecordSpawn, Handshake, KillSlowJob
    <2> QED
      BY <1>3, <2>1
  <1>5. CASE \/ CreateJob(p) \/ PrepareRefuses(p) \/ StartHeart(p) \/ BeatAgain(p) \/ SendCompact(p)
             \/ SendAgain(p) \/ SeeMarker(p) \/ TypeResume(p) \/ ReadTokens(p) \/ JobFails(p)
             \/ ClearAndExit(p)
    <2>1. UNCHANGED pasts
      BY <1>5
         DEF CreateJob, PrepareRefuses, StartHeart, BeatAgain, SendCompact, SendAgain, SeeMarker,
             TypeResume, ReadTokens, JobFails, StepInPane, ClearAndExit
    <2> QED
      BY <1>3, <2>1
  <1> QED
    BY <1>1, <1>2, <1>4, <1>5 DEF CommandStep, JobStep

\* The steps of a command.
LEMMA CommandsLoss ==
  ASSUME LossInv, NEW p \in Compactor, CommandStep(p) \/ CommandDies(p)
  PROVE  EndIsTold' /\ ClaimIsTold' /\ ClaimIsOver' /\ LossIsTold'
  <1> USE DEF LossInv, FolderInv
  <1>1. /\ told \subseteq told' /\ unseen \subseteq unseen' /\ UNCHANGED began
        /\ disturbed => disturbed'
        /\ misclaimed => misclaimed'
    <2>1. UNCHANGED began
      BY CommandsJob
    <2> QED
      BY <2>1, HistoryGrows
  <1>2. ASSUME NEW from, NEW to, CommandGoes(p, from, to)
        PROVE  command[p].at = from /\ command'[p].at = to
    BY <1>2 DEF CommandGoes, CompactionInv, CompactionTypeOK, CommandTypeOK, Place
  <1>3. \A q \in Compactor \ {p} : command'[q] = command[q]
    BY OnlyOneMoves DEF CompactionInv
  <1>4. child \in [Compactor -> JobAt] /\ command \in [Compactor -> Place] /\ began \subseteq Compactor
    BY DEF CompactionInv, CompactionTypeOK, JobTypeOK, CommandTypeOK, HistoryTypeOK
  <1>5. EndIsTold'
    <2>1. \A c \in Compactor :
             child'[c] = child[c] \/ child'[c] = "killed" \/ (child'[c] = "create" /\ child[c] = "none")
      BY <1>4, CommandsJob
    <2> QED
      BY <1>1, <1>4, <2>1 DEF EndIsTold
  \* What leaves a place of Excused has told, or is unseen.
  <1>6. \A c \in Compactor : Excused(c) => Excused(c)'
    <2>1. \A c \in Compactor \ {p} : Excused(c) => Excused(c)'
      BY <1>1, <1>3 DEF Excused
    <2>2. p \in told \cup unseen => Excused(p)'
      BY <1>1 DEF Excused
    <2>3. ASSUME command[p].at \in {"failed", "tell failed"} PROVE Excused(p)'
      <3>1. ClearFailedStart(p) \/ TellFailedStart(p) \/ CommandDies(p)
        BY <2>3
           DEF CommandStep, Look, ClaimLoss, GuardsRefuse, GuardsPass, TakeStartLock, StartTimesOut,
               CheckAgain, EmptyFolder, SpawnJob, SpawnFails, RecordSpawn, Handshake, KillSlowJob,
               CommandGoes
      <3>2. ClearFailedStart(p) => command'[p].at = "tell failed"
        BY <1>2 DEF ClearFailedStart
      <3>3. TellFailedStart(p) => p \in told'
        BY DEF TellFailedStart
      <3>4. CommandDies(p) => p \in unseen'
        BY <2>3 DEF CommandDies
      <3> QED
        BY <3>1, <3>2, <3>3, <3>4 DEF Excused
    <2> QED
      BY <2>1, <2>2, <2>3 DEF Excused
  <1>7. \A c \in Compactor : Ended(c)' => Ended(c) \/ Excused(c)'
    <2>1. CASE KillSlowJob(p)
      <3>1. command'[p].at = "failed" /\ \A c \in Compactor \ {p} : child'[c] = child[c]
        BY <1>2, <1>4, <2>1 DEF KillSlowJob
      <3> QED
        BY <1>1, <3>1 DEF Ended, Excused
    <2>2. CASE SpawnJob(p)
      <3>1. child' = [child EXCEPT ![p] = "create"]
        BY <2>2 DEF SpawnJob
      <3>2. \A c \in Compactor : child'[c] \in Exited => child[c] \in Exited
        BY <1>4, <3>1 DEF Exited
      <3> QED
        BY <1>1, <3>2 DEF Ended
    <2>3. CASE ~KillSlowJob(p) /\ ~SpawnJob(p)
      <3>1. UNCHANGED child
        BY <2>3
           DEF CommandStep, CommandDies, Look, ClaimLoss, GuardsRefuse, GuardsPass, TakeStartLock,
               StartTimesOut, CheckAgain, EmptyFolder, SpawnFails, RecordSpawn, Handshake,
               ClearFailedStart, TellFailedStart, jobs
      <3> QED
        BY <1>1, <3>1 DEF Ended
    <2> QED
      BY <2>1, <2>2, <2>3
  <1>8. CASE ~EmptyFolder(p) /\ ~ClearFailedStart(p)
    <2>1. UNCHANGED job
      BY <1>8, CommandsFolder
    <2>2. ~ClaimLoss(p) => UNCHANGED lost
      BY <1>8
         DEF CommandStep, CommandDies, Look, GuardsRefuse, GuardsPass, TakeStartLock, StartTimesOut,
             CheckAgain, SpawnJob, SpawnFails, RecordSpawn, Handshake, KillSlowJob, TellFailedStart,
             folder
    \* Whoever claims records the loss of what is in the folder.
    <2>3. ASSUME ClaimLoss(p), ~disturbed', ~misclaimed', job.by # NoCompactor PROVE job.by \in told'
      <3>1. job.by = command[p].saw /\ ~disturbed /\ ~misclaimed
        BY <1>1, <2>3 DEF ClaimLoss
      <3>2. CASE lost
        BY <1>1, <2>3, <3>1, <3>2 DEF ClaimIsTold
      <3>3. CASE ~lost
        BY <2>3, <3>1, <3>3 DEF ClaimLoss, IsFirst
      <3> QED
        BY <3>2, <3>3
    <2>4. ClaimIsTold'
      <3> SUFFICES ASSUME ~disturbed', ~misclaimed', lost', job.by # NoCompactor PROVE job.by \in told'
        BY <2>1 DEF ClaimIsTold
      <3>1. CASE ClaimLoss(p)
        BY <2>3, <3>1
      <3>2. CASE ~ClaimLoss(p)
        BY <1>1, <2>2, <3>2 DEF ClaimIsTold
      <3> QED
        BY <3>1, <3>2
    <2>5. LossIsTold'
      <3> SUFFICES ASSUME ~disturbed', ~misclaimed'
          PROVE  /\ \A c \in Compactor : Ended(c)' => Excused(c)' \/ job'.by = c
                 /\ \A q, c \in Compactor :
                       /\ command'[q].at \notin {"new", "over", "claim"}
                       /\ job'.by = c /\ c # q /\ Ended(c)'
                       => Excused(c)'
        BY DEF LossIsTold
      <3>1. /\ \A c \in Compactor : Ended(c) => Excused(c) \/ job.by = c
            /\ \A q, c \in Compactor :
                  /\ command[q].at \notin {"new", "over", "claim"}
                  /\ job.by = c /\ c # q /\ Ended(c)
                  => Excused(c)
        BY <1>1 DEF LossIsTold
      <3>2. \A c \in Compactor : Ended(c)' => Excused(c)' \/ job'.by = c
        BY <1>6, <1>7, <2>1, <3>1
      <3>3. ASSUME NEW q \in Compactor, NEW c \in Compactor,
                   command'[q].at \notin {"new", "over", "claim"}, job'.by = c, c # q, Ended(c)'
            PROVE  Excused(c)'
        <4>1. CASE command[q].at \notin {"new", "over", "claim"}
          BY <1>6, <1>7, <2>1, <3>1, <3>3, <4>1
        <4>2. CASE command[q].at \in {"new", "over", "claim"}
          <5>1. q = p /\ (Look(p) \/ ClaimLoss(p))
            <6>1. q = p
              BY <1>3, <3>3, <4>2
            <6>2. ~CommandDies(p)
              <7> SUFFICES ASSUME CommandDies(p) PROVE FALSE
                OBVIOUS
              <7>1. command'[p] = [at |-> "over", saw |-> NoCompactor]
                BY <1>4 DEF CommandDies
              <7> QED
                BY <3>3, <6>1, <7>1
            <6> QED
              BY <4>2, <6>1, <6>2
                 DEF CommandStep, GuardsRefuse, GuardsPass, TakeStartLock, StartTimesOut, CheckAgain,
                     EmptyFolder, SpawnJob, SpawnFails, RecordSpawn, Handshake, KillSlowJob,
                     ClearFailedStart, TellFailedStart, CommandGoes
          <5>2. CASE Look(p)
            <6>1. command'[p] = [at |-> IF IsRunning THEN "over" ELSE IF IsLost THEN "claim" ELSE "guards",
                                 saw |-> IF IsLost THEN job.by ELSE NoCompactor]
              BY <1>4, <5>2 DEF Look
            <6>2. ~IsRunning /\ ~IsLost
              BY <3>3, <5>1, <6>1
            <6>3. job.by = NoCompactor
              BY <6>2 DEF IsLost, CompactionInv, CompactionTypeOK, FolderTypeOK
            <6> QED
              BY <2>1, <3>3, <6>3, CompactionBounds
          <5>3. CASE ClaimLoss(p)
            BY <2>1, <2>3, <3>3, <5>3, CompactionBounds DEF Excused
          <5> QED
            BY <5>1, <5>2, <5>3
        <4> QED
          BY <4>1, <4>2
      <3> QED
        BY <3>2, <3>3
    <2>6. ClaimIsOver'
      <3> SUFFICES ASSUME ~misclaimed', lost', NEW c \in Compactor, OnItsWay(c)' PROVE FALSE
        BY DEF ClaimIsOver
      <3>1. OnItsWay(c)
        <4>1. command'[c].at = "spawn" => command[c].at = "spawn"
          BY <1>3, <1>8, SpawnIsReached
        <4>2. child'[c] = "create" => OnItsWay(c)
          <5>1. CASE SpawnJob(p)
            BY <1>4, <5>1 DEF SpawnJob, CommandGoes, OnItsWay
          <5>2. CASE ~SpawnJob(p)
            <6>1. child'[c] \in {child[c], "killed"}
              BY <1>4, <5>2
                 DEF CommandStep, CommandDies, Look, ClaimLoss, GuardsRefuse, GuardsPass, TakeStartLock,
                     StartTimesOut, CheckAgain, EmptyFolder, SpawnFails, RecordSpawn, Handshake,
                     KillSlowJob, ClearFailedStart, TellFailedStart, jobs
            <6> QED
              BY <6>1 DEF OnItsWay
          <5> QED
            BY <5>1, <5>2
        <4> QED
          BY <4>1, <4>2 DEF OnItsWay
      <3>2. CASE ClaimLoss(p)
        <4>1. misclaimed' = (misclaimed \/ job.by # command[p].saw \/ \E d \in Compactor : OnItsWay(d))
          BY <3>2, Zenon DEF ClaimLoss
        <4> QED
          BY <3>1, <4>1, Zenon
      <3>3. CASE ~ClaimLoss(p)
        BY <1>1, <2>2, <3>1, <3>3 DEF ClaimIsOver
      <3> QED
        BY <3>2, <3>3
    <2> QED
      BY <1>5, <2>4, <2>5, <2>6
  <1>9. CASE EmptyFolder(p) \/ ClearFailedStart(p)
    <2>1. job'.by = NoCompactor
      BY <1>9, CompactionBounds DEF EmptyFolder, ClearFailedStart, ClearFolder
    <2>2. ClaimIsTold'
      BY <2>1 DEF ClaimIsTold
    \* The one in the folder is of another command, or the one that failed.
    <2>3. ASSUME ~disturbed', ~misclaimed', NEW c \in Compactor, Ended(c) PROVE Excused(c)'
      <3>1. /\ Excused(c) \/ job.by = c
            /\ \A q \in Compactor :
                  command[q].at \notin {"new", "over", "claim"} /\ job.by = c /\ c # q => Excused(c)
        BY <1>1, <2>3 DEF LossIsTold
      <3>2. command[p].at \in {"empty", "failed"}
        BY <1>2, <1>9 DEF EmptyFolder, ClearFailedStart
      <3>3. CASE c # p
        BY <1>6, <3>1, <3>2, <3>3
      <3>4. CASE c = p
        <4>1. command[p].at # "empty"
          <5>1. command[p].at = "empty" => child[p] = "none"
            BY DEF CompactionInv, SendsFit
          <5> QED
            BY <2>3, <3>4, <5>1 DEF Ended, Exited
        <4>2. Excused(p)
          BY <3>2, <4>1 DEF Excused
        <4> QED
          BY <1>6, <3>4, <4>2
      <3> QED
        BY <3>3, <3>4
    <2>4. LossIsTold'
      BY <1>7, <2>1, <2>3, CompactionBounds DEF LossIsTold
    <2>5. ClaimIsOver'
      <3>1. CASE EmptyFolder(p)
        BY <3>1 DEF EmptyFolder, LostGoes, ClaimIsOver
      <3>2. CASE ClearFailedStart(p)
        <4>1. UNCHANGED <<lost, child, misclaimed>> /\ command'[p].at = "tell failed"
          BY <1>2, <3>2 DEF ClearFailedStart, ClearFolder, jobs
        <4>2. \A c \in Compactor : OnItsWay(c)' => OnItsWay(c)
          BY <1>3, <4>1 DEF OnItsWay
        <4> QED
          BY <4>1, <4>2 DEF ClaimIsOver
      <3> QED
        BY <1>9, <3>1, <3>2
    <2> QED
      BY <1>5, <2>2, <2>4, <2>5
  <1> QED
    BY <1>8, <1>9

\* What a step of a job does to job.json, while nothing is disturbed: it leaves
\* whose it is, or it is its own before, or there was none.
LEMMA JobsFolder ==
  ASSUME FolderInv, ~disturbed, NEW c \in Compactor, JobStep(c) \/ JobDies(c)
  PROVE  /\ UNCHANGED lost
         /\ \/ UNCHANGED job
            \/ job.by = c /\ job'.by \in {c, NoCompactor}
            \/ job.by = NoCompactor /\ job'.by = c /\ child[c] = "create"
  <1>0. Owner(c) => job.by = c
    BY DEF FolderInv, FolderIsOwned
  <1>1. CASE CreateJob(c)
    <2>1. UNCHANGED lost
      BY <1>1 DEF CreateJob
    <2>2. CASE job.step = "none"
      <3>1. job.by = NoCompactor
        BY <2>2 DEF FolderInv, CompactionInv, CompactionTypeOK, FolderTypeOK
      <3>2. job' = [step |-> "start", by |-> c]
        BY <1>1, <2>2 DEF CreateJob, WriteJob
      <3>3. child[c] = "create"
        BY <1>1 DEF CreateJob
      <3> QED
        BY <2>1, <3>1, <3>2, <3>3
    <2>3. CASE job.step # "none"
      BY <1>1, <2>1, <2>3 DEF CreateJob
    <2> QED
      BY <2>2, <2>3
  <1>2. CASE \/ Prepare(c) \/ SendCompact(c) \/ SendAgain(c) \/ SeeMarker(c) \/ TypeResume(c)
             \/ ReadTokens(c) \/ JobFails(c)
    <2>1. Owner(c) /\ UNCHANGED lost
      BY <1>2
         DEF Prepare, SendCompact, SendAgain, SeeMarker, TypeResume, ReadTokens, JobFails, StepInPane,
             JobGoes, Owner, InPane
    <2>2. job'.by = c
      BY <1>2
         DEF Prepare, SendCompact, SendAgain, SeeMarker, TypeResume, ReadTokens, JobFails, StepInPane,
             WriteJob
    <2> QED
      BY <1>0, <2>1, <2>2
  <1>3. CASE PrepareRefuses(c) \/ ClearAndExit(c)
    <2>1. Owner(c)
      BY <1>3 DEF PrepareRefuses, ClearAndExit, JobGoes, Owner
    <2>2. UNCHANGED lost /\ job'.by = NoCompactor
      BY <1>3, CompactionBounds DEF PrepareRefuses, ClearAndExit, ClearFolder
    <2> QED
      BY <1>0, <2>1, <2>2
  <1>4. CASE RefuseJob(c) \/ StartHeart(c) \/ BeatAgain(c) \/ TellEnd(c) \/ JobDies(c)
    BY <1>4 DEF RefuseJob, StartHeart, BeatAgain, TellEnd, JobDies, folder
  <1> QED
    BY <1>1, <1>2, <1>3, <1>4 DEF JobStep

\* Whoever ends by itself goes through its event.
LEMMA JobsTell ==
  ASSUME CompactionInv, EndIsTold, NEW c \in Compactor, JobStep(c) \/ JobDies(c)
  PROVE  EndIsTold'
  <1>1. told \subseteq told' /\ (~Prepare(c) => UNCHANGED began)
    BY HistoryGrows
  <1>2. ASSUME NEW from, NEW to, JobGoes(c, from, to)
        PROVE  child[c] = from /\ child'[c] = to
    BY <1>2 DEF CompactionInv, CompactionTypeOK, JobTypeOK, JobGoes
  <1>3. \A d \in Compactor \ {c} : child'[d] = child[d]
    BY JobsMove DEF CompactionInv, CompactionTypeOK, JobTypeOK
  <1>4. began \subseteq Compactor
    BY DEF CompactionInv, CompactionTypeOK, HistoryTypeOK
  \* The job that moves.
  <1>5. /\ c \in began' => child'[c] \notin {"none", "create", "prepare", "refuse"}
        /\ child'[c] = "clear" => c \in told'
        /\ c \in began' /\ child'[c] \in {"exit 0", "exit 3"} => c \in told'
    <2>1. CASE Prepare(c)
      <3>1. child'[c] = "beat"
        BY <1>2, <2>1 DEF Prepare
      <3> QED
        BY <3>1
    <2>2. CASE RefuseJob(c) \/ TellEnd(c)
      <3>1. c \in told' /\ child'[c] \in {"exit 3", "clear"}
        BY <1>2, <2>2 DEF RefuseJob, TellEnd
      <3> QED
        BY <3>1
    <2>3. CASE CreateJob(c) \/ PrepareRefuses(c)
      <3>1. CreateJob(c) => child[c] = "create" /\ child'[c] \in {"exit 0", "prepare"}
        BY <1>2 DEF CreateJob
      <3>2. PrepareRefuses(c) => child[c] = "prepare" /\ child'[c] = "refuse"
        BY <1>2 DEF PrepareRefuses
      <3>3. c \notin began
        BY <2>3, <3>1, <3>2 DEF EndIsTold
      <3>4. UNCHANGED began
        BY <2>3 DEF CreateJob, PrepareRefuses, pasts
      <3> QED
        BY <2>3, <3>1, <3>2, <3>3, <3>4
    <2>4. CASE ClearAndExit(c)
      <3>1. child[c] = "clear" /\ child'[c] \in {"exit 0", "exit 3"}
        BY <1>2, <2>4 DEF ClearAndExit
      <3> QED
        BY <1>1, <3>1 DEF EndIsTold
    <2>5. CASE BeatAgain(c)
      <3>1. UNCHANGED <<child, began>>
        BY <2>5 DEF BeatAgain, jobs, pasts
      <3> QED
        BY <1>1, <3>1 DEF EndIsTold
    <2>6. CASE JobDies(c)
      <3>1. child'[c] = "killed"
        BY <2>6 DEF JobDies, CompactionInv, CompactionTypeOK, JobTypeOK
      <3> QED
        BY <3>1
    <2>7. CASE \/ StartHeart(c) \/ SendCompact(c) \/ SendAgain(c) \/ SeeMarker(c) \/ TypeResume(c)
               \/ ReadTokens(c) \/ JobFails(c)
      <3>1. child'[c] \in {"tell"} \cup InPane
        BY <1>2, <2>7
           DEF StartHeart, SendCompact, SendAgain, SeeMarker, TypeResume, ReadTokens, JobFails,
               StepInPane, InPane
      <3> QED
        BY <3>1 DEF InPane
    <2> QED
      BY <2>1, <2>2, <2>3, <2>4, <2>5, <2>6, <2>7 DEF JobStep
  <1>6. \A d \in Compactor \ {c} : d \in began' => d \in began
    BY <1>1 DEF Prepare
  <1>7. began' \subseteq Compactor
    BY <1>1, <1>4 DEF Prepare
  <1> QED
    BY <1>1, <1>3, <1>5, <1>6, <1>7 DEF EndIsTold

\* The steps of a job.
LEMMA JobsLoss ==
  ASSUME LossInv, NEW c \in Compactor, JobStep(c) \/ JobDies(c)
  PROVE  EndIsTold' /\ ClaimIsTold' /\ ClaimIsOver' /\ LossIsTold'
  <1> USE DEF LossInv, FolderInv
  <1>1. /\ told \subseteq told' /\ unseen \subseteq unseen' /\ (~Prepare(c) => UNCHANGED began)
        /\ disturbed => disturbed'
        /\ misclaimed => misclaimed'
    BY HistoryGrows
  <1>2. UNCHANGED command
    BY JobsLeave
  <1>3. \A d \in Compactor : Excused(d) => Excused(d)'
    BY <1>1, <1>2 DEF Excused
  <1>4. EndIsTold'
    BY JobsTell
  <1>5. \A d \in Compactor \ {c} : Ended(d)' => Ended(d)
    <2>1. \A d \in Compactor \ {c} : child'[d] = child[d]
      BY JobsMove DEF CompactionInv, CompactionTypeOK, JobTypeOK
    <2>2. \A d \in Compactor \ {c} : d \in began' => d \in began
      BY <1>1 DEF Prepare
    <2> QED
      BY <2>1, <2>2 DEF Ended
  \* A job that ends has told, or dies with what it has in the folder.
  <1>6. ASSUME Ended(c)'
        PROVE  c \in told' \/ (JobDies(c) /\ Owner(c))
    <2>1. CASE JobDies(c)
      <3>1. c \in began /\ Running(c)
        BY <1>1, <1>6, <2>1 DEF Ended, JobDies, Prepare
      <3>2. Owner(c)
        BY <3>1
           DEF EndIsTold, Running, Owner, InPane, Exited, Starting, JobAt, CompactionInv,
               CompactionTypeOK, JobTypeOK
      <3> QED
        BY <2>1, <3>2
    <2>2. CASE ~JobDies(c)
      <3>1. child'[c] # "killed"
        <4>1. ASSUME NEW from, NEW to, JobGoes(c, from, to) PROVE child'[c] = to
          BY <4>1 DEF CompactionInv, CompactionTypeOK, JobTypeOK, JobGoes
        <4>2. BeatAgain(c) => child'[c] # "killed"
          BY DEF BeatAgain, jobs, InPane
        <4> QED
          BY <2>2, <4>1, <4>2
             DEF JobStep, CreateJob, Prepare, PrepareRefuses, RefuseJob, StartHeart,
                 SendCompact, SendAgain, SeeMarker, TypeResume, ReadTokens, JobFails, StepInPane,
                 TellEnd, ClearAndExit
      <3> QED
        BY <1>4, <1>6, <3>1 DEF Ended, Exited, EndIsTold
    <2> QED
      BY <2>1, <2>2
  <1>5a. ClaimIsOver'
    <2>1. UNCHANGED lost
      BY DEF JobStep, JobDies, CreateJob, Prepare, PrepareRefuses, RefuseJob, StartHeart, BeatAgain,
             SendCompact, SendAgain, SeeMarker, TypeResume, ReadTokens, JobFails, StepInPane, TellEnd,
             ClearAndExit, ClearFolder, folder
    <2>2. \A d \in Compactor : child'[d] = "create" => child[d] = "create"
      BY JobsMove DEF JobGraph, CompactionInv, CompactionTypeOK, JobTypeOK
    <2>3. \A d \in Compactor : OnItsWay(d)' => OnItsWay(d)
      BY <1>2, <2>2 DEF OnItsWay
    <2> QED
      BY <1>1, <2>1, <2>3 DEF ClaimIsOver
  <1> SUFFICES ASSUME ~disturbed', ~misclaimed' PROVE ClaimIsTold' /\ LossIsTold'
    BY <1>4, <1>5a DEF ClaimIsTold, LossIsTold
  <1>7. ~disturbed /\ ~misclaimed
    BY <1>1
  <1>8. /\ UNCHANGED lost
        /\ \/ UNCHANGED job
           \/ job.by = c /\ job'.by \in {c, NoCompactor}
           \/ job.by = NoCompactor /\ job'.by = c /\ child[c] = "create"
    BY <1>7, JobsFolder
  <1>9. ClaimIsTold'
    <2>1. lost /\ job.by # NoCompactor => job.by \in told
      BY <1>7 DEF ClaimIsTold
    <2>2. lost => child[c] # "create"
      BY <1>7 DEF ClaimIsOver, OnItsWay
    <2> QED
      BY <1>1, <1>8, <2>1, <2>2 DEF ClaimIsTold
  <1>10. /\ \A d \in Compactor : Ended(d) => Excused(d) \/ job.by = d
         /\ \A q, d \in Compactor :
               /\ command[q].at \notin {"new", "over", "claim"}
               /\ job.by = d /\ d # q /\ Ended(d)
               => Excused(d)
    BY <1>7 DEF LossIsTold
  <1>11. JobDies(c) => UNCHANGED job
    BY DEF JobDies, folder
  <1>12. ASSUME NEW d \in Compactor, Ended(d)' PROVE Excused(d)' \/ job'.by = d
    <2>1. CASE d = c
      <3>1. Owner(c) => job.by = c
        BY <1>7 DEF FolderIsOwned
      <3> QED
        BY <1>6, <1>11, <1>12, <2>1, <3>1 DEF Excused
    <2>2. CASE d # c
      BY <1>3, <1>5, <1>8, <1>10, <1>12, <2>2, CompactionBounds
    <2> QED
      BY <2>1, <2>2
  <1>13. ASSUME NEW q \in Compactor, NEW d \in Compactor,
                command'[q].at \notin {"new", "over", "claim"}, job'.by = d, d # q, Ended(d)'
         PROVE  Excused(d)'
    <2>1. CASE d = c
      <3>1. JobDies(c) => c \in unseen'
        <4>1. AnotherStarts(c)
          BY <1>2, <1>13, <2>1 DEF AnotherStarts
        <4> QED
          BY <4>1 DEF JobDies
      <3> QED
        BY <1>6, <1>13, <2>1, <3>1 DEF Excused
    <2>2. CASE d # c
      <3>1. job.by = d
        BY <1>8, <1>13, <2>2, CompactionBounds
      <3> QED
        BY <1>2, <1>3, <1>5, <1>10, <1>13, <2>2, <3>1
    <2> QED
      BY <2>1, <2>2
  <1> QED
    BY <1>9, <1>12, <1>13 DEF LossIsTold

LEMMA LossNextInv ==
  ASSUME InForeground = {}, LossInv, [CompactionNext]_compactVars
  PROVE  LossInv'
  <1>1. FolderInv'
    BY FolderNextInv DEF LossInv
  <1>2. CASE UNCHANGED compactVars \/ SpawnAges \/ HeartAges
    <2>1. UNCHANGED <<job, lost, child, command, told, began, disturbed, misclaimed, unseen>>
      BY <1>2 DEF compactVars, SpawnAges, HeartAges, folder, jobs, pasts
    <2> QED
      BY <1>1, <2>1
         DEF LossInv, EndIsTold, ClaimIsTold, ClaimIsOver, OnItsWay, LossIsTold, Ended, Excused
  <1>3. ASSUME NEW p \in Compactor, CommandStep(p) \/ CommandDies(p) PROVE LossInv'
    BY <1>1, <1>3, CommandsLoss DEF LossInv
  <1>4. ASSUME NEW c \in Compactor, JobStep(c) \/ JobDies(c) PROVE LossInv'
    BY <1>1, <1>4, JobsLoss DEF LossInv
  <1>5. \A p \in Compactor : ~Foreground(p)
    BY DEF Foreground
  <1> QED
    BY <1>2, <1>3, <1>4, <1>5 DEF CompactionNext

\* A job past its start that is gone from its folder was recorded (claim_lost,
\* start_failed, the end of run_job), whatever is killed, fails or comes too
\* late, unless its folder was taken while it lived or a claim fell on another
\* job, or before that job was there.  That no command is horch compact
\* --foreground is needed for the reason above: its job is forgotten with the
\* folder that a start empties.
THEOREM NoJobIsLost ==
  ASSUME InForeground = {}
  PROVE  CompactionSpec => []NoJobIsForgotten
  <1>1. LossInv => NoJobIsForgotten
    <2>1. began \subseteq Compactor \/ ~LossInv
      BY DEF LossInv, FolderInv, CompactionInv, CompactionTypeOK, HistoryTypeOK
    <2> QED
      BY <2>1 DEF LossInv, LossIsTold, NoJobIsForgotten, Ended, Excused
  <1>2. LossInv /\ [CompactionNext]_compactVars => LossInv'
    BY LossNextInv
  <1> QED
    BY <1>1, <1>2, LossInitInv, PTL DEF CompactionSpec

-----------------------------------------------------------------------------
(***************************************************************************)
(* Triage: histories.                                                      *)
(***************************************************************************)
LEMMA SeqOfASet ==
  ASSUME NEW S, IsFiniteSet(S)
  PROVE  SetToSeq(S) \in Seq(S) /\ ToSet(SetToSeq(S)) = S
  <1> DEFINE n == Cardinality(S)
  <1>1. n \in Nat /\ \E f : f \in Bijection(1 .. n, S)
    BY FS_CardinalityType DEF ExistsBijection
  <1>2. PICK f : f \in Bijection(1 .. n, S)
    BY <1>1
  <1>3. f \in [1 .. n -> S] /\ IsInjective(f)
    BY <1>2 DEF Bijection, Injection
  <1>4. SetToSeq(S) \in [1 .. n -> S] /\ IsInjective(SetToSeq(S))
    BY <1>3 DEF SetToSeq
  <1>5. IsFiniteSet(1 .. n) /\ Cardinality(1 .. n) = n
    BY <1>1, FS_Interval
  <1>6. SetToSeq(S) \in Injection(1 .. n, S)
    BY <1>4 DEF Injection
  <1>7. SetToSeq(S) \in Surjection(1 .. n, S)
    BY <1>5, <1>6, FS_Injection
  <1> QED
    BY <1>1, <1>4, <1>7 DEF Surjection, ToSet

LEMMA OrderedSeqs ==
  ASSUME NEW S, IsFiniteSet(S), NEW t \in SetToSeqs(S)
  PROVE  t \in Seq(S) /\ ToSet(t) = S
  <1> DEFINE n == Cardinality(S)
  <1>1. n \in Nat
    BY FS_CardinalityType
  <1>4. t \in [1 .. n -> S] /\ \A i, j \in 1 .. n : i # j => t[i] # t[j]
    BY DEF SetToSeqs
  <1>5. IsFiniteSet(1 .. n) /\ Cardinality(1 .. n) = n
    BY <1>1, FS_Interval
  <1>6. t \in Injection(1 .. n, S)
    BY <1>4 DEF Injection, IsInjective
  <1>7. t \in Surjection(1 .. n, S)
    BY <1>5, <1>6, FS_Injection
  <1> QED
    BY <1>1, <1>4, <1>7 DEF Surjection, ToSet

LEMMA SetOfSum ==
  ASSUME NEW T, NEW a \in Seq(T), NEW b \in Seq(T)
  PROVE  a \o b \in Seq(T) /\ ToSet(a \o b) = ToSet(a) \cup ToSet(b)
  <1>1. a \o b \in Seq(T) /\ Len(a \o b) = Len(a) + Len(b)
    OBVIOUS
  <1>2. \A i \in 1 .. Len(a) : (a \o b)[i] = a[i]
    OBVIOUS
  <1>3. \A i \in 1 .. Len(b) : (a \o b)[Len(a) + i] = b[i]
    OBVIOUS
  <1>4. ToSet(a) \cup ToSet(b) \subseteq ToSet(a \o b)
    <2>0. \A i \in 1 .. Len(a) + Len(b) : (a \o b)[i] \in ToSet(a \o b)
      BY <1>1 DEF ToSet
    <2>1. ASSUME NEW i \in 1 .. Len(a) PROVE a[i] \in ToSet(a \o b)
      BY <1>2, <2>0
    <2>2. ASSUME NEW i \in 1 .. Len(b) PROVE b[i] \in ToSet(a \o b)
      <3>1. Len(a) + i \in 1 .. Len(a) + Len(b)
        OBVIOUS
      <3>2. (a \o b)[Len(a) + i] \in ToSet(a \o b)
        BY <2>0, <3>1, Zenon
      <3>3. (a \o b)[Len(a) + i] = b[i]
        BY <1>3
      <3> QED
        BY <3>2, <3>3, Zenon
    <2>3. ToSet(a) = {a[i] : i \in 1 .. Len(a)} /\ ToSet(b) = {b[i] : i \in 1 .. Len(b)}
      BY DEF ToSet
    <2> QED
      BY <2>1, <2>2, <2>3
  <1>5. ToSet(a \o b) \subseteq ToSet(a) \cup ToSet(b)
    <2> SUFFICES ASSUME NEW i \in 1 .. Len(a) + Len(b)
                 PROVE  (a \o b)[i] \in ToSet(a) \cup ToSet(b)
      BY <1>1 DEF ToSet
    <2>1. CASE i \in 1 .. Len(a)
      BY <1>2, <2>1 DEF ToSet
    <2>2. CASE i \notin 1 .. Len(a)
      <3>1. i - Len(a) \in 1 .. Len(b) /\ (a \o b)[i] = b[i - Len(a)]
        BY <2>2
      <3> QED
        BY <3>1 DEF ToSet
    <2> QED
      BY <2>1, <2>2
  <1> QED
    BY <1>1, <1>4, <1>5

LEMMA SetOfPrefix ==
  ASSUME NEW T, NEW a \in Seq(T), NEW b \in Seq(T), IsPrefix(a, b)
  PROVE  ToSet(a) \subseteq ToSet(b)
  <1>1. Len(a) <= Len(b) /\ SubSeq(a, 1, Len(a)) = SubSeq(b, 1, Len(a))
    BY DEF IsPrefix
  <1>2. ASSUME NEW i \in 1 .. Len(a) PROVE a[i] = b[i]
    <2>1. SubSeq(a, 1, Len(a))[i] = a[i] /\ SubSeq(b, 1, Len(a))[i] = b[i]
      BY <1>1
    <2> QED
      BY <1>1, <2>1
  <1> QED
    BY <1>1, <1>2 DEF ToSet

LEMMA SetOfSeq ==
  ASSUME NEW T, NEW a \in Seq(T)
  PROVE  ToSet(a) \subseteq T /\ IsFiniteSet(ToSet(a))
  <1>1. ToSet(a) \subseteq T
    BY DEF ToSet
  <1>2. a \in Surjection(1 .. Len(a), ToSet(a))
    BY DEF Surjection, ToSet
  <1>3. IsFiniteSet(1 .. Len(a))
    BY FS_Interval
  <1> QED
    BY <1>1, <1>2, <1>3, FS_Surjection

LEMMA TriageBounds ==
    /\ Foreign \notin Patch /\ NoCommit \notin Commit /\ <<>> \in Commit
    /\ MaxTrash \in Nat \ {0} /\ MaxFaults \in Nat /\ MaxDecisions \in Nat
    /\ NoTree.there = FALSE /\ NoTree.on = "own" /\ NoTree.head = <<>> /\ NoTree.wip = {}
    /\ NoTree \in [there : BOOLEAN, on : Checkout, head : Commit, wip : SUBSET Patch]
    /\ IsFiniteSet({})
  <1>1. <<>> \in Commit
    BY DEF Commit
  <1> QED
    BY <1>1, TriageAssumption, FS_EmptySet DEF NoTree, Checkout

\* What a commit has.
LEMMA HasOfCommit ==
  ASSUME NEW c \in Commit
  PROVE  /\ c # NoCommit /\ Has(c) = ToSet(c)
         /\ Has(c) \subseteq Patch \cup {Foreign} /\ IsFiniteSet(Has(c))
  BY TriageBounds, SetOfSeq DEF Has, Commit

LEMMA HasOfNone == Has(NoCommit) = {}
  BY DEF Has

LEMMA HasGrows ==
  ASSUME NEW a \in {NoCommit} \cup Commit, NEW c \in {NoCommit} \cup Commit, IsIn(a, c)
  PROVE  a \in Commit /\ c \in Commit /\ Has(a) \subseteq Has(c)
  <1>1. a \in Commit /\ c \in Commit /\ IsPrefix(a, c)
    BY DEF IsIn
  <1> QED
    BY <1>1, HasOfCommit, SetOfPrefix DEF Commit

\* What is uncommitted is in the commit of it.
LEMMA CommittedHas ==
  ASSUME TreeTypeOK, tree.there
  PROVE  /\ HeadCommit \in Commit /\ Committed \in Commit
         /\ Has(Committed) = Has(HeadCommit) \cup tree.wip
  <1>1. HeadCommit \in Commit
    BY DEF TreeTypeOK, HeadCommit, Checkout, Branch
  <1>2. SetToSeq(tree.wip) \in Seq(tree.wip) /\ ToSet(SetToSeq(tree.wip)) = tree.wip
    BY SeqOfASet DEF TreeTypeOK
  <1>3. SetToSeq(tree.wip) \in Commit
    BY <1>2 DEF TreeTypeOK, Commit
  <1>4. Committed \in Commit /\ ToSet(Committed) = ToSet(HeadCommit) \cup tree.wip
    BY <1>1, <1>2, <1>3, SetOfSum DEF Committed, Commit
  <1> QED
    BY <1>1, <1>4, HasOfCommit

\* A rebase forgets nothing.
LEMMA RebasedHas ==
  ASSUME TriageTypeOK, NEW s \in Commit, NEW tip \in Rebased(s)
  PROVE  tip \in Commit /\ Has(s) \cup Has(dest) \subseteq Has(tip)
  <1>1. dest \in Commit
    BY DEF TriageTypeOK, RefTypeOK
  <1>2. PICK t \in SetToSeqs(Has(s) \ Has(dest)) : tip = dest \o t
    BY DEF Rebased
  <1>3. IsFiniteSet(Has(s) \ Has(dest)) /\ Has(s) \ Has(dest) \subseteq Patch \cup {Foreign}
    BY HasOfCommit, FS_Subset
  <1>4. t \in Seq(Has(s) \ Has(dest)) /\ ToSet(t) = Has(s) \ Has(dest)
    BY <1>2, <1>3, OrderedSeqs
  <1>5. t \in Commit
    BY <1>3, <1>4 DEF Commit
  <1>6. tip \in Commit /\ ToSet(tip) = ToSet(dest) \cup ToSet(t)
    BY <1>1, <1>2, <1>5, SetOfSum DEF Commit
  <1> QED
    BY <1>1, <1>4, <1>6, HasOfCommit

LEMMA TriageInitTyped == TriageInit => TriageTypeOK
  <1> SUFFICES ASSUME TriageInit PROVE TriageTypeOK
    OBVIOUS
  <1>1. TreeTypeOK
    <2>1. tree.there /\ tree.on = "own" /\ tree.head = <<>> /\ tree.wip = {}
      BY TriageBounds DEF TriageInit, NoTree
    <2>2. tree \in [there : BOOLEAN, on : Checkout, head : Commit, wip : SUBSET Patch]
      BY TriageBounds DEF TriageInit, NoTree, Checkout
    <2>3. heads \in [Branch -> {NoCommit} \cup Commit] /\ heads["own"] = <<>>
      BY TriageBounds DEF TriageInit, Branch
    <2> QED
      BY <2>1, <2>2, <2>3, TriageBounds DEF TreeTypeOK
  <1>2. RefTypeOK
    BY TriageBounds DEF TriageInit, RefTypeOK
  <1>3. RowTypeOK
    BY DEF TriageInit, RowTypeOK, Named
  <1>4. DecisionTypeOK
    BY TriageBounds DEF TriageInit, DecisionTypeOK, NoDecision, DecisionAt, Named
  <1>5. RecordTypeOK
    BY TriageBounds DEF TriageInit, RecordTypeOK
  <1> QED
    BY <1>1, <1>2, <1>3, <1>4, <1>5 DEF TriageTypeOK

-----------------------------------------------------------------------------
(***************************************************************************)
(* Triage: the folder and the branches.                                    *)
(***************************************************************************)

\* The folder is gone.
LEMMA TreeGone ==
  ASSUME heads' \in [Branch -> {NoCommit} \cup Commit], tree' = NoTree
  PROVE  TreeTypeOK'
  <1>1. /\ ~tree'.there /\ tree'.head = <<>> /\ tree'.wip = {}
        /\ tree' \in [there : BOOLEAN, on : Checkout, head : Commit, wip : SUBSET Patch]
    BY TriageBounds
  <1> QED
    BY <1>1, TriageBounds DEF TreeTypeOK

\* The branch that the folder is not on changes.
LEMMA OtherBranch ==
  ASSUME TreeTypeOK, UNCHANGED tree, NEW b \in Branch, NEW c \in {NoCommit} \cup Commit,
         heads' = [heads EXCEPT ![b] = c], tree.there /\ tree.on = b => c # NoCommit
  PROVE  TreeTypeOK'
  <1>1. heads' \in [Branch -> {NoCommit} \cup Commit]
    BY DEF TreeTypeOK
  <1>2. tree'.there /\ tree'.on # "away" => heads'[tree'.on] # NoCommit
    BY DEF TreeTypeOK, Checkout, Branch
  <1> QED
    BY <1>1, <1>2 DEF TreeTypeOK

LEMMA HeadMoves ==
  ASSUME TreeTypeOK, tree.there, NEW c \in Commit, HeadIs(c)
  PROVE  /\ TreeTypeOK' /\ tree'.wip = {}
         /\ \A b \in Branch : b = tree.on \/ heads'[b] = heads[b]
         /\ tree.on # "away" => heads[tree.on] = HeadCommit /\ heads'[tree.on] = c
  <1>1. /\ tree.there \in BOOLEAN /\ tree.on \in Checkout /\ tree.head \in Commit
        /\ tree = [there |-> tree.there, on |-> tree.on, head |-> tree.head, wip |-> tree.wip]
    BY DEF TreeTypeOK
  <1>2. CASE tree.on = "away"
    <2>1. tree' = [tree EXCEPT !.head = c, !.wip = {}] /\ UNCHANGED heads
      BY <1>2 DEF HeadIs
    <2>2. tree'.there = tree.there /\ tree'.on = "away" /\ tree'.head = c /\ tree'.wip = {}
      BY <1>2, <2>1 DEF TreeTypeOK
    <2>3. tree' \in [there : BOOLEAN, on : Checkout, head : Commit, wip : SUBSET Patch]
      BY <2>1 DEF TreeTypeOK
    <2> QED
      BY <1>2, <2>1, <2>2, <2>3, TriageBounds DEF TreeTypeOK
  <1>3. CASE tree.on # "away"
    <2>1. tree' = [tree EXCEPT !.wip = {}] /\ heads' = [heads EXCEPT ![tree.on] = c]
      BY <1>3 DEF HeadIs
    <2>2. tree'.there = tree.there /\ tree'.on = tree.on /\ tree'.head = <<>> /\ tree'.wip = {}
      BY <1>3, <2>1 DEF TreeTypeOK
    <2>3. tree' \in [there : BOOLEAN, on : Checkout, head : Commit, wip : SUBSET Patch]
      BY <2>1 DEF TreeTypeOK
    <2>4. tree.on \in Branch
      BY <1>1, <1>3 DEF Checkout, Branch
    <2>5. heads' \in [Branch -> {NoCommit} \cup Commit] /\ heads'[tree.on] = c
      BY <2>1, <2>4 DEF TreeTypeOK
    <2>6. \A b \in Branch : b = tree.on \/ heads'[b] = heads[b]
      BY <2>1, <2>4 DEF TreeTypeOK
    <2> QED
      BY <1>3, <2>2, <2>3, <2>4, <2>5, <2>6, TriageBounds DEF TreeTypeOK, HeadCommit
  <1> QED
    BY <1>2, <1>3

LEMMA TreeIsRemoved ==
  ASSUME TreeTypeOK, NEW b \in Named, NEW on, Removes(b, on)
  PROVE  TreeTypeOK' /\ tree'.wip = {} /\ tree.wip = {}
  <1>1. heads' \in [Branch -> {NoCommit} \cup Commit] /\ tree' = NoTree
    BY DEF Removes, TreeTypeOK
  <1>2. tree.wip = {}
    BY TriageBounds DEF Removes, MayRemove, IsSafe, TreeTypeOK
  <1> QED
    BY <1>1, <1>2, TreeGone, TriageBounds

\* The steps that change the folder or a branch, but for the commits.
LEMMA FolderStepsTyped ==
  ASSUME TriageTypeOK,
         \/ \E p \in Patch : Edit(p)
         \/ Detach \/ Reattach \/ RestoreTree \/ RetryCleanup \/ RemoveTree \/ Unbranch
         \/ LandAside \/ CleanLanded
         \/ \E keep \in BOOLEAN : DropTree(keep)
  PROVE  TreeTypeOK'
  <1>0. TreeTypeOK
    BY DEF TriageTypeOK
  <1>1. ASSUME NEW p \in Patch, Edit(p) PROVE TreeTypeOK'
    <2>1. tree' = [tree EXCEPT !.wip = @ \cup {p}] /\ UNCHANGED heads /\ tree.there
      BY <1>1 DEF Edit
    <2>2. /\ tree'.there = tree.there /\ tree'.on = tree.on /\ tree'.head = tree.head
          /\ tree'.wip = tree.wip \cup {p}
      BY <1>0, <2>1 DEF TreeTypeOK
    <2>3. tree' \in [there : BOOLEAN, on : Checkout, head : Commit, wip : SUBSET Patch]
      BY <1>0, <2>1 DEF TreeTypeOK
    <2>4. IsFiniteSet(tree'.wip)
      BY <1>0, <2>2, FS_AddElement DEF TreeTypeOK
    <2> QED
      BY <1>0, <2>1, <2>2, <2>3, <2>4 DEF TreeTypeOK
  <1>2. CASE Detach
    <2>1. tree' = [tree EXCEPT !.on = "away", !.head = HeadCommit] /\ UNCHANGED heads /\ tree.there
      BY <1>2 DEF Detach
    <2>2. tree'.there = tree.there /\ tree'.on = "away" /\ tree'.wip = tree.wip
      BY <1>0, <2>1 DEF TreeTypeOK
    <2>3. tree' \in [there : BOOLEAN, on : Checkout, head : Commit, wip : SUBSET Patch]
      BY <1>0, <2>1, CommittedHas DEF TreeTypeOK, Checkout
    <2> QED
      BY <1>0, <2>1, <2>2, <2>3 DEF TreeTypeOK
  <1>3. CASE Reattach
    <2>1. /\ tree' = [tree EXCEPT !.on = "own", !.head = <<>>] /\ tree.there
          /\ heads' = [heads EXCEPT !["own"] = tree.head]
      BY <1>3 DEF Reattach
    <2>2. tree'.there = tree.there /\ tree'.on = "own" /\ tree'.wip = tree.wip /\ tree'.head = <<>>
      BY <1>0, <2>1 DEF TreeTypeOK
    <2>3. tree' \in [there : BOOLEAN, on : Checkout, head : Commit, wip : SUBSET Patch]
      BY <1>0, <2>1, TriageBounds DEF TreeTypeOK, Checkout
    <2>4. tree.head \in Commit
      BY <1>0 DEF TreeTypeOK
    <2>5. heads' \in [Branch -> {NoCommit} \cup Commit] /\ heads'["own"] = tree.head
      BY <1>0, <2>1, <2>4 DEF TreeTypeOK, Branch
    <2> QED
      BY <1>0, <2>1, <2>2, <2>3, <2>4, <2>5, TriageBounds DEF TreeTypeOK
  <1>4. CASE RestoreTree
    <2>1. PICK r \in Restorable :
             LET b == IF row.ref = r /\ row.branch # "" THEN row.branch ELSE "restored"
             IN /\ heads' = [heads EXCEPT ![b] = refs[r]]
                /\ tree' = [NoTree EXCEPT !.there = TRUE, !.on = b]
      BY <1>4 DEF RestoreTree
    <2>2. r \in {Archive} \cup Trash /\ refs[r] \in Commit
      BY DEF Restorable, TriageTypeOK, RefTypeOK
    <2>3. PICK b \in {"own", "restored"} :
             /\ heads' = [heads EXCEPT ![b] = refs[r]]
             /\ tree' = [NoTree EXCEPT !.there = TRUE, !.on = b]
      BY <2>1 DEF TriageTypeOK, RowTypeOK, Named
    <2>4. heads' \in [Branch -> {NoCommit} \cup Commit] /\ heads'[b] = refs[r]
      BY <1>0, <2>2, <2>3 DEF TreeTypeOK, Branch
    <2>5. tree' = [there |-> TRUE, on |-> b, head |-> <<>>, wip |-> {}]
      BY <2>3 DEF NoTree
    <2>6. tree' \in [there : BOOLEAN, on : Checkout, head : Commit, wip : SUBSET Patch]
      BY <2>5, TriageBounds DEF Checkout
    <2> QED
      BY <2>2, <2>4, <2>5, <2>6, TriageBounds DEF TreeTypeOK
  <1>5. CASE RetryCleanup
    BY <1>0, <1>5, TreeIsRemoved DEF RetryCleanup, TriageTypeOK, RowTypeOK
  <1>6. CASE RemoveTree
    BY <1>0, <1>6, TreeGone DEF RemoveTree, TreeTypeOK
  <1>7. CASE Unbranch
    <2>1. ItsBranch \in Named /\ UNCHANGED tree
      BY <1>7 DEF Unbranch, ItsBranch, TriageTypeOK, DecisionTypeOK
    <2>2. CASE UNCHANGED heads
      BY <1>0, <2>1, <2>2 DEF TreeTypeOK
    <2>3. CASE ~UNCHANGED heads
      <3>1. /\ Exists(ItsBranch) /\ ~(tree.there /\ tree.on = ItsBranch)
            /\ heads' = [heads EXCEPT ![ItsBranch] = NoCommit]
        BY <1>7, <2>3 DEF Unbranch
      <3>2. ItsBranch \in Branch
        BY <2>1, <3>1 DEF Exists, Named, Branch
      <3> QED
        BY <1>0, <2>1, <3>1, <3>2, OtherBranch
    <2> QED
      BY <2>2, <2>3
  <1>8. CASE LandAside
    <2>1. UNCHANGED tree /\ decision.tip \in Commit
      BY <1>8 DEF LandAside, TriageTypeOK, DecisionTypeOK
    <2>2. CASE UNCHANGED heads
      BY <1>0, <2>1, <2>2 DEF TreeTypeOK
    <2>3. CASE ~UNCHANGED heads
      <3>1. heads' = [heads EXCEPT !["land"] = decision.tip] /\ "land" \in Branch
        BY <1>8, <2>3 DEF LandAside, Branch
      <3> QED
        BY <1>0, <2>1, <3>1, OtherBranch, TriageBounds
    <2> QED
      BY <2>2, <2>3
  <1>9. CASE CleanLanded
    <2>1. ItsBranch \in Named
      BY DEF ItsBranch, TriageTypeOK, DecisionTypeOK
    <2>2. CASE Removes(ItsBranch, LandedOn)
      BY <1>0, <2>1, <2>2, TreeIsRemoved
    <2>3. CASE UNCHANGED <<tree, heads>>
      BY <1>0, <2>3 DEF TreeTypeOK
    <2> QED
      BY <1>9, <2>2, <2>3 DEF CleanLanded
  <1>10. ASSUME NEW keep \in BOOLEAN, DropTree(keep) PROVE TreeTypeOK'
    <2>1. heads' \in [Branch -> {NoCommit} \cup Commit] /\ tree' = NoTree
      BY <1>0, <1>10 DEF DropTree, TreeTypeOK
    <2> QED
      BY <2>1, TreeGone
  <1> QED
    BY <1>1, <1>2, <1>3, <1>4, <1>5, <1>6, <1>7, <1>8, <1>9, <1>10

\* The steps that commit: what was uncommitted is in the new HEAD, with the
\* history of the old one.
CommitStep == CommitEdits \/ PrepareTree \/ RebaseTree

LEMMA CommitMoves ==
  ASSUME TriageTypeOK, CommitStep
  PROVE  \/ UNCHANGED <<tree, heads, astray>>
         \/ /\ tree.there /\ StraysIfAway(tree.wip)
            /\ \E c \in Commit :
                  HeadIs(c) /\ Has(HeadCommit) \cup tree.wip \subseteq Has(c)
  <1>0. TreeTypeOK
    BY DEF TriageTypeOK
  <1>1. ASSUME tree.there, HeadIs(Committed)
        PROVE  \E c \in Commit : HeadIs(c) /\ Has(HeadCommit) \cup tree.wip \subseteq Has(c)
    BY <1>0, <1>1, CommittedHas
  <1>2. CASE CommitEdits
    BY <1>1, <1>2 DEF CommitEdits
  <1>3. CASE PrepareTree
    BY <1>1, <1>3 DEF PrepareTree
  <1>4. CASE RebaseTree
    <2>1. CASE UNCHANGED <<tree, heads, astray>>
      BY <2>1
    <2>2. CASE tree.there /\ StraysIfAway(tree.wip) /\ HeadIs(Committed)
      BY <1>1, <2>2
    <2>3. CASE tree.there /\ StraysIfAway(tree.wip) /\ \E tip \in Rebased(Committed) : HeadIs(tip)
      <3>1. PICK tip \in Rebased(Committed) : HeadIs(tip)
        BY <2>3
      <3>2. tip \in Commit /\ Has(HeadCommit) \cup tree.wip \subseteq Has(tip)
        BY <1>0, <2>3, CommittedHas, RebasedHas
      <3> QED
        BY <2>3, <3>1, <3>2
    <2> QED
      BY <1>4, <2>1, <2>2, <2>3 DEF RebaseTree
  <1> QED
    BY <1>2, <1>3, <1>4 DEF CommitStep

LEMMA TreeIsTyped ==
  ASSUME TriageTypeOK, TriageNext
  PROVE  TreeTypeOK'
  <1>0. TreeTypeOK
    BY DEF TriageTypeOK
  <1>1. CASE CommitStep
    <2>1. CASE UNCHANGED <<tree, heads, astray>>
      BY <1>0, <2>1 DEF TreeTypeOK
    <2>2. CASE tree.there /\ \E c \in Commit : HeadIs(c)
      BY <1>0, <2>2, HeadMoves
    <2> QED
      BY <1>1, <2>1, <2>2, CommitMoves
  <1>2. CASE UNCHANGED <<tree, heads>>
    BY <1>0, <1>2 DEF TreeTypeOK
  <1>3. ~CommitStep /\ ~UNCHANGED <<tree, heads>> =>
           \/ \E p \in Patch : Edit(p)
           \/ Detach \/ Reattach \/ RestoreTree \/ RetryCleanup \/ RemoveTree \/ Unbranch
           \/ LandAside \/ CleanLanded
           \/ \E keep \in BOOLEAN : DropTree(keep)
    BY DEF TriageNext, CommitStep, DecisionStep, DestMoves, OwnerStep, TakeTree, LoseWorker, ParkTree,
           CancelTask, ResumeTask, LedgerStep, Decide, Adopt, PushBranch, WriteRef, CheckSafe, LandOn,
           Finish, Record, RecordFailed, CallFails, ApplyDies, NotTheWork, RestoreRow, RestoreDies,
           TrashAges, Gc
  <1> QED
    BY <1>1, <1>2, <1>3, FolderStepsTyped

-----------------------------------------------------------------------------
(***************************************************************************)
(* Triage: the refs, the row, the decision and the records.                *)
(***************************************************************************)
LEMMA RefsAreTyped ==
  ASSUME TriageTypeOK, TriageNext
  PROVE  RefTypeOK'
  <1>0. RefTypeOK /\ decision.tip \in Commit /\ decision.branch \in Named
    BY DEF TriageTypeOK, DecisionTypeOK
  <1>1. CASE DestMoves
    <2>1. dest' = Append(dest, Foreign) /\ UNCHANGED <<remote, refs, old>>
      BY <1>1 DEF DestMoves
    <2>2. dest' \in Commit
      BY <1>0, <2>1 DEF RefTypeOK, Commit
    <2> QED
      BY <1>0, <2>1, <2>2 DEF RefTypeOK
  <1>2. CASE PushBranch
    <2>1. UNCHANGED <<dest, refs, old>> /\ (remote' = remote \/ (remote' = heads[ItsBranch] /\ Exists(ItsBranch)))
      BY <1>2 DEF PushBranch, Rest
    <2>2. remote' \in {NoCommit} \cup Commit
      BY <1>0, <2>1 DEF Exists, ItsBranch, Named, Branch, TriageTypeOK, TreeTypeOK, RefTypeOK
    <2> QED
      BY <1>0, <2>1, <2>2 DEF RefTypeOK
  <1>3. CASE WriteRef
    <2>1. /\ UNCHANGED <<dest, remote, old>>
          /\ refs' = refs \/ \E r \in {Archive} \cup Trash : refs' = [refs EXCEPT ![r] = decision.tip]
      BY <1>3 DEF WriteRef, RefOf, Rest
    <2>2. refs' \in [{Archive} \cup Trash -> {NoCommit} \cup Commit]
      BY <1>0, <2>1 DEF RefTypeOK
    <2> QED
      BY <1>0, <2>1, <2>2 DEF RefTypeOK
  <1>4. CASE LandOn
    BY <1>0, <1>4 DEF LandOn, RefTypeOK, Rest
  <1>5. ASSUME NEW r \in Trash, TrashAges(r) PROVE RefTypeOK'
    BY <1>0, <1>5 DEF TrashAges, RefTypeOK
  <1>6. CASE Gc
    <2>1. refs' \in [{Archive} \cup Trash -> {NoCommit} \cup Commit]
      BY <1>0, <1>6 DEF Gc, RefTypeOK
    <2> QED
      BY <1>0, <1>6, <2>1 DEF Gc, RefTypeOK
  <1>7. CASE UNCHANGED <<dest, remote, refs, old>>
    BY <1>0, <1>7 DEF RefTypeOK
  <1>8. \/ DestMoves \/ PushBranch \/ WriteRef \/ LandOn \/ Gc
        \/ \E r \in Trash : TrashAges(r)
        \/ UNCHANGED <<dest, remote, refs, old>>
    BY DEF TriageNext, DecisionStep, Edit, CommitEdits, Detach, Reattach, OwnerStep, TakeTree, LoseWorker,
           ParkTree, CancelTask, ResumeTask, LedgerStep, DropTree, RetryCleanup, Decide, Adopt, PrepareTree,
           CheckSafe, RemoveTree, Unbranch, RebaseTree, LandAside, CleanLanded, Finish, Record,
           RecordFailed, CallFails, ApplyDies, NotTheWork, Rest, RestoreTree, RestoreRow, RestoreDies
  <1> QED
    BY <1>1, <1>2, <1>3, <1>4, <1>5, <1>6, <1>7, <1>8

LEMMA RowIsTyped ==
  ASSUME TriageTypeOK, TriageNext
  PROVE  RowTypeOK'
  <1>0. RowTypeOK /\ decision.branch \in Named /\ decision.ref \in {NoRef, Archive} \cup Trash
    BY DEF TriageTypeOK, DecisionTypeOK
  <1> USE DEF RowTypeOK
  <1>1. ASSUME NEW st \in {"open", "unlanded", "abandoned", "cleanup_failed"} \cup Settled, RowBecomes(st)
        PROVE  row' \in [status : {"open", "unlanded", "abandoned", "cleanup_failed"} \cup Settled,
                         ref : {NoRef, Archive} \cup Trash, cleaned : BOOLEAN, branch : Named]
    BY <1>0, <1>1 DEF RowBecomes
  <1>2. CASE TakeTree \/ LoseWorker
    BY <1>0, <1>2 DEF TakeTree, LoseWorker, LedgerStep
  <1>3. CASE ParkTree
    BY <1>0, <1>1, <1>3 DEF ParkTree, LedgerStep
  <1>4. CASE CancelTask
    BY <1>0, <1>1, <1>4 DEF CancelTask, LedgerStep
  <1>5. CASE ResumeTask
    BY <1>0, <1>1, <1>5 DEF ResumeTask, Reopened, LedgerStep
  <1>6. ASSUME NEW keep \in BOOLEAN, DropTree(keep) PROVE RowTypeOK'
    BY <1>0, <1>6 DEF DropTree
  <1>7. CASE RetryCleanup \/ CleanLanded
    <2>1. UNCHANGED <<owner, restoring>>
      BY <1>7 DEF RetryCleanup, CleanLanded, Rest
    <2>2. CASE row' = [row EXCEPT !.status = "cleaned", !.cleaned = TRUE]
      BY <1>0, <2>1, <2>2 DEF Settled
    <2>3. CASE UNCHANGED row
      BY <1>0, <2>1, <2>3
    <2> QED
      BY <1>7, <2>2, <2>3 DEF RetryCleanup, CleanLanded, Removes
  <1>8. CASE Adopt
    BY <1>0, <1>8 DEF Adopt, Rest
  <1>9. CASE Finish
    BY <1>0, <1>1, <1>9 DEF Finish, Reopened, Rest
  <1>10. CASE Record
    <2>1. StatusOf(decision.kind) \in {"open", "unlanded", "abandoned", "cleanup_failed"} \cup Settled
      BY <1>0 DEF StatusOf, Settled
    <2> QED
      BY <1>0, <1>10, <2>1 DEF Record, Rest
  <1>11. CASE RecordFailed
    BY <1>0, <1>1, <1>11 DEF RecordFailed, Rest
  <1>12. CASE RestoreTree
    BY <1>0, <1>12 DEF RestoreTree
  <1>13. CASE RestoreRow
    BY <1>0, <1>13 DEF RestoreRow
  <1>14. CASE RestoreDies
    BY <1>0, <1>14 DEF RestoreDies
  <1>15. CASE UNCHANGED <<row, owner, restoring>>
    BY <1>0, <1>15
  <1>16. \/ TakeTree \/ LoseWorker \/ ParkTree \/ CancelTask \/ ResumeTask \/ RetryCleanup \/ CleanLanded
         \/ Adopt \/ Finish \/ Record \/ RecordFailed \/ RestoreTree \/ RestoreRow \/ RestoreDies
         \/ \E keep \in BOOLEAN : DropTree(keep)
         \/ UNCHANGED <<row, owner, restoring>>
    BY DEF TriageNext, DecisionStep, Edit, CommitEdits, Detach, Reattach, DestMoves, OwnerStep,
           Decide, PrepareTree, PushBranch, WriteRef, CheckSafe, RemoveTree, Unbranch, RebaseTree,
           LandAside, LandOn, CallFails, ApplyDies, NotTheRow, Rest, TrashAges, Gc
  <1> QED
    BY <1>2, <1>3, <1>4, <1>5, <1>6, <1>7, <1>8, <1>9, <1>10, <1>11, <1>12, <1>13, <1>14, <1>15, <1>16

LEMMA DecisionGoesOn ==
  ASSUME DecisionTypeOK, NEW at \in DecisionAt, StepTo(at),
         at \in {"safe", "remove", "unbranch"} => decision.ref # NoRef
  PROVE  DecisionTypeOK'
  BY DEF DecisionTypeOK, StepTo

LEMMA DecisionIsTyped ==
  ASSUME TriageTypeOK, TriageNext
  PROVE  DecisionTypeOK'
  <1>0. DecisionTypeOK /\ row.branch \in Named
    BY DEF TriageTypeOK, RowTypeOK
  <1>1. ItFails => DecisionTypeOK'
    BY <1>0, DecisionGoesOn DEF ItFails, DecisionAt
  <1>2. decision' = NoDecision => DecisionTypeOK'
    BY TriageBounds DEF DecisionTypeOK, NoDecision, DecisionAt, Named
  <1>3. ASSUME NEW kind \in Kinds, Decide(kind) PROVE DecisionTypeOK'
    <2>1. /\ kind \in Kinds \cup {"none"} /\ "adopt" \in DecisionAt /\ IsParked \in BOOLEAN
          /\ (IF IsParked THEN row.branch ELSE BranchOfTree) \in Named
      BY <1>0 DEF DecisionAt, IsParked, BranchOfTree, Named, Checkout, TriageTypeOK, TreeTypeOK
    <2>2. decision' = [NoDecision EXCEPT !.kind = kind, !.at = "adopt", !.known = IsParked,
                          !.branch = IF IsParked THEN row.branch ELSE BranchOfTree]
      BY <1>3 DEF Decide
    <2>3. decision' = [kind |-> kind, at |-> "adopt", known |-> IsParked,
                       branch |-> IF IsParked THEN row.branch ELSE BranchOfTree,
                       tip |-> <<>>, ref |-> NoRef]
      BY <2>2 DEF NoDecision
    <2> QED
      BY <2>1, <2>3, TriageBounds DEF DecisionTypeOK
  <1>4. CASE Adopt
    <2>1. PICK b \in Named, at \in {"record", "finish", "prepare"} :
             decision' = [decision EXCEPT !.branch = b, !.known = TRUE, !.at = at]
      <3>1. (IF decision.known THEN row.branch ELSE decision.branch) \in Named
        BY <1>0 DEF DecisionTypeOK
      <3>2. (CASE decision.kind = "KEEP"   -> "record"
               [] decision.kind = "FINISH" -> "finish"
               [] OTHER                    -> "prepare") \in {"record", "finish", "prepare"}
        OBVIOUS
      <3> QED
        BY <1>4, <3>1, <3>2 DEF Adopt
    <2> QED
      BY <1>0, <2>1 DEF DecisionTypeOK, DecisionAt
  <1>5. CASE PrepareTree
    <2>1. CASE ItFails
      BY <1>1, <2>1
    <2>2. CASE ~ItFails
      <3>1. /\ OnItsBranch /\ (tree.there \/ Exists(ItsBranch))
            /\ decision' = [decision EXCEPT
                  !.tip = IF tree.there THEN Committed ELSE heads[ItsBranch],
                  !.at = IF decision.kind = "PR" THEN "push" ELSE "write"]
        BY <1>5, <2>2 DEF PrepareTree
      <3>2. ItsBranch \in Named
        BY <1>0 DEF ItsBranch, DecisionTypeOK
      <3>3. (IF tree.there THEN Committed ELSE heads[ItsBranch]) \in Commit
        BY <3>1, <3>2, CommittedHas DEF Exists, Named, Branch, TriageTypeOK, TreeTypeOK
      <3>4. PICK c \in Commit, at \in {"push", "write"} :
               decision' = [decision EXCEPT !.tip = c, !.at = at]
        BY <3>1, <3>3
      <3> QED
        BY <1>0, <3>4 DEF DecisionTypeOK, DecisionAt
    <2> QED
      BY <2>1, <2>2
  <1>6. CASE PushBranch
    <2>1. ItFails \/ StepTo("write")
      BY <1>6 DEF PushBranch
    <2> QED
      BY <1>0, <1>1, <2>1, DecisionGoesOn DEF DecisionAt
  <1>7. CASE WriteRef
    <2>1. CASE \E r \in {Archive} \cup Trash : decision' = [decision EXCEPT !.ref = r, !.at = "safe"]
      <3>1. NoRef \notin {Archive} \cup Trash
        BY DEF NoRef, Archive, Trash
      <3> QED
        BY <1>0, <2>1, <3>1 DEF DecisionTypeOK, DecisionAt
    <2> QED
      BY <1>1, <1>7, <2>1 DEF WriteRef, RefOf
  <1>8. CASE CheckSafe \/ RemoveTree
    <2>1. decision.ref # NoRef
      BY <1>0, <1>8 DEF CheckSafe, RemoveTree, StepIs, DecisionTypeOK
    <2>2. ItFails \/ StepTo("remove") \/ StepTo("unbranch") \/ StepTo("record")
      BY <1>8 DEF CheckSafe, RemoveTree
    <2> QED
      BY <1>0, <1>1, <2>1, <2>2, DecisionGoesOn DEF DecisionAt
  <1>9. CASE RebaseTree
    <2>1. CASE ItFails
      BY <1>1, <2>1
    <2>2. CASE ~ItFails
      <3>1. tree.there /\ \E tip \in Rebased(Committed) :
               decision' = [decision EXCEPT !.tip = tip, !.at = "land"]
        BY <1>9, <2>2 DEF RebaseTree
      <3>2. \E tip \in Commit : decision' = [decision EXCEPT !.tip = tip, !.at = "land"]
        BY <3>1, CommittedHas, RebasedHas DEF TriageTypeOK
      <3> QED
        BY <1>0, <3>2 DEF DecisionTypeOK, DecisionAt
    <2> QED
      BY <2>1, <2>2
  <1>10. CASE Unbranch \/ LandAside \/ LandOn \/ CleanLanded \/ Finish
    <2>1. ItFails \/ StepTo("record") \/ StepTo("clean") \/ StepTo("clean aside")
      BY <1>10 DEF Unbranch, LandAside, LandOn, CleanLanded, Finish
    <2> QED
      BY <1>0, <1>1, <2>1, DecisionGoesOn DEF DecisionAt
  <1>11. CASE Record \/ RecordFailed \/ ApplyDies \/ CallFails
    <2>1. ItFails \/ decision' = NoDecision
      BY <1>11 DEF Record, RecordFailed, ApplyDies, CallFails
    <2> QED
      BY <1>1, <1>2, <2>1
  <1>12. CASE UNCHANGED decision
    BY <1>0, <1>12 DEF DecisionTypeOK
  <1>13. DecisionStep \/ UNCHANGED decision
    BY DEF TriageNext, Edit, CommitEdits, Detach, Reattach, DestMoves, OwnerStep, TakeTree, LoseWorker,
           ParkTree, CancelTask, ResumeTask, LedgerStep, DropTree, RetryCleanup, RestoreTree, RestoreRow,
           RestoreDies, TrashAges, Gc
  <1> QED
    BY <1>3, <1>4, <1>5, <1>6, <1>7, <1>8, <1>9, <1>10, <1>11, <1>12, <1>13 DEF DecisionStep

LEMMA RecordsAreTyped ==
  ASSUME TriageTypeOK, TriageNext
  PROVE  RecordTypeOK'
  <1>0. RecordTypeOK /\ tree.wip \in SUBSET Patch
    BY DEF TriageTypeOK, TreeTypeOK
  <1>1. /\ begun < MaxDecisions => begun + 1 \in 0 .. MaxDecisions
        /\ Fault => faults' \in 0 .. MaxFaults
    BY <1>0, TriageBounds DEF RecordTypeOK, Fault
  <1>2. ASSUME NEW p \in Patch, Edit(p) PROVE RecordTypeOK'
    BY <1>0, <1>2 DEF Edit, RecordTypeOK
  <1>3. CASE CommitStep
    <2>1. UNCHANGED <<written, purged, begun, faults>>
      BY <1>3 DEF CommitStep, CommitEdits, PrepareTree, RebaseTree, Rest
    <2>2. astray' \in SUBSET Patch
      <3>1. UNCHANGED astray \/ StraysIfAway(tree.wip)
        BY <1>3, CommitMoves
      <3> QED
        BY <1>0, <3>1 DEF StraysIfAway, RecordTypeOK
    <2> QED
      BY <1>0, <2>1, <2>2 DEF RecordTypeOK
  <1>4. ASSUME NEW kind \in Kinds, Decide(kind) PROVE RecordTypeOK'
    BY <1>0, <1>1, <1>4 DEF Decide, RecordTypeOK
  <1>5. CASE CallFails \/ ApplyDies \/ RestoreDies
    <2>1. Fault /\ UNCHANGED <<written, astray, purged, begun>>
      BY <1>5 DEF CallFails, ApplyDies, RestoreDies, NotTheWork, Rest, records
    <2> QED
      BY <1>0, <1>1, <2>1 DEF RecordTypeOK
  <1>6. CASE Gc
    <2>1. ASSUME NEW r \in old PROVE Has(refs[r]) \ {Foreign} \subseteq Patch
      BY HasOfCommit, HasOfNone DEF TriageTypeOK, RefTypeOK
    <2>2. purged' \in SUBSET Patch
      BY <1>0, <1>6, <2>1 DEF Gc, RecordTypeOK
    <2> QED
      BY <1>0, <1>6, <2>2 DEF Gc, RecordTypeOK
  <1>7. CASE UNCHANGED <<written, astray, purged, begun, faults>>
    BY <1>0, <1>7 DEF RecordTypeOK
  <1>8. \/ \E p \in Patch : Edit(p)
        \/ CommitStep
        \/ \E kind \in Kinds : Decide(kind)
        \/ CallFails \/ ApplyDies \/ RestoreDies \/ Gc
        \/ UNCHANGED <<written, astray, purged, begun, faults>>
    BY DEF TriageNext, DecisionStep, CommitStep, Detach, Reattach, DestMoves, OwnerStep, TakeTree,
           LoseWorker, ParkTree, CancelTask, ResumeTask, LedgerStep, DropTree, RetryCleanup, Adopt,
           PushBranch, WriteRef, CheckSafe, RemoveTree, Unbranch, LandAside, LandOn, CleanLanded, Finish,
           Record, RecordFailed, NotTheWork, Rest, RestoreTree, RestoreRow, TrashAges, records
  <1> QED
    BY <1>2, <1>3, <1>4, <1>5, <1>6, <1>7, <1>8

LEMMA TriageNextTyped ==
  ASSUME TriageTypeOK, [TriageNext]_triageVars
  PROVE  TriageTypeOK'
  <1>1. CASE TriageNext
    BY <1>1, TreeIsTyped, RefsAreTyped, RowIsTyped, DecisionIsTyped, RecordsAreTyped DEF TriageTypeOK
  <1>2. CASE UNCHANGED triageVars
    BY <1>2
       DEF triageVars, TriageTypeOK, TreeTypeOK, RefTypeOK, RowTypeOK, DecisionTypeOK, RecordTypeOK
  <1> QED
    BY <1>1, <1>2

\* The folder, the branches, the refs and the row of a worktree are well typed,
\* whoever changes them during a decision: the folder is on a branch that is
\* there, or detached, and a decision that removes the folder has its ref.
THEOREM TriageTypeCorrect == TriageSpec => []TriageTypeOK
  BY TriageInitTyped, TriageNextTyped, PTL DEF TriageSpec

-----------------------------------------------------------------------------
(***************************************************************************)
(* Triage: where the work is.                                              *)
(***************************************************************************)
\* A patch that is held where a removal looks: not by a detached HEAD, whose
\* commits are astray from the start.
Held(x) ==
    \/ x \in tree.wip \/ x \in Has(dest) \/ x \in Has(remote)
    \/ \E b \in Branch : x \in Has(heads[b])
    \/ \E r \in {Archive} \cup Trash : x \in Has(refs[r])
    \/ x \in purged

WorkIsHeld == \A x \in written \ astray : Held(x)

TriageInv == TriageTypeOK /\ WorkIsHeld

LEMMA HeldIsKept == TriageInv => OnlyGcForgets
  <1> SUFFICES ASSUME TriageInv, NEW x \in written \ astray PROVE x \in Kept \/ x \in purged
    BY DEF OnlyGcForgets
  <1>1. DOMAIN heads = Branch /\ DOMAIN refs = {Archive} \cup Trash
    BY DEF TriageInv, TriageTypeOK, TreeTypeOK, RefTypeOK
  <1>2. (\E b \in Branch : x \in Has(heads[b])) => x \in UNION {Has(heads[o]) : o \in DOMAIN heads}
    BY <1>1
  <1>3. (\E r \in {Archive} \cup Trash : x \in Has(refs[r])) => x \in UNION {Has(refs[o]) : o \in DOMAIN refs}
    BY <1>1
  <1>4. Held(x)
    BY DEF TriageInv, WorkIsHeld
  <1>5. /\ x \in tree.wip \/ x \in Has(dest) \/ x \in Has(remote) => x \in Kept
        /\ x \in UNION {Has(heads[o]) : o \in DOMAIN heads} => x \in Kept
        /\ x \in UNION {Has(refs[o]) : o \in DOMAIN refs} => x \in Kept
    BY DEF Kept
  <1> QED
    BY <1>2, <1>3, <1>4, <1>5, Zenon DEF Held

\* A branch that grows, or that is gone when another place has it.
LEMMA WorkStaysHeld ==
  ASSUME TriageInv, UNCHANGED <<written, astray>>, purged \subseteq purged',
         tree.wip \subseteq tree'.wip,
         Has(dest) \subseteq Has(dest'), Has(remote) \subseteq Has(remote'),
         \A b \in Branch : \/ Has(heads[b]) \subseteq Has(heads'[b])
                           \/ Has(heads[b]) \subseteq Has(dest')
                           \/ Has(heads[b]) \subseteq Has(remote')
                           \/ \E o \in Branch : Has(heads[b]) \subseteq Has(heads'[o])
                           \/ \E r \in {Archive} \cup Trash : Has(heads[b]) \subseteq Has(refs'[r]),
         \A r \in {Archive} \cup Trash :
            Has(refs[r]) \subseteq Has(refs'[r]) \cup purged' \cup {Foreign}
  PROVE  WorkIsHeld'
  <1> SUFFICES ASSUME NEW x \in written \ astray PROVE Held(x)'
    BY DEF WorkIsHeld
  <1>1. Held(x) /\ x # Foreign
    BY TriageBounds DEF TriageInv, WorkIsHeld, TriageTypeOK, RecordTypeOK
  <1>2. CASE x \in tree.wip \/ x \in Has(dest) \/ x \in Has(remote) \/ x \in purged
    BY <1>2 DEF Held
  <1>3. ASSUME NEW b \in Branch, x \in Has(heads[b]) PROVE Held(x)'
    BY <1>3 DEF Held
  <1>4. ASSUME NEW r \in {Archive} \cup Trash, x \in Has(refs[r]) PROVE Held(x)'
    BY <1>1, <1>4 DEF Held
  <1> QED
    BY <1>1, <1>2, <1>3, <1>4 DEF Held

LEMMA CommitsHold ==
  ASSUME TriageInv, CommitStep
  PROVE  WorkIsHeld'
  <1>0. TriageTypeOK /\ TreeTypeOK /\ WorkIsHeld
    BY DEF TriageInv, TriageTypeOK
  <1>1. UNCHANGED <<dest, remote, refs, written, purged>>
    BY DEF CommitStep, CommitEdits, PrepareTree, RebaseTree, Rest
  <1>2. CASE UNCHANGED <<tree, heads, astray>>
    BY <1>1, <1>2, WorkStaysHeld
  <1>3. CASE tree.there /\ StraysIfAway(tree.wip)
             /\ \E c \in Commit : HeadIs(c) /\ Has(HeadCommit) \cup tree.wip \subseteq Has(c)
    <2>1. PICK c \in Commit : HeadIs(c) /\ Has(HeadCommit) \cup tree.wip \subseteq Has(c)
      BY <1>3
    <2>2. /\ \A b \in Branch : b = tree.on \/ heads'[b] = heads[b]
          /\ tree.on # "away" => heads[tree.on] = HeadCommit /\ heads'[tree.on] = c
      BY <1>0, <1>3, <2>1, HeadMoves
    <2>3. astray \subseteq astray'
      BY <1>3 DEF StraysIfAway
    <2> SUFFICES ASSUME NEW x \in written \ astray' PROVE Held(x)'
      BY <1>1 DEF WorkIsHeld
    <2>4. Held(x)
      BY <1>0, <2>3 DEF WorkIsHeld
    <2>5. CASE tree.on = "away"
      <3>1. x \notin tree.wip /\ "away" \notin Branch
        BY <1>3, <2>5 DEF StraysIfAway, Branch
      <3>2. \A b \in Branch : heads'[b] = heads[b]
        BY <2>2, <2>5, <3>1
      <3> QED
        BY <1>1, <2>4, <3>1, <3>2 DEF Held
    <2>6. CASE tree.on # "away"
      <3>1. tree.on \in Branch
        BY <1>0, <2>6 DEF TreeTypeOK, Checkout, Branch
      <3>2. CASE x \in tree.wip \/ x \in Has(heads[tree.on])
        <4>1. x \in Has(heads'[tree.on])
          BY <2>1, <2>2, <2>6, <3>2
        <4> QED
          BY <3>1, <4>1 DEF Held
      <3>3. CASE ~(x \in tree.wip \/ x \in Has(heads[tree.on]))
        BY <1>1, <2>2, <2>4, <3>3 DEF Held
      <3> QED
        BY <3>2, <3>3
    <2> QED
      BY <2>5, <2>6
  <1> QED
    BY <1>0, <1>2, <1>3, CommitMoves

\* What removes a folder and its branch: the work is on another branch.
LEMMA RemovalHolds ==
  ASSUME TriageInv, NEW b \in Named, NEW on \in {NoCommit} \cup Commit, Removes(b, on),
         on = dest \/ on = heads["land"],
         UNCHANGED <<dest, remote, refs, written, astray, purged>>
  PROVE  WorkIsHeld'
  <1>0. TreeTypeOK
    BY DEF TriageInv, TriageTypeOK
  <1>1. tree.wip \subseteq tree'.wip
    BY <1>0, TreeIsRemoved
  <1>2. \A o \in Branch : o = b \/ heads'[o] = heads[o]
    BY <1>0 DEF Removes, TreeTypeOK
  <1>3. CASE Exists(b)
    <2>1. b \in Branch /\ b # "land" /\ IsIn(heads[b], on)
      BY <1>3 DEF Removes, MayRemove, IsMerged, Exists, Named, Branch
    <2>2. Has(heads[b]) \subseteq Has(on)
      BY <1>0, <2>1, HasGrows DEF TreeTypeOK
    <2>3. on = dest' \/ on = heads'["land"]
      BY <1>2, <2>1 DEF Branch
    <2>4. \A o \in Branch : \/ Has(heads[o]) \subseteq Has(heads'[o])
                            \/ Has(heads[o]) \subseteq Has(dest')
                            \/ \E p \in Branch : Has(heads[o]) \subseteq Has(heads'[p])
      BY <1>2, <2>2, <2>3 DEF Branch
    <2> QED
      BY <1>1, <2>4, WorkStaysHeld
  <1>4. CASE ~Exists(b)
    <2>1. UNCHANGED heads
      BY <1>4 DEF Removes
    <2> QED
      BY <1>1, <2>1, WorkStaysHeld
  <1> QED
    BY <1>3, <1>4

LEMMA DropHolds ==
  ASSUME TriageInv, NEW keep \in BOOLEAN, DropTree(keep)
  PROVE  WorkIsHeld'
  <1>0. TreeTypeOK /\ dest \in Commit
    BY DEF TriageInv, TriageTypeOK, RefTypeOK
  <1>1. tree.wip = {}
    BY <1>0, TriageBounds DEF DropTree, TreeTypeOK
  <1>2. UNCHANGED <<dest, remote, refs, written, astray, purged>>
    BY DEF DropTree, records
  <1>3. CASE UNCHANGED heads
    BY <1>1, <1>2, <1>3, WorkStaysHeld
  <1>4. CASE ~UNCHANGED heads
    <2>1. /\ IsIn(heads[row.branch], dest) /\ Exists(row.branch)
          /\ heads' = [heads EXCEPT ![row.branch] = NoCommit]
      BY <1>4 DEF DropTree
    <2>2. row.branch \in Branch
      BY <2>1 DEF Exists, TriageInv, TriageTypeOK, RowTypeOK, Named, Branch
    <2>3. Has(heads[row.branch]) \subseteq Has(dest)
      BY <1>0, <2>1, <2>2, HasGrows DEF TreeTypeOK
    <2>4. \A o \in Branch : Has(heads[o]) \subseteq Has(heads'[o]) \/ Has(heads[o]) \subseteq Has(dest')
      BY <1>0, <1>2, <2>1, <2>2, <2>3 DEF TreeTypeOK
    <2> QED
      BY <1>1, <1>2, <2>4, WorkStaysHeld
  <1> QED
    BY <1>3, <1>4

LEMMA OthersHold ==
  ASSUME TriageInv,
         \/ \E p \in Patch : Edit(p)
         \/ Detach \/ Reattach \/ DestMoves \/ RestoreTree \/ Gc
  PROVE  WorkIsHeld'
  <1>0. /\ TreeTypeOK /\ RefTypeOK /\ WorkIsHeld
        /\ written \in SUBSET Patch /\ Foreign \notin Patch
    BY TriageBounds DEF TriageInv, TriageTypeOK, RecordTypeOK
  <1>1. ASSUME NEW p \in Patch, Edit(p) PROVE WorkIsHeld'
    <2>1. /\ tree'.wip = tree.wip \cup {p} /\ written' = written \cup {p}
          /\ UNCHANGED <<heads, dest, remote, refs, astray, purged>>
      BY <1>0, <1>1 DEF Edit, TreeTypeOK
    <2> SUFFICES ASSUME NEW x \in written' \ astray' PROVE Held(x)'
      BY DEF WorkIsHeld
    <2>2. CASE x = p
      BY <2>1, <2>2 DEF Held
    <2>3. CASE x # p
      <3>1. Held(x)
        BY <1>0, <2>1, <2>3 DEF WorkIsHeld
      <3> QED
        BY <2>1, <3>1 DEF Held
    <2> QED
      BY <2>2, <2>3
  <1>2. CASE Detach
    <2>1. tree'.wip = tree.wip /\ UNCHANGED <<heads, dest, remote, refs, written, astray, purged>>
      BY <1>0, <1>2 DEF Detach, TreeTypeOK, records
    <2> QED
      BY <2>1, WorkStaysHeld
  <1>3. CASE Reattach
    <2>1. /\ tree'.wip = tree.wip /\ UNCHANGED <<dest, remote, refs, written, astray, purged>>
          /\ heads' = [heads EXCEPT !["own"] = tree.head] /\ IsIn(heads["own"], tree.head)
      BY <1>0, <1>3 DEF Reattach, TreeTypeOK, records
    <2>2. Has(heads["own"]) \subseteq Has(tree.head)
      BY <1>0, <2>1, HasGrows DEF TreeTypeOK, Branch
    <2>3. \A b \in Branch : Has(heads[b]) \subseteq Has(heads'[b])
      BY <1>0, <2>1, <2>2 DEF TreeTypeOK
    <2> QED
      BY <2>1, <2>3, WorkStaysHeld
  <1>4. CASE DestMoves
    <2>1. dest' = dest \o <<Foreign>> /\ UNCHANGED <<tree, heads, remote, refs, written, astray, purged>>
      BY <1>0, <1>4 DEF DestMoves, RefTypeOK, Commit, records
    <2>2. <<Foreign>> \in Commit
      BY DEF Commit
    <2>3. dest' \in Commit /\ ToSet(dest') = ToSet(dest) \cup ToSet(<<Foreign>>)
      <3>1. dest \in Seq(Patch \cup {Foreign}) /\ <<Foreign>> \in Seq(Patch \cup {Foreign})
        BY <1>0, <2>2 DEF RefTypeOK, Commit
      <3>2. /\ dest \o <<Foreign>> \in Seq(Patch \cup {Foreign})
            /\ ToSet(dest \o <<Foreign>>) = ToSet(dest) \cup ToSet(<<Foreign>>)
        BY <3>1, SetOfSum, Zenon
      <3> QED
        BY <2>1, <3>2, Zenon DEF Commit
    <2>4. Has(dest) \subseteq Has(dest')
      BY <1>0, <2>3, HasOfCommit DEF RefTypeOK
    <2> QED
      BY <2>1, <2>4, WorkStaysHeld
  <1>5. CASE RestoreTree
    <2>1. PICK b \in Branch, r \in {Archive} \cup Trash :
             heads[b] \in {NoCommit, refs[r]} /\ heads' = [heads EXCEPT ![b] = refs[r]]
      <3>1. PICK r \in Restorable :
               LET b == IF row.ref = r /\ row.branch # "" THEN row.branch ELSE "restored"
               IN heads[b] \in {NoCommit, refs[r]} /\ heads' = [heads EXCEPT ![b] = refs[r]]
        BY <1>5, Zenon DEF RestoreTree
      <3>2. (IF row.ref = r /\ row.branch # "" THEN row.branch ELSE "restored") \in Branch
        BY DEF TriageInv, TriageTypeOK, RowTypeOK, Named, Branch
      <3>3. r \in {Archive} \cup Trash
        BY DEF Restorable
      <3> QED
        BY <3>1, <3>2, <3>3
    <2>2. tree.wip = {} /\ UNCHANGED <<dest, remote, refs, written, astray, purged>>
      BY <1>0, <1>5, TriageBounds DEF RestoreTree, TreeTypeOK, records
    <2>3. \A o \in Branch : Has(heads[o]) \subseteq Has(heads'[o])
      BY <1>0, <2>1, HasOfNone DEF TreeTypeOK
    <2> QED
      BY <2>2, <2>3, WorkStaysHeld
  <1>6. CASE Gc
    <2>1. /\ UNCHANGED <<tree, heads, dest, remote, written, astray>>
          /\ purged' = purged \cup UNION {Has(refs[r]) \ {Foreign} : r \in old}
          /\ refs' = [r \in DOMAIN refs |-> IF r \in old THEN NoCommit ELSE refs[r]]
      BY <1>6 DEF Gc
    <2>2. ASSUME NEW r \in {Archive} \cup Trash
          PROVE  Has(refs[r]) \subseteq Has(refs'[r]) \cup purged' \cup {Foreign}
      <3>1. CASE r \in old
        BY <2>1, <3>1
      <3>2. CASE r \notin old
        BY <1>0, <2>1, <3>2 DEF RefTypeOK
      <3> QED
        BY <3>1, <3>2
    <2> QED
      BY <2>1, <2>2, WorkStaysHeld
  <1> QED
    BY <1>1, <1>2, <1>3, <1>4, <1>5, <1>6

\* The steps of a decision that change the folder, a branch or a ref.
LEMMA DecisionsHold ==
  ASSUME TriageInv,
         PushBranch \/ WriteRef \/ RemoveTree \/ Unbranch \/ LandAside \/ LandOn
  PROVE  WorkIsHeld'
  <1>0. /\ TreeTypeOK /\ RefTypeOK /\ decision.tip \in Commit /\ ItsBranch \in Named
        /\ decision.ref \in {NoRef, Archive} \cup Trash
    BY DEF TriageInv, TriageTypeOK, DecisionTypeOK, ItsBranch
  <1>1. UNCHANGED <<written, astray, purged>>
    BY DEF PushBranch, WriteRef, RemoveTree, Unbranch, LandAside, LandOn, Rest
  <1>2. CASE PushBranch
    <2>1. UNCHANGED <<tree, heads, dest, refs>>
      BY <1>2 DEF PushBranch
    <2>2. Has(remote) \subseteq Has(remote')
      <3>1. CASE UNCHANGED remote
        BY <3>1
      <3>2. CASE ~UNCHANGED remote
        <4>1. /\ Exists(ItsBranch) /\ remote' = heads[ItsBranch]
              /\ remote = NoCommit \/ IsIn(remote, heads[ItsBranch])
          BY <1>2, <3>2 DEF PushBranch
        <4>2. heads[ItsBranch] \in {NoCommit} \cup Commit
          BY <1>0, <4>1 DEF TreeTypeOK, Exists, Named, Branch
        <4> QED
          BY <1>0, <4>1, <4>2, HasOfNone, HasGrows DEF RefTypeOK
      <3> QED
        BY <3>1, <3>2
    <2> QED
      BY <1>1, <2>1, <2>2, WorkStaysHeld
  <1>3. CASE WriteRef
    <2>1. UNCHANGED <<tree, heads, dest, remote>>
      BY <1>3 DEF WriteRef
    <2>2. \A r \in {Archive} \cup Trash : Has(refs[r]) \subseteq Has(refs'[r])
      <3>1. CASE UNCHANGED refs
        BY <3>1
      <3>2. CASE ~UNCHANGED refs
        <4>1. PICK r \in {Archive} \cup Trash :
                 MayPoint(refs[r], decision.tip) /\ refs' = [refs EXCEPT ![r] = decision.tip]
          BY <1>3, <3>2 DEF WriteRef, RefOf
        <4>2. Has(refs[r]) \subseteq Has(decision.tip)
          <5>1. CASE refs[r] = NoCommit
            BY <5>1, HasOfNone
          <5>2. CASE refs[r] # NoCommit
            <6>1. IsIn(refs[r], decision.tip) /\ refs[r] \in Commit
              BY <1>0, <4>1, <5>2, TriageBounds DEF MayPoint, IsIn, RefTypeOK
            <6> QED
              BY <1>0, <6>1, HasGrows
          <5> QED
            BY <5>1, <5>2
        <4> QED
          BY <1>0, <4>1, <4>2 DEF RefTypeOK
      <3> QED
        BY <3>1, <3>2
    <2> QED
      BY <1>1, <2>1, <2>2, WorkStaysHeld
  <1>4. CASE RemoveTree
    <2>1. tree.wip \subseteq tree'.wip /\ UNCHANGED <<heads, dest, remote, refs>>
      BY <1>4 DEF RemoveTree
    <2> QED
      BY <1>1, <2>1, WorkStaysHeld
  <1>5. CASE Unbranch
    <2>1. UNCHANGED <<tree, dest, remote, refs>>
      BY <1>5 DEF Unbranch
    <2>2. CASE UNCHANGED heads
      BY <1>1, <2>1, <2>2, WorkStaysHeld
    <2>3. CASE ~UNCHANGED heads
      <3>1. /\ Exists(ItsBranch) /\ refs[decision.ref] = decision.tip /\ heads[ItsBranch] = decision.tip
            /\ heads' = [heads EXCEPT ![ItsBranch] = NoCommit]
        BY <1>5, <2>3 DEF Unbranch, HoldsIt
      <3>2. decision.ref \in {Archive} \cup Trash
        BY <1>0, <1>5 DEF Unbranch, StepIs, TriageInv, TriageTypeOK, DecisionTypeOK
      <3>3. \A b \in Branch : \/ Has(heads[b]) \subseteq Has(heads'[b])
                              \/ \E r \in {Archive} \cup Trash : Has(heads[b]) \subseteq Has(refs'[r])
        BY <1>0, <2>1, <3>1, <3>2 DEF TreeTypeOK
      <3> QED
        BY <1>1, <2>1, <3>3, WorkStaysHeld
    <2> QED
      BY <2>2, <2>3
  <1>6. CASE LandAside
    <2>1. UNCHANGED <<tree, dest, remote, refs>>
      BY <1>6 DEF LandAside
    <2>2. \A b \in Branch : Has(heads[b]) \subseteq Has(heads'[b])
      <3>1. UNCHANGED heads \/ (heads["land"] = NoCommit /\ heads' = [heads EXCEPT !["land"] = decision.tip])
        BY <1>6 DEF LandAside
      <3> QED
        BY <1>0, <3>1, HasOfNone DEF TreeTypeOK
    <2> QED
      BY <1>1, <2>1, <2>2, WorkStaysHeld
  <1>7. CASE LandOn
    <2>1. UNCHANGED <<tree, heads, remote, refs>>
      BY <1>7 DEF LandOn
    <2>2. Has(dest) \subseteq Has(dest')
      <3>1. UNCHANGED dest \/ (IsPrefix(dest, decision.tip) /\ dest' = decision.tip)
        BY <1>7 DEF LandOn
      <3>2. IsPrefix(dest, decision.tip) => IsIn(dest, decision.tip)
        BY <1>0, TriageBounds DEF IsIn, RefTypeOK
      <3> QED
        BY <1>0, <3>1, <3>2, HasGrows DEF RefTypeOK
    <2> QED
      BY <1>1, <2>1, <2>2, WorkStaysHeld
  <1> QED
    BY <1>2, <1>3, <1>4, <1>5, <1>6, <1>7

LEMMA TriageNextInv ==
  ASSUME TriageInv, [TriageNext]_triageVars
  PROVE  TriageInv'
  <1>1. TriageTypeOK'
    BY TriageNextTyped DEF TriageInv
  <1>2. CASE UNCHANGED <<tree, heads, dest, remote, refs, written, astray, purged>>
    BY <1>2, WorkStaysHeld, <1>1 DEF TriageInv
  <1>3. CASE CommitStep
    BY <1>1, <1>3, CommitsHold DEF TriageInv
  <1>4. CASE \/ \E p \in Patch : Edit(p)
             \/ Detach \/ Reattach \/ DestMoves \/ RestoreTree \/ Gc
    BY <1>1, <1>4, OthersHold DEF TriageInv
  <1>5. CASE PushBranch \/ WriteRef \/ RemoveTree \/ Unbranch \/ LandAside \/ LandOn
    BY <1>1, <1>5, DecisionsHold DEF TriageInv
  <1>6. ASSUME NEW keep \in BOOLEAN, DropTree(keep) PROVE TriageInv'
    BY <1>1, <1>6, DropHolds DEF TriageInv
  <1>7. CASE RetryCleanup
    <2>1. /\ Removes(row.branch, dest) /\ UNCHANGED <<dest, remote, refs, written, astray, purged>>
          /\ row.branch \in Named /\ dest \in Commit
      BY <1>7 DEF RetryCleanup, records, TriageInv, TriageTypeOK, RowTypeOK, RefTypeOK
    <2> QED
      BY <1>1, <2>1, RemovalHolds DEF TriageInv
  <1>8. CASE CleanLanded
    <2>1. /\ UNCHANGED <<dest, remote, refs, written, astray, purged>>
          /\ Removes(ItsBranch, LandedOn) \/ UNCHANGED <<tree, heads>>
      BY <1>8 DEF CleanLanded, Rest
    <2>2. /\ ItsBranch \in Named /\ (LandedOn = dest \/ LandedOn = heads["land"])
          /\ LandedOn \in {NoCommit} \cup Commit
      BY DEF ItsBranch, LandedOn, Branch, TriageInv, TriageTypeOK, DecisionTypeOK, RefTypeOK, TreeTypeOK
    <2>3. CASE Removes(ItsBranch, LandedOn)
      BY <1>1, <2>1, <2>2, <2>3, RemovalHolds DEF TriageInv
    <2>4. CASE UNCHANGED <<tree, heads>>
      BY <1>2, <2>1, <2>4
    <2> QED
      BY <2>1, <2>3, <2>4
  <1>9. \/ CommitStep \/ Detach \/ Reattach \/ DestMoves \/ RestoreTree \/ Gc
        \/ PushBranch \/ WriteRef \/ RemoveTree \/ Unbranch \/ LandAside \/ LandOn
        \/ RetryCleanup \/ CleanLanded
        \/ \E p \in Patch : Edit(p)
        \/ \E keep \in BOOLEAN : DropTree(keep)
        \/ UNCHANGED <<tree, heads, dest, remote, refs, written, astray, purged>>
    BY DEF TriageNext, triageVars, DecisionStep, CommitStep, OwnerStep, TakeTree, LoseWorker, ParkTree,
           CancelTask, ResumeTask, LedgerStep, Decide, Adopt, CheckSafe, Finish, Record, RecordFailed,
           CallFails, ApplyDies, NotTheWork, Rest, RestoreRow, RestoreDies, TrashAges, records
  <1> QED
    BY <1>2, <1>3, <1>4, <1>5, <1>6, <1>7, <1>8, <1>9

\* What was written in a worktree is in its folder, on a branch or in a ref, or
\* was in a trash ref of more than 30 days (refs.rs, land::remove,
\* worktree_ops::drop), whatever the workers, the operator, the watchdog and a
\* restore do during a decision and wherever it dies; but for what was
\* committed on a detached HEAD.
THEOREM WorkIsNotForgotten == TriageSpec => []OnlyGcForgets
  <1>1. TriageInit => TriageInv
    BY TriageInitTyped DEF TriageInv, WorkIsHeld, TriageInit
  <1>2. TriageInv /\ [TriageNext]_triageVars => TriageInv'
    BY TriageNextInv
  <1> QED
    BY <1>1, <1>2, HeldIsKept, PTL DEF TriageSpec
=============================================================================
