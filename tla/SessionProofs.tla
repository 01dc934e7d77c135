----------------------------- MODULE SessionProofs -----------------------------
(***************************************************************************)
(* Theorems about the session records.  Who wrote a record last is not     *)
(* recorded anywhere, so the invariants say who can write it now (OneUser) *)
(* and how far its worker and its spawner are (Ladder), for every record   *)
(* that no two spawners had at a time.                                     *)
(***************************************************************************)
EXTENDS MCServices, RunProofs, MailProofs, TLAPS

-----------------------------------------------------------------------------
(***************************************************************************)
(* How a spawner, its pane, its worker and its `done` go together.         *)
(***************************************************************************)
\* A spawner that has claimed its record.
Claimed == Spawning \cup {"over", "dead"}

\* A worker that has read a brief, and runs.
Loaded == {"register", "set running", "launch", "agent", "error", "close", "exited", "tell"}

KnowsItsRecord ==
    \A s \in Spawner :
        /\ spawner[s].at = "new" <=> spawner[s].rec = NoRecord
        /\ spawner[s].at # "new" => spawner[s].role \in Role

PanesFit ==
    \A s \in Spawner :
        /\ pane[s] # "none" => spawner[s].at \in Claimed \ {"brief", "split"}
        /\ spawner[s].at \in {"run", "mark", "wait"} => pane[s] # "none"
        /\ worker[s] # "none" => pane[s] # "none" /\ spawner[s].at \in Claimed \ {"brief", "split", "run"}
        /\ spawner[s].at \in {"mark", "wait"} => worker[s] # "none"
        /\ doing[s] # "none" => worker[s] \in {"agent", "exited", "tell"}
        /\ doing[s] = "mark" => s \in reported

BriefsFit ==
    /\ \A o \in Role : brief[o] # NoSpawner => spawner[brief[o]].at \in Claimed
    /\ \A w \in Spawner :
          /\ loaded[w] # NoSpawner => spawner[loaded[w]].at \in Claimed
          /\ worker[w] \in {"none", "load"} => loaded[w] = NoSpawner
          /\ worker[w] \in Loaded => loaded[w] # NoSpawner

\* A role is registered by a worker that gets on.
RolesFit ==
    \A o \in Role :
        roleId[o] # NoSpawner => worker[roleId[o]] \notin {"none", "load", "register", "error", "close"}

SessionFits == SessionTypeOK /\ KnowsItsRecord /\ PanesFit /\ BriefsFit /\ RolesFit

-----------------------------------------------------------------------------
(***************************************************************************)
(* Who can write a record.                                                 *)
(***************************************************************************)
Uses(s) == spawner[s].at \in Spawning \/ pane[s] = "open"

OneUser ==
    \A s, k \in Spawner :
        s # k /\ Uses(s) /\ Uses(k) /\ spawner[s].rec = spawner[k].rec => spawner[s].rec \in shared

OwnBriefs == \A w \in Spawner : loaded[w] \in {w, NoSpawner}

Alone(w) == spawner[w].rec \notin shared /\ OwnBriefs

\* Between the claim and the reading of the brief a spawner has its role for itself.
RolesAreApart ==
    late \/ shared # {} \/
    /\ OwnBriefs
    /\ \A s \in Spawner :
          /\ spawner[s].at = "brief" => /\ record[spawner[s].rec].state = "planned"
                                        /\ record[spawner[s].rec].role = spawner[s].role
          /\ spawner[s].at \in {"split", "run"} \/ worker[s] = "load" => brief[spawner[s].role] = s
    /\ \A s, k \in Spawner : Awaits(s) /\ Awaits(k) /\ spawner[s].role = spawner[k].role => s = k

\* The record of a spawner or a worker that can write it.
Ladder(w) ==
    LET r  == record[spawner[w].rec]
        at == spawner[w].at
    IN  /\ r.pane \in {w, NoSpawner}
        /\ at \in {"brief", "split", "run", "mark"} \/ worker[w] = "none" => r.pane = NoSpawner
        /\ at \in {"failed", "clean"} => worker[w] \in {"none", "close", "left", "killed"}
        /\ at = "clean" => r.state \notin {"planned"} \cup Live
        /\ worker[w] \in {"none", "load", "register", "set running"} =>
              r.state \in {"planned", "starting", "launch failed"} /\ ~r.summed
        /\ at \in {"brief", "split", "run", "mark"}
               /\ worker[w] \in {"none", "load", "register", "set running", "error", "close"} =>
              r.state \in {"planned", "launch failed"}
        /\ at \in {"wait", "over"} /\ worker[w] \in {"load", "register", "set running"} =>
              r.state = "starting"
        /\ worker[w] = "launch" => r.state = "running" /\ ~r.summed
        /\ worker[w] = "agent" => \/ r.state = "running" /\ ~r.summed
                                  \/ r.state = "done" /\ r.summed /\ w \in reported
        /\ worker[w] \in {"tell", "exited"} => r.state \in {"done", "failed"}
        /\ worker[w] = "exited" => w \in reported \cup informed
        /\ at = "over" /\ worker[w] \in {"error", "close"} => r.state = "failed"
        /\ at \in {"mark", "wait"} /\ worker[w] = "close" => FoundError(w)
        /\ at \in {"mark", "wait"} /\ worker[w] = "left" =>
              loaded[w] = NoSpawner \/ FoundError(w) \/ r.state \in {"done", "failed"}

\* A worker that left is not live in its record.
LeftOver(w) ==
    worker[w] = "left" /\ loaded[w] = w /\ spawner[w].at = "over" =>
        record[spawner[w].rec].pane # w \/ record[spawner[w].rec].state \notin Live

\* A startup error is the one of the spawner's own worker.
ErrorsFit ==
    \A w \in Spawner :
        /\ spawner[w].at = "new" => \A k \in Record \cup Spawner : w \notin startError[k]
        /\ w \in startError[w] => worker[w] = "left"
        /\ spawner[w].at # "new" /\ Alone(w) /\ FoundError(w) => worker[w] \in {"close", "left", "killed"}

RecordsFit == \A w \in Spawner : Alone(w) => (Uses(w) => Ladder(w)) /\ LeftOver(w)

SessionInv == SessionFits /\ OneUser /\ RolesAreApart /\ ErrorsFit /\ RecordsFit

-----------------------------------------------------------------------------
(***************************************************************************)
(* Operators.                                                              *)
(***************************************************************************)
LEMMA SpawnerMoves ==
  ASSUME SessionTypeOK, NEW s \in Spawner, NEW from, NEW to \in SpawnerAt, SpawnerGoes(s, from, to)
  PROVE  /\ spawner' \in [Spawner -> SpawnerData]
         /\ spawner[s].at = from /\ spawner'[s].at = to
         /\ spawner'[s].rec = spawner[s].rec /\ spawner'[s].role = spawner[s].role
         /\ \A k \in Spawner \ {s} : spawner'[k] = spawner[k]
  <1>1. spawner \in [Spawner -> SpawnerData]
    BY DEF SessionTypeOK
  <1> QED
    BY <1>1 DEF SpawnerGoes, SpawnerData

LEMMA WorkerMoves ==
  ASSUME SessionTypeOK, NEW w \in Spawner, NEW from, NEW to \in WorkerAt, WorkerGoes(w, from, to)
  PROVE  /\ worker' \in [Spawner -> WorkerAt]
         /\ worker[w] = from /\ worker'[w] = to
         /\ \A k \in Spawner \ {w} : worker'[k] = worker[k]
  BY DEF SessionTypeOK, WorkerGoes

LEMMA DoneMoves ==
  ASSUME SessionTypeOK, NEW w \in Spawner, NEW from, NEW to \in DoneAt, DoneGoes(w, from, to)
  PROVE  /\ doing' \in [Spawner -> DoneAt]
         /\ doing[w] = from /\ doing'[w] = to
         /\ \A k \in Spawner \ {w} : doing'[k] = doing[k]
  BY DEF SessionTypeOK, DoneGoes

LEMMA RecordWritten ==
  ASSUME SessionTypeOK, NEW r \in Record, NEW state \in {"none", "planned"} \cup Live \cup EndedAs,
         Writes(r, state)
  PROVE  /\ record' \in [Record -> RecordData]
         /\ record'[r].state = state /\ record'[r].old = FALSE /\ record'[r].pane = record[r].pane
         /\ record'[r].role = record[r].role /\ record'[r].summed = record[r].summed
         /\ \A q \in Record \ {r} : record'[q] = record[q]
  <1>1. record \in [Record -> RecordData]
    BY DEF SessionTypeOK
  <1> QED
    BY <1>1 DEF Writes, RecordData

LEMMA PaneClosed ==
  ASSUME SessionTypeOK, NEW w \in Spawner, ClosePane(w)
  PROVE  /\ pane' \in [Spawner -> {"none", "open", "closed"}] /\ pane'[w] = "closed"
         /\ worker' \in [Spawner -> WorkerAt]
         /\ worker'[w] = IF worker[w] \in {"none", "left"} THEN worker[w] ELSE "killed"
         /\ doing' \in [Spawner -> DoneAt] /\ doing'[w] = "none"
         /\ \A k \in Spawner \ {w} :
               pane'[k] = pane[k] /\ worker'[k] = worker[k] /\ doing'[k] = doing[k]
         /\ loaded' = loaded
  BY DEF SessionTypeOK, ClosePane, Apart, WorkerAt, DoneAt

LEMMA WorkerLeft ==
  ASSUME SessionTypeOK, NEW w \in Spawner, NEW from, Leaves(w, from)
  PROVE  /\ pane' \in [Spawner -> {"none", "open", "closed"}] /\ pane'[w] = "closed"
         /\ worker' \in [Spawner -> WorkerAt] /\ worker[w] = from /\ worker'[w] = "left"
         /\ doing' \in [Spawner -> DoneAt] /\ doing'[w] = "none"
         /\ \A k \in Spawner \ {w} :
               pane'[k] = pane[k] /\ worker'[k] = worker[k] /\ doing'[k] = doing[k]
         /\ loaded' = loaded
  BY DEF SessionTypeOK, Leaves, WorkerAt, DoneAt, Ran

LEMMA RolesFreed ==
  ASSUME SessionTypeOK, NEW s \in Spawner, NEW roles, Unregister(s, roles)
  PROVE  /\ roleId' \in [Role -> Spawner \cup {NoSpawner}]
         /\ brief' \in [Role -> Spawner \cup {NoSpawner}]
         /\ \A o \in Role : roleId'[o] = IF o \in roles THEN NoSpawner ELSE roleId[o]
         /\ \A o \in Role : brief'[o] = IF o \in roles THEN NoSpawner ELSE brief[o]
         /\ late' \in BOOLEAN /\ (late => late')
         /\ \A k \in Spawner \ {s} : Awaits(k) /\ spawner[k].role \in roles => late'
         /\ reported' = reported /\ informed' = informed /\ shared' = shared
  BY DEF SessionTypeOK, Unregister

LEMMA RolesAndRecords ==
  ASSUME SessionFits, NEW s \in Spawner
  PROVE  /\ spawner[s].at # "new" => spawner[s].rec \in Record /\ spawner[s].role \in Role
         /\ worker[s] # "none" => spawner[s].at # "new"
         /\ worker[s] \in Loaded => loaded[s] \in Spawner /\ RecordOf(s) \in Record
         /\ doing[s] # "none" => worker[s] \in Loaded
  <1> USE DEF SessionFits
  <1>1. spawner \in [Spawner -> SpawnerData]
    BY DEF SessionTypeOK
  <1>2. \A k \in Spawner : spawner[k].at # "new" => spawner[k].rec \in Record /\ spawner[k].role \in Role
    BY <1>1 DEF SpawnerData, KnowsItsRecord
  <1>3. worker[s] # "none" => spawner[s].at # "new"
    BY DEF PanesFit, Claimed, Spawning
  <1>4. worker[s] \in Loaded => loaded[s] \in Spawner /\ RecordOf(s) \in Record
    BY <1>2 DEF BriefsFit, SessionTypeOK, RecordOf, Claimed, Spawning
  <1> QED
    BY <1>2, <1>3, <1>4 DEF PanesFit, Loaded

\* Every write of a record.
LEMMA RecordsAreTyped ==
  ASSUME SessionFits, SessionNext
  PROVE  record' \in [Record -> RecordData]
  <1>1. record \in [Record -> RecordData] /\ SessionTypeOK
    BY DEF SessionFits, SessionTypeOK
  <1>2. ASSUME NEW s \in Spawner, SpawnerStep(s) PROVE record' \in [Record -> RecordData]
    <2>1. CASE MarkVanished(s) \/ EndLaunch(s)
      BY <1>1, <2>1, RolesAndRecords, RecordWritten DEF MarkVanished, EndLaunch, SpawnerGoes, EndedAs
    <2>2. CASE RecoverAbandoned(s)
      BY <1>1, <2>2 DEF RecoverAbandoned, RecordData, EndedAs
    <2>3. CASE Claim(s) /\ ~RoleTaken(spawner[s].role)
      <3> DEFINE v == [NoState EXCEPT !.state = "planned", !.role = spawner[s].role]
      <3>1. v \in RecordData
        BY <2>3, RolesAndRecords DEF RecordData, NoState, Claim
      <3>2. record' = [record EXCEPT ![spawner[s].rec] = v]
        BY <2>3 DEF Claim
      <3> HIDE DEF v
      <3> QED
        BY <1>1, <3>1, <3>2
    <2>4. CASE MarkStarting(s)
      <3> DEFINE v == [record[spawner[s].rec] EXCEPT !.pane = s, !.old = FALSE,
                         !.state = IF Untouched(spawner[s].rec) THEN "starting" ELSE @]
      <3>1. record[spawner[s].rec] \in RecordData => v \in RecordData
        BY DEF RecordData, Live
      <3>2. record' = [record EXCEPT ![spawner[s].rec] = v] /\ spawner[s].rec \in Record
        BY <2>4, RolesAndRecords DEF MarkStarting, SpawnerGoes
      <3> HIDE DEF v
      <3> QED
        BY <1>1, <3>1, <3>2
    <2> QED
      BY <1>1, <1>2, <2>1, <2>2, <2>3, <2>4
         DEF SpawnerStep, Claim, LookForPane, CheckResumable, FreeRoles, WriteBrief, SplitPane, RunInPane,
             StageFails, AwaitWorker, AwaitEnds, CleanUp
  <1>3. ASSUME NEW w \in Spawner, WorkerStep(w) \/ DoneStep(w) PROVE record' \in [Record -> RecordData]
    <2>1. CASE StartupFails(w) \/ AgentFailsToStart(w) \/ AgentExited(w)
      <3>1. RecordOf(w) \in Record
        BY <2>1, RolesAndRecords DEF StartupFails, WorkerGoes, AgentFailsToStart, AgentExited, Leaves, Loaded
      <3>2. PICK state \in {"none", "planned"} \cup Live \cup EndedAs : Writes(RecordOf(w), state)
        <4>1. record[RecordOf(w)].state \in {"none", "planned"} \cup Live \cup EndedAs
          BY <1>1, <3>1 DEF RecordData
        <4> QED
          BY <2>1, <4>1 DEF StartupFails, AgentFailsToStart, AgentExited, RecordExit, EndedAs
      <3> QED
        BY <1>1, <3>1, <3>2, RecordWritten
    <2>3. CASE SetRunning(w)
      BY <1>1, <2>3, RolesAndRecords, RecordWritten DEF SetRunning, WorkerGoes, Loaded, Live
    <2>4. CASE MarkDone(w)
      <3> DEFINE v == [record[RecordOf(w)] EXCEPT !.summed = TRUE, !.old = FALSE,
                         !.state = IF @ \in EndedAs THEN @ ELSE "done"]
      <3>1. record[RecordOf(w)] \in RecordData => v \in RecordData
        BY DEF RecordData, EndedAs
      <3>2. record' = [record EXCEPT ![RecordOf(w)] = v] /\ RecordOf(w) \in Record
        BY <2>4, RolesAndRecords DEF MarkDone, DoneGoes
      <3> HIDE DEF v
      <3> QED
        BY <1>1, <3>1, <3>2
    <2> QED
      BY <1>1, <1>3, <2>1, <2>3, <2>4
         DEF WorkerStep, DoneStep, LoadBrief, RegisterRole, LeaveStartError, CloseOwnPane, LaunchAgent,
             TellEarlyExit, WorkerEnds, StartDone, QueueReport, DoneUnregisters, DoneCloses, DoneStops
  <1>4. ASSUME NEW r \in Record, FiveMinutes(r) PROVE record' \in [Record -> RecordData]
    BY <1>1, <1>4 DEF FiveMinutes, RecordData
  <1> QED
    BY <1>1, <1>2, <1>3, <1>4 DEF SessionNext, SpawnFresh, Resume, SpawnerDies, PaneCloses
\* A step of one spawner, of the worker in its pane, or of the `done` there.
Acts(s) ==
    \/ \E r \in Record, o \in Role : SpawnFresh(s, r, o) \/ Resume(s, r, o)
    \/ SpawnerStep(s) \/ SpawnerDies(s) \/ WorkerStep(s) \/ DoneStep(s) \/ PaneCloses(s)

LEMMA SpawnBegins ==
  ASSUME SessionFits, NEW s \in Spawner, NEW r \in Record, NEW o \in Role,
         SpawnFresh(s, r, o) \/ Resume(s, r, o)
  PROVE  /\ spawner[s].at = "new" /\ spawner[s].rec = NoRecord
         /\ spawner'[s].at \in {"recover", "look"} /\ spawner'[s].rec = r /\ spawner'[s].role = o
         /\ UNCHANGED <<record, inPane, mailbox, startError, histories>>
  <1>1. spawner \in [Spawner -> SpawnerData] /\ KnowsItsRecord
    BY DEF SessionFits, SessionTypeOK
  <1>2. \/ spawner' = [spawner EXCEPT ![s] = [@ EXCEPT !.at = "recover", !.rec = r, !.role = o]]
        \/ spawner' = [spawner EXCEPT ![s] =
                         [@ EXCEPT !.at = "look", !.rec = r, !.role = o, !.resumes = TRUE]]
    BY DEF SpawnFresh, Resume
  <1>3. spawner'[s].at \in {"recover", "look"} /\ spawner'[s].rec = r /\ spawner'[s].role = o
    <2>1. spawner[s] \in SpawnerData
      BY <1>1
    <2> DEFINE f == [spawner[s] EXCEPT !.at = "recover", !.rec = r, !.role = o]
               g == [spawner[s] EXCEPT !.at = "look", !.rec = r, !.role = o, !.resumes = TRUE]
    <2>2. f.at = "recover" /\ f.rec = r /\ f.role = o /\ g.at = "look" /\ g.rec = r /\ g.role = o
      BY <2>1 DEF SpawnerData
    <2>3. spawner'[s] \in {f, g}
      BY <1>1, <1>2
    <2> HIDE DEF f, g
    <2> QED
      BY <2>2, <2>3
  <1> QED
    BY <1>1, <1>3 DEF SpawnFresh, Resume, KnowsItsRecord

LEMMA RecoveryMoves ==
  ASSUME SessionFits, NEW s \in Spawner, RecoverAbandoned(s) \/ FreeRoles(s)
  PROVE  /\ spawner[s].at \in {"recover", "free"} /\ spawner'[s].at \in {"claim", "free"}
         /\ spawner'[s].rec = spawner[s].rec /\ spawner'[s].role = spawner[s].role
  <1>1. spawner \in [Spawner -> SpawnerData]
    BY DEF SessionFits, SessionTypeOK
  <1>2. PICK at \in {"claim", "free"} : \E frees :
            spawner' = [spawner EXCEPT ![s] = [@ EXCEPT !.at = at, !.frees = frees]]
    BY DEF RecoverAbandoned, FreeRoles
  <1>3. spawner[s].at \in {"recover", "free"}
    BY DEF RecoverAbandoned, FreeRoles
  <1> QED
    BY <1>1, <1>2, <1>3 DEF SpawnerData

LEMMA SpawnersMove ==
  ASSUME SessionFits, NEW s \in Spawner, Acts(s)
  PROVE  /\ spawner' \in [Spawner -> SpawnerData] /\ KnowsItsRecord'
         /\ \A k \in Spawner \ {s} : spawner'[k] = spawner[k]
  <1> DEFINE Goal == /\ spawner' \in [Spawner -> SpawnerData] /\ KnowsItsRecord'
                     /\ \A k \in Spawner \ {s} : spawner'[k] = spawner[k]
  <1>1. SessionTypeOK /\ spawner \in [Spawner -> SpawnerData] /\ KnowsItsRecord
    BY DEF SessionFits, SessionTypeOK
  <1>2. CASE UNCHANGED spawner
    BY <1>1, <1>2 DEF KnowsItsRecord
  <1>3. ASSUME NEW v \in SpawnerData, spawner' = [spawner EXCEPT ![s] = v],
               v.at # "new" /\ v.rec # NoRecord /\ v.role \in Role
        PROVE  Goal
    BY <1>1, <1>3 DEF KnowsItsRecord
  <1>4. ASSUME NEW r \in Record, NEW o \in Role, SpawnFresh(s, r, o) \/ Resume(s, r, o)
        PROVE  Goal
    <2>1. spawner[s] \in SpawnerData
      BY <1>1
    <2> DEFINE f == [spawner[s] EXCEPT !.at = "recover", !.rec = r, !.role = o]
               g == [spawner[s] EXCEPT !.at = "look", !.rec = r, !.role = o, !.resumes = TRUE]
    <2>2. /\ f \in SpawnerData /\ f.at # "new" /\ f.rec = r /\ f.role = o
          /\ g \in SpawnerData /\ g.at # "new" /\ g.rec = r /\ g.role = o
      BY <2>1 DEF SpawnerData, SpawnerAt
    <2>3. spawner' = [spawner EXCEPT ![s] = f] \/ spawner' = [spawner EXCEPT ![s] = g]
      BY <1>4 DEF SpawnFresh, Resume
    <2> HIDE DEF f, g
    <2> QED
      BY <1>3, <2>2, <2>3, SessionAssumption
  <1>5. ASSUME NEW from \in SpawnerAt \ {"new"}, NEW to \in SpawnerAt \ {"new"}, SpawnerGoes(s, from, to)
        PROVE  Goal
    BY <1>1, <1>5, SpawnerMoves DEF KnowsItsRecord
  <1>6. CASE RecoverAbandoned(s) \/ FreeRoles(s)
    <2>1. PICK at \in {"claim", "free"}, frees \in SUBSET (Role \cup {"none"}) :
             spawner' = [spawner EXCEPT ![s] = [@ EXCEPT !.at = at, !.frees = frees]]
      <3>1. {record[r].role : r \in Abandoned} \subseteq Role \cup {"none"}
        BY DEF SessionFits, SessionTypeOK, Abandoned, RecordData
      <3> QED
        BY <1>6, <3>1 DEF RecoverAbandoned, FreeRoles
    <2>2. /\ spawner[s].at # "new" /\ spawner[s].rec # NoRecord /\ spawner[s].role \in Role
          /\ spawner[s] \in SpawnerData
      <3>1. spawner[s].at # "new"
        BY <1>6 DEF RecoverAbandoned, FreeRoles
      <3> QED
        BY <1>1, <3>1 DEF KnowsItsRecord
    <2> DEFINE v == [spawner[s] EXCEPT !.at = at, !.frees = frees]
    <2>3. v \in SpawnerData /\ v.at # "new" /\ v.rec = spawner[s].rec /\ v.role = spawner[s].role
      BY <2>2 DEF SpawnerData, SpawnerAt
    <2>4. spawner' = [spawner EXCEPT ![s] = v]
      BY <2>1
    <2> HIDE DEF v
    <2> QED
      BY <1>3, <2>2, <2>3, <2>4
  <1>7. CASE SpawnerStep(s) \/ SpawnerDies(s)
    <2>1. CASE StageFails(s) \/ SpawnerDies(s)
      BY <1>5, <2>1 DEF StageFails, SpawnerDies, SpawnerAt, Spawning
    <2> QED
      BY <1>5, <1>6, <1>7, <2>1
         DEF SpawnerStep, SpawnerAt, Spawning, LookForPane, MarkVanished, CheckResumable, Claim, WriteBrief,
             SplitPane, RunInPane, MarkStarting, AwaitWorker, AwaitEnds, EndLaunch, CleanUp
  <1>8. CASE WorkerStep(s) \/ DoneStep(s) \/ PaneCloses(s)
    BY <1>2, <1>8
       DEF WorkerStep, DoneStep, LoadBrief, RegisterRole, StartupFails, LeaveStartError,
           CloseOwnPane, SetRunning, LaunchAgent, AgentFailsToStart, AgentExited, TellEarlyExit, WorkerEnds,
           StartDone, QueueReport, MarkDone, DoneUnregisters, DoneCloses, DoneStops, PaneCloses
  <1> QED
    BY <1>4, <1>7, <1>8 DEF Acts
LEMMA PanesMove ==
  ASSUME SessionFits, NEW s \in Spawner, Acts(s)
  PROVE  /\ pane' \in [Spawner -> {"none", "open", "closed"}]
         /\ worker' \in [Spawner -> WorkerAt]
         /\ doing' \in [Spawner -> DoneAt]
         /\ loaded' \in [Spawner -> Spawner \cup {NoSpawner}]
         /\ \A k \in Spawner \ {s} :
               pane'[k] = pane[k] /\ worker'[k] = worker[k] /\ doing'[k] = doing[k] /\ loaded'[k] = loaded[k]
         /\ worker'[s] \notin {"none", "killed", "left"} => pane'[s] = "open"
  <1> DEFINE Goal ==
         /\ pane' \in [Spawner -> {"none", "open", "closed"}]
         /\ worker' \in [Spawner -> WorkerAt]
         /\ doing' \in [Spawner -> DoneAt]
         /\ loaded' \in [Spawner -> Spawner \cup {NoSpawner}]
         /\ \A k \in Spawner \ {s} :
               pane'[k] = pane[k] /\ worker'[k] = worker[k] /\ doing'[k] = doing[k] /\ loaded'[k] = loaded[k]
         /\ worker'[s] \notin {"none", "killed", "left"} => pane'[s] = "open"
  <1>1. /\ SessionTypeOK /\ pane \in [Spawner -> {"none", "open", "closed"}]
        /\ worker \in [Spawner -> WorkerAt] /\ doing \in [Spawner -> DoneAt]
        /\ loaded \in [Spawner -> Spawner \cup {NoSpawner}]
        /\ worker[s] \notin {"none", "killed", "left"} => pane[s] = "open"
    BY DEF SessionFits, SessionTypeOK
  <1>2. CASE UNCHANGED inPane
    BY <1>1, <1>2 DEF inPane
  <1>3. CASE UNCHANGED loaded /\ (ClosePane(s) \/ \E from \in WorkerAt : Leaves(s, from))
    BY <1>1, <1>3, PaneClosed, WorkerLeft
  <1>4. CASE SplitPane(s)
    BY <1>1, <1>4 DEF SplitPane
  <1>5. ASSUME NEW from \in WorkerAt, NEW to \in WorkerAt, WorkerGoes(s, from, to), UNCHANGED <<pane, doing>>,
               pane[s] = "open" \/ from \notin {"none", "killed", "left"},
               UNCHANGED loaded \/ \E b \in Spawner : loaded' = [loaded EXCEPT ![s] = b]
        PROVE  Goal
    BY <1>1, <1>5, WorkerMoves
  <1>6. CASE RunInPane(s)
    BY <1>1, <1>6 DEF RunInPane, WorkerAt
  <1>7. CASE LoadBrief(s)
    <2>1. spawner[s].role \in Role
      BY <1>7, RolesAndRecords DEF LoadBrief
    <2> DEFINE b == brief[spawner[s].role]
    <2>2. b \in Spawner \cup {NoSpawner}
      BY <2>1 DEF SessionFits, SessionTypeOK
    <2>3. CASE b = NoSpawner
      BY <1>3, <1>7, <2>3 DEF LoadBrief, Leaves, WorkerAt
    <2>4. CASE b # NoSpawner
      BY <1>5, <1>7, <2>2, <2>4 DEF LoadBrief, WorkerAt
    <2> QED
      BY <2>3, <2>4
  <1>8. CASE SpawnerStep(s) \/ SpawnerDies(s)
    BY <1>2, <1>3, <1>4, <1>6, <1>8
       DEF SpawnerStep, LookForPane, MarkVanished, CheckResumable, RecoverAbandoned, FreeRoles, Claim,
           WriteBrief, StageFails, MarkStarting, AwaitWorker, AwaitEnds, EndLaunch, CleanUp, ClosePane, SpawnerDies
  <1>9. CASE WorkerStep(s)
    BY <1>3, <1>5, <1>7, <1>9
       DEF WorkerStep, WorkerAt, Ran, RegisterRole, StartupFails, LeaveStartError, CloseOwnPane, Leaves, SetRunning,
           LaunchAgent, AgentFailsToStart, AgentExited, TellEarlyExit, WorkerEnds
  <1>10. CASE DoneStep(s) \/ PaneCloses(s)
    <2>1. ASSUME NEW from, NEW to \in DoneAt, DoneGoes(s, from, to), UNCHANGED <<pane, worker, loaded>>
          PROVE  Goal
      BY <1>1, <2>1, DoneMoves
    <2> QED
      BY <1>3, <1>10, <2>1
         DEF DoneStep, DoneAt, Refuses, StartDone, QueueReport, MarkDone, DoneUnregisters, DoneCloses, DoneStops,
             PaneCloses, ClosePane
  <1> QED
    BY <1>2, <1>8, <1>9, <1>10 DEF Acts, SpawnFresh, Resume
LEMMA HistoriesGrow ==
  ASSUME SessionFits, NEW s \in Spawner, Acts(s)
  PROVE  /\ reported' \subseteq Spawner /\ informed' \subseteq Spawner /\ shared' \subseteq Record
         /\ late' \in BOOLEAN
         /\ reported \subseteq reported' /\ informed \subseteq informed' /\ shared \subseteq shared'
         /\ late => late'
  <1>1. /\ SessionTypeOK /\ reported \subseteq Spawner /\ informed \subseteq Spawner
        /\ shared \subseteq Record /\ late \in BOOLEAN
    BY DEF SessionFits, SessionTypeOK
  <1>2. CASE UNCHANGED histories
    BY <1>1, <1>2 DEF histories
  <1>3. CASE MarkVanished(s) \/ Claim(s)
    BY <1>1, <1>3, RolesAndRecords DEF MarkVanished, Claim, SpawnerGoes
  <1>4. CASE RecoverAbandoned(s)
    BY <1>1, <1>4 DEF RecoverAbandoned
  <1>5. CASE FreeRoles(s) \/ CleanUp(s) \/ DoneUnregisters(s)
    BY <1>1, <1>5, RolesFreed DEF FreeRoles, CleanUp, DoneUnregisters
  <1>6. CASE LeaveStartError(s)
    <2>1. RecordOf(s) \in Record
      BY <1>6, RolesAndRecords DEF LeaveStartError, WorkerGoes, Loaded
    <2> QED
      BY <1>1, <1>6, <2>1 DEF LeaveStartError
  <1>7. CASE TellEarlyExit(s) \/ QueueReport(s)
    BY <1>1, <1>7 DEF TellEarlyExit, QueueReport
  <1>8. CASE SpawnerStep(s) \/ SpawnerDies(s)
    BY <1>2, <1>3, <1>4, <1>5, <1>8
       DEF SpawnerStep, LookForPane, CheckResumable, WriteBrief, SplitPane, RunInPane, StageFails, MarkStarting,
           AwaitWorker, AwaitEnds, EndLaunch, SpawnerDies
  <1>9. CASE WorkerStep(s)
    BY <1>2, <1>6, <1>7, <1>9
       DEF WorkerStep, LoadBrief, RegisterRole, StartupFails, CloseOwnPane, SetRunning, LaunchAgent,
           AgentFailsToStart, AgentExited, WorkerEnds
  <1>10. CASE DoneStep(s) \/ PaneCloses(s)
    BY <1>2, <1>5, <1>7, <1>10 DEF DoneStep, StartDone, MarkDone, DoneCloses, DoneStops, PaneCloses
  <1> QED
    BY <1>2, <1>8, <1>9, <1>10 DEF Acts, SpawnFresh, Resume

LEMMA PanesStillFit ==
  ASSUME SessionFits, NEW s \in Spawner, Acts(s)
  PROVE  PanesFit'
  <1> DEFINE Fits(k) ==
         /\ pane[k] # "none" => spawner[k].at \in Claimed \ {"brief", "split"}
         /\ spawner[k].at \in {"run", "mark", "wait"} => pane[k] # "none"
         /\ worker[k] # "none" => pane[k] # "none" /\ spawner[k].at \in Claimed \ {"brief", "split", "run"}
         /\ spawner[k].at \in {"mark", "wait"} => worker[k] # "none"
         /\ doing[k] # "none" => worker[k] \in {"agent", "exited", "tell"}
         /\ doing[k] = "mark" => k \in reported
  <1>1. SessionTypeOK /\ Fits(s) /\ \A k \in Spawner : Fits(k)
    BY DEF SessionFits, PanesFit
  <1>2. SUFFICES Fits(s)'
    BY <1>1, SpawnersMove, PanesMove, HistoriesGrow DEF PanesFit
  <1> USE DEF Claimed, Spawning
  <1>3. ASSUME NEW from \in SpawnerAt, NEW to \in SpawnerAt, SpawnerGoes(s, from, to),
               UNCHANGED <<pane, worker, doing>>,
               to \in {"run", "mark", "wait"} => from = "mark",
               from \in Claimed \ {"brief", "split"} => to \in Claimed \ {"brief", "split", "run"}
        PROVE  Fits(s)'
    BY <1>1, <1>3, SpawnerMoves, HistoriesGrow
  <1>4. ASSUME NEW r \in Record, NEW o \in Role, SpawnFresh(s, r, o) \/ Resume(s, r, o) PROVE Fits(s)'
    BY <1>1, <1>4, SpawnBegins DEF inPane
  <1>5. CASE RecoverAbandoned(s) \/ FreeRoles(s)
    <2>1. UNCHANGED inPane
      BY <1>5 DEF RecoverAbandoned, FreeRoles
    <2> QED
      BY <1>1, <1>5, <2>1, RecoveryMoves DEF inPane
  <1>6. CASE SplitPane(s) \/ RunInPane(s)
    BY <1>1, <1>6, SpawnerMoves, WorkerMoves, HistoriesGrow DEF SplitPane, RunInPane, SpawnerAt, SessionTypeOK
  <1>7. CASE CleanUp(s)
    <2>1. spawner[s].at = "clean" /\ spawner'[s].at = "over"
      BY <1>1, <1>7, SpawnerMoves DEF CleanUp, SpawnerAt
    <2>2. CASE UNCHANGED inPane
      BY <1>1, <2>1, <2>2, HistoriesGrow DEF inPane
    <2>3. CASE pane[s] = "open" /\ ClosePane(s)
      BY <1>1, <2>1, <2>3, PaneClosed
    <2> QED
      BY <1>7, <2>2, <2>3 DEF CleanUp
  <1>8. ASSUME UNCHANGED spawner,
               \/ pane[s] # "none" /\ ClosePane(s)
               \/ \E from \in {"load", "close", "launch", "exited"} : Leaves(s, from)
        PROVE  Fits(s)'
    BY <1>1, <1>8, PaneClosed, WorkerLeft
  <1>9. ASSUME NEW from \in WorkerAt \ {"none"}, NEW to \in WorkerAt \ {"none"}, WorkerGoes(s, from, to),
               UNCHANGED <<spawner, pane, doing>>,
               from \in {"agent", "tell", "exited"} => to \in {"exited", "tell"}
        PROVE  Fits(s)'
    BY <1>1, <1>9, WorkerMoves, HistoriesGrow
  <1>10. ASSUME NEW from \in DoneAt, NEW to \in DoneAt, DoneGoes(s, from, to),
                UNCHANGED <<spawner, pane, worker>>,
                from = "none" => worker[s] = "agent", to = "mark" => s \in reported'
         PROVE  Fits(s)'
    BY <1>1, <1>10, DoneMoves
  <1>11. CASE SpawnerStep(s) \/ SpawnerDies(s)
    <2>1. CASE StageFails(s) \/ SpawnerDies(s)
      BY <1>3, <2>1 DEF StageFails, SpawnerDies, SpawnerAt, inPane
    <2>2. CASE LookForPane(s) \/ MarkVanished(s) \/ CheckResumable(s) \/ Claim(s)
      BY <1>3, <2>2 DEF LookForPane, MarkVanished, CheckResumable, Claim, SpawnerAt, inPane
    <2>3. CASE WriteBrief(s) \/ MarkStarting(s) \/ AwaitWorker(s) \/ AwaitEnds(s) \/ EndLaunch(s)
      BY <1>3, <2>3 DEF SpawnerAt, inPane, WriteBrief, MarkStarting, AwaitWorker, AwaitEnds, EndLaunch
    <2> QED
      BY <1>5, <1>6, <1>7, <1>11, <2>1, <2>2, <2>3 DEF SpawnerStep
  <1>12. CASE WorkerStep(s)
    <2>1. CASE LoadBrief(s)
      <3>1. \/ Leaves(s, "load") /\ UNCHANGED spawner
            \/ WorkerGoes(s, "load", "register") /\ UNCHANGED <<spawner, pane, doing>>
        BY <2>1 DEF LoadBrief
      <3> QED
        BY <1>8, <1>9, <3>1 DEF WorkerAt
    <2> QED
      BY <1>8, <1>9, <1>12, <2>1
         DEF WorkerStep, WorkerAt, Ran, RegisterRole, StartupFails, LeaveStartError, CloseOwnPane, SetRunning,
             LaunchAgent, AgentFailsToStart, AgentExited, TellEarlyExit, WorkerEnds
  <1>13. CASE DoneStep(s) \/ PaneCloses(s)
    <2>1. CASE DoneStops(s)
      BY <1>1, <1>10, <2>1 DEF DoneStops, DoneAt, SessionTypeOK
    <2>2. CASE DoneCloses(s) \/ PaneCloses(s)
      BY <1>1, <1>8, <2>2 DEF DoneCloses, PaneCloses
    <2>3. CASE QueueReport(s)
      BY <1>10, <2>3 DEF QueueReport, DoneAt, Refuses
    <2> QED
      BY <1>10, <1>13, <2>1, <2>2, <2>3
         DEF DoneStep, DoneAt, StartDone, MarkDone, DoneUnregisters
  <1> QED
    BY <1>4, <1>11, <1>12, <1>13 DEF Acts
\* A spawner that has claimed its record has it for good.
LEMMA ClaimsStay ==
  ASSUME SessionFits, NEW s \in Spawner, Acts(s), NEW k \in Spawner
  PROVE  /\ spawner[k].at \in Claimed => spawner'[k].at \in Claimed
         /\ spawner[k].at # "new" => /\ spawner'[k].at # "new"
                                     /\ spawner'[k].rec = spawner[k].rec
                                     /\ spawner'[k].role = spawner[k].role
  <1> DEFINE Goal == /\ spawner[s].at \in Claimed => spawner'[s].at \in Claimed
                     /\ spawner[s].at # "new" => /\ spawner'[s].at # "new"
                                                 /\ spawner'[s].rec = spawner[s].rec
                                                 /\ spawner'[s].role = spawner[s].role
  <1>1. SUFFICES Goal
    BY SpawnersMove
  <1>2. SessionTypeOK
    BY DEF SessionFits
  <1>3. CASE UNCHANGED spawner
    BY <1>3
  <1>4. ASSUME NEW from \in SpawnerAt \ {"new"}, NEW to \in SpawnerAt \ {"new"}, SpawnerGoes(s, from, to),
               from \in Claimed => to \in Claimed
        PROVE  Goal
    BY <1>2, <1>4, SpawnerMoves
  <1>5. CASE SpawnerStep(s) \/ SpawnerDies(s)
    <2> USE DEF Claimed, Spawning, SpawnerAt
    <2>1. CASE StageFails(s) \/ SpawnerDies(s)
      BY <1>4, <2>1 DEF StageFails, SpawnerDies
    <2>2. CASE RecoverAbandoned(s) \/ FreeRoles(s)
      BY <2>2, RecoveryMoves
    <2>3. CASE LookForPane(s) \/ MarkVanished(s) \/ CheckResumable(s) \/ Claim(s)
      BY <1>4, <2>3 DEF LookForPane, MarkVanished, CheckResumable, Claim
    <2> QED
      BY <1>4, <1>5, <2>1, <2>2, <2>3
         DEF SpawnerStep, WriteBrief, SplitPane, RunInPane, MarkStarting, AwaitWorker, AwaitEnds,
             EndLaunch, CleanUp
  <1>6. CASE WorkerStep(s) \/ DoneStep(s) \/ PaneCloses(s)
    BY <1>3, <1>6
       DEF WorkerStep, DoneStep, LoadBrief, RegisterRole, StartupFails, LeaveStartError,
           CloseOwnPane, SetRunning, LaunchAgent, AgentFailsToStart, AgentExited, TellEarlyExit, WorkerEnds,
           StartDone, QueueReport, MarkDone, DoneUnregisters, DoneCloses, DoneStops, PaneCloses
  <1> QED
    BY <1>5, <1>6, SpawnBegins DEF Acts, Claimed, Spawning

\* A worker that has registered its role does not go back.
LEMMA WorkersGoOn ==
  ASSUME SessionFits, NEW s \in Spawner, Acts(s), NEW k \in Spawner
  PROVE  /\ worker'[k] \in {"none", "load", "register", "error", "close"} =>
               worker[k] \in {"none", "load", "register", "error", "close"}
         /\ loaded[k] # NoSpawner => loaded'[k] = loaded[k]
         /\ worker'[k] \in {"none", "load"} => worker[k] \in {"none", "load"} /\ loaded'[k] = loaded[k]
         /\ worker'[k] \in Loaded => worker[k] \in Loaded \/ (worker[k] = "load" /\ loaded'[k] # NoSpawner)
  <1> DEFINE Goal ==
         /\ worker'[s] \in {"none", "load", "register", "error", "close"} =>
               worker[s] \in {"none", "load", "register", "error", "close"}
         /\ loaded[s] # NoSpawner => loaded'[s] = loaded[s]
         /\ worker'[s] \in {"none", "load"} => worker[s] \in {"none", "load"} /\ loaded'[s] = loaded[s]
         /\ worker'[s] \in Loaded => worker[s] \in Loaded \/ (worker[s] = "load" /\ loaded'[s] # NoSpawner)
  <1>1. SUFFICES Goal
    BY PanesMove DEF Loaded, SessionFits, BriefsFit
  <1> USE DEF Loaded
  <1>2. SessionTypeOK
    BY DEF SessionFits
  <1>3. ASSUME UNCHANGED <<worker, loaded>> PROVE Goal
    BY <1>3
  <1>4. ASSUME ClosePane(s) \/ \E from \in {"load", "close", "launch", "exited"} : Leaves(s, from)
        PROVE  Goal
    BY <1>2, <1>4, PaneClosed, WorkerLeft
  <1>5. ASSUME NEW from \in WorkerAt, NEW to \in WorkerAt, WorkerGoes(s, from, to), UNCHANGED loaded,
               (from = "none" /\ to = "load") \/ (from \in Loaded /\ to \in Loaded),
               to \in {"register", "error", "close"} => from \in {"register", "error", "close"}
        PROVE  Goal
    BY <1>2, <1>5, WorkerMoves
  <1>6. CASE LoadBrief(s)
    <2>1. CASE Leaves(s, "load")
      BY <1>4, <2>1
    <2>2. CASE ~Leaves(s, "load")
      <3> DEFINE b == brief[spawner[s].role]
      <3>1. WorkerGoes(s, "load", "register") /\ b # NoSpawner /\ loaded' = [loaded EXCEPT ![s] = b]
        BY <1>6, <2>2 DEF LoadBrief
      <3>2. worker[s] = "load" /\ worker'[s] = "register"
        BY <1>2, <3>1, WorkerMoves DEF WorkerAt
      <3>3. loaded'[s] = b /\ loaded[s] = NoSpawner
        BY <1>2, <3>1, <3>2 DEF SessionFits, BriefsFit, SessionTypeOK
      <3> QED
        BY <3>1, <3>2, <3>3
    <2> QED
      BY <2>1, <2>2
  <1>7. CASE CleanUp(s)
    BY <1>3, <1>4, <1>7 DEF CleanUp, inPane
  <1>8. CASE RunInPane(s)
    <2>1. worker[s] = "none"
      BY <1>8 DEF RunInPane, SpawnerGoes, SessionFits, PanesFit
    <2>2. worker'[s] = "load" /\ loaded' = loaded
      BY <1>2, <1>8 DEF RunInPane, SessionTypeOK
    <2> QED
      BY <2>1, <2>2
  <1>9. CASE SpawnerStep(s) \/ SpawnerDies(s)
    BY <1>3, <1>7, <1>8, <1>9
       DEF SpawnerStep, inPane, LookForPane, MarkVanished, CheckResumable, RecoverAbandoned, FreeRoles, Claim,
           WriteBrief, SplitPane, StageFails, MarkStarting, AwaitWorker, AwaitEnds, EndLaunch, SpawnerDies
  <1>10. CASE WorkerStep(s)
    <2> USE DEF WorkerAt, Ran
    <2>1. CASE RegisterRole(s) \/ StartupFails(s) \/ LeaveStartError(s) \/ SetRunning(s) \/ LaunchAgent(s)
      BY <1>5, <2>1 DEF RegisterRole, StartupFails, LeaveStartError, SetRunning, LaunchAgent
    <2>2. CASE AgentExited(s) \/ TellEarlyExit(s)
      BY <1>5, <2>2 DEF AgentExited, TellEarlyExit
    <2> QED
      BY <1>4, <1>6, <1>10, <2>1, <2>2
         DEF WorkerStep, CloseOwnPane, AgentFailsToStart, WorkerEnds
  <1>11. CASE DoneStep(s) \/ PaneCloses(s)
    BY <1>3, <1>4, <1>11
       DEF DoneStep, StartDone, QueueReport, MarkDone, DoneUnregisters, DoneCloses, DoneStops, PaneCloses
  <1> QED
    BY <1>3, <1>9, <1>10, <1>11, SpawnBegins DEF Acts, inPane
\* What a step can do to the mailbox.
LEMMA MailboxMoves ==
  ASSUME SessionFits, NEW s \in Spawner, Acts(s)
  PROVE  /\ roleId' \in [Role -> Spawner \cup {NoSpawner}] /\ brief' \in [Role -> Spawner \cup {NoSpawner}]
         /\ \A o \in Role : roleId'[o] \in {roleId[o], NoSpawner}
                               \/ (RegisterRole(s) /\ o = spawner[s].role /\ roleId'[o] = s)
         /\ \A o \in Role : brief'[o] \in {brief[o], NoSpawner}
                               \/ (WriteBrief(s) /\ o = spawner[s].role /\ brief'[o] = s)
  <1>1. /\ SessionTypeOK /\ roleId \in [Role -> Spawner \cup {NoSpawner}]
        /\ brief \in [Role -> Spawner \cup {NoSpawner}]
    BY DEF SessionFits, SessionTypeOK
  <1>2. CASE UNCHANGED mailbox
    BY <1>1, <1>2 DEF mailbox
  <1>3. CASE \E roles : Unregister(s, roles)
    BY <1>1, <1>3, RolesFreed
  <1>4. CASE RegisterRole(s)
    BY <1>1, <1>4 DEF RegisterRole
  <1>5. CASE WriteBrief(s)
    BY <1>1, <1>5 DEF WriteBrief
  <1>6. CASE SpawnerStep(s) \/ SpawnerDies(s)
    BY <1>2, <1>3, <1>5, <1>6
       DEF SpawnerStep, LookForPane, MarkVanished, CheckResumable, RecoverAbandoned, FreeRoles, Claim, SplitPane,
           RunInPane, StageFails, MarkStarting, AwaitWorker, AwaitEnds, EndLaunch, CleanUp, SpawnerDies
  <1>7. CASE WorkerStep(s)
    BY <1>2, <1>4, <1>7
       DEF WorkerStep, LoadBrief, StartupFails, LeaveStartError, CloseOwnPane, SetRunning, LaunchAgent,
           AgentFailsToStart, AgentExited, TellEarlyExit, WorkerEnds
  <1>8. CASE DoneStep(s) \/ PaneCloses(s)
    BY <1>2, <1>3, <1>8 DEF DoneStep, StartDone, QueueReport, MarkDone, DoneUnregisters, DoneCloses, DoneStops, PaneCloses
  <1> QED
    BY <1>2, <1>6, <1>7, <1>8, SpawnBegins DEF Acts

LEMMA ErrorsAreTyped ==
  ASSUME SessionFits, NEW s \in Spawner, Acts(s)
  PROVE  startError' \in [Record \cup Spawner -> SUBSET Spawner]
  <1>1. startError \in [Record \cup Spawner -> SUBSET Spawner]
    BY DEF SessionFits, SessionTypeOK
  <1>2. CASE UNCHANGED startError
    BY <1>1, <1>2
  <1>3. CASE AwaitWorker(s) \/ LoadBrief(s) \/ LeaveStartError(s)
    BY <1>1, <1>3 DEF AwaitWorker, LoadBrief, LeaveStartError
  <1>4. CASE SpawnerStep(s) \/ SpawnerDies(s)
    BY <1>2, <1>3, <1>4
       DEF SpawnerStep, LookForPane, MarkVanished, CheckResumable, RecoverAbandoned, FreeRoles, Claim, WriteBrief,
           SplitPane, RunInPane, StageFails, MarkStarting, AwaitEnds, EndLaunch, CleanUp, SpawnerDies
  <1>5. CASE WorkerStep(s) \/ DoneStep(s) \/ PaneCloses(s)
    BY <1>2, <1>3, <1>5
       DEF WorkerStep, RegisterRole, StartupFails, CloseOwnPane, SetRunning, LaunchAgent, AgentFailsToStart,
           AgentExited, TellEarlyExit, WorkerEnds, DoneStep, StartDone, QueueReport, MarkDone, DoneUnregisters,
           DoneCloses, DoneStops, PaneCloses
  <1> QED
    BY <1>2, <1>4, <1>5, SpawnBegins DEF Acts

LEMMA BriefLoaded ==
  ASSUME SessionFits, NEW s \in Spawner, Acts(s), NEW w \in Spawner, loaded'[w] # loaded[w]
  PROVE  w = s /\ worker[s] = "load" /\ loaded'[s] = brief[spawner[s].role] /\ spawner[s].role \in Role
  <1>1. w = s
    BY PanesMove
  <1>2. LoadBrief(s) /\ ~Leaves(s, "load")
    BY <1>1, SpawnBegins
       DEF Acts, SpawnerStep, inPane, LookForPane, MarkVanished, CheckResumable, RecoverAbandoned, FreeRoles,
           Claim, WriteBrief, SplitPane, RunInPane, StageFails, MarkStarting, AwaitWorker, AwaitEnds, EndLaunch,
           CleanUp, ClosePane, SpawnerDies, WorkerStep, Leaves, RegisterRole, StartupFails, LeaveStartError,
           CloseOwnPane, SetRunning, LaunchAgent, AgentFailsToStart, AgentExited, TellEarlyExit, WorkerEnds,
           DoneStep, StartDone, QueueReport, MarkDone, DoneUnregisters, DoneCloses, DoneStops, PaneCloses
  <1>3. loaded' = [loaded EXCEPT ![s] = brief[spawner[s].role]] /\ worker[s] = "load"
    BY <1>2 DEF LoadBrief
  <1>4. spawner[s].role \in Role
    BY <1>3, RolesAndRecords
  <1> QED
    BY <1>1, <1>3, <1>4 DEF SessionFits, SessionTypeOK

LEMMA MailboxStillFits ==
  ASSUME SessionFits, NEW s \in Spawner, Acts(s)
  PROVE  BriefsFit' /\ RolesFit'
  <1>1. BriefsFit /\ RolesFit /\ SessionTypeOK /\ NoSpawner \notin Spawner
    BY SessionAssumption DEF SessionFits
  <1>2. ASSUME NEW o \in Role, brief'[o] # NoSpawner PROVE spawner'[brief'[o]].at \in Claimed
    <2>1. CASE WriteBrief(s) /\ brief'[o] = s
      BY <1>1, <2>1, SpawnerMoves DEF WriteBrief, SpawnerAt, Spawning, Claimed
    <2>2. CASE brief'[o] = brief[o]
      BY <1>1, <1>2, <2>2, ClaimsStay DEF BriefsFit, SessionTypeOK
    <2> QED
      BY <1>2, <2>1, <2>2, MailboxMoves
  <1>3. ASSUME NEW w \in Spawner, loaded'[w] # NoSpawner PROVE spawner'[loaded'[w]].at \in Claimed
    <2>1. CASE loaded'[w] = loaded[w]
      BY <1>1, <1>3, <2>1, ClaimsStay DEF BriefsFit, SessionTypeOK
    <2>2. CASE loaded'[w] # loaded[w]
      <3>1. loaded'[w] = brief[spawner[s].role] /\ spawner[s].role \in Role
        BY <2>2, BriefLoaded
      <3> QED
        BY <1>1, <1>3, <3>1, ClaimsStay DEF BriefsFit, SessionTypeOK
    <2> QED
      BY <2>1, <2>2
  <1>4. ASSUME NEW w \in Spawner
        PROVE  /\ worker'[w] \in {"none", "load"} => loaded'[w] = NoSpawner
               /\ worker'[w] \in Loaded => loaded'[w] # NoSpawner
    BY <1>1, WorkersGoOn DEF BriefsFit
  <1>5. ASSUME NEW o \in Role, roleId'[o] # NoSpawner
        PROVE  worker'[roleId'[o]] \notin {"none", "load", "register", "error", "close"}
    <2>1. CASE RegisterRole(s) /\ roleId'[o] = s
      <3>1. WorkerGoes(s, "register", "set running") /\ "set running" \in WorkerAt
        BY <2>1 DEF RegisterRole, WorkerAt
      <3>2. worker'[s] = "set running"
        BY <1>1, <3>1, WorkerMoves
      <3> QED
        BY <2>1, <3>2
    <2>2. CASE roleId'[o] = roleId[o]
      BY <1>1, <1>5, <2>2, WorkersGoOn DEF RolesFit, SessionTypeOK
    <2> QED
      BY <1>5, <2>1, <2>2, MailboxMoves
  <1> QED
    BY <1>2, <1>3, <1>4, <1>5 DEF BriefsFit, RolesFit

LEMMA SessionStillFits == SessionFits /\ [SessionNext]_sessionVars => SessionFits'
  <1> SUFFICES ASSUME SessionFits, [SessionNext]_sessionVars PROVE SessionFits'
    OBVIOUS
  <1>1. CASE UNCHANGED sessionVars
    BY <1>1 DEF SessionFits, SessionTypeOK, KnowsItsRecord, PanesFit, BriefsFit, RolesFit, sessionVars, inPane,
                mailbox, histories
  <1>2. ASSUME NEW r \in Record, FiveMinutes(r), SessionNext PROVE SessionFits'
    <2>1. record' \in [Record -> RecordData]
      BY <1>2, RecordsAreTyped
    <2>2. UNCHANGED <<spawner, pane, worker, loaded, doing, roleId, brief, startError, reported, informed, late, shared>>
      BY <1>2 DEF FiveMinutes, inPane, mailbox, histories
    <2>3. SessionTypeOK'
      BY <2>1, <2>2 DEF SessionFits, SessionTypeOK
    <2> QED
      BY <2>2, <2>3 DEF SessionFits, KnowsItsRecord, PanesFit, BriefsFit, RolesFit
  <1>3. ASSUME NEW s \in Spawner, Acts(s), SessionNext PROVE SessionFits'
    <2>1. SessionTypeOK'
      <3>1. \A k \in Spawner : worker'[k] \notin {"none", "killed", "left"} => pane'[k] = "open"
        BY <1>3, PanesMove DEF SessionFits, SessionTypeOK
      <3> QED
        BY <1>3, <3>1, RecordsAreTyped, SpawnersMove, PanesMove, MailboxMoves, ErrorsAreTyped, HistoriesGrow
           DEF SessionTypeOK
    <2> QED
      BY <1>3, <2>1, SpawnersMove, PanesStillFit, MailboxStillFits DEF SessionFits
  <1> QED
    BY <1>1, <1>2, <1>3 DEF SessionNext, Acts

LEMMA SessionStarts == SessionInit => SessionFits
  <1> SUFFICES ASSUME SessionInit PROVE SessionFits
    OBVIOUS
  <1>1. record \in [Record -> RecordData]
    <2>1. NoState \in RecordData
      BY DEF NoState, RecordData
    <2> QED
      BY <2>1 DEF SessionInit
  <1>2. spawner \in [Spawner -> SpawnerData] /\ KnowsItsRecord
    <2> DEFINE v == [at |-> "new", rec |-> NoRecord, role |-> "none", resumes |-> FALSE, frees |-> {}]
    <2>1. v \in SpawnerData /\ v.at = "new" /\ v.rec = NoRecord
      BY DEF SpawnerData, SpawnerAt
    <2>2. spawner = [s \in Spawner |-> v]
      BY DEF SessionInit
    <2> HIDE DEF v
    <2> QED
      BY <2>1, <2>2 DEF KnowsItsRecord
  <1>3. SessionTypeOK
    BY <1>1, <1>2 DEF SessionInit, SessionTypeOK, WorkerAt, DoneAt
  <1>4. PanesFit /\ BriefsFit /\ RolesFit
    <2>1. \A s \in Spawner : spawner[s].at = "new"
      BY DEF SessionInit
    <2> QED
      BY <2>1 DEF SessionInit, PanesFit, BriefsFit, RolesFit, Loaded
  <1> QED
    BY <1>2, <1>3, <1>4 DEF SessionFits
-----------------------------------------------------------------------------
(***************************************************************************)
(* Who uses a record.                                                      *)
(***************************************************************************)
Claims(s) == Claim(s) /\ ~RoleTaken(spawner[s].role)

\* Only a claim makes a user.
LEMMA ClaimMakesUser ==
  ASSUME SessionFits, NEW s \in Spawner, Acts(s), Uses(s)'
  PROVE  Uses(s) \/ Claims(s)
  <1>1. SessionTypeOK
    BY DEF SessionFits
  <1>2. CASE UNCHANGED <<spawner, pane>>
    BY <1>2 DEF Uses
  <1>3. CASE spawner[s].at \in Spawning
    BY <1>3 DEF Uses
  <1>4. ASSUME NEW from \in SpawnerAt, NEW to \in SpawnerAt \ Spawning, SpawnerGoes(s, from, to), UNCHANGED pane
        PROVE  Uses(s)
    BY <1>1, <1>4, SpawnerMoves DEF Uses
  <1>5. CASE pane[s] = "open"
    BY <1>5 DEF Uses
  <1>6. CASE LookForPane(s) \/ MarkVanished(s) \/ CheckResumable(s)
    BY <1>4, <1>6 DEF LookForPane, MarkVanished, CheckResumable, SpawnerAt, Spawning, inPane
  <1>7. CASE Claim(s) /\ RoleTaken(spawner[s].role)
    BY <1>4, <1>7 DEF Claim, SpawnerAt, Spawning, inPane
  <1>8. CASE RecoverAbandoned(s) \/ FreeRoles(s)
    <2>1. UNCHANGED pane
      BY <1>8 DEF RecoverAbandoned, FreeRoles, inPane
    <2> QED
      BY <1>8, <2>1, RecoveryMoves DEF Uses, Spawning
  <1>9. CASE SpawnerStep(s) \/ SpawnerDies(s)
    BY <1>3, <1>6, <1>7, <1>8, <1>9
       DEF SpawnerStep, Claims, WriteBrief, SplitPane, RunInPane, StageFails, MarkStarting, AwaitWorker, AwaitEnds,
           EndLaunch, CleanUp, SpawnerDies, SpawnerGoes, Spawning
  <1>10. CASE WorkerStep(s) \/ DoneStep(s) \/ PaneCloses(s)
    <2>1. pane[s] = "open" \/ pane'[s] = pane[s]
      <3>1. ASSUME pane[s] # "open" PROVE worker[s] \in {"none", "killed", "left"} /\ doing[s] = "none"
        BY <3>1 DEF SessionFits, SessionTypeOK, PanesFit
      <3> QED
        BY <1>10, <3>1
           DEF WorkerStep, DoneStep, LoadBrief, RegisterRole, StartupFails, LeaveStartError, CloseOwnPane, Leaves,
               SetRunning, LaunchAgent, AgentFailsToStart, AgentExited, TellEarlyExit, WorkerEnds, WorkerGoes,
               StartDone, QueueReport, MarkDone, DoneUnregisters, DoneCloses, DoneStops, DoneGoes, PaneCloses
    <2>2. UNCHANGED spawner
      BY <1>10
         DEF WorkerStep, DoneStep, LoadBrief, RegisterRole, StartupFails, LeaveStartError,
             CloseOwnPane, SetRunning, LaunchAgent, AgentFailsToStart, AgentExited, TellEarlyExit, WorkerEnds,
             StartDone, QueueReport, MarkDone, DoneUnregisters, DoneCloses, DoneStops, PaneCloses
    <2> QED
      BY <2>1, <2>2 DEF Uses
  <1>11. ASSUME NEW r \in Record, NEW o \in Role, SpawnFresh(s, r, o) \/ Resume(s, r, o) PROVE Uses(s)
    BY <1>11, SpawnBegins DEF Uses, Spawning, inPane
  <1> QED
    BY <1>9, <1>10, <1>11 DEF Acts

LEMMA OneUserStays == SessionFits /\ OneUser /\ [SessionNext]_sessionVars => OneUser'
  <1> SUFFICES ASSUME SessionFits, OneUser, [SessionNext]_sessionVars PROVE OneUser'
    OBVIOUS
  <1>1. CASE UNCHANGED <<spawner, pane, shared>>
    BY <1>1 DEF OneUser, Uses
  <1>2. ASSUME NEW s \in Spawner, Acts(s) PROVE OneUser'
    <2>1. \A k \in Spawner : Uses(k) => spawner'[k].rec = spawner[k].rec
      BY <1>2, ClaimsStay DEF Uses, Spawning, SessionFits, PanesFit, Claimed
    <2>2. \A k \in Spawner \ {s} : Uses(k)' => Uses(k)
      BY <1>2, SpawnersMove, PanesMove DEF Uses
    <2>3. ASSUME NEW k \in Spawner \ {s}, Uses(s)', Uses(k)', spawner'[s].rec = spawner'[k].rec
          PROVE  spawner'[s].rec \in shared'
      <3>1. CASE Uses(s)
        BY <1>2, <2>1, <2>2, <2>3, <3>1, HistoriesGrow DEF OneUser
      <3>2. CASE Claims(s)
        <4>1. spawner'[s].rec = spawner[s].rec /\ spawner[k].rec = spawner[s].rec
          BY <1>2, <2>1, <2>2, <2>3, <3>2, ClaimsStay DEF Claims, Claim
        <4>2. spawner[k].at \in Spawning \/ pane[k] = "open"
          BY <2>2, <2>3 DEF Uses
        <4> QED
          BY <3>2, <4>1, <4>2 DEF Claims, Claim
      <3> QED
        BY <1>2, <2>3, <3>1, <3>2, ClaimMakesUser
    <2>4. ASSUME NEW a \in Spawner \ {s}, NEW b \in Spawner \ {s}, a # b, Uses(a)', Uses(b)',
                 spawner'[a].rec = spawner'[b].rec
          PROVE  spawner'[a].rec \in shared'
      BY <1>2, <2>1, <2>2, <2>4, HistoriesGrow DEF OneUser
    <2> QED
      BY <2>3, <2>4 DEF OneUser
  <1>3. ASSUME NEW r \in Record, FiveMinutes(r) PROVE UNCHANGED <<spawner, pane, shared>>
    BY <1>3 DEF FiveMinutes, inPane, histories
  <1> QED
    BY <1>1, <1>2, <1>3 DEF SessionNext, Acts, sessionVars, inPane, histories
-----------------------------------------------------------------------------
(***************************************************************************)
(* Who writes a record.                                                    *)
(***************************************************************************)
LEMMA RecordWriters ==
  ASSUME SessionFits, NEW s \in Spawner, Acts(s), NEW r \in Record, record'[r] # record[r]
  PROVE  \/ r = spawner[s].rec /\ (MarkVanished(s) \/ Claims(s) \/ MarkStarting(s) \/ EndLaunch(s))
         \/ r \in Abandoned /\ RecoverAbandoned(s)
         \/ r = RecordOf(s) /\ worker[s] \in Loaded /\ (WorkerStep(s) \/ DoneStep(s))
  <1>1. record \in [Record -> RecordData] /\ SessionTypeOK
    BY DEF SessionFits, SessionTypeOK
  <1>2. CASE SpawnerStep(s) \/ SpawnerDies(s)
    <2>1. CASE MarkVanished(s) \/ EndLaunch(s)
      BY <1>1, <2>1 DEF MarkVanished, EndLaunch, Writes
    <2>2. CASE RecoverAbandoned(s)
      BY <1>1, <2>2 DEF RecoverAbandoned
    <2>3. CASE Claim(s)
      BY <1>1, <2>3 DEF Claim, Claims
    <2>4. CASE MarkStarting(s)
      BY <1>1, <2>4 DEF MarkStarting
    <2> QED
      BY <1>2, <2>1, <2>2, <2>3, <2>4
         DEF SpawnerStep, LookForPane, CheckResumable, FreeRoles, WriteBrief, SplitPane, RunInPane,
             StageFails, AwaitWorker, AwaitEnds, CleanUp, SpawnerDies
  <1>3. CASE WorkerStep(s) \/ DoneStep(s)
    <2>1. CASE StartupFails(s) \/ SetRunning(s) \/ AgentFailsToStart(s) \/ AgentExited(s)
      <3>1. worker[s] \in Loaded
        BY <2>1 DEF StartupFails, SetRunning, AgentFailsToStart, AgentExited, WorkerGoes, Leaves, Loaded
      <3>2. record' = record \/ \E state : Writes(RecordOf(s), state)
        BY <2>1 DEF StartupFails, SetRunning, AgentFailsToStart, AgentExited, RecordExit
      <3>3. r = RecordOf(s)
        BY <1>1, <3>2 DEF Writes
      <3> QED
        BY <1>3, <3>1, <3>3
    <2>2. CASE MarkDone(s)
      <3>1. worker[s] \in Loaded
        BY <2>2, RolesAndRecords DEF MarkDone, DoneGoes
      <3> DEFINE v == [record[RecordOf(s)] EXCEPT !.summed = TRUE, !.old = FALSE,
                         !.state = IF record[RecordOf(s)].state \in EndedAs THEN record[RecordOf(s)].state ELSE "done"]
      <3>2. record' = [record EXCEPT ![RecordOf(s)] = v]
        BY <2>2 DEF MarkDone
      <3> HIDE DEF v
      <3>3. r = RecordOf(s)
        BY <1>1, <3>2
      <3> QED
        BY <1>3, <3>1, <3>3
    <2> QED
      BY <1>3, <2>1, <2>2
         DEF WorkerStep, DoneStep, LoadBrief, RegisterRole, LeaveStartError, CloseOwnPane, LaunchAgent,
             TellEarlyExit, WorkerEnds, StartDone, QueueReport, DoneUnregisters, DoneCloses, DoneStops
  <1>4. CASE PaneCloses(s)
    BY <1>4 DEF PaneCloses
  <1> QED
    BY <1>2, <1>3, <1>4, SpawnBegins DEF Acts

\* A worker that has its own brief uses the record of its spawner.
LEMMA WorkersUse ==
  ASSUME SessionFits, OwnBriefs, NEW s \in Spawner, worker[s] \in Loaded
  PROVE  loaded[s] = s /\ RecordOf(s) = spawner[s].rec /\ pane[s] = "open" /\ Uses(s)
  <1>1. loaded[s] = s
    BY DEF SessionFits, BriefsFit, OwnBriefs
  <1>2. pane[s] = "open"
    BY DEF SessionFits, SessionTypeOK, Loaded
  <1> QED
    BY <1>1, <1>2 DEF RecordOf, Uses

\* What others can do to the record of one that uses it alone.
LEMMA OthersLeaveRecord ==
  ASSUME SessionFits, OneUser, OwnBriefs, NEW s \in Spawner, Acts(s),
         NEW k \in Spawner \ {s}, Uses(k), spawner[k].rec \notin shared'
  PROVE  LET r == spawner[k].rec
         IN  \/ record'[r] = record[r]
             \/ /\ RecoverAbandoned(s) /\ r \in Abandoned
                /\ record'[r] = [record[r] EXCEPT !.state = "launch failed", !.old = FALSE]
             \/ /\ MarkVanished(s) /\ r = spawner[s].rec /\ PaneIsGone(r) /\ Working(r)
                /\ record'[r] = [record[r] EXCEPT !.state = "failed", !.old = FALSE]
  <1> DEFINE r == spawner[k].rec
  <1>1. r \in Record /\ r \notin shared
    BY RolesAndRecords, HistoriesGrow DEF Uses, Spawning, SessionFits, PanesFit, Claimed
  <1>2. record \in [Record -> RecordData]
    BY DEF SessionFits, SessionTypeOK
  <1>3. ASSUME spawner[s].rec = r PROVE ~Uses(s)
    BY <1>1, <1>3 DEF OneUser
  <1>4. CASE record'[r] = record[r]
    BY <1>4
  <1>5. CASE RecoverAbandoned(s) /\ r \in Abandoned
    BY <1>1, <1>5 DEF RecoverAbandoned
  <1>6. CASE MarkVanished(s) /\ r = spawner[s].rec
    <2>1. PaneIsGone(r)
      BY <1>6 DEF MarkVanished
    <2> QED
      BY <1>1, <1>2, <1>4, <1>6, <2>1 DEF MarkVanished, Writes
  <1>7. CASE Claims(s) /\ r = spawner[s].rec
    BY <1>7 DEF Claims, Claim, Uses
  <1>8. CASE (MarkStarting(s) \/ EndLaunch(s)) /\ r = spawner[s].rec
    BY <1>3, <1>8 DEF MarkStarting, EndLaunch, SpawnerGoes, Uses, Spawning
  <1>9. CASE r = RecordOf(s) /\ worker[s] \in Loaded
    BY <1>3, <1>9, WorkersUse
  <1> QED
    BY <1>1, <1>4, <1>5, <1>6, <1>7, <1>8, <1>9, RecordWriters
-----------------------------------------------------------------------------
(***************************************************************************)
(* Two spawners do not have one role.                                      *)
(***************************************************************************)
LEMMA PlacesBegin ==
  ASSUME SessionFits, NEW s \in Spawner, Acts(s)
  PROVE  /\ spawner'[s].at \in {"brief", "split", "run"} =>
               \/ spawner'[s].at = spawner[s].at
               \/ spawner'[s].at = "brief" /\ Claims(s)
               \/ spawner'[s].at = "split" /\ WriteBrief(s)
               \/ spawner'[s].at = "run" /\ SplitPane(s)
         /\ worker'[s] = "load" => worker[s] = "load" \/ RunInPane(s)
  <1>1. SessionTypeOK
    BY DEF SessionFits
  <1>2. ASSUME worker'[s] = "load" PROVE worker[s] = "load" \/ RunInPane(s)
    <2>1. ASSUME NEW from \in WorkerAt, NEW to \in WorkerAt \ {"load"}, WorkerGoes(s, from, to)
          PROVE  FALSE
      BY <1>1, <1>2, <2>1, WorkerMoves
    <2>2. ASSUME ClosePane(s) \/ \E from \in {"load", "close", "launch", "exited"} : Leaves(s, from)
          PROVE  worker[s] = "load"
      BY <1>1, <1>2, <2>2, PaneClosed, WorkerLeft
    <2>3. CASE UNCHANGED worker
      BY <1>2, <2>3
    <2>4. CASE SpawnerStep(s) \/ SpawnerDies(s)
      BY <2>2, <2>3, <2>4
         DEF SpawnerStep, inPane, LookForPane, MarkVanished, CheckResumable, RecoverAbandoned, FreeRoles,
             Claim, WriteBrief, SplitPane, StageFails, MarkStarting, AwaitWorker, AwaitEnds, EndLaunch, CleanUp,
             SpawnerDies
    <2>5. CASE WorkerStep(s)
      <3>1. CASE LoadBrief(s)
        BY <3>1 DEF LoadBrief, WorkerGoes, Leaves
      <3>2. CASE AgentExited(s)
        BY <2>1, <3>2 DEF AgentExited, WorkerAt, Ran
      <3> QED
        BY <2>1, <2>2, <2>5, <3>1, <3>2
           DEF WorkerStep, WorkerAt, Ran, RegisterRole, StartupFails, LeaveStartError, CloseOwnPane, SetRunning,
               LaunchAgent, AgentFailsToStart, TellEarlyExit, WorkerEnds
    <2>6. CASE DoneStep(s) \/ PaneCloses(s)
      BY <2>2, <2>3, <2>6
         DEF DoneStep, StartDone, QueueReport, MarkDone, DoneUnregisters, DoneCloses, DoneStops, PaneCloses
    <2> QED
      BY <2>3, <2>4, <2>5, <2>6, SpawnBegins DEF Acts, inPane
  <1>3. ASSUME spawner'[s].at \in {"brief", "split", "run"}, spawner'[s].at # spawner[s].at
        PROVE  \/ spawner'[s].at = "brief" /\ Claims(s)
               \/ spawner'[s].at = "split" /\ WriteBrief(s)
               \/ spawner'[s].at = "run" /\ SplitPane(s)
    <2>1. ASSUME NEW from \in SpawnerAt, NEW to \in SpawnerAt \ {"brief", "split", "run"}, SpawnerGoes(s, from, to)
          PROVE  FALSE
      BY <1>1, <1>3, <2>1, SpawnerMoves
    <2>2. ASSUME NEW from \in SpawnerAt, NEW to \in SpawnerAt, SpawnerGoes(s, from, to)
          PROVE  spawner'[s].at = to
      BY <1>1, <2>2, SpawnerMoves
    <2>3. CASE LookForPane(s) \/ MarkVanished(s) \/ CheckResumable(s) \/ (Claim(s) /\ RoleTaken(spawner[s].role))
      BY <2>1, <2>3 DEF LookForPane, MarkVanished, CheckResumable, Claim, SpawnerAt
    <2>4. CASE StageFails(s) \/ SpawnerDies(s)
      BY <2>1, <2>4 DEF StageFails, SpawnerDies, SpawnerAt, Spawning
    <2>5. CASE RunInPane(s) \/ MarkStarting(s) \/ AwaitWorker(s) \/ AwaitEnds(s) \/ EndLaunch(s) \/ CleanUp(s)
      BY <2>1, <2>5 DEF RunInPane, MarkStarting, AwaitWorker, AwaitEnds, EndLaunch, CleanUp, SpawnerAt, Spawning
    <2>6. CASE RecoverAbandoned(s) \/ FreeRoles(s)
      BY <1>3, <2>6, RecoveryMoves
    <2>7. CASE Claims(s) \/ WriteBrief(s) \/ SplitPane(s)
      BY <2>2, <2>7 DEF Claims, Claim, WriteBrief, SplitPane, SpawnerAt, Spawning
    <2>8. CASE WorkerStep(s) \/ DoneStep(s) \/ PaneCloses(s)
      BY <1>3, <2>8
         DEF WorkerStep, DoneStep, LoadBrief, RegisterRole, StartupFails, LeaveStartError,
             CloseOwnPane, SetRunning, LaunchAgent, AgentFailsToStart, AgentExited, TellEarlyExit, WorkerEnds,
             StartDone, QueueReport, MarkDone, DoneUnregisters, DoneCloses, DoneStops, PaneCloses
    <2> QED
      BY <1>3, <2>3, <2>4, <2>5, <2>6, <2>7, <2>8, SpawnBegins DEF Acts, SpawnerStep, Claims
  <1> QED
    BY <1>2, <1>3

LEMMA ClaimMakesWaiter ==
  ASSUME SessionFits, NEW s \in Spawner, Acts(s), Awaits(s)'
  PROVE  Awaits(s) \/ Claims(s)
  BY PlacesBegin DEF Awaits, WriteBrief, SplitPane, RunInPane, SpawnerGoes

\* A brief is lost, or replaced, only by one that gives its writer up or has its role.
LEMMA BriefsLost ==
  ASSUME SessionFits, NEW s \in Spawner, Acts(s), NEW k \in Spawner, Awaits(k)',
         brief'[spawner[k].role] # brief[spawner[k].role]
  PROVE  late' \/ WriteBrief(s)
  <1>1. CASE UNCHANGED mailbox
    BY <1>1 DEF mailbox
  <1>2. SessionTypeOK
    BY DEF SessionFits
  <1>3. ASSUME NEW roles, Unregister(s, roles), k # s PROVE late'
    <2>1. Awaits(k)
      BY <1>3, SpawnersMove, PanesMove DEF Awaits
    <2>2. spawner[k].role \in Role
      BY <2>1, RolesAndRecords DEF Awaits
    <2>3. spawner[k].role \in roles
      BY <1>2, <1>3, <2>2, RolesFreed
    <2> QED
      BY <1>2, <1>3, <2>1, <2>3, RolesFreed
  <1>4. CASE k = s /\ FreeRoles(s)
    <2>1. spawner[s].at = "free" /\ spawner'[s].at \in {"claim", "free"} /\ worker'[s] = worker[s]
      BY <1>4, RecoveryMoves DEF FreeRoles, inPane
    <2> QED
      BY <1>4, <2>1 DEF Awaits, SessionFits, PanesFit, Claimed, Spawning
  <1>5. CASE k = s /\ CleanUp(s)
    <2>1. spawner'[s].at = "over"
      BY <1>2, <1>5, SpawnerMoves DEF CleanUp, SpawnerAt
    <2>2. worker'[s] # "load"
      <3>1. CASE pane[s] = "open"
        BY <1>2, <1>5, <3>1, PaneClosed DEF CleanUp
      <3>2. CASE pane[s] # "open"
        BY <1>2, <1>5, <3>2 DEF CleanUp, inPane, SessionTypeOK
      <3> QED
        BY <3>1, <3>2
    <2> QED
      BY <1>5, <2>1, <2>2 DEF Awaits
  <1>6. CASE k = s /\ DoneUnregisters(s)
    <2>1. worker'[s] = worker[s] /\ spawner' = spawner /\ worker[s] \in {"agent", "exited", "tell"}
      BY <1>6 DEF DoneUnregisters, DoneGoes, SessionFits, PanesFit
    <2> QED
      BY <1>6, <2>1 DEF Awaits, SessionFits, PanesFit
  <1>7. CASE SpawnerStep(s) \/ SpawnerDies(s)
    BY <1>1, <1>3, <1>4, <1>5, <1>7
       DEF SpawnerStep, LookForPane, MarkVanished, CheckResumable, RecoverAbandoned, FreeRoles, Claim, SplitPane,
           RunInPane, StageFails, MarkStarting, AwaitWorker, AwaitEnds, EndLaunch, CleanUp, SpawnerDies
  <1>8. CASE WorkerStep(s)
    BY <1>1, <1>8
       DEF WorkerStep, LoadBrief, RegisterRole, StartupFails, LeaveStartError, CloseOwnPane, SetRunning, LaunchAgent,
           AgentFailsToStart, AgentExited, TellEarlyExit, WorkerEnds
  <1>9. CASE DoneStep(s) \/ PaneCloses(s)
    BY <1>1, <1>3, <1>6, <1>9
       DEF DoneStep, StartDone, QueueReport, MarkDone, DoneUnregisters, DoneCloses, DoneStops, PaneCloses
  <1> QED
    BY <1>1, <1>7, <1>8, <1>9, SpawnBegins DEF Acts

LEMMA RolesStayApart ==
  ASSUME SessionInv, NEW s \in Spawner, Acts(s)
  PROVE  RolesAreApart'
  <1> SUFFICES ASSUME ~late', shared' = {} PROVE RolesAreApart'
    BY DEF RolesAreApart
  <1>1. SessionFits /\ OneUser /\ RecordsFit /\ SessionTypeOK /\ NoSpawner \notin Spawner
    BY SessionAssumption DEF SessionInv, SessionFits
  <1>2. ~late /\ shared = {}
    BY <1>1, HistoriesGrow
  <1>3. OwnBriefs
    BY <1>2 DEF SessionInv, RolesAreApart
  <1>4. ASSUME NEW k \in Spawner
        PROVE  /\ spawner[k].at = "brief" => /\ record[spawner[k].rec].state = "planned"
                                             /\ record[spawner[k].rec].role = spawner[k].role
               /\ spawner[k].at \in {"split", "run"} \/ worker[k] = "load" => brief[spawner[k].role] = k
    BY <1>2 DEF SessionInv, RolesAreApart
  <1>5. ASSUME NEW a \in Spawner, NEW b \in Spawner, Awaits(a), Awaits(b), spawner[a].role = spawner[b].role
        PROVE  a = b
    BY <1>2, <1>5 DEF SessionInv, RolesAreApart
  <1>6. ASSUME NEW k \in Spawner, Awaits(k)
        PROVE  spawner'[k].role = spawner[k].role /\ spawner'[k].rec = spawner[k].rec
                  /\ spawner[k].role \in Role /\ spawner[k].rec \in Record
    <2>1. spawner[k].at # "new"
      BY <1>1, <1>6, RolesAndRecords DEF Awaits
    <2> QED
      BY <1>1, <2>1, ClaimsStay, RolesAndRecords
  <1>7. OwnBriefs'
    BY <1>1, <1>3, <1>4, BriefLoaded DEF OwnBriefs
  <1>8. ASSUME NEW k \in Spawner, spawner'[k].at = "brief"
        PROVE  /\ record'[spawner'[k].rec].state = "planned"
               /\ record'[spawner'[k].rec].role = spawner'[k].role
    <2>1. CASE spawner[k].at = "brief"
      <3>1. record[spawner[k].rec].state = "planned" /\ record[spawner[k].rec].role = spawner[k].role
        BY <1>4, <2>1
      <3>2. spawner'[k].role = spawner[k].role /\ spawner'[k].rec = spawner[k].rec /\ spawner[k].rec \in Record
        BY <1>6, <2>1 DEF Awaits
      <3>3. worker[k] = "none"
        BY <1>1, <2>1 DEF SessionFits, PanesFit
      <3>4. record[spawner[k].rec].pane = NoSpawner /\ Uses(k)
        BY <1>1, <1>2, <1>3, <2>1 DEF RecordsFit, Ladder, Alone, Uses, Spawning
      <3>5. record'[spawner[k].rec] = record[spawner[k].rec]
        <4>1. CASE k = s
          BY <1>1, <2>1, <3>2, <3>3, <4>1, RecordWriters
             DEF MarkVanished, Claims, Claim, MarkStarting, EndLaunch, RecoverAbandoned, SpawnerGoes, Loaded
        <4>2. CASE k # s
          <5>1. ~(RecoverAbandoned(s) /\ spawner[k].rec \in Abandoned)
            BY <2>1 DEF RecoverAbandoned, AtWork, Spawning
          <5>2. ~PaneIsGone(spawner[k].rec)
            BY <3>4 DEF PaneIsGone
          <5> QED
            BY <1>1, <1>3, <3>4, <4>2, <5>1, <5>2, OthersLeaveRecord
        <4> QED
          BY <4>1, <4>2
      <3> QED
        BY <3>1, <3>2, <3>5
    <2>2. CASE k = s /\ Claims(s)
      <3>1. spawner[s].at # "new" /\ spawner[s].at = "claim"
        BY <2>2 DEF Claims, Claim
      <3>2. spawner[s].rec \in Record /\ spawner'[s].rec = spawner[s].rec /\ spawner'[s].role = spawner[s].role
        BY <1>1, <3>1, RolesAndRecords, ClaimsStay
      <3>3. record'[spawner[s].rec] = [NoState EXCEPT !.state = "planned", !.role = spawner[s].role]
        BY <1>1, <2>2, <3>2 DEF Claims, Claim, SessionTypeOK
      <3> QED
        BY <2>2, <3>2, <3>3 DEF NoState
    <2>3. k = s \/ spawner'[k] = spawner[k]
      BY <1>1, SpawnersMove
    <2> QED
      BY <1>1, <1>8, <2>1, <2>2, <2>3, PlacesBegin
  <1>9. ASSUME NEW k \in Spawner, spawner'[k].at \in {"split", "run"} \/ worker'[k] = "load"
        PROVE  brief'[spawner'[k].role] = k
    <2>1. CASE k = s /\ WriteBrief(s)
      <3>1. spawner[s].at = "brief"
        BY <2>1 DEF WriteBrief, SpawnerGoes
      <3>2. spawner'[s].role = spawner[s].role /\ spawner[s].role \in Role
        BY <1>6, <3>1 DEF Awaits
      <3> QED
        BY <1>1, <2>1, <3>2 DEF WriteBrief, SessionTypeOK
    <2>2. CASE ~(k = s /\ WriteBrief(s))
      <3>1. spawner[k].at \in {"split", "run"} \/ worker[k] = "load"
        <4>1. CASE k = s
          BY <1>1, <1>9, <2>2, <4>1, PlacesBegin DEF SplitPane, RunInPane, SpawnerGoes
        <4>2. CASE k # s
          BY <1>1, <1>9, <4>2, SpawnersMove, PanesMove
        <4> QED
          BY <4>1, <4>2
      <3>2. Awaits(k) /\ Awaits(k)' /\ brief[spawner[k].role] = k
        BY <1>4, <1>9, <3>1 DEF Awaits
      <3>3. spawner'[k].role = spawner[k].role /\ spawner[k].role \in Role
        BY <1>6, <3>2
      <3>4. ASSUME brief'[spawner[k].role] # brief[spawner[k].role] PROVE FALSE
        <4>1. WriteBrief(s) /\ k # s
          BY <1>1, <2>2, <3>2, <3>4, BriefsLost
        <4>2. Awaits(s) /\ spawner[s].role # spawner[k].role
          BY <1>5, <3>2, <4>1 DEF Awaits, WriteBrief, SpawnerGoes
        <4> QED
          BY <1>1, <3>3, <3>4, <4>1, <4>2 DEF WriteBrief, SessionTypeOK
      <3> QED
        BY <3>2, <3>3, <3>4
    <2> QED
      BY <2>1, <2>2
  <1>10. ASSUME NEW a \in Spawner \ {s}, NEW b \in Spawner, Awaits(a)', Awaits(b)',
                spawner'[a].role = spawner'[b].role
         PROVE  a = b
    <2>1. Awaits(a) /\ spawner'[a].role = spawner[a].role
      BY <1>1, <1>6, <1>10, SpawnersMove, PanesMove DEF Awaits
    <2>2. CASE Awaits(b)
      BY <1>5, <1>6, <1>10, <2>1, <2>2
    <2>3. CASE ~Awaits(b)
      <3>1. b = s /\ Claims(s)
        BY <1>1, <1>10, <2>3, SpawnersMove, PanesMove, ClaimMakesWaiter DEF Awaits
      <3>2. spawner'[s].role = spawner[s].role
        BY <1>1, <3>1, ClaimsStay DEF Claims, Claim
      <3>3. ~RoleTaken(spawner[a].role)
        BY <1>10, <2>1, <3>1, <3>2 DEF Claims
      <3>4. spawner[a].rec \in Record
        BY <1>6, <2>1
      <3> QED
        BY <1>1, <1>4, <2>1, <3>3, <3>4 DEF RoleTaken, Awaits
    <2> QED
      BY <2>2, <2>3
  <1> QED
    BY <1>7, <1>8, <1>9, <1>10 DEF RolesAreApart
-----------------------------------------------------------------------------
(***************************************************************************)
(* How far a record is: the steps of those that use it alone.              *)
(***************************************************************************)
LEMMA LadderOfClaim ==
  ASSUME SessionFits, NEW s \in Spawner, Claims(s), ~Uses(s)
  PROVE  Ladder(s)'
  <1>1. spawner[s].at = "claim" /\ spawner[s].rec \in Record /\ SessionTypeOK
    BY RolesAndRecords DEF Claims, Claim, SessionFits
  <1>2. spawner'[s].at = "brief" /\ spawner'[s].rec = spawner[s].rec
    BY <1>1, SpawnerMoves DEF Claims, Claim, SpawnerAt, Spawning
  <1>3. worker'[s] = "none"
    BY <1>1 DEF SessionFits, PanesFit, Claims, Claim, inPane, Claimed, Spawning
  <1>4. record'[spawner[s].rec] = [NoState EXCEPT !.state = "planned", !.role = spawner[s].role]
    BY <1>1 DEF Claims, Claim, SessionTypeOK
  <1>5. /\ record'[spawner[s].rec].state = "planned" /\ record'[spawner[s].rec].pane = NoSpawner
        /\ ~record'[spawner[s].rec].summed
    BY <1>4 DEF NoState
  <1> QED
    BY <1>2, <1>3, <1>5 DEF Ladder

LEMMA LadderOfSpawner ==
  ASSUME SessionFits, ErrorsFit, NEW s \in Spawner, SpawnerStep(s) \/ SpawnerDies(s),
         Uses(s), Uses(s)', Alone(s), Ladder(s)
  PROVE  Ladder(s)'
  <1> DEFINE r == spawner[s].rec
  <1>1. r \in Record /\ SessionTypeOK /\ spawner[s].at # "new"
    BY RolesAndRecords DEF Uses, Spawning, SessionFits, PanesFit, Claimed
  <1>2. /\ spawner[s].at \in {"brief", "split", "run"} => worker[s] = "none"
        /\ spawner[s].at \in {"mark", "wait"} => worker[s] # "none"
        /\ worker[s] \in {"none", "load"} => loaded[s] = NoSpawner
    BY DEF SessionFits, PanesFit, BriefsFit
  <1>3. spawner[s].at \in Claimed
    BY DEF SessionFits, PanesFit, Uses, Claimed
  <1>4. ASSUME NEW from \in SpawnerAt, NEW to \in SpawnerAt, SpawnerGoes(s, from, to),
               UNCHANGED <<record, worker, loaded, reported, informed>>,
               UNCHANGED startError \/ to \notin {"mark", "wait"},
               to \in {"brief", "split", "run"} => from \in {"brief", "split"},
               to \notin {"mark", "wait", "clean"},
               to = "failed" => worker[s] \in {"none", "close", "left", "killed"},
               to = "over" => from = "wait" /\ worker[s] \notin {"error", "close"}
        PROVE  Ladder(s)'
    <2>1. spawner[s].at = from /\ spawner'[s].at = to /\ spawner'[s].rec = r
      BY <1>1, <1>4, SpawnerMoves
    <2> QED
      BY <1>1, <1>2, <1>4, <2>1 DEF Ladder, FoundError
  <1>5. CASE RunInPane(s)
    <2>1. spawner[s].at = "run" /\ spawner'[s].at = "mark" /\ spawner'[s].rec = r
      BY <1>1, <1>5, SpawnerMoves DEF RunInPane, SpawnerAt, Spawning
    <2>2. worker'[s] = "load" /\ UNCHANGED <<record, loaded, startError>>
      BY <1>1, <1>5 DEF RunInPane, SessionTypeOK
    <2> QED
      BY <1>1, <1>2, <2>1, <2>2 DEF Ladder, FoundError
  <1>6. CASE MarkStarting(s)
    <2>1. spawner[s].at = "mark" /\ spawner'[s].at = "wait" /\ spawner'[s].rec = r
      BY <1>1, <1>6, SpawnerMoves DEF MarkStarting, SpawnerAt, Spawning
    <2>2. UNCHANGED <<worker, loaded, startError, reported, informed>>
      BY <1>6 DEF MarkStarting, inPane, histories
    <2>3. /\ record'[r].pane = s /\ record'[r].summed = record[r].summed
          /\ record'[r].state = IF record[r].state \in {"planned", "launch failed"} THEN "starting" ELSE record[r].state
      <3> DEFINE v == [record[r] EXCEPT !.pane = s, !.old = FALSE,
                                        !.state = IF Untouched(r) THEN "starting" ELSE record[r].state]
      <3>1. record[r] \in RecordData
        BY <1>1 DEF SessionTypeOK
      <3>2. /\ v.pane = s /\ v.summed = record[r].summed
            /\ v.state = IF record[r].state \in {"planned", "launch failed"} THEN "starting" ELSE record[r].state
        BY <3>1 DEF RecordData, Untouched
      <3>3. record' = [record EXCEPT ![r] = v]
        BY <1>6 DEF MarkStarting
      <3> HIDE DEF v
      <3> QED
        BY <1>1, <3>2, <3>3 DEF SessionTypeOK
    <2> QED
      BY <1>1, <1>2, <2>1, <2>2, <2>3 DEF Ladder, FoundError
  <1>7. CASE AwaitWorker(s)
    <2>1. FoundError(s) => worker[s] \in {"close", "left", "killed"}
      BY <1>1 DEF ErrorsFit
    <2>2. roleId[spawner[s].role] = s => worker[s] \notin {"error", "close"}
      <3>1. spawner[s].role \in Role /\ NoSpawner \notin Spawner
        BY <1>1, RolesAndRecords, SessionAssumption
      <3> QED
        BY <3>1 DEF SessionFits, RolesFit
    <2> QED
      BY <1>4, <1>7, <2>1, <2>2 DEF AwaitWorker, SpawnerAt, Spawning, inPane, histories
  <1>8. CASE AwaitEnds(s)
    <2>1. worker[s] # "close"
      BY <1>8 DEF AwaitEnds, Ladder
    <2> QED
      BY <1>4, <1>8, <2>1 DEF AwaitEnds, SpawnerAt, Spawning, inPane, histories
  <1>9. CASE EndLaunch(s)
    <2>1. spawner[s].at = "failed" /\ spawner'[s].at = "clean" /\ spawner'[s].rec = r
      BY <1>1, <1>9, SpawnerMoves DEF EndLaunch, SpawnerAt, Spawning
    <2>2. UNCHANGED <<worker, loaded, startError, reported, informed>>
      BY <1>9 DEF EndLaunch, inPane, histories
    <2>3. worker[s] \in {"none", "close", "left", "killed"}
      BY <2>1 DEF Ladder
    <2>4. CASE Working(r)
      <3>1. /\ record'[r].pane = record[r].pane /\ record'[r].summed = record[r].summed
            /\ record'[r].state = "launch failed"
        BY <1>1, <1>9, <2>4, RecordWritten DEF EndLaunch, EndedAs
      <3> QED
        BY <1>1, <2>1, <2>2, <2>3, <3>1 DEF Ladder, FoundError, Live
    <2>5. CASE ~Working(r)
      <3>1. record' = record /\ record[r].state \notin {"planned"} \cup Live
        BY <1>9, <2>5 DEF EndLaunch, Working
      <3> QED
        BY <1>1, <2>1, <2>2, <2>3, <3>1 DEF Ladder, FoundError
    <2> QED
      BY <2>4, <2>5
  <1>10. CASE CleanUp(s)
    <2>1. spawner'[s].at = "over"
      BY <1>1, <1>10, SpawnerMoves DEF CleanUp, SpawnerAt
    <2>2. pane'[s] # "open"
      <3>1. CASE pane[s] = "open"
        BY <1>1, <1>10, <3>1, PaneClosed DEF CleanUp
      <3>2. CASE pane[s] # "open"
        BY <1>10, <3>2 DEF CleanUp, inPane
      <3> QED
        BY <3>1, <3>2
    <2> QED
      BY <2>1, <2>2 DEF Uses, Spawning
  <1>11. CASE WriteBrief(s) \/ SplitPane(s)
    BY <1>4, <1>11 DEF WriteBrief, SplitPane, SpawnerAt, Spawning, inPane, histories
  <1>12. CASE StageFails(s) \/ SpawnerDies(s)
    BY <1>2, <1>4, <1>12 DEF StageFails, SpawnerDies, SpawnerAt, Spawning, inPane, histories
  <1> QED
    BY <1>3, <1>5, <1>6, <1>7, <1>8, <1>9, <1>10, <1>11, <1>12
       DEF SpawnerStep, Claimed, Spawning, LookForPane, MarkVanished, CheckResumable, RecoverAbandoned, FreeRoles,
           Claim, SpawnerGoes
LEMMA LadderOfWorker ==
  ASSUME SessionFits, OwnBriefs, OwnBriefs', NEW s \in Spawner, WorkerStep(s), Uses(s)', Ladder(s)
  PROVE  Ladder(s)'
  <1> DEFINE r == spawner[s].rec
  <1>1. SessionTypeOK /\ r \in Record /\ spawner' = spawner
    <2>1. worker[s] # "none"
      BY DEF WorkerStep, LoadBrief, Leaves, WorkerGoes, RegisterRole, StartupFails, LeaveStartError, CloseOwnPane,
             SetRunning, LaunchAgent, AgentFailsToStart, AgentExited, TellEarlyExit, WorkerEnds
    <2> QED
      BY <2>1, RolesAndRecords
         DEF SessionFits, WorkerStep, LoadBrief, RegisterRole, StartupFails, LeaveStartError, CloseOwnPane,
             SetRunning, LaunchAgent, AgentFailsToStart, AgentExited, TellEarlyExit, WorkerEnds
  <1>2. /\ spawner[s].at \in Claimed \ {"brief", "split", "run"}
        /\ worker[s] \in Loaded => RecordOf(s) = r /\ loaded[s] = s
        /\ worker[s] = "load" => loaded[s] = NoSpawner
    <2>1. worker[s] # "none"
      BY DEF WorkerStep, LoadBrief, Leaves, WorkerGoes, RegisterRole, StartupFails, LeaveStartError, CloseOwnPane,
             SetRunning, LaunchAgent, AgentFailsToStart, AgentExited, TellEarlyExit, WorkerEnds
    <2> QED
      BY <2>1, WorkersUse DEF SessionFits, PanesFit, BriefsFit
  <1>3. ASSUME NEW from, Leaves(s, from)
        PROVE  /\ spawner[s].at \in Spawning /\ worker[s] = from /\ worker'[s] = "left"
               /\ loaded' = loaded
    BY <1>1, <1>3, WorkerLeft DEF Uses
  <1>4. ASSUME NEW from \in WorkerAt, NEW to \in WorkerAt, WorkerGoes(s, from, to)
        PROVE  worker[s] = from /\ worker'[s] = to
    BY <1>1, <1>4, WorkerMoves
  <1>5. ASSUME RecordExit(s), worker[s] \in Loaded
        PROVE  /\ record'[r].pane = record[r].pane /\ record'[r].summed = record[r].summed
               /\ record[r].state \in Live => record'[r].state \in {"done", "failed"}
               /\ record[r].state \notin Live => record'[r].state = record[r].state
    <2>1. record[r].state \in {"none", "planned"} \cup Live \cup EndedAs
      BY <1>1 DEF SessionTypeOK, RecordData
    <2> QED
      <3>1. PICK state \in {"none", "planned"} \cup Live \cup EndedAs :
               /\ Writes(r, state)
               /\ record[r].state \in Live => state \in {"done", "failed"}
               /\ record[r].state \notin Live => state = record[r].state
        BY <1>2, <1>5, <2>1 DEF RecordExit, EndedAs
      <3> QED
        BY <1>1, <3>1, RecordWritten
  <1> USE DEF FoundError
  <1>6. CASE LoadBrief(s)
    <2>1. CASE Leaves(s, "load")
      BY <1>1, <1>2, <1>3, <1>6, <2>1 DEF LoadBrief, Ladder, Spawning
    <2>2. CASE ~Leaves(s, "load")
      <3>1. worker[s] = "load" /\ worker'[s] = "register" /\ UNCHANGED <<record, startError, spawner>>
        BY <1>4, <1>6, <2>2 DEF LoadBrief, WorkerAt
      <3> QED
        BY <1>1, <1>2, <3>1 DEF Ladder
    <2> QED
      BY <2>1, <2>2
  <1>7. CASE RegisterRole(s)
    <2>1. worker[s] = "register" /\ worker'[s] = "set running" /\ UNCHANGED <<record, startError, spawner>>
      BY <1>4, <1>7 DEF RegisterRole, WorkerAt
    <2> QED
      BY <1>1, <1>2, <2>1 DEF Ladder
  <1>8. CASE StartupFails(s)
    <2>1. worker[s] = "register" /\ worker'[s] = "error" /\ UNCHANGED <<startError, spawner, loaded>>
      BY <1>4, <1>8 DEF StartupFails, WorkerAt
    <2>2. /\ record'[r].pane = record[r].pane
          /\ record'[r].state = IF record[r].state \in Live THEN "failed" ELSE record[r].state
      <3>1. record[r].state \in {"none", "planned"} \cup Live \cup EndedAs
        BY <1>1 DEF SessionTypeOK, RecordData
      <3> QED
        BY <1>1, <1>2, <1>8, <2>1, <3>1, RecordWritten DEF StartupFails, EndedAs, Loaded
    <2> QED
      BY <1>1, <1>2, <2>1, <2>2 DEF Ladder, Live
  <1>9. CASE LeaveStartError(s)
    <2>1. /\ worker[s] = "error" /\ worker'[s] = "close" /\ UNCHANGED <<record, spawner, loaded>>
      BY <1>4, <1>9 DEF LeaveStartError, WorkerAt
    <2>2. FoundError(s)'
      <3>1. RecordOf(s) = r /\ spawner[s].at # "new"
        BY <1>2, <2>1 DEF Loaded, Claimed, Spawning
      <3>2. startError'[r] = {k \in Spawner : spawner[k].at # "new"}
        BY <1>1, <1>9, <3>1 DEF LeaveStartError, SessionTypeOK
      <3> QED
        BY <2>1, <3>1, <3>2
    <2> QED
      BY <1>1, <1>2, <2>1, <2>2 DEF Ladder
  <1>10. CASE CloseOwnPane(s)
    BY <1>1, <1>2, <1>3, <1>10 DEF CloseOwnPane, Ladder, Spawning, histories
  <1>11. CASE SetRunning(s)
    <2>1. worker[s] = "set running" /\ worker'[s] = "launch" /\ UNCHANGED <<startError, spawner, loaded>>
      BY <1>4, <1>11 DEF SetRunning, WorkerAt
    <2>2. RecordOf(s) = r /\ ~EndsIt(r)
      BY <1>2, <2>1 DEF Ladder, EndsIt, Loaded
    <2>3. record'[r].pane = record[r].pane /\ record'[r].summed = record[r].summed /\ record'[r].state = "running"
      BY <1>1, <1>11, <2>2, RecordWritten DEF SetRunning, Live
    <2> QED
      BY <1>1, <1>2, <2>1, <2>3 DEF Ladder, Live
  <1>12. CASE LaunchAgent(s)
    <2>1. worker[s] = "launch" /\ worker'[s] = "agent" /\ UNCHANGED <<record, startError, spawner>>
      BY <1>4, <1>12 DEF LaunchAgent, WorkerAt
    <2> QED
      BY <1>1, <1>2, <2>1 DEF Ladder
  <1>13. CASE AgentFailsToStart(s)
    <2>1. /\ worker[s] = "launch" /\ worker'[s] = "left" /\ loaded' = loaded /\ RecordExit(s)
          /\ UNCHANGED <<startError, spawner>> /\ spawner[s].at \in Spawning
      BY <1>3, <1>13 DEF AgentFailsToStart
    <2>2. record[r].state = "running"
      BY <2>1 DEF Ladder
    <2>3. record'[r].pane = record[r].pane /\ record'[r].state \in {"done", "failed"}
      BY <1>5, <2>1, <2>2 DEF Loaded, Live
    <2> QED
      BY <1>1, <1>2, <2>1, <2>3 DEF Ladder, Spawning, Live
  <1>14. CASE AgentExited(s)
    <2>1. /\ worker[s] = "agent" /\ RecordExit(s) /\ UNCHANGED <<startError, spawner, loaded, reported, informed>>
          /\ worker'[s] = IF EndedItNow(s) THEN "tell" ELSE "exited"
      BY <1>4, <1>14 DEF AgentExited, WorkerAt, Ran, histories
    <2>2. RecordOf(s) = r /\ worker[s] \in Loaded
      BY <1>2, <2>1 DEF Loaded
    <2>3. \/ record[r].state = "running"
          \/ record[r].state = "done" /\ s \in reported
      BY <2>1 DEF Ladder
    <2>4. /\ record'[r].pane = record[r].pane /\ record'[r].state \in {"done", "failed"}
      BY <1>5, <2>1, <2>2, <2>3 DEF Live
    <2>5. worker'[s] = "tell" \/ (worker'[s] = "exited" /\ s \in reported)
      BY <2>1, <2>2, <2>3 DEF EndedItNow, Live
    <2> QED
      BY <1>1, <1>2, <2>1, <2>4, <2>5 DEF Ladder, Live
  <1>15. CASE TellEarlyExit(s)
    <2>1. worker[s] = "tell" /\ worker'[s] = "exited" /\ UNCHANGED <<record, startError, spawner>> /\ s \in informed'
      BY <1>4, <1>15 DEF TellEarlyExit, WorkerAt, Ran
    <2> QED
      BY <1>1, <1>2, <2>1 DEF Ladder
  <1>16. CASE WorkerEnds(s)
    BY <1>1, <1>2, <1>3, <1>16 DEF WorkerEnds, Ladder, Spawning
  <1> QED
    BY <1>6, <1>7, <1>8, <1>9, <1>10, <1>11, <1>12, <1>13, <1>14, <1>15, <1>16 DEF WorkerStep

LEMMA LadderOfDone ==
  ASSUME SessionFits, OwnBriefs, NEW s \in Spawner, DoneStep(s) \/ PaneCloses(s), Uses(s)', Ladder(s)
  PROVE  Ladder(s)'
  <1> DEFINE r == spawner[s].rec
  <1>1. SessionTypeOK /\ UNCHANGED <<spawner, startError, loaded>>
    BY DEF SessionFits, DoneStep, StartDone, QueueReport, MarkDone, DoneUnregisters, DoneCloses, DoneStops,
           PaneCloses, ClosePane
  <1> USE DEF FoundError
  <1>2. CASE StartDone(s) \/ QueueReport(s) \/ DoneUnregisters(s) \/ DoneStops(s)
    <2>1. UNCHANGED <<record, worker, informed>> /\ reported \subseteq reported'
      BY <1>2 DEF StartDone, QueueReport, DoneUnregisters, DoneStops, Unregister, histories
    <2> QED
      BY <1>1, <2>1 DEF Ladder
  <1>3. CASE DoneCloses(s) \/ PaneCloses(s)
    <2>1. pane'[s] = "closed" /\ worker'[s] = IF worker[s] \in {"none", "left"} THEN worker[s] ELSE "killed"
      BY <1>1, <1>3, PaneClosed DEF DoneCloses, PaneCloses
    <2>2. spawner[s].at \in Spawning /\ UNCHANGED record
      BY <1>1, <1>3, <2>1 DEF Uses, DoneCloses, PaneCloses
    <2> QED
      BY <1>1, <2>1, <2>2 DEF Ladder, Spawning
  <1>4. CASE MarkDone(s)
    <2>1. doing[s] = "mark" /\ UNCHANGED <<worker, reported, informed>>
      BY <1>4 DEF MarkDone, DoneGoes, histories
    <2>2. worker[s] \in {"agent", "exited", "tell"} /\ s \in reported
      BY <2>1 DEF SessionFits, PanesFit
    <2>3. RecordOf(s) = r /\ r \in Record
      BY <2>2, WorkersUse, RolesAndRecords DEF Loaded
    <2>4. record[r].state \in {"running", "done", "failed"}
      BY <2>2 DEF Ladder
    <2>5. /\ record'[r].pane = record[r].pane /\ record'[r].summed = TRUE
          /\ record'[r].state = IF record[r].state \in EndedAs THEN record[r].state ELSE "done"
      <3> DEFINE v == [record[r] EXCEPT !.summed = TRUE, !.old = FALSE,
                         !.state = IF record[r].state \in EndedAs THEN record[r].state ELSE "done"]
      <3>1. record[r] \in RecordData
        BY <1>1, <2>3 DEF SessionTypeOK
      <3>2. /\ v.pane = record[r].pane /\ v.summed = TRUE
            /\ v.state = IF record[r].state \in EndedAs THEN record[r].state ELSE "done"
        BY <3>1 DEF RecordData
      <3>3. record' = [record EXCEPT ![r] = v]
        BY <1>4, <2>3 DEF MarkDone
      <3> HIDE DEF v
      <3> QED
        BY <1>1, <2>3, <3>2, <3>3 DEF SessionTypeOK
    <2>6. spawner[s].at \notin {"brief", "split", "run", "failed", "clean"}
      BY <2>2 DEF SessionFits, PanesFit, Ladder
    <2> QED
      BY <1>1, <2>1, <2>2, <2>4, <2>5, <2>6 DEF Ladder, EndedAs
  <1> QED
    BY <1>2, <1>3, <1>4 DEF DoneStep
-----------------------------------------------------------------------------
(***************************************************************************)
(* How far a record is: the steps of others.                               *)
(***************************************************************************)
\* What is found by one that is alone is not taken, or replaced, by another.
LEMMA ErrorsStay ==
  ASSUME SessionFits, OneUser, OwnBriefs, NEW s \in Spawner, Acts(s),
         NEW k \in Spawner \ {s}, spawner[k].at # "new", spawner[k].rec \notin shared'
  PROVE  /\ startError'[k] = startError[k]
         /\ startError'[spawner[k].rec] = startError[spawner[k].rec] \/ (~Uses(k) /\ AwaitWorker(s))
  <1>1. SessionTypeOK /\ Record \cap Spawner = {} /\ spawner[k].rec \in Record /\ spawner[k].rec \notin shared
    BY SessionAssumption, RolesAndRecords, HistoriesGrow DEF SessionFits
  <1>2. CASE UNCHANGED startError
    BY <1>2
  <1>3. CASE AwaitWorker(s)
    <2>1. Uses(s) /\ spawner[s].at # "new"
      BY <1>3 DEF AwaitWorker, Uses, Spawning
    <2>2. spawner[s].rec \in Record
      BY <2>1, RolesAndRecords
    <2>3. spawner[s].rec = spawner[k].rec => ~Uses(k)
      BY <1>1, <2>1 DEF OneUser
    <2> QED
      BY <1>1, <1>3, <2>2, <2>3 DEF AwaitWorker, SessionTypeOK
  <1>4. CASE LoadBrief(s)
    BY <1>1, <1>4 DEF LoadBrief, SessionTypeOK
  <1>5. CASE LeaveStartError(s)
    <2>1. worker[s] \in Loaded /\ RecordOf(s) \in Record
      BY <1>5, RolesAndRecords DEF LeaveStartError, WorkerGoes, Loaded
    <2>2. RecordOf(s) # spawner[k].rec
      BY <1>1, <1>5 DEF LeaveStartError
    <2> QED
      BY <1>1, <1>5, <2>1, <2>2 DEF LeaveStartError, SessionTypeOK
  <1>6. CASE SpawnerStep(s) \/ SpawnerDies(s)
    BY <1>2, <1>3, <1>6
       DEF SpawnerStep, LookForPane, MarkVanished, CheckResumable, RecoverAbandoned, FreeRoles, Claim, WriteBrief,
           SplitPane, RunInPane, StageFails, MarkStarting, AwaitEnds, EndLaunch, CleanUp, SpawnerDies
  <1>7. CASE WorkerStep(s) \/ DoneStep(s) \/ PaneCloses(s)
    BY <1>2, <1>4, <1>5, <1>7
       DEF WorkerStep, RegisterRole, StartupFails, CloseOwnPane, SetRunning, LaunchAgent, AgentFailsToStart,
           AgentExited, TellEarlyExit, WorkerEnds, DoneStep, StartDone, QueueReport, MarkDone, DoneUnregisters,
           DoneCloses, DoneStops, PaneCloses
  <1> QED
    BY <1>2, <1>6, <1>7, SpawnBegins DEF Acts

LEMMA LadderOfOthers ==
  ASSUME SessionFits, OneUser, OwnBriefs, NEW s \in Spawner, Acts(s),
         NEW k \in Spawner \ {s}, Uses(k), Ladder(k), spawner[k].rec \notin shared'
  PROVE  Ladder(k)'
  <1> DEFINE r == spawner[k].rec
  <1>1. SessionTypeOK /\ spawner[k].at # "new" /\ r \in Record
    BY RolesAndRecords DEF Uses, Spawning, SessionFits, PanesFit, Claimed
  <1>2. /\ spawner'[k] = spawner[k] /\ worker'[k] = worker[k] /\ loaded'[k] = loaded[k]
        /\ reported \subseteq reported' /\ informed \subseteq informed'
    BY SpawnersMove, PanesMove, HistoriesGrow
  <1>3. FoundError(k)' <=> FoundError(k)
    <2>1. startError'[k] = startError[k] /\ startError'[r] = startError[r]
      BY <1>1, ErrorsStay
    <2> QED
      BY <1>2, <2>1 DEF FoundError
  <1>4. record[r] \in RecordData
    BY <1>1 DEF SessionTypeOK
  <1>5. CASE record'[r] = record[r]
    BY <1>2, <1>3, <1>5 DEF Ladder
  <1>6. CASE record[r].state = "planned" /\ record'[r] = [record[r] EXCEPT !.state = "launch failed", !.old = FALSE]
    <2>1. /\ record'[r].state = "launch failed" /\ record'[r].pane = record[r].pane
          /\ record'[r].summed = record[r].summed
      BY <1>4, <1>6 DEF RecordData
    <2> QED
      BY <1>2, <1>3, <1>6, <2>1 DEF Ladder, Live
  <1>7. CASE PaneIsGone(r) /\ record'[r] = [record[r] EXCEPT !.state = "failed", !.old = FALSE]
    <2>1. /\ record'[r].state = "failed" /\ record'[r].pane = record[r].pane
          /\ record'[r].summed = record[r].summed
      BY <1>4, <1>7 DEF RecordData
    <2>2. record[r].pane = k /\ pane[k] = "closed"
      BY <1>7 DEF Ladder, PaneIsGone
    <2>3. worker[k] \in {"killed", "left"}
      BY <1>1, <2>2, SessionAssumption DEF SessionTypeOK, Ladder
    <2> QED
      BY <1>2, <1>3, <2>1, <2>2, <2>3, SessionAssumption DEF Ladder, Live
  <1> QED
    BY <1>5, <1>6, <1>7, OthersLeaveRecord DEF Abandoned

LEMMA WorkersKeepPane ==
  ASSUME SessionFits, NEW s \in Spawner, WorkerStep(s) \/ DoneStep(s), NEW r \in Record
  PROVE  record'[r].pane = record[r].pane
  <1>1. SessionTypeOK
    BY DEF SessionFits
  <1>2. ASSUME NEW state \in {"none", "planned"} \cup Live \cup EndedAs, Writes(RecordOf(s), state), worker[s] \in Loaded
        PROVE  record'[r].pane = record[r].pane
    <2>1. RecordOf(s) \in Record
      BY <1>2, RolesAndRecords
    <2> QED
      BY <1>1, <1>2, <2>1, RecordWritten
  <1>3. worker[s] \in Loaded => record[RecordOf(s)].state \in {"none", "planned"} \cup Live \cup EndedAs
    BY <1>1, RolesAndRecords DEF SessionTypeOK, RecordData
  <1>4. CASE StartupFails(s) \/ SetRunning(s) \/ AgentFailsToStart(s) \/ AgentExited(s)
    <2>1. worker[s] \in Loaded
      BY <1>4 DEF StartupFails, SetRunning, AgentFailsToStart, AgentExited, WorkerGoes, Leaves, Loaded
    <2>2. \/ record' = record
          \/ \E state \in {"none", "planned"} \cup Live \cup EndedAs : Writes(RecordOf(s), state)
      BY <1>3, <1>4, <2>1 DEF StartupFails, SetRunning, AgentFailsToStart, AgentExited, RecordExit, Live, EndedAs
    <2> QED
      BY <1>2, <2>1, <2>2
  <1>5. CASE MarkDone(s)
    <2>1. worker[s] \in Loaded
      BY <1>5, RolesAndRecords DEF MarkDone, DoneGoes
    <2> DEFINE v == [record[RecordOf(s)] EXCEPT !.summed = TRUE, !.old = FALSE,
                       !.state = IF record[RecordOf(s)].state \in EndedAs THEN record[RecordOf(s)].state ELSE "done"]
    <2>2. RecordOf(s) \in Record /\ record[RecordOf(s)] \in RecordData
      BY <1>1, <2>1, RolesAndRecords DEF SessionTypeOK
    <2>3. v.pane = record[RecordOf(s)].pane
      BY <2>2 DEF RecordData
    <2>4. record' = [record EXCEPT ![RecordOf(s)] = v]
      BY <1>5 DEF MarkDone
    <2> HIDE DEF v
    <2> QED
      BY <1>1, <2>2, <2>3, <2>4 DEF SessionTypeOK
  <1> QED
    BY <1>4, <1>5
       DEF WorkerStep, DoneStep, LoadBrief, RegisterRole, LeaveStartError, CloseOwnPane, LaunchAgent,
           TellEarlyExit, WorkerEnds, StartDone, QueueReport, DoneUnregisters, DoneCloses, DoneStops

\* Nobody makes a record live that names the pane of another.
LEMMA OthersLeaveLive ==
  ASSUME SessionFits, OneUser, RecordsFit, OwnBriefs, NEW s \in Spawner, Acts(s), NEW k \in Spawner \ {s},
         spawner[k].at # "new", spawner[k].rec \notin shared,
         record'[spawner[k].rec].pane = k, record'[spawner[k].rec].state \in Live
  PROVE  record'[spawner[k].rec] = record[spawner[k].rec]
  <1> DEFINE r == spawner[k].rec
  <1>1. SessionTypeOK /\ r \in Record /\ record[r] \in RecordData /\ NoSpawner \notin Spawner
    BY RolesAndRecords, SessionAssumption DEF SessionFits, SessionTypeOK
  <1>2. SUFFICES ASSUME record'[r] # record[r] PROVE FALSE
    OBVIOUS
  <1>3. CASE r = spawner[s].rec /\ (MarkVanished(s) \/ EndLaunch(s))
    <2>1. Writes(r, "failed") \/ Writes(r, "launch failed")
      BY <1>2, <1>3 DEF MarkVanished, EndLaunch
    <2>2. record'[r].state \in {"failed", "launch failed"}
      BY <1>1, <2>1, RecordWritten DEF EndedAs
    <2> QED
      BY <2>2 DEF Live
  <1>4. CASE r = spawner[s].rec /\ Claims(s)
    <2>1. record'[r] = [NoState EXCEPT !.state = "planned", !.role = spawner[s].role]
      BY <1>1, <1>4 DEF Claims, Claim, SessionTypeOK
    <2> QED
      BY <2>1 DEF NoState, Live
  <1>5. CASE r = spawner[s].rec /\ MarkStarting(s)
    <2> DEFINE v == [record[r] EXCEPT !.pane = s, !.old = FALSE,
                                      !.state = IF Untouched(r) THEN "starting" ELSE record[r].state]
    <2>1. v.pane = s
      BY <1>1 DEF RecordData
    <2>2. record' = [record EXCEPT ![r] = v]
      BY <1>5 DEF MarkStarting
    <2> HIDE DEF v
    <2> QED
      BY <1>1, <2>1, <2>2 DEF SessionTypeOK
  <1>6. CASE r \in Abandoned /\ RecoverAbandoned(s)
    <2>1. record'[r] = [record[r] EXCEPT !.state = "launch failed", !.old = FALSE]
      BY <1>1, <1>6 DEF RecoverAbandoned
    <2> QED
      BY <1>1, <2>1 DEF RecordData, Live
  <1>7. CASE r = RecordOf(s) /\ worker[s] \in Loaded /\ (WorkerStep(s) \/ DoneStep(s))
    <2>1. Ladder(s) /\ spawner[s].rec = r
      BY <1>7, WorkersUse DEF RecordsFit, Alone
    <2>2. record[r].pane \in {s, NoSpawner}
      BY <2>1 DEF Ladder
    <2> QED
      BY <1>1, <1>7, <2>2, WorkersKeepPane
  <1> QED
    BY <1>1, <1>2, <1>3, <1>4, <1>5, <1>6, <1>7, RecordWriters
-----------------------------------------------------------------------------
(***************************************************************************)
(* The invariant.                                                          *)
(***************************************************************************)
LEMMA ErrorsStillFit ==
  ASSUME SessionInv, NEW s \in Spawner, Acts(s)
  PROVE  ErrorsFit'
  <1>1. /\ SessionFits /\ SessionTypeOK /\ ErrorsFit /\ Record \cap Spawner = {} /\ SessionFits'
        /\ \A k \in Spawner : spawner[k].at # "new" => spawner'[k].at # "new" /\ spawner'[k].rec = spawner[k].rec
    BY SessionStillFits, ClaimsStay, SessionAssumption DEF SessionInv, SessionFits, SessionNext, Acts
  <1>2. ASSUME NEW w \in Spawner, OwnBriefs', spawner'[w].rec \notin shared'
        PROVE  OwnBriefs /\ (spawner[w].at # "new" => Alone(w))
    BY <1>1, <1>2, WorkersGoOn, HistoriesGrow DEF OwnBriefs, Alone, SessionFits, SessionTypeOK
  \* What is left is left for those that have begun.
  <1>3. ASSUME NEW w \in Spawner, NEW q \in Record \cup Spawner, w \in startError'[q]
        PROVE  \/ w \in startError[q]
               \/ LoadBrief(s) /\ q = s /\ w = s /\ worker'[s] = "left"
               \/ LeaveStartError(s) /\ q = RecordOf(s) /\ spawner[w].at # "new"
    <2>1. CASE UNCHANGED startError
      BY <1>3, <2>1
    <2>2. CASE AwaitWorker(s)
      BY <1>1, <1>3, <2>2 DEF AwaitWorker, SessionTypeOK
    <2>3. CASE LoadBrief(s)
      BY <1>1, <1>3, <2>3, WorkerLeft DEF LoadBrief, SessionTypeOK
    <2>4. CASE LeaveStartError(s)
      BY <1>1, <1>3, <2>4 DEF LeaveStartError, SessionTypeOK
    <2>5. CASE SpawnerStep(s) \/ SpawnerDies(s)
      BY <2>1, <2>2, <2>5
         DEF SpawnerStep, LookForPane, MarkVanished, CheckResumable, RecoverAbandoned, FreeRoles, Claim, WriteBrief,
             SplitPane, RunInPane, StageFails, MarkStarting, AwaitEnds, EndLaunch, CleanUp, SpawnerDies
    <2>6. CASE WorkerStep(s) \/ DoneStep(s) \/ PaneCloses(s)
      BY <2>1, <2>3, <2>4, <2>6
         DEF WorkerStep, RegisterRole, StartupFails, CloseOwnPane, SetRunning, LaunchAgent, AgentFailsToStart,
             AgentExited, TellEarlyExit, WorkerEnds, DoneStep, StartDone, QueueReport, MarkDone, DoneUnregisters,
             DoneCloses, DoneStops, PaneCloses
    <2>7. ASSUME NEW r \in Record, NEW o \in Role, SpawnFresh(s, r, o) \/ Resume(s, r, o)
          PROVE  UNCHANGED startError
      BY <1>1, <2>7, SpawnBegins
    <2> QED
      BY <2>1, <2>5, <2>6, <2>7 DEF Acts
  <1>4. ASSUME NEW w \in Spawner, worker[w] \in {"close", "left", "killed"}
        PROVE  /\ worker'[w] \in {"close", "left", "killed"}
               /\ worker[w] = "left" => worker'[w] = "left"
    <2>1. CASE w # s
      BY <1>1, <1>4, <2>1, PanesMove
    <2>2. CASE w = s
      <3>1. UNCHANGED worker \/ ClosePane(s) \/ Leaves(s, "close")
        BY <1>1, <1>4, <2>2, SpawnBegins
           DEF Acts, SpawnerStep, inPane, LookForPane, MarkVanished, CheckResumable, RecoverAbandoned, FreeRoles,
               Claim, WriteBrief, SplitPane, RunInPane, StageFails, MarkStarting, AwaitWorker, AwaitEnds, EndLaunch,
               CleanUp, SpawnerDies, WorkerStep, Leaves, WorkerGoes, LoadBrief, RegisterRole, StartupFails,
               LeaveStartError, CloseOwnPane, SetRunning, LaunchAgent, AgentFailsToStart, AgentExited, TellEarlyExit,
               WorkerEnds, DoneStep, StartDone, QueueReport, MarkDone, DoneUnregisters, DoneCloses, DoneStops,
               PaneCloses, SpawnerGoes, SessionFits, PanesFit
      <3> QED
        BY <1>1, <1>4, <2>2, <3>1, PaneClosed, WorkerLeft
    <2> QED
      BY <2>1, <2>2
  <1>5. ASSUME NEW w \in Spawner, spawner'[w].at = "new", NEW q \in Record \cup Spawner
        PROVE  w \notin startError'[q]
    <2>1. spawner[w].at = "new" /\ w \notin startError[q]
      BY <1>1, <1>5 DEF ErrorsFit
    <2>2. ~(LoadBrief(s) /\ w = s)
      BY <1>1, <2>1, RolesAndRecords DEF LoadBrief
    <2> QED
      BY <1>3, <2>1, <2>2
  <1>6. ASSUME NEW w \in Spawner, w \in startError'[w]
        PROVE  worker'[w] = "left"
    <2>1. ~(LeaveStartError(s) /\ w = RecordOf(s))
      BY <1>1, RolesAndRecords DEF LeaveStartError, WorkerGoes, Loaded
    <2> QED
      BY <1>1, <1>3, <1>4, <1>6, <2>1 DEF ErrorsFit
  <1>7. ASSUME NEW w \in Spawner, spawner'[w].at # "new", Alone(w)', FoundError(w)'
        PROVE  worker'[w] \in {"close", "left", "killed"}
    <2>1. OwnBriefs /\ (spawner[w].at # "new" => Alone(w))
      BY <1>2, <1>7 DEF Alone
    <2>2. spawner'[w].rec \in Record
      BY <1>1, <1>7 DEF SessionFits, SessionTypeOK, SpawnerData, KnowsItsRecord
    <2>3. CASE w \in startError'[w]
      BY <1>6, <2>3
    <2>4. CASE w \in startError'[spawner'[w].rec]
      <3>1. CASE w \in startError[spawner'[w].rec]
        <4>1. spawner[w].at # "new"
          BY <1>1, <2>2, <3>1 DEF ErrorsFit
        <4>2. FoundError(w)
          BY <1>1, <3>1, <4>1 DEF FoundError
        <4> QED
          BY <1>1, <1>4, <2>1, <4>1, <4>2 DEF ErrorsFit
      <3>2. CASE LeaveStartError(s) /\ spawner'[w].rec = RecordOf(s) /\ spawner[w].at # "new"
        <4>1. w = s
          BY <1>1, <1>7, <3>2 DEF LeaveStartError, Alone
        <4> QED
          BY <1>1, <3>2, <4>1, WorkerMoves DEF LeaveStartError, WorkerAt
      <3>3. spawner'[w].rec # s
        BY <1>1, <2>2
      <3> QED
        BY <1>3, <2>2, <2>4, <3>1, <3>2, <3>3
    <2> QED
      BY <1>7, <2>3, <2>4 DEF FoundError
  <1> QED
    BY <1>5, <1>6, <1>7 DEF ErrorsFit

LEMMA BeginsAlone ==
  ASSUME SessionFits, NEW s \in Spawner, Acts(s), worker'[s] # "none"
  PROVE  spawner[s].at # "new"
  <1> SUFFICES ASSUME spawner[s].at = "new" PROVE FALSE
    OBVIOUS
  <1>1. worker[s] = "none" /\ doing[s] = "none" /\ pane[s] = "none"
    BY DEF SessionFits, PanesFit, Claimed, Spawning
  <1> QED
    BY <1>1, SpawnBegins
       DEF Acts, SpawnerStep, LookForPane, MarkVanished, CheckResumable, RecoverAbandoned, FreeRoles, Claim,
           WriteBrief, SplitPane, RunInPane, StageFails, MarkStarting, AwaitWorker, AwaitEnds, EndLaunch, CleanUp,
           SpawnerDies, SpawnerGoes, Spawning, WorkerStep, Leaves, WorkerGoes, LoadBrief, RegisterRole,
           StartupFails, LeaveStartError, CloseOwnPane, SetRunning, LaunchAgent, AgentFailsToStart, AgentExited,
           TellEarlyExit, WorkerEnds, DoneStep, DoneGoes, StartDone, QueueReport, MarkDone, DoneUnregisters,
           DoneCloses, DoneStops, PaneCloses, inPane

LEMMA OverBegins ==
  ASSUME SessionFits, NEW s \in Spawner, Acts(s), worker[s] # "none", spawner'[s].at = "over"
  PROVE  \/ spawner[s].at = "over"
         \/ (AwaitWorker(s) \/ AwaitEnds(s)) /\ ~FoundError(s)
         \/ CleanUp(s)
  <1>1. SessionTypeOK /\ spawner[s].at \in Claimed \ {"brief", "split", "run"}
    BY DEF SessionFits, PanesFit
  <1>2. ASSUME NEW from \in SpawnerAt, NEW to \in SpawnerAt \ {"over"}, SpawnerGoes(s, from, to) PROVE FALSE
    BY <1>1, <1>2, SpawnerMoves
  <1>3. CASE MarkStarting(s) \/ EndLaunch(s) \/ SpawnerDies(s)
    BY <1>2, <1>3 DEF MarkStarting, EndLaunch, SpawnerDies, SpawnerAt, Spawning
  <1>4. CASE AwaitWorker(s) \/ AwaitEnds(s)
    BY <1>2, <1>4 DEF AwaitWorker, AwaitEnds, SpawnerAt, Spawning
  <1>5. CASE SpawnerStep(s)
    BY <1>1, <1>3, <1>4, <1>5
       DEF SpawnerStep, LookForPane, MarkVanished, CheckResumable, RecoverAbandoned, FreeRoles, Claim, WriteBrief,
           SplitPane, RunInPane, StageFails, SpawnerGoes, Claimed, Spawning
  <1>6. CASE WorkerStep(s) \/ DoneStep(s) \/ PaneCloses(s)
    BY <1>6
       DEF WorkerStep, DoneStep, LoadBrief, RegisterRole, StartupFails, LeaveStartError,
           CloseOwnPane, SetRunning, LaunchAgent, AgentFailsToStart, AgentExited, TellEarlyExit, WorkerEnds,
           StartDone, QueueReport, MarkDone, DoneUnregisters, DoneCloses, DoneStops, PaneCloses
  <1> QED
    BY <1>3, <1>5, <1>6, SpawnBegins DEF Acts

LEMMA LeavesNow ==
  ASSUME SessionFits, NEW s \in Spawner, Acts(s), worker[s] # "left", worker'[s] = "left"
  PROVE  (LoadBrief(s) /\ Leaves(s, "load")) \/ CloseOwnPane(s) \/ AgentFailsToStart(s) \/ WorkerEnds(s)
  <1>1. SessionTypeOK
    BY DEF SessionFits
  <1>2. ASSUME NEW from \in WorkerAt, NEW to \in WorkerAt \ {"left"}, WorkerGoes(s, from, to) PROVE FALSE
    BY <1>1, <1>2, WorkerMoves
  <1>3. ~ClosePane(s) /\ worker' # worker
    BY <1>1, PaneClosed
  <1>4. CASE SpawnerStep(s) \/ SpawnerDies(s)
    <2>1. CASE RunInPane(s)
      BY <1>1, <2>1 DEF RunInPane, SessionTypeOK
    <2> QED
      BY <1>3, <1>4, <2>1
         DEF SpawnerStep, inPane, LookForPane, MarkVanished, CheckResumable, RecoverAbandoned, FreeRoles,
             Claim, WriteBrief, SplitPane, StageFails, MarkStarting, AwaitWorker, AwaitEnds, EndLaunch, CleanUp,
             SpawnerDies
  <1>5. CASE WorkerStep(s)
    <2>1. CASE LoadBrief(s)
      BY <1>2, <2>1 DEF LoadBrief, WorkerAt
    <2>2. CASE AgentExited(s)
      BY <1>2, <2>2 DEF AgentExited, WorkerAt, Ran
    <2>3. CASE RegisterRole(s) \/ StartupFails(s) \/ LeaveStartError(s) \/ SetRunning(s) \/ LaunchAgent(s)
                 \/ TellEarlyExit(s)
      BY <1>2, <2>3
         DEF WorkerAt, Ran, RegisterRole, StartupFails, LeaveStartError, SetRunning, LaunchAgent, TellEarlyExit
    <2> QED
      BY <1>5, <2>1, <2>2, <2>3 DEF WorkerStep
  <1>6. CASE DoneStep(s) \/ PaneCloses(s)
    BY <1>3, <1>6
       DEF DoneStep, StartDone, QueueReport, MarkDone, DoneUnregisters, DoneCloses, DoneStops, PaneCloses
  <1> QED
    BY <1>3, <1>4, <1>5, <1>6, SpawnBegins DEF Acts, inPane

LEMMA LeftOverOwn ==
  ASSUME SessionFits, OwnBriefs, NEW s \in Spawner, Acts(s), spawner[s].rec \in Record,
         Uses(s) => Ladder(s), LeftOver(s),
         worker'[s] = "left", loaded'[s] = s, spawner'[s].at = "over",
         record'[spawner'[s].rec].pane = s, record'[spawner'[s].rec].state \in Live,
         spawner'[s].rec = spawner[s].rec
  PROVE  FALSE
  <1> DEFINE r == spawner[s].rec
  <1>1. SessionTypeOK /\ NoSpawner \notin Spawner
    BY SessionAssumption DEF SessionFits
  \* It left before.
  <1>2. ASSUME worker[s] = "left" PROVE FALSE
    <2>1. loaded[s] = s
      BY <1>2, BriefLoaded
    <2>2. record'[r] = record[r]
      <3>1. CASE spawner[s].at \in {"over", "wait", "clean"}
        BY <1>2, <3>1, RecordWriters
           DEF MarkVanished, Claims, Claim, MarkStarting, EndLaunch, RecoverAbandoned, SpawnerGoes, Loaded
      <3>2. CASE AwaitWorker(s) \/ AwaitEnds(s) \/ CleanUp(s)
        BY <3>2 DEF AwaitWorker, AwaitEnds, CleanUp
      <3> QED
        BY <1>2, <3>1, <3>2, OverBegins
    <2>3. CASE spawner[s].at = "over"
      BY <1>2, <2>1, <2>2, <2>3 DEF LeftOver
    <2>4. CASE (AwaitWorker(s) \/ AwaitEnds(s)) /\ ~FoundError(s)
      <3>1. spawner[s].at = "wait" /\ Ladder(s)
        BY <2>4 DEF AwaitWorker, AwaitEnds, Uses, Spawning
      <3> QED
        BY <1>1, <1>2, <2>1, <2>2, <2>4, <3>1 DEF Ladder, Live
    <2>5. CASE CleanUp(s)
      <3>1. spawner[s].at = "clean" /\ Ladder(s)
        BY <2>5 DEF CleanUp, SpawnerGoes, Uses, Spawning
      <3> QED
        BY <2>2, <3>1 DEF Ladder
    <2> QED
      BY <1>2, <2>3, <2>4, <2>5, OverBegins
  \* It leaves now.
  <1>3. ASSUME worker[s] # "left" PROVE FALSE
    <2>1. (LoadBrief(s) /\ Leaves(s, "load")) \/ CloseOwnPane(s) \/ AgentFailsToStart(s) \/ WorkerEnds(s)
      BY <1>3, LeavesNow
    <2>2. UNCHANGED <<spawner, loaded>>
      BY <2>1 DEF LoadBrief, CloseOwnPane, AgentFailsToStart, WorkerEnds, Leaves
    <2>3. Ladder(s) /\ loaded[s] = s /\ spawner[s].at = "over"
      BY <1>1, <2>1, <2>2 DEF SessionTypeOK, LoadBrief, CloseOwnPane, AgentFailsToStart, WorkerEnds, Leaves, Uses
    <2>4. CASE Leaves(s, "load")
      BY <1>1, <2>3, <2>4 DEF Leaves, SessionFits, BriefsFit
    <2>5. CASE CloseOwnPane(s) \/ WorkerEnds(s)
      BY <2>3, <2>5 DEF CloseOwnPane, WorkerEnds, Leaves, Ladder, Live
    <2>6. CASE AgentFailsToStart(s)
      <3>1. worker[s] = "launch" /\ RecordExit(s) /\ RecordOf(s) = r
        BY <2>3, <2>6 DEF AgentFailsToStart, Leaves, RecordOf
      <3>2. record[r].state = "running"
        BY <2>3, <3>1 DEF Ladder
      <3>3. PICK state \in {"done", "failed"} : Writes(r, state)
        BY <3>1, <3>2 DEF RecordExit, Live
      <3>4. record'[r].state = state
        BY <1>1, <3>3, RecordWritten DEF EndedAs
      <3> QED
        BY <3>4 DEF Live
    <2> QED
      BY <2>1, <2>4, <2>5, <2>6
  <1> QED
    BY <1>2, <1>3

LEMMA RecordsStillFit ==
  ASSUME SessionInv, NEW s \in Spawner, Acts(s)
  PROVE  RecordsFit'
  <1>1. /\ SessionFits /\ SessionTypeOK /\ OneUser /\ ErrorsFit /\ RecordsFit /\ SessionFits'
        /\ NoSpawner \notin Spawner
    BY SessionStillFits, SessionAssumption DEF SessionInv, SessionFits, SessionNext, Acts
  <1>2. SUFFICES ASSUME NEW w \in Spawner, Alone(w)'
                 PROVE  (Uses(w)' => Ladder(w)') /\ LeftOver(w)'
    BY DEF RecordsFit
  <1>3. OwnBriefs /\ OwnBriefs'
    BY <1>1, <1>2, WorkersGoOn DEF OwnBriefs, Alone, SessionTypeOK
  <1>4. spawner[w].at # "new" =>
            /\ spawner'[w].rec = spawner[w].rec /\ spawner[w].rec \in Record
            /\ Alone(w) /\ spawner[w].rec \notin shared'
    BY <1>1, <1>2, <1>3, ClaimsStay, HistoriesGrow, RolesAndRecords DEF Alone
  <1>5. Uses(w) => spawner[w].at # "new"
    BY <1>1 DEF Uses, Spawning, SessionFits, PanesFit, Claimed
  <1>6. ASSUME Uses(w)' PROVE Ladder(w)'
    <2>1. CASE w = s /\ ~Uses(s)
      BY <1>1, <1>6, <2>1, ClaimMakesUser, LadderOfClaim
    <2>2. CASE w = s /\ Uses(s)
      <3>1. Alone(s) /\ Ladder(s)
        BY <1>1, <1>4, <1>5, <2>2 DEF RecordsFit
      <3>2. spawner[s].at # "new"
        BY <1>5, <2>2
      <3> QED
        BY <1>1, <1>3, <1>6, <2>2, <3>1, <3>2, LadderOfSpawner, LadderOfWorker, LadderOfDone
           DEF Acts, SpawnFresh, Resume
    <2>3. CASE w # s
      <3>1. Uses(w)
        BY <1>1, <1>6, <2>3, SpawnersMove, PanesMove DEF Uses
      <3>2. Ladder(w)
        BY <1>1, <1>4, <1>5, <3>1 DEF RecordsFit
      <3> QED
        BY <1>1, <1>3, <1>4, <1>5, <2>3, <3>1, <3>2, LadderOfOthers
    <2> QED
      BY <2>1, <2>2, <2>3
  <1>7. LeftOver(w)'
    <2>1. SUFFICES ASSUME worker'[w] = "left", loaded'[w] = w, spawner'[w].at = "over",
                          record'[spawner'[w].rec].pane = w, record'[spawner'[w].rec].state \in Live
                   PROVE  FALSE
      BY DEF LeftOver
    <2>2. CASE w # s
      <3>1. /\ worker[w] = "left" /\ loaded[w] = w /\ spawner[w].at = "over"
            /\ spawner'[w].rec = spawner[w].rec
        BY <1>1, <2>1, <2>2, SpawnersMove, PanesMove
      <3>2. record'[spawner[w].rec] = record[spawner[w].rec]
        BY <1>1, <1>3, <1>4, <2>1, <2>2, <3>1, HistoriesGrow, OthersLeaveLive
      <3> QED
        BY <1>1, <1>4, <2>1, <3>1, <3>2 DEF RecordsFit, LeftOver
    <2>3. CASE w = s
      <3>1. spawner[s].at # "new"
        BY <1>1, <2>1, <2>3, BeginsAlone
      <3> QED
        BY <1>1, <1>3, <1>4, <2>1, <2>3, <3>1, LeftOverOwn DEF RecordsFit
    <2> QED
      BY <2>2, <2>3
  <1> QED
    BY <1>6, <1>7
LEMMA SessionInvStarts == SessionInit => SessionInv
  <1> SUFFICES ASSUME SessionInit PROVE SessionInv
    OBVIOUS
  <1>1. SessionFits
    BY SessionStarts
  <1>2. \A s \in Spawner : /\ spawner[s].at = "new" /\ pane[s] = "none" /\ worker[s] = "none"
                           /\ loaded[s] = NoSpawner
    BY DEF SessionInit
  <1>3. \A k \in Record \cup Spawner : startError[k] = {}
    BY DEF SessionInit
  <1>4. OneUser
    BY <1>2 DEF OneUser, Uses, Spawning
  <1>5. RolesAreApart
    BY <1>2 DEF RolesAreApart, OwnBriefs, Awaits
  <1>6. ErrorsFit
    BY <1>2, <1>3 DEF ErrorsFit
  <1>7. RecordsFit
    BY <1>2 DEF RecordsFit, Uses, Spawning, LeftOver
  <1> QED
    BY <1>1, <1>4, <1>5, <1>6, <1>7 DEF SessionInv

LEMMA FiveMinutesPass ==
  ASSUME SessionInv, NEW r \in Record, FiveMinutes(r)
  PROVE  RolesAreApart' /\ ErrorsFit' /\ RecordsFit'
  <1>1. /\ SessionFits /\ SessionTypeOK
        /\ UNCHANGED <<spawner, pane, worker, loaded, brief, startError, reported, informed, late, shared>>
    BY DEF SessionInv, SessionFits, FiveMinutes, inPane, mailbox, histories
  <1>2. \A q \in Record : /\ record'[q].state = record[q].state /\ record'[q].pane = record[q].pane
                          /\ record'[q].role = record[q].role /\ record'[q].summed = record[q].summed
    <2>1. record \in [Record -> RecordData]
      BY <1>1 DEF SessionTypeOK
    <2> QED
      BY <2>1 DEF FiveMinutes, RecordData
  <1>3. \A k \in Spawner : spawner[k].at # "new" => spawner[k].rec \in Record
    BY <1>1, RolesAndRecords
  <1>4. RolesAreApart'
    BY <1>1, <1>2, <1>3 DEF SessionInv, RolesAreApart, OwnBriefs, Awaits
  <1>5. ErrorsFit'
    BY <1>1 DEF SessionInv, ErrorsFit, Alone, OwnBriefs, FoundError
  <1>6. ASSUME NEW w \in Spawner, Alone(w)' PROVE (Uses(w)' => Ladder(w)') /\ LeftOver(w)'
    <2>1. Alone(w) /\ (Uses(w)' <=> Uses(w))
      BY <1>1, <1>6 DEF Alone, OwnBriefs, Uses
    <2>2. Uses(w) => spawner[w].at # "new"
      BY <1>1 DEF Uses, Spawning, SessionFits, PanesFit, Claimed
    <2>3. Uses(w) => Ladder(w)'
      <3>1. Uses(w) => Ladder(w)
        BY <2>1 DEF SessionInv, RecordsFit
      <3> QED
        BY <1>1, <1>2, <1>3, <2>2, <3>1 DEF Ladder, FoundError
    <2>4. LeftOver(w)'
      <3>1. LeftOver(w)
        BY <2>1 DEF SessionInv, RecordsFit
      <3> QED
        BY <1>1, <1>2, <1>3, <3>1 DEF LeftOver
    <2> QED
      BY <2>1, <2>3, <2>4
  <1> QED
    BY <1>4, <1>5, <1>6 DEF RecordsFit

LEMMA SessionInvStays == SessionInv /\ [SessionNext]_sessionVars => SessionInv'
  <1> SUFFICES ASSUME SessionInv, [SessionNext]_sessionVars PROVE SessionInv'
    OBVIOUS
  <1>1. SessionFits' /\ OneUser'
    BY SessionStillFits, OneUserStays DEF SessionInv
  <1>2. CASE UNCHANGED sessionVars
    <2>1. UNCHANGED <<record, spawner, pane, worker, loaded, brief, startError, reported, informed, late, shared>>
      BY <1>2 DEF sessionVars, inPane, mailbox, histories
    <2>2. RolesAreApart'
      BY <2>1 DEF SessionInv, RolesAreApart, OwnBriefs, Awaits
    <2>3. ErrorsFit'
      BY <2>1 DEF SessionInv, ErrorsFit, Alone, OwnBriefs, FoundError
    <2>4. RecordsFit'
      <3>1. \A w \in Spawner : (Alone(w)' <=> Alone(w)) /\ (Uses(w)' <=> Uses(w))
        BY <2>1 DEF Alone, OwnBriefs, Uses
      <3>2. \A w \in Spawner : LeftOver(w)' <=> LeftOver(w)
        BY <2>1 DEF LeftOver
      <3>3. ASSUME NEW w \in Spawner, Ladder(w) PROVE Ladder(w)'
        BY <2>1, <3>3 DEF Ladder, FoundError
      <3> QED
        BY <3>1, <3>2, <3>3 DEF SessionInv, RecordsFit
    <2> QED
      BY <1>1, <2>2, <2>3, <2>4 DEF SessionInv
  <1>3. ASSUME NEW s \in Spawner, Acts(s) PROVE SessionInv'
    BY <1>1, <1>3, RolesStayApart, ErrorsStillFit, RecordsStillFit DEF SessionInv
  <1>4. ASSUME NEW r \in Record, FiveMinutes(r) PROVE SessionInv'
    BY <1>1, <1>4, FiveMinutesPass DEF SessionInv
  <1> QED
    BY <1>2, <1>3, <1>4 DEF SessionNext, Acts

\* What a record, a spawner, its pane and its worker are at any time, who uses
\* a record, and how far it is: for any number of spawners, records and roles.
THEOREM SessionInvariant == SessionSpec => []SessionInv
  <1> QED
    BY SessionInvStarts, SessionInvStays, PTL DEF SessionSpec

\* Every record, spawner, worker and mailbox entry has its type; a worker that
\* runs has its pane.
THEOREM SessionTypeCorrect == SessionSpec => []SessionTypeOK
  <1>1. SessionInv => SessionTypeOK
    BY DEF SessionInv, SessionFits
  <1> QED
    BY <1>1, SessionInvariant, PTL

\* A worker runs the brief of its own spawner: claim, the brief and the mailbox
\* keep a role for one spawner until its worker has read the brief.
THEOREM BriefsAreOwn == SessionSpec => []BriefIsItsOwn
  <1>1. SessionInv => BriefIsItsOwn
    BY DEF SessionInv, RolesAreApart, BriefIsItsOwn, OwnBriefs
  <1> QED
    BY <1>1, SessionInvariant, PTL

\* The record of an agent that runs alone is live, or holds its summary, in any
\* order of what its spawner, its worker, its `done` and a recovery write.
THEOREM AgentsAreLive == SessionSpec => []AgentIsLive
  <1>1. SessionInv => AgentIsLive
    <2> SUFFICES ASSUME SessionInv, NEW w \in Spawner, worker[w] = "agent", Own(w)
                 PROVE  record[RecordOf(w)].state \in Live \/ record[RecordOf(w)].summed
      BY DEF AgentIsLive
    <2>1. OwnBriefs /\ RecordOf(w) = spawner[w].rec /\ Alone(w)
      BY DEF Own, OwnBriefs, RecordOf, Alone
    <2>2. Uses(w)
      BY <2>1, WorkersUse DEF SessionInv, Loaded
    <2>3. Ladder(w)
      BY <2>1, <2>2 DEF SessionInv, RecordsFit
    <2> QED
      BY <2>1, <2>3 DEF Ladder, Live
  <1> QED
    BY <1>1, SessionInvariant, PTL

\* A worker that left, of a spawner that is through with it, is not live in its
\* record, in whatever order mark_starting and record_exit came.
THEOREM NoPhantomIsLeft == SessionSpec => []LeftIsEnded
  <1>1. SessionInv => LeftIsEnded
    <2> SUFFICES ASSUME SessionInv, NEW w \in Spawner, worker[w] = "left", spawner[w].at = "over", Own(w)
                 PROVE  record[RecordOf(w)].pane # w \/ record[RecordOf(w)].state \notin Live
      BY DEF LeftIsEnded
    <2>1. loaded[w] = w /\ RecordOf(w) = spawner[w].rec /\ Alone(w)
      BY DEF Own, OwnBriefs, RecordOf, Alone
    <2> QED
      BY <2>1 DEF SessionInv, RecordsFit, LeftOver
  <1> QED
    BY <1>1, SessionInvariant, PTL

\* Every agent that left is known: its report is queued or its worker told.
THEOREM LeaversAreKnown == SessionSpec => []LeftIsKnown
  <1>1. SessionInv => LeftIsKnown
    <2> SUFFICES ASSUME SessionInv PROVE LeftIsKnown
      OBVIOUS
    <2>1. ASSUME NEW w \in Spawner, worker[w] = "exited", Own(w) PROVE w \in reported \cup informed
      <3>1. OwnBriefs /\ Alone(w)
        BY <2>1 DEF Own, OwnBriefs, RecordOf, Alone
      <3>2. Uses(w)
        BY <2>1, <3>1, WorkersUse DEF SessionInv, Loaded
      <3>3. Ladder(w)
        BY <3>1, <3>2 DEF SessionInv, RecordsFit
      <3> QED
        BY <2>1, <3>3 DEF Ladder
    <2>2. \A w \in Spawner : doing[w] \in {"mark"} => w \in reported
      BY DEF SessionInv, SessionFits, PanesFit
    <2> QED
      BY <2>1, <2>2 DEF LeftIsKnown
  <1> QED
    BY <1>1, SessionInvariant, PTL


-----------------------------------------------------------------------------
(***************************************************************************)
(* The session beside the seat, the close and the mail (MCServices).       *)
(***************************************************************************)
\* Whichever service a behaviour plays, what is known of each of them holds.
ServicesInv == SeatInv /\ CloseInv /\ CourierTypeOK /\ SessionInv

LEMMA ServicesInvStarts == ServicesInit => ServicesInv
  BY SeatInitInv, CloseInitInv, CourierInitInv, SessionInvStarts
     DEF ServicesInit, ServicesInv, CourierInv

\* A step of one service leaves the others alone.
LEMMA ServicesInvStays ==
  ASSUME ServicesInv, [ServicesNext]_servicesVars
  PROVE  ServicesInv'
  <1>1. /\ [SeatNext]_seatVars /\ [CloseNext]_closeVars
        /\ [CourierNext]_mailVars /\ [SessionNext]_sessionVars
    BY DEF ServicesNext, SeatScene, CloseScene, WorkScene, GatesScene, MailScene, SessionScene, servicesVars
  <1>2. SeatInv' /\ CloseInv'
    BY <1>1, SeatNextInv, CloseInvKept DEF ServicesInv
  <1>3. CourierTypeOK'
    BY <1>1, CourierNextTypes DEF ServicesInv
  <1>4. SessionInv'
    BY <1>1, SessionInvStays DEF ServicesInv
  <1> QED
    BY <1>2, <1>3, <1>4 DEF ServicesInv

\* The services around the ledger are well typed, for any number of runs,
\* launchers, closes, mails, couriers, spawners and records.
THEOREM ServicesAreTyped == ServicesSpec => []ServicesTypeOK
  <1>1. ServicesInv => ServicesTypeOK
    BY DEF ServicesInv, ServicesTypeOK, SeatInv, CloseInv, SessionInv, SessionFits
  <1>2. ServicesInv /\ [ServicesNext]_servicesVars => ServicesInv'
    BY ServicesInvStays
  <1> QED
    BY <1>1, <1>2, ServicesInvStarts, PTL DEF ServicesSpec
=============================================================================
