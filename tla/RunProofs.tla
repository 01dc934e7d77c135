-------------------------------- MODULE RunProofs --------------------------------
(***************************************************************************)
(* Theorems about a run: its seat, for any number of runs, workspaces and  *)
(* launchers (module Seat), and its end (module RunClose).                 *)
(***************************************************************************)
EXTENDS Seat, RunClose, FiniteSetTheorems, TLAPS

-----------------------------------------------------------------------------
(***************************************************************************)
(* The seat.  That it is kept needs that the row of a run is where its     *)
(* agent runs (RowIsThere), whatever else became of the workspace.         *)
(***************************************************************************)

\* What a launcher holds: a workspace while it lives, a run that exists.
LaunchersKnown ==
    \A l \in Launcher :
        /\ launcher[l].run \in born \cup {NoRun}
        /\ At(l, "new") => launcher[l].in = NoWorkspace
        /\ ~At(l, "new") /\ ~At(l, "gone") => launcher[l].in \in Workspace

\* The row of a run is where its agent runs.
RowIsThere == \A l \in Launcher : \A r \in active : Runs(l, r) => row[r].in = launcher[l].in

SeatInv == SeatTypeOK /\ LaunchersKnown /\ SeatIsKept /\ RowIsThere

LauncherState ==
    [at : {"new", "lock", "choose", "claim", "route", "runs", "gone"},
     in : Workspace \cup {NoWorkspace}, slug : Run \cup {NoRun}, run : Run \cup {NoRun}]

RowState ==
    [status : {"none", "spawning", "working", "ended"},
     in : Workspace \cup {NoWorkspace}, pid : Launcher \cup {NoPid}]

LEMMA SeatTypes ==
    /\ NoRow \in RowState /\ NoRow.in = NoWorkspace
    /\ Gone \in LauncherState /\ Gone.at = "gone" /\ Gone.in = NoWorkspace /\ Gone.run = NoRun
    /\ Unborn \in LauncherState /\ Unborn.at = "new" /\ Unborn.in = NoWorkspace /\ Unborn.run = NoRun
  BY DEF NoRow, Gone, Unborn, RowState, LauncherState

LEMMA SeatInitInv == SeatInit => SeatInv
  <1> SUFFICES ASSUME SeatInit PROVE SeatInv
    OBVIOUS
  <1> USE SeatTypes
  <1>1. SeatTypeOK
    <2>1. row \in [Run -> RowState] /\ launcher \in [Launcher -> LauncherState]
      BY DEF SeatInit
    <2>2. \A l \in Launcher : launcher[l].at = "new" /\ l > started
      BY SeatAssumption DEF SeatInit, Launcher
    <2> QED
      BY <2>1, <2>2, SeatAssumption DEF SeatInit, SeatTypeOK, RowState, LauncherState, Inside, NoPid
  <1>2. LaunchersKnown /\ SeatIsKept /\ RowIsThere
    BY DEF SeatInit, LaunchersKnown, SeatIsKept, RowIsThere, At, Runs
  <1> QED
    BY <1>1, <1>2 DEF SeatInv

\* A step on the rows keeps the seats when the row of a run that an agent runs
\* stays where it is.
LEMMA RowStep ==
    ASSUME SeatInv, row' \in [Run -> RowState], UNCHANGED <<launcher, started, route, spaces>>,
           active' \subseteq born', born \subseteq born', born' \subseteq Run,
           {stopped', recent'} \subseteq SUBSET born',
           home' \in [Run -> Workspace \cup {NoWorkspace}],
           respawns' \in [Run -> 0 .. MaxRespawns],
           decided' \in [Run -> Workspace \cup {NoWorkspace}],
           \A q \in active' : q \in active \/ q \notin born,
           \A q \in active : (\E l \in Launcher : Runs(l, q)) =>
               home'[q] = home[q] /\ row'[q].in = row[q].in
    PROVE  SeatInv'
  <1>1. SeatTypeOK'
    BY DEF SeatInv, SeatTypeOK, RowState
  <1>2. LaunchersKnown'
    BY DEF SeatInv, LaunchersKnown, At
  <1>3. \A q \in active', l \in Launcher : Runs(l, q)' => q \in active /\ Runs(l, q)
    BY SeatAssumption DEF SeatInv, LaunchersKnown, Runs, SeatTypeOK
  <1>4. SeatIsKept'
    BY <1>3 DEF SeatInv, SeatIsKept, At, Runs
  <1>5. RowIsThere'
    BY <1>3 DEF SeatInv, RowIsThere, Runs
  <1> QED
    BY <1>1, <1>2, <1>4, <1>5 DEF SeatInv

LEMMA EndedRow ==
    ASSUME SeatInv, NEW r \in Run
    PROVE  Ended(r) \in [Run -> RowState] /\ \A q \in Run : Ended(r)[q].in = row[q].in
  BY DEF SeatInv, SeatTypeOK, RowState, Ended

\* The steps that leave the launchers alone.
LEMMA LedgerSteps ==
    ASSUME SeatInv, NEW r \in Run,
           \/ \E w \in Workspace \cup {NoWorkspace} : NewRun(r, w)
           \/ \E w \in Workspace : AdoptWorkspace(r, w)
           \/ RecordStop(r) \/ CloseRun(r) \/ Check(r) \/ LaunchFails(r) \/ TenMinutes(r)
    PROVE  SeatInv'
  <1>1. ASSUME NEW w \in Workspace \cup {NoWorkspace}, NewRun(r, w) PROVE SeatInv'
    <2>1. row' \in [Run -> RowState] /\ \A q \in Run \ {r} : row'[q] = row[q]
      BY <1>1 DEF NewRun, SeatInv, SeatTypeOK, RowState, NoPid
    <2> QED
      BY <1>1, <2>1, RowStep DEF NewRun, SeatInv, SeatTypeOK, outside
  <1>2. ASSUME NEW w \in Workspace, AdoptWorkspace(r, w) PROVE SeatInv'
    <2>1. \A l \in Launcher : ~(r \in active /\ Runs(l, r))
      BY <1>2, SeatAssumption
         DEF AdoptWorkspace, SeatInv, LaunchersKnown, SeatIsKept, Runs, At
    <2> QED
      BY <1>2, <2>1, RowStep DEF AdoptWorkspace, SeatInv, SeatTypeOK, RowState, outside
  <1>3. CASE RecordStop(r)
    BY <1>3, RowStep DEF RecordStop, SeatInv, SeatTypeOK, RowState, outside
  <1>4. CASE CloseRun(r)
    BY <1>4, RowStep, EndedRow DEF CloseRun, SeatInv, SeatTypeOK, outside
  <1>5. CASE Register(r)
    <2>1. row' \in [Run -> RowState] /\ \A q \in Run : row'[q].in = row[q].in
      <3>1. PICK l \in Launcher : row' = [row EXCEPT ![r].pid = l, ![r].status = "working"]
        BY <1>5 DEF Register, Holder
      <3>2. row \in [Run -> RowState]
        BY DEF SeatInv, SeatTypeOK, RowState
      <3>3. [row[r] EXCEPT !.pid = l, !.status = "working"] \in RowState
        BY <3>2 DEF RowState
      <3>4. row' = [row EXCEPT ![r] = [row[r] EXCEPT !.pid = l, !.status = "working"]]
        BY <3>1, <3>2
      <3>5. [row[r] EXCEPT !.pid = l, !.status = "working"].in = row[r].in
        BY <3>2 DEF RowState
      <3> QED
        BY <3>2, <3>3, <3>4, <3>5
    <2> QED
      BY <1>5, <2>1, RowStep DEF Register, SeatInv, SeatTypeOK, outside
  <1>6. CASE EndWithoutRespawn(r)
    BY <1>6, RowStep, EndedRow DEF EndWithoutRespawn, SeatInv, SeatTypeOK, outside
  <1>7. CASE Respawn(r)
    <2>1. \A l \in Launcher : ~(r \in active /\ Runs(l, r))
      BY <1>7, SeatAssumption
         DEF Respawn, IsDead, Checks, SeatOf, Holder, Inside, SeatInv, LaunchersKnown, SeatIsKept,
             RowIsThere, Runs, At
    <2>2. SeatOf(r) \in Workspace \cup {NoWorkspace}
      BY DEF SeatOf, SeatInv, SeatTypeOK
    <2>3. row' \in [Run -> RowState] /\ \A q \in Run \ {r} : row'[q] = row[q]
      BY <1>7, <2>2 DEF Respawn, SeatInv, SeatTypeOK, RowState, NoPid
    <2>4. respawns' \in [Run -> 0 .. MaxRespawns]
      BY <1>7, SeatAssumption DEF Respawn, SeatInv, SeatTypeOK
    <2>5. r \in active
      BY <1>7 DEF Respawn, IsDead, Checks
    <2> QED
      BY <1>7, <2>1, <2>2, <2>3, <2>4, <2>5, RowStep DEF Respawn, SeatInv, SeatTypeOK, outside
  <1>8. CASE LaunchFails(r)
    BY <1>8, RowStep DEF LaunchFails, SeatInv, SeatTypeOK, RowState, outside, ledger
  <1>9. CASE TenMinutes(r)
    BY <1>9, RowStep DEF TenMinutes, SeatInv, SeatTypeOK, RowState, outside
  <1> QED
    BY <1>1, <1>2, <1>3, <1>4, <1>5, <1>6, <1>7, <1>8, <1>9 DEF Check

\* A launcher that goes to a place inside comes from inside, or finds nobody there.
LEMMA LauncherMoves ==
    ASSUME SeatInv, NEW l \in Launcher, NEW x \in LauncherState,
           launcher' = [launcher EXCEPT ![l] = x],
           x.at # "new", started' \in 0 .. MaxLaunches,
           \A k \in Launcher \ {l} : k > started <=> k > started',
           l <= started',
           x.at \in Inside => \A k \in Launcher \ {l} :
               launcher[k].at \in Inside => launcher[k].in # x.in
    PROVE  /\ launcher' \in [Launcher -> LauncherState]
           /\ \A k \in Launcher : launcher'[k] = IF k = l THEN x ELSE launcher[k]
           /\ \A k \in Launcher : launcher'[k].at = "new" <=> k > started'
           /\ \A j, k \in Launcher :
                 {launcher'[j].at, launcher'[k].at} \subseteq Inside /\ launcher'[j].in = launcher'[k].in
                    => j = k
  <1>1. launcher \in [Launcher -> LauncherState]
    BY DEF SeatInv, SeatTypeOK, LauncherState
  <1>2. \A k \in Launcher : launcher'[k] = IF k = l THEN x ELSE launcher[k]
    BY <1>1
  <1>3. launcher' \in [Launcher -> LauncherState]
    BY <1>1
  <1>4. \A k \in Launcher : launcher'[k].at = "new" <=> k > started'
    <2>1. l \in Nat /\ started' \in Nat
      BY SeatAssumption DEF Launcher
    <2>2. ~(l > started')
      BY <2>1
    <2>3. \A k \in Launcher : launcher[k].at = "new" <=> k > started
      BY DEF SeatInv, SeatTypeOK
    <2> QED
      BY <1>2, <2>2, <2>3
  <1>5. ASSUME NEW j \in Launcher, NEW k \in Launcher,
               {launcher'[j].at, launcher'[k].at} \subseteq Inside, launcher'[j].in = launcher'[k].in
        PROVE  j = k
    <2>1. CASE j # l /\ k # l
      BY <1>2, <1>5, <2>1 DEF SeatInv, SeatTypeOK
    <2>2. CASE j = l \/ k = l
      BY <1>2, <1>5, <2>2
    <2> QED
      BY <2>1, <2>2
  <1> QED
    BY <1>2, <1>3, <1>4, <1>5

\* A launch, and a run that waited for it.
LEMMA Started ==
    ASSUME SeatInv, NEW w \in Workspace, NEW s \in Run \cup {NoRun}, Starts(w, s),
           UNCHANGED <<ledger, spaces, route>>,
           decided' \in [Run -> Workspace \cup {NoWorkspace}]
    PROVE  SeatInv'
  <1> DEFINE new == [at |-> "lock", in |-> w, slug |-> s, run |-> NoRun]
             l == started + 1
  <1>1. /\ started \in 0 .. MaxLaunches /\ MaxLaunches \in Nat
        /\ started' = l /\ l \in Launcher
        /\ launcher' = [launcher EXCEPT ![l] = new]
    BY SeatAssumption DEF Starts, SeatInv, SeatTypeOK, Launcher
  <1>2. new \in LauncherState /\ new.at \notin Inside /\ new.at # "new"
    BY DEF LauncherState, Inside
  <1>3. \A k \in Launcher \ {l} : k > started <=> k > started'
    BY <1>1 DEF Launcher
  <1>4. started' \in 0 .. MaxLaunches /\ l <= started'
    BY <1>1 DEF Launcher
  <1> HIDE DEF new, l
  <1>5. /\ launcher' \in [Launcher -> LauncherState]
        /\ \A k \in Launcher : launcher'[k] = IF k = l THEN new ELSE launcher[k]
        /\ \A k \in Launcher : launcher'[k].at = "new" <=> k > started'
        /\ \A j, k \in Launcher :
              {launcher'[j].at, launcher'[k].at} \subseteq Inside /\ launcher'[j].in = launcher'[k].in
                 => j = k
    BY <1>1, <1>2, <1>3, <1>4, LauncherMoves
  <1>6. SeatTypeOK'
    BY <1>4, <1>5 DEF SeatInv, SeatTypeOK, LauncherState, ledger
  <1>7. LaunchersKnown'
    BY <1>5 DEF SeatInv, LaunchersKnown, At, ledger, new
  <1>8. SeatIsKept' /\ RowIsThere'
    BY <1>5 DEF SeatInv, SeatIsKept, RowIsThere, Runs, At, ledger, new
  <1> QED
    BY <1>6, <1>7, <1>8 DEF SeatInv

\* A launcher that goes on, or out, and leaves the ledger alone.
LEMMA LauncherGoes ==
    ASSUME SeatInv, NEW l \in Launcher, NEW x \in LauncherState,
           launcher' = [launcher EXCEPT ![l] = x],
           launcher[l].at # "new", x.at # "new",
           x.at \in Inside => /\ x.in = launcher[l].in
                              /\ launcher[l].at \in Inside \/ Holder(x.in) = {},
           x.at # "gone" => x.in \in Workspace,
           x.run \in born \cup {NoRun},
           x.at = "runs" => launcher[l].at = "runs" \/ route' = [route EXCEPT ![x.in] = l],
           x.at \in {"route", "runs"} => x.run \notin active \/ Runs(l, x.run),
           UNCHANGED <<ledger, decided, spaces, started>>,
           route' = route \/ (x.at = "runs" /\ route' = [route EXCEPT ![x.in] = l])
    PROVE  SeatInv'
  <1>1. l <= started /\ started \in 0 .. MaxLaunches
    <2>1. ~(l > started) /\ l \in Nat /\ started \in Nat
      BY SeatAssumption DEF SeatInv, SeatTypeOK, Launcher
    <2> QED
      BY <2>1 DEF SeatInv, SeatTypeOK
  <1>2. x.at \in Inside => \A k \in Launcher \ {l} :
           launcher[k].at \in Inside => launcher[k].in # x.in
    BY DEF SeatInv, SeatTypeOK, Holder
  <1>3. /\ launcher' \in [Launcher -> LauncherState]
        /\ \A k \in Launcher : launcher'[k] = IF k = l THEN x ELSE launcher[k]
        /\ \A k \in Launcher : launcher'[k].at = "new" <=> k > started'
        /\ \A j, k \in Launcher :
              {launcher'[j].at, launcher'[k].at} \subseteq Inside /\ launcher'[j].in = launcher'[k].in
                 => j = k
    BY <1>1, <1>2, LauncherMoves
  <1>4. SeatTypeOK'
    BY <1>3 DEF SeatInv, SeatTypeOK, LauncherState, ledger, Inside
  <1>5. LaunchersKnown'
    BY <1>3 DEF SeatInv, LaunchersKnown, At, ledger
  <1>6. \A k \in Launcher, r \in active' : Runs(k, r)' => Runs(k, r) /\ launcher'[k].in = launcher[k].in
    BY <1>3 DEF Runs, ledger, Inside
  <1>7. ASSUME NEW k \in Launcher, At(k, "runs")' PROVE route'[launcher'[k].in] = k
    <2>1. CASE k = l
      BY <1>3, <1>7, <2>1 DEF SeatInv, SeatIsKept, SeatTypeOK, At, Inside
    <2>2. CASE k # l
      <3>1. launcher'[k] = launcher[k] /\ launcher[k].at = "runs"
        BY <1>3, <1>7, <2>2 DEF At
      <3>2. route[launcher[k].in] = k /\ launcher[k].in \in Workspace
        BY <3>1 DEF SeatInv, SeatIsKept, LaunchersKnown, At
      <3>3. route \in [Workspace -> Launcher \cup {NoPid}]
        BY DEF SeatInv, SeatTypeOK
      <3> QED
        BY <1>2, <2>2, <3>1, <3>2, <3>3 DEF Inside
    <2> QED
      BY <2>1, <2>2
  <1>8. SeatIsKept' /\ RowIsThere'
    BY <1>6, <1>7 DEF SeatInv, SeatIsKept, RowIsThere, ledger
  <1> QED
    BY <1>4, <1>5, <1>8 DEF SeatInv

\* A claim: nobody runs the run elsewhere, and nobody else holds the workspace.
LEMMA ClaimSeats == ASSUME SeatInv, NEW l \in Launcher, ClaimRun(l) PROVE SeatInv'
  <1> DEFINE r == launcher[l].run
             w == launcher[l].in
             x == [launcher[l] EXCEPT !.at = "route"]
  <1>1. /\ launcher \in [Launcher -> LauncherState] /\ row \in [Run -> RowState]
        /\ active \subseteq born /\ born \subseteq Run
        /\ launcher[l].at = "claim" /\ r \in active /\ w \in Workspace
    BY DEF SeatInv, SeatTypeOK, LauncherState, RowState, LaunchersKnown, At, ClaimRun
  <1>2. /\ launcher' = [launcher EXCEPT ![l] = x] /\ x \in LauncherState
        /\ x.at = "route" /\ x.in = w /\ x.run = r
    BY <1>1 DEF ClaimRun, Goes, LauncherState
  <1>3. l <= started /\ started \in 0 .. MaxLaunches
    <2>1. ~(l > started) /\ l \in Nat /\ started \in Nat
      BY <1>1, SeatAssumption DEF SeatInv, SeatTypeOK, Launcher
    <2> QED
      BY <2>1 DEF SeatInv, SeatTypeOK
  <1>4. \A k \in Launcher \ {l} : launcher[k].at \in Inside => launcher[k].in # w
    BY <1>1 DEF SeatInv, SeatTypeOK, Inside
  <1>5. /\ launcher' \in [Launcher -> LauncherState]
        /\ \A k \in Launcher : launcher'[k] = IF k = l THEN x ELSE launcher[k]
        /\ \A k \in Launcher : launcher'[k].at = "new" <=> k > started'
        /\ \A j, k \in Launcher :
              {launcher'[j].at, launcher'[k].at} \subseteq Inside /\ launcher'[j].in = launcher'[k].in
                 => j = k
    <2> HIDE DEF x, w
    <2> QED
      BY <1>2, <1>3, <1>4, LauncherMoves DEF ClaimRun
  <1>6. \A k \in Launcher \ {l} : ~Runs(k, r)
    <2> SUFFICES ASSUME NEW k \in Launcher \ {l}, Runs(k, r) PROVE FALSE
      OBVIOUS
    <2>1. home[r] = launcher[k].in /\ launcher[k].at \in Inside
      BY <1>1 DEF SeatInv, SeatIsKept, Runs, Inside
    <2>2. home[r] # w
      BY <1>4, <2>1
    <2>3. launcher[k].in \in Workspace
      BY <2>1 DEF SeatInv, LaunchersKnown, At, Inside
    <2>4. Refused(l)
      BY <1>1, <2>1, <2>2, <2>3, SeatAssumption DEF Refused, Moves, Holder
    <2> QED
      BY <2>4 DEF ClaimRun
  <1>7. /\ row' \in [Run -> RowState] /\ row'[r].in = w
        /\ \A q \in Run \ {r} : row'[q] = row[q]
    <2>1. SeatedAt(r, w) \in RowState /\ SeatedAt(r, w).in = w
      BY <1>1 DEF SeatedAt, RowState, NoPid
    <2>2. row' = [row EXCEPT ![r] = SeatedAt(r, w)]
      BY DEF ClaimRun
    <2> QED
      BY <1>1, <2>1, <2>2
  <1>8. home' = [home EXCEPT ![r] = w] /\ home \in [Run -> Workspace \cup {NoWorkspace}]
    BY DEF ClaimRun, SeatInv, SeatTypeOK
  <1>9. UNCHANGED <<born, active, respawns, recent, decided, spaces, started, route>>
        /\ stopped' = stopped \ {r}
    BY DEF ClaimRun
  <1> HIDE DEF r, w, x
  <1>10. SeatTypeOK'
    BY <1>1, <1>5, <1>7, <1>8, <1>9 DEF SeatInv, SeatTypeOK, LauncherState, RowState
  <1>11. LaunchersKnown'
    BY <1>1, <1>2, <1>5, <1>9 DEF SeatInv, LaunchersKnown, At
  <1>12. ASSUME NEW k \in Launcher, NEW q \in active', Runs(k, q)'
         PROVE  IF q = r THEN k = l ELSE k # l /\ Runs(k, q) /\ launcher'[k] = launcher[k]
    BY <1>1, <1>2, <1>5, <1>6, <1>9, <1>12 DEF Runs
  <1>13. SeatIsKept'
    <2>1. ASSUME NEW k \in Launcher, NEW q \in active', Runs(k, q)'
          PROVE  home'[q] = launcher'[k].in /\ \A j \in Launcher : Runs(j, q)' => j = k
      <3>1. CASE q = r
        BY <1>1, <1>2, <1>5, <1>8, <1>12, <2>1, <3>1
      <3>2. CASE q # r
        BY <1>1, <1>8, <1>9, <1>12, <2>1, <3>2 DEF SeatInv, SeatIsKept
      <3> QED
        BY <3>1, <3>2
    <2>2. ASSUME NEW k \in Launcher, At(k, "runs")' PROVE route'[launcher'[k].in] = k
      BY <1>2, <1>5, <1>9, <2>2 DEF SeatInv, SeatIsKept, At
    <2> QED
      BY <2>1, <2>2 DEF SeatIsKept
  <1>14. RowIsThere'
    <2> SUFFICES ASSUME NEW k \in Launcher, NEW q \in active', Runs(k, q)'
                 PROVE  row'[q].in = launcher'[k].in
      BY DEF RowIsThere
    <2>1. CASE q = r
      BY <1>2, <1>5, <1>7, <1>12, <2>1
    <2>2. CASE q # r
      BY <1>1, <1>7, <1>9, <1>12, <2>2 DEF SeatInv, RowIsThere
    <2> QED
      BY <2>1, <2>2
  <1> QED
    BY <1>10, <1>11, <1>13, <1>14 DEF SeatInv

\* Every step of a launcher.
LEMMA LauncherSteps ==
    ASSUME SeatInv, NEW l \in Launcher, LauncherStep(l) \/ LauncherEnds(l)
    PROVE  SeatInv'
  <1>0. launcher \in [Launcher -> LauncherState]
    BY DEF SeatInv, SeatTypeOK, LauncherState
  <1>1. ASSUME Ends(l), launcher[l].at # "new",
               UNCHANGED <<ledger, decided, spaces, started, route>>
        PROVE  SeatInv'
    BY <1>1, SeatTypes, LauncherGoes DEF Ends, Inside
  <1>2. ASSUME NEW x \in LauncherState, launcher' = [launcher EXCEPT ![l] = x],
               launcher[l].at \notin {"new", "gone"}, x.in = launcher[l].in,
               x.at \in {"choose", "claim"} \/ (x.at = "route" /\ x.run = NoRun),
               launcher[l].at \in Inside \/ Holder(x.in) = {},
               x.run \in active \cup {NoRun, launcher[l].run},
               UNCHANGED <<ledger, decided, spaces, started, route>>
        PROVE  SeatInv'
    <2>1. x.in \in Workspace /\ x.run \in born \cup {NoRun}
      BY <1>2 DEF SeatInv, SeatTypeOK, LaunchersKnown, At
    <2>2. NoRun \notin active
      BY SeatAssumption DEF SeatInv, SeatTypeOK
    <2> QED
      BY <1>2, <2>1, <2>2, LauncherGoes
  <1>3. CASE TakeLock(l)
    <2>1. CASE LockIsFree(launcher[l].in)
      <3> DEFINE x == [launcher[l] EXCEPT !.at = "choose"]
      <3>1. /\ x \in LauncherState /\ x.at = "choose" /\ x.in = launcher[l].in
            /\ x.run = launcher[l].run /\ launcher' = [launcher EXCEPT ![l] = x]
        BY <1>0, <1>3, <2>1 DEF TakeLock, Goes, LauncherState
      <3> HIDE DEF x
      <3> QED
        BY <1>2, <1>3, <2>1, <3>1 DEF TakeLock, At, LockIsFree
    <2>2. CASE ~LockIsFree(launcher[l].in)
      BY <1>1, <1>3, <2>2 DEF TakeLock, At
    <2> QED
      BY <2>1, <2>2
  <1>4. CASE ChooseRun(l)
    <2>1. PICK run \in active \cup {NoRun} :
             launcher' = [launcher EXCEPT ![l].at = "claim", ![l].run = run]
      <3> DEFINE fit == Fitting(launcher[l].in, launcher[l].slug)
      <3>1. Cardinality(fit) = 1 => fit # {}
        BY FS_EmptySet
      <3>2. fit \subseteq active
        BY DEF Fitting
      <3> HIDE DEF fit
      <3> QED
        BY <1>4, <3>1, <3>2 DEF ChooseRun, fit
    <2> DEFINE x == [launcher[l] EXCEPT !.at = "claim", !.run = run]
    <2>2. run \in Run \cup {NoRun}
      BY DEF SeatInv, SeatTypeOK
    <2>3. /\ x \in LauncherState /\ x.at = "claim" /\ x.in = launcher[l].in
          /\ x.run = run /\ launcher' = [launcher EXCEPT ![l] = x]
      BY <1>0, <2>1, <2>2 DEF LauncherState
    <2> HIDE DEF x
    <2> QED
      BY <1>2, <1>4, <2>3 DEF ChooseRun, At, Inside
  <1>5. CASE ClaimNothing(l)
    <2> DEFINE x == [launcher[l] EXCEPT !.at = "route", !.run = NoRun]
    <2>1. /\ x \in LauncherState /\ x.at = "route" /\ x.in = launcher[l].in
          /\ x.run = NoRun /\ launcher' = [launcher EXCEPT ![l] = x]
      BY <1>0, <1>5 DEF ClaimNothing, LauncherState
    <2> HIDE DEF x
    <2> QED
      BY <1>2, <1>5, <2>1 DEF ClaimNothing, At, Inside
  <1>6. CASE WriteRoute(l)
    <2> DEFINE x == [launcher[l] EXCEPT !.at = "runs"]
    <2>1. /\ x \in LauncherState /\ x.at = "runs" /\ x.in = launcher[l].in
          /\ x.run = launcher[l].run /\ launcher' = [launcher EXCEPT ![l] = x]
      BY <1>0, <1>6 DEF WriteRoute, Goes, LauncherState
    <2>2. launcher[l].at = "route" /\ x.in \in Workspace /\ x.run \in born \cup {NoRun}
      BY <1>6, <2>1 DEF WriteRoute, SeatInv, LaunchersKnown, At
    <2>3. Runs(l, x.run)
      BY <2>1, <2>2 DEF Runs
    <2> HIDE DEF x
    <2> QED
      BY <1>6, <2>1, <2>2, <2>3, LauncherGoes DEF WriteRoute, Inside
  <1>7. CASE ClaimRun(l)
    BY <1>7, ClaimSeats
  <1> QED
    BY <1>1, <1>3, <1>4, <1>5, <1>6, <1>7
       DEF LauncherStep, LauncherEnds, Alive, ClaimRefused, At

LEMMA WorkspaceCloses ==
    ASSUME SeatInv, NEW w \in Workspace, CloseWorkspace(w)
    PROVE  SeatInv'
  <1>1. \A l \in Launcher : launcher'[l] = IF launcher[l].in = w THEN Gone ELSE launcher[l]
    BY DEF CloseWorkspace
  <1>2. launcher \in [Launcher -> LauncherState]
    BY DEF SeatInv, SeatTypeOK, LauncherState
  <1>3. launcher' \in [Launcher -> LauncherState]
    BY <1>2, SeatTypes DEF CloseWorkspace
  <1>4. \A l \in Launcher : launcher[l].at = "new" => launcher[l].in # w
    BY SeatAssumption DEF SeatInv, LaunchersKnown, At
  <1> QED
    BY <1>1, <1>3, <1>4, SeatTypes
       DEF CloseWorkspace, SeatInv, SeatTypeOK, LauncherState, LaunchersKnown, SeatIsKept, RowIsThere,
           Runs, At, Inside, ledger

LEMMA SeatNextInv == SeatInv /\ [SeatNext]_seatVars => SeatInv'
  <1> SUFFICES ASSUME SeatInv, [SeatNext]_seatVars PROVE SeatInv'
    OBVIOUS
  <1>1. ASSUME NEW r \in Run, LaunchRespawn(r) PROVE SeatInv'
    <2>1. /\ decided[r] \in Workspace /\ Starts(decided[r], r)
          /\ decided' \in [Run -> Workspace \cup {NoWorkspace}]
      BY <1>1 DEF LaunchRespawn, SeatInv, SeatTypeOK
    <2> QED
      BY <1>1, <2>1, Started DEF LaunchRespawn
  <1>2. ASSUME NEW w \in Workspace, Launch(w) PROVE SeatInv'
    <2>1. decided' \in [Run -> Workspace \cup {NoWorkspace}]
      BY <1>2 DEF Launch, SeatInv, SeatTypeOK
    <2> QED
      BY <1>2, <2>1, Started DEF Launch
  <1>3. CASE UNCHANGED seatVars
    BY <1>3 DEF seatVars, ledger, outside, SeatInv, SeatTypeOK, LaunchersKnown, SeatIsKept, RowIsThere,
                Runs, At
  <1> QED
    BY <1>1, <1>2, <1>3, LedgerSteps, LauncherSteps, WorkspaceCloses DEF SeatNext

\* Type correctness of the seat, of the launchers and of their locks.
THEOREM SeatInvariant == SeatSpec => []SeatInv
  BY SeatInitInv, SeatNextInv, PTL DEF SeatSpec

\* One workspace and one agent for each run, with any number of launchers in any
\* number of workspaces: a claim elsewhere is refused while somebody holds the
\* lock of the run's workspace, and nobody gets past the lock beside its holder.
THEOREM SeatsAreKept == SeatSpec => []SeatIsKept
  <1>1. SeatInv => SeatIsKept
    BY DEF SeatInv
  <1> QED
    BY <1>1, SeatInvariant, PTL

\* No row whose agent runs is replaced or ended: the watchdog looks for the
\* holder of the lock where the row is, and the claim moved the row there.
THEOREM NobodyReplacedAlive == SeatSpec => NoneReplacedAlive
  <1>1. SeatInv => \A r \in Run : IsDead(r) => \A l \in Launcher : ~Runs(l, r)
    BY SeatAssumption
       DEF IsDead, Checks, SeatOf, Holder, Inside, SeatInv, LaunchersKnown, RowIsThere, Runs, At
  <1>2. SeatInv =>
          [\A r \in Run :
             (Respawn(r) \/ EndWithoutRespawn(r)) => \A l \in Launcher : ~Runs(l, r)]_seatVars
    BY <1>1 DEF Respawn, EndWithoutRespawn
  <1> QED
    BY <1>2, SeatInvariant, PTL DEF NoneReplacedAlive

-----------------------------------------------------------------------------
(***************************************************************************)
(* The end.  That a passing gate is of its tip needs what each gate knows  *)
(* once its check has ended: a check that saw nothing but the tip that the *)
(* gate read passed on that tree (GateTrue), and the result is recorded    *)
(* under that tip.                                                         *)
(***************************************************************************)

GateTrue ==
    /\ GateIsOfItsTip
    /\ \A g \in Gate :
          /\ gate[g].at # "idle" => gate[g].tip \in Tip
          /\ gate[g].at = "record" /\ gate[g].passed /\ gate[g].saw = {gate[g].tip}
             => gate[g].tip \in good
    /\ \A c \in Closer : closer[c].guards => closer[c].tip \in Tip

CloseInv == CloseTypeOK /\ GateTrue

\* What a gate and a close command have at hand (CloseTypeOK).
GateState ==
    [at : {"idle", "checkout", "start", "check", "record"},
     tip : Tip \cup {NoTip}, saw : SUBSET (Tip \cup {NoTip}), passed : BOOLEAN]

Command ==
    [at : {"idle", "settled", "guards", "write"}, how : {"done", "declined", "abandon"},
     active : BOOLEAN, guards : BOOLEAN, tip : Tip \cup {NoTip},
     pr : {"none", "open", "merged"}]

GuardsInTip == \A c \in Closer : closer[c].guards => closer[c].tip \in Tip

\* What only the tasks and their folders take part in.
TaskStep ==
    \E t \in RunTask :
       \/ AddTask(t) \/ OpenTree(t) \/ LandTask(t) \/ Triage(t)
       \/ \E how \in {"done", "cancelled"} : EndTask(t, how)

GateStep(g) ==
    \/ ReadTip(g) \/ CheckOut(g) \/ StartCheck(g) \/ CheckEnds(g) \/ RecordGate(g)
    \/ GateFails(g)

CloserStep(c) ==
    \/ \E how \in {"done", "declined", "abandon"} : StartClose(c, how)
    \/ LookSettled(c) \/ ReadGuards(c)
    \/ CloseDone(c) \/ AbandonRun(c) \/ CloseRefused(c)

-----------------------------------------------------------------------------
LEMMA TipBounds == MaxTip \in Nat /\ NoTip \in Nat /\ NoTip \notin Tip /\ 0 \in Tip
  BY CloseAssumption DEF NoTip, Tip

LEMMA CloseInitInv == CloseInit => CloseInv
  <1> SUFFICES ASSUME CloseInit PROVE CloseInv
    OBVIOUS
  <1>1. NoGate \in GateState /\ NoClose \in Command
    BY DEF NoGate, GateState, NoClose, Command
  <1>2. CloseTypeOK
    <2>1. /\ closer \in [Closer -> Command]
          /\ verdict \in [Tip -> {"none", "passed", "failed"}]
          /\ \A t \in Tip : verdict[t] = "none"
      BY <1>1 DEF CloseInit
    <2>2. good \subseteq Tip
      BY DEF CloseInit
    <2>3. gate \in [Gate -> GateState] /\ mixed \subseteq Tip
      BY <1>1 DEF CloseInit
    <2>4. /\ work \in [RunTask -> {"none", "open", "done", "cancelled"}]
          /\ tree \in [RunTask -> {"none", "open", "parked", "settled"}]
      BY DEF CloseInit
    <2> QED
      BY <2>1, <2>2, <2>3, <2>4, TipBounds DEF CloseInit, CloseTypeOK, Command, GateState
  <1>3. GateTrue
    BY DEF CloseInit, GateTrue, GateIsOfItsTip, NoGate, NoClose
  <1> QED BY <1>2, <1>3 DEF CloseInv

LEMMA CloseStutters ==
  ASSUME CloseInv, UNCHANGED closeVars PROVE CloseInv'
  BY DEF CloseInv, CloseTypeOK, GateTrue, GateIsOfItsTip, closeVars, tasks, branch, gates

\* A tip that moves is still one of the bounded tips.
LEMMA TipMoves ==
  ASSUME tip \in Tip, tip < MaxTip PROVE tip + 1 \in Tip
  BY CloseAssumption DEF Tip

LEMMA TasksKeep ==
  ASSUME CloseInv, TaskStep PROVE CloseInv'
  <1> SUFFICES ASSUME NEW t \in RunTask,
                      \/ AddTask(t) \/ OpenTree(t) \/ LandTask(t) \/ Triage(t)
                      \/ \E how \in {"done", "cancelled"} : EndTask(t, how)
               PROVE  CloseInv'
    BY DEF TaskStep
  <1>1. UNCHANGED <<good, gates, closer, mixed>>
    BY DEF AddTask, OpenTree, LandTask, Triage, EndTask, gates, branch
  <1>2. GateTrue'
    BY <1>1 DEF CloseInv, GateTrue, GateIsOfItsTip, gates
  <1>3. CASE AddTask(t)
    BY <1>3, <1>2 DEF CloseInv, CloseTypeOK, AddTask, branch, gates
  <1>4. CASE OpenTree(t)
    BY <1>4, <1>2 DEF CloseInv, CloseTypeOK, OpenTree, branch, gates
  <1>5. CASE LandTask(t)
    <2>1. tip' \in Tip
      BY <1>5, TipMoves DEF CloseInv, CloseTypeOK, LandTask
    <2>2. QED
      BY <1>5, <1>2, <2>1 DEF CloseInv, CloseTypeOK, LandTask, gates
  <1>6. CASE Triage(t)
    BY <1>6, <1>2 DEF CloseInv, CloseTypeOK, Triage, branch, gates
  <1>7. ASSUME NEW how \in {"done", "cancelled"}, EndTask(t, how) PROVE CloseInv'
    BY <1>7, <1>2 DEF CloseInv, CloseTypeOK, EndTask, branch, gates
  <1> QED BY <1>3, <1>4, <1>5, <1>6, <1>7

LEMMA BranchKeeps ==
  ASSUME CloseInv, CommitOnBranch \/ PullRequest PROVE CloseInv'
  <1>1. CASE CommitOnBranch
    <2>1. tip' \in Tip
      BY <1>1, TipMoves DEF CloseInv, CloseTypeOK, CommitOnBranch
    <2>2. QED
      BY <1>1, <2>1 DEF CloseInv, CloseTypeOK, GateTrue, GateIsOfItsTip, CommitOnBranch, tasks, gates
  <1>2. CASE PullRequest
    BY <1>2 DEF CloseInv, CloseTypeOK, GateTrue, GateIsOfItsTip, PullRequest, tasks, gates
  <1> QED BY <1>1, <1>2

\* What the gates that run know of their tips survives a step that leaves their
\* results alone: a gate goes on, and the checks see what became of the folder.
LEMMA GatesGoOn ==
  ASSUME CloseInv, gate' \in [Gate -> GateState],
         UNCHANGED <<runStatus, declined, tasks, branch, verdict, gateRow, closer, mixed>>,
         folder' \in Tip \cup {NoTip},
         \A g \in Gate :
            /\ gate'[g].at # "idle" => gate'[g].tip \in Tip
            /\ gate'[g].at = "record" /\ gate'[g].passed /\ gate'[g].saw = {gate'[g].tip}
               => gate'[g].tip \in good
  PROVE  CloseInv'
  <1>1. CloseTypeOK'
    BY DEF CloseInv, CloseTypeOK, GateState, tasks, branch
  <1>2. GateTrue'
    BY DEF CloseInv, GateTrue, GateIsOfItsTip, branch
  <1> QED
    BY <1>1, <1>2 DEF CloseInv

LEMMA GatesSeeIt ==
  ASSUME CloseInv, NEW t \in Tip \cup {NoTip}
  PROVE  /\ GatesSee(t) \in [Gate -> GateState]
         /\ \A g \in Gate :
               /\ GatesSee(t)[g].at = gate[g].at /\ GatesSee(t)[g].tip = gate[g].tip
               /\ gate[g].at # "check" => GatesSee(t)[g] = gate[g]
  <1>1. gate \in [Gate -> GateState]
    BY DEF CloseInv, CloseTypeOK, GateState
  <1>2. ASSUME NEW g \in Gate
        PROVE  LET seen == [gate[g] EXCEPT !.saw = @ \cup {t}]
               IN  seen \in GateState /\ seen.at = gate[g].at /\ seen.tip = gate[g].tip
    <2>1. gate[g] \in GateState
      BY <1>1
    <2> QED
      BY <2>1 DEF GateState
  <1> QED
    BY <1>1, <1>2 DEF GatesSee

LEMMA GateKeeps ==
  ASSUME CloseInv, NEW g \in Gate, GateStep(g) PROVE CloseInv'
  <1>0. /\ gate \in [Gate -> GateState] /\ NoGate \in GateState /\ NoGate.at = "idle"
        /\ folder \in Tip \cup {NoTip} /\ tip \in Tip
    BY DEF CloseInv, CloseTypeOK, GateState, NoGate
  <1>a. \A h \in Gate :
           /\ gate[h].at # "idle" => gate[h].tip \in Tip
           /\ gate[h].at = "record" /\ gate[h].passed /\ gate[h].saw = {gate[h].tip}
              => gate[h].tip \in good
    BY DEF CloseInv, GateTrue
  <1>1. CASE ReadTip(g)
    <2> DEFINE new == [NoGate EXCEPT !.at = "checkout", !.tip = tip]
    <2>1. new \in GateState /\ new.at = "checkout" /\ new.tip = tip
      BY <1>0 DEF GateState, NoGate
    <2>2. gate' = [gate EXCEPT ![g] = new]
      BY <1>1 DEF ReadTip
    <2> HIDE DEF new
    <2> QED
      BY <1>0, <1>a, <1>1, <2>1, <2>2, GatesGoOn DEF ReadTip, branch
  <1>2. CASE CheckOut(g)
    <2> DEFINE new == [GatesSee(gate[g].tip)[g] EXCEPT !.at = "start"]
    <2>1. /\ gate[g].at = "checkout" /\ gate[g].tip \in Tip
          /\ folder' = gate[g].tip
      BY <1>a, <1>2 DEF CheckOut
    <2>2. GatesSee(gate[g].tip)[g] = gate[g]
      BY <2>1, GatesSeeIt
    <2>3. new \in GateState /\ new.at = "start" /\ new.tip = gate[g].tip
      BY <1>0, <2>2 DEF GateState
    <2>4. gate' = [GatesSee(gate[g].tip) EXCEPT ![g] = new]
      BY <1>2 DEF CheckOut
    <2> HIDE DEF new
    <2>5. /\ gate' \in [Gate -> GateState]
          /\ \A h \in Gate : h # g => gate'[h] = GatesSee(gate[g].tip)[h]
          /\ gate'[g] = new
      BY <2>1, <2>3, <2>4, GatesSeeIt
    <2>6. \A h \in Gate :
             /\ gate'[h].at # "idle" => gate'[h].tip \in Tip
             /\ gate'[h].at = "record" => gate'[h] = gate[h]
      BY <1>a, <2>1, <2>3, <2>5, GatesSeeIt
    <2> QED
      BY <1>a, <1>2, <2>1, <2>5, <2>6, GatesGoOn DEF CheckOut, branch
  <1>3. CASE StartCheck(g)
    <2> DEFINE new == [gate[g] EXCEPT !.at = "check", !.saw = {folder}]
    <2>1. new \in GateState /\ new.at = "check" /\ new.tip = gate[g].tip
      BY <1>0 DEF GateState
    <2>2. gate' = [gate EXCEPT ![g] = new] /\ gate[g].at = "start"
      BY <1>0, <1>3 DEF StartCheck, GateState
    <2> HIDE DEF new
    <2> QED
      BY <1>0, <1>a, <1>3, <2>1, <2>2, GatesGoOn DEF StartCheck
  <1>4. CASE CheckEnds(g)
    <2>1. PICK passed \in BOOLEAN :
            /\ passed => \A t \in Tip : gate[g].saw = {t} => t \in good
            /\ gate' = [gate EXCEPT ![g].at = "record", ![g].passed = passed]
      BY <1>4 DEF CheckEnds
    <2> DEFINE new == [gate[g] EXCEPT !.at = "record", !.passed = passed]
    <2>2. /\ new \in GateState /\ new.at = "record" /\ new.tip = gate[g].tip
          /\ new.saw = gate[g].saw /\ new.passed = passed
      BY <1>0 DEF GateState
    <2>3. gate' = [gate EXCEPT ![g] = new] /\ gate[g].at = "check"
      BY <1>0, <1>4, <2>1 DEF CheckEnds, GateState
    <2>4. gate[g].tip \in Tip
      BY <1>a, <2>3
    <2>5. new.passed /\ new.saw = {new.tip} => new.tip \in good
      BY <2>1, <2>2, <2>4
    <2> HIDE DEF new
    <2> QED
      BY <1>0, <1>a, <1>4, <2>2, <2>3, <2>4, <2>5, GatesGoOn DEF CheckEnds
  <1>5. CASE RecordGate(g)
    <2>1. /\ gate[g].at = "record" /\ gate[g].tip \in Tip
          /\ verdict' = [verdict EXCEPT ![gate[g].tip] = IF gate[g].passed THEN "passed" ELSE "failed"]
          /\ mixed' = IF gate[g].saw = {gate[g].tip}
                      THEN mixed \ {gate[g].tip} ELSE mixed \cup {gate[g].tip}
          /\ gateRow' = "open" /\ gate' = [gate EXCEPT ![g] = NoGate]
          /\ UNCHANGED <<runStatus, declined, work, tree, tip, good, pr, folder, closer>>
      BY <1>5, <1>a DEF RecordGate, GatedTip, tasks, branch
    <2>2. /\ gate' \in [Gate -> GateState]
          /\ \A h \in Gate : gate'[h] = gate[h] \/ gate'[h].at = "idle"
      BY <1>0, <2>1
    <2>3. verdict' \in [Tip -> {"none", "passed", "failed"}] /\ mixed' \subseteq Tip
      BY <2>1 DEF CloseInv, CloseTypeOK
    <2>4. CloseTypeOK'
      BY <2>1, <2>2, <2>3 DEF CloseInv, CloseTypeOK, GateState
    <2>5. GateIsOfItsTip'
      <3> SUFFICES ASSUME NEW t \in Tip, verdict'[t] = "passed" PROVE t \in good \cup mixed'
        BY <2>1 DEF GateIsOfItsTip
      <3>1. CASE t = gate[g].tip
        <4>1. gate[g].passed
          BY <2>1, <3>1 DEF CloseInv, CloseTypeOK
        <4> QED
          BY <1>a, <2>1, <3>1, <4>1
      <3>2. CASE t # gate[g].tip
        <4>1. verdict[t] = "passed"
          BY <2>1, <3>2 DEF CloseInv, CloseTypeOK
        <4> QED
          BY <2>1, <3>2, <4>1 DEF CloseInv, GateTrue, GateIsOfItsTip
      <3> QED
        BY <3>1, <3>2
    <2>6. GateTrue'
      BY <1>a, <2>1, <2>2, <2>5 DEF CloseInv, GateTrue
    <2> QED
      BY <2>4, <2>6 DEF CloseInv
  <1>6. CASE GateFails(g)
    <2>1. gate' = [gate EXCEPT ![g] = NoGate]
      BY <1>6 DEF GateFails
    <2> QED
      BY <1>0, <1>a, <1>6, <2>1, GatesGoOn DEF GateFails
  <1> QED BY <1>1, <1>2, <1>3, <1>4, <1>5, <1>6 DEF GateStep

LEMMA NoCloseFits ==
  ASSUME CloseInv, NEW c \in Closer, closer' = [closer EXCEPT ![c] = NoClose]
  PROVE  closer' \in [Closer -> Command] /\ GuardsInTip'
  <1>1. NoClose \in Command /\ ~NoClose.guards
    BY DEF NoClose, Command
  <1>2. closer \in [Closer -> Command] /\ GuardsInTip
    BY DEF CloseInv, CloseTypeOK, GateTrue, Command, GuardsInTip
  <1> QED BY <1>1, <1>2 DEF GuardsInTip

\* A step that leaves everything but the commands alone.
LEMMA OnlyCommands ==
  ASSUME CloseInv, closer' \in [Closer -> Command], GuardsInTip',
         UNCHANGED <<runStatus, declined, tasks, branch, gates, mixed>>
  PROVE  CloseInv'
  BY DEF CloseInv, CloseTypeOK, GateTrue, GateIsOfItsTip, Command, GuardsInTip, tasks, branch, gates

\* What a close does to the gates: nothing, or their folder goes.
LEMMA FolderGoes ==
  ASSUME CloseInv, GateFolderStays \/ GateFolderGoes
  PROVE  /\ gate' \in [Gate -> GateState] /\ folder' \in Tip \cup {NoTip}
         /\ gateRow' \in {"none", "open", "cleaned"}
         /\ gateRow' = "none" => gateRow = "none"
         /\ \A g \in Gate :
               /\ gate'[g].at # "idle" => gate'[g].tip \in Tip
               /\ gate'[g].at = "record" /\ gate'[g].passed /\ gate'[g].saw = {gate'[g].tip}
                  => gate'[g].tip \in good
  <1>1. CASE GateFolderStays
    BY <1>1 DEF GateFolderStays, CloseInv, CloseTypeOK, GateState, GateTrue
  <1>2. CASE GateFolderGoes
    <2>1. \A g \in Gate :
             /\ gate'[g].at = gate[g].at /\ gate'[g].tip = gate[g].tip
             /\ gate[g].at = "record" => gate'[g] = gate[g]
      BY <1>2, GatesSeeIt DEF GateFolderGoes
    <2> QED
      BY <1>2, <2>1, GatesSeeIt DEF GateFolderGoes, CloseInv, CloseTypeOK, GateTrue
  <1> QED
    BY <1>1, <1>2

LEMMA CloserKeeps ==
  ASSUME CloseInv, NEW c \in Closer, CloserStep(c) PROVE CloseInv'
  <1> USE DEF CloseInv
  <1>0. closer \in [Closer -> Command] /\ GuardsInTip
    BY DEF CloseTypeOK, GateTrue, Command, GuardsInTip
  <1>1. ASSUME NEW how \in {"done", "declined", "abandon"}, StartClose(c, how)
        PROVE  CloseInv'
    <2> DEFINE cmd == [NoClose EXCEPT !.at = IF how = "abandon" THEN "write" ELSE "settled",
                                      !.how = how, !.active = (runStatus = "active")]
    <2>1. cmd \in Command /\ ~cmd.guards
      BY DEF NoClose, Command
    <2>2. closer' = [closer EXCEPT ![c] = cmd]
      BY <1>1 DEF StartClose
    <2> HIDE DEF cmd
    <2>3. closer' \in [Closer -> Command] /\ GuardsInTip'
      BY <1>0, <2>1, <2>2 DEF GuardsInTip
    <2> QED BY <1>1, <2>3, OnlyCommands DEF StartClose
  <1>2. CASE LookSettled(c)
    <2>1. closer' \in [Closer -> Command]
      BY <1>0, <1>2 DEF LookSettled, Command
    <2>2. GuardsInTip'
      BY <1>0, <1>2 DEF LookSettled, GuardsInTip, Command
    <2> QED BY <1>2, <2>1, <2>2, OnlyCommands DEF LookSettled
  <1>3. CASE ReadGuards(c)
    <2>1. tip \in Tip /\ pr \in {"none", "open", "merged"}
      BY DEF CloseTypeOK
    <2> DEFINE cmd == [closer[c] EXCEPT !.at = "write", !.guards = TRUE,
                                        !.tip = tip, !.pr = pr]
    <2>4. cmd \in Command
      BY <1>0, <2>1 DEF Command
    <2>5. closer' = [closer EXCEPT ![c] = cmd]
      BY <1>0, <1>3 DEF ReadGuards, Command
    <2> HIDE DEF cmd
    <2>2. closer' \in [Closer -> Command]
      BY <1>0, <2>4, <2>5
    <2>3. GuardsInTip'
      BY <1>0, <1>3, <2>1 DEF ReadGuards, GuardsInTip, Command
    <2> QED BY <1>3, <2>2, <2>3, OnlyCommands DEF ReadGuards
  <1>4. CASE CloseDone(c)
    <2>1. closer' \in [Closer -> Command] /\ GuardsInTip'
      BY <1>4, NoCloseFits DEF CloseDone, Closes
    <2>2. GateFolderStays \/ GateFolderGoes
      BY <1>4 DEF CloseDone, Closes
    <2>3. CloseTypeOK'
      BY <1>4, <2>1, <2>2, FolderGoes
         DEF CloseTypeOK, CloseDone, Closes, Command, GateState, tasks, branch
    <2>4. GateTrue'
      BY <1>4, <2>1, <2>2, FolderGoes DEF GateTrue, GateIsOfItsTip, CloseDone, GuardsInTip, tasks, branch
    <2> QED BY <2>3, <2>4
  <1>5. CASE AbandonRun(c)
    <2>1. closer' \in [Closer -> Command] /\ GuardsInTip'
      BY <1>5, NoCloseFits DEF AbandonRun, Closes
    <2>2. /\ runStatus' \in {"active", "done", "abandoned"}
          /\ GateFolderStays \/ GateFolderGoes
      BY <1>5 DEF CloseTypeOK, AbandonRun, Closes
    <2>3. /\ work' \in [RunTask -> {"none", "open", "done", "cancelled"}]
          /\ tree' \in [RunTask -> {"none", "open", "parked", "settled"}]
      BY <1>5 DEF CloseTypeOK, AbandonRun
    <2>4. CloseTypeOK'
      BY <1>5, <2>1, <2>2, <2>3, FolderGoes DEF CloseTypeOK, AbandonRun, Command, GateState, branch
    <2>5. GateTrue'
      BY <1>5, <2>1, <2>2, FolderGoes DEF GateTrue, GateIsOfItsTip, AbandonRun, GuardsInTip, branch
    <2> QED BY <2>4, <2>5
  <1>6. CASE CloseRefused(c)
    <2>1. closer' \in [Closer -> Command] /\ GuardsInTip'
      BY <1>6, NoCloseFits DEF CloseRefused
    <2> QED BY <1>6, <2>1, OnlyCommands DEF CloseRefused
  <1> QED BY <1>1, <1>2, <1>3, <1>4, <1>5, <1>6 DEF CloserStep

LEMMA CloseInvKept == CloseInv /\ [CloseNext]_closeVars => CloseInv'
  <1> SUFFICES ASSUME CloseInv, [CloseNext]_closeVars PROVE CloseInv'
    OBVIOUS
  <1>1. CASE TaskStep BY <1>1, TasksKeep
  <1>2. CASE CommitOnBranch \/ PullRequest BY <1>2, BranchKeeps
  <1>3. CASE \E g \in Gate : GateStep(g) BY <1>3, GateKeeps
  <1>4. CASE \E c \in Closer : CloserStep(c) BY <1>4, CloserKeeps
  <1>5. CASE UNCHANGED closeVars BY <1>5, CloseStutters
  <1> QED BY <1>1, <1>2, <1>3, <1>4, <1>5 DEF CloseNext, TaskStep, GateStep, CloserStep

\* Of a run with any number of gates and close commands at once: its rows, its
\* gate folder and the commands stay well formed, and each gate whose check ran
\* on nothing but its tip knows what that tree does (GateTrue).
THEOREM CloseInvariant == CloseSpec => []CloseInv
  <1>1. CloseInit => CloseInv BY CloseInitInv
  <1>2. CloseInv /\ [CloseNext]_closeVars => CloseInv' BY CloseInvKept
  <1> QED BY <1>1, <1>2, PTL DEF CloseSpec

\* A passing gate on a tip is of that tip, whatever was committed while its check
\* ran, unless another gate or a close took the folder from under the check.
THEOREM GatesAreOfTheirTips == CloseSpec => []GateIsOfItsTip
  <1>1. CloseInv => GateIsOfItsTip
    BY DEF CloseInv, GateTrue
  <1> QED
    BY <1>1, CloseInvariant, PTL

-----------------------------------------------------------------------------
\* Only a close writes the status of the run.
LEMMA OnlyClosesEnd ==
  ASSUME CloseNext, runStatus' # runStatus
  PROVE  \E c \in Closer : CloseDone(c) \/ AbandonRun(c)
  <1>1. CASE TaskStep
    BY <1>1 DEF TaskStep, AddTask, OpenTree, LandTask, Triage, EndTask
  <1>2. CASE CommitOnBranch \/ PullRequest
    BY <1>2 DEF CommitOnBranch, PullRequest
  <1>3. CASE \E g \in Gate : GateStep(g)
    BY <1>3 DEF GateStep, ReadTip, CheckOut, StartCheck, CheckEnds, RecordGate, GateFails
  <1>4. CASE \E c \in Closer : CloserStep(c)
    BY <1>4 DEF CloserStep, StartClose, LookSettled, ReadGuards, CloseRefused
  <1> QED BY <1>1, <1>2, <1>3, <1>4 DEF CloseNext, TaskStep, GateStep, CloserStep

LEMMA DoneLeavesNothing ==
  ASSUME NEW c \in Closer, CloseDone(c) PROVE Settled'
  BY DEF CloseDone, SettledStill, Settled, OpenTasks, OpenTrees, Parked, tasks

\* An abandoned run has no open task left, and a folder that was kept keeps it.
LEMMA AbandonLeavesNothing ==
  ASSUME NEW c \in Closer, AbandonRun(c), runStatus' # runStatus
  PROVE  Settled'
  <1>1. PICK kept \in SUBSET OpenTrees :
          /\ tree' = [t \in RunTask |-> IF tree[t] # "open" THEN tree[t]
                                        ELSE IF t \in kept THEN "parked" ELSE "settled"]
          /\ Parked \cup kept = {}
    BY DEF AbandonRun
  <1>2. OpenTasks' = {}
    BY DEF AbandonRun, OpenTasks
  <1>3. OpenTrees' = {}
    BY <1>1 DEF OpenTrees
  <1>4. Parked' = {}
    BY <1>1 DEF Parked
  <1> QED BY <1>2, <1>3, <1>4 DEF Settled

\* A run that closes, as done or as abandoned, leaves no open task, no open
\* worktree and no parked folder without a decision.
THEOREM ClosesAreSettled == CloseSpec => ClosesSettled
  <1>1. CloseNext /\ runStatus' # runStatus => Settled'
    BY OnlyClosesEnd, DoneLeavesNothing, AbandonLeavesNothing
  <1>2. [CloseNext]_closeVars => [runStatus' # runStatus => Settled']_closeVars
    BY <1>1 DEF closeVars
  <1> QED BY <1>2, PTL DEF CloseSpec, ClosesSettled

==============================================================================
