------------------------------ MODULE MCServices ------------------------------
(***************************************************************************)
(* What stands around the ledger, one service in each scene: the seat of a *)
(* run, its close, its mail, and the session of a worker.  No variable of  *)
(* one is read by another; a scene plays one and leaves the others at      *)
(* their first state.                                                      *)
(***************************************************************************)
EXTENDS Seat, RunClose, Courier, Session

CONSTANTS r1, r2, g1, g2, s1, s2, k1, k2

ServicesRun     == {r1, r2}
ServicesGate    == {g1, g2}
ServicesSpawner == {s1, s2}
ServicesRecord  == {k1, k2}

\* The service that a behaviour plays, from its first state on.
VARIABLE scene

ServicesInit ==
    /\ SeatInit /\ CloseInit /\ CourierInit /\ SessionInit
    /\ scene \in {"seat", "work", "gates", "mail", "session"}
    /\ scene \notin {"work", "gates"} => good = {}

\* The second run is in the way of the first: nobody stops, closes or respawns it.
SeatScene ==
    /\ SeatNext
    /\ r2 \notin stopped' /\ respawns'[r2] = 0
    /\ UNCHANGED <<closeVars, mailVars, sessionVars>>

CloseScene ==
    /\ CloseNext
    /\ UNCHANGED <<seatVars, mailVars, sessionVars>>

\* One gate beside the work of a run and its close; what runs at the close goes
\* on, and nothing else is begun.
WorkScene ==
    /\ CloseScene
    /\ gate'[g2] = NoGate
    /\ runStatus # "active" =>
          UNCHANGED <<tasks, branch>> /\ (gate = [g \in Gate |-> NoGate] => gate' = gate)

\* Two gates beside a run without tasks, which is abandoned at any time.
GatesScene ==
    /\ CloseScene
    /\ pr' = "none" /\ \A t \in RunTask : work'[t] = "none"
    /\ \A c \in Closer : closer'[c] = NoClose \/ closer'[c].how = "abandon"

MailScene ==
    /\ CourierNext
    /\ UNCHANGED <<seatVars, closeVars, sessionVars>>

\* The first spawner has the first record.  The second one resumes that record,
\* or it spawns another under the same role; then it does not fail, nobody
\* gives it up, and its agent runs no done.
SessionScene ==
    /\ SessionNext
    /\ spawner'[s2].at # "new" => spawner'[s1].at # "new"
    /\ spawner'[s1].rec # k2
    /\ spawner'[s2].rec = k2 => spawner'[s2].at \notin {"dead", "failed"} /\ doing'[s2] = "none"
    /\ ~record'[k2].old
    /\ UNCHANGED <<seatVars, closeVars, mailVars>>

\* The type invariants of the services.
ServicesTypeOK == SeatTypeOK /\ CloseTypeOK /\ CourierTypeOK /\ SessionTypeOK

ServicesNext ==
    /\ UNCHANGED scene
    /\ \/ scene = "seat" /\ SeatScene
       \/ scene = "work" /\ WorkScene
       \/ scene = "gates" /\ GatesScene
       \/ scene = "mail" /\ MailScene
       \/ scene = "session" /\ SessionScene

servicesVars == <<seatVars, closeVars, mailVars, sessionVars, scene>>

ServicesSpec == ServicesInit /\ [][ServicesNext]_servicesVars

\* The end of a run alone, for what is said of it and does not hold.
WorkAloneSpec == scene = "work" /\ ServicesSpec
==============================================================================
