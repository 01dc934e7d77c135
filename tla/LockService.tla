------------------------------ MODULE LockService ------------------------------
(***************************************************************************)
(* What a lock of horch promises to those that take it: module DirLock is  *)
(* shown to implement it, and the modules that take a lock in one step     *)
(* rely on it (RunBranch, Compaction).                                     *)
(*                                                                         *)
(* A client asks, and it gives up or has the lock in one step, when nobody *)
(* that lives has it.  From then on the lock is its own until it drops it  *)
(* or dies.  This ends with the first lock that reaches its age limit: a   *)
(* waiter takes that one from a client that has it.                        *)
(***************************************************************************)
CONSTANT Client

VARIABLES
    place,      \* where each client is
    aged        \* a lock reached its age limit

serviceVars == <<place, aged>>

ServiceTypeOK ==
    /\ place \in [Client -> {"out", "asks", "has", "dead"}]
    /\ aged \in BOOLEAN

ServiceInit ==
    /\ place = [p \in Client |-> "out"]
    /\ aged = FALSE

Goes(p, from, to) ==
    /\ place[p] = from
    /\ place' = [place EXCEPT ![p] = to]
    /\ UNCHANGED aged

Ask(p)    == Goes(p, "out", "asks")
GiveUp(p) == Goes(p, "asks", "out")
Drop(p)   == Goes(p, "has", "out")

Take(p) ==
    /\ Goes(p, "asks", "has")
    /\ aged \/ \A q \in Client : place[q] # "has"

Die(p) == \E from \in {"out", "asks", "has"} : Goes(p, from, "dead")

Age == aged' = TRUE /\ UNCHANGED place

ServiceNext ==
    \/ \E p \in Client : Ask(p) \/ GiveUp(p) \/ Take(p) \/ Drop(p) \/ Die(p)
    \/ Age

ServiceSpec == ServiceInit /\ [][ServiceNext]_serviceVars

\* One client has the lock, while none has reached its age limit.
OneHas == ~aged => \A p, q \in Client : place[p] = "has" /\ place[q] = "has" => p = q
================================================================================
