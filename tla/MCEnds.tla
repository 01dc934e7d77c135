-------------------------------- MODULE MCEnds --------------------------------
(***************************************************************************)
(* Every way a worker and its commands end, with few tasks: crashes,       *)
(* settles, stops, reaps, sweeps, and commands that outlive their agent.   *)
(***************************************************************************)
EXTENDS TaskLifeRefinement, TLC

CONSTANTS t1, dev

EndsTask  == {t1}
Zero      == [u \in EndsTask |-> 0]
Nothing   == [u \in EndsTask |-> {}]
Dev       == [u \in EndsTask |-> dev]
NoDev     == [u \in EndsTask |-> NoPersona]
Rows      == Permutations(Worker)

\* At most one worker is before its claim, at most one is being stopped, at
\* most one has a command between its read and its write, and no cancelled
\* task has both.  No worker replaces another.
Stopping  == {w \in Worker : stop[w] # NoStop}
Commanded == {w \in Worker : fin[w] # "idle" \/ ack[w] # "idle"}
OneBusy ==
    /\ Cardinality({w \in Worker : wstatus[w] \in PreClaim}) <= 1
    /\ Cardinality(Stopping) <= 1
    /\ Cardinality(Commanded) <= 1
    /\ tstatus[t1] = "cancelled" => Stopping = {} \/ Commanded = {}
    /\ \A w \in Worker : prev[w] = NoWorker

EndsNext == Next /\ OneBusy'
EndsSpec == Init /\ [][EndsNext]_vars
==============================================================================
