--------------------------------- MODULE Triage ---------------------------------
(***************************************************************************)
(* The worktree of a task that no step takes to an outcome, and what the   *)
(* operator decides about it (taskledger/triage, with worktree_ops.rs and  *)
(* the cleanup of finish/land.rs).                                         *)
(*                                                                         *)
(* `horch worktree triage apply` lists the parked worktrees and runs one   *)
(* decision after the other.  ARCHIVE and DELETE commit what is            *)
(* uncommitted, write the tip to a ref, and remove the folder; DELETE      *)
(* removes the branch too, and its ref goes after 30 days.  LAND rebases   *)
(* on the branch of the main checkout.  Workers, the operator, the         *)
(* watchdog, a restore and a gc change the same folder and refs meanwhile, *)
(* and the command can die after any of its steps.                         *)
(*                                                                         *)
(* One worktree row, its folder, its branch, and the name they share.  A   *)
(* commit is the sequence of patches of its history.  The run branch is    *)
(* the branch of the main checkout.  Left out: the facts and texts of a    *)
(* row, findings, stashes and tickets.                                     *)
(*                                                                         *)
(* A definition under a comment that starts with "Bug:" is a mutated form  *)
(* of the one that follows; no action uses it.                             *)
(***************************************************************************)
EXTENDS Naturals, Sequences, SequencesExt, FiniteSets

CONSTANTS
    Patch, Foreign,     \* patches of workers, and one of somebody else
    NoCommit,
    MaxDecisions,
    MaxTrash,           \* DELETEs that get to their ref
    MaxFaults           \* failed calls and kills

Commit == Seq(Patch \cup {Foreign})

ASSUME TriageAssumption ==
    /\ Foreign \notin Patch
    /\ NoCommit \notin Commit
    /\ MaxTrash \in Nat \ {0} /\ MaxFaults \in Nat
    /\ MaxDecisions \in 0 .. MaxTrash

VARIABLES
    tree,           \* the folder: where its HEAD is, and what is uncommitted
    heads,          \* the branches: of the task, of a restore, and land/<name>
    dest,           \* the branch of the main checkout
    remote,         \* the task's branch on the remote
    refs, old,      \* archive and trash refs, and those older than 30 days
    row,            \* the row of worktrees
    owner,          \* the status of the row's task
    decision,       \* the decision that runs
    restoring,      \* a restore that still has its row to write
    written,        \* history: the patches that were written
    astray,         \* history: those committed on a detached HEAD
    purged,         \* history: the patches in the trash refs that gc deleted
    begun,          \* decisions that began
    faults

triageVars == <<tree, heads, dest, remote, refs, old, row, owner, decision,
                restoring, written, astray, purged, begun, faults>>
records == <<written, astray, purged, begun>>

NoRef    == 0
Archive  == 1
Trash    == 2 .. MaxTrash + 1

NoTree     == [there |-> FALSE, on |-> "own", head |-> <<>>, wip |-> {}]
NoDecision == [kind |-> "none", at |-> "none", known |-> TRUE, branch |-> "own",
               tip |-> <<>>, ref |-> NoRef]
Kinds      == {"KEEP", "ARCHIVE", "DELETE", "LAND", "FINISH", "PR"}
DecisionAt == {"none", "adopt", "prepare", "push", "write", "safe", "remove", "unbranch",
               "land", "clean", "clean aside", "finish", "record", "fail"}
Settled    == {"cleaned", "archived", "trashed"}
Gone       == {"cleaned", "abandoned"}

Branch == {"own", "restored", "land"}
\* Where a folder can be, and the branch that a row or a decision names.
Checkout == {"own", "restored", "away"}
Named    == {"own", "restored", ""}

TreeTypeOK ==
    /\ tree \in [there : BOOLEAN, on : Checkout, head : Commit, wip : SUBSET Patch]
    /\ IsFiniteSet(tree.wip)
    /\ tree.there \/ tree = NoTree
    /\ tree.on # "away" => tree.head = <<>>
    /\ heads \in [Branch -> {NoCommit} \cup Commit]
    /\ tree.there /\ tree.on # "away" => heads[tree.on] # NoCommit

RefTypeOK ==
    /\ dest \in Commit /\ remote \in {NoCommit} \cup Commit
    /\ refs \in [{Archive} \cup Trash -> {NoCommit} \cup Commit]
    /\ old \in SUBSET Trash

RowTypeOK ==
    /\ row \in [status : {"open", "unlanded", "abandoned", "cleanup_failed"} \cup Settled,
                ref : {NoRef, Archive} \cup Trash, cleaned : BOOLEAN, branch : Named]
    /\ owner \in {"queued", "running", "parked", "cancelled"}
    /\ restoring \in BOOLEAN

DecisionTypeOK ==
    /\ decision \in [kind : Kinds \cup {"none"}, at : DecisionAt, known : BOOLEAN,
                     branch : Named, tip : Commit, ref : {NoRef, Archive} \cup Trash]
    /\ decision.at \in {"safe", "remove", "unbranch"} => decision.ref # NoRef

RecordTypeOK ==
    /\ written \in SUBSET Patch /\ astray \in SUBSET Patch /\ purged \in SUBSET Patch
    /\ begun \in 0 .. MaxDecisions /\ faults \in 0 .. MaxFaults

TriageTypeOK == TreeTypeOK /\ RefTypeOK /\ RowTypeOK /\ DecisionTypeOK /\ RecordTypeOK

TriageInit ==
    /\ tree = [NoTree EXCEPT !.there = TRUE]
    /\ heads = [own |-> <<>>, restored |-> NoCommit, land |-> NoCommit]
    /\ dest = <<>> /\ remote = NoCommit
    /\ refs = [r \in {Archive} \cup Trash |-> NoCommit] /\ old = {}
    /\ row = [status |-> "open", ref |-> NoRef, cleaned |-> FALSE,
              branch |-> "own"]
    /\ owner = "running"
    /\ decision = NoDecision /\ restoring = FALSE
    /\ written = {} /\ astray = {} /\ purged = {}
    /\ begun = 0 /\ faults = 0

Fault == faults < MaxFaults /\ faults' = faults + 1

Has(c)  == IF c = NoCommit THEN {} ELSE ToSet(c)
HeadCommit == IF tree.on = "away" THEN tree.head ELSE heads[tree.on]
Exists(b) == b # "" /\ heads[b] # NoCommit
IsIn(a, c) == a # NoCommit /\ c # NoCommit /\ IsPrefix(a, c)

\* HEAD of the folder is at c, and nothing is uncommitted.
HeadIs(c) ==
    IF tree.on = "away"
    THEN tree' = [tree EXCEPT !.head = c, !.wip = {}] /\ UNCHANGED heads
    ELSE tree' = [tree EXCEPT !.wip = {}] /\ heads' = [heads EXCEPT ![tree.on] = c]
StraysIfAway(ps) == astray' = IF tree.on = "away" THEN astray \cup ps ELSE astray

-----------------------------------------------------------------------------
(***************************************************************************)
(* Those who work in the folder.                                           *)
(***************************************************************************)
Edit(p) ==
    /\ tree.there /\ p \notin written
    /\ tree' = [tree EXCEPT !.wip = @ \cup {p}]
    /\ written' = written \cup {p}
    /\ UNCHANGED <<heads, dest, remote, refs, old, row, owner, decision,
                   restoring, astray, purged, begun, faults>>

Committed == HeadCommit \o SetToSeq(tree.wip)

CommitEdits ==
    /\ tree.there /\ tree.wip # {}
    /\ HeadIs(Committed) /\ StraysIfAway(tree.wip)
    /\ UNCHANGED <<dest, remote, refs, old, row, owner, decision, restoring,
                   written, purged, begun, faults>>

\* git switch --detach, and back with what was committed meanwhile.
Detach ==
    /\ tree.there /\ tree.on # "away"
    /\ tree' = [tree EXCEPT !.on = "away", !.head = HeadCommit]
    /\ UNCHANGED <<heads, dest, remote, refs, old, row, owner, decision,
                   restoring, records, faults>>

Reattach ==
    /\ tree.there /\ tree.on = "away" /\ tree.wip = {}
    /\ IsIn(heads.own, tree.head)
    /\ tree' = [tree EXCEPT !.on = "own", !.head = <<>>]
    /\ heads' = [heads EXCEPT !.own = tree.head]
    /\ UNCHANGED <<dest, remote, refs, old, row, owner, decision, restoring,
                   records, faults>>

DestMoves ==
    /\ Foreign \notin Has(dest)
    /\ dest' = Append(dest, Foreign)
    /\ UNCHANGED <<tree, heads, remote, refs, old, row, owner, decision,
                   restoring, records, faults>>

-----------------------------------------------------------------------------
(***************************************************************************)
(* The ledger: what the task's life does to the row.                       *)
(***************************************************************************)
RowBecomes(status) == row' = [row EXCEPT !.status = status]

LedgerStep(from, to) ==
    /\ owner \in from /\ owner' = to
    /\ UNCHANGED <<tree, heads, dest, remote, refs, old, decision, restoring,
                   records, faults>>

\* take_task; the row keeps its status.
TakeTree == LedgerStep({"queued"}, "running") /\ UNCHANGED row

\* A reaped worker, or a handoff.
LoseWorker == LedgerStep({"running"}, "queued") /\ UNCHANGED row

\* done --unlanded: the row that worktree_of finds.
ParkTree ==
    /\ LedgerStep({"running"}, "parked")
    /\ IF row.status \in Gone THEN UNCHANGED row ELSE RowBecomes("unlanded")

CancelTask ==
    /\ LedgerStep({"queued", "running", "parked"}, "cancelled")
    /\ IF row.status = "open" THEN RowBecomes("abandoned") ELSE UNCHANGED row

\* requeue_by_operator: an unlanded row of a parked task, and an abandoned
\* one that has its folder, are open again.
Reopened ==
    IF \/ owner = "parked" /\ row.status = "unlanded"
       \/ row.status = "abandoned" /\ tree.there
    THEN RowBecomes("open")
    ELSE UNCHANGED row

ResumeTask ==
    /\ LedgerStep({"parked", "cancelled"}, "queued")
    /\ Reopened

\* worktree drop: only a clean folder on its branch, whose commits are on
\* another branch unless the branch stays.  branch -d asks the main checkout.
DropTree(keep) ==
    /\ row.status \notin Gone
    /\ Exists(row.branch)
    /\ tree.there => tree.wip = {} /\ tree.on = row.branch
    /\ \/ keep
       \/ \E c \in {dest, remote} \cup {heads[b] : b \in DOMAIN heads \ {row.branch}} :
             IsIn(heads[row.branch], c)
    /\ tree' = NoTree
    /\ heads' = IF ~keep /\ IsIn(heads[row.branch], dest)
                THEN [heads EXCEPT ![row.branch] = NoCommit] ELSE heads
    /\ row' = [row EXCEPT !.status = "abandoned", !.cleaned = TRUE]
    /\ UNCHANGED <<dest, remote, refs, old, owner, decision, restoring, records,
                   faults>>

-----------------------------------------------------------------------------
(***************************************************************************)
(* land::remove: the folder and the branch go when the work is on `on`.    *)
(***************************************************************************)
\* unsafe_to_remove looks at the branch, when there is a folder; without a
\* branch rev-list takes the HEAD of the main checkout.
IsSafe(b, on) ==
    tree.there => tree.wip = {} /\ IsIn(IF b = "" THEN dest ELSE heads[b], on)

\* Bug: git branch -D.
AnyBranch(b, on) == TRUE

\* git branch -d, with `on` as the upstream.
IsMerged(b, on) == Exists(b) => IsIn(heads[b], on)

MayRemove(b, on) == IsSafe(b, on) /\ IsMerged(b, on)

Removes(b, on) ==
    /\ MayRemove(b, on)
    /\ tree' = NoTree
    /\ heads' = IF Exists(b) THEN [heads EXCEPT ![b] = NoCommit] ELSE heads
    /\ row' = [row EXCEPT !.status = "cleaned", !.cleaned = TRUE]

\* retry_cleanup of the watchdog: every row that is cleanup_failed.
RetryCleanup ==
    /\ row.status = "cleanup_failed"
    /\ Removes(row.branch, dest)
    /\ UNCHANGED <<dest, remote, refs, old, owner, decision, restoring, records,
                   faults>>

-----------------------------------------------------------------------------
(***************************************************************************)
(* triage: which worktrees are listed.                                     *)
(***************************************************************************)
NothingLeft == ~tree.there /\ (row.cleaned \/ ~Exists(row.branch))

\* A parked task is queued, with a reason why it is held.
TaskPending == owner \in {"queued", "running", "parked"}

IsParked ==
    /\ row.status \notin Settled /\ ~NothingLeft
    /\ row.status \in {"unlanded", "abandoned", "cleanup_failed"} \/ ~TaskPending

\* folder_rows: no unsettled row names the folder.
IsFolderRow == row.status \in Settled /\ tree.there

BranchOfTree == IF tree.on = "away" THEN "" ELSE tree.on

-----------------------------------------------------------------------------
(***************************************************************************)
(* A decision.                                                             *)
(***************************************************************************)
Decide(kind) ==
    /\ decision = NoDecision
    /\ begun < MaxDecisions /\ begun' = begun + 1
    /\ IsParked \/ IsFolderRow
    /\ decision' = [NoDecision EXCEPT !.kind = kind, !.at = "adopt", !.known = IsParked,
                       !.branch = IF IsParked THEN row.branch ELSE BranchOfTree]
    /\ UNCHANGED <<tree, heads, dest, remote, refs, old, row, owner, restoring,
                   written, astray, purged, faults>>

StepIs(at)  == decision.at = at
StepTo(at)  == decision' = [decision EXCEPT !.at = at]
ItFails     == StepTo("fail")
NotTheRow   == UNCHANGED <<row, owner>>
NotTheWork  == UNCHANGED <<tree, heads, dest, remote, refs, astray>>
Rest        == UNCHANGED <<old, restoring, written, purged, begun>>

Adopt ==
    /\ StepIs("adopt")
    /\ row' = IF decision.known THEN row
              ELSE [row EXCEPT !.status = "abandoned", !.cleaned = FALSE,
                               !.branch = decision.branch]
    /\ decision' = [decision EXCEPT !.branch = IF decision.known THEN row.branch ELSE @,
                       !.known = TRUE,
                       !.at = CASE decision.kind = "KEEP"   -> "record"
                                [] decision.kind = "FINISH" -> "finish"
                                [] OTHER                    -> "prepare"]
    /\ NotTheWork /\ UNCHANGED <<owner, faults>> /\ Rest

ItsBranch == decision.branch

\* check_identity
OnItsBranch == tree.there /\ ItsBranch # "" => tree.on = ItsBranch

\* commit_wip, and tip: HEAD of the folder, else the branch.
PrepareTree ==
    /\ StepIs("prepare") /\ decision.kind \in {"ARCHIVE", "DELETE", "PR"}
    /\ UNCHANGED <<dest, remote, refs, faults>> /\ NotTheRow /\ Rest
    /\ IF ~OnItsBranch \/ ~(tree.there \/ Exists(ItsBranch))
       THEN ItFails /\ UNCHANGED <<tree, heads, astray>>
       ELSE /\ IF tree.there
               THEN HeadIs(Committed) /\ StraysIfAway(tree.wip)
               ELSE UNCHANGED <<tree, heads, astray>>
            /\ decision' = [decision EXCEPT
                  !.tip = IF tree.there THEN Committed ELSE heads[ItsBranch],
                  !.at = IF decision.kind = "PR" THEN "push" ELSE "write"]

\* git push, never forced, and gh pr create.
PushBranch ==
    /\ StepIs("push")
    /\ IF Exists(ItsBranch) /\ (remote = NoCommit \/ IsIn(remote, heads[ItsBranch]))
       THEN remote' = heads[ItsBranch] /\ (StepTo("write") \/ ItFails)
       ELSE ItFails /\ UNCHANGED remote
    /\ UNCHANGED <<tree, heads, dest, refs, astray, faults>> /\ NotTheRow /\ Rest

\* refs::write: a ref is new, or moves forward.
MayPoint(c, tip) == c = NoCommit \/ IsPrefix(c, tip)

\* The name of a trash ref is its time.
RefOf(kind) ==
    LET used == {r \in Trash : refs[r] # NoCommit} \cup old
    IN IF kind = "DELETE" THEN {r \in Trash \ used : \A s \in Trash : s < r => s \in used}
                          ELSE {Archive}

WriteRef ==
    /\ StepIs("write")
    /\ \E r \in RefOf(decision.kind) :
          IF MayPoint(refs[r], decision.tip)
          THEN /\ refs' = [refs EXCEPT ![r] = decision.tip]
               /\ decision' = [decision EXCEPT !.ref = r, !.at = "safe"]
          ELSE ItFails /\ UNCHANGED refs
    /\ UNCHANGED <<tree, heads, dest, remote, astray, faults>> /\ NotTheRow /\ Rest

\* must_be_safe: unsafe_to_remove against the ref.
CheckSafe ==
    /\ StepIs("safe")
    /\ IF tree.there => /\ tree.wip = {}
                        /\ IsIn(IF ItsBranch = "" THEN decision.tip ELSE heads[ItsBranch],
                                refs[decision.ref])
       THEN StepTo("remove") ELSE ItFails
    /\ NotTheWork /\ UNCHANGED faults /\ NotTheRow /\ Rest

\* git worktree remove, never forced.
RemoveTree ==
    /\ StepIs("remove")
    /\ IF tree.wip # {}
       THEN ItFails /\ UNCHANGED tree
       ELSE /\ tree' = NoTree
            /\ StepTo(IF decision.kind = "DELETE" THEN "unbranch" ELSE "record")
    /\ UNCHANGED <<heads, dest, remote, refs, astray, faults>> /\ NotTheRow /\ Rest

\* Bug: the ref is not compared with the branch.
HoldsSome(b) == refs[decision.ref] # NoCommit

HoldsIt(b) == refs[decision.ref] = decision.tip /\ heads[b] = decision.tip

Unbranch ==
    /\ StepIs("unbranch")
    /\ CASE ~Exists(ItsBranch) -> StepTo("record") /\ UNCHANGED heads
         [] Exists(ItsBranch) /\ HoldsIt(ItsBranch) /\ ~(tree.there /\ tree.on = ItsBranch) ->
               StepTo("record") /\ heads' = [heads EXCEPT ![ItsBranch] = NoCommit]
         [] OTHER -> ItFails /\ UNCHANGED heads
    /\ UNCHANGED <<tree, dest, remote, refs, astray, faults>> /\ NotTheRow /\ Rest

-----------------------------------------------------------------------------
\* A rebase applies what the branch does not have, in its order.
InOrderOf(s, t) ==
    \A i, j \in DOMAIN t : i < j => \E k, l \in DOMAIN s : k < l /\ s[k] = t[i] /\ s[l] = t[j]

Rebased(s) == {dest \o t : t \in {u \in SetToSeqs(Has(s) \ Has(dest)) : InOrderOf(s, u)}}

\* LAND commits and rebases; what conflicts stays as it is, or as committed.
RebaseTree ==
    /\ StepIs("prepare") /\ decision.kind = "LAND"
    /\ \/ ItFails /\ UNCHANGED <<tree, heads, astray>>
       \/ /\ tree.there /\ OnItsBranch
          /\ StraysIfAway(tree.wip)
          /\ \/ HeadIs(Committed) /\ ItFails
             \/ \E tip \in Rebased(Committed) :
                   HeadIs(tip) /\ decision' = [decision EXCEPT !.tip = tip, !.at = "land"]
    /\ UNCHANGED <<dest, remote, refs, faults>> /\ NotTheRow /\ Rest

\* The main checkout is on the default branch, which does not move: a new
\* branch holds the work.
LandAside ==
    /\ StepIs("land")
    /\ IF heads.land # NoCommit
       THEN ItFails /\ UNCHANGED heads
       ELSE StepTo("clean aside") /\ heads' = [heads EXCEPT !.land = decision.tip]
    /\ UNCHANGED <<tree, dest, remote, refs, astray, faults>> /\ NotTheRow /\ Rest

\* It is on another one, which goes forward.
LandOn ==
    /\ StepIs("land")
    /\ IF IsPrefix(dest, decision.tip)
       THEN StepTo("clean") /\ dest' = decision.tip
       ELSE ItFails /\ UNCHANGED dest
    /\ UNCHANGED <<tree, heads, remote, refs, astray, faults>> /\ NotTheRow /\ Rest

LandedOn == IF StepIs("clean") THEN dest ELSE heads.land

CleanLanded ==
    /\ decision.at \in {"clean", "clean aside"}
    /\ \/ Removes(ItsBranch, LandedOn) /\ StepTo("record")
       \/ ~MayRemove(ItsBranch, LandedOn) /\ ItFails /\ UNCHANGED <<tree, heads, row>>
    /\ UNCHANGED <<dest, remote, refs, owner, astray, faults>> /\ Rest

-----------------------------------------------------------------------------
\* FINISH resumes the parked task, or queues a new one on the row.
Finish ==
    /\ StepIs("finish")
    /\ owner' = "queued"
    /\ IF owner = "parked" THEN Reopened ELSE RowBecomes("open")
    /\ StepTo("record")
    /\ NotTheWork /\ UNCHANGED faults /\ Rest

StatusOf(kind) ==
    CASE kind \in {"ARCHIVE", "PR"} -> "archived"
      [] kind = "DELETE"            -> "trashed"
      [] OTHER                      -> row.status

Record ==
    /\ StepIs("record")
    /\ row' = [row EXCEPT !.status = StatusOf(decision.kind),
                  !.ref = IF decision.ref = NoRef THEN @ ELSE decision.ref,
                  !.cleaned = @ \/ decision.ref # NoRef]
    /\ decision' = NoDecision
    /\ NotTheWork /\ UNCHANGED <<owner, faults>> /\ Rest

RecordFailed ==
    /\ StepIs("fail")
    /\ RowBecomes("cleanup_failed")
    /\ decision' = NoDecision
    /\ NotTheWork /\ UNCHANGED <<owner, faults>> /\ Rest

\* A call of git, of gh or of the store fails, or the command dies.
CallFails ==
    /\ decision.at \in {"prepare", "push", "write", "safe", "remove", "unbranch", "land",
                        "clean", "clean aside", "finish"}
    /\ Fault /\ ItFails
    /\ NotTheWork /\ NotTheRow /\ Rest

ApplyDies ==
    /\ decision # NoDecision
    /\ Fault /\ decision' = NoDecision
    /\ NotTheWork /\ NotTheRow /\ Rest

-----------------------------------------------------------------------------
(***************************************************************************)
(* worktree restore, and ledger gc.                                        *)
(***************************************************************************)
\* The archive ref, else the newest trash ref.
Restorable ==
    IF refs[Archive] # NoCommit THEN {Archive}
    ELSE {r \in Trash : refs[r] # NoCommit /\ \A s \in Trash : s > r => refs[s] = NoCommit}

RestoreTree ==
    /\ ~restoring /\ ~tree.there
    /\ \E r \in Restorable :
          LET b == IF row.ref = r /\ row.branch # "" THEN row.branch ELSE "restored"
          IN /\ heads[b] \in {NoCommit, refs[r]}
             /\ heads' = [heads EXCEPT ![b] = refs[r]]
             /\ tree' = [NoTree EXCEPT !.there = TRUE, !.on = b]
             /\ restoring' = (row.ref = r)
    /\ UNCHANGED <<dest, remote, refs, old, row, owner, decision, records,
                   faults>>

RestoreRow ==
    /\ restoring /\ restoring' = FALSE
    /\ row' = [row EXCEPT !.status = "open", !.cleaned = FALSE]
    /\ UNCHANGED <<tree, heads, dest, remote, refs, old, owner, decision,
                   records, faults>>

RestoreDies ==
    /\ restoring /\ restoring' = FALSE /\ Fault
    /\ UNCHANGED <<tree, heads, dest, remote, refs, old, row, owner, decision,
                   records>>

TrashAges(r) ==
    /\ refs[r] # NoCommit /\ r \notin old
    /\ old' = old \cup {r}
    /\ UNCHANGED <<tree, heads, dest, remote, refs, row, owner, decision, restoring,
                   records, faults>>

Gc ==
    /\ \E r \in old : refs[r] # NoCommit
    /\ purged' = purged \cup UNION {Has(refs[r]) \ {Foreign} : r \in old}
    /\ refs' = [r \in DOMAIN refs |-> IF r \in old THEN NoCommit ELSE refs[r]]
    /\ UNCHANGED <<tree, heads, dest, remote, old, row, owner, decision, restoring,
                   written, astray, begun, faults>>

-----------------------------------------------------------------------------
DecisionStep ==
    \/ \E kind \in Kinds : Decide(kind)
    \/ Adopt \/ PrepareTree \/ PushBranch \/ WriteRef \/ CheckSafe \/ RemoveTree
    \/ Unbranch \/ RebaseTree \/ LandAside \/ LandOn \/ CleanLanded
    \/ Finish \/ Record \/ RecordFailed \/ CallFails \/ ApplyDies

OwnerStep ==
    TakeTree \/ LoseWorker \/ ParkTree \/ CancelTask \/ ResumeTask

TriageNext ==
    \/ \E p \in Patch : Edit(p)
    \/ CommitEdits \/ Detach \/ Reattach \/ DestMoves
    \/ OwnerStep
    \/ \E keep \in BOOLEAN : DropTree(keep)
    \/ RetryCleanup
    \/ DecisionStep
    \/ RestoreTree \/ RestoreRow \/ RestoreDies
    \/ \E r \in Trash : TrashAges(r)
    \/ Gc

TriageSpec == TriageInit /\ [][TriageNext]_triageVars

-----------------------------------------------------------------------------
(***************************************************************************)
(* Properties.                                                             *)
(***************************************************************************)
Kept ==
    tree.wip \cup Has(tree.head) \cup Has(dest) \cup Has(remote)
        \cup (UNION {Has(heads[b]) : b \in DOMAIN heads})
        \cup (UNION {Has(refs[r]) : r \in DOMAIN refs})

\* Only gc forgets work: what was written in the folder is in the folder, on
\* a branch or in a ref, or was in a trash ref of more than 30 days.
OnlyGcForgets == written \ astray \subseteq Kept \cup purged

\* What the documentation says: that also holds of what was committed on a
\* detached HEAD, before a decision began.
NoCommitIsLost == written \subseteq Kept \cup purged
===============================================================================
