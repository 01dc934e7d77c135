--------------------------------- MODULE Wakes ---------------------------------
(***************************************************************************)
(* Wakes: how a change of the ledger that needs the orchestrator becomes   *)
(* one durable mail (taskledger/outbox.rs, messaging/mail.rs and           *)
(* cmd/taskledger_wake.rs).                                                *)
(*                                                                         *)
(* A command commits its change, then writes an outbox row in a            *)
(* transaction of its own; the watchdog reads the board and writes the     *)
(* rows that a crash lost.  A drain, one at a time, sends each row as mail *)
(* under the key of the row, and then marks the row.  The mail store keeps *)
(* the key, the question and the mail itself in files of their own.        *)
(*                                                                         *)
(* A cause is what needs the orchestrator (a task the attempt limit holds, *)
(* a blocker that others wait for, a review round that is in, the settled  *)
(* run); its round stands for the state that the key of the row holds: the *)
(* attempts, the time it finished, the reviews, the board.  A mail id is   *)
(* the wake and a number, new for every id that claim_key makes.           *)
(*                                                                         *)
(* A definition under a comment that starts with "Bug:" is a mutated form  *)
(* of the one that follows; no action uses it.                             *)
(***************************************************************************)
EXTENDS Naturals, Sequences, SequencesExt, FiniteSets

CONSTANTS
    Cause,
    Question,       \* the causes whose line asks a question
    Reviews,        \* the causes whose command tells the author first
    Drainer,        \* the commands, the watchdog and the couriers
    NoDrainer,
    MaxRound, MaxId,
    MaxFaults       \* crashes and failed calls

ASSUME WakesAssumption ==
    /\ Question \subseteq Cause /\ Reviews \subseteq Cause
    /\ NoDrainer \notin Drainer
    /\ {MaxRound, MaxId} \subseteq Nat \ {0}
    /\ MaxFaults \in Nat

VARIABLES
    needs, round,           \* the board
    due,                    \* commands between their commit and write_now
    rows, delivered,        \* the outbox
    drain, drainLock,
    keys, made,             \* mail/keys; the ids made so far
    pending, acked,         \* mail/pending, mail/acked
    open,                   \* what open_questions lists of mail/questions
    aged,                   \* ids whose key is over ACK_RETENTION
    faults,
    told, mailed, closed    \* history

board   == <<needs, round, due>>
outbox  == <<rows, delivered>>
drains  == <<drain, drainLock>>
store   == <<keys, made, pending, acked, open, aged>>
past    == <<told, mailed, closed>>
wakeVars == <<board, outbox, drains, store, faults, past>>

Wake == Cause \X (1 .. MaxRound)
Id   == Wake \X (1 .. MaxId)
None == <<>>

IdOf(w) == <<w, keys[w]>>

\* at: where a drain is.  todo: the rows it read, by their place in the outbox,
\* which is their order.  own: the row that its command wrote for an author.
Idle == [at |-> "idle", todo |-> {}, own |-> None]

BoardTypeOK ==
    /\ needs \in [Cause -> BOOLEAN]
    /\ round \in [Cause -> 0 .. MaxRound]
    /\ due \in SUBSET Cause

OutboxTypeOK ==
    /\ rows \in Seq(Wake) /\ IsInjective(rows)
    /\ delivered \in SUBSET Range(rows)

DrainTypeOK ==
    /\ drain \in [Drainer ->
          [at : {"idle", "tell", "key", "question", "publish", "push", "mark"},
           todo : SUBSET (DOMAIN rows),
           own : Wake \cup {None}]]
    /\ drainLock \in Drainer \cup {NoDrainer}
    /\ \A d \in Drainer :
          /\ drain[d].at # "idle" <=> drainLock = d
          /\ drain[d].at # "idle" => drain[d].todo # {}

StoreTypeOK ==
    /\ keys \in [Wake -> 0 .. MaxId]
    /\ made \in [Wake -> 0 .. MaxId]
    /\ pending \in SUBSET Id /\ acked \in SUBSET Id /\ open \in SUBSET Id /\ aged \in SUBSET Id

PastTypeOK ==
    /\ told \in SUBSET Wake
    /\ mailed \in SUBSET Id /\ closed \in SUBSET Id
    /\ faults \in 0 .. MaxFaults

WakesTypeOK == BoardTypeOK /\ OutboxTypeOK /\ DrainTypeOK /\ StoreTypeOK /\ PastTypeOK

WakesInit ==
    /\ needs = [c \in Cause |-> FALSE]
    /\ round = [c \in Cause |-> 0]
    /\ due = {}
    /\ rows = <<>> /\ delivered = {}
    /\ drain = [d \in Drainer |-> Idle] /\ drainLock = NoDrainer
    /\ keys = [w \in Wake |-> 0] /\ made = [w \in Wake |-> 0]
    /\ pending = {} /\ acked = {} /\ open = {} /\ aged = {}
    /\ faults = 0
    /\ told = {} /\ mailed = {} /\ closed = {}

Fault == faults < MaxFaults /\ faults' = faults + 1

-----------------------------------------------------------------------------
(***************************************************************************)
(* The board and the rows.                                                 *)
(***************************************************************************)
\* A command commits a change that needs the orchestrator.
Arise(c) ==
    /\ ~needs[c] /\ round[c] < MaxRound
    /\ needs' = [needs EXCEPT ![c] = TRUE]
    /\ round' = [round EXCEPT ![c] = @ + 1]
    /\ due' = due \cup {c}
    /\ UNCHANGED <<outbox, drains, store, faults, past>>

\* It is dealt with: a requeue, a cancel, a finish.
Pass(c) ==
    /\ needs[c]
    /\ needs' = [needs EXCEPT ![c] = FALSE]
    /\ UNCHANGED <<round, due, outbox, drains, store, faults, past>>

\* decide reads the board in the transaction that inserts the row; a row with
\* the same key exists already: ON CONFLICT DO NOTHING.
WriteRow(c) ==
    LET w == <<c, round[c]>>
    IN  rows' = IF needs[c] /\ w \notin Range(rows) THEN Append(rows, w) ELSE rows

WriteNow(c) ==
    /\ c \in due
    /\ due' = due \ {c}
    /\ WriteRow(c)
    /\ UNCHANGED <<needs, round, delivered, drains, store, faults, past>>

CrashBeforeWrite(c) ==
    /\ c \in due
    /\ Fault
    /\ due' = due \ {c}
    /\ UNCHANGED <<needs, round, outbox, drains, store, past>>

\* reconcile_lost, in a pass of the watchdog.
Reconcile(c) ==
    /\ WriteRow(c)
    /\ rows' # rows
    /\ UNCHANGED <<board, delivered, drains, store, faults, past>>

-----------------------------------------------------------------------------
(***************************************************************************)
(* The drain.                                                              *)
(***************************************************************************)
\* Bug: a drain does not ask for the lock.
NoDrainLock == TRUE

Undelivered == {i \in DOMAIN rows : rows[i] \notin delivered}

\* The author is asked about the command's own row only.
StartsWith(todo, own) == IF rows[Min(todo)] = own THEN "tell" ELSE "key"

MayDrain == drainLock = NoDrainer

\* A drain that finds the lock held sends nothing.  own: reviews_in.
Drain(d, own) ==
    /\ MayDrain
    /\ Undelivered # {}
    /\ own # None => own \in {rows[i] : i \in Undelivered}
    /\ drainLock' = d
    /\ drain' = [drain EXCEPT ![d] =
          [at |-> StartsWith(Undelivered, own), todo |-> Undelivered, own |-> own]]
    /\ UNCHANGED <<board, outbox, store, faults, past>>

DrainAt(d, place) == drainLock = d /\ drain[d].at = place
Row(d) == rows[Min(drain[d].todo)]
Go(d, place) == drain' = [drain EXCEPT ![d].at = place] /\ UNCHANGED drainLock

NextRow(d) ==
    LET rest == drain[d].todo \ {Min(drain[d].todo)}
    IN  IF rest = {}
        THEN drain' = [drain EXCEPT ![d] = Idle] /\ drainLock' = NoDrainer
        ELSE /\ drain' = [drain EXCEPT ![d].todo = rest,
                                       ![d].at = StartsWith(rest, drain[d].own)]
             /\ UNCHANGED drainLock

\* tell_author: only a typed line counts, else the orchestrator is told.
TellAuthor(d) ==
    /\ DrainAt(d, "tell")
    /\ \/ told' = told \cup {Row(d)} /\ Go(d, "mark")
       \/ UNCHANGED told /\ Go(d, "key")
    /\ UNCHANGED <<board, outbox, store, faults, mailed, closed>>

MarkDelivered(d) ==
    /\ DrainAt(d, "mark")
    /\ delivered' = delivered \cup {Row(d)}
    /\ NextRow(d)
    /\ UNCHANGED <<board, rows, store, faults, past>>

-----------------------------------------------------------------------------
(***************************************************************************)
(* enqueue_inner with a key.                                               *)
(***************************************************************************)
\* prune_acked and prune_keys: the key of a pending mail stays.
AckedLeft == acked \ aged

\* Bug: the key of a pending mail ages too.
KeysOfPendingGo == [w \in Wake |-> IF IdOf(w) \in aged THEN 0 ELSE keys[w]]
\* Bug: a key that is there stands for its mail.
KeyStands(w) == keys[w] # 0
\* Bug: a key that is there has its question.
QuestionOnce(w) == IF keys[w] # 0 THEN "publish" ELSE "question"

KeysLeft  == [w \in Wake |-> IF IdOf(w) \in aged \ pending THEN 0 ELSE keys[w]]

MailIsThere(w) == KeysLeft[w] # 0 /\ IdOf(w) \in pending \cup AckedLeft

FirstFile(w) == "question"

\* After the prunes, claim_key: the mail of the key is there, or its id is
\* used again, or the key file names a new one.
ClaimKey(d) ==
    LET w == Row(d)
        known == KeysLeft[w] # 0
    IN  /\ DrainAt(d, "key")
        /\ acked' = AckedLeft
        /\ keys' = IF known THEN KeysLeft ELSE [KeysLeft EXCEPT ![w] = made[w] + 1]
        /\ made' = IF known THEN made ELSE [made EXCEPT ![w] = @ + 1]
        /\ Go(d, IF MailIsThere(w) THEN "mark" ELSE FirstFile(w))
        /\ UNCHANGED <<board, outbox, pending, open, aged, faults, past>>

\* The question goes first: pending mail can be read and acknowledged at once.
PublishQuestion(d) ==
    LET w == Row(d)
    IN  /\ DrainAt(d, "question")
        /\ open' = IF w[1] \in Question THEN open \cup {IdOf(w)} ELSE open
        /\ Go(d, "publish")
        /\ UNCHANGED <<board, outbox, keys, made, pending, acked, aged, faults, past>>

PublishPending(d) ==
    /\ DrainAt(d, "publish")
    /\ pending' = pending \cup {IdOf(Row(d))}
    /\ mailed' = mailed \cup {IdOf(Row(d))}
    /\ Go(d, "push")
    /\ UNCHANGED <<board, outbox, keys, made, acked, open, aged, faults, told, closed>>

\* A failed rename takes the question back; the row stays.
PublishFails(d) ==
    /\ DrainAt(d, "publish")
    /\ Fault
    /\ open' = open \ {IdOf(Row(d))}
    /\ NextRow(d)
    /\ UNCHANGED <<board, outbox, keys, made, pending, acked, aged, past>>

\* The mail is queued, whether or not the pane takes the line.
Push(d) ==
    /\ DrainAt(d, "push")
    /\ Go(d, "mark")
    /\ UNCHANGED <<board, outbox, store, faults, past>>

\* A send that fails: before the mail is there, or (check_login) after it.
SendFails(d) ==
    /\ DrainAt(d, "key") \/ DrainAt(d, "push")
    /\ Fault
    /\ NextRow(d)
    /\ UNCHANGED <<board, outbox, store, past>>

-----------------------------------------------------------------------------
(***************************************************************************)
(* The orchestrator, other senders, crashes and time.                      *)
(***************************************************************************)
\* horch inbox
Ack(id) ==
    /\ id \in pending
    /\ pending' = pending \ {id}
    /\ acked' = acked \cup {id}
    /\ UNCHANGED <<board, outbox, drains, keys, made, open, aged, faults, past>>

\* close_question: an answer by its id, or the ledger action it names.  It finds
\* what open_questions lists.
CloseQuestion(id) ==
    /\ id \in open
    /\ open' = open \ {id}
    /\ closed' = closed \cup {id}
    /\ UNCHANGED <<board, outbox, drains, keys, made, pending, acked, aged, faults, told, mailed>>

\* The enqueue of another line prunes too.
OtherEnqueue ==
    /\ acked' = AckedLeft
    /\ keys' = KeysLeft
    /\ <<acked, keys>>' # <<acked, keys>>
    /\ UNCHANGED <<board, outbox, drains, made, pending, open, aged, faults, past>>

\* A drain dies; the kernel drops its lock.
DrainCrashes(d) ==
    /\ drainLock = d
    /\ Fault
    /\ drain' = [drain EXCEPT ![d] = Idle]
    /\ drainLock' = NoDrainer
    /\ UNCHANGED <<board, outbox, store, past>>

\* ACK_RETENTION passes over a key, MaxId - 1 times for a wake; no drain takes
\* that long.
KeyAges(w) ==
    /\ drainLock = NoDrainer
    /\ keys[w] \in 1 .. MaxId - 1
    /\ aged' = aged \cup {IdOf(w)}
    /\ UNCHANGED <<board, outbox, drains, keys, made, pending, acked, open, faults, past>>

\* ACK_RETENTION passes over a question too, which is no older than its key:
\* whoever lists the questions next deletes its file and does not list it, with
\* or without an answer, whatever became of its mail.
QuestionAges(id) ==
    /\ drainLock = NoDrainer
    /\ id \in open \cap aged
    /\ open' = open \ {id}
    /\ UNCHANGED <<board, outbox, drains, keys, made, pending, acked, aged, faults, past>>

-----------------------------------------------------------------------------
\* reviews_in drains for the row that it wrote.
OwnRow == {None} \cup (Reviews \X (1 .. MaxRound))

DrainStep(d) ==
    \/ TellAuthor(d) \/ ClaimKey(d) \/ PublishQuestion(d) \/ PublishPending(d)
    \/ PublishFails(d) \/ Push(d) \/ SendFails(d) \/ MarkDelivered(d)

WakesNext ==
    \/ \E c \in Cause :
          \/ Arise(c) \/ Pass(c)
          \/ WriteNow(c) \/ CrashBeforeWrite(c) \/ Reconcile(c)
    \/ \E d \in Drainer :
          \/ \E own \in OwnRow : Drain(d, own)
          \/ DrainStep(d)
          \/ DrainCrashes(d)
    \/ \E id \in pending : Ack(id)
    \/ \E id \in open : CloseQuestion(id) \/ QuestionAges(id)
    \/ \E w \in Wake : KeyAges(w)
    \/ OtherEnqueue

WakesSpec == WakesInit /\ [][WakesNext]_wakeVars

\* A watchdog runs while the run is active: each pass drains and reconciles.
\* A drain that was started goes on.
WakesFairness ==
    /\ \A c \in Cause : WF_wakeVars(Reconcile(c))
    /\ WF_wakeVars(\E d \in Drainer : Drain(d, None))
    /\ \A d \in Drainer : WF_wakeVars(DrainStep(d))

FairWakesSpec == WakesSpec /\ WakesFairness

-----------------------------------------------------------------------------
(***************************************************************************)
(* Properties.                                                             *)
(***************************************************************************)
\* Once the board is quiet (its rounds are bounded), what the orchestrator must
\* know of is in its mail, or its author knows, whichever command crashed
\* between its commit and its wake; and every row that was written has gone
\* out, also when its send failed, its drain died or its cause has passed.
Known == told \cup {id[1] : id \in mailed}
NeedIsMailed ==
    <>[](/\ \A c \in Cause : needs[c] => <<c, round[c]>> \in Known
         /\ Range(rows) \subseteq delivered \cap Known)

\* A drain that sends again, after a crash before its mark, makes no second
\* mail: another mail of the same wake is neither pending nor acknowledged
\* within the retention.
NoSecondMail ==
    [][\A id \in mailed' \ mailed :
         \A other \in pending \cup (acked \ aged) : other[1] = id[1] => other = id]_wakeVars

\* A mail that asks a question has its question listed from the moment it can
\* be read until the question is closed, also when its mail is acknowledged, for
\* as long as the retention lasts.
Asking(ids) == {id \in ids : id[1][1] \in Question}

QuestionIsListed == Asking(pending \cup acked) \ aged \subseteq open \cup closed

\* docs/command-flow.md: a question stays open after its mail is acknowledged,
\* until it is answered by its id or the ledger action it names happens.
QuestionStaysOpen == Asking(pending \cup acked) \subseteq open \cup closed
==============================================================================
