-------------------------------- MODULE Courier --------------------------------
(***************************************************************************)
(* How durable mail reaches the orchestrator's pane: the push of its       *)
(* sender (cmd/messaging.rs) and the courier of the workspace              *)
(* (cmd/mail.rs).                                                          *)
(*                                                                         *)
(* A sender publishes the mail, types the line, records that it did, and   *)
(* starts a courier; inside a push budget it starts the courier first.  A  *)
(* courier that finds the lock held exits.  The other one passes over the  *)
(* pending mail every 5 s and sends the text once where the push can have  *)
(* missed, and a digest of the lines that are no NOTE; it exits when no    *)
(* mail is left.                                                           *)
(*                                                                         *)
(* The mail of worker roles and the relay socket (a pane like another) are *)
(* left out, and so is the text.                                           *)
(*                                                                         *)
(* A definition under a comment that starts with "Bug:" is a mutated form  *)
(* of the one that follows; no action uses it.                             *)
(***************************************************************************)
EXTENDS Naturals, FiniteSets

CONSTANTS
    Mail,
    Note,           \* the mail that is a NOTE line
    Budgeted,       \* sent inside a push budget: horch's own, and `done`
    Report,         \* sent by `done`, which takes it back without a courier
    Courier, NoCourier,
    MaxFailures       \* processes that die and calls that fail

ASSUME CourierAssumption ==
    /\ Note \subseteq Mail /\ Report \subseteq Budgeted /\ Budgeted \subseteq Mail
    /\ NoCourier \notin Courier
    /\ MaxFailures \in Nat

VARIABLES
    mail,           \* "none", "pending" or "acked"
    acking,         \* an inbox removed its push record and will move it
    pushed,         \* mail/pushed
    overdue,        \* 30 s have passed since it was published
    sender,         \* where its sender is
    typed,          \* history: its first push reached the pane
    known,          \* history: its text or a digest of it reached the pane
    place,          \* where each courier is
    courierLock,
    seen, seenPushed,   \* the mail that a pass read
    resend,         \* OrchestratorPush::resends
    asked,          \* history: a courier was started for it, none died since
    missed,         \* history: a resend of it did not reach the pane
    failures

files   == <<mail, acking, pushed, overdue>>
senders == <<sender, typed>>
couriers == <<place, courierLock, seen, seenPushed, resend>>
mailVars == <<files, senders, known, couriers, asked, missed, failures>>

CourierTypeOK ==
    /\ mail \in [Mail -> {"none", "pending", "acked"}]
    /\ {acking, pushed, overdue, typed, known, asked, missed} \subseteq SUBSET Mail
    /\ sender \in [Mail -> {"none", "start", "push", "mark", "start after", "done", "dead"}]
    /\ place \in [Courier -> {"off", "lock", "read", "target", "deliver",
                           "unlock", "look", "relock"}]
    /\ courierLock \in Courier \cup {NoCourier}
    /\ \A c \in Courier :
          courierLock = c <=> place[c] \in {"read", "target", "deliver", "unlock"}
    /\ {seen, seenPushed} \subseteq [Courier -> SUBSET Mail]
    /\ resend \in [Courier -> [Mail -> {"none", "missed", "if unpushed", "sent"}]]
    /\ failures \in 0 .. MaxFailures

CourierInit ==
    /\ mail = [m \in Mail |-> "none"]
    /\ acking = {} /\ pushed = {} /\ overdue = {}
    /\ sender = [m \in Mail |-> "none"]
    /\ typed = {} /\ known = {}
    /\ place = [c \in Courier |-> "off"]
    /\ courierLock = NoCourier
    /\ seen = [c \in Courier |-> {}] /\ seenPushed = [c \in Courier |-> {}]
    /\ resend = [c \in Courier |-> [m \in Mail |-> "none"]]
    /\ asked = {} /\ missed = {}
    /\ failures = 0

Pending == {m \in Mail : mail[m] = "pending"}
Failure == failures < MaxFailures /\ failures' = failures + 1

-----------------------------------------------------------------------------
(***************************************************************************)
(* The sender.                                                             *)
(***************************************************************************)
SenderGoes(m, from, to) ==
    /\ sender[m] = from
    /\ sender' = [sender EXCEPT ![m] = to]

\* queue_as: the mail is durable before anything is typed.
PublishMail(m) ==
    /\ SenderGoes(m, "none", IF m \in Budgeted THEN "start" ELSE "push")
    /\ mail' = [mail EXCEPT ![m] = "pending"]
    /\ UNCHANGED <<acking, pushed, overdue, typed, known, couriers, asked, missed, failures>>

AfterStart(m) == IF sender[m] = "start" THEN "push" ELSE "done"

StartCourier(m) ==
    /\ sender[m] \in {"start", "start after"}
    /\ SenderGoes(m, sender[m], AfterStart(m))
    /\ \E c \in Courier :
          /\ place[c] = "off"
          /\ place' = [place EXCEPT ![c] = "lock"]
    /\ asked' = asked \cup {m}
    /\ UNCHANGED <<files, typed, known, courierLock, seen, seenPushed, resend, missed, failures>>

\* `done` takes its report back and fails; another line stays queued.
StartFails(m) ==
    /\ sender[m] \in {"start", "start after"}
    /\ Failure
    /\ IF m \in Report
       THEN /\ SenderGoes(m, "start", "done")
            /\ mail' = [mail EXCEPT ![m] = "acked"]
       ELSE /\ SenderGoes(m, sender[m], AfterStart(m))
            /\ UNCHANGED mail
    /\ UNCHANGED <<acking, pushed, overdue, typed, known, couriers, asked, missed>>

AfterPush(m) == IF m \in Budgeted THEN "done" ELSE "start after"

\* The pane takes the line, or it does not: no pane, /login, a busy agent.
PushLine(m) ==
    /\ \/ /\ SenderGoes(m, "push", "mark")
          /\ typed' = typed \cup {m}
          /\ known' = known \cup {m}
       \/ /\ SenderGoes(m, "push", AfterPush(m))
          /\ UNCHANGED <<typed, known>>
    /\ UNCHANGED <<files, couriers, asked, missed, failures>>

\* mark_pushed writes its file whether or not the mail is still pending.
MarkPushed(m) ==
    /\ SenderGoes(m, "mark", AfterPush(m))
    /\ pushed' = pushed \cup {m}
    /\ UNCHANGED <<mail, acking, overdue, typed, known, couriers, asked, missed, failures>>

SenderDies(m) ==
    /\ sender[m] \in {"start", "push", "mark", "start after"}
    /\ Failure
    /\ sender' = [sender EXCEPT ![m] = "dead"]
    /\ UNCHANGED <<files, typed, known, couriers, asked, missed>>

-----------------------------------------------------------------------------
(***************************************************************************)
(* The courier.                                                            *)
(***************************************************************************)
CourierGoes(c, from, to) ==
    /\ place[c] = from
    /\ place' = [place EXCEPT ![c] = to]

\* Bug: an attempt on a busy pane counts as sent.
CountsAsSent == "sent"
\* Bug: the push record is not asked.
OwedAnyway(c, m) == m \in seen[c] \cap overdue /\ resend[c][m] \in {"missed", "if unpushed"}
\* Bug: the courier exits without a second look.
NothingLeft == FALSE

CourierLockIsFree == courierLock = NoCourier

TakeCourierLock(c) ==
    /\ CourierGoes(c, "lock", IF CourierLockIsFree THEN "read" ELSE "off")
    /\ courierLock' = IF CourierLockIsFree THEN c ELSE courierLock
    /\ UNCHANGED <<files, senders, known, seen, seenPushed, resend, asked, missed, failures>>

\* The top of a pass: the pending mail, each with its push record.
ReadPending(c) ==
    /\ CourierGoes(c, "read", IF Pending = {} THEN "unlock" ELSE "target")
    /\ seen' = [seen EXCEPT ![c] = Pending]
    /\ seenPushed' = [seenPushed EXCEPT ![c] = Pending \cap pushed]
    /\ UNCHANGED <<files, senders, known, courierLock, resend, asked, missed, failures>>

\* OrchestratorPush::observe
Observed(c, how) ==
    [m \in Mail |-> IF m \notin seen[c] THEN "none"
                    ELSE IF resend[c][m] = "none" THEN how ELSE resend[c][m]]

\* No pane answers, or it needs /login.
NoTarget(c) ==
    /\ CourierGoes(c, "target", "read")
    /\ resend' = [resend EXCEPT ![c] = Observed(c, "missed")]
    /\ UNCHANGED <<files, senders, known, courierLock, seen, seenPushed, asked, missed, failures>>

\* send_if_idle types nothing in a busy pane, and nothing counts as sent.
WhenBusy == "if unpushed"

BusyTarget(c) ==
    /\ CourierGoes(c, "target", "read")
    /\ resend' = [resend EXCEPT ![c] = Observed(c, WhenBusy)]
    /\ UNCHANGED <<files, senders, known, courierLock, seen, seenPushed, asked, missed, failures>>

IdleTarget(c) ==
    /\ CourierGoes(c, "target", "deliver")
    /\ resend' = [resend EXCEPT ![c] = Observed(c, "if unpushed")]
    /\ UNCHANGED <<files, senders, known, courierLock, seen, seenPushed, asked, missed, failures>>

Owed(c, m) ==
    /\ m \in seen[c] \cap overdue
    /\ \/ resend[c][m] = "missed"
       \/ resend[c][m] = "if unpushed" /\ m \notin seenPushed[c]

\* A try counts as sent, whether or not the line reached the pane.
Resend(c, m) ==
    /\ place[c] = "deliver"
    /\ Owed(c, m)
    /\ resend' = [resend EXCEPT ![c][m] = "sent"]
    /\ \/ known' = known \cup {m} /\ UNCHANGED <<missed, failures>>
       \/ Failure /\ missed' = missed \cup {m} /\ UNCHANGED known
    /\ UNCHANGED <<files, senders, place, courierLock, seen, seenPushed, asked>>

Unread(c) == seen[c] \ Note

\* The digest, when the oldest line is old enough and the last digest too.
Digest(c) ==
    /\ place[c] = "deliver"
    /\ \A m \in Mail : ~Owed(c, m)
    /\ Unread(c) \cap overdue # {}
    /\ known' = known \cup Unread(c)
    /\ CourierGoes(c, "deliver", "read")
    /\ UNCHANGED <<files, senders, courierLock, seen, seenPushed, resend, asked, missed, failures>>

EndPass(c) ==
    /\ \A m \in Mail : ~Owed(c, m)
    /\ CourierGoes(c, "deliver", "read")
    /\ UNCHANGED <<files, senders, known, courierLock, seen, seenPushed, resend, asked, missed, failures>>

-----------------------------------------------------------------------------
(***************************************************************************)
(* settle_empty: look once more with the lock released.                    *)
(***************************************************************************)
Stops(c) ==
    /\ seen' = [seen EXCEPT ![c] = {}]
    /\ seenPushed' = [seenPushed EXCEPT ![c] = {}]
    /\ resend' = [resend EXCEPT ![c] = [m \in Mail |-> "none"]]

Unlock(c) ==
    /\ CourierGoes(c, "unlock", "look")
    /\ courierLock' = NoCourier
    /\ UNCHANGED <<files, senders, known, seen, seenPushed, resend, asked, missed, failures>>

MailIsLeft == Pending # {}

LookAgain(c) ==
    /\ CourierGoes(c, "look", IF MailIsLeft THEN "relock" ELSE "off")
    /\ IF MailIsLeft THEN UNCHANGED <<seen, seenPushed, resend>> ELSE Stops(c)
    /\ UNCHANGED <<files, senders, known, courierLock, asked, missed, failures>>

TakeLockBack(c) ==
    /\ CourierGoes(c, "relock", IF CourierLockIsFree THEN "read" ELSE "off")
    /\ IF CourierLockIsFree
       THEN courierLock' = c /\ UNCHANGED <<seen, seenPushed, resend>>
       ELSE Stops(c) /\ UNCHANGED courierLock
    /\ UNCHANGED <<files, senders, known, asked, missed, failures>>

CourierDies(c) ==
    /\ place[c] # "off"
    /\ Failure
    /\ place' = [place EXCEPT ![c] = "off"]
    /\ courierLock' = IF courierLock = c THEN NoCourier ELSE courierLock
    /\ Stops(c)
    /\ asked' = {}
    /\ UNCHANGED <<files, senders, known, missed>>

-----------------------------------------------------------------------------
(***************************************************************************)
(* horch inbox, and time.                                                  *)
(***************************************************************************)
\* ack removes the push record, then moves the mail.
AckRecord(m) ==
    /\ mail[m] = "pending"
    /\ acking' = acking \cup {m}
    /\ pushed' = pushed \ {m}
    /\ UNCHANGED <<mail, overdue, senders, known, couriers, asked, missed, failures>>

AckMove(m) ==
    /\ m \in acking
    /\ acking' = acking \ {m}
    /\ mail' = [mail EXCEPT ![m] = "acked"]
    /\ UNCHANGED <<pushed, overdue, senders, known, couriers, asked, missed, failures>>

\* The budget of a push (20 s) ends before the first redelivery (30 s), and a
\* pass that read the mail before the push ended is over by then.
MailIsDue(m) ==
    /\ mail[m] # "none"
    /\ m \in Budgeted =>
          /\ sender[m] \in {"done", "dead"}
          /\ \A c \in Courier : m \notin (seen[c] \ seenPushed[c]) \cap pushed
    /\ overdue' = overdue \cup {m}
    /\ UNCHANGED <<mail, acking, pushed, senders, known, couriers, asked, missed, failures>>

-----------------------------------------------------------------------------
SenderStep(m) == StartCourier(m) \/ StartFails(m) \/ PushLine(m) \/ MarkPushed(m)

CourierStep(c) ==
    \/ TakeCourierLock(c) \/ ReadPending(c)
    \/ NoTarget(c) \/ BusyTarget(c) \/ IdleTarget(c)
    \/ (\E m \in Mail : Resend(c, m)) \/ Digest(c) \/ EndPass(c)
    \/ Unlock(c) \/ LookAgain(c) \/ TakeLockBack(c)

CourierNext ==
    \/ \E m \in Mail :
          \/ PublishMail(m) \/ SenderStep(m) \/ SenderDies(m)
          \/ AckRecord(m) \/ AckMove(m)
          \/ MailIsDue(m)
    \/ \E c \in Courier : CourierStep(c) \/ CourierDies(c)

CourierSpec == CourierInit /\ [][CourierNext]_mailVars

\* Processes go on, and the pane is idle, with the time for a digest, again
\* and again.
CourierFairness ==
    /\ \A m \in Mail : WF_mailVars(SenderStep(m)) /\ WF_mailVars(MailIsDue(m))
    /\ \A c \in Courier :
          /\ WF_mailVars(CourierStep(c))
          /\ SF_mailVars(IdleTarget(c))
          /\ SF_mailVars(Digest(c))

FairCourierSpec == CourierSpec /\ CourierFairness

-----------------------------------------------------------------------------
(***************************************************************************)
(* Properties.                                                             *)
(***************************************************************************)
\* The courier exits only when no mail is pending: mail that was published
\* while it decided to exit has a courier too (docs/command-flow.md).
CourierStays ==
    (\E m \in asked : mail[m] = "pending") => \E c \in Courier : place[c] # "off"

\* The full text goes out again only where the first push can have missed
\* (OrchestratorPush): a line that its sender typed and recorded inside its
\* budget is not typed again by a courier that reached the pane on every look
\* at it.  DueMailIsResent is what the documentation says of such a line.
NoNeedlessResend ==
    [][\A c \in Courier, m \in Budgeted \cap typed :
         /\ sender[m] = "done"
         /\ mail[m] = "pending" /\ m \notin acking
         /\ resend[c][m] = "if unpushed"
         => resend'[c][m] # "sent"]_mailVars

\* Mail that has a courier becomes known to the orchestrator, who reads it or
\* sees its line or a digest.  Only a NOTE can miss: its one resend failed.
MailBecomesKnown ==
    <>[](\A m \in asked : m \in known \/ mail[m] = "acked" \/ m \in Note \cap missed)

(***************************************************************************)
(* What the documentation says and the code does not do.                   *)
(***************************************************************************)
Resent(m) == \E c \in Courier : resend[c][m] = "sent"

\* docs/command-flow.md: when the orchestrator pane is ready, the courier
\* resends each due report, and it retries every 5 min until `inbox`
\* acknowledges the mail.  Here once is enough.
DueMailIsResent ==
    \A m \in Report :
        (m \in asked \cap overdue /\ mail[m] = "pending") ~>
            (Resent(m) \/ m \in acking \/ mail[m] = "acked")
==============================================================================
