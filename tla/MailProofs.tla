------------------------------- MODULE MailProofs -------------------------------
(***************************************************************************)
(* Theorems about the mail of the orchestrator: the wakes that become mail *)
(* (module Wakes) and the couriers that type its lines (module Courier),   *)
(* for any number of causes, drains, mails and couriers.                   *)
(*                                                                         *)
(* Neither QuestionIsListed nor NoSecondMail is inductive.  That a drain   *)
(* sends no second mail needs that mail which stands for a wake is the one *)
(* its key names (MailHasItsKey), and that a number is made once           *)
(* (IdsAreMade); that a question is listed needs what a drain knows of the *)
(* mail it is about to publish (SendsAnew), which the prunes of other      *)
(* senders must leave alone.                                               *)
(***************************************************************************)
EXTENDS Wakes, Courier, WellFoundedInduction, TLAPS

-----------------------------------------------------------------------------
(***************************************************************************)
(* Wakes.                                                                  *)
(***************************************************************************)

\* A key names the last id that was made for it, or is free, and an id is left
\* to make.
KeysFit ==
    /\ \A w \in Wake : keys[w] \in {0, made[w]} /\ (keys[w] = 0 => made[w] < MaxId)
    /\ \A id \in aged : id[2] < MaxId

\* No id is in a file of the mail store before it is made.
IdsAreMade ==
    \A id \in pending \cup acked \cup open \cup aged : id[2] <= made[id[1]]

\* The mail that stands for a wake is the one its key names.
MailHasItsKey == \A id \in pending \cup (acked \ aged) : id = IdOf(id[1])

\* The row that a drain is about to send has a key whose mail is not there yet,
\* and its question is listed before it is published.
SendsAnew ==
    \A d \in Drainer : drain[d].at \in {"question", "publish"} =>
       LET id == IdOf(Row(d))
       IN  /\ keys[Row(d)] # 0
           /\ id \notin pending \cup acked \cup aged
           /\ drain[d].at = "publish" /\ id[1][1] \in Question => id \in open \cup closed

StoreInv == WakesTypeOK /\ KeysFit /\ IdsAreMade /\ MailHasItsKey /\ SendsAnew /\ QuestionIsListed

\* A set of places has a first one: the row that a drain is at is a row.
LEMMA FirstPlace ==
  ASSUME NEW S \in SUBSET Nat, S # {} PROVE Min(S) \in S
  <1>1. PICK x \in S : \A y \in S : ~ (<<y, x>> \in OpToRel(<, Nat))
    BY NatLessThanWellFounded, WFMin
  <1>2. ASSUME NEW y \in S, y < x PROVE FALSE
    <2>1. <<y, x>> \in Nat \X Nat /\ <<y, x>>[1] < <<y, x>>[2]
      BY <1>2
    <2>2. <<y, x>> \in OpToRel(<, Nat)
      BY <2>1 DEF OpToRel
    <2> QED
      BY <1>1, <2>2
  <1>3. \A y \in S : x <= y
    BY <1>2
  <1> QED
    BY <1>3 DEF Min

\* Where a drain may be when it has the lock.
Places == {"tell", "key", "question", "publish", "push", "mark"}

LEMMA NoneOrWake == NoDrainer \notin Drainer /\ MaxId \in Nat \ {0} /\ MaxRound \in Nat \ {0}
  BY WakesAssumption

LEMMA RowIsAWake ==
  ASSUME OutboxTypeOK, DrainTypeOK, NEW d \in Drainer, drain[d].at # "idle"
  PROVE  /\ Min(drain[d].todo) \in drain[d].todo
         /\ Min(drain[d].todo) \in DOMAIN rows
         /\ Row(d) \in Wake /\ Row(d) \in Range(rows)
  <1>1. drain[d].todo \in SUBSET (DOMAIN rows) /\ drain[d].todo # {}
    BY DEF DrainTypeOK
  <1>2. rows \in Seq(Wake) /\ DOMAIN rows = 1 .. Len(rows) /\ DOMAIN rows \subseteq Nat
    BY DEF OutboxTypeOK
  <1>3. Min(drain[d].todo) \in drain[d].todo
    BY <1>1, <1>2, FirstPlace
  <1>4. rows[Min(drain[d].todo)] \in Wake
    BY <1>1, <1>2, <1>3
  <1> QED
    BY <1>1, <1>3, <1>4 DEF Row, Range

\* A drain that goes on with its row.
LEMMA DrainGoesOn ==
  ASSUME DrainTypeOK, NEW d \in Drainer, drainLock = d, NEW stage \in Places, Go(d, stage),
         UNCHANGED rows
  PROVE  /\ DrainTypeOK'
         /\ drain'[d].at = stage /\ Row(d)' = Row(d)
         /\ \A e \in Drainer \ {d} : drain'[e].at = "idle"
  <1>1. /\ drain'[d].at = stage
        /\ drain'[d].todo = drain[d].todo
        /\ drain'[d].own = drain[d].own
        /\ \A e \in Drainer \ {d} : drain'[e] = drain[e]
    BY DEF DrainTypeOK, Go
  <1>2. drain' \in [Drainer ->
          [at : {"idle", "tell", "key", "question", "publish", "push", "mark"},
           todo : SUBSET (DOMAIN rows),
           own : Wake \cup {None}]]
    BY DEF DrainTypeOK, Go, Places
  <1>3. \A e \in Drainer \ {d} : drain[e].at = "idle"
    BY DEF DrainTypeOK
  <1>4. \A e \in Drainer :
          /\ drain'[e].at # "idle" <=> drainLock' = e
          /\ drain'[e].at # "idle" => drain'[e].todo # {}
    BY <1>1, <1>3 DEF DrainTypeOK, Go, Places
  <1> QED
    BY <1>1, <1>2, <1>3, <1>4 DEF DrainTypeOK, Go, Row

\* A drain that goes to its next row, or is over.
LEMMA GoesToNext ==
  ASSUME DrainTypeOK, NEW d \in Drainer, drainLock = d, NextRow(d), UNCHANGED rows
  PROVE  /\ DrainTypeOK'
         /\ \A e \in Drainer : drain'[e].at \in {"idle", "tell", "key"}
  <1> DEFINE rest == drain[d].todo \ {Min(drain[d].todo)}
  <1>1. \A e \in Drainer \ {d} : drain[e].at = "idle"
    BY DEF DrainTypeOK
  <1>2. CASE rest = {}
    <2>1. drain' = [drain EXCEPT ![d] = Idle] /\ drainLock' = NoDrainer
      BY <1>2 DEF NextRow
    <2>2. Idle.at = "idle" /\ Idle \in
          [at : {"idle", "tell", "key", "question", "publish", "push", "mark"},
           todo : SUBSET (DOMAIN rows),
           own : Wake \cup {None}]
      BY DEF Idle
    <2> QED
      BY <1>1, <2>1, <2>2, NoneOrWake DEF DrainTypeOK
  <1>3. CASE rest # {}
    <2>1. /\ drain' = [drain EXCEPT ![d].todo = rest, ![d].at = StartsWith(rest, drain[d].own)]
          /\ UNCHANGED drainLock
      BY <1>3 DEF NextRow
    <2>2. StartsWith(rest, drain[d].own) \in {"tell", "key"}
      BY DEF StartsWith
    <2>3. /\ drain'[d].at = StartsWith(rest, drain[d].own)
          /\ drain'[d].todo = rest
          /\ drain'[d].own = drain[d].own
          /\ \A e \in Drainer \ {d} : drain'[e] = drain[e]
      BY <2>1 DEF DrainTypeOK
    <2>4. drain' \in [Drainer ->
          [at : {"idle", "tell", "key", "question", "publish", "push", "mark"},
           todo : SUBSET (DOMAIN rows),
           own : Wake \cup {None}]]
      <3>1. rest \in SUBSET (DOMAIN rows)
        BY DEF DrainTypeOK
      <3> QED
        BY <2>1, <2>2, <3>1 DEF DrainTypeOK
    <2> QED
      BY <1>1, <1>3, <2>1, <2>2, <2>3, <2>4 DEF DrainTypeOK
  <1> QED
    BY <1>2, <1>3

\* Rows are only added, at the end.
LEMMA RowsAreAdded ==
  ASSUME BoardTypeOK, OutboxTypeOK, DrainTypeOK, NEW c \in Cause, WriteRow(c), needs[c] => round[c] # 0,
         UNCHANGED <<delivered, drains>>
  PROVE  /\ OutboxTypeOK' /\ DrainTypeOK'
         /\ \A d \in Drainer : drain[d].at # "idle" => Row(d)' = Row(d)
  <1> DEFINE w == <<c, round[c]>>
  <1>1. CASE rows' = rows
    BY <1>1 DEF OutboxTypeOK, DrainTypeOK, drains, Row
  <1>2. CASE rows' # rows
    <2>1. needs[c] /\ w \notin Range(rows) /\ rows' = Append(rows, w)
      BY <1>2 DEF WriteRow
    <2>2. w \in Wake
      BY <2>1, NoneOrWake DEF BoardTypeOK, Wake
    <2>3. rows \in Seq(Wake) /\ Len(rows) \in Nat /\ DOMAIN rows = 1 .. Len(rows)
      BY DEF OutboxTypeOK
    <2>4. /\ rows' \in Seq(Wake)
          /\ DOMAIN rows' = 1 .. (Len(rows) + 1)
          /\ \A i \in DOMAIN rows : rows'[i] = rows[i]
          /\ rows'[Len(rows) + 1] = w
      BY <2>1, <2>2, <2>3
    <2>5. \A i \in DOMAIN rows' : i \in DOMAIN rows \/ i = Len(rows) + 1
      BY <2>3, <2>4
    <2>6. IsInjective(rows')
      BY <2>1, <2>4, <2>5 DEF OutboxTypeOK, IsInjective, Range
    <2>7. DOMAIN rows \subseteq DOMAIN rows'
      BY <2>3, <2>4
    <2>8. Range(rows) \subseteq Range(rows')
      BY <2>4, <2>7 DEF Range
    <2>9. OutboxTypeOK'
      BY <2>4, <2>6, <2>8 DEF OutboxTypeOK
    <2>10. DrainTypeOK'
      BY <2>7 DEF DrainTypeOK, drains
    <2>11. \A d \in Drainer : drain[d].at # "idle" => Row(d)' = Row(d)
      BY <2>4, RowIsAWake DEF Row, drains
    <2> QED
      BY <2>9, <2>10, <2>11
  <1> QED
    BY <1>1, <1>2

\* A cause that was never there needs nobody.
NeedsHaveRounds == \A c \in Cause : needs[c] => round[c] # 0

WakesInv == StoreInv /\ NeedsHaveRounds

LEMMA WakesInitInv == WakesInit => WakesInv
  <1> SUFFICES ASSUME WakesInit PROVE WakesInv
    OBVIOUS
  <1>1. BoardTypeOK /\ NeedsHaveRounds
    BY NoneOrWake DEF WakesInit, BoardTypeOK, NeedsHaveRounds
  <1>2. OutboxTypeOK
    BY DEF WakesInit, OutboxTypeOK, IsInjective
  <1>3. DrainTypeOK /\ \A d \in Drainer : drain[d].at = "idle"
    BY NoneOrWake DEF WakesInit, DrainTypeOK, Idle
  <1>4. StoreTypeOK /\ PastTypeOK
    BY NoneOrWake, WakesAssumption DEF WakesInit, StoreTypeOK, PastTypeOK
  <1>5. KeysFit /\ IdsAreMade /\ MailHasItsKey /\ QuestionIsListed
    BY NoneOrWake DEF WakesInit, KeysFit, IdsAreMade, MailHasItsKey, QuestionIsListed, Asking
  <1>6. SendsAnew
    BY <1>3 DEF SendsAnew
  <1> QED
    BY <1>1, <1>2, <1>3, <1>4, <1>5, <1>6 DEF WakesInv, StoreInv, WakesTypeOK

LEMMA FaultCounts == faults \in 0 .. MaxFaults /\ Fault => faults' \in 0 .. MaxFaults
  BY WakesAssumption DEF Fault

\* Nothing that a drain wrote, and no row that it sends, changes.
LEMMA StoreStays ==
  ASSUME StoreInv, UNCHANGED store, UNCHANGED closed,
         \A d \in Drainer : drain'[d].at \in {"question", "publish"} =>
            drain'[d].at = drain[d].at /\ Row(d)' = Row(d)
  PROVE  (StoreTypeOK /\ KeysFit /\ IdsAreMade /\ MailHasItsKey /\ SendsAnew /\ QuestionIsListed)'
  <1>1. (StoreTypeOK /\ KeysFit /\ IdsAreMade /\ MailHasItsKey /\ QuestionIsListed)'
    BY DEF StoreInv, WakesTypeOK, StoreTypeOK, KeysFit, IdsAreMade, MailHasItsKey,
           QuestionIsListed, Asking, store, IdOf
  <1>2. SendsAnew'
    BY DEF StoreInv, SendsAnew, store, IdOf
  <1> QED
    BY <1>1, <1>2

LEMMA BoardKeeps ==
  ASSUME WakesInv, NEW c \in Cause,
         Arise(c) \/ Pass(c) \/ WriteNow(c) \/ CrashBeforeWrite(c) \/ Reconcile(c)
  PROVE  WakesInv'
  <1>1. UNCHANGED <<drains, store, past, delivered>>
    BY DEF Arise, Pass, WriteNow, CrashBeforeWrite, Reconcile, outbox, board
  <1>2. BoardTypeOK' /\ NeedsHaveRounds'
    <2> USE NoneOrWake DEF WakesInv, StoreInv, WakesTypeOK, BoardTypeOK, NeedsHaveRounds
    <2>1. CASE Arise(c)
      BY <2>1 DEF Arise
    <2>2. CASE Pass(c)
      BY <2>2 DEF Pass
    <2>3. CASE WriteNow(c) \/ CrashBeforeWrite(c) \/ Reconcile(c)
      BY <2>3 DEF WriteNow, CrashBeforeWrite, Reconcile, board
    <2> QED
      BY <2>1, <2>2, <2>3
  <1>3. /\ OutboxTypeOK' /\ DrainTypeOK'
        /\ \A d \in Drainer : drain[d].at # "idle" => Row(d)' = Row(d)
    <2>1. CASE UNCHANGED rows
      BY <1>1, <2>1 DEF WakesInv, StoreInv, WakesTypeOK, OutboxTypeOK, DrainTypeOK, drains, Row
    <2>2. CASE WriteRow(c)
      BY <1>1, <2>2, RowsAreAdded DEF WakesInv, StoreInv, WakesTypeOK, NeedsHaveRounds
    <2> QED
      BY <2>1, <2>2 DEF Arise, Pass, WriteNow, CrashBeforeWrite, Reconcile, outbox
  <1>4. PastTypeOK'
    BY <1>1, FaultCounts
       DEF Arise, Pass, WriteNow, CrashBeforeWrite, Reconcile, WakesInv, StoreInv, WakesTypeOK,
           PastTypeOK, past
  <1>5. drain' = drain /\ UNCHANGED closed
    BY <1>1 DEF drains, past
  <1>6. (StoreTypeOK /\ KeysFit /\ IdsAreMade /\ MailHasItsKey /\ SendsAnew /\ QuestionIsListed)'
    BY <1>1, <1>3, <1>5, StoreStays DEF WakesInv
  <1> QED
    BY <1>2, <1>3, <1>4, <1>6 DEF WakesInv, StoreInv, WakesTypeOK

\* A step of a drain that leaves the mail store alone.
LEMMA DrainKeeps ==
  ASSUME WakesInv, NEW d \in Drainer,
         \/ \E own \in OwnRow : Drain(d, own)
         \/ TellAuthor(d) \/ Push(d) \/ SendFails(d) \/ MarkDelivered(d) \/ DrainCrashes(d)
  PROVE  WakesInv'
  <1>1. UNCHANGED <<needs, round, due, rows, store, mailed, closed>>
    BY DEF Drain, TellAuthor, Push, SendFails, MarkDelivered, DrainCrashes, board, outbox, past
  <1> USE NoneOrWake
  <1>2. /\ DrainTypeOK'
        /\ \A e \in Drainer : drain'[e].at \notin {"question", "publish"}
    <2> USE DEF WakesInv, StoreInv, WakesTypeOK
    <2>1. ASSUME NEW own \in OwnRow, Drain(d, own)
          PROVE  /\ DrainTypeOK'
                 /\ \A e \in Drainer : drain'[e].at \notin {"question", "publish"}
      <3>1. own \in Wake \cup {None}
        BY WakesAssumption DEF OwnRow, Wake
      <3>2. Undelivered \in SUBSET (DOMAIN rows) /\ Undelivered # {}
        BY <2>1 DEF Undelivered, Drain
      <3>3. StartsWith(Undelivered, own) \in {"tell", "key"}
        BY DEF StartsWith
      <3>4. /\ drain' = [drain EXCEPT ![d] =
                  [at |-> StartsWith(Undelivered, own), todo |-> Undelivered, own |-> own]]
            /\ drainLock' = d /\ drainLock = NoDrainer
        BY <2>1 DEF Drain, MayDrain
      <3>5. \A e \in Drainer : drain[e].at = "idle"
        BY <3>4 DEF DrainTypeOK
      <3>6. [at |-> StartsWith(Undelivered, own), todo |-> Undelivered, own |-> own] \in
          [at : {"idle", "tell", "key", "question", "publish", "push", "mark"},
           todo : SUBSET (DOMAIN rows),
           own : Wake \cup {None}]
        BY <3>1, <3>2, <3>3
      <3>7. drain' \in [Drainer ->
          [at : {"idle", "tell", "key", "question", "publish", "push", "mark"},
           todo : SUBSET (DOMAIN rows),
           own : Wake \cup {None}]]
        BY <3>4, <3>6 DEF DrainTypeOK
      <3>8. /\ drain'[d].at \in {"tell", "key"} /\ drain'[d].todo # {}
            /\ \A e \in Drainer \ {d} : drain'[e] = drain[e]
        BY <3>2, <3>3, <3>4 DEF DrainTypeOK
      <3> QED
        BY <1>1, <3>4, <3>5, <3>7, <3>8 DEF DrainTypeOK
    <2>2. ASSUME NEW stage \in {"mark", "key"}, drainLock = d, Go(d, stage)
          PROVE  /\ DrainTypeOK'
                 /\ \A e \in Drainer : drain'[e].at \notin {"question", "publish"}
      <3>1. stage \in Places
        BY DEF Places
      <3> QED
        BY <1>1, <2>2, <3>1, DrainGoesOn
    <2>3. CASE TellAuthor(d) \/ Push(d)
      BY <2>2, <2>3 DEF TellAuthor, Push, DrainAt
    <2>4. CASE SendFails(d) \/ MarkDelivered(d)
      BY <1>1, <2>4, GoesToNext DEF SendFails, MarkDelivered, DrainAt
    <2>5. CASE DrainCrashes(d)
      <3>1. drain' = [drain EXCEPT ![d] = Idle] /\ drainLock' = NoDrainer /\ drainLock = d
        BY <2>5 DEF DrainCrashes
      <3>2. Idle.at = "idle" /\ Idle \in
          [at : {"idle", "tell", "key", "question", "publish", "push", "mark"},
           todo : SUBSET (DOMAIN rows),
           own : Wake \cup {None}]
        BY DEF Idle
      <3> QED
        BY <1>1, <3>1, <3>2 DEF DrainTypeOK
    <2> QED
      BY <2>1, <2>3, <2>4, <2>5
  <1>3. OutboxTypeOK'
    <2>1. CASE MarkDelivered(d)
      BY <1>1, <2>1, RowIsAWake
         DEF MarkDelivered, DrainAt, WakesInv, StoreInv, WakesTypeOK, OutboxTypeOK
    <2>2. CASE ~MarkDelivered(d)
      <3>1. UNCHANGED outbox
        BY <2>2 DEF Drain, TellAuthor, Push, SendFails, DrainCrashes
      <3> QED
        BY <3>1 DEF outbox, WakesInv, StoreInv, WakesTypeOK, OutboxTypeOK
    <2> QED
      BY <2>1, <2>2
  <1>4. PastTypeOK'
    <2>1. told' \in SUBSET Wake
      BY RowIsAWake
         DEF Drain, TellAuthor, Push, SendFails, MarkDelivered, DrainCrashes, DrainAt, past,
             WakesInv, StoreInv, WakesTypeOK, PastTypeOK
    <2>2. faults' \in 0 .. MaxFaults
      BY FaultCounts
         DEF Drain, TellAuthor, Push, SendFails, MarkDelivered, DrainCrashes,
             WakesInv, StoreInv, WakesTypeOK, PastTypeOK
    <2> QED
      BY <1>1, <2>1, <2>2 DEF WakesInv, StoreInv, WakesTypeOK, PastTypeOK
  <1>5. BoardTypeOK' /\ NeedsHaveRounds'
    BY <1>1 DEF WakesInv, StoreInv, WakesTypeOK, BoardTypeOK, NeedsHaveRounds
  <1>6. (StoreTypeOK /\ KeysFit /\ IdsAreMade /\ MailHasItsKey /\ SendsAnew /\ QuestionIsListed)'
    BY <1>1, <1>2, StoreStays DEF WakesInv
  <1> QED
    BY <1>2, <1>3, <1>4, <1>5, <1>6 DEF WakesInv, StoreInv, WakesTypeOK

\* The prunes of an enqueue: the key of a mail that is pending, or acknowledged
\* within the retention, stays.
LEMMA PrunedKeys ==
  ASSUME WakesInv
  PROVE  /\ KeysLeft \in [Wake -> 0 .. MaxId]
         /\ \A w \in Wake : KeysLeft[w] = keys[w] \/ (KeysLeft[w] = 0 /\ IdOf(w) \in aged \ pending)
         /\ \A w \in Wake : KeysLeft[w] = 0 => made[w] < MaxId
         /\ \A id \in pending \cup (acked \ aged) : KeysLeft[id[1]] = id[2]
  <1> USE NoneOrWake DEF WakesInv, StoreInv, WakesTypeOK, StoreTypeOK
  <1>1. /\ KeysLeft \in [Wake -> 0 .. MaxId]
        /\ \A w \in Wake : KeysLeft[w] = IF IdOf(w) \in aged \ pending THEN 0 ELSE keys[w]
    BY DEF KeysLeft
  <1>2. ASSUME NEW w \in Wake, KeysLeft[w] = 0 PROVE made[w] < MaxId
    <2>1. CASE keys[w] = 0
      BY <2>1 DEF KeysFit
    <2>2. CASE keys[w] # 0
      <3>1. IdOf(w) \in aged
        BY <1>1, <1>2, <2>2
      <3>2. IdOf(w)[2] = keys[w] /\ keys[w] = made[w]
        BY <2>2 DEF KeysFit, IdOf
      <3> QED
        BY <3>1, <3>2 DEF KeysFit
    <2> QED
      BY <2>1, <2>2
  <1>3. ASSUME NEW id \in pending \cup (acked \ aged) PROVE KeysLeft[id[1]] = id[2]
    <2>1. id = IdOf(id[1]) /\ id[1] \in Wake /\ id[2] = keys[id[1]]
      BY DEF MailHasItsKey, IdOf, Id
    <2>2. id \notin aged \ pending
      OBVIOUS
    <2> QED
      BY <1>1, <2>1, <2>2
  <1> QED
    BY <1>1, <1>2, <1>3

LEMMA ClaimKeeps == ASSUME WakesInv, NEW d \in Drainer, ClaimKey(d) PROVE WakesInv'
  <1> USE NoneOrWake DEF WakesInv, StoreInv, WakesTypeOK
  <1> DEFINE w == Row(d)
             hasKey == KeysLeft[w] # 0
  <1>1. /\ drainLock = d /\ drain[d].at = "key"
        /\ acked' = acked \ aged
        /\ keys' = IF hasKey THEN KeysLeft ELSE [KeysLeft EXCEPT ![w] = made[w] + 1]
        /\ made' = IF hasKey THEN made ELSE [made EXCEPT ![w] = @ + 1]
        /\ Go(d, IF MailIsThere(w) THEN "mark" ELSE "question")
        /\ UNCHANGED <<needs, round, due, rows, delivered, pending, open, aged, faults, told, mailed, closed>>
    BY DEF ClaimKey, DrainAt, AckedLeft, FirstFile, board, outbox, past
  <1>2. w \in Wake
    BY <1>1, RowIsAWake
  <1>3. /\ DrainTypeOK' /\ Row(d)' = w
        /\ drain'[d].at = (IF MailIsThere(w) THEN "mark" ELSE "question")
        /\ \A e \in Drainer \ {d} : drain'[e].at = "idle"
    BY <1>1, DrainGoesOn DEF Places
  <1>4. BoardTypeOK' /\ OutboxTypeOK' /\ PastTypeOK' /\ NeedsHaveRounds' /\ QuestionIsListed'
    BY <1>1 DEF BoardTypeOK, OutboxTypeOK, PastTypeOK, NeedsHaveRounds, QuestionIsListed, Asking
  <1>5. /\ ~hasKey => made[w] + 1 \in 1 .. MaxId
        /\ keys' \in [Wake -> 0 .. MaxId] /\ made' \in [Wake -> 0 .. MaxId]
        /\ \A v \in Wake \ {w} : keys'[v] = KeysLeft[v] /\ made'[v] = made[v]
        /\ hasKey => keys'[w] = KeysLeft[w] /\ made'[w] = made[w]
        /\ ~hasKey => keys'[w] = made[w] + 1 /\ made'[w] = made[w] + 1
    <2>1. ~hasKey => made[w] + 1 \in 1 .. MaxId
      BY <1>2, PrunedKeys DEF StoreTypeOK
    <2> QED
      BY <1>1, <1>2, <2>1, PrunedKeys DEF StoreTypeOK
  <1>6. StoreTypeOK'
    BY <1>1, <1>5 DEF StoreTypeOK
  <1>7. KeysFit' /\ IdsAreMade'
    <2>1. \A v \in Wake : keys'[v] \in {0, made'[v]} /\ (keys'[v] = 0 => made'[v] < MaxId)
      BY <1>5, PrunedKeys DEF KeysFit
    <2>2. \A v \in Wake : made[v] <= made'[v]
      BY <1>5 DEF StoreTypeOK
    <2>3. \A id \in pending \cup acked \cup open \cup aged : id[1] \in Wake /\ id[2] \in Nat
      BY DEF StoreTypeOK, Id
    <2>4. \A id \in pending \cup acked \cup open \cup aged : id[2] <= made'[id[1]]
      BY <2>2, <2>3, <1>6 DEF IdsAreMade, StoreTypeOK
    <2> QED
      BY <1>1, <2>1, <2>4 DEF KeysFit, IdsAreMade
  <1>8. ~hasKey => \A id \in pending \cup (acked \ aged) : id[1] # w
    <2> SUFFICES ASSUME ~hasKey, NEW id \in pending \cup (acked \ aged), id[1] = w PROVE FALSE
      OBVIOUS
    <2>1. KeysLeft[w] = id[2] /\ id[2] \in 1 .. MaxId
      BY PrunedKeys DEF StoreTypeOK, Id
    <2> QED
      BY <2>1
  <1>9. MailHasItsKey'
    <2> SUFFICES ASSUME NEW id \in pending \cup (acked \ aged) PROVE id = <<id[1], keys'[id[1]]>>
      BY <1>1 DEF MailHasItsKey, IdOf
    <2>1. id[1] \in Wake /\ id = <<id[1], id[2]>>
      BY DEF StoreTypeOK, Id
    <2>2. keys'[id[1]] = KeysLeft[id[1]]
      BY <1>5, <1>8, <2>1
    <2> QED
      BY <2>1, <2>2, PrunedKeys
  <1>10. SendsAnew'
    <2> SUFFICES ASSUME drain'[d].at = "question"
        PROVE  keys'[w] # 0 /\ <<w, keys'[w]>> \notin pending \cup (acked \ aged) \cup aged
      BY <1>1, <1>3 DEF SendsAnew, IdOf
    <2>1. ~MailIsThere(w)
      BY <1>3
    <2>2. CASE hasKey
      <3>1. keys'[w] = keys[w] /\ keys[w] # 0 /\ IdOf(w) \notin aged \ pending
        BY <1>2, <1>5, <2>2 DEF KeysLeft, StoreTypeOK
      <3>2. IdOf(w) \notin pending \cup (acked \ aged)
        BY <2>1, <2>2 DEF MailIsThere, AckedLeft
      <3> QED
        BY <3>1, <3>2 DEF IdOf
    <2>3. CASE ~hasKey
      <3>1. keys'[w] = made[w] + 1 /\ made[w] \in Nat
        BY <1>2, <1>5, <2>3 DEF StoreTypeOK
      <3>2. \A id \in pending \cup acked \cup aged : id # <<w, made[w] + 1>>
        BY <3>1 DEF IdsAreMade
      <3> QED
        BY <3>1, <3>2
    <2> QED
      BY <2>2, <2>3
  <1> QED
    BY <1>3, <1>4, <1>6, <1>7, <1>9, <1>10

LEMMA QuestionKeeps == ASSUME WakesInv, NEW d \in Drainer, PublishQuestion(d) PROVE WakesInv'
  <1> USE NoneOrWake DEF WakesInv, StoreInv, WakesTypeOK
  <1> DEFINE w == Row(d)
  <1>1. /\ drainLock = d /\ drain[d].at = "question" /\ Go(d, "publish")
        /\ open' = IF w[1] \in Question THEN open \cup {IdOf(w)} ELSE open
        /\ UNCHANGED <<needs, round, due, rows, delivered, keys, made, pending, acked, aged,
                       faults, told, mailed, closed>>
    BY DEF PublishQuestion, DrainAt, board, outbox, past
  <1>2. w \in Wake /\ IdOf(w) \in Id /\ IdOf(w)[2] <= made[w] /\ IdOf(w)[1] = w
    BY <1>1, RowIsAWake DEF SendsAnew, KeysFit, StoreTypeOK, Id, IdOf
  <1>3. /\ DrainTypeOK' /\ Row(d)' = w
        /\ drain'[d].at = "publish"
        /\ \A e \in Drainer \ {d} : drain'[e].at = "idle"
    BY <1>1, DrainGoesOn DEF Places
  <1>4. BoardTypeOK' /\ OutboxTypeOK' /\ PastTypeOK' /\ NeedsHaveRounds'
    BY <1>1 DEF BoardTypeOK, OutboxTypeOK, PastTypeOK, NeedsHaveRounds
  <1>5. StoreTypeOK' /\ IdsAreMade'
    BY <1>1, <1>2 DEF StoreTypeOK, IdsAreMade
  <1>6. KeysFit' /\ MailHasItsKey' /\ QuestionIsListed'
    BY <1>1 DEF KeysFit, MailHasItsKey, QuestionIsListed, Asking, IdOf
  <1>7. SendsAnew'
    BY <1>1, <1>2, <1>3 DEF SendsAnew, IdOf
  <1> QED
    BY <1>3, <1>4, <1>5, <1>6, <1>7

LEMMA PublishKeeps == ASSUME WakesInv, NEW d \in Drainer, PublishPending(d) PROVE WakesInv'
  <1> USE NoneOrWake DEF WakesInv, StoreInv, WakesTypeOK
  <1> DEFINE w == Row(d)
  <1>1. /\ drainLock = d /\ drain[d].at = "publish" /\ Go(d, "push")
        /\ pending' = pending \cup {IdOf(w)} /\ mailed' = mailed \cup {IdOf(w)}
        /\ UNCHANGED <<needs, round, due, rows, delivered, keys, made, acked, open, aged,
                       faults, told, closed>>
    BY DEF PublishPending, DrainAt, board, outbox
  <1>2. w \in Wake /\ IdOf(w) \in Id /\ IdOf(w)[2] <= made[w] /\ IdOf(w)[1] = w
    BY <1>1, RowIsAWake DEF SendsAnew, KeysFit, StoreTypeOK, Id, IdOf
  <1>3. /\ DrainTypeOK' /\ drain'[d].at = "push"
        /\ \A e \in Drainer \ {d} : drain'[e].at = "idle"
    BY <1>1, DrainGoesOn DEF Places
  <1>4. BoardTypeOK' /\ OutboxTypeOK' /\ PastTypeOK' /\ NeedsHaveRounds'
    BY <1>1, <1>2 DEF BoardTypeOK, OutboxTypeOK, PastTypeOK, NeedsHaveRounds
  <1>5. StoreTypeOK' /\ IdsAreMade'
    BY <1>1, <1>2 DEF StoreTypeOK, IdsAreMade
  <1>6. KeysFit' /\ MailHasItsKey'
    BY <1>1, <1>2 DEF KeysFit, MailHasItsKey, IdOf
  <1>7. QuestionIsListed'
    BY <1>1, <1>2 DEF SendsAnew, QuestionIsListed, Asking
  <1>8. SendsAnew'
    BY <1>3 DEF SendsAnew
  <1> QED
    BY <1>3, <1>4, <1>5, <1>6, <1>7, <1>8

LEMMA FailKeeps == ASSUME WakesInv, NEW d \in Drainer, PublishFails(d) PROVE WakesInv'
  <1> USE NoneOrWake DEF WakesInv, StoreInv, WakesTypeOK
  <1> DEFINE w == Row(d)
  <1>1. /\ drainLock = d /\ drain[d].at = "publish" /\ NextRow(d) /\ Fault
        /\ open' = open \ {IdOf(w)}
        /\ UNCHANGED <<needs, round, due, rows, delivered, keys, made, pending, acked, aged,
                       told, mailed, closed>>
    BY DEF PublishFails, DrainAt, board, outbox, past
  <1>2. IdOf(w) \notin pending \cup acked
    BY <1>1 DEF SendsAnew
  <1>3. DrainTypeOK' /\ \A e \in Drainer : drain'[e].at \in {"idle", "tell", "key"}
    BY <1>1, GoesToNext
  <1>4. BoardTypeOK' /\ OutboxTypeOK' /\ PastTypeOK' /\ NeedsHaveRounds'
    BY <1>1, FaultCounts DEF BoardTypeOK, OutboxTypeOK, PastTypeOK, NeedsHaveRounds
  <1>5. StoreTypeOK' /\ IdsAreMade' /\ KeysFit' /\ MailHasItsKey'
    BY <1>1 DEF StoreTypeOK, IdsAreMade, KeysFit, MailHasItsKey, IdOf
  <1>6. QuestionIsListed'
    BY <1>1, <1>2 DEF QuestionIsListed, Asking
  <1>7. SendsAnew'
    BY <1>3 DEF SendsAnew
  <1> QED
    BY <1>3, <1>4, <1>5, <1>6, <1>7

LEMMA ReaderKeeps ==
  ASSUME WakesInv, \/ \E id \in pending : Ack(id)
                   \/ \E id \in open : CloseQuestion(id)
  PROVE  WakesInv'
  <1> USE DEF WakesInv, StoreInv, WakesTypeOK
  <1>1. UNCHANGED <<needs, round, due, rows, delivered, drain, drainLock, keys, made, aged, faults,
                    told, mailed>>
    BY DEF Ack, CloseQuestion, board, outbox, drains, past
  <1>2. /\ pending' \cup acked' = pending \cup acked
        /\ open' \cup closed' = open \cup closed
        /\ open' \subseteq open /\ closed' \in SUBSET Id
        /\ pending' \in SUBSET Id /\ acked' \in SUBSET Id
        /\ \A id \in pending' \cup (acked' \ aged') : id \in pending \cup (acked \ aged)
    BY DEF Ack, CloseQuestion, StoreTypeOK, PastTypeOK, past
  <1>3. BoardTypeOK' /\ OutboxTypeOK' /\ DrainTypeOK' /\ PastTypeOK' /\ NeedsHaveRounds'
    BY <1>1, <1>2 DEF BoardTypeOK, OutboxTypeOK, DrainTypeOK, PastTypeOK, NeedsHaveRounds
  <1>4. StoreTypeOK' /\ KeysFit' /\ IdsAreMade' /\ MailHasItsKey' /\ QuestionIsListed'
    BY <1>1, <1>2 DEF StoreTypeOK, KeysFit, IdsAreMade, MailHasItsKey, QuestionIsListed, Asking, IdOf
  <1>5. SendsAnew'
    BY <1>1, <1>2 DEF SendsAnew, IdOf, Row
  <1> QED
    BY <1>3, <1>4, <1>5

\* The enqueue of another line, which prunes under a drain that sends, too.
LEMMA PruneKeeps == ASSUME WakesInv, OtherEnqueue PROVE WakesInv'
  <1> USE DEF WakesInv, StoreInv, WakesTypeOK
  <1>1. /\ acked' = acked \ aged /\ keys' = KeysLeft
        /\ UNCHANGED <<needs, round, due, rows, delivered, drain, drainLock, made, pending, open, aged,
                       faults, told, mailed, closed>>
    BY DEF OtherEnqueue, AckedLeft, board, outbox, drains, past
  <1>2. BoardTypeOK' /\ OutboxTypeOK' /\ DrainTypeOK' /\ PastTypeOK' /\ NeedsHaveRounds'
    BY <1>1 DEF BoardTypeOK, OutboxTypeOK, DrainTypeOK, PastTypeOK, NeedsHaveRounds
  <1>3. StoreTypeOK' /\ IdsAreMade' /\ QuestionIsListed'
    BY <1>1, PrunedKeys DEF StoreTypeOK, IdsAreMade, QuestionIsListed, Asking
  <1>4. KeysFit'
    BY <1>1, PrunedKeys DEF KeysFit
  <1>5. MailHasItsKey'
    <2> SUFFICES ASSUME NEW id \in pending \cup (acked \ aged) PROVE id = <<id[1], keys'[id[1]]>>
      BY <1>1 DEF MailHasItsKey, IdOf
    <2>1. id = <<id[1], id[2]>>
      BY DEF StoreTypeOK, Id
    <2> QED
      BY <1>1, <2>1, PrunedKeys
  <1>6. SendsAnew'
    <2> SUFFICES ASSUME NEW d \in Drainer, drain[d].at \in {"question", "publish"}
        PROVE  KeysLeft[Row(d)] = keys[Row(d)]
      BY <1>1 DEF SendsAnew, IdOf, Row
    <2>1. Row(d) \in Wake /\ IdOf(Row(d)) \notin aged
      BY RowIsAWake DEF SendsAnew
    <2> QED
      BY <2>1, PrunedKeys
  <1> QED
    BY <1>2, <1>3, <1>4, <1>5, <1>6

LEMMA AgeKeeps == ASSUME WakesInv, NEW w \in Wake, KeyAges(w) PROVE WakesInv'
  <1> USE NoneOrWake DEF WakesInv, StoreInv, WakesTypeOK
  <1>1. /\ drainLock = NoDrainer /\ keys[w] \in 1 .. MaxId - 1 /\ aged' = aged \cup {IdOf(w)}
        /\ UNCHANGED <<needs, round, due, rows, delivered, drain, drainLock, keys, made, pending, acked,
                       open, faults, told, mailed, closed>>
    BY DEF KeyAges, board, outbox, drains, past
  <1>2. BoardTypeOK' /\ OutboxTypeOK' /\ DrainTypeOK' /\ PastTypeOK' /\ NeedsHaveRounds'
    BY <1>1 DEF BoardTypeOK, OutboxTypeOK, DrainTypeOK, PastTypeOK, NeedsHaveRounds
  <1>3. IdOf(w) \in Id /\ IdOf(w)[2] <= made[w] /\ IdOf(w)[1] = w /\ IdOf(w)[2] < MaxId
    BY <1>1 DEF IdOf, Id, KeysFit, StoreTypeOK
  <1>4. StoreTypeOK' /\ KeysFit' /\ IdsAreMade' /\ MailHasItsKey' /\ QuestionIsListed'
    BY <1>1, <1>3 DEF StoreTypeOK, KeysFit, IdsAreMade, MailHasItsKey, QuestionIsListed, Asking, IdOf
  <1>5. \A d \in Drainer : drain[d].at = "idle"
    BY <1>1 DEF DrainTypeOK
  <1>6. SendsAnew'
    BY <1>1, <1>5 DEF SendsAnew
  <1> QED
    BY <1>2, <1>4, <1>6

LEMMA QuestionAgeKeeps == ASSUME WakesInv, NEW id \in open, QuestionAges(id) PROVE WakesInv'
  <1> USE NoneOrWake DEF WakesInv, StoreInv, WakesTypeOK
  <1>1. /\ drainLock = NoDrainer /\ id \in aged /\ open' = open \ {id}
        /\ UNCHANGED <<needs, round, due, rows, delivered, drain, drainLock, keys, made, pending, acked,
                       aged, faults, told, mailed, closed>>
    BY DEF QuestionAges, board, outbox, drains, past
  <1>2. BoardTypeOK' /\ OutboxTypeOK' /\ DrainTypeOK' /\ PastTypeOK' /\ NeedsHaveRounds'
    BY <1>1 DEF BoardTypeOK, OutboxTypeOK, DrainTypeOK, PastTypeOK, NeedsHaveRounds
  <1>3. StoreTypeOK' /\ KeysFit' /\ IdsAreMade' /\ MailHasItsKey' /\ QuestionIsListed'
    BY <1>1 DEF StoreTypeOK, KeysFit, IdsAreMade, MailHasItsKey, QuestionIsListed, Asking, IdOf
  <1>4. \A d \in Drainer : drain[d].at = "idle"
    BY <1>1 DEF DrainTypeOK
  <1>5. SendsAnew'
    BY <1>1, <1>4 DEF SendsAnew
  <1> QED
    BY <1>2, <1>3, <1>5

LEMMA WakesNextInv == WakesInv /\ [WakesNext]_wakeVars => WakesInv'
  <1> SUFFICES ASSUME WakesInv, [WakesNext]_wakeVars PROVE WakesInv'
    OBVIOUS
  <1>1. CASE UNCHANGED wakeVars
    BY <1>1
       DEF wakeVars, board, outbox, drains, store, past, WakesInv, StoreInv, WakesTypeOK, BoardTypeOK,
           OutboxTypeOK, DrainTypeOK, StoreTypeOK, PastTypeOK, KeysFit, IdsAreMade, MailHasItsKey,
           SendsAnew, QuestionIsListed, Asking, NeedsHaveRounds, IdOf, Row
  <1>2. ASSUME NEW c \in Cause,
               Arise(c) \/ Pass(c) \/ WriteNow(c) \/ CrashBeforeWrite(c) \/ Reconcile(c)
        PROVE  WakesInv'
    BY <1>2, BoardKeeps
  <1>3. ASSUME NEW d \in Drainer, (\E own \in OwnRow : Drain(d, own)) \/ DrainStep(d) \/ DrainCrashes(d)
        PROVE  WakesInv'
    BY <1>3, DrainKeeps, ClaimKeeps, QuestionKeeps, PublishKeeps, FailKeeps DEF DrainStep
  <1>4. CASE \/ \E id \in pending : Ack(id)
             \/ \E id \in open : CloseQuestion(id)
    BY <1>4, ReaderKeeps
  <1>5. CASE \E w \in Wake : KeyAges(w)
    BY <1>5, AgeKeeps
  <1>6. CASE OtherEnqueue
    BY <1>6, PruneKeeps
  <1>7. CASE \E id \in open : QuestionAges(id)
    BY <1>7, QuestionAgeKeeps
  <1> QED
    BY <1>1, <1>2, <1>3, <1>4, <1>5, <1>6, <1>7 DEF WakesNext

\* The board, the outbox, the drains and the files of the mail store have their
\* shapes, for any number of causes, drains and rounds: among them, that no two
\* drains are under way (send_lock), that a row is in the outbox once
\* (ON CONFLICT DO NOTHING) and that a key file names an id that was made.
THEOREM WakesInvariant == WakesSpec => []WakesInv
  BY WakesInitInv, WakesNextInv, PTL DEF WakesSpec

\* A mail that asks a question can be read, within the retention, only while its
\* question is listed or after it was closed (enqueue_inner: the question first).
THEOREM QuestionsAreListed == WakesSpec => []QuestionIsListed
  <1>1. WakesInv => QuestionIsListed
    BY DEF WakesInv, StoreInv
  <1> QED
    BY <1>1, WakesInvariant, PTL

\* A wake that is sent again, by whichever drain and after whatever crash, makes
\* no second mail while the first is pending or within the retention (claim_key).
THEOREM OneMailAWake == WakesSpec => NoSecondMail
  <1>1. WakesInv /\ [WakesNext]_wakeVars =>
           [\A id \in mailed' \ mailed :
              \A other \in pending \cup (acked \ aged) : other[1] = id[1] => other = id]_wakeVars
    <2> SUFFICES ASSUME WakesInv, WakesNext,
                        NEW id \in mailed' \ mailed,
                        NEW other \in pending \cup (acked \ aged), other[1] = id[1]
                 PROVE  other = id
      OBVIOUS
    <2>1. PICK d \in Drainer : PublishPending(d)
      BY DEF WakesNext, Arise, Pass, WriteNow, CrashBeforeWrite, Reconcile, Drain, DrainStep, TellAuthor,
             ClaimKey, PublishQuestion, PublishFails, Push, SendFails, MarkDelivered, DrainCrashes, Ack,
             CloseQuestion, KeyAges, QuestionAges, OtherEnqueue, past
    <2>2. id = IdOf(Row(d))
      BY <2>1 DEF PublishPending
    <2> QED
      BY <2>2 DEF IdOf, WakesInv, StoreInv, MailHasItsKey
  <1> QED
    BY <1>1, WakesInvariant, PTL DEF WakesSpec, NoSecondMail

-----------------------------------------------------------------------------
(***************************************************************************)
(* Couriers.                                                               *)
(***************************************************************************)
\* A courier is asked for by the sender of a mail that was published.
AskedIsSent == \A m \in asked : sender[m] # "none"

CourierInv == CourierTypeOK /\ AskedIsSent /\ CourierStays

\* What was typed and recorded is recorded until its reader acknowledges it.
TypedIsRecorded ==
    \A m \in Budgeted \cap typed :
        sender[m] = "done" /\ mail[m] = "pending" /\ m \notin acking => m \in pushed

\* A pass that took a mail for one that was not recorded is over when it is due.
PassesAreOver ==
    \A m \in Budgeted \cap overdue :
        /\ sender[m] \in {"done", "dead"}
        /\ \A c \in Courier : m \notin (seen[c] \ seenPushed[c]) \cap pushed

\* A line is typed after the courier of its budget was started.
SendersInOrder ==
    \A m \in Mail :
        /\ m \in typed => sender[m] \in {"mark", "start after", "done", "dead"}
        /\ m \in Budgeted => sender[m] # "start after"

PushInv == CourierTypeOK /\ SendersInOrder /\ TypedIsRecorded /\ PassesAreOver

ResendAt == [Mail -> {"none", "missed", "if unpushed", "sent"}]

\* CourierTypeOK, one variable at a time.
Typed ==
    /\ mail \in [Mail -> {"none", "pending", "acked"}]
    /\ acking \subseteq Mail /\ pushed \subseteq Mail /\ overdue \subseteq Mail
    /\ typed \subseteq Mail /\ known \subseteq Mail /\ asked \subseteq Mail /\ missed \subseteq Mail
    /\ sender \in [Mail -> {"none", "start", "push", "mark", "start after", "done", "dead"}]
    /\ failures \in 0 .. MaxFailures

TypedCouriers ==
    /\ place \in [Courier -> {"off", "lock", "read", "target", "deliver", "unlock", "look", "relock"}]
    /\ courierLock \in Courier \cup {NoCourier}
    /\ \A c \in Courier :
          courierLock = c <=> place[c] \in {"read", "target", "deliver", "unlock"}
    /\ seen \in [Courier -> SUBSET Mail] /\ seenPushed \in [Courier -> SUBSET Mail]
    /\ resend \in [Courier -> ResendAt]

LEMMA TypesApart ==
    /\ CourierTypeOK <=> Typed /\ TypedCouriers
    /\ CourierTypeOK' <=> Typed' /\ TypedCouriers'
  BY DEF CourierTypeOK, Typed, TypedCouriers, ResendAt

-----------------------------------------------------------------------------
LEMMA CourierInitInv == CourierInit => CourierInv /\ PushInv
  <1> SUFFICES ASSUME CourierInit PROVE CourierInv /\ PushInv
    OBVIOUS
  <1>1. [m \in Mail |-> "none"] \in ResendAt
    BY DEF ResendAt
  <1>2. Typed
    BY CourierAssumption DEF CourierInit, Typed
  <1>3. TypedCouriers
    BY <1>1, CourierAssumption DEF CourierInit, TypedCouriers
  <1>4. AskedIsSent /\ CourierStays /\ SendersInOrder /\ TypedIsRecorded /\ PassesAreOver
    BY DEF CourierInit, AskedIsSent, SendersInOrder, CourierStays, TypedIsRecorded, PassesAreOver
  <1> QED
    BY <1>2, <1>3, <1>4, TypesApart DEF CourierInv, PushInv

LEMMA FailureCounts == failures \in 0 .. MaxFailures /\ Failure => failures' \in 0 .. MaxFailures
  BY CourierAssumption DEF Failure

\* The steps of a sender and of a reader keep every type.
LEMMA SenderTypes ==
    ASSUME Typed, NEW m \in Mail,
           PublishMail(m) \/ SenderStep(m) \/ SenderDies(m) \/ AckRecord(m) \/ AckMove(m) \/ MailIsDue(m)
    PROVE  Typed'
  <1> USE CourierAssumption DEF Typed, SenderGoes, files, senders, couriers
  <1>1. CASE PublishMail(m)
    BY <1>1 DEF PublishMail
  <1>2. CASE StartCourier(m)
    BY <1>2 DEF StartCourier, AfterStart
  <1>3. CASE StartFails(m)
    BY <1>3, FailureCounts DEF StartFails, AfterStart
  <1>4. CASE PushLine(m)
    BY <1>4 DEF PushLine, AfterPush
  <1>5. CASE MarkPushed(m)
    BY <1>5 DEF MarkPushed, AfterPush
  <1>6. CASE SenderDies(m)
    BY <1>6, FailureCounts DEF SenderDies
  <1>7. CASE AckRecord(m)
    BY <1>7 DEF AckRecord
  <1>8. CASE AckMove(m)
    BY <1>8 DEF AckMove
  <1>9. CASE MailIsDue(m)
    BY <1>9 DEF MailIsDue
  <1> HIDE DEF Typed
  <1> QED
    BY <1>1, <1>2, <1>3, <1>4, <1>5, <1>6, <1>7, <1>8, <1>9 DEF SenderStep

\* A sender only starts couriers.
LEMMA SenderCouriers ==
    ASSUME TypedCouriers, NEW m \in Mail,
           PublishMail(m) \/ SenderStep(m) \/ SenderDies(m) \/ AckRecord(m) \/ AckMove(m) \/ MailIsDue(m)
    PROVE  TypedCouriers'
  <1>1. CASE StartCourier(m)
    BY <1>1, CourierAssumption DEF StartCourier, TypedCouriers
  <1>2. CASE UNCHANGED couriers
    BY <1>2 DEF couriers, TypedCouriers
  <1> QED
    BY <1>1, <1>2 DEF SenderStep, PublishMail, StartFails, PushLine, MarkPushed, SenderDies, AckRecord,
                      AckMove, MailIsDue, files, senders

\* The steps of a courier keep the mail typed.
LEMMA CourierMail ==
    ASSUME Typed, TypedCouriers, NEW c \in Courier, CourierStep(c) \/ CourierDies(c)
    PROVE  Typed'
  <1> USE CourierAssumption DEF Typed, files, senders
  <1>1. ASSUME NEW m \in Mail, Resend(c, m) PROVE Typed'
    BY <1>1, FailureCounts DEF Resend
  <1>2. CASE Digest(c)
    BY <1>2 DEF Digest, Unread, TypedCouriers
  <1>3. CASE CourierDies(c)
    BY <1>3, FailureCounts DEF CourierDies
  <1>4. CASE UNCHANGED <<files, senders, known, asked, missed, failures>>
    BY <1>4
  <1> HIDE DEF Typed
  <1> QED
    BY <1>1, <1>2, <1>3, <1>4
       DEF CourierStep, TakeCourierLock, ReadPending, NoTarget, BusyTarget, IdleTarget, EndPass, Unlock,
           LookAgain, TakeLockBack

LEMMA CourierTypes ==
    ASSUME Typed, TypedCouriers, NEW c \in Courier, CourierStep(c) \/ CourierDies(c)
    PROVE  TypedCouriers'
  <1>0. /\ [m \in Mail |-> "none"] \in ResendAt
        /\ \A how \in {"missed", "if unpushed"} : Observed(c, how) \in ResendAt
        /\ \A m \in Mail : [resend[c] EXCEPT ![m] = "sent"] \in ResendAt
    <2>1. resend[c] \in ResendAt
      BY DEF TypedCouriers
    <2> QED
      BY <2>1 DEF ResendAt, Observed
  <1>1. ASSUME NEW to, CourierGoes(c, place[c], to),
               to \in {"off", "lock", "read", "target", "deliver", "unlock", "look", "relock"},
               courierLock' \in {courierLock, c, NoCourier},
               to \in {"read", "target", "deliver", "unlock"} <=> courierLock' = c,
               courierLock' # courierLock => courierLock \in {c, NoCourier},
               seen' \in [Courier -> SUBSET Mail], seenPushed' \in [Courier -> SUBSET Mail],
               resend' \in [Courier -> ResendAt]
        PROVE  TypedCouriers'
    BY <1>1, CourierAssumption DEF TypedCouriers, CourierGoes
  <1>2. Stops(c) => /\ seen' \in [Courier -> SUBSET Mail] /\ seenPushed' \in [Courier -> SUBSET Mail]
                    /\ resend' \in [Courier -> ResendAt]
    <2>1. [m \in Mail |-> "none"] \in ResendAt /\ {} \in SUBSET Mail
      BY <1>0
    <2> HIDE DEF ResendAt
    <2> QED
      BY <2>1 DEF Stops, TypedCouriers
  <1>3. /\ seen \in [Courier -> SUBSET Mail] /\ seenPushed \in [Courier -> SUBSET Mail]
        /\ resend \in [Courier -> ResendAt]
        /\ courierLock = c <=> place[c] \in {"read", "target", "deliver", "unlock"}
        /\ c # NoCourier
    BY CourierAssumption DEF TypedCouriers
  <1>4. CASE TakeCourierLock(c)
    BY <1>1, <1>3, <1>4 DEF TakeCourierLock, CourierLockIsFree, CourierGoes
  <1>5. CASE ReadPending(c)
    <2>1. Pending \in SUBSET Mail
      BY DEF Pending
    <2> QED
      BY <1>1, <1>3, <1>5, <2>1 DEF ReadPending, CourierGoes
  <1>6. CASE NoTarget(c) \/ BusyTarget(c) \/ IdleTarget(c)
    BY <1>0, <1>1, <1>3, <1>6 DEF NoTarget, BusyTarget, IdleTarget, WhenBusy, CourierGoes
  <1>7. ASSUME NEW m \in Mail, Resend(c, m) PROVE TypedCouriers'
    <2>1. resend' = [resend EXCEPT ![c] = [resend[c] EXCEPT ![m] = "sent"]]
      BY <1>3, <1>7 DEF Resend
    <2> QED
      BY <1>0, <1>7, <2>1 DEF Resend, TypedCouriers
  <1>8. CASE Digest(c) \/ EndPass(c)
    BY <1>1, <1>3, <1>8 DEF Digest, EndPass, CourierGoes
  <1>9. CASE Unlock(c)
    BY <1>1, <1>3, <1>9 DEF Unlock, CourierGoes
  <1>10. CASE LookAgain(c)
    BY <1>1, <1>2, <1>3, <1>10 DEF LookAgain, CourierGoes
  <1>11. CASE TakeLockBack(c)
    BY <1>1, <1>2, <1>3, <1>11 DEF TakeLockBack, CourierLockIsFree, CourierGoes
  <1>12. CASE CourierDies(c)
    BY <1>1, <1>2, <1>3, <1>12 DEF CourierDies, CourierGoes
  <1> QED
    BY <1>4, <1>5, <1>6, <1>7, <1>8, <1>9, <1>10, <1>11, <1>12 DEF CourierStep

LEMMA CourierNextTypes == CourierTypeOK /\ [CourierNext]_mailVars => CourierTypeOK'
  <1>1. UNCHANGED mailVars /\ Typed /\ TypedCouriers => Typed' /\ TypedCouriers'
    BY DEF Typed, TypedCouriers, mailVars, files, senders, couriers
  <1> QED
    BY <1>1, TypesApart, SenderTypes, SenderCouriers, CourierMail, CourierTypes DEF CourierNext

\* No step takes the last courier of a pending mail that was asked for.
LEMMA NextStays == CourierInv /\ [CourierNext]_mailVars => AskedIsSent' /\ CourierStays'
  <1> SUFFICES ASSUME CourierInv, [CourierNext]_mailVars PROVE AskedIsSent' /\ CourierStays'
    OBVIOUS
  <1> Typed /\ TypedCouriers
    BY TypesApart DEF CourierInv
  <1> USE CourierAssumption DEF CourierInv, AskedIsSent, CourierStays, Typed, TypedCouriers
  <1>0. ASSUME UNCHANGED <<asked, couriers>>,
               \A m \in asked : mail'[m] = "pending" => mail[m] = "pending",
               \A m \in asked : sender'[m] # "none"
        PROVE  AskedIsSent' /\ CourierStays'
    BY <1>0 DEF couriers
  <1>1. ASSUME NEW m \in Mail, PublishMail(m) \/ StartFails(m) \/ PushLine(m) \/ MarkPushed(m)
                               \/ SenderDies(m) \/ AckRecord(m) \/ AckMove(m) \/ MailIsDue(m)
        PROVE  AskedIsSent' /\ CourierStays'
    <2>1. UNCHANGED <<asked, couriers>>
      BY <1>1 DEF PublishMail, StartFails, PushLine, MarkPushed, SenderDies, AckRecord, AckMove, MailIsDue
    <2>2. \/ m \notin asked /\ mail' = [mail EXCEPT ![m] = "pending"]
          \/ mail' = mail
          \/ mail' = [mail EXCEPT ![m] = "acked"]
      BY <1>1 DEF PublishMail, StartFails, PushLine, MarkPushed, SenderDies, AckRecord, AckMove, MailIsDue,
                  SenderGoes, files
    <2>3. sender' = sender \/ \E to \in {"push", "start", "mark", "start after", "done", "dead"} :
                                 sender' = [sender EXCEPT ![m] = to]
      BY <1>1 DEF PublishMail, StartFails, PushLine, MarkPushed, SenderDies, AckRecord, AckMove, MailIsDue,
                  SenderGoes, AfterStart, AfterPush, senders
    <2> QED
      BY <1>0, <2>1, <2>2, <2>3
  <1>2. ASSUME NEW m \in Mail, StartCourier(m) PROVE AskedIsSent' /\ CourierStays'
    BY <1>2 DEF StartCourier, SenderGoes, AfterStart, files
  <1>3. ASSUME NEW c \in Courier, ReadPending(c) \/ NoTarget(c) \/ BusyTarget(c) \/ IdleTarget(c)
                                  \/ (\E m \in Mail : Resend(c, m)) \/ Digest(c) \/ EndPass(c) \/ Unlock(c)
        PROVE  AskedIsSent' /\ CourierStays'
    BY <1>3 DEF ReadPending, NoTarget, BusyTarget, IdleTarget, Resend, Digest, EndPass, Unlock,
                CourierGoes, files, senders
  <1>4. ASSUME NEW c \in Courier, TakeCourierLock(c) \/ TakeLockBack(c)
        PROVE  AskedIsSent' /\ CourierStays'
    BY <1>4 DEF TakeCourierLock, TakeLockBack, CourierGoes, CourierLockIsFree, files, senders
  <1>5. ASSUME NEW c \in Courier, LookAgain(c) PROVE AskedIsSent' /\ CourierStays'
    BY <1>5 DEF LookAgain, MailIsLeft, Pending, CourierGoes, files, senders
  <1>6. ASSUME NEW c \in Courier, CourierDies(c) PROVE AskedIsSent' /\ CourierStays'
    BY <1>6 DEF CourierDies
  <1>7. CASE UNCHANGED mailVars
    BY <1>7 DEF mailVars, files, senders, couriers
  <1> HIDE DEF CourierInv, AskedIsSent, CourierStays, Typed, TypedCouriers
  <1> QED
    BY <1>1, <1>2, <1>3, <1>4, <1>5, <1>6, <1>7 DEF CourierNext, SenderStep, CourierStep

LEMMA NextInOrder == PushInv /\ [CourierNext]_mailVars => SendersInOrder'
  <1> SUFFICES ASSUME PushInv, [CourierNext]_mailVars PROVE SendersInOrder'
    OBVIOUS
  <1>0. sender \in [Mail -> {"none", "start", "push", "mark", "start after", "done", "dead"}]
        /\ typed \subseteq Mail
    BY DEF PushInv, CourierTypeOK
  <1> USE CourierAssumption DEF PushInv, SendersInOrder
  <1>1. ASSUME NEW m \in Mail, PublishMail(m) \/ SenderStep(m) \/ SenderDies(m) PROVE SendersInOrder'
    BY <1>0, <1>1 DEF PublishMail, SenderStep, StartCourier, StartFails, PushLine, MarkPushed, SenderDies, SenderGoes,
                AfterStart, AfterPush
  <1>2. CASE UNCHANGED senders
    BY <1>2 DEF senders
  <1> HIDE DEF PushInv, SendersInOrder
  <1> QED
    BY <1>1, <1>2
       DEF CourierNext, AckRecord, AckMove, MailIsDue, CourierStep, TakeCourierLock, ReadPending, NoTarget,
           BusyTarget, IdleTarget, Resend, Digest, EndPass, Unlock, LookAgain, TakeLockBack, CourierDies, mailVars

LEMMA NextRecorded == PushInv /\ [CourierNext]_mailVars => TypedIsRecorded' /\ PassesAreOver'
  <1> SUFFICES ASSUME PushInv, [CourierNext]_mailVars PROVE TypedIsRecorded' /\ PassesAreOver'
    OBVIOUS
  <1> Typed /\ TypedCouriers
    BY TypesApart DEF PushInv
  <1> USE CourierAssumption DEF PushInv, TypedIsRecorded, PassesAreOver, Typed, TypedCouriers
  <1>1. ASSUME NEW m \in Mail, PublishMail(m) \/ StartCourier(m) \/ StartFails(m) \/ SenderDies(m) \/ PushLine(m)
        PROVE  TypedIsRecorded' /\ PassesAreOver'
    <2>1. UNCHANGED <<acking, pushed, overdue, seen, seenPushed>>
      BY <1>1 DEF PublishMail, StartCourier, StartFails, SenderDies, PushLine, files, couriers
    <2>2. \A o \in Mail \ {m} : sender'[o] = sender[o] /\ mail'[o] = mail[o]
                                /\ (o \in typed' => o \in typed)
      BY <1>1 DEF PublishMail, StartCourier, StartFails, SenderDies, PushLine, SenderGoes, files
    <2>3. sender[m] \notin {"done", "dead"}
      BY <1>1 DEF PublishMail, StartCourier, StartFails, SenderDies, PushLine, SenderGoes
    <2>4. m \in Budgeted \cap typed' => sender'[m] # "done" \/ mail'[m] # "pending"
      BY <1>1 DEF PublishMail, StartCourier, StartFails, SenderDies, PushLine, SenderGoes, AfterStart, AfterPush,
                  SendersInOrder
    <2> QED
      BY <2>1, <2>2, <2>3, <2>4
  <1>3. ASSUME NEW m \in Mail, MarkPushed(m) PROVE TypedIsRecorded' /\ PassesAreOver'
    BY <1>3 DEF MarkPushed, SenderGoes, AfterPush, couriers
  <1>4. ASSUME NEW m \in Mail, AckRecord(m) \/ AckMove(m) \/ MailIsDue(m)
        PROVE  TypedIsRecorded' /\ PassesAreOver'
    <2>1. CASE AckRecord(m)
      BY <2>1 DEF AckRecord, senders, couriers
    <2>2. CASE AckMove(m)
      BY <2>2 DEF AckMove, senders, couriers
    <2>3. CASE MailIsDue(m)
      <3>1. overdue' = overdue \cup {m}
            /\ UNCHANGED <<mail, acking, pushed, sender, typed, seen, seenPushed>>
        BY <2>3 DEF MailIsDue, senders, couriers
      <3>2. m \in Budgeted =>
                /\ sender[m] \in {"done", "dead"}
                /\ \A c \in Courier : m \notin (seen[c] \ seenPushed[c]) \cap pushed
        BY <2>3 DEF MailIsDue
      <3>3. TypedIsRecorded'
        BY <3>1
      <3>4. \A o \in Budgeted \cap overdue' :
                /\ sender[o] \in {"done", "dead"}
                /\ \A c \in Courier : o \notin (seen[c] \ seenPushed[c]) \cap pushed
        <4> TAKE o \in Budgeted \cap overdue'
        <4>1. CASE o = m
          BY <4>1, <3>2
        <4>2. CASE o # m
          <5>1. o \in Budgeted \cap overdue
            BY <4>2, <3>1
          <5> QED
            BY <5>1
        <4> QED
          BY <4>1, <4>2
      <3>5. PassesAreOver'
        BY <3>1, <3>4
      <3> QED
        BY <3>3, <3>5
    <2> QED
      BY <1>4, <2>1, <2>2, <2>3
  <1>5. ASSUME NEW c \in Courier, ReadPending(c) PROVE TypedIsRecorded' /\ PassesAreOver'
    BY <1>5 DEF ReadPending, Pending, files, senders
  <1>6. ASSUME NEW c \in Courier, \/ TakeCourierLock(c) \/ NoTarget(c) \/ BusyTarget(c) \/ IdleTarget(c)
                                  \/ (\E m \in Mail : Resend(c, m)) \/ Digest(c) \/ EndPass(c) \/ Unlock(c)
        PROVE  TypedIsRecorded' /\ PassesAreOver'
    BY <1>6 DEF TakeCourierLock, NoTarget, BusyTarget, IdleTarget, Resend, Digest, EndPass, Unlock,
                files, senders
  <1>7. ASSUME NEW c \in Courier, LookAgain(c) \/ TakeLockBack(c) \/ CourierDies(c)
        PROVE  TypedIsRecorded' /\ PassesAreOver'
    BY <1>7 DEF LookAgain, TakeLockBack, CourierDies, Stops, files, senders
  <1>8. CASE UNCHANGED mailVars
    BY <1>8 DEF mailVars, files, senders, couriers
  <1> HIDE DEF PushInv, TypedIsRecorded, PassesAreOver, Typed, TypedCouriers
  <1> QED
    BY <1>1, <1>3, <1>4, <1>5, <1>6, <1>7, <1>8 DEF CourierNext, SenderStep, CourierStep

\* Type correctness of the mail, its senders and its couriers.
THEOREM CourierTypeCorrect == CourierSpec => []CourierTypeOK
  BY CourierInitInv, CourierNextTypes, PTL DEF CourierSpec, CourierInv

\* A mail that a courier was started for has one until it is read, whatever the
\* couriers decide meanwhile: the one that finds no mail has let go of the lock
\* and looks again, and one that finds the lock held leaves it to its holder.
THEOREM CouriersStay == CourierSpec => []CourierStays
  <1>1. CourierInv /\ [CourierNext]_mailVars => CourierInv'
    BY NextStays, CourierNextTypes DEF CourierInv
  <1>2. CourierInv => CourierStays
    BY DEF CourierInv
  <1> QED
    BY <1>1, <1>2, CourierInitInv, PTL DEF CourierSpec

\* No line that was typed and recorded inside its budget is typed again: when it
\* is due its record is there, and so is what each pass read of it.
THEOREM NobodyResends == CourierSpec => NoNeedlessResend
  <1>1. PushInv /\ [CourierNext]_mailVars => PushInv'
    BY NextInOrder, NextRecorded, CourierNextTypes DEF PushInv
  <1>2. ASSUME PushInv, [CourierNext]_mailVars
        PROVE  [\A c \in Courier, m \in Budgeted \cap typed :
                  /\ sender[m] = "done"
                  /\ mail[m] = "pending" /\ m \notin acking
                  /\ resend[c][m] = "if unpushed"
                  => resend'[c][m] # "sent"]_mailVars
    <2> SUFFICES ASSUME NEW c \in Courier, NEW m \in Budgeted \cap typed,
                        sender[m] = "done", mail[m] = "pending", m \notin acking,
                        resend[c][m] = "if unpushed", resend'[c][m] = "sent"
                 PROVE  FALSE
      OBVIOUS
    <2>1. m \in Mail /\ m \in pushed /\ resend \in [Courier -> ResendAt]
      BY <1>2, CourierAssumption, TypesApart DEF PushInv, TypedIsRecorded, TypedCouriers
    <2>2. ~Owed(c, m)
      BY <1>2, <2>1 DEF Owed, PushInv, PassesAreOver
    <2>3. ASSUME NEW d \in Courier, NEW o \in Mail, Resend(d, o) PROVE FALSE
      <3>1. d = c /\ o = m
        BY <2>1, <2>3 DEF Resend, ResendAt
      <3> QED
        BY <2>2, <2>3, <3>1 DEF Resend
    <2>4. ASSUME NEW d \in Courier, NoTarget(d) \/ BusyTarget(d) \/ IdleTarget(d) PROVE FALSE
      <3>1. PICK how \in {"missed", "if unpushed"} : resend' = [resend EXCEPT ![d] = Observed(d, how)]
        BY <2>4 DEF NoTarget, BusyTarget, IdleTarget, WhenBusy
      <3>2. Observed(c, how)[m] # "sent"
        BY <2>1 DEF Observed
      <3> QED
        BY <2>1, <3>1, <3>2
    <2>5. ASSUME NEW d \in Courier, Stops(d) PROVE FALSE
      BY <2>1, <2>5 DEF Stops
    <2> QED
      BY <1>2, <2>3, <2>4, <2>5
         DEF CourierNext, SenderStep, PublishMail, StartCourier, StartFails, PushLine, MarkPushed, SenderDies,
             AckRecord, AckMove, MailIsDue, CourierStep, TakeCourierLock, ReadPending, Digest, EndPass, Unlock,
             LookAgain, TakeLockBack, CourierDies, couriers, mailVars
  <1> QED
    BY <1>1, <1>2, CourierInitInv, PTL DEF CourierSpec, NoNeedlessResend

=============================================================================
