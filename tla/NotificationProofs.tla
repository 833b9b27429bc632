------------------------- MODULE NotificationProofs -------------------------
(***************************************************************************)
(* Theorems about notification delivery, for any number of events, routes, *)
(* replicas and attempts.                                                  *)
(*                                                                         *)
(* A replica in a Dispatch holds an attempt of a row.  Attempts are never  *)
(* given out twice (OneHolder), and while the replica may still send, the  *)
(* row is SENDING under that attempt and its lease outlives the replica's  *)
(* context (LiveLease): nobody else can lease, fail or finish the row.     *)
(* Everything else rests on this.                                          *)
(***************************************************************************)
EXTENDS Notifications, TLAPS

InHand(d) == pc[d] \in {"leased", "sending", "answered"}

MaySend(d) == pc[d] \in {"leased", "sending"} /\ left[d] > 0

RowOf(d) == notifications[held[d].name]

\* What a replica holds is an attempt that was counted.
Holders == \A d \in Dispatchers : InHand(d) => 1 <= held[d].attempt /\ held[d].attempt <= RowOf(d).attempts

\* No attempt is in two replicas' hands.
OneHolder ==
  \A d, c \in Dispatchers : InHand(d) /\ InHand(c) /\ held[d] = held[c] => d = c

\* A replica that may send has the row's lease, for longer than it may send.
LiveLease ==
  \A d \in Dispatchers : MaySend(d) => /\ RowOf(d).state = "SENDING"
                                       /\ RowOf(d).attempts = held[d].attempt
                                       /\ left[d] <= RowOf(d).leaseLeft

\* Sends are counted before they happen.
SendCount ==
  /\ \A n \in Names : sends[n] <= notifications[n].attempts
  /\ \A d \in Dispatchers : pc[d] = "leased" /\ left[d] > 0 => sends[held[d].name] < RowOf(d).attempts

\* An answer of success was one.
AnswersTrue == \A d \in Dispatchers : pc[d] = "answered" /\ delivered[d] => held[d].name \in received

\* A row that does not exist was never tried.
Untried == \A n \in Names : notifications[n].state = "NONE" => notifications[n].attempts = 0

NotificationsInv ==
  /\ TypeOK /\ Untried /\ Holders /\ OneHolder /\ LiveLease /\ SendCount
  /\ AnswersTrue /\ DeliveredIsTrue /\ NoHistoryReplayed /\ EscalationHasCause

-----------------------------------------------------------------------------
\* A row that is inserted, failed or left alone by the first part of Dispatch.
LEMMA PreparedRow ==
  ASSUME NEW r, NEW S, NEW n \in Names
  PROVE  \/ Prepared(r, S)[n] = notifications[n]
         \/ notifications[n].state = "NONE" /\ n \in S /\ Prepared(r, S)[n] = NewRow
         \/ Exhausted(n, r) /\ Prepared(r, S)[n] = Failed(notifications[n])
BY DEF Prepared

\* The fields of a new row.
LEMMA NewRowFields ==
  /\ NewRow \in Row /\ NewRow.state = "PENDING" /\ NewRow.attempts = 0 /\ NewRow.lease = 0
  /\ NewRow.leaseLeft = 0
BY NotificationsAssumption DEF NewRow, Row, States

\* The fields of a row whose last attempt expired.
LEMMA FailedFields ==
  ASSUME NEW row \in Row
  PROVE  /\ Failed(row) \in Row /\ Failed(row).state = "FAILED" /\ Failed(row).lease = 0
         /\ Failed(row).attempts = row.attempts
<1>1. PICK k \in 0..MaxAttempts : k = 0
  BY NotificationsAssumption
<1>2. Failed(row) = [row EXCEPT !.state = "FAILED", !.lease = k]
  BY <1>1 DEF Failed
<1>3. Failed(row) \in Row /\ Failed(row).state = "FAILED" /\ Failed(row).lease = k /\ Failed(row).attempts = row.attempts
  BY <1>2 DEF Row, States
<1> QED
  BY <1>1, <1>3

\* The fields of a row that was just leased.
LEMMA LeasedFields ==
  ASSUME NEW row \in Row, row.attempts < MaxAttempts
  PROVE  /\ Leased(row) \in Row /\ Leased(row).state = "SENDING"
         /\ Leased(row).attempts = row.attempts + 1 /\ Leased(row).lease = row.attempts + 1
         /\ Leased(row).leaseLeft = LeaseTime
         /\ Leased(row).escalateIn = row.escalateIn
<1>1. row.attempts \in 0..MaxAttempts /\ row.attempts + 1 \in 0..MaxAttempts /\ LeaseTime \in Nat
  BY NotificationsAssumption DEF Row
<1>2. PICK k \in 0..MaxAttempts : k = row.attempts + 1
  BY <1>1
<1>3. Leased(row) = [row EXCEPT !.state = "SENDING", !.attempts = k, !.lease = k, !.leaseLeft = LeaseTime]
  BY <1>2 DEF Leased
<1>4. /\ Leased(row) \in Row /\ Leased(row).state = "SENDING" /\ Leased(row).attempts = k
      /\ Leased(row).lease = k /\ Leased(row).leaseLeft = LeaseTime
      /\ Leased(row).escalateIn = row.escalateIn
  BY <1>1, <1>3 DEF Row, States
<1> QED
  BY <1>2, <1>4

\* What a replica without a notification holds is typed.
LEMMA NothingTyped == Nothing \in [name : Names, attempt : 0..MaxAttempts]
<1>1. Names # {}
  <2>1. PICK e \in Events, r \in Routes : TRUE
    BY NotificationsAssumption
  <2>2. <<e, r>> \in Names
    BY DEF Names
  <2> QED
    BY <2>2
<1>2. (CHOOSE n \in Names : TRUE) \in Names /\ 0 \in 0..MaxAttempts
  BY <1>1, NotificationsAssumption
<1> QED
  BY <1>2 DEF Nothing

\* A replica that left its Dispatch holds nothing.
LEMMA LeaveTyped ==
  ASSUME TypeOK, NEW d \in Dispatchers, Leave(d, "idle") \/ Leave(d, "down")
  PROVE  /\ pc' \in [Dispatchers -> {"down", "idle", "leased", "sending", "answered"}]
         /\ held' \in [Dispatchers -> [name : Names, attempt : 0..MaxAttempts]]
         /\ left' \in [Dispatchers -> Nat] /\ delivered' \in [Dispatchers -> BOOLEAN]
         /\ ~InHand(d)' /\ ~MaySend(d)'
<1>3. Nothing \in [name : Names, attempt : 0..MaxAttempts]
  BY NothingTyped
<1>4. PICK to \in {"idle", "down"} : Leave(d, to)
  OBVIOUS
<1>5. pc' \in [Dispatchers -> {"down", "idle", "leased", "sending", "answered"}] /\ pc'[d] = to
  BY <1>4 DEF Leave, TypeOK
<1>6. held' \in [Dispatchers -> [name : Names, attempt : 0..MaxAttempts]]
  BY <1>3, <1>4 DEF Leave, TypeOK
<1>7. left' \in [Dispatchers -> Nat] /\ delivered' \in [Dispatchers -> BOOLEAN]
  BY <1>4 DEF Leave, TypeOK
<1> QED
  BY <1>5, <1>6, <1>7 DEF InHand, MaySend

\* The part of the invariant that only reads the tables.
TablesInv == Untried /\ NoHistoryReplayed /\ EscalationHasCause

\* An action that leaves the tables alone preserves what only reads them.
LEMMA TablesKept ==
  ASSUME TablesInv, UNCHANGED tables
  PROVE  TablesInv'
BY DEF TablesInv, tables, Untried, NoHistoryReplayed, EscalationHasCause, Recorded, Settled

\* A step that inserts no row on an escalation target, and that keeps the settled
\* rows and their age, keeps the cause of every escalation.
LEMMA SourceKept ==
  ASSUME EscalationHasCause,
         \A n \in Names : notifications[n].state = "NONE" => notifications'[n].state = "NONE",
         \A n \in Names : Settled(notifications[n]) => notifications'[n].state = notifications[n].state,
         \A n \in Names : notifications[n].escalateIn = 0 => notifications'[n].escalateIn = 0
  PROVE  EscalationHasCause'
<1>1. SUFFICES ASSUME NEW e \in Events, NEW t \in Targets, notifications'[<<e, t>>].state # "NONE"
               PROVE  \E r \in DOMAIN EscalationRoute : /\ EscalationRoute[r] = t
                                                        /\ Settled(notifications'[<<e, r>>])
                                                        /\ notifications'[<<e, r>>].escalateIn = 0
  BY DEF EscalationHasCause
<1>2. <<e, t>> \in Names
  BY NotificationsAssumption DEF Names
<1>3. PICK r \in DOMAIN EscalationRoute : /\ EscalationRoute[r] = t /\ Settled(notifications[<<e, r>>])
                                          /\ notifications[<<e, r>>].escalateIn = 0
  BY <1>1, <1>2 DEF EscalationHasCause
<1>4. <<e, r>> \in Names
  BY NotificationsAssumption DEF Names
<1> QED
  BY <1>3, <1>4 DEF Settled

\* A step after which the rows differ in nothing the invariant reads.
LEMMA FieldsKept ==
  ASSUME NotificationsInv, TypeOK',
         UNCHANGED <<registered, since, outbox, dispatchers, sends, received>>,
         \A m \in Names : /\ notifications'[m].state = notifications[m].state
                          /\ notifications'[m].attempts = notifications[m].attempts
                          /\ notifications'[m].lease = notifications[m].lease
                          /\ notifications'[m].leaseLeft = notifications[m].leaseLeft
                          /\ notifications'[m].escalateIn = notifications[m].escalateIn
  PROVE  NotificationsInv'
<1>1. \A d \in Dispatchers : held[d].name \in Names
  BY DEF NotificationsInv, TypeOK
<1>2. Holders' /\ OneHolder' /\ LiveLease' /\ SendCount' /\ AnswersTrue'
  BY <1>1 DEF NotificationsInv, dispatchers, Holders, OneHolder, LiveLease, SendCount, AnswersTrue, InHand,
              MaySend, RowOf
<1>3. Untried' /\ DeliveredIsTrue' /\ NoHistoryReplayed'
  BY DEF NotificationsInv, Untried, DeliveredIsTrue, NoHistoryReplayed, Recorded
<1>4. EscalationHasCause'
  BY SourceKept DEF NotificationsInv
<1> QED
  BY <1>2, <1>3, <1>4 DEF NotificationsInv

-----------------------------------------------------------------------------
\* An event is recorded.
LEMMA RecordInv ==
  ASSUME NotificationsInv, NEW e \in Events, Record(e)
  PROVE  NotificationsInv'
<1>1. /\ UNCHANGED <<registered, notifications, dispatchers, sends, received>>
      /\ outbox' = Append(outbox, e) /\ since' = [since EXCEPT ![e] = registered] /\ e \notin Recorded
      /\ outbox \in Seq(Events) /\ since \in [Events -> SUBSET Routes] /\ registered \subseteq Routes
  BY DEF Record, NotificationsInv, TypeOK
<1>2. TypeOK'
  BY <1>1 DEF NotificationsInv, TypeOK, dispatchers
<1>3. Recorded \subseteq Recorded'
  BY <1>1 DEF Recorded
<1>4. NoHistoryReplayed'
  BY <1>1, <1>3 DEF NotificationsInv, NoHistoryReplayed, Names
<1>5. /\ Untried' /\ Holders' /\ OneHolder' /\ LiveLease' /\ SendCount'
      /\ AnswersTrue' /\ DeliveredIsTrue' /\ EscalationHasCause'
  BY <1>1 DEF NotificationsInv, dispatchers, Untried, Holders, OneHolder, LiveLease, SendCount, AnswersTrue,
              DeliveredIsTrue, EscalationHasCause, Settled, InHand, MaySend, RowOf
<1> QED
  BY <1>2, <1>4, <1>5 DEF NotificationsInv

\* A replica starts.
LEMMA StartInv ==
  ASSUME NotificationsInv, NEW d \in Dispatchers,
         Start(d) \/ \E r \in Routes : RegisterNotificationRoute(d, r)
  PROVE  NotificationsInv'
<1>1. CASE Start(d)
  <2>1. /\ UNCHANGED <<tables, held, left, delivered, sends, received>> /\ pc' = [pc EXCEPT ![d] = "idle"]
        /\ pc \in [Dispatchers -> {"down", "idle", "leased", "sending", "answered"}]
    BY <1>1 DEF Start, NotificationsInv, TypeOK
  <2>2. TypeOK'
    BY <2>1 DEF NotificationsInv, TypeOK, tables
  <2>3. TablesInv'
    BY <2>1, TablesKept DEF NotificationsInv, TablesInv
  <2>4. Holders' /\ OneHolder' /\ LiveLease' /\ SendCount' /\ AnswersTrue' /\ DeliveredIsTrue'
    BY <2>1 DEF NotificationsInv, tables, Holders, OneHolder, LiveLease, SendCount, AnswersTrue,
                DeliveredIsTrue, InHand, MaySend, RowOf
  <2> QED
    BY <2>2, <2>3, <2>4 DEF NotificationsInv, TablesInv
<1>2. ASSUME NEW r \in Routes, RegisterNotificationRoute(d, r) PROVE NotificationsInv'
  <2>1. /\ UNCHANGED <<since, outbox, notifications, dispatchers, sends, received>>
        /\ registered' = registered \cup {r}
    BY <1>2 DEF RegisterNotificationRoute
  <2>2. TypeOK'
    BY <2>1 DEF NotificationsInv, TypeOK, dispatchers
  <2>3. /\ Untried' /\ Holders' /\ OneHolder' /\ LiveLease' /\ SendCount' /\ AnswersTrue'
        /\ DeliveredIsTrue' /\ NoHistoryReplayed' /\ EscalationHasCause'
    BY <2>1 DEF NotificationsInv, dispatchers, Untried, Holders, OneHolder, LiveLease, SendCount, AnswersTrue,
                DeliveredIsTrue, NoHistoryReplayed, EscalationHasCause, Recorded, Settled, InHand, MaySend, RowOf
  <2> QED
    BY <2>2, <2>3 DEF NotificationsInv
<1> QED
  BY <1>1, <1>2

\* A request is put on the wire: the replica's attempt is the row's, and no other
\* replica that may send has it.
LEMMA SendInv ==
  ASSUME NotificationsInv, NEW d \in Dispatchers, Send(d)
  PROVE  NotificationsInv'
<1>1. /\ UNCHANGED <<tables, held, left, delivered, received>> /\ pc[d] = "leased" /\ left[d] > 0
      /\ pc' = [pc EXCEPT ![d] = "sending"] /\ sends' = [sends EXCEPT ![held[d].name] = @ + 1]
      /\ pc \in [Dispatchers -> {"down", "idle", "leased", "sending", "answered"}]
      /\ sends \in [Names -> Nat] /\ notifications' = notifications
      /\ held \in [Dispatchers -> [name : Names, attempt : 0..MaxAttempts]]
      /\ \A n \in Names : notifications[n].attempts \in Nat
  BY DEF Send, NotificationsInv, TypeOK, Row, tables
<1>2. TypeOK'
  BY <1>1 DEF NotificationsInv, TypeOK, tables
<1>3. TablesInv'
  BY <1>1, TablesKept DEF NotificationsInv, TablesInv
<1>4. Holders' /\ OneHolder' /\ LiveLease' /\ AnswersTrue' /\ DeliveredIsTrue'
  BY <1>1 DEF NotificationsInv, tables, Holders, OneHolder, LiveLease, AnswersTrue, DeliveredIsTrue, InHand,
              MaySend, RowOf
<1>5. ASSUME NEW c \in Dispatchers, c # d, pc[c] = "leased", left[c] > 0 PROVE held[c].name # held[d].name
  <2>1. MaySend(c) /\ MaySend(d) /\ InHand(c) /\ InHand(d)
    BY <1>1, <1>5 DEF MaySend, InHand
  <2>2. held[c].name = held[d].name => held[c].attempt = held[d].attempt
    BY <2>1 DEF NotificationsInv, LiveLease, RowOf
  <2>3. held[c].name = held[d].name => held[c] = held[d]
    BY <1>1, <2>2
  <2> QED
    BY <1>5, <2>1, <2>3 DEF NotificationsInv, OneHolder
<1>6. sends[held[d].name] < notifications[held[d].name].attempts
  BY <1>1 DEF NotificationsInv, SendCount, RowOf
<1>7. SendCount'
  <2>1. held[d].name \in Names
    BY <1>1
  <2>2. \A n \in Names : sends'[n] <= notifications'[n].attempts
    BY <1>1, <1>6, <2>1 DEF NotificationsInv, SendCount
  <2>3. ASSUME NEW c \in Dispatchers, pc'[c] = "leased", left'[c] > 0
        PROVE  sends'[held'[c].name] < notifications'[held'[c].name].attempts
    <3>1. c # d /\ pc[c] = "leased" /\ left[c] > 0 /\ held' = held
      BY <1>1, <2>3
    <3>2. sends'[held[c].name] = sends[held[c].name]
      BY <1>1, <1>5, <3>1
    <3> QED
      BY <1>1, <3>1, <3>2 DEF NotificationsInv, SendCount, RowOf
  <2> QED
    BY <2>2, <2>3 DEF SendCount, RowOf
<1> QED
  BY <1>2, <1>3, <1>4, <1>7 DEF NotificationsInv, TablesInv

\* A request ends.
LEMMA AnswerInv ==
  ASSUME NotificationsInv, NEW d \in Dispatchers, NEW success \in BOOLEAN, Answer(d, success)
  PROVE  NotificationsInv'
<1>1. /\ UNCHANGED <<tables, held, left, sends>> /\ pc[d] = "sending" /\ pc' = [pc EXCEPT ![d] = "answered"]
      /\ delivered' = [delivered EXCEPT ![d] = success] /\ received \subseteq received'
      /\ received' \subseteq Names /\ (success => held[d].name \in received')
      /\ pc \in [Dispatchers -> {"down", "idle", "leased", "sending", "answered"}]
      /\ delivered \in [Dispatchers -> BOOLEAN] /\ notifications' = notifications
  BY DEF Answer, NotificationsInv, TypeOK, tables
<1>2. TypeOK'
  BY <1>1 DEF NotificationsInv, TypeOK, tables
<1>3. TablesInv'
  BY <1>1, TablesKept DEF NotificationsInv, TablesInv
<1>4. Holders' /\ OneHolder' /\ LiveLease' /\ SendCount'
  BY <1>1 DEF NotificationsInv, tables, Holders, OneHolder, LiveLease, SendCount, InHand, MaySend, RowOf
<1>5. AnswersTrue' /\ DeliveredIsTrue'
  BY <1>1 DEF NotificationsInv, AnswersTrue, DeliveredIsTrue
<1> QED
  BY <1>2, <1>3, <1>4, <1>5 DEF NotificationsInv, TablesInv

\* A replica drops what it holds without writing the table.
LEMMA DropInv ==
  ASSUME NotificationsInv, NEW d \in Dispatchers, Abandon(d) \/ Crash(d)
  PROVE  NotificationsInv'
<1>1. /\ UNCHANGED <<tables, sends>> /\ notifications' = notifications
      /\ Leave(d, "idle") \/ Leave(d, "down")
      /\ received \subseteq received' /\ received' \subseteq Names
  BY DEF Abandon, Crash, NotificationsInv, TypeOK, tables
<1>2. TypeOK' /\ ~InHand(d)' /\ ~MaySend(d)'
  BY <1>1, LeaveTyped DEF NotificationsInv, TypeOK, tables
<1>3. TablesInv'
  BY <1>1, TablesKept DEF NotificationsInv, TablesInv
<1>4. \A c \in Dispatchers \ {d} : pc'[c] = pc[c] /\ held'[c] = held[c] /\ left'[c] = left[c] /\ delivered'[c] = delivered[c]
  BY <1>1 DEF Leave, NotificationsInv, TypeOK
<1>5. Holders' /\ OneHolder' /\ LiveLease'
  BY <1>1, <1>2, <1>4 DEF NotificationsInv, Holders, OneHolder, LiveLease, InHand, MaySend, RowOf
<1>6. SendCount' /\ AnswersTrue' /\ DeliveredIsTrue'
  BY <1>1, <1>2, <1>4 DEF NotificationsInv, SendCount, AnswersTrue, DeliveredIsTrue, InHand, RowOf
<1> QED
  BY <1>2, <1>3, <1>5, <1>6 DEF NotificationsInv, TablesInv

\* An owner acknowledges: no other field changes.
LEMMA AcknowledgeInv ==
  ASSUME NotificationsInv, NEW n \in Names, Acknowledge(n)
  PROVE  NotificationsInv'
<1>1. /\ UNCHANGED <<registered, since, outbox, dispatchers, sends, received>>
      /\ notifications' = [notifications EXCEPT ![n] = [@ EXCEPT !.acknowledged = TRUE]]
      /\ notifications \in [Names -> Row]
  BY DEF Acknowledge, NotificationsInv, TypeOK
<1>2. [notifications[n] EXCEPT !.acknowledged = TRUE] \in Row
  BY <1>1 DEF Row
<1>3. notifications' \in [Names -> Row]
  BY <1>1, <1>2
<1>4. \A m \in Names : /\ notifications'[m].state = notifications[m].state
                       /\ notifications'[m].attempts = notifications[m].attempts
                       /\ notifications'[m].lease = notifications[m].lease
                       /\ notifications'[m].leaseLeft = notifications[m].leaseLeft
                       /\ notifications'[m].escalateIn = notifications[m].escalateIn
  BY <1>1 DEF Row
<1>5. TypeOK'
  BY <1>1, <1>3, <1>4 DEF NotificationsInv, TypeOK, dispatchers
<1> QED
  BY <1>1, <1>4, <1>5, FieldsKept

\* A replica finishes.  If the row is still under its attempt, no replica that may
\* send has it; otherwise the table is left alone.
LEMMA FinishInv ==
  ASSUME NotificationsInv, NEW d \in Dispatchers, Finish(d)
  PROVE  NotificationsInv'
<1> DEFINE n == held[d].name
           state == IF delivered[d] THEN "DELIVERED"
                    ELSE IF held[d].attempt >= MaxAttempts THEN "FAILED" ELSE "PENDING"
           row == [notifications[n] EXCEPT !.state = state, !.lease = 0, !.retryIn = Delay[held[d].attempt]]
<1>1. /\ pc[d] = "answered" /\ Leave(d, "idle") /\ InHand(d)
      /\ UNCHANGED <<registered, since, outbox, sends, received>>
      /\ n \in Names /\ held[d].attempt \in 0..MaxAttempts /\ notifications \in [Names -> Row]
      /\ held \in [Dispatchers -> [name : Names, attempt : 0..MaxAttempts]]
      /\ TypeOK
  BY DEF Finish, NotificationsInv, TypeOK, InHand
<1>2. \A c \in Dispatchers \ {d} : /\ pc'[c] = pc[c] /\ held'[c] = held[c] /\ left'[c] = left[c]
                                   /\ delivered'[c] = delivered[c]
  BY <1>1 DEF Leave, NotificationsInv, TypeOK
<1>3. CASE ~(notifications[n].state = "SENDING" /\ notifications[n].lease = held[d].attempt)
  <2>1. notifications' = notifications
    BY <1>3 DEF Finish
  <2>2. TypeOK' /\ ~InHand(d)' /\ ~MaySend(d)'
    BY <1>1, <2>1, LeaveTyped DEF TypeOK
  <2>3. TablesInv'
    BY <1>1, <2>1, TablesKept DEF NotificationsInv, TablesInv, tables
  <2>4. Holders' /\ OneHolder' /\ LiveLease'
    BY <1>2, <2>1, <2>2 DEF NotificationsInv, Holders, OneHolder, LiveLease, InHand, MaySend, RowOf
  <2>5. SendCount' /\ AnswersTrue' /\ DeliveredIsTrue'
    BY <1>1, <1>2, <2>1, <2>2 DEF NotificationsInv, SendCount, AnswersTrue, DeliveredIsTrue, InHand, RowOf
  <2> QED
    BY <2>2, <2>3, <2>4, <2>5 DEF NotificationsInv, TablesInv
<1>4. CASE notifications[n].state = "SENDING" /\ notifications[n].lease = held[d].attempt
  <2>1. notifications' = [notifications EXCEPT ![n] = row]
    BY <1>4 DEF Finish
  <2>2. state \in {"DELIVERED", "FAILED", "PENDING"} /\ (state = "DELIVERED" => n \in received)
    BY <1>1 DEF NotificationsInv, AnswersTrue
  <2>3. Delay[held[d].attempt] \in Nat /\ 0 \in 0..MaxAttempts
    <3>1. held[d].attempt \in 1..MaxAttempts
      BY <1>1 DEF NotificationsInv, Holders
    <3> QED
      BY <3>1, NotificationsAssumption
  <2> HIDE DEF state
  <2>4. /\ row \in Row /\ row.state = state /\ row.lease = 0 /\ row.attempts = notifications[n].attempts
        /\ row.leaseLeft = notifications[n].leaseLeft /\ row.escalateIn = notifications[n].escalateIn
    <3>1. PICK old \in Row : old = notifications[n]
      BY <1>1
    <3>2. PICK w \in Nat : w = Delay[held[d].attempt]
      BY <2>3
    <3>3. PICK z \in 0..MaxAttempts : z = 0
      BY <2>3
    <3>4. PICK st \in States : st = state
      BY <2>2 DEF States
    <3>5. row = [old EXCEPT !.state = st, !.lease = z, !.retryIn = w]
      BY <3>1, <3>2, <3>3, <3>4
    <3>6. /\ row \in Row /\ row.state = st /\ row.lease = z /\ row.attempts = old.attempts
          /\ row.leaseLeft = old.leaseLeft /\ row.escalateIn = old.escalateIn
      BY <3>5 DEF Row
    <3> QED
      BY <3>1, <3>3, <3>4, <3>6
  <2> HIDE DEF row
  <2>5. \A m \in Names : m # n => notifications'[m] = notifications[m]
    BY <1>1, <2>1
  <2>6. notifications'[n] = row /\ notifications' \in [Names -> Row]
    BY <1>1, <2>1, <2>4
  <2>7. TypeOK'
    BY <1>1, <2>2, <2>4, <2>5, <2>6, LeaveTyped DEF TypeOK
  <2>8. ~InHand(d)' /\ ~MaySend(d)'
    BY <1>1, LeaveTyped
  <2>9. Untried' /\ NoHistoryReplayed' /\ DeliveredIsTrue'
    BY <1>1, <1>4, <2>2, <2>4, <2>5, <2>6 DEF NotificationsInv, Untried, NoHistoryReplayed, DeliveredIsTrue, Recorded
  <2>10. EscalationHasCause'
    <3>1. \A m \in Names : notifications[m].state = "NONE" => notifications'[m].state = "NONE"
      BY <1>4, <2>5
    <3>2. \A m \in Names : Settled(notifications[m]) => notifications'[m].state = notifications[m].state
      BY <1>4, <2>5 DEF Settled
    <3>3. \A m \in Names : notifications[m].escalateIn = 0 => notifications'[m].escalateIn = 0
      BY <2>4, <2>5, <2>6
    <3> QED
      BY <3>1, <3>2, <3>3, SourceKept DEF NotificationsInv
  <2>11. \A c \in Dispatchers \ {d} : MaySend(c) => held[c].name # n
    <3>1. SUFFICES ASSUME NEW c \in Dispatchers \ {d}, MaySend(c), held[c].name = n PROVE FALSE
      OBVIOUS
    <3>2. InHand(c) /\ held[c].attempt = notifications[n].attempts
      BY <3>1 DEF NotificationsInv, LiveLease, MaySend, InHand, RowOf
    <3>3. notifications[n].lease = notifications[n].attempts
      BY <1>1, <1>4 DEF TypeOK
    <3>4. held[c] = held[d]
      <4>1. held[c].attempt = held[d].attempt
        BY <1>4, <3>2, <3>3
      <4> QED
        BY <1>1, <3>1, <4>1
    <3> QED
      BY <1>1, <3>1, <3>2, <3>4 DEF NotificationsInv, OneHolder
  <2>12. \A m \in Names : notifications'[m].attempts = notifications[m].attempts
    BY <2>4, <2>5, <2>6
  <2>13. Holders' /\ OneHolder'
    BY <1>1, <1>2, <2>8, <2>12 DEF NotificationsInv, Holders, OneHolder, InHand, RowOf
  <2>14. LiveLease'
    <3>1. SUFFICES ASSUME NEW c \in Dispatchers, MaySend(c)'
                   PROVE  /\ RowOf(c)'.state = "SENDING" /\ RowOf(c)'.attempts = held'[c].attempt
                          /\ left'[c] <= RowOf(c)'.leaseLeft
      BY DEF LiveLease
    <3>2. c # d /\ held'[c] = held[c] /\ left'[c] = left[c] /\ MaySend(c) /\ held[c].name \in Names
      BY <1>1, <1>2, <2>8, <3>1 DEF MaySend
    <3>3. notifications'[held[c].name] = notifications[held[c].name]
      BY <2>5, <2>11, <3>2
    <3> QED
      BY <3>2, <3>3 DEF NotificationsInv, LiveLease, RowOf
  <2>15. SendCount' /\ AnswersTrue'
    <3>1. \A c \in Dispatchers : held[c].name \in Names
      BY <1>1
    <3>2. AnswersTrue'
      BY <1>1, <1>2, <2>8 DEF NotificationsInv, AnswersTrue, InHand
    <3>3. \A m \in Names : sends'[m] <= notifications'[m].attempts
      BY <1>1, <2>12 DEF NotificationsInv, SendCount
    <3>4. \A c \in Dispatchers : pc'[c] = "leased" => c # d
      BY <2>8 DEF InHand
    <3>5. ASSUME NEW c \in Dispatchers, pc'[c] = "leased", left'[c] > 0
          PROVE  sends'[held'[c].name] < notifications'[held'[c].name].attempts
      BY <1>1, <1>2, <2>12, <3>1, <3>4, <3>5 DEF NotificationsInv, SendCount, RowOf
    <3> QED
      BY <3>2, <3>3, <3>5 DEF SendCount, RowOf
  <2> QED
    BY <2>7, <2>9, <2>10, <2>13, <2>14, <2>15 DEF NotificationsInv
<1> QED
  BY <1>3, <1>4

\* Time passes: a lease and the context under it get shorter together.
LEMMA TickInv ==
  ASSUME NotificationsInv, Tick
  PROVE  NotificationsInv'
<1>1. /\ UNCHANGED <<registered, since, outbox, pc, held, delivered, sends, received>>
      /\ notifications \in [Names -> Row] /\ left \in [Dispatchers -> Nat]
      /\ held \in [Dispatchers -> [name : Names, attempt : 0..MaxAttempts]]
  BY DEF Tick, NotificationsInv, TypeOK
<1>2. \A t \in Nat : Less(t) \in Nat /\ (t = 0 => Less(t) = 0)
  BY DEF Less
<1>3. ASSUME NEW row \in Row
      PROVE  /\ Older(row) \in Row /\ Older(row).state = row.state /\ Older(row).attempts = row.attempts
             /\ Older(row).lease = row.lease /\ Older(row).leaseLeft = Less(row.leaseLeft)
             /\ Older(row).escalateIn = Less(row.escalateIn)
  <2>1. Less(row.leaseLeft) \in Nat /\ Less(row.retryIn) \in Nat /\ Less(row.escalateIn) \in Nat
    BY <1>2, <1>3 DEF Row
  <2> QED
    BY <1>3, <2>1 DEF Older, Row
<1>4. \A n \in Names : notifications'[n] = IF notifications[n].state = "NONE" THEN notifications[n] ELSE Older(notifications[n])
  BY DEF Tick
<1>5. notifications' \in [Names -> Row] /\ left' \in [Dispatchers -> Nat]
  BY <1>1, <1>2, <1>3 DEF Tick
<1>6. \A n \in Names : /\ notifications'[n].state = notifications[n].state
                       /\ notifications'[n].attempts = notifications[n].attempts
                       /\ notifications'[n].lease = notifications[n].lease
                       /\ notifications[n].escalateIn = 0 => notifications'[n].escalateIn = 0
  BY <1>1, <1>2, <1>3, <1>4 DEF Row
<1>7. TypeOK'
  BY <1>1, <1>5, <1>6 DEF NotificationsInv, TypeOK
<1>8. Untried' /\ NoHistoryReplayed' /\ DeliveredIsTrue'
  BY <1>1, <1>6 DEF NotificationsInv, Untried, NoHistoryReplayed, DeliveredIsTrue, Recorded
<1>9. EscalationHasCause'
  BY <1>6, SourceKept DEF NotificationsInv
<1>10. \A c \in Dispatchers : held[c].name \in Names
  BY <1>1
<1>11. Holders' /\ OneHolder' /\ AnswersTrue'
  BY <1>1, <1>6, <1>10 DEF NotificationsInv, Holders, OneHolder, AnswersTrue, InHand, RowOf
<1>12. \A d \in Dispatchers : left'[d] = Less(left[d])
  BY DEF Tick
<1>13. LiveLease'
  <2>1. SUFFICES ASSUME NEW c \in Dispatchers, MaySend(c)'
                 PROVE  /\ RowOf(c)'.state = "SENDING" /\ RowOf(c)'.attempts = held'[c].attempt
                        /\ left'[c] <= RowOf(c)'.leaseLeft
    BY DEF LiveLease
  <2>2. MaySend(c) /\ left'[c] = left[c] - 1 /\ left[c] \in Nat
    BY <1>1, <1>12, <2>1 DEF MaySend, Less
  <2>3. /\ RowOf(c).state = "SENDING" /\ RowOf(c).attempts = held[c].attempt /\ left[c] <= RowOf(c).leaseLeft
        /\ RowOf(c) \in Row
    BY <1>1, <1>10, <2>2 DEF NotificationsInv, LiveLease, RowOf
  <2>4. RowOf(c)' = Older(RowOf(c))
    BY <1>1, <1>4, <1>10, <2>3 DEF RowOf
  <2>5. RowOf(c).leaseLeft \in Nat /\ RowOf(c).leaseLeft > 0
    BY <2>2, <2>3, <2>1, <1>12 DEF Row, MaySend, Less
  <2>6. RowOf(c)'.leaseLeft = RowOf(c).leaseLeft - 1
    BY <1>3, <2>3, <2>4, <2>5 DEF Less
  <2> QED
    BY <1>1, <1>3, <2>2, <2>3, <2>4, <2>5, <2>6
<1>14. SendCount'
  <2>1. \A c \in Dispatchers : left'[c] > 0 => left[c] > 0
    BY <1>1, <1>12 DEF Less
  <2> QED
    BY <1>1, <1>6, <1>10, <2>1 DEF NotificationsInv, SendCount, RowOf
<1> QED
  BY <1>7, <1>8, <1>9, <1>11, <1>13, <1>14 DEF NotificationsInv

-----------------------------------------------------------------------------
\* What the first part of Dispatch's transaction does to the rows: attempts are
\* counted nowhere, a row under a running lease and a settled row are left alone,
\* and what is inserted follows the activation boundary and has its cause.
LEMMA PreparedFacts ==
  ASSUME NotificationsInv, NEW r \in Routes, NEW S \in SUBSET (ToMaterialize(r) \cup ToEscalate(r)),
         NEW T, T = Prepared(r, S)
  PROVE  /\ T \in [Names -> Row]
         /\ \A n \in Names : T[n].lease = IF T[n].state = "SENDING" THEN T[n].attempts ELSE 0
         /\ \A n \in Names : T[n].attempts = notifications[n].attempts
         /\ \A n \in Names : T[n].state = "NONE" => notifications[n].state = "NONE"
         /\ \A n \in Names : T[n].state = "DELIVERED" => n \in received
         /\ \A n \in Names : notifications[n].state = "SENDING" /\ notifications[n].leaseLeft > 0 => T[n] = notifications[n]
         /\ \A n \in Names : Settled(notifications[n]) => T[n] = notifications[n]
         /\ \A n \in Names : T[n].state # "NONE" => n[1] \in Recorded /\ n[2] \in since[n[1]]
<1>1. TypeOK /\ notifications \in [Names -> Row]
  BY DEF NotificationsInv, TypeOK
<1>2. ASSUME NEW n \in Names
      PROVE  \/ T[n] = notifications[n]
             \/ notifications[n].state = "NONE" /\ n \in S /\ T[n] = NewRow
             \/ Exhausted(n, r) /\ T[n] = Failed(notifications[n])
  BY PreparedRow
<1>3. ASSUME NEW n \in Names
      PROVE  /\ Failed(notifications[n]) \in Row /\ Failed(notifications[n]).state = "FAILED"
             /\ Failed(notifications[n]).lease = 0
             /\ Failed(notifications[n]).attempts = notifications[n].attempts
  BY <1>1, FailedFields
<1>4. ASSUME NEW n \in Names
      PROVE  /\ T[n] \in Row
             /\ T[n].lease = IF T[n].state = "SENDING" THEN T[n].attempts ELSE 0
             /\ T[n].attempts = notifications[n].attempts
             /\ T[n].state = "NONE" => notifications[n].state = "NONE"
             /\ T[n].state = "DELIVERED" => n \in received
             /\ notifications[n].state = "SENDING" /\ notifications[n].leaseLeft > 0 => T[n] = notifications[n]
             /\ Settled(notifications[n]) => T[n] = notifications[n]
  <2>1. CASE T[n] = notifications[n]
    BY <1>1, <2>1 DEF NotificationsInv, TypeOK, DeliveredIsTrue
  <2>2. CASE notifications[n].state = "NONE" /\ n \in S /\ T[n] = NewRow
    BY <2>2, NewRowFields DEF NotificationsInv, Untried, Settled
  <2>3. CASE Exhausted(n, r) /\ T[n] = Failed(notifications[n])
    <3>1. notifications[n].state = "SENDING" /\ notifications[n].leaseLeft = 0
      BY <2>3 DEF Exhausted
    <3>2. /\ T[n] \in Row /\ T[n].state = "FAILED" /\ T[n].lease = 0 /\ T[n].attempts = notifications[n].attempts
      BY <1>3, <2>3
    <3> QED
      BY <3>1, <3>2 DEF Settled
  <2> QED
    BY <1>2, <2>1, <2>2, <2>3
<1>5. T \in [Names -> Row]
  BY <1>4 DEF Prepared
<1>6. ASSUME NEW n \in Names, T[n].state # "NONE" PROVE n[1] \in Recorded /\ n[2] \in since[n[1]]
  <2>1. CASE notifications[n].state # "NONE"
    BY <2>1 DEF NotificationsInv, NoHistoryReplayed
  <2>2. CASE n \in ToMaterialize(r)
    <3>1. PICK f \in Recorded : n = <<f, r>> /\ r \in since[f]
      BY <2>2 DEF ToMaterialize
    <3> QED
      BY <3>1
  <2>3. CASE n \in ToEscalate(r)
    <3>1. PICK f \in Events : /\ n = <<f, EscalationRoute[r]>> /\ r \in DOMAIN EscalationRoute
                              /\ Settled(notifications[<<f, r>>]) /\ EscalationRoute[r] \in since[f]
      BY <2>3 DEF ToEscalate
    <3>2. <<f, r>> \in Names /\ notifications[<<f, r>>].state # "NONE"
      BY <3>1 DEF Names, Settled
    <3>3. f \in Recorded
      BY <3>2 DEF NotificationsInv, NoHistoryReplayed
    <3> QED
      BY <3>1, <3>3
  <2> QED
    BY <1>2, <1>6, <2>1, <2>2, <2>3, <1>3 DEF Exhausted
<1> QED
  BY <1>4, <1>5, <1>6

\* Escalations in the prepared table have their causes.
LEMMA PreparedCauses ==
  ASSUME NotificationsInv, NEW r \in Routes, NEW S \in SUBSET (ToMaterialize(r) \cup ToEscalate(r)),
         NEW T, T = Prepared(r, S),
         NEW e \in Events, NEW t \in Targets, T[<<e, t>>].state # "NONE"
  PROVE  \E q \in DOMAIN EscalationRoute : /\ EscalationRoute[q] = t
                                           /\ Settled(T[<<e, q>>]) /\ T[<<e, q>>].escalateIn = 0
<1>1. <<e, t>> \in Names /\ \A q \in DOMAIN EscalationRoute : <<e, q>> \in Names
  BY NotificationsAssumption DEF Names
<1>2. CASE notifications[<<e, t>>].state # "NONE"
  <2>1. PICK q \in DOMAIN EscalationRoute : /\ EscalationRoute[q] = t /\ Settled(notifications[<<e, q>>])
                                            /\ notifications[<<e, q>>].escalateIn = 0
    BY <1>2 DEF NotificationsInv, EscalationHasCause
  <2> QED
    BY <1>1, <2>1, PreparedFacts
<1>3. CASE notifications[<<e, t>>].state = "NONE"
  <2>1. <<e, t>> \in S
    BY <1>1, <1>3, PreparedRow DEF Exhausted
  <2>2. <<e, t>> \notin ToMaterialize(r)
    BY DEF ToMaterialize
  <2>3. <<e, t>> \in ToEscalate(r)
    BY <2>1, <2>2
  <2>4. /\ r \in DOMAIN EscalationRoute /\ t = EscalationRoute[r] /\ Settled(notifications[<<e, r>>])
        /\ notifications[<<e, r>>].escalateIn = 0
    BY <2>3 DEF ToEscalate
  <2> QED
    BY <1>1, <2>4, PreparedFacts
<1> QED
  BY <1>2, <1>3

\* Dispatch: what it leases is not under a running lease, so no replica that may send
\* has it, and the new attempt is above every attempt in hand.
LEMMA DispatchInv ==
  ASSUME NotificationsInv, NEW d \in Dispatchers, NEW r \in Routes, Dispatch(d, r)
  PROVE  NotificationsInv'
<1>1. /\ pc[d] = "idle" /\ UNCHANGED <<registered, since, outbox, sends, received>>
      /\ TypeOK /\ held \in [Dispatchers -> [name : Names, attempt : 0..MaxAttempts]]
      /\ notifications \in [Names -> Row]
      /\ \A c \in Dispatchers : held[c].name \in Names
  BY DEF Dispatch, NotificationsInv, TypeOK
<1>2. PICK S \in SUBSET (ToMaterialize(r) \cup ToEscalate(r)) :
        \/ notifications' = Prepared(r, S) /\ UNCHANGED dispatchers
        \/ \E n \in Names :
             /\ Leasable(Prepared(r, S)[n])
             /\ notifications' = [Prepared(r, S) EXCEPT ![n] = Leased(@)]
             /\ held' = [held EXCEPT ![d] = [name |-> n, attempt |-> Prepared(r, S)[n].attempts + 1]]
             /\ left' = [left EXCEPT ![d] = DispatchTimeout]
             /\ pc' = [pc EXCEPT ![d] = "leased"]
             /\ delivered' = delivered
  BY DEF Dispatch
<1>2a. PICK T \in [Names -> Row] : T = Prepared(r, S)
  BY PreparedFacts
<1>3. /\ T \in [Names -> Row]
      /\ \A n \in Names : T[n].lease = IF T[n].state = "SENDING" THEN T[n].attempts ELSE 0
      /\ \A n \in Names : T[n].attempts = notifications[n].attempts
      /\ \A n \in Names : T[n].state = "NONE" => notifications[n].state = "NONE"
      /\ \A n \in Names : T[n].state = "DELIVERED" => n \in received
      /\ \A n \in Names : notifications[n].state = "SENDING" /\ notifications[n].leaseLeft > 0 => T[n] = notifications[n]
      /\ \A n \in Names : T[n].state # "NONE" => n[1] \in Recorded /\ n[2] \in since[n[1]]
  BY <1>2a, PreparedFacts
<1>4. \A e \in Events, t \in Targets :
        T[<<e, t>>].state # "NONE" =>
          \E q \in DOMAIN EscalationRoute : /\ EscalationRoute[q] = t
                                            /\ Settled(T[<<e, q>>]) /\ T[<<e, q>>].escalateIn = 0
  BY <1>2a, PreparedCauses
<1>5. \A c \in Dispatchers : MaySend(c) => /\ notifications[held[c].name].state = "SENDING"
                                           /\ notifications[held[c].name].leaseLeft > 0
                                           /\ T[held[c].name] = notifications[held[c].name]
  <2>1. SUFFICES ASSUME NEW c \in Dispatchers, MaySend(c)
                 PROVE  /\ notifications[held[c].name].state = "SENDING"
                        /\ notifications[held[c].name].leaseLeft > 0
    BY <1>1, <1>3
  <2>2. notifications[held[c].name].state = "SENDING" /\ left[c] <= notifications[held[c].name].leaseLeft
    BY <2>1 DEF NotificationsInv, LiveLease, RowOf
  <2>3. left[c] \in Nat /\ left[c] > 0 /\ notifications[held[c].name].leaseLeft \in Nat
    BY <1>1, <2>1 DEF TypeOK, MaySend, Row
  <2> QED
    BY <2>2, <2>3
<1>6. CASE notifications' = T /\ UNCHANGED dispatchers
  <2>1. TypeOK'
    BY <1>1, <1>3, <1>6 DEF TypeOK, dispatchers
  <2>2. Untried' /\ NoHistoryReplayed' /\ DeliveredIsTrue'
    BY <1>1, <1>3, <1>6 DEF NotificationsInv, Untried, NoHistoryReplayed, DeliveredIsTrue, Recorded
  <2>3. EscalationHasCause'
    BY <1>4, <1>6 DEF EscalationHasCause
  <2>4. Holders' /\ OneHolder' /\ AnswersTrue'
    BY <1>1, <1>3, <1>6 DEF NotificationsInv, dispatchers, Holders, OneHolder, AnswersTrue, InHand, RowOf
  <2>5. LiveLease'
    BY <1>5, <1>6 DEF NotificationsInv, dispatchers, LiveLease, MaySend, RowOf
  <2>6. SendCount'
    BY <1>1, <1>3, <1>6 DEF NotificationsInv, dispatchers, SendCount, RowOf
  <2> QED
    BY <2>1, <2>2, <2>3, <2>4, <2>5, <2>6 DEF NotificationsInv
<1>7. ASSUME NEW n \in Names, Leasable(T[n]), notifications' = [T EXCEPT ![n] = Leased(@)],
             held' = [held EXCEPT ![d] = [name |-> n, attempt |-> T[n].attempts + 1]],
             left' = [left EXCEPT ![d] = DispatchTimeout], pc' = [pc EXCEPT ![d] = "leased"],
             delivered' = delivered
      PROVE  NotificationsInv'
  <2>1. T[n] \in Row /\ T[n].attempts < MaxAttempts /\ T[n].attempts \in Nat
    BY <1>3, <1>7 DEF Leasable, Row
  <2>2. /\ notifications'[n] = Leased(T[n]) /\ Leased(T[n]) \in Row /\ notifications'[n].state = "SENDING"
        /\ notifications'[n].attempts = T[n].attempts + 1 /\ notifications'[n].lease = T[n].attempts + 1
        /\ notifications'[n].leaseLeft = LeaseTime
    BY <1>3, <1>7, <2>1, LeasedFields
  <2>3. \A m \in Names : m # n => notifications'[m] = T[m]
    BY <1>3, <1>7
  <2>4. notifications' \in [Names -> Row]
    BY <1>3, <1>7, <2>2
  <2>5. /\ held'[d] = [name |-> n, attempt |-> T[n].attempts + 1] /\ left'[d] = DispatchTimeout
        /\ pc'[d] = "leased"
        /\ \A c \in Dispatchers \ {d} : pc'[c] = pc[c] /\ held'[c] = held[c] /\ left'[c] = left[c]
    BY <1>1, <1>7 DEF TypeOK
  <2>6. /\ held' \in [Dispatchers -> [name : Names, attempt : 0..MaxAttempts]]
        /\ left' \in [Dispatchers -> Nat]
        /\ pc' \in [Dispatchers -> {"down", "idle", "leased", "sending", "answered"}]
    <3>1. PICK k \in 0..MaxAttempts : k = T[n].attempts + 1
      BY <2>1, NotificationsAssumption
    <3>2. [name |-> n, attempt |-> T[n].attempts + 1] \in [name : Names, attempt : 0..MaxAttempts]
      BY <3>1
    <3> QED
      BY <1>1, <1>7, <3>2, NotificationsAssumption DEF TypeOK
  <2>7. TypeOK'
    BY <1>1, <1>3, <1>7, <2>2, <2>3, <2>4, <2>6 DEF TypeOK
  <2>8. \A c \in Dispatchers : MaySend(c) => held[c].name # n
    BY <1>5, <1>7 DEF Leasable
  <2>9. Untried' /\ NoHistoryReplayed' /\ DeliveredIsTrue'
    <3>1. T[n].state # "NONE"
      BY <1>7 DEF Leasable
    <3> QED
      <4>1. \A m \in Names : notifications'[m].state = "DELIVERED" => T[m].state = "DELIVERED"
        BY <2>2, <2>3
      <4>2. Untried'
        BY <1>1, <1>3, <2>2, <2>3, <3>1 DEF NotificationsInv, Untried
      <4>3. NoHistoryReplayed'
        BY <1>1, <1>3, <2>3, <3>1 DEF NoHistoryReplayed, Recorded
      <4>4. DeliveredIsTrue'
        BY <1>1, <1>3, <4>1 DEF DeliveredIsTrue
      <4> QED
        BY <4>2, <4>3, <4>4
  <2>10. EscalationHasCause'
    <3>1. SUFFICES ASSUME NEW e \in Events, NEW t \in Targets, notifications'[<<e, t>>].state # "NONE"
                   PROVE  \E q \in DOMAIN EscalationRoute : /\ EscalationRoute[q] = t
                                                            /\ Settled(notifications'[<<e, q>>])
                                                            /\ notifications'[<<e, q>>].escalateIn = 0
      BY DEF EscalationHasCause
    <3>2. <<e, t>> \in Names /\ \A q \in DOMAIN EscalationRoute : <<e, q>> \in Names
      BY NotificationsAssumption DEF Names
    <3>3. T[<<e, t>>].state # "NONE"
      BY <1>7, <2>3, <3>1, <3>2 DEF Leasable
    <3>4. PICK q \in DOMAIN EscalationRoute : /\ EscalationRoute[q] = t
                                              /\ Settled(T[<<e, q>>]) /\ T[<<e, q>>].escalateIn = 0
      BY <1>4, <3>3
    <3>5. <<e, q>> # n
      BY <1>7, <3>4 DEF Leasable, Settled
    <3> QED
      BY <2>3, <3>2, <3>4, <3>5
  <2>11. \A m \in Names : notifications[m].attempts <= notifications'[m].attempts /\ notifications[m].attempts \in Nat
    BY <1>1, <1>3, <2>1, <2>2, <2>3 DEF Row
  <2>12. Holders'
    <3>1. SUFFICES ASSUME NEW c \in Dispatchers, InHand(c)'
                   PROVE  1 <= held'[c].attempt /\ held'[c].attempt <= notifications'[held'[c].name].attempts
      BY DEF Holders, RowOf
    <3>2. CASE c = d
      BY <2>1, <2>2, <2>5, <3>2
    <3>3. CASE c # d
      <4>1. held'[c] = held[c] /\ InHand(c) /\ held[c].name \in Names /\ held[c].attempt \in Nat
        BY <1>1, <2>5, <3>1, <3>3 DEF InHand
      <4>2. 1 <= held[c].attempt /\ held[c].attempt <= notifications[held[c].name].attempts
        BY <4>1 DEF NotificationsInv, Holders, RowOf
      <4>3. notifications'[held[c].name].attempts \in Nat
        BY <2>4, <4>1 DEF Row
      <4> QED
        BY <2>11, <4>1, <4>2, <4>3
    <3> QED
      BY <3>2, <3>3
  <2>13. OneHolder'
    <3>1. ASSUME NEW c \in Dispatchers \ {d}, InHand(c), held[c].name = n PROVE held[c].attempt # T[n].attempts + 1
      <4>1. held[c].attempt <= notifications[n].attempts
        BY <3>1 DEF NotificationsInv, Holders, RowOf
      <4>2. held[c].attempt \in Nat /\ T[n].attempts = notifications[n].attempts
        BY <1>1, <1>3, <1>7, <3>1
      <4> QED
        BY <2>1, <4>1, <4>2
    <3>2. ASSUME NEW c \in Dispatchers \ {d}, InHand(c) PROVE held'[c] # held'[d]
      BY <1>1, <2>5, <3>1, <3>2
    <3>3. \A c \in Dispatchers \ {d} : InHand(c)' <=> InHand(c)
      BY <2>5 DEF InHand
    <3> QED
      BY <2>5, <3>2, <3>3 DEF NotificationsInv, OneHolder
  <2>14. LiveLease'
    <3>1. SUFFICES ASSUME NEW c \in Dispatchers, MaySend(c)'
                   PROVE  /\ notifications'[held'[c].name].state = "SENDING"
                          /\ notifications'[held'[c].name].attempts = held'[c].attempt
                          /\ left'[c] <= notifications'[held'[c].name].leaseLeft
      BY DEF LiveLease, RowOf
    <3>2. CASE c = d
      BY <2>2, <2>5, <3>2, NotificationsAssumption
    <3>3. CASE c # d
      <4>1. held'[c] = held[c] /\ left'[c] = left[c] /\ MaySend(c)
        BY <2>5, <3>1, <3>3 DEF MaySend
      <4>2. notifications'[held[c].name] = notifications[held[c].name]
        BY <1>1, <1>5, <2>3, <2>8, <4>1
      <4> QED
        BY <4>1, <4>2 DEF NotificationsInv, LiveLease, RowOf
    <3> QED
      BY <3>2, <3>3
  <2>15. SendCount'
    <3>1. ASSUME NEW m \in Names PROVE sends'[m] <= notifications'[m].attempts /\ (m = n => sends'[m] < notifications'[m].attempts)
      <4>1. sends'[m] = sends[m] /\ sends[m] <= notifications[m].attempts /\ sends[m] \in Nat
        BY <1>1 DEF NotificationsInv, SendCount, TypeOK
      <4>2. notifications[m].attempts \in Nat /\ notifications'[m].attempts \in Nat
        BY <1>1, <2>4 DEF Row
      <4> QED
        BY <1>3, <2>1, <2>2, <2>11, <4>1, <4>2
    <3>2. ASSUME NEW c \in Dispatchers, pc'[c] = "leased", left'[c] > 0
          PROVE  sends'[held'[c].name] < notifications'[held'[c].name].attempts
      <4>1. CASE c = d
        BY <2>5, <3>1, <4>1
      <4>2. CASE c # d
        <5>1. held'[c] = held[c] /\ pc[c] = "leased" /\ left[c] > 0 /\ held[c].name # n /\ held[c].name \in Names
          BY <1>1, <2>5, <2>8, <3>2, <4>2 DEF MaySend
        <5>2. notifications'[held[c].name].attempts = notifications[held[c].name].attempts
          BY <1>3, <2>3, <5>1
        <5> QED
          BY <1>1, <5>1, <5>2 DEF NotificationsInv, SendCount, RowOf
      <4> QED
        BY <4>1, <4>2
    <3> QED
      BY <3>1, <3>2 DEF SendCount, RowOf
  <2>16. AnswersTrue'
    BY <1>1, <1>7, <2>5 DEF NotificationsInv, AnswersTrue
  <2> QED
    BY <2>7, <2>9, <2>10, <2>12, <2>13, <2>14, <2>15, <2>16 DEF NotificationsInv
<1> QED
  <2>1. \/ notifications' = T /\ UNCHANGED dispatchers
        \/ \E n \in Names :
             /\ Leasable(T[n])
             /\ notifications' = [T EXCEPT ![n] = Leased(@)]
             /\ held' = [held EXCEPT ![d] = [name |-> n, attempt |-> T[n].attempts + 1]]
             /\ left' = [left EXCEPT ![d] = DispatchTimeout]
             /\ pc' = [pc EXCEPT ![d] = "leased"]
             /\ delivered' = delivered
    BY <1>2, <1>2a, Zenon
  <2> QED
    BY <1>6, <1>7, <2>1, Zenon

-----------------------------------------------------------------------------
\* The invariant holds in the beginning.
LEMMA NotificationsInitInv == Init => NotificationsInv
<1> SUFFICES ASSUME Init PROVE NotificationsInv
  OBVIOUS
<1>1. /\ NoRow \in Row /\ NoRow.state = "NONE" /\ NoRow.attempts = 0 /\ NoRow.lease = 0
  <2>1. NewRow \in Row /\ NewRow.attempts = 0 /\ NewRow.lease = 0
    BY NewRowFields
  <2> QED
    BY <2>1 DEF NoRow, Row, States
<1>2. \A n \in Names : notifications[n] = NoRow
  BY DEF Init
<1>3. Nothing \in [name : Names, attempt : 0..MaxAttempts]
  BY NothingTyped
<1>4. TypeOK
  BY <1>1, <1>2, <1>3 DEF Init, TypeOK
<1>5. \A d \in Dispatchers : ~InHand(d) /\ ~MaySend(d)
  BY DEF Init, InHand, MaySend
<1>6. Holders /\ OneHolder /\ LiveLease /\ AnswersTrue
  BY <1>5 DEF Holders, OneHolder, LiveLease, AnswersTrue, InHand
<1>7. SendCount
  BY <1>1, <1>2, <1>5 DEF Init, SendCount, InHand
<1>8. Untried /\ DeliveredIsTrue /\ NoHistoryReplayed
  BY <1>1, <1>2 DEF Untried, DeliveredIsTrue, NoHistoryReplayed
<1>9. \A e \in Events, t \in Targets : <<e, t>> \in Names
  BY NotificationsAssumption DEF Names
<1>10. EscalationHasCause
  BY <1>1, <1>2, <1>9 DEF EscalationHasCause
<1> QED
  BY <1>4, <1>6, <1>7, <1>8, <1>10 DEF NotificationsInv

\* Every step preserves it.
LEMMA NotificationsStepInv ==
  ASSUME NotificationsInv, [Next]_vars
  PROVE  NotificationsInv'
<1>1. CASE UNCHANGED vars
  BY <1>1, FieldsKept DEF vars, tables, dispatchers, NotificationsInv, TypeOK
<1>2. CASE Next
  BY <1>2, RecordInv, StartInv, DispatchInv, SendInv, AnswerInv, FinishInv, DropInv, AcknowledgeInv, TickInv
  DEF Next, Proceed
<1> QED
  BY <1>1, <1>2

\* The inductive invariant of delivery.
THEOREM NotificationsInvariant == Spec => []NotificationsInv
BY NotificationsInitInv, NotificationsStepInv, PTL DEF Spec

\* Rows, leases and the replicas' variables keep their types.
THEOREM NotificationsTyped == Spec => []TypeOK
<1>1. NotificationsInv => TypeOK
  BY DEF NotificationsInv
<1> QED
  BY <1>1, NotificationsInvariant, PTL

\* A notification is sent at most MaxAttempts times (LeaseNotification's attempts < 8).
THEOREM SendsAreBounded == Spec => []SendsBounded
<1>1. NotificationsInv => SendsBounded
  <2> SUFFICES ASSUME NotificationsInv, NEW n \in Names PROVE sends[n] <= MaxAttempts
    BY DEF SendsBounded
  <2>1. /\ sends[n] <= notifications[n].attempts /\ notifications[n].attempts \in 0..MaxAttempts
        /\ sends[n] \in Nat
    BY DEF NotificationsInv, SendCount, TypeOK, Row
  <2> QED
    BY <2>1, NotificationsAssumption
<1> QED
  BY <1>1, NotificationsInvariant, PTL

\* FinishNotification records DELIVERED only of what was received.
THEOREM DeliveriesAreTrue == Spec => []DeliveredIsTrue
<1>1. NotificationsInv => DeliveredIsTrue
  BY DEF NotificationsInv
<1> QED
  BY <1>1, NotificationsInvariant, PTL

\* The lease excludes a second replica while the first one may send.
THEOREM LeaseExcludes == Spec => []OneSender
<1>1. NotificationsInv => OneSender
  <2> SUFFICES ASSUME NotificationsInv, NEW d \in Dispatchers, NEW c \in Dispatchers, d # c,
                      held[d].name = held[c].name, pc[d] \in {"leased", "sending"}, pc[c] \in {"leased", "sending"},
                      ~(left[d] = 0 \/ left[c] = 0)
               PROVE  FALSE
    BY DEF OneSender
  <2>1. left[d] \in Nat /\ left[c] \in Nat /\ held[d] \in [name : Names, attempt : 0..MaxAttempts]
        /\ held[c] \in [name : Names, attempt : 0..MaxAttempts]
    BY DEF NotificationsInv, TypeOK
  <2>2. MaySend(d) /\ MaySend(c) /\ InHand(d) /\ InHand(c)
    BY <2>1 DEF MaySend, InHand
  <2>3. held[d].attempt = held[c].attempt
    BY <2>2 DEF NotificationsInv, LiveLease, RowOf
  <2>4. held[d] = held[c]
    BY <2>1, <2>3
  <2> QED
    BY <2>2, <2>4 DEF NotificationsInv, OneHolder
<1> QED
  BY <1>1, NotificationsInvariant, PTL

\* MaterializeNotifications and EscalateNotifications respect registered_at.
THEOREM HistoryIsNotReplayed == Spec => []NoHistoryReplayed
<1>1. NotificationsInv => NoHistoryReplayed
  BY DEF NotificationsInv
<1> QED
  BY <1>1, NotificationsInvariant, PTL

\* Every row of an escalation target stems from a settled row of a route that
\* escalates to it.
THEOREM EscalationsHaveCauses == Spec => []EscalationHasCause
<1>1. NotificationsInv => EscalationHasCause
  BY DEF NotificationsInv
<1> QED
  BY <1>1, NotificationsInvariant, PTL

\* One step leaves the state of a settled row alone: Dispatch inserts only rows that do
\* not exist and leases only PENDING and SENDING ones, and FinishNotification writes
\* only a SENDING row.
LEMMA SettledStep ==
  ASSUME NotificationsInv, [Next]_vars, NEW n \in Names, Settled(notifications[n])
  PROVE  notifications'[n].state = notifications[n].state
<1>1. notifications \in [Names -> Row] /\ notifications[n].state # "NONE" /\ notifications[n].state # "SENDING"
  BY DEF NotificationsInv, TypeOK, Settled
<1>2. ASSUME notifications' = notifications PROVE notifications'[n].state = notifications[n].state
  BY <1>2
<1>3. ASSUME NEW d \in Dispatchers, NEW r \in Routes, Dispatch(d, r)
      PROVE  notifications'[n].state = notifications[n].state
  <2>1. PICK S \in SUBSET (ToMaterialize(r) \cup ToEscalate(r)) :
          \/ notifications' = Prepared(r, S)
          \/ \E m \in Names : /\ Leasable(Prepared(r, S)[m])
                              /\ notifications' = [Prepared(r, S) EXCEPT ![m] = Leased(@)]
    BY <1>3 DEF Dispatch
  <2>2. PICK T \in [Names -> Row] : T = Prepared(r, S)
    BY PreparedFacts
  <2>3. T[n] = notifications[n]
    BY <2>2, PreparedFacts
  <2>4. \/ notifications' = T
        \/ \E m \in Names : Leasable(T[m]) /\ notifications' = [T EXCEPT ![m] = Leased(@)]
    BY <2>1, <2>2, Zenon
  <2>5. ~Leasable(T[n])
    BY <2>3 DEF Leasable, Settled
  <2> QED
    BY <2>2, <2>3, <2>4, <2>5
<1>4. ASSUME NEW d \in Dispatchers, Finish(d) PROVE notifications'[n].state = notifications[n].state
  <2>1. CASE notifications' = notifications
    BY <2>1
  <2>2. CASE notifications' # notifications
    <3>1. notifications[held[d].name].state = "SENDING" /\ held[d].name \in Names
      BY <1>4, <2>2 DEF Finish, NotificationsInv, TypeOK
    <3>2. held[d].name # n
      BY <1>1, <3>1
    <3> QED
      BY <1>1, <1>4, <3>1, <3>2 DEF Finish
  <2> QED
    BY <2>1, <2>2
<1>5. ASSUME NEW m \in Names, Acknowledge(m) PROVE notifications'[n].state = notifications[n].state
  <2>1. notifications' = [notifications EXCEPT ![m].acknowledged = TRUE]
    BY <1>5 DEF Acknowledge
  <2> QED
    BY <1>1, <2>1 DEF Row
<1>6. ASSUME Tick PROVE notifications'[n].state = notifications[n].state
  <2>1. notifications'[n] = Older(notifications[n])
    BY <1>1, <1>6 DEF Tick
  <2>2. notifications[n] \in Row
    BY <1>1
  <2> QED
    BY <2>1, <2>2 DEF Older, Row
<1>7. ASSUME NEW d \in Dispatchers, Send(d) \/ (\E success \in BOOLEAN : Answer(d, success)) \/ Abandon(d)
      PROVE  notifications' = notifications
  BY <1>7 DEF Send, Answer, Abandon, tables
<1>8. ASSUME \/ UNCHANGED vars
             \/ \E e \in Events : Record(e)
             \/ \E d \in Dispatchers : \/ \E r \in Routes : RegisterNotificationRoute(d, r)
                                       \/ Start(d) \/ Crash(d)
      PROVE  notifications' = notifications
  BY <1>8 DEF vars, tables, Record, RegisterNotificationRoute, Start, Crash
<1> QED
  BY <1>2, <1>3, <1>4, <1>5, <1>6, <1>7, <1>8 DEF Next, Proceed

\* A recorded DELIVERED or FAILED is never taken back.
THEOREM SettledStays == Spec => SettledIsFinal
<1>1. NotificationsInv /\ [Next]_vars
      => [\A n \in Names : Settled(notifications[n]) => notifications'[n].state = notifications[n].state]_vars
  BY SettledStep
<1> QED
  BY <1>1, NotificationsInvariant, PTL DEF Spec, SettledIsFinal

\* Delivery is sound for any number of events, routes, replicas, crashes and attempts.
THEOREM SoundDelivery == Spec => []DeliveryIsSound
BY SendsAreBounded, DeliveriesAreTrue, LeaseExcludes, HistoryIsNotReplayed, EscalationsHaveCauses, PTL
   DEF DeliveryIsSound
=============================================================================
