--------------------------- MODULE Notifications ---------------------------
(***************************************************************************)
(* Delivery of operator notifications: pkg/delivery/service.go over the    *)
(* outbox, notifications and notification_routes tables                    *)
(* (pkg/storage/postgres/notifications.go, outbox.go).                     *)
(*                                                                         *)
(* Several orchestrator replicas dispatch the same routes of one scope.    *)
(* A transaction holds the scope's advisory lock, so each is one action;   *)
(* the HTTP request is between two of them, and a replica may die or be    *)
(* late at any point.  What happens at a moment of time is a timer that    *)
(* Tick counts down: a lease has expired, a retry is due or an escalation  *)
(* is due when its timer is at 0.                                          *)
(*                                                                         *)
(* A row is named by its event and its route, which are unique in the      *)
(* table.  Both pages are taken in the order of the events, which is the   *)
(* order of their rows' created_at; a lease takes any candidate, as the    *)
(* order of next_attempt_at only decides which one comes first.            *)
(***************************************************************************)
EXTENDS Naturals, FiniteSets, Sequences

CONSTANTS
  Events,           \* outbox events of the kinds operators are told about
  Routes,           \* configured routes
  EscalationRoute,  \* route -> the route it escalates to; only for those that do
  Dispatchers,      \* orchestrator replicas
  MaxAttempts,      \* 8 attempts
  Delay,            \* attempt -> the wait after it failed, 2^attempt seconds
  LeaseTime,        \* 30 seconds
  DispatchTimeout,  \* 15 seconds: the context of one Dispatch
  EscalateAfter,    \* EscalateAfterSeconds
  PageSize          \* LIMIT 50

\* Routes that others escalate to (escalationTargets).
Targets == {EscalationRoute[r] : r \in DOMAIN EscalationRoute}

ASSUME NotificationsAssumption ==
  /\ MaxAttempts \in Nat \ {0}
  /\ {LeaseTime, DispatchTimeout, EscalateAfter, PageSize} \subseteq Nat \ {0}
  /\ Delay \in [1..MaxAttempts -> Nat]
  \* The context of a Dispatch ends before the lease it took.
  /\ DispatchTimeout < LeaseTime
  \* NewService: the target exists, is another route and escalates no further.
  /\ Events # {} /\ Routes # {}
  /\ DOMAIN EscalationRoute \subseteq Routes
  /\ Targets \subseteq Routes \ DOMAIN EscalationRoute

VARIABLES
  registered,     \* notification_routes table
  since,          \* event -> the routes registered when it was recorded, {} before
  outbox,         \* events recorded, oldest first
  notifications,  \* notifications table: <<event, route>> -> row
  pc,             \* where a replica is in Dispatch
  held,           \* the notification a replica leased, and its attempt
  left,           \* what is left of the context of a replica's Dispatch
  delivered,      \* whether the request a replica sent succeeded
  sends,          \* requests ever sent for a notification
  received        \* notifications whose request reached its destination

tables == <<registered, since, outbox, notifications>>
dispatchers == <<pc, held, left, delivered>>
vars == <<tables, dispatchers, sends, received>>

Names == Events \X Routes

States == {"NONE", "PENDING", "SENDING", "DELIVERED", "FAILED"}

\* A lease is a fresh identifier.  Every lease is another attempt, so the attempt
\* stands for it; 0 is no lease.
Row == [state : States, attempts : 0..MaxAttempts, lease : 0..MaxAttempts, leaseLeft : Nat,
        retryIn : Nat, escalateIn : Nat, acknowledged : BOOLEAN]

NewRow == [state |-> "PENDING", attempts |-> 0, lease |-> 0, leaseLeft |-> 0, retryIn |-> 0,
           escalateIn |-> EscalateAfter, acknowledged |-> FALSE]

NoRow == [NewRow EXCEPT !.state = "NONE"]

\* What a replica that is not in a Dispatch holds.
Nothing == [name |-> CHOOSE n \in Names : TRUE, attempt |-> 0]

Settled(row) == row.state \in {"DELIVERED", "FAILED"}

Init ==
  /\ registered = {}
  /\ since = [e \in Events |-> {}]
  /\ outbox = <<>>
  /\ notifications = [n \in Names |-> NoRow]
  /\ pc = [d \in Dispatchers |-> "down"]
  /\ held = [d \in Dispatchers |-> Nothing]
  /\ left = [d \in Dispatchers |-> 0]
  /\ delivered = [d \in Dispatchers |-> FALSE]
  /\ sends = [n \in Names |-> 0]
  /\ received = {}

-----------------------------------------------------------------------------
Recorded == {outbox[i] : i \in 1..Len(outbox)}

\* Enqueue of an event operators are told about, by any service.
Record(e) ==
  /\ e \notin Recorded
  /\ outbox' = Append(outbox, e)
  /\ since' = [since EXCEPT ![e] = registered]
  /\ UNCHANGED <<registered, notifications, dispatchers, sends, received>>

\* RegisterRoutes, one transaction per route when a replica starts.
RegisterNotificationRoute(d, r) ==
  /\ pc[d] = "down"
  /\ registered' = registered \cup {r}
  /\ UNCHANGED <<since, outbox, notifications, dispatchers, sends, received>>

\* The replica runs: RegisterRoutes has returned.
Start(d) ==
  /\ pc[d] = "down"
  /\ Routes \subseteq registered
  /\ pc' = [pc EXCEPT ![d] = "idle"]
  /\ UNCHANGED <<tables, held, left, delivered, sends, received>>

Before(e, f) == \E i, j \in 1..Len(outbox) : i < j /\ outbox[i] = e /\ outbox[j] = f

\* P is the page of the candidates C with the oldest events.
Page(P, C) ==
  /\ Cardinality(P) = PageSize \/ (P = C /\ Cardinality(C) < PageSize)
  /\ \A n \in P, m \in C \ P : Before(n[1], m[1])

\* MaterializeNotifications: events since the route's registration without a row.
ToMaterialize(r) ==
  {<<e, r>> : e \in {f \in Recorded : /\ r \notin Targets
                                    /\ r \in since[f]
                                    /\ notifications[<<f, r>>].state = "NONE"}}

\* Fault: only what was delivered escalates.
EscalateDelivered(r) ==
  {<<e, EscalationRoute[r]>> :
     e \in {f \in Events : /\ r \in DOMAIN EscalationRoute
                           /\ notifications[<<f, r>>].state = "DELIVERED"
                           /\ ~notifications[<<f, r>>].acknowledged
                           /\ notifications[<<f, r>>].escalateIn = 0
                           /\ EscalationRoute[r] \in since[f]
                           /\ notifications[<<f, EscalationRoute[r]>>].state = "NONE"}}

\* EscalateNotifications: settled, unacknowledged and old enough, once per event.
ToEscalate(r) ==
  {<<e, EscalationRoute[r]>> :
     e \in {f \in Events : /\ r \in DOMAIN EscalationRoute
                           /\ Settled(notifications[<<f, r>>])
                           /\ ~notifications[<<f, r>>].acknowledged
                           /\ notifications[<<f, r>>].escalateIn = 0
                           /\ EscalationRoute[r] \in since[f]
                           /\ notifications[<<f, EscalationRoute[r]>>].state = "NONE"}}

\* Fault: one attempt too many is waited for.
ExhaustedLate(n, r) ==
  /\ n[2] = r
  /\ notifications[n].state = "SENDING"
  /\ notifications[n].leaseLeft = 0
  /\ notifications[n].attempts > MaxAttempts

\* LeaseNotification first fails what expired in its last attempt.
Exhausted(n, r) ==
  /\ n[2] = r
  /\ notifications[n].state = "SENDING"
  /\ notifications[n].leaseLeft = 0
  /\ notifications[n].attempts >= MaxAttempts

Failed(row) == [row EXCEPT !.state = "FAILED", !.lease = 0]

\* The table after the transaction's inserts (ON CONFLICT DO NOTHING) and that first
\* UPDATE.
Prepared(r, P) ==
  [n \in Names |-> CASE n \in P /\ notifications[n].state = "NONE" -> NewRow
                     [] Exhausted(n, r) -> Failed(notifications[n])
                     [] OTHER -> notifications[n]]

\* What LeaseNotification may take.
Leasable(row) ==
  /\ ~row.acknowledged
  /\ \/ row.state = "PENDING" /\ row.retryIn = 0
     \/ row.state = "SENDING" /\ row.leaseLeft = 0
  /\ row.attempts < MaxAttempts

\* Fault: taking over an expired lease does not count as an attempt.
LeasedUncounted(row) ==
  [row EXCEPT !.state = "SENDING", !.attempts = IF row.state = "SENDING" THEN @ ELSE @ + 1,
              !.lease = row.attempts + 1, !.leaseLeft = LeaseTime]

\* The row LeaseNotification writes.
Leased(row) == [row EXCEPT !.state = "SENDING", !.attempts = row.attempts + 1,
                           !.lease = row.attempts + 1, !.leaseLeft = LeaseTime]

\* Dispatch up to its request: one transaction that materializes, escalates and
\* leases.  With nothing to lease the inserts are committed all the same.
Dispatch(d, r) ==
  /\ pc[d] = "idle"
  /\ \E P \in SUBSET ToMaterialize(r), Q \in SUBSET ToEscalate(r) :
       /\ Page(P, ToMaterialize(r))
       /\ Page(Q, ToEscalate(r))
       /\ LET table == Prepared(r, P \cup Q)
              candidates == {n \in Names : n[2] = r /\ Leasable(table[n])}
          IN \/ /\ candidates = {}
                /\ notifications' = table
                /\ UNCHANGED dispatchers
             \/ \E n \in candidates :
                  /\ notifications' = [table EXCEPT ![n] = Leased(@)]
                  /\ held' = [held EXCEPT ![d] = [name |-> n, attempt |-> table[n].attempts + 1]]
                  /\ left' = [left EXCEPT ![d] = DispatchTimeout]
                  /\ pc' = [pc EXCEPT ![d] = "leased"]
                  /\ UNCHANGED delivered
  /\ UNCHANGED <<registered, since, outbox, sends, received>>

\* send puts the request on the wire while the context lasts.
Send(d) ==
  /\ pc[d] = "leased"
  /\ left[d] > 0
  /\ sends' = [sends EXCEPT ![held[d].name] = @ + 1]
  /\ pc' = [pc EXCEPT ![d] = "sending"]
  /\ UNCHANGED <<tables, held, left, delivered, received>>

\* The request ends.  Success means that the destination has it; after an error or
\* a timeout it may have it too.
Answer(d, success) ==
  /\ pc[d] = "sending"
  /\ success => left[d] > 0
  /\ \/ received' = received \cup {held[d].name}
     \/ ~success /\ received' = received
  /\ delivered' = [delivered EXCEPT ![d] = success]
  /\ pc' = [pc EXCEPT ![d] = "answered"]
  /\ UNCHANGED <<tables, held, left, sends>>

\* Dispatch returns, or the process ends, and its variables are gone.
Leave(d, to) ==
  /\ pc' = [pc EXCEPT ![d] = to]
  /\ held' = [held EXCEPT ![d] = Nothing]
  /\ left' = [left EXCEPT ![d] = 0]
  /\ delivered' = [delivered EXCEPT ![d] = FALSE]

\* FinishNotification.  A COMMIT sent just before the context ended is still executed,
\* so this may come after the lease has expired: it is written if nobody has leased
\* or failed the row since, and is ErrConflict otherwise.
Finish(d) ==
  LET n == held[d].name
      row == notifications[n]
      state == IF delivered[d] THEN "DELIVERED"
               ELSE IF held[d].attempt >= MaxAttempts THEN "FAILED" ELSE "PENDING"
  IN /\ pc[d] = "answered"
     /\ notifications' =
          IF row.state = "SENDING" /\ row.lease = held[d].attempt
          THEN [notifications EXCEPT ![n] = [row EXCEPT !.state = state, !.lease = 0,
                                                        !.retryIn = Delay[held[d].attempt]]]
          ELSE notifications
     /\ Leave(d, "idle")
     /\ UNCHANGED <<registered, since, outbox, sends, received>>

\* Dispatch returns without FinishNotification: the context or the database failed,
\* or the second authorization.
Abandon(d) ==
  /\ pc[d] \in {"leased", "answered"}
  /\ Leave(d, "idle")
  /\ UNCHANGED <<tables, sends, received>>

\* The replica dies; a request it sent may still arrive.
Crash(d) ==
  /\ pc[d] # "down"
  /\ Leave(d, "down")
  /\ \/ UNCHANGED received
     \/ pc[d] = "sending" /\ received' = received \cup {held[d].name}
  /\ UNCHANGED <<tables, sends>>

\* AcknowledgeNotification by an owner; a second one changes nothing.
Acknowledge(n) ==
  /\ notifications[n].state # "NONE"
  /\ notifications' = [notifications EXCEPT ![n].acknowledged = TRUE]
  /\ UNCHANGED <<registered, since, outbox, dispatchers, sends, received>>

Less(t) == IF t = 0 THEN 0 ELSE t - 1

Older(row) == [row EXCEPT !.leaseLeft = Less(@), !.retryIn = Less(@), !.escalateIn = Less(@)]

\* Time passes.  A row that does not exist does not age.
Tick ==
  /\ notifications' = [n \in Names |-> IF notifications[n].state = "NONE" THEN notifications[n]
                                       ELSE Older(notifications[n])]
  /\ left' = [d \in Dispatchers |-> Less(left[d])]
  /\ UNCHANGED <<registered, since, outbox, pc, held, delivered, sends, received>>

\* What a running replica does next in its Dispatch.
Proceed(d) == Send(d) \/ (\E success \in BOOLEAN : Answer(d, success)) \/ Finish(d) \/ Abandon(d)

Next ==
  \/ \E e \in Events : Record(e)
  \/ \E d \in Dispatchers :
       \/ \E r \in Routes : RegisterNotificationRoute(d, r) \/ Dispatch(d, r)
       \/ Start(d) \/ Proceed(d) \/ Crash(d)
  \/ \E n \in Names : Acknowledge(n)
  \/ Tick

Spec == Init /\ [][Next]_vars

\* Run reaches every route again and again, whichever replica gets there; every
\* request ends by its context; replicas are restarted; time passes.
FairSpec ==
  /\ Spec
  /\ WF_vars(Tick)
  /\ \A r \in Routes : SF_vars(\E d \in Dispatchers : Dispatch(d, r))
  /\ \A d \in Dispatchers : /\ WF_vars(Proceed(d))
                            /\ WF_vars(Start(d))
                            /\ \A r \in Routes : WF_vars(RegisterNotificationRoute(d, r))

-----------------------------------------------------------------------------
\* Types; a row has a lease exactly while it is SENDING, and it is its last attempt's.
TypeOK ==
  /\ registered \subseteq Routes
  /\ outbox \in Seq(Events)
  /\ since \in [Events -> SUBSET Routes]
  /\ notifications \in [Names -> Row]
  /\ \A n \in Names :
       notifications[n].lease = IF notifications[n].state = "SENDING" THEN notifications[n].attempts ELSE 0
  /\ pc \in [Dispatchers -> {"down", "idle", "leased", "sending", "answered"}]
  /\ held \in [Dispatchers -> [name : Names, attempt : 0..MaxAttempts]]
  /\ left \in [Dispatchers -> Nat]
  /\ delivered \in [Dispatchers -> BOOLEAN]
  /\ sends \in [Names -> Nat]
  /\ received \subseteq Names

\* However replicas die, answer late or lease again what expired, a notification is
\* sent at most MaxAttempts times ("eight bounded attempts").
SendsBounded == \A n \in Names : sends[n] <= MaxAttempts

\* DELIVERED is recorded only of what reached its destination, also when an earlier
\* attempt's outcome arrives after a later attempt began.
DeliveredIsTrue == \A n \in Names : notifications[n].state = "DELIVERED" => n \in received

\* Two replicas with a live context never have the same notification in hand.
OneSender ==
  \A d1, d2 \in Dispatchers :
    (/\ d1 # d2 /\ held[d1].name = held[d2].name
     /\ pc[d1] \in {"leased", "sending"} /\ pc[d2] \in {"leased", "sending"})
    => left[d1] = 0 \/ left[d2] = 0

\* Once DELIVERED or FAILED is recorded it stays, whatever a late finisher, an
\* expired lease or a redispatch do.
SettledIsFinal ==
  [][\A n \in Names : Settled(notifications[n]) => notifications'[n].state = notifications[n].state]_vars

\* No route, the ones only reached by escalation included, is told of an event that
\* was recorded before the route was first registered.
NoHistoryReplayed ==
  \A n \in Names : notifications[n].state # "NONE" => n[1] \in Recorded /\ n[2] \in since[n[1]]

\* An escalation target only has what a route that escalates to it tried first and
\* settled, old enough to escalate.
EscalationHasCause ==
  \A e \in Events, t \in Targets :
    notifications[<<e, t>>].state # "NONE" =>
      \E r \in DOMAIN EscalationRoute :
        /\ EscalationRoute[r] = t
        /\ Settled(notifications[<<e, r>>])
        /\ notifications[<<e, r>>].escalateIn = 0

\* What is sent is sent for a reason, a bounded number of times, by one replica at a time,
\* and recorded truly, whatever crashes, expires or comes late (Dispatch,
\* LeaseNotifications, FinishNotification).
DeliveryIsSound ==
  /\ SendsBounded
  /\ DeliveredIsTrue
  /\ OneSender
  /\ NoHistoryReplayed
  /\ EscalationHasCause

\* Every event recorded after a route was registered is settled on it or acknowledged,
\* with any number of crashes.
EventsSettle ==
  \A e \in Events, r \in Routes \ Targets :
    r \in since[e] ~> Settled(notifications[<<e, r>>]) \/ notifications[<<e, r>>].acknowledged

\* What nobody acknowledges reaches the escalation route's queue.
SilenceEscalates ==
  \A e \in Events, r \in DOMAIN EscalationRoute :
    LET t == EscalationRoute[r]
    IN (/\ {r, t} \subseteq since[e])
       ~> (notifications[<<e, r>>].acknowledged \/ notifications[<<e, t>>].state # "NONE")
=============================================================================
