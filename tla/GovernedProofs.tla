--------------------------- MODULE GovernedProofs ---------------------------
(***************************************************************************)
(* Theorems about GovernedExecution, for every set of actions, items,      *)
(* identities and clusters, every time-out, every journal limit and any    *)
(* number of crashes and lost calls.                                       *)
(***************************************************************************)
EXTENDS GovernedExecution, ExecutionProofs

\* Nobody has submitted action a.
Unclaimed(a) == actions[a].state \in {"NONE", "PROPOSED", "APPROVED", "CANCELLED"}

\* Poll holds a's claim and has not sent the delete.
Holding(a) == cur = a /\ pc \in {"journal", "check", "recheck", "delete"}

\* Outcome o of action a was reported or is about to be: by the journal, by a
\* late receipt, by Poll or by the action itself.
Reported(a, o) ==
  \/ journal[a].token # 0 /\ journal[a].outcome = o
  \/ \E m \in lateReceipts : m.action = a /\ m.outcome = o
  \/ pc = "record" /\ cur = a /\ outcome = o

\* Nothing was done on behalf of an action that was not submitted.
UntouchedUntilClaimed ==
  \A a \in Actions : Unclaimed(a) =>
    /\ journal[a].token = 0
    /\ issued[a] = 0
    /\ ~effect[a]
    /\ a \notin lateDeletes
    /\ ~Holding(a)
    /\ ~(pc = "record" /\ cur = a)
    /\ \A m \in lateReceipts : m.action # a

\* The delete is still to be sent while Poll holds the claim, and is sent once.
SentOnce ==
  \A a \in Actions :
    /\ issued[a] <= 1
    /\ Holding(a) => issued[a] = 0 /\ ~effect[a] /\ a \notin lateDeletes
    /\ a \in lateDeletes => ~effect[a]

\* Every definite report is true and stays true.
ReportsAreTrue ==
  \A a \in Actions :
    /\ Reported(a, "APPLIED") \/ actions[a].state = "APPLIED" => effect[a]
    /\ Reported(a, "PRECONDITION_FAILED") \/ Reported(a, "DENIED") \/ actions[a].state = "FAILED" =>
         ~effect[a] /\ a \notin lateDeletes /\ ~Holding(a)

\* The attempt Poll works on is in its journal, under the claim's receipt token.
AttemptInHand ==
  /\ pc = "journal" => ticket # 0 /\ ticket = actions[cur].receipt
  /\ pc \in {"check", "recheck", "delete", "record"} =>
       /\ journal[cur].token # 0 /\ journal[cur].token = actions[cur].receipt
       /\ ~journal[cur].acknowledged
  /\ pc = "receipt" => journal[cur].token # 0

\* An acknowledged attempt is not open.
AcknowledgedIsClosed ==
  \A a \in Actions : journal[a].token # 0 /\ journal[a].acknowledged => actions[a].state # "SUBMITTED"

\* A claim in hand is no older than this Poll, and reconciliation waits longer.
Punctual ==
  /\ deadline <= now + PollTimeout
  /\ \A a \in Actions :
       /\ Holding(a) => deadline <= actions[a].submittedAt + PollTimeout
       /\ actions[a].reconciled =>
            actions[a].state = "AMBIGUOUS" /\ actions[a].submittedAt + ReconcileAfter <= now

\* A Pod that was deleted for an action is past the version its plan pins.
Replaced ==
  \A a \in Actions : effect[a] => plans[a].target < pods[plans[a].item].version

\* Evidence and plans pin versions at which the Pod was seen unhealthy.
PinnedSick ==
  /\ \A e \in Items :
       /\ \A v \in sick[e] : v <= pods[e].version
       /\ pods[e].version \in sick[e] => pods[e].unhealthy
       /\ evidence[e].version # 0 => evidence[e].target \in sick[e]
  /\ \A a \in Actions : actions[a].state # "NONE" => plans[a].target \in sick[plans[a].item]

SafetyInv ==
  /\ UntouchedUntilClaimed
  /\ SentOnce
  /\ ReportsAreTrue
  /\ AttemptInHand
  /\ AcknowledgedIsClosed
  /\ UncertaintyIsJournaled
  /\ Punctual
  /\ Replaced
  /\ PinnedSick

GovernedInv == ExecutionInv /\ GovernedTypeOK /\ SafetyInv

-----------------------------------------------------------------------------
(* Steps that leave the actions, the journal and the cluster alone. *)

\* What the safety invariant speaks of besides the position of Poll.
tableVars == <<policy, evidence, plans, actions, journal, lateReceipts, lateDeletes,
               pods, sick, issued, effect>>

\* The places of Poll where it has no action in hand.
Outside == {"down", "idle", "flush", "authorize", "list", "work", "claim"}

\* Poll goes, or stays, where it has no action in hand.
LEMMA QuietPoll ==
  ASSUME SafetyInv, GovernedTypeOK, UNCHANGED tableVars, now' = now,
         pc' \in Outside, deadline' <= now + PollTimeout
  PROVE  SafetyInv'
<1>1. UntouchedUntilClaimed'
  BY DEF SafetyInv, UntouchedUntilClaimed, Unclaimed, Holding, Outside, tableVars
<1>2. SentOnce'
  BY DEF SafetyInv, SentOnce, Holding, Outside, tableVars
<1>3. ReportsAreTrue'
  BY DEF SafetyInv, ReportsAreTrue, Reported, Holding, Outside, tableVars
<1>4. AttemptInHand' /\ AcknowledgedIsClosed'
  BY DEF SafetyInv, AttemptInHand, AcknowledgedIsClosed, Outside, tableVars
<1>5. UncertaintyIsJournaled'
  BY DEF SafetyInv, UncertaintyIsJournaled, Unacknowledged, Journaled, tableVars
<1>6. Punctual'
  BY DEF SafetyInv, Punctual, Holding, Outside, tableVars
<1>7. Replaced' /\ PinnedSick'
  BY DEF SafetyInv, Replaced, PinnedSick, tableVars
<1> QED
  BY <1>1, <1>2, <1>3, <1>4, <1>5, <1>6, <1>7 DEF SafetyInv

\* The clock moves or the agents table changes, and Poll stays where it is.
LEMMA QuietWorld ==
  ASSUME SafetyInv, GovernedTypeOK, ExecutionTypeOK, UNCHANGED tableVars,
         UNCHANGED <<pc, cur, ticket, outcome, deadline>>,
         now \in Nat, now' \in Nat, now <= now'
  PROVE  SafetyInv'
<1>1. UntouchedUntilClaimed'
  BY DEF SafetyInv, UntouchedUntilClaimed, Unclaimed, Holding, tableVars
<1>2. SentOnce'
  BY DEF SafetyInv, SentOnce, Holding, tableVars
<1>3. ReportsAreTrue'
  BY DEF SafetyInv, ReportsAreTrue, Reported, Holding, tableVars
<1>4. AttemptInHand' /\ AcknowledgedIsClosed'
  BY DEF SafetyInv, AttemptInHand, AcknowledgedIsClosed, tableVars
<1>5. UncertaintyIsJournaled'
  BY DEF SafetyInv, UncertaintyIsJournaled, Unacknowledged, Journaled, tableVars
<1>6. Punctual'
  <2>1. \A a \in Actions : actions[a].submittedAt \in Nat
    BY DEF ExecutionTypeOK, ActionRow
  <2>2. deadline \in Nat /\ {PollTimeout, ReconcileAfter} \subseteq Nat
    BY GovernedExecutionAssumption, ExecutionAssumption DEF GovernedTypeOK
  <2> QED
    BY <2>1, <2>2 DEF SafetyInv, Punctual, Holding, tableVars
<1>7. Replaced' /\ PinnedSick'
  BY DEF SafetyInv, Replaced, PinnedSick, tableVars
<1> QED
  BY <1>1, <1>2, <1>3, <1>4, <1>5, <1>6, <1>7 DEF SafetyInv

-----------------------------------------------------------------------------
(* What a step does to the orchestrator's tables. *)

\* A step of the executor, or of a call it left behind, changes the tables by
\* fleet operations, a claim or a receipt.
FleetOnly == FleetNext /\ UNCHANGED executionVars
CallOnly ==
  /\ UNCHANGED fleetVars
  /\ \E c, a : a \in Actions /\ (Claim(c, a) \/ \E r, o : o \in Outcomes /\ Receipt(c, a, r, o))

\* A step of the executor touches the control plane's tables only by one fleet
\* call or by one claim or receipt.
LEMMA PollTables ==
  ASSUME FleetTypeOK, GovernedTypeOK, PollNext \/ FailureNext
  PROVE  UNCHANGED <<fleetVars, executionVars>> \/ FleetOnly \/ CallOnly
<1>1. ASSUME NEW b \in bootstraps, EnrollReply(b) PROVE FleetOnly
  <2>1. b.uid \in ClusterUIDs
    BY <1>1 DEF FleetTypeOK, BootstrapRow
  <2> QED
    BY <1>1, <2>1 DEF EnrollReply, FleetOnly, FleetNext, Roles
<1>2. CASE RenewReply
  BY <1>2 DEF RenewReply, FleetOnly, FleetNext, Roles, Renew
<1>3. CASE ReceiptRecorded
  <2>1. cur \in Actions /\ journal[cur].outcome \in Outcomes
    BY DEF GovernedTypeOK, Attempt
  <2> QED
    BY <1>3, <2>1 DEF ReceiptRecorded, CallOnly
<1>4. CASE ClaimReply
  BY <1>4 DEF ClaimReply, CallOnly, GovernedTypeOK
<1>5. CASE Start \/ PollBegin \/ FlushRejected \/ ReceiptAcknowledged \/ ReceiptRefused
           \/ (\E a \in Actions : FlushSend(a)) \/ (\E gone \in SUBSET Actions : FlushDone(gone))
  BY <1>5 DEF Start, PollBegin, FlushRejected, ReceiptAcknowledged, ReceiptRefused, FlushSend, FlushDone
<1>6. CASE Authorized \/ AuthorizeRefused \/ ListReply \/ ListRefused \/ PollEnd \/ ClaimRefused
           \/ (\E a \in Actions : Skip(a) \/ ClaimSend(a) \/ JournalFull(a))
  BY <1>6 DEF Authorized, AuthorizeRefused, ListReply, ListRefused, PollEnd, ClaimRefused, Skip,
              ClaimSend, JournalFull
<1>7. CASE JournalClaim \/ CheckPasses \/ RecheckPasses \/ RecheckFails \/ DeleteApplied
           \/ DeleteExpired \/ Record \/ TimedOut
           \/ (\E o \in Outcomes : CheckFails(o)) \/ (\E o \in Outcomes : DeleteRefused(o))
  BY <1>7 DEF JournalClaim, CheckPasses, RecheckPasses, RecheckFails, DeleteApplied, DeleteExpired,
              Record, TimedOut, CheckFails, DeleteRefused
<1>8. CASE FailureNext
  BY <1>8 DEF FailureNext, Stop, StopInClaim, StopInReceipt, StopInEnroll, StopInRenewal, Stopped,
              DeleteUnknown
<1> QED
  BY <1>1, <1>2, <1>3, <1>4, <1>5, <1>6, <1>7, <1>8 DEF PollNext

\* The administrator's calls on the fleet are steps of Fleet.
LEMMA FleetStepIsFleet ==
  ASSUME FleetTypeOK, FleetStep PROVE FleetNext
<1>1. ASSUME NEW i \in AgentIds, NEW uid \in ClusterUIDs, Bootstrap(i, uid, "COLLECTOR") PROVE FleetNext
  BY <1>1 DEF FleetNext, Roles
<1>2. ASSUME NEW b \in bootstraps, Enroll(b, b.uid, b.role) PROVE FleetNext
  <2>1. b.uid \in ClusterUIDs /\ b.role \in Roles
    BY DEF FleetTypeOK, BootstrapRow
  <2> QED
    BY <1>2, <2>1 DEF FleetNext
<1>3. ASSUME NEW c \in credentials, Renew(c, c.role) PROVE FleetNext
  <2>1. c.role \in Roles
    BY DEF FleetTypeOK, Credential
  <2> QED
    BY <1>3, <2>1 DEF FleetNext
<1> QED
  BY <1>1, <1>2, <1>3 DEF FleetStep, FleetNext

\* Late enrolments and renewals are fleet operations, and so is the administrator's.
LEMMA LateFleetIsFleet ==
  ASSUME FleetTypeOK,
         \/ \E uid \in ClusterUIDs : Reenroll(uid)
         \/ \E b \in bootstraps : LateEnroll(b)
         \/ \E c \in lateRenewals : LateRenewal(c)
  PROVE  FleetOnly
<1>1. ASSUME NEW uid \in ClusterUIDs, Reenroll(uid) PROVE FleetOnly
  BY <1>1, GovernedExecutionAssumption DEF Reenroll, FleetOnly, FleetNext, Roles
<1>2. ASSUME NEW b \in bootstraps, LateEnroll(b) PROVE FleetOnly
  <2>1. b.uid \in ClusterUIDs
    BY DEF FleetTypeOK, BootstrapRow
  <2> QED
    BY <1>2, <2>1 DEF LateEnroll, FleetOnly, FleetNext, Roles
<1>3. ASSUME NEW c \in lateRenewals, LateRenewal(c) PROVE FleetOnly
  BY <1>3 DEF LateRenewal, FleetOnly, FleetNext, Roles, Renew
<1> QED
  BY <1>1, <1>2, <1>3

\* Every step keeps the orchestrator's invariant and its concluded actions.
LEMMA ExecutionPart ==
  ASSUME ExecutionInv, GovernedTypeOK, [Next]_vars
  PROVE  ExecutionInv' /\ Settled
<1>1. FleetInv /\ FleetTypeOK /\ ExecutionTypeOK /\ LoggedOnceProposed /\ ForwardTrail
  BY DEF ExecutionInv, FleetInv
<1>2. ASSUME FleetOnly \/ UNCHANGED <<fleetVars, executionVars>> \/ (PeopleNext /\ UNCHANGED fleetVars)
      PROVE  ExecutionInv' /\ Settled
  BY <1>2, ExecutionStepInv DEF FleetOnly, ExecutionNext
<1>3. ASSUME CallOnly PROVE ExecutionInv' /\ Settled
  <2>1. FleetInv'
    BY <1>1, <1>3, FleetStepInv DEF CallOnly
  <2> QED
    BY <1>1, <1>3, <2>1, CallsKeepExecution DEF CallOnly, ExecutionInv
<1>4. CASE PollNext \/ FailureNext
  BY <1>1, <1>2, <1>3, <1>4, PollTables
<1>5. CASE FleetStep /\ UNCHANGED <<executionVars, executorVars, lateVars, clusterVars>>
  BY <1>1, <1>2, <1>5, FleetStepIsFleet DEF FleetOnly
<1>6. CASE PeopleNext /\ UNCHANGED <<fleetVars, executorVars, lateVars, clusterVars>>
  BY <1>2, <1>6
<1>7. ASSUME NEW c \in credentials, NEW e \in Items, Report(c, e) PROVE ExecutionInv' /\ Settled
  <2>1. PICK t \in sick[e] : Observe(c, e, t)
    BY <1>7 DEF Report
  <2>2. t \in Nat
    BY <2>1 DEF GovernedTypeOK
  <2>3. ExecutionTypeOK' /\ UNCHANGED <<actions, events>>
    BY <1>1, <2>1, <2>2, ObserveTyped
  <2>4. FleetInv'
    BY <1>1, <1>7, FleetStepInv DEF Report
  <2> QED
    BY <1>1, <2>3, <2>4 DEF ExecutionInv, LoggedOnceProposed, ForwardTrail, Settled
<1>8. CASE \/ \E uid \in ClusterUIDs : Reenroll(uid)
           \/ \E b \in bootstraps : LateEnroll(b)
           \/ \E c \in lateRenewals : LateRenewal(c)
  BY <1>1, <1>2, <1>8, LateFleetIsFleet
<1>9. CASE (\E m \in lateClaims : LateClaim(m)) \/ (\E m \in lateReceipts : LateReceipt(m))
  <2>1. \A m \in lateClaims : m.action \in Actions
    BY DEF GovernedTypeOK
  <2>2. \A m \in lateReceipts : m.action \in Actions /\ m.outcome \in Outcomes
    BY DEF GovernedTypeOK
  <2>3. CallOnly
    BY <1>9, <2>1, <2>2 DEF LateClaim, LateReceipt, CallOnly
  <2> QED
    BY <1>3, <2>3
<1>10. CASE (\E e \in Items, u \in BOOLEAN : PodChanges(e, u)) \/ (\E a \in lateDeletes : LateDelete(a))
  <2>1. UNCHANGED <<fleetVars, executionVars>>
    BY <1>10 DEF PodChanges, LateDelete
  <2> QED
    BY <1>2, <2>1
<1>11. CASE UNCHANGED vars
  <2>1. UNCHANGED <<fleetVars, executionVars>>
    BY <1>11 DEF vars
  <2> QED
    BY <1>2, <2>1
<1> QED
  BY <1>4, <1>5, <1>6, <1>7, <1>8, <1>9, <1>10, <1>11 DEF Next, EnvironmentNext, WorldNext

-----------------------------------------------------------------------------
(* Types of the executor's files and of the cluster. *)

\* The row of an agent gives a typed credential.
LEMMA CredentialTyped ==
  ASSUME NEW i \in AgentIds, agents' \in [AgentIds -> AgentRow], NEW b \in Nat
  PROVE  CredentialOf(i, agents'[i], b) \in Credential
  BY DEF CredentialOf, Credential, AgentRow

\* Steps that only move Poll, forget listed actions or set the deadline.
LEMMA MovesTyped ==
  ASSUME ExecutionInv, GovernedTypeOK,
         UNCHANGED <<journal, lateVars, clusterVars, faults, ticket>>,
         pc' \in Steps, listed' \subseteq Actions, cur' \in Actions, resume' \in {"flush", "work"},
         outcome' \in Outcomes, deadline' \in Nat, credential' \in Credential, bootFile' \in Nat
  PROVE  GovernedTypeOK'
  BY DEF GovernedTypeOK, lateVars, clusterVars

\* What deleting the Pod of action a's plan does.
LEMMA PodDeletedFacts ==
  ASSUME ExecutionTypeOK, GovernedTypeOK, NEW a \in Actions, PodDeleted(a)
  PROVE  LET e == plans[a].item IN
         /\ e \in Items
         /\ pods' \in [Items -> [version : Nat, unhealthy : BOOLEAN]]
         /\ effect' \in [Actions -> BOOLEAN]
         /\ pods[e].version = plans[a].target
         /\ pods'[e].version = pods[e].version + 1
         /\ \A f \in Items \ {e} : pods'[f] = pods[f]
         /\ effect'[a]
         /\ \A b \in Actions \ {a} : effect'[b] = effect[b]
<1> DEFINE e == plans[a].item
<1>1. e \in Items
  BY DEF ExecutionTypeOK, Plan
<1>2. pods' = [pods EXCEPT ![e] = [version |-> pods[e].version + 1, unhealthy |-> FALSE]]
  BY DEF PodDeleted
<1>3. pods \in [Items -> [version : Nat, unhealthy : BOOLEAN]] /\ pods[e].version \in Nat
  BY <1>1 DEF GovernedTypeOK
<1>4. pods[e].version + 1 \in Nat
  BY <1>3
<1>5. [version |-> pods[e].version + 1, unhealthy |-> FALSE] \in [version : Nat, unhealthy : BOOLEAN]
  BY <1>4
<1>6. pods[e].version = plans[a].target /\ effect' = [effect EXCEPT ![a] = TRUE]
  BY DEF PodDeleted
<1> HIDE DEF e
<1>7. /\ pods' \in [Items -> [version : Nat, unhealthy : BOOLEAN]]
      /\ pods'[e].version = pods[e].version + 1
      /\ \A f \in Items \ {e} : pods'[f] = pods[f]
  BY <1>1, <1>2, <1>3, <1>5
<1>8. effect' \in [Actions -> BOOLEAN] /\ effect'[a] /\ \A b \in Actions \ {a} : effect'[b] = effect[b]
  BY <1>6 DEF GovernedTypeOK
<1> QED
  BY <1>1, <1>6, <1>7, <1>8 DEF e

\* A step of Poll keeps the executor's and the cluster's types.
LEMMA PollTyped ==
  ASSUME ExecutionInv, ExecutionInv', GovernedTypeOK, PollNext
  PROVE  GovernedTypeOK'
<1>1. /\ now \in Nat /\ PollTimeout \in Nat /\ Executor \in AgentIds
      /\ agents' \in [AgentIds -> AgentRow] /\ receipts' \in Nat /\ tokens' \in Nat
      /\ bootstraps \subseteq BootstrapRow
  BY GovernedExecutionAssumption DEF ExecutionInv, FleetInv, FleetTypeOK, ExecutionTypeOK
<1>2. now + PollTimeout \in Nat
  BY <1>1
<1>3. CASE Start \/ PollBegin \/ FlushRejected \/ ReceiptRefused \/ Authorized \/ AuthorizeRefused
  BY <1>2, <1>3, MovesTyped
  DEF Start, PollBegin, FlushRejected, ReceiptRefused, Authorized, AuthorizeRefused, Goto, Steps, GovernedTypeOK
<1>4. CASE ListReply \/ ListRefused \/ PollEnd \/ ClaimRefused \/ CheckPasses \/ RecheckPasses
           \/ RecheckFails \/ DeleteExpired \/ TimedOut
  BY <1>4, MovesTyped
  DEF ListReply, ListRefused, PollEnd, ClaimRefused, CheckPasses, RecheckPasses, RecheckFails,
      DeleteExpired, TimedOut, Goto, Steps, GovernedTypeOK, Outcomes
<1>5. CASE (\E a \in Actions : FlushSend(a) \/ Skip(a) \/ ClaimSend(a) \/ JournalFull(a))
           \/ (\E o \in Outcomes : CheckFails(o))
  BY <1>5, MovesTyped DEF FlushSend, Skip, ClaimSend, JournalFull, CheckFails, Goto, Steps, GovernedTypeOK
<1>6. ASSUME NEW b \in bootstraps, EnrollReply(b) PROVE GovernedTypeOK'
  <2>1. b.token \in Nat
    BY <1>1 DEF BootstrapRow
  <2>2. credential' \in Credential
    BY <1>1, <1>6, <2>1, CredentialTyped DEF EnrollReply
  <2> QED
    BY <1>6, <2>2, MovesTyped DEF EnrollReply, Goto, Steps, GovernedTypeOK
<1>7. CASE RenewReply
  <2>1. credential' \in Credential
    BY <1>1, <1>7, CredentialTyped DEF RenewReply
  <2> QED
    BY <1>7, <2>1, MovesTyped DEF RenewReply, Goto, Steps, GovernedTypeOK
<1>8. ASSUME NEW gone \in SUBSET Actions, FlushDone(gone) PROVE GovernedTypeOK'
  <2>1. journal' \in [Actions -> Attempt]
    <3>1. NoAttempt \in Attempt
      BY DEF NoAttempt, Attempt, Outcomes
    <3> QED
      BY <1>8, <3>1 DEF FlushDone, GovernedTypeOK
  <2> QED
    BY <1>8, <2>1 DEF FlushDone, Goto, Steps, GovernedTypeOK, lateVars, clusterVars
<1>9. CASE ReceiptRecorded \/ ReceiptAcknowledged
  <2>1. journal' \in [Actions -> Attempt] /\ pc' \in Steps
    BY <1>9 DEF ReceiptRecorded, ReceiptAcknowledged, Acknowledge, GovernedTypeOK, Attempt, Steps
  <2> QED
    BY <1>9, <2>1
    DEF ReceiptRecorded, ReceiptAcknowledged, Acknowledge, GovernedTypeOK, lateVars, clusterVars
<1>10. CASE ClaimReply
  BY <1>1, <1>10 DEF ClaimReply, Goto, Steps, GovernedTypeOK, lateVars, clusterVars
<1>11. CASE JournalClaim
  <2>1. journal' \in [Actions -> Attempt]
    BY <1>11 DEF JournalClaim, GovernedTypeOK, Attempt, Outcomes
  <2> QED
    BY <1>11, <2>1 DEF JournalClaim, Goto, Steps, GovernedTypeOK, lateVars, clusterVars
<1>12. CASE Record
  <2>1. journal' \in [Actions -> Attempt]
    BY <1>12 DEF Record, GovernedTypeOK, Attempt
  <2> QED
    BY <1>12, <2>1 DEF Record, Goto, Steps, GovernedTypeOK, lateVars, clusterVars
<1>13. CASE DeleteApplied \/ \E o \in Outcomes : DeleteRefused(o)
  <2>1. issued' \in [Actions -> Nat] /\ outcome' \in Outcomes
    BY <1>13 DEF DeleteApplied, DeleteRefused, Issue, GovernedTypeOK, Outcomes
  <2>2. pods' \in [Items -> [version : Nat, unhealthy : BOOLEAN]] /\ effect' \in [Actions -> BOOLEAN]
    BY <1>13, PodDeletedFacts DEF DeleteApplied, DeleteRefused, GovernedTypeOK, ExecutionInv
  <2> QED
    BY <1>13, <2>1, <2>2 DEF DeleteApplied, DeleteRefused, Goto, Steps, GovernedTypeOK, lateVars
<1> QED
  BY <1>3, <1>4, <1>5, <1>6, <1>7, <1>8, <1>9, <1>10, <1>11, <1>12, <1>13 DEF PollNext

\* A crash or a lost reply keeps the types, the late call it leaves included.
LEMMA FailureTyped ==
  ASSUME GovernedTypeOK, FailureNext
  PROVE  GovernedTypeOK'
<1>1. cur \in Actions /\ journal[cur].token \in Nat /\ journal[cur].outcome \in Outcomes
  BY DEF GovernedTypeOK, Attempt
<1>2. CASE Stop \/ StopInEnroll \/ StopInRenewal
  <2>1. lateEnrolls' \subseteq Nat /\ lateRenewals' \subseteq Credential
    BY <1>2 DEF Stop, StopInEnroll, StopInRenewal, GovernedTypeOK, lateVars
  <2>2. Stopped /\ UNCHANGED <<lateClaims, lateReceipts, lateDeletes>>
    BY <1>2 DEF Stop, StopInEnroll, StopInRenewal, lateVars
  <2> QED
    BY <2>1, <2>2 DEF Stopped, GovernedTypeOK, Steps, clusterVars
<1>5. CASE StopInClaim
  <2>1. lateClaims' \subseteq [action : Actions, credential : Credential]
    BY <1>5 DEF StopInClaim, GovernedTypeOK
  <2> QED
    BY <1>5, <2>1 DEF StopInClaim, Stopped, GovernedTypeOK, Steps, clusterVars
<1>3. CASE StopInReceipt
  <2>1. lateReceipts' \subseteq [action : Actions, credential : Credential, token : Nat, outcome : Outcomes]
    BY <1>1, <1>3 DEF StopInReceipt, GovernedTypeOK
  <2> QED
    BY <1>3, <2>1 DEF StopInReceipt, Stopped, GovernedTypeOK, Steps, clusterVars
<1>4. CASE DeleteUnknown
  <2>1. issued' \in [Actions -> Nat]
    BY <1>4 DEF DeleteUnknown, Issue, GovernedTypeOK
  <2> QED
    BY <1>4, <2>1 DEF DeleteUnknown, Goto, GovernedTypeOK, Steps, Outcomes
<1> QED
  BY <1>2, <1>3, <1>4, <1>5 DEF FailureNext

\* The people, the Pods and the arrival of late calls keep the types.
LEMMA EnvironmentTyped ==
  ASSUME ExecutionInv, ExecutionInv', GovernedTypeOK, EnvironmentNext
  PROVE  GovernedTypeOK'
<1>1. CASE UNCHANGED <<executorVars, clusterVars>> /\
           (UNCHANGED lateVars \/ (\E m \in lateClaims : LateClaim(m)) \/ (\E m \in lateReceipts : LateReceipt(m))
            \/ (\E b \in bootstraps : LateEnroll(b)) \/ (\E c \in lateRenewals : LateRenewal(c)))
  BY <1>1 DEF executorVars, clusterVars, lateVars, GovernedTypeOK, LateClaim, LateReceipt, LateEnroll, LateRenewal
<1>2. ASSUME NEW e \in Items, NEW u \in BOOLEAN, PodChanges(e, u) PROVE GovernedTypeOK'
  <2>1. pods' \in [Items -> [version : Nat, unhealthy : BOOLEAN]]
    BY <1>2 DEF PodChanges, GovernedTypeOK
  <2>2. sick' \in [Items -> SUBSET Nat]
    <3>1. pods[e].version + 1 \in Nat
      BY DEF GovernedTypeOK
    <3> QED
      BY <1>2, <3>1 DEF PodChanges, GovernedTypeOK
  <2> QED
    BY <1>2, <2>1, <2>2 DEF PodChanges, executorVars, lateVars, GovernedTypeOK
<1>3. ASSUME NEW a \in lateDeletes, LateDelete(a) PROVE GovernedTypeOK'
  <2>1. pods' \in [Items -> [version : Nat, unhealthy : BOOLEAN]] /\ effect' \in [Actions -> BOOLEAN]
    BY <1>3, PodDeletedFacts DEF LateDelete, GovernedTypeOK, ExecutionInv
  <2> QED
    BY <1>3, <2>1 DEF LateDelete, executorVars, GovernedTypeOK
<1>4. ASSUME NEW uid \in ClusterUIDs, Reenroll(uid) PROVE GovernedTypeOK'
  <2>1. tokens' \in Nat
    BY DEF ExecutionInv, FleetInv, FleetTypeOK
  <2>2. NoCredential \in Credential
    <3>1. Executor \in AgentIds /\ (CHOOSE u \in ClusterUIDs : TRUE) \in ClusterUIDs
      BY GovernedExecutionAssumption
    <3> QED
      BY <3>1 DEF NoCredential, Credential, Roles
  <2> QED
    BY <1>4, <2>1, <2>2 DEF Reenroll, lateVars, clusterVars, GovernedTypeOK
<1> QED
  BY <1>1, <1>2, <1>3, <1>4
  DEF EnvironmentNext, WorldNext, Report, LateClaim, LateReceipt, LateEnroll, LateRenewal

-----------------------------------------------------------------------------
(* Every step keeps the safety invariant. *)

\* The steps of Poll outside the life of an attempt.
QuietStep ==
  \/ Start \/ PollBegin \/ FlushRejected \/ ReceiptRefused \/ RenewReply \/ Authorized \/ AuthorizeRefused
  \/ \E b \in bootstraps : EnrollReply(b)
  \/ ListReply \/ ListRefused \/ PollEnd \/ ClaimRefused \/ TimedOut
  \/ \E a \in Actions : Skip(a) \/ ClaimSend(a) \/ JournalFull(a)
  \/ Stop \/ StopInClaim \/ StopInEnroll \/ StopInRenewal

\* A step that moves no attempt, sends no delete and makes no governed call
\* preserves the safety part of the invariant.
LEMMA QuietSafe ==
  ASSUME GovernedInv, QuietStep
  PROVE  SafetyInv'
<1>1. deadline <= now + PollTimeout /\ SafetyInv /\ GovernedTypeOK
  BY DEF GovernedInv, SafetyInv, Punctual
<1>2. now \in Nat /\ PollTimeout \in Nat
  BY GovernedExecutionAssumption DEF GovernedInv, ExecutionInv, FleetInv, FleetTypeOK
<1>3. CASE Start \/ PollBegin \/ FlushRejected \/ ReceiptRefused
  <2>1. /\ UNCHANGED tableVars /\ now' = now /\ pc' \in Outside
        /\ deadline' = deadline \/ deadline' = now + PollTimeout
    BY <1>3 DEF Start, PollBegin, FlushRejected, ReceiptRefused, Goto, Outside, tableVars,
                fleetVars, executionVars, lateVars, clusterVars
  <2>2. deadline' <= now + PollTimeout
    BY <1>1, <1>2, <2>1
  <2> QED
    BY <1>1, <2>1, <2>2, QuietPoll
<1>4. CASE RenewReply \/ Authorized \/ AuthorizeRefused \/ \E b \in bootstraps : EnrollReply(b)
  <2>1. UNCHANGED tableVars /\ now' = now /\ pc' \in Outside /\ deadline' = deadline
    BY <1>4 DEF RenewReply, Authorized, AuthorizeRefused, EnrollReply, Renew, Enroll, Goto, Outside, tableVars,
                fleetVars, executionVars, lateVars, clusterVars
  <2> QED
    BY <1>1, <2>1, QuietPoll
<1>5. CASE ListReply \/ ListRefused \/ PollEnd \/ ClaimRefused \/ TimedOut
           \/ \E a \in Actions : Skip(a) \/ ClaimSend(a) \/ JournalFull(a)
  <2>1. UNCHANGED tableVars /\ now' = now /\ pc' \in Outside /\ deadline' = deadline
    BY <1>5 DEF ListReply, ListRefused, PollEnd, ClaimRefused, TimedOut, Skip, ClaimSend, JournalFull, Goto,
                Outside, tableVars, fleetVars, executionVars, lateVars, clusterVars
  <2> QED
    BY <1>1, <2>1, QuietPoll
<1>6. CASE Stop \/ StopInClaim \/ StopInEnroll \/ StopInRenewal
  <2>1. UNCHANGED tableVars /\ now' = now /\ pc' \in Outside /\ deadline' = deadline
    BY <1>6 DEF Stop, StopInClaim, StopInEnroll, StopInRenewal, Stopped, Outside, tableVars,
                fleetVars, executionVars, lateVars, clusterVars
  <2> QED
    BY <1>1, <2>1, QuietPoll
<1> QED
  BY <1>3, <1>4, <1>5, <1>6 DEF QuietStep

\* The clock, administrators and other agents.
LEMMA WorldSafe ==
  ASSUME GovernedInv, ExecutionInv',
         \/ FleetStep /\ UNCHANGED <<executionVars, executorVars, lateVars, clusterVars>>
         \/ \E uid \in ClusterUIDs : Reenroll(uid)
         \/ \E b \in bootstraps : LateEnroll(b)
         \/ \E c \in lateRenewals : LateRenewal(c)
         \/ UNCHANGED vars
  PROVE  SafetyInv'
<1>1. SafetyInv /\ GovernedTypeOK /\ ExecutionTypeOK /\ now \in Nat /\ now' \in Nat
  BY DEF GovernedInv, ExecutionInv, FleetInv, FleetTypeOK
<1>2. UNCHANGED tableVars /\ UNCHANGED <<pc, cur, ticket, outcome, deadline>>
  BY DEF Reenroll, LateEnroll, LateRenewal, tableVars, executorVars, executionVars, lateVars, clusterVars, vars
<1>3. now <= now'
  <2>1. now' = now \/ now' = now + 1
    BY DEF FleetStep, Reenroll, LateEnroll, LateRenewal, Bootstrap, Enroll, Renew, Revoke, RotateEpoch, Tick,
           vars, fleetVars
  <2> QED
    BY <1>1, <2>1
<1> QED
  BY <1>1, <1>2, <1>3, QuietWorld

\* Poll picks an open attempt to report.
LEMMA FlushSendSafe ==
  ASSUME GovernedInv, NEW a \in Actions, FlushSend(a)
  PROVE  SafetyInv'
<1>1. /\ SafetyInv /\ GovernedTypeOK /\ ExecutionTypeOK
      /\ cur \in Actions /\ journal \in [Actions -> Attempt]
  BY DEF GovernedInv, ExecutionInv, GovernedTypeOK
<1>2. /\ policy' = policy /\ evidence' = evidence /\ plans' = plans /\ actions' = actions /\ journal' = journal
      /\ lateReceipts' = lateReceipts /\ lateDeletes' = lateDeletes /\ pods' = pods /\ sick' = sick
      /\ issued' = issued /\ effect' = effect /\ now' = now /\ deadline' = deadline
      /\ pc' = "receipt" /\ cur' = a /\ journal[a].token # 0
  BY DEF FlushSend, Goto, Unacknowledged, Journaled, fleetVars, executionVars, lateVars, clusterVars
<1>3. UntouchedUntilClaimed'
  BY <1>1, <1>2 DEF SafetyInv, UntouchedUntilClaimed, Unclaimed, Holding
<1>4. SentOnce'
  BY <1>1, <1>2 DEF SafetyInv, SentOnce, Holding
<1>5. ReportsAreTrue'
  BY <1>1, <1>2 DEF SafetyInv, ReportsAreTrue, Reported, Holding
<1>6. AttemptInHand'
  BY <1>1, <1>2 DEF SafetyInv, AttemptInHand
<1>7. AcknowledgedIsClosed'
  BY <1>1, <1>2 DEF SafetyInv, AcknowledgedIsClosed
<1>8. UncertaintyIsJournaled'
  BY <1>1, <1>2 DEF SafetyInv, UncertaintyIsJournaled, Unacknowledged, Journaled
<1>9. Punctual'
  BY <1>1, <1>2 DEF SafetyInv, Punctual, Holding
<1>10. Replaced'
  BY <1>1, <1>2 DEF SafetyInv, Replaced
<1>11. PinnedSick'
  BY <1>1, <1>2 DEF SafetyInv, PinnedSick
<1> QED
  BY <1>3, <1>4, <1>5, <1>6, <1>7, <1>8, <1>9, <1>10, <1>11 DEF SafetyInv

\* The checks before the delete pass.
LEMMA ChecksSafe ==
  ASSUME GovernedInv, CheckPasses \/ RecheckPasses
  PROVE  SafetyInv'
<1>1. /\ SafetyInv /\ GovernedTypeOK /\ ExecutionTypeOK
      /\ cur \in Actions /\ journal \in [Actions -> Attempt]
  BY DEF GovernedInv, ExecutionInv, GovernedTypeOK
<1>2. /\ plans' = plans /\ actions' = actions /\ journal' = journal /\ evidence' = evidence
      /\ lateReceipts' = lateReceipts /\ lateDeletes' = lateDeletes /\ pods' = pods /\ sick' = sick
      /\ issued' = issued /\ effect' = effect /\ now' = now /\ deadline' = deadline /\ cur' = cur
      /\ pc \in {"check", "recheck"} /\ pc' \in {"recheck", "delete"}
  BY DEF CheckPasses, RecheckPasses, Goto, fleetVars, executionVars, lateVars, clusterVars
<1>3. UntouchedUntilClaimed'
  BY <1>1, <1>2 DEF SafetyInv, UntouchedUntilClaimed, Unclaimed, Holding
<1>4. SentOnce'
  BY <1>1, <1>2 DEF SafetyInv, SentOnce, Holding
<1>5. ReportsAreTrue'
  BY <1>1, <1>2 DEF SafetyInv, ReportsAreTrue, Reported, Holding
<1>6. AttemptInHand'
  BY <1>1, <1>2 DEF SafetyInv, AttemptInHand
<1>7. AcknowledgedIsClosed'
  BY <1>1, <1>2 DEF SafetyInv, AcknowledgedIsClosed
<1>8. UncertaintyIsJournaled'
  BY <1>1, <1>2 DEF SafetyInv, UncertaintyIsJournaled, Unacknowledged, Journaled
<1>9. Punctual'
  BY <1>1, <1>2 DEF SafetyInv, Punctual, Holding
<1>10. Replaced'
  BY <1>1, <1>2 DEF SafetyInv, Replaced
<1>11. PinnedSick'
  BY <1>1, <1>2 DEF SafetyInv, PinnedSick
<1> QED
  BY <1>3, <1>4, <1>5, <1>6, <1>7, <1>8, <1>9, <1>10, <1>11 DEF SafetyInv

\* Poll gives up before it sends the delete.
LEMMA GiveUpSafe ==
  ASSUME GovernedInv, RecheckFails \/ DeleteExpired \/ \E o \in Outcomes : CheckFails(o)
  PROVE  SafetyInv'
<1>1. /\ SafetyInv /\ GovernedTypeOK /\ ExecutionTypeOK
      /\ cur \in Actions /\ journal \in [Actions -> Attempt]
  BY DEF GovernedInv, ExecutionInv, GovernedTypeOK
<1>2. /\ plans' = plans /\ actions' = actions /\ journal' = journal /\ evidence' = evidence
      /\ lateReceipts' = lateReceipts /\ lateDeletes' = lateDeletes /\ pods' = pods /\ sick' = sick
      /\ issued' = issued /\ effect' = effect /\ now' = now /\ deadline' = deadline /\ cur' = cur
      /\ pc \in {"check", "recheck", "delete"} /\ pc' = "record"
      /\ outcome' \in {"PRECONDITION_FAILED", "DENIED", "AMBIGUOUS"}
  BY DEF RecheckFails, DeleteExpired, CheckFails, Goto, fleetVars, executionVars, lateVars, clusterVars
<1>3. UntouchedUntilClaimed'
  BY <1>1, <1>2 DEF SafetyInv, UntouchedUntilClaimed, Unclaimed, Holding
<1>4. SentOnce'
  BY <1>1, <1>2 DEF SafetyInv, SentOnce, Holding
<1>5. ReportsAreTrue'
  BY <1>1, <1>2 DEF SafetyInv, ReportsAreTrue, SentOnce, Reported, Holding
<1>6. AttemptInHand'
  BY <1>1, <1>2 DEF SafetyInv, AttemptInHand
<1>7. AcknowledgedIsClosed'
  BY <1>1, <1>2 DEF SafetyInv, AcknowledgedIsClosed
<1>8. UncertaintyIsJournaled'
  BY <1>1, <1>2 DEF SafetyInv, UncertaintyIsJournaled, Unacknowledged, Journaled
<1>9. Punctual'
  BY <1>1, <1>2 DEF SafetyInv, Punctual, Holding
<1>10. Replaced'
  BY <1>1, <1>2 DEF SafetyInv, Replaced
<1>11. PinnedSick'
  BY <1>1, <1>2 DEF SafetyInv, PinnedSick
<1> QED
  BY <1>3, <1>4, <1>5, <1>6, <1>7, <1>8, <1>9, <1>10, <1>11 DEF SafetyInv

\* Poll writes the outcome to its journal.
LEMMA RecordSafe ==
  ASSUME GovernedInv, Record
  PROVE  SafetyInv'
<1>1. /\ SafetyInv /\ GovernedTypeOK /\ ExecutionTypeOK
      /\ cur \in Actions /\ journal \in [Actions -> Attempt]
  BY DEF GovernedInv, ExecutionInv, GovernedTypeOK
<1>2. /\ plans' = plans /\ actions' = actions /\ evidence' = evidence
      /\ lateReceipts' = lateReceipts /\ lateDeletes' = lateDeletes /\ pods' = pods /\ sick' = sick
      /\ issued' = issued /\ effect' = effect /\ now' = now /\ deadline' = deadline /\ cur' = cur
      /\ pc = "record" /\ pc' = "receipt"
  BY DEF Record, Goto, fleetVars, executionVars, lateVars, clusterVars
<1>3. /\ journal'[cur].token = journal[cur].token /\ journal'[cur].outcome = outcome
      /\ journal'[cur].acknowledged = journal[cur].acknowledged
      /\ \A a \in Actions \ {cur} : journal'[a] = journal[a]
  BY <1>1 DEF Record, Attempt
<1>4. UntouchedUntilClaimed'
  BY <1>1, <1>2, <1>3 DEF SafetyInv, UntouchedUntilClaimed, Unclaimed, Holding
<1>5. SentOnce'
  BY <1>1, <1>2, <1>3 DEF SafetyInv, SentOnce, Holding
<1>6. ReportsAreTrue'
  BY <1>1, <1>2, <1>3 DEF SafetyInv, ReportsAreTrue, Reported, Holding
<1>7. AttemptInHand'
  BY <1>1, <1>2, <1>3 DEF SafetyInv, AttemptInHand
<1>8. AcknowledgedIsClosed'
  BY <1>1, <1>2, <1>3 DEF SafetyInv, AcknowledgedIsClosed
<1>9. UncertaintyIsJournaled'
  BY <1>1, <1>2, <1>3 DEF SafetyInv, UncertaintyIsJournaled, Unacknowledged, Journaled
<1>10. Punctual'
  BY <1>1, <1>2, <1>3 DEF SafetyInv, Punctual, Holding
<1>11. Replaced'
  BY <1>1, <1>2, <1>3 DEF SafetyInv, Replaced
<1>12. PinnedSick'
  BY <1>1, <1>2, <1>3 DEF SafetyInv, PinnedSick
<1> QED
  BY <1>4, <1>5, <1>6, <1>7, <1>8, <1>9, <1>10, <1>11, <1>12 DEF SafetyInv

\* Poll writes the claim to its journal.
LEMMA JournalClaimSafe ==
  ASSUME GovernedInv, JournalClaim
  PROVE  SafetyInv'
<1>1. /\ SafetyInv /\ GovernedTypeOK /\ ExecutionTypeOK
      /\ cur \in Actions /\ journal \in [Actions -> Attempt]
  BY DEF GovernedInv, ExecutionInv, GovernedTypeOK
<1>2. /\ plans' = plans /\ actions' = actions /\ evidence' = evidence
      /\ lateReceipts' = lateReceipts /\ lateDeletes' = lateDeletes /\ pods' = pods /\ sick' = sick
      /\ issued' = issued /\ effect' = effect /\ now' = now /\ deadline' = deadline /\ cur' = cur
      /\ pc = "journal" /\ pc' = "check"
  BY DEF JournalClaim, Goto, fleetVars, executionVars, lateVars, clusterVars
<1>3. /\ journal'[cur].token = ticket /\ journal'[cur].outcome = "AMBIGUOUS"
      /\ ~journal'[cur].acknowledged
      /\ \A a \in Actions \ {cur} : journal'[a] = journal[a]
  BY <1>1 DEF JournalClaim, Attempt
<1>4. UntouchedUntilClaimed'
  BY <1>1, <1>2, <1>3 DEF SafetyInv, UntouchedUntilClaimed, AttemptInHand, Unclaimed, Holding
<1>5. SentOnce'
  BY <1>1, <1>2, <1>3 DEF SafetyInv, SentOnce, Holding
<1>6. ReportsAreTrue'
  BY <1>1, <1>2, <1>3 DEF SafetyInv, ReportsAreTrue, Reported, Holding
<1>7. AttemptInHand'
  BY <1>1, <1>2, <1>3 DEF SafetyInv, AttemptInHand
<1>8. AcknowledgedIsClosed'
  BY <1>1, <1>2, <1>3 DEF SafetyInv, AcknowledgedIsClosed
<1>9. UncertaintyIsJournaled'
  BY <1>1, <1>2, <1>3 DEF SafetyInv, UncertaintyIsJournaled, SentOnce, Unacknowledged, Journaled, Holding
<1>10. Punctual'
  BY <1>1, <1>2, <1>3 DEF SafetyInv, Punctual, Holding
<1>11. Replaced'
  BY <1>1, <1>2, <1>3 DEF SafetyInv, Replaced
<1>12. PinnedSick'
  BY <1>1, <1>2, <1>3 DEF SafetyInv, PinnedSick
<1> QED
  BY <1>4, <1>5, <1>6, <1>7, <1>8, <1>9, <1>10, <1>11, <1>12 DEF SafetyInv

\* Poll compacts its journal.
LEMMA FlushDoneSafe ==
  ASSUME GovernedInv, NEW gone \in SUBSET Actions, FlushDone(gone)
  PROVE  SafetyInv'
<1>1. /\ SafetyInv /\ GovernedTypeOK /\ ExecutionTypeOK
      /\ cur \in Actions /\ journal \in [Actions -> Attempt]
  BY DEF GovernedInv, ExecutionInv, GovernedTypeOK
<1>2. /\ plans' = plans /\ actions' = actions /\ evidence' = evidence
      /\ lateReceipts' = lateReceipts /\ lateDeletes' = lateDeletes /\ pods' = pods /\ sick' = sick
      /\ issued' = issued /\ effect' = effect /\ now' = now /\ deadline' = deadline /\ cur' = cur
      /\ pc = "flush" /\ pc' = "authorize"
  BY DEF FlushDone, Goto, fleetVars, executionVars, lateVars, clusterVars
<1>3. /\ \A a \in gone : journal'[a].token = 0 /\ journal[a].acknowledged
      /\ \A a \in Actions \ gone : journal'[a] = journal[a]
  BY <1>1 DEF FlushDone, Pruned, Journaled, Unacknowledged, NoAttempt
<1>4. UntouchedUntilClaimed'
  BY <1>1, <1>2, <1>3 DEF SafetyInv, UntouchedUntilClaimed, Unclaimed, Holding
<1>5. SentOnce'
  BY <1>1, <1>2, <1>3 DEF SafetyInv, SentOnce, Holding
<1>6. ReportsAreTrue'
  BY <1>1, <1>2, <1>3 DEF SafetyInv, ReportsAreTrue, Reported, Holding
<1>7. AttemptInHand'
  BY <1>1, <1>2, <1>3 DEF SafetyInv, AttemptInHand
<1>8. AcknowledgedIsClosed'
  BY <1>1, <1>2, <1>3 DEF SafetyInv, AcknowledgedIsClosed
<1>9. UncertaintyIsJournaled'
  BY <1>1, <1>2, <1>3 DEF SafetyInv, UncertaintyIsJournaled, Unacknowledged, Journaled
<1>10. Punctual'
  BY <1>1, <1>2, <1>3 DEF SafetyInv, Punctual, Holding
<1>11. Replaced'
  BY <1>1, <1>2, <1>3 DEF SafetyInv, Replaced
<1>12. PinnedSick'
  BY <1>1, <1>2, <1>3 DEF SafetyInv, PinnedSick
<1> QED
  BY <1>4, <1>5, <1>6, <1>7, <1>8, <1>9, <1>10, <1>11, <1>12 DEF SafetyInv

\* The delete is sent and takes effect.
LEMMA DeleteAppliedSafe ==
  ASSUME GovernedInv, DeleteApplied
  PROVE  SafetyInv'
<1>1. /\ SafetyInv /\ GovernedTypeOK /\ ExecutionTypeOK /\ FleetTypeOK
      /\ cur \in Actions /\ journal \in [Actions -> Attempt] /\ actions \in [Actions -> ActionRow]
      /\ now \in Nat /\ receipts \in Nat
  BY DEF GovernedInv, ExecutionInv, GovernedTypeOK, ExecutionTypeOK, FleetInv, FleetTypeOK
<1>2. /\ \A a \in Actions : issued[a] \in Nat /\ plans[a].target \in Nat /\ actions[a].submittedAt \in Nat /\ plans[a].item \in Items
      /\ \A e \in Items : pods[e].version \in Nat /\ sick[e] \subseteq Nat
      /\ deadline \in Nat /\ PollTimeout \in Nat /\ ReconcileAfter \in Nat
  BY <1>1, ExecutionAssumption, GovernedExecutionAssumption DEF GovernedTypeOK, ExecutionTypeOK, Plan, ActionRow
<1>3. /\ plans' = plans /\ actions' = actions /\ journal' = journal /\ evidence' = evidence
      /\ lateReceipts' = lateReceipts /\ lateDeletes' = lateDeletes /\ sick' = sick /\ now' = now /\ deadline' = deadline /\ cur' = cur
      /\ pc = "delete" /\ pc' = "record" /\ outcome' = "APPLIED"
  BY DEF DeleteApplied, Goto, fleetVars, executionVars, lateVars, clusterVars
<1>4. /\ issued'[cur] = issued[cur] + 1 /\ \A a \in Actions \ {cur} : issued'[a] = issued[a]
  BY <1>1 DEF DeleteApplied, Issue, GovernedTypeOK
<1>5. LET e == plans[cur].item IN
      /\ e \in Items /\ pods[e].version = plans[cur].target /\ pods'[e].version = pods[e].version + 1
      /\ \A f \in Items \ {e} : pods'[f] = pods[f]
      /\ effect'[cur] /\ \A b \in Actions \ {cur} : effect'[b] = effect[b]
  BY <1>1, PodDeletedFacts DEF DeleteApplied
<1>6. UntouchedUntilClaimed'
  BY <1>1, <1>2, <1>3, <1>4, <1>5 DEF SafetyInv, UntouchedUntilClaimed, Unclaimed, Holding
<1>7. SentOnce'
  BY <1>1, <1>2, <1>3, <1>4, <1>5 DEF SafetyInv, SentOnce, Holding
<1>8. ReportsAreTrue'
  BY <1>1, <1>2, <1>3, <1>4, <1>5 DEF SafetyInv, ReportsAreTrue, SentOnce, Reported, Holding
<1>9. AttemptInHand'
  BY <1>1, <1>2, <1>3, <1>4, <1>5 DEF SafetyInv, AttemptInHand
<1>10. AcknowledgedIsClosed'
  BY <1>1, <1>2, <1>3, <1>4, <1>5 DEF SafetyInv, AcknowledgedIsClosed
<1>11. UncertaintyIsJournaled'
  BY <1>1, <1>2, <1>3, <1>4, <1>5 DEF SafetyInv, UncertaintyIsJournaled, AttemptInHand, Unacknowledged, Journaled
<1>12. Punctual'
  BY <1>1, <1>2, <1>3, <1>4, <1>5 DEF SafetyInv, Punctual, Holding
<1>13. Replaced'
  BY <1>1, <1>2, <1>3, <1>4, <1>5 DEF SafetyInv, Replaced
<1>14. PinnedSick'
  BY <1>1, <1>2, <1>3, <1>4, <1>5 DEF SafetyInv, PinnedSick
<1> QED
  BY <1>6, <1>7, <1>8, <1>9, <1>10, <1>11, <1>12, <1>13, <1>14 DEF SafetyInv

\* The delete is sent and refused.
LEMMA DeleteRefusedSafe ==
  ASSUME GovernedInv, NEW o \in Outcomes, DeleteRefused(o)
  PROVE  SafetyInv'
<1>1. /\ SafetyInv /\ GovernedTypeOK /\ ExecutionTypeOK /\ FleetTypeOK
      /\ cur \in Actions /\ journal \in [Actions -> Attempt] /\ actions \in [Actions -> ActionRow]
      /\ now \in Nat /\ receipts \in Nat
  BY DEF GovernedInv, ExecutionInv, GovernedTypeOK, ExecutionTypeOK, FleetInv, FleetTypeOK
<1>2. /\ \A a \in Actions : issued[a] \in Nat /\ plans[a].target \in Nat /\ actions[a].submittedAt \in Nat /\ plans[a].item \in Items
      /\ \A e \in Items : pods[e].version \in Nat /\ sick[e] \subseteq Nat
      /\ deadline \in Nat /\ PollTimeout \in Nat /\ ReconcileAfter \in Nat
  BY <1>1, ExecutionAssumption, GovernedExecutionAssumption DEF GovernedTypeOK, ExecutionTypeOK, Plan, ActionRow
<1>3. /\ plans' = plans /\ actions' = actions /\ journal' = journal /\ evidence' = evidence
      /\ lateReceipts' = lateReceipts /\ lateDeletes' = lateDeletes /\ pods' = pods /\ sick' = sick /\ effect' = effect /\ now' = now /\ deadline' = deadline /\ cur' = cur
      /\ pc = "delete" /\ pc' = "record" /\ outcome' \in {"PRECONDITION_FAILED", "DENIED"}
  BY DEF DeleteRefused, Goto, fleetVars, executionVars, lateVars, clusterVars
<1>4. /\ issued'[cur] = issued[cur] + 1 /\ \A a \in Actions \ {cur} : issued'[a] = issued[a]
  BY <1>1 DEF DeleteRefused, Issue, GovernedTypeOK
<1>5. UntouchedUntilClaimed'
  BY <1>1, <1>2, <1>3, <1>4 DEF SafetyInv, UntouchedUntilClaimed, Unclaimed, Holding
<1>6. SentOnce'
  BY <1>1, <1>2, <1>3, <1>4 DEF SafetyInv, SentOnce, Holding
<1>7. ReportsAreTrue'
  BY <1>1, <1>2, <1>3, <1>4 DEF SafetyInv, ReportsAreTrue, SentOnce, Reported, Holding
<1>8. AttemptInHand'
  BY <1>1, <1>2, <1>3, <1>4 DEF SafetyInv, AttemptInHand
<1>9. AcknowledgedIsClosed'
  BY <1>1, <1>2, <1>3, <1>4 DEF SafetyInv, AcknowledgedIsClosed
<1>10. UncertaintyIsJournaled'
  BY <1>1, <1>2, <1>3, <1>4 DEF SafetyInv, UncertaintyIsJournaled, AttemptInHand, Unacknowledged, Journaled
<1>11. Punctual'
  BY <1>1, <1>2, <1>3, <1>4 DEF SafetyInv, Punctual, Holding
<1>12. Replaced'
  BY <1>1, <1>2, <1>3, <1>4 DEF SafetyInv, Replaced
<1>13. PinnedSick'
  BY <1>1, <1>2, <1>3, <1>4 DEF SafetyInv, PinnedSick
<1> QED
  BY <1>5, <1>6, <1>7, <1>8, <1>9, <1>10, <1>11, <1>12, <1>13 DEF SafetyInv

\* The delete is sent and its answer is lost.
LEMMA DeleteUnknownSafe ==
  ASSUME GovernedInv, DeleteUnknown
  PROVE  SafetyInv'
<1>1. /\ SafetyInv /\ GovernedTypeOK /\ ExecutionTypeOK /\ FleetTypeOK
      /\ cur \in Actions /\ journal \in [Actions -> Attempt] /\ actions \in [Actions -> ActionRow]
      /\ now \in Nat /\ receipts \in Nat
  BY DEF GovernedInv, ExecutionInv, GovernedTypeOK, ExecutionTypeOK, FleetInv, FleetTypeOK
<1>2. /\ \A a \in Actions : issued[a] \in Nat /\ plans[a].target \in Nat /\ actions[a].submittedAt \in Nat /\ plans[a].item \in Items
      /\ \A e \in Items : pods[e].version \in Nat /\ sick[e] \subseteq Nat
      /\ deadline \in Nat /\ PollTimeout \in Nat /\ ReconcileAfter \in Nat
  BY <1>1, ExecutionAssumption, GovernedExecutionAssumption DEF GovernedTypeOK, ExecutionTypeOK, Plan, ActionRow
<1>3. /\ plans' = plans /\ actions' = actions /\ journal' = journal /\ evidence' = evidence
      /\ lateReceipts' = lateReceipts /\ pods' = pods /\ sick' = sick /\ effect' = effect /\ now' = now /\ deadline' = deadline /\ cur' = cur
      /\ pc = "delete" /\ pc' = "record" /\ outcome' = "AMBIGUOUS"
      /\ lateDeletes' = lateDeletes \cup {cur}
  BY DEF DeleteUnknown, Goto, fleetVars, executionVars, lateVars, clusterVars
<1>4. /\ issued'[cur] = issued[cur] + 1 /\ \A a \in Actions \ {cur} : issued'[a] = issued[a]
  BY <1>1 DEF DeleteUnknown, Issue, GovernedTypeOK
<1>5. UntouchedUntilClaimed'
  BY <1>1, <1>2, <1>3, <1>4 DEF SafetyInv, UntouchedUntilClaimed, Unclaimed, Holding
<1>6. SentOnce'
  BY <1>1, <1>2, <1>3, <1>4 DEF SafetyInv, SentOnce, Holding
<1>7. ReportsAreTrue'
  BY <1>1, <1>2, <1>3, <1>4 DEF SafetyInv, ReportsAreTrue, SentOnce, Reported, Holding
<1>8. AttemptInHand'
  BY <1>1, <1>2, <1>3, <1>4 DEF SafetyInv, AttemptInHand
<1>9. AcknowledgedIsClosed'
  BY <1>1, <1>2, <1>3, <1>4 DEF SafetyInv, AcknowledgedIsClosed
<1>10. UncertaintyIsJournaled'
  BY <1>1, <1>2, <1>3, <1>4 DEF SafetyInv, UncertaintyIsJournaled, AttemptInHand, Unacknowledged, Journaled
<1>11. Punctual'
  BY <1>1, <1>2, <1>3, <1>4 DEF SafetyInv, Punctual, Holding
<1>12. Replaced'
  BY <1>1, <1>2, <1>3, <1>4 DEF SafetyInv, Replaced
<1>13. PinnedSick'
  BY <1>1, <1>2, <1>3, <1>4 DEF SafetyInv, PinnedSick
<1> QED
  BY <1>5, <1>6, <1>7, <1>8, <1>9, <1>10, <1>11, <1>12, <1>13 DEF SafetyInv

\* The orchestrator records Poll's receipt.
LEMMA ReceiptRecordedSafe ==
  ASSUME GovernedInv, ReceiptRecorded
  PROVE  SafetyInv'
<1>1. /\ SafetyInv /\ GovernedTypeOK /\ ExecutionTypeOK /\ FleetTypeOK
      /\ cur \in Actions /\ journal \in [Actions -> Attempt] /\ actions \in [Actions -> ActionRow]
      /\ now \in Nat /\ receipts \in Nat
  BY DEF GovernedInv, ExecutionInv, GovernedTypeOK, ExecutionTypeOK, FleetInv, FleetTypeOK
<1>2. /\ \A a \in Actions : issued[a] \in Nat /\ plans[a].target \in Nat /\ actions[a].submittedAt \in Nat /\ plans[a].item \in Items
      /\ \A e \in Items : pods[e].version \in Nat /\ sick[e] \subseteq Nat
      /\ deadline \in Nat /\ PollTimeout \in Nat /\ ReconcileAfter \in Nat
  BY <1>1, ExecutionAssumption, GovernedExecutionAssumption DEF GovernedTypeOK, ExecutionTypeOK, Plan, ActionRow
<1>3. /\ plans' = plans /\ evidence' = evidence /\ lateReceipts' = lateReceipts /\ lateDeletes' = lateDeletes /\ pods' = pods /\ sick' = sick
      /\ issued' = issued /\ effect' = effect /\ now' = now /\ deadline' = deadline /\ cur' = cur
      /\ pc = "receipt" /\ pc' \in {"flush", "work"}
  BY <1>1 DEF ReceiptRecorded, Acknowledge, Receipt, GovernedTypeOK, fleetVars, executionVars, lateVars, clusterVars
<1>4. /\ journal'[cur].token = journal[cur].token /\ journal'[cur].outcome = journal[cur].outcome
      /\ journal'[cur].acknowledged /\ \A a \in Actions \ {cur} : journal'[a] = journal[a]
  BY <1>1 DEF ReceiptRecorded, Acknowledge, Attempt
<1>5. journal[cur].outcome \in Outcomes
  BY <1>1 DEF Attempt
<1>6. /\ actions[cur].state = "SUBMITTED" /\ actions'[cur].state = OutcomeState(journal[cur].outcome)
      /\ actions'[cur].receipt = actions[cur].receipt /\ actions'[cur].submittedAt = actions[cur].submittedAt
      /\ actions'[cur].reconciled = actions[cur].reconciled
      /\ \A a \in Actions \ {cur} : actions'[a] = actions[a]
  <2>1. Receipt(credential, cur, journal[cur].token, journal[cur].outcome)
    BY DEF ReceiptRecorded
  <2>2. /\ Writes(cur)
        /\ actions[cur].state = "SUBMITTED" /\ actions'[cur].state = OutcomeState(journal[cur].outcome)
        /\ actions'[cur].receipt = actions[cur].receipt /\ actions'[cur].submittedAt = actions[cur].submittedAt
        /\ actions'[cur].reconciled = actions[cur].reconciled
    BY <1>1, <1>5, <2>1, ReceiptWrites
  <2> QED
    BY <2>2 DEF Writes
<1>7. /\ actions'[cur].state \in {"APPLIED", "FAILED", "AMBIGUOUS"}
      /\ actions'[cur].state = "APPLIED" => journal[cur].outcome = "APPLIED"
      /\ actions'[cur].state = "FAILED" => journal[cur].outcome \in {"PRECONDITION_FAILED", "DENIED"}
  BY <1>5, <1>6 DEF OutcomeState, Outcomes
<1>8. UntouchedUntilClaimed'
  BY <1>1, <1>2, <1>3, <1>4, <1>5, <1>6, <1>7 DEF SafetyInv, UntouchedUntilClaimed, Unclaimed, Holding
<1>9. SentOnce'
  BY <1>1, <1>2, <1>3, <1>4, <1>5, <1>6, <1>7 DEF SafetyInv, SentOnce, Holding
<1>10. ReportsAreTrue'
  BY <1>1, <1>2, <1>3, <1>4, <1>5, <1>6, <1>7 DEF SafetyInv, ReportsAreTrue, AttemptInHand, Reported, Holding
<1>11. AttemptInHand'
  BY <1>1, <1>2, <1>3, <1>4, <1>5, <1>6, <1>7 DEF SafetyInv, AttemptInHand
<1>12. AcknowledgedIsClosed'
  BY <1>1, <1>2, <1>3, <1>4, <1>5, <1>6, <1>7 DEF SafetyInv, AcknowledgedIsClosed
<1>13. UncertaintyIsJournaled'
  BY <1>1, <1>2, <1>3, <1>4, <1>5, <1>6, <1>7 DEF SafetyInv, UncertaintyIsJournaled, Unacknowledged, Journaled
<1>14. Punctual'
  BY <1>1, <1>2, <1>3, <1>4, <1>5, <1>6, <1>7 DEF SafetyInv, Punctual, Holding
<1>15. Replaced'
  BY <1>1, <1>2, <1>3, <1>4, <1>5, <1>6, <1>7 DEF SafetyInv, Replaced
<1>16. PinnedSick'
  BY <1>1, <1>2, <1>3, <1>4, <1>5, <1>6, <1>7 DEF SafetyInv, PinnedSick
<1> QED
  BY <1>8, <1>9, <1>10, <1>11, <1>12, <1>13, <1>14, <1>15, <1>16 DEF SafetyInv

\* The orchestrator acknowledges a receipt it does not record.
LEMMA ReceiptAcknowledgedSafe ==
  ASSUME GovernedInv, ReceiptAcknowledged
  PROVE  SafetyInv'
<1>1. /\ SafetyInv /\ GovernedTypeOK /\ ExecutionTypeOK /\ FleetTypeOK
      /\ cur \in Actions /\ journal \in [Actions -> Attempt] /\ actions \in [Actions -> ActionRow]
      /\ now \in Nat /\ receipts \in Nat
  BY DEF GovernedInv, ExecutionInv, GovernedTypeOK, ExecutionTypeOK, FleetInv, FleetTypeOK
<1>2. /\ \A a \in Actions : issued[a] \in Nat /\ plans[a].target \in Nat /\ actions[a].submittedAt \in Nat /\ plans[a].item \in Items
      /\ \A e \in Items : pods[e].version \in Nat /\ sick[e] \subseteq Nat
      /\ deadline \in Nat /\ PollTimeout \in Nat /\ ReconcileAfter \in Nat
  BY <1>1, ExecutionAssumption, GovernedExecutionAssumption DEF GovernedTypeOK, ExecutionTypeOK, Plan, ActionRow
<1>3. /\ plans' = plans /\ evidence' = evidence /\ actions' = actions /\ lateReceipts' = lateReceipts /\ lateDeletes' = lateDeletes /\ pods' = pods /\ sick' = sick
      /\ issued' = issued /\ effect' = effect /\ now' = now /\ deadline' = deadline /\ cur' = cur
      /\ pc = "receipt" /\ pc' \in {"flush", "work"} /\ actions[cur].state # "SUBMITTED"
  BY <1>1 DEF ReceiptAcknowledged, Acknowledge, Acknowledges, GovernedTypeOK, fleetVars, executionVars, lateVars, clusterVars
<1>4. /\ journal'[cur].token = journal[cur].token /\ journal'[cur].outcome = journal[cur].outcome
      /\ journal'[cur].acknowledged /\ \A a \in Actions \ {cur} : journal'[a] = journal[a]
  BY <1>1 DEF ReceiptAcknowledged, Acknowledge, Attempt
<1>5. UntouchedUntilClaimed'
  BY <1>1, <1>2, <1>3, <1>4 DEF SafetyInv, UntouchedUntilClaimed, Unclaimed, Holding
<1>6. SentOnce'
  BY <1>1, <1>2, <1>3, <1>4 DEF SafetyInv, SentOnce, Holding
<1>7. ReportsAreTrue'
  BY <1>1, <1>2, <1>3, <1>4 DEF SafetyInv, ReportsAreTrue, Reported, Holding
<1>8. AttemptInHand'
  BY <1>1, <1>2, <1>3, <1>4 DEF SafetyInv, AttemptInHand
<1>9. AcknowledgedIsClosed'
  BY <1>1, <1>2, <1>3, <1>4 DEF SafetyInv, AcknowledgedIsClosed
<1>10. UncertaintyIsJournaled'
  BY <1>1, <1>2, <1>3, <1>4 DEF SafetyInv, UncertaintyIsJournaled, Unacknowledged, Journaled
<1>11. Punctual'
  BY <1>1, <1>2, <1>3, <1>4 DEF SafetyInv, Punctual, Holding
<1>12. Replaced'
  BY <1>1, <1>2, <1>3, <1>4 DEF SafetyInv, Replaced
<1>13. PinnedSick'
  BY <1>1, <1>2, <1>3, <1>4 DEF SafetyInv, PinnedSick
<1> QED
  BY <1>5, <1>6, <1>7, <1>8, <1>9, <1>10, <1>11, <1>12, <1>13 DEF SafetyInv

\* The process ends with a receipt under way.
LEMMA StopInReceiptSafe ==
  ASSUME GovernedInv, StopInReceipt
  PROVE  SafetyInv'
<1>1. /\ SafetyInv /\ GovernedTypeOK /\ ExecutionTypeOK /\ FleetTypeOK
      /\ cur \in Actions /\ journal \in [Actions -> Attempt] /\ actions \in [Actions -> ActionRow]
      /\ now \in Nat /\ receipts \in Nat
  BY DEF GovernedInv, ExecutionInv, GovernedTypeOK, ExecutionTypeOK, FleetInv, FleetTypeOK
<1>2. /\ plans' = plans /\ evidence' = evidence /\ actions' = actions /\ journal' = journal /\ lateDeletes' = lateDeletes /\ pods' = pods /\ sick' = sick
      /\ issued' = issued /\ effect' = effect /\ now' = now /\ deadline' = deadline /\ cur' = cur
      /\ pc = "receipt" /\ pc' = "down"
  BY DEF StopInReceipt, Stopped, fleetVars, executionVars, lateVars, clusterVars
<1>3. \A m \in lateReceipts' \ lateReceipts : m.action = cur /\ m.outcome = journal[cur].outcome
  BY DEF StopInReceipt
<1>4. UntouchedUntilClaimed'
  BY <1>1, <1>2, <1>3 DEF SafetyInv, UntouchedUntilClaimed, AttemptInHand, Unclaimed, Holding
<1>5. SentOnce'
  BY <1>1, <1>2, <1>3 DEF SafetyInv, SentOnce, Holding
<1>6. ReportsAreTrue'
  BY <1>1, <1>2, <1>3 DEF SafetyInv, ReportsAreTrue, AttemptInHand, Reported, Holding
<1>7. AttemptInHand'
  BY <1>1, <1>2, <1>3 DEF SafetyInv, AttemptInHand
<1>8. AcknowledgedIsClosed'
  BY <1>1, <1>2, <1>3 DEF SafetyInv, AcknowledgedIsClosed
<1>9. UncertaintyIsJournaled'
  BY <1>1, <1>2, <1>3 DEF SafetyInv, UncertaintyIsJournaled, Unacknowledged, Journaled
<1>10. Punctual'
  BY <1>1, <1>2, <1>3 DEF SafetyInv, Punctual, Holding
<1>11. Replaced'
  BY <1>1, <1>2, <1>3 DEF SafetyInv, Replaced
<1>12. PinnedSick'
  BY <1>1, <1>2, <1>3 DEF SafetyInv, PinnedSick
<1> QED
  BY <1>4, <1>5, <1>6, <1>7, <1>8, <1>9, <1>10, <1>11, <1>12 DEF SafetyInv

\* A receipt arrives after its sender is gone.
LEMMA LateReceiptSafe ==
  ASSUME GovernedInv, NEW m \in lateReceipts, LateReceipt(m)
  PROVE  SafetyInv'
<1>1. /\ SafetyInv /\ GovernedTypeOK /\ ExecutionTypeOK /\ FleetTypeOK
      /\ cur \in Actions /\ journal \in [Actions -> Attempt] /\ actions \in [Actions -> ActionRow]
      /\ now \in Nat /\ receipts \in Nat
  BY DEF GovernedInv, ExecutionInv, GovernedTypeOK, ExecutionTypeOK, FleetInv, FleetTypeOK
<1>2. /\ \A a \in Actions : issued[a] \in Nat /\ plans[a].target \in Nat /\ actions[a].submittedAt \in Nat /\ plans[a].item \in Items
      /\ \A e \in Items : pods[e].version \in Nat /\ sick[e] \subseteq Nat
      /\ deadline \in Nat /\ PollTimeout \in Nat /\ ReconcileAfter \in Nat
  BY <1>1, ExecutionAssumption, GovernedExecutionAssumption DEF GovernedTypeOK, ExecutionTypeOK, Plan, ActionRow
<1>3. /\ plans' = plans /\ evidence' = evidence /\ journal' = journal /\ lateDeletes' = lateDeletes /\ pods' = pods /\ sick' = sick
      /\ issued' = issued /\ effect' = effect /\ now' = now /\ deadline' = deadline /\ cur' = cur /\ pc' = pc /\ ticket' = ticket /\ outcome' = outcome
      /\ lateReceipts' \subseteq lateReceipts
  BY DEF LateReceipt, Receipt, executorVars, fleetVars, executionVars, lateVars, clusterVars
<1>4. m.action \in Actions /\ m.outcome \in Outcomes
  BY <1>1 DEF GovernedTypeOK
<1>5. /\ actions[m.action].state = "SUBMITTED" /\ actions'[m.action].state = OutcomeState(m.outcome)
      /\ actions'[m.action].receipt = actions[m.action].receipt
      /\ actions'[m.action].submittedAt = actions[m.action].submittedAt
      /\ actions'[m.action].reconciled = actions[m.action].reconciled
      /\ \A a \in Actions \ {m.action} : actions'[a] = actions[a]
  <2>1. Receipt(m.credential, m.action, m.token, m.outcome)
    BY DEF LateReceipt
  <2>2. /\ Writes(m.action)
        /\ actions[m.action].state = "SUBMITTED" /\ actions'[m.action].state = OutcomeState(m.outcome)
        /\ actions'[m.action].receipt = actions[m.action].receipt
        /\ actions'[m.action].submittedAt = actions[m.action].submittedAt
        /\ actions'[m.action].reconciled = actions[m.action].reconciled
    BY <1>1, <1>4, <2>1, ReceiptWrites
  <2> QED
    BY <2>2 DEF Writes
<1>6. /\ actions'[m.action].state \in {"APPLIED", "FAILED", "AMBIGUOUS"}
      /\ actions'[m.action].state = "APPLIED" => m.outcome = "APPLIED"
      /\ actions'[m.action].state = "FAILED" => m.outcome \in {"PRECONDITION_FAILED", "DENIED"}
  BY <1>4, <1>5 DEF OutcomeState, Outcomes
<1>7. UntouchedUntilClaimed'
  BY <1>1, <1>2, <1>3, <1>4, <1>5, <1>6 DEF SafetyInv, UntouchedUntilClaimed, Unclaimed, Holding
<1>8. SentOnce'
  BY <1>1, <1>2, <1>3, <1>4, <1>5, <1>6 DEF SafetyInv, SentOnce, Holding
<1>9. ReportsAreTrue'
  BY <1>1, <1>2, <1>3, <1>4, <1>5, <1>6 DEF SafetyInv, ReportsAreTrue, Reported, Holding
<1>10. AttemptInHand'
  BY <1>1, <1>2, <1>3, <1>4, <1>5, <1>6 DEF SafetyInv, AttemptInHand
<1>11. AcknowledgedIsClosed'
  BY <1>1, <1>2, <1>3, <1>4, <1>5, <1>6 DEF SafetyInv, AcknowledgedIsClosed
<1>12. UncertaintyIsJournaled'
  BY <1>1, <1>2, <1>3, <1>4, <1>5, <1>6 DEF SafetyInv, UncertaintyIsJournaled, Unacknowledged, Journaled
<1>13. Punctual'
  BY <1>1, <1>2, <1>3, <1>4, <1>5, <1>6 DEF SafetyInv, Punctual, Holding
<1>14. Replaced'
  BY <1>1, <1>2, <1>3, <1>4, <1>5, <1>6 DEF SafetyInv, Replaced
<1>15. PinnedSick'
  BY <1>1, <1>2, <1>3, <1>4, <1>5, <1>6 DEF SafetyInv, PinnedSick
<1> QED
  BY <1>7, <1>8, <1>9, <1>10, <1>11, <1>12, <1>13, <1>14, <1>15 DEF SafetyInv

\* Poll gets the claim it asked for.
LEMMA ClaimReplySafe ==
  ASSUME GovernedInv, ClaimReply
  PROVE  SafetyInv'
<1>1. /\ SafetyInv /\ GovernedTypeOK /\ ExecutionTypeOK /\ FleetTypeOK
      /\ cur \in Actions /\ journal \in [Actions -> Attempt] /\ actions \in [Actions -> ActionRow]
      /\ now \in Nat /\ receipts \in Nat
  BY DEF GovernedInv, ExecutionInv, GovernedTypeOK, ExecutionTypeOK, FleetInv, FleetTypeOK
<1>2. /\ \A a \in Actions : issued[a] \in Nat /\ plans[a].target \in Nat /\ actions[a].submittedAt \in Nat /\ plans[a].item \in Items
      /\ \A e \in Items : pods[e].version \in Nat /\ sick[e] \subseteq Nat
      /\ deadline \in Nat /\ PollTimeout \in Nat /\ ReconcileAfter \in Nat
  BY <1>1, ExecutionAssumption, GovernedExecutionAssumption DEF GovernedTypeOK, ExecutionTypeOK, Plan, ActionRow
<1>3. /\ plans' = plans /\ evidence' = evidence /\ journal' = journal /\ lateReceipts' = lateReceipts /\ lateDeletes' = lateDeletes /\ pods' = pods /\ sick' = sick
      /\ issued' = issued /\ effect' = effect /\ now' = now /\ deadline' = deadline /\ cur' = cur
      /\ pc = "claim" /\ pc' = "journal" /\ ticket' = receipts + 1
  BY <1>1 DEF ClaimReply, Claim, Goto, fleetVars, executionVars, lateVars, clusterVars
<1>4. /\ actions[cur].state = "APPROVED" /\ actions'[cur].state = "SUBMITTED"
      /\ actions'[cur].receipt = receipts + 1 /\ actions'[cur].submittedAt = now
      /\ actions'[cur].reconciled = actions[cur].reconciled
      /\ \A b \in Actions \ {cur} : actions'[b] = actions[b]
  <2>1. Claim(credential, cur)
    BY DEF ClaimReply
  <2>2. /\ Writes(cur)
        /\ actions[cur].state = "APPROVED" /\ actions'[cur].state = "SUBMITTED"
        /\ actions'[cur].receipt = receipts + 1 /\ actions'[cur].submittedAt = now
        /\ actions'[cur].reconciled = actions[cur].reconciled
    BY <1>1, <1>3, <2>1, ClaimWrites
  <2> QED
    BY <2>2 DEF Writes
<1>5. receipts + 1 # 0 /\ deadline <= now + PollTimeout
  BY <1>1 DEF SafetyInv, Punctual
<1>6. UntouchedUntilClaimed'
  BY <1>1, <1>2, <1>3, <1>4, <1>5 DEF SafetyInv, UntouchedUntilClaimed, Unclaimed, Holding
<1>7. SentOnce'
  BY <1>1, <1>2, <1>3, <1>4, <1>5 DEF SafetyInv, SentOnce, UntouchedUntilClaimed, Holding, Unclaimed
<1>8. ReportsAreTrue'
  BY <1>1, <1>2, <1>3, <1>4, <1>5 DEF SafetyInv, ReportsAreTrue, UntouchedUntilClaimed, Reported, Holding, Unclaimed
<1>9. AttemptInHand'
  BY <1>1, <1>2, <1>3, <1>4, <1>5 DEF SafetyInv, AttemptInHand
<1>10. AcknowledgedIsClosed'
  BY <1>1, <1>2, <1>3, <1>4, <1>5 DEF SafetyInv, AcknowledgedIsClosed, UntouchedUntilClaimed, Unclaimed, Holding
<1>11. UncertaintyIsJournaled'
  BY <1>1, <1>2, <1>3, <1>4, <1>5 DEF SafetyInv, UncertaintyIsJournaled, UntouchedUntilClaimed, Unacknowledged, Journaled, Unclaimed, Holding
<1>12. Punctual'
  BY <1>1, <1>2, <1>3, <1>4, <1>5 DEF SafetyInv, Punctual, Holding
<1>13. Replaced'
  BY <1>1, <1>2, <1>3, <1>4, <1>5 DEF SafetyInv, Replaced
<1>14. PinnedSick'
  BY <1>1, <1>2, <1>3, <1>4, <1>5 DEF SafetyInv, PinnedSick
<1> QED
  BY <1>6, <1>7, <1>8, <1>9, <1>10, <1>11, <1>12, <1>13, <1>14 DEF SafetyInv

\* A claim arrives after its sender is gone.
LEMMA LateClaimSafe ==
  ASSUME GovernedInv, NEW m \in lateClaims, LateClaim(m)
  PROVE  SafetyInv'
<1>1. /\ SafetyInv /\ GovernedTypeOK /\ ExecutionTypeOK /\ FleetTypeOK
      /\ cur \in Actions /\ journal \in [Actions -> Attempt] /\ actions \in [Actions -> ActionRow]
      /\ now \in Nat /\ receipts \in Nat
  BY DEF GovernedInv, ExecutionInv, GovernedTypeOK, ExecutionTypeOK, FleetInv, FleetTypeOK
<1>2. /\ \A a \in Actions : issued[a] \in Nat /\ plans[a].target \in Nat /\ actions[a].submittedAt \in Nat /\ plans[a].item \in Items
      /\ \A e \in Items : pods[e].version \in Nat /\ sick[e] \subseteq Nat
      /\ deadline \in Nat /\ PollTimeout \in Nat /\ ReconcileAfter \in Nat
  BY <1>1, ExecutionAssumption, GovernedExecutionAssumption DEF GovernedTypeOK, ExecutionTypeOK, Plan, ActionRow
<1>3. /\ plans' = plans /\ evidence' = evidence /\ journal' = journal /\ lateReceipts' = lateReceipts /\ lateDeletes' = lateDeletes /\ pods' = pods /\ sick' = sick
      /\ issued' = issued /\ effect' = effect /\ now' = now /\ deadline' = deadline /\ cur' = cur /\ pc' = pc /\ ticket' = ticket /\ outcome' = outcome
      /\ m.action \in Actions
  BY <1>1 DEF LateClaim, Claim, executorVars, GovernedTypeOK, fleetVars, executionVars, lateVars, clusterVars
<1>4. /\ actions[m.action].state = "APPROVED" /\ actions'[m.action].state = "SUBMITTED"
      /\ actions'[m.action].receipt = receipts + 1 /\ actions'[m.action].submittedAt = now
      /\ actions'[m.action].reconciled = actions[m.action].reconciled
      /\ \A b \in Actions \ {m.action} : actions'[b] = actions[b]
  <2>1. Claim(m.credential, m.action)
    BY DEF LateClaim
  <2>2. /\ Writes(m.action)
        /\ actions[m.action].state = "APPROVED" /\ actions'[m.action].state = "SUBMITTED"
        /\ actions'[m.action].receipt = receipts + 1 /\ actions'[m.action].submittedAt = now
        /\ actions'[m.action].reconciled = actions[m.action].reconciled
    BY <1>1, <1>3, <2>1, ClaimWrites
  <2> QED
    BY <2>2 DEF Writes
<1>5. UntouchedUntilClaimed'
  BY <1>1, <1>2, <1>3, <1>4 DEF SafetyInv, UntouchedUntilClaimed, Unclaimed, Holding
<1>6. SentOnce'
  BY <1>1, <1>2, <1>3, <1>4 DEF SafetyInv, SentOnce, UntouchedUntilClaimed, Holding, Unclaimed
<1>7. ReportsAreTrue'
  BY <1>1, <1>2, <1>3, <1>4 DEF SafetyInv, ReportsAreTrue, UntouchedUntilClaimed, Reported, Holding, Unclaimed
<1>8. AttemptInHand'
  BY <1>1, <1>2, <1>3, <1>4 DEF SafetyInv, AttemptInHand, UntouchedUntilClaimed, Unclaimed, Holding
<1>9. AcknowledgedIsClosed'
  BY <1>1, <1>2, <1>3, <1>4 DEF SafetyInv, AcknowledgedIsClosed, UntouchedUntilClaimed, Unclaimed, Holding
<1>10. UncertaintyIsJournaled'
  BY <1>1, <1>2, <1>3, <1>4 DEF SafetyInv, UncertaintyIsJournaled, UntouchedUntilClaimed, Unacknowledged, Journaled, Unclaimed, Holding
<1>11. Punctual'
  BY <1>1, <1>2, <1>3, <1>4 DEF SafetyInv, Punctual, UntouchedUntilClaimed, Holding, Unclaimed
<1>12. Replaced'
  BY <1>1, <1>2, <1>3, <1>4 DEF SafetyInv, Replaced
<1>13. PinnedSick'
  BY <1>1, <1>2, <1>3, <1>4 DEF SafetyInv, PinnedSick
<1> QED
  BY <1>5, <1>6, <1>7, <1>8, <1>9, <1>10, <1>11, <1>12, <1>13 DEF SafetyInv

\* A delete without an answer takes effect.
LEMMA LateDeleteSafe ==
  ASSUME GovernedInv, NEW a \in lateDeletes, LateDelete(a)
  PROVE  SafetyInv'
<1>1. /\ SafetyInv /\ GovernedTypeOK /\ ExecutionTypeOK /\ FleetTypeOK
      /\ cur \in Actions /\ journal \in [Actions -> Attempt] /\ actions \in [Actions -> ActionRow]
      /\ now \in Nat /\ receipts \in Nat
  BY DEF GovernedInv, ExecutionInv, GovernedTypeOK, ExecutionTypeOK, FleetInv, FleetTypeOK
<1>2. /\ \A b \in Actions : issued[b] \in Nat /\ plans[b].target \in Nat /\ actions[b].submittedAt \in Nat /\ plans[b].item \in Items
      /\ \A e \in Items : pods[e].version \in Nat /\ sick[e] \subseteq Nat
      /\ deadline \in Nat /\ PollTimeout \in Nat /\ ReconcileAfter \in Nat
  BY <1>1, ExecutionAssumption, GovernedExecutionAssumption DEF GovernedTypeOK, ExecutionTypeOK, Plan, ActionRow
<1>3. /\ plans' = plans /\ actions' = actions /\ journal' = journal /\ evidence' = evidence
      /\ lateReceipts' = lateReceipts /\ sick' = sick /\ issued' = issued /\ now' = now /\ deadline' = deadline /\ cur' = cur /\ pc' = pc /\ ticket' = ticket /\ outcome' = outcome
      /\ lateDeletes' = lateDeletes \ {a} /\ a \in Actions
  BY <1>1 DEF LateDelete, executorVars, GovernedTypeOK, fleetVars, executionVars, lateVars, clusterVars
<1>4. LET e == plans[a].item IN
      /\ e \in Items /\ pods[e].version = plans[a].target /\ pods'[e].version = pods[e].version + 1
      /\ \A f \in Items \ {e} : pods'[f] = pods[f]
      /\ effect'[a] /\ \A b \in Actions \ {a} : effect'[b] = effect[b]
  BY <1>1, <1>3, PodDeletedFacts DEF LateDelete
<1>5. UntouchedUntilClaimed'
  BY <1>1, <1>2, <1>3, <1>4 DEF SafetyInv, UntouchedUntilClaimed, Unclaimed, Holding
<1>6. SentOnce'
  BY <1>1, <1>2, <1>3, <1>4 DEF SafetyInv, SentOnce, Holding
<1>7. ReportsAreTrue'
  BY <1>1, <1>2, <1>3, <1>4 DEF SafetyInv, ReportsAreTrue, SentOnce, Reported, Holding
<1>8. AttemptInHand'
  BY <1>1, <1>2, <1>3, <1>4 DEF SafetyInv, AttemptInHand
<1>9. AcknowledgedIsClosed'
  BY <1>1, <1>2, <1>3, <1>4 DEF SafetyInv, AcknowledgedIsClosed
<1>10. UncertaintyIsJournaled'
  BY <1>1, <1>2, <1>3, <1>4 DEF SafetyInv, UncertaintyIsJournaled, Unacknowledged, Journaled
<1>11. Punctual'
  BY <1>1, <1>2, <1>3, <1>4 DEF SafetyInv, Punctual, Holding
<1>12. Replaced'
  BY <1>1, <1>2, <1>3, <1>4 DEF SafetyInv, Replaced
<1>13. PinnedSick'
  BY <1>1, <1>2, <1>3, <1>4 DEF SafetyInv, PinnedSick
<1> QED
  BY <1>5, <1>6, <1>7, <1>8, <1>9, <1>10, <1>11, <1>12, <1>13 DEF SafetyInv

\* The Pod changes by itself.
LEMMA PodChangesSafe ==
  ASSUME GovernedInv, NEW e \in Items, NEW u \in BOOLEAN, PodChanges(e, u)
  PROVE  SafetyInv'
<1>1. /\ SafetyInv /\ GovernedTypeOK /\ ExecutionTypeOK /\ FleetTypeOK
      /\ cur \in Actions /\ journal \in [Actions -> Attempt] /\ actions \in [Actions -> ActionRow]
      /\ now \in Nat /\ receipts \in Nat
  BY DEF GovernedInv, ExecutionInv, GovernedTypeOK, ExecutionTypeOK, FleetInv, FleetTypeOK
<1>2. /\ \A a \in Actions : issued[a] \in Nat /\ plans[a].target \in Nat /\ actions[a].submittedAt \in Nat /\ plans[a].item \in Items
      /\ \A i \in Items : pods[i].version \in Nat /\ sick[i] \subseteq Nat
      /\ deadline \in Nat /\ PollTimeout \in Nat /\ ReconcileAfter \in Nat
  BY <1>1, ExecutionAssumption, GovernedExecutionAssumption DEF GovernedTypeOK, ExecutionTypeOK, Plan, ActionRow
<1>3. /\ plans' = plans /\ actions' = actions /\ journal' = journal /\ evidence' = evidence /\ effect' = effect
      /\ lateReceipts' = lateReceipts /\ lateDeletes' = lateDeletes /\ issued' = issued /\ now' = now /\ deadline' = deadline /\ cur' = cur /\ pc' = pc /\ ticket' = ticket /\ outcome' = outcome
  BY DEF PodChanges, executorVars, fleetVars, executionVars, lateVars, clusterVars
<1>4. /\ pods'[e].version = pods[e].version + 1 /\ pods'[e].unhealthy = u
      /\ \A f \in Items \ {e} : pods'[f] = pods[f] /\ sick'[f] = sick[f]
      /\ sick'[e] = IF u THEN sick[e] \cup {pods[e].version + 1} ELSE sick[e]
  BY <1>1 DEF PodChanges, GovernedTypeOK
<1>5. \A f \in Items : sick[f] \subseteq sick'[f] /\ pods[f].version <= pods'[f].version
  BY <1>2, <1>4
<1>6. UntouchedUntilClaimed'
  BY <1>1, <1>2, <1>3, <1>4, <1>5 DEF SafetyInv, UntouchedUntilClaimed, Unclaimed, Holding
<1>7. SentOnce'
  BY <1>1, <1>2, <1>3, <1>4, <1>5 DEF SafetyInv, SentOnce, Holding
<1>8. ReportsAreTrue'
  BY <1>1, <1>2, <1>3, <1>4, <1>5 DEF SafetyInv, ReportsAreTrue, Reported, Holding
<1>9. AttemptInHand'
  BY <1>1, <1>2, <1>3, <1>4, <1>5 DEF SafetyInv, AttemptInHand
<1>10. AcknowledgedIsClosed'
  BY <1>1, <1>2, <1>3, <1>4, <1>5 DEF SafetyInv, AcknowledgedIsClosed
<1>11. UncertaintyIsJournaled'
  BY <1>1, <1>2, <1>3, <1>4, <1>5 DEF SafetyInv, UncertaintyIsJournaled, Unacknowledged, Journaled
<1>12. Punctual'
  BY <1>1, <1>2, <1>3, <1>4, <1>5 DEF SafetyInv, Punctual, Holding
<1>13. Replaced'
  BY <1>1, <1>2, <1>3, <1>4, <1>5 DEF SafetyInv, Replaced
<1>14. PinnedSick'
  BY <1>1, <1>2, <1>3, <1>4, <1>5 DEF SafetyInv, PinnedSick
<1> QED
  BY <1>6, <1>7, <1>8, <1>9, <1>10, <1>11, <1>12, <1>13, <1>14 DEF SafetyInv

\* The collector reports a finding.
LEMMA ReportSafe ==
  ASSUME GovernedInv, NEW c \in credentials, NEW e \in Items, Report(c, e)
  PROVE  SafetyInv'
<1>1. /\ SafetyInv /\ GovernedTypeOK /\ ExecutionTypeOK /\ FleetTypeOK
      /\ cur \in Actions /\ journal \in [Actions -> Attempt] /\ actions \in [Actions -> ActionRow]
      /\ now \in Nat /\ receipts \in Nat
  BY DEF GovernedInv, ExecutionInv, GovernedTypeOK, ExecutionTypeOK, FleetInv, FleetTypeOK
<1>2. /\ journal' = journal /\ pods' = pods /\ sick' = sick /\ effect' = effect /\ lateReceipts' = lateReceipts /\ lateDeletes' = lateDeletes
      /\ issued' = issued /\ now' = now /\ deadline' = deadline /\ cur' = cur /\ pc' = pc /\ ticket' = ticket /\ outcome' = outcome
  BY DEF Report, executorVars, fleetVars, executionVars, lateVars, clusterVars
<1>3. /\ plans' = plans /\ actions' = actions /\ evidence'[e].target \in sick[e]
      /\ \A f \in Items \ {e} : evidence'[f] = evidence[f]
  <2>1. PICK t \in sick[e] : Observe(c, e, t)
    BY DEF Report
  <2>2. t \in Nat
    BY <1>1, <2>1 DEF GovernedTypeOK
  <2> QED
    BY <1>1, <2>1, <2>2, ObserveTyped
<1>4. UntouchedUntilClaimed'
  BY <1>1, <1>2, <1>3 DEF SafetyInv, UntouchedUntilClaimed, Unclaimed, Holding
<1>5. SentOnce'
  BY <1>1, <1>2, <1>3 DEF SafetyInv, SentOnce, Holding
<1>6. ReportsAreTrue'
  BY <1>1, <1>2, <1>3 DEF SafetyInv, ReportsAreTrue, Reported, Holding
<1>7. AttemptInHand'
  BY <1>1, <1>2, <1>3 DEF SafetyInv, AttemptInHand
<1>8. AcknowledgedIsClosed'
  BY <1>1, <1>2, <1>3 DEF SafetyInv, AcknowledgedIsClosed
<1>9. UncertaintyIsJournaled'
  BY <1>1, <1>2, <1>3 DEF SafetyInv, UncertaintyIsJournaled, Unacknowledged, Journaled
<1>10. Punctual'
  BY <1>1, <1>2, <1>3 DEF SafetyInv, Punctual, Holding
<1>11. Replaced'
  BY <1>1, <1>2, <1>3 DEF SafetyInv, Replaced
<1>12. PinnedSick'
  BY <1>1, <1>2, <1>3 DEF SafetyInv, PinnedSick
<1> QED
  BY <1>4, <1>5, <1>6, <1>7, <1>8, <1>9, <1>10, <1>11, <1>12 DEF SafetyInv

\* An engineer proposes a plan for the finding.
LEMMA ProposeSafe ==
  ASSUME GovernedInv, NEW a \in Actions, NEW e \in Items, NEW x \in AgentIds, Propose(a, e, x),
         UNCHANGED <<fleetVars, executorVars, lateVars, clusterVars>>
  PROVE  SafetyInv'
<1>1. /\ SafetyInv /\ GovernedTypeOK /\ ExecutionTypeOK /\ FleetTypeOK
      /\ cur \in Actions /\ journal \in [Actions -> Attempt] /\ actions \in [Actions -> ActionRow]
      /\ now \in Nat /\ receipts \in Nat
  BY DEF GovernedInv, ExecutionInv, GovernedTypeOK, ExecutionTypeOK, FleetInv, FleetTypeOK
<1>2. /\ journal' = journal /\ pods' = pods /\ sick' = sick /\ effect' = effect /\ lateReceipts' = lateReceipts /\ lateDeletes' = lateDeletes
      /\ issued' = issued /\ now' = now /\ deadline' = deadline /\ cur' = cur /\ pc' = pc /\ ticket' = ticket /\ outcome' = outcome
  BY DEF executorVars, lateVars, clusterVars, fleetVars
<1>3. /\ evidence' = evidence /\ plans'[a].item = e /\ plans'[a].target = evidence[e].target /\ evidence[e].version # 0
      /\ actions[a].state = "NONE" /\ actions'[a].state = "PROPOSED" /\ ~actions'[a].reconciled
      /\ \A b \in Actions \ {a} : actions'[b] = actions[b] /\ plans'[b] = plans[b]
  <2>1. /\ Writes(a) /\ plans'[a].item = e /\ plans'[a].target = evidence[e].target /\ evidence[e].version # 0
        /\ actions[a].state = "NONE" /\ actions'[a].state = "PROPOSED" /\ actions'[a].reconciled = FALSE
        /\ \A b \in Actions \ {a} : plans'[b] = plans[b]
    BY <1>1, ProposeWrites
  <2> QED
    BY <2>1 DEF Writes, Propose
<1>4. UntouchedUntilClaimed'
  BY <1>1, <1>2, <1>3 DEF SafetyInv, UntouchedUntilClaimed, Unclaimed, Holding
<1>5. SentOnce'
  BY <1>1, <1>2, <1>3 DEF SafetyInv, SentOnce, Holding
<1>6. ReportsAreTrue'
  BY <1>1, <1>2, <1>3 DEF SafetyInv, ReportsAreTrue, UntouchedUntilClaimed, Reported, Holding, Unclaimed
<1>7. AttemptInHand'
  BY <1>1, <1>2, <1>3 DEF SafetyInv, AttemptInHand, UntouchedUntilClaimed, Unclaimed, Holding
<1>8. AcknowledgedIsClosed'
  BY <1>1, <1>2, <1>3 DEF SafetyInv, AcknowledgedIsClosed
<1>9. UncertaintyIsJournaled'
  BY <1>1, <1>2, <1>3 DEF SafetyInv, UncertaintyIsJournaled, UntouchedUntilClaimed, Unacknowledged, Journaled, Unclaimed, Holding
<1>10. Punctual'
  BY <1>1, <1>2, <1>3 DEF SafetyInv, Punctual, UntouchedUntilClaimed, Holding, Unclaimed
<1>11. Replaced'
  BY <1>1, <1>2, <1>3 DEF SafetyInv, Replaced, UntouchedUntilClaimed, Unclaimed, Holding
<1>12. PinnedSick'
  BY <1>1, <1>2, <1>3 DEF SafetyInv, PinnedSick
<1> QED
  BY <1>4, <1>5, <1>6, <1>7, <1>8, <1>9, <1>10, <1>11, <1>12 DEF SafetyInv

\* An owner approves or withdraws the plan.
LEMMA DecisionSafe ==
  ASSUME GovernedInv, NEW a \in Actions,
         Cancel(a) \/ \E t \in (now + 1)..(now + ApprovalTTL) : Approve(a, t),
         UNCHANGED <<fleetVars, executorVars, lateVars, clusterVars>>
  PROVE  SafetyInv'
<1>1. /\ SafetyInv /\ GovernedTypeOK /\ ExecutionTypeOK /\ FleetTypeOK
      /\ cur \in Actions /\ journal \in [Actions -> Attempt] /\ actions \in [Actions -> ActionRow]
      /\ now \in Nat /\ receipts \in Nat
  BY DEF GovernedInv, ExecutionInv, GovernedTypeOK, ExecutionTypeOK, FleetInv, FleetTypeOK
<1>2. /\ journal' = journal /\ pods' = pods /\ sick' = sick /\ effect' = effect /\ lateReceipts' = lateReceipts /\ lateDeletes' = lateDeletes
      /\ issued' = issued /\ now' = now /\ deadline' = deadline /\ cur' = cur /\ pc' = pc /\ ticket' = ticket /\ outcome' = outcome
  BY DEF executorVars, lateVars, clusterVars, fleetVars
<1>3. /\ evidence' = evidence /\ plans' = plans
      /\ actions[a].state \in {"PROPOSED", "APPROVED"} /\ actions'[a].state \in {"APPROVED", "CANCELLED"}
      /\ actions'[a].reconciled = actions[a].reconciled
      /\ \A b \in Actions \ {a} : actions'[b] = actions[b]
  <2>1. CASE Cancel(a)
    <3>1. /\ Writes(a) /\ actions[a].state \in {"PROPOSED", "APPROVED"} /\ actions'[a].state = "CANCELLED"
          /\ actions'[a].reconciled = actions[a].reconciled
      BY <1>1, <2>1, CancelWrites
    <3> QED
      BY <2>1, <3>1 DEF Cancel, Writes
  <2>2. ASSUME NEW t \in (now + 1)..(now + ApprovalTTL), Approve(a, t)
        PROVE  /\ evidence' = evidence /\ plans' = plans
               /\ actions[a].state = "PROPOSED" /\ actions'[a].state = "APPROVED"
               /\ actions'[a].reconciled = actions[a].reconciled
               /\ \A b \in Actions \ {a} : actions'[b] = actions[b]
    <3>1. t \in Nat
      BY <1>1, <2>2, ExecutionAssumption
    <3>2. /\ Writes(a) /\ actions[a].state \in {"PROPOSED"} /\ actions'[a].state = "APPROVED"
          /\ actions'[a].reconciled = actions[a].reconciled
      BY <1>1, <2>2, <3>1, ApproveWrites
    <3> QED
      BY <2>2, <3>2 DEF Approve, Writes
  <2> QED
    BY <2>1, <2>2
<1>4. UntouchedUntilClaimed'
  BY <1>1, <1>2, <1>3 DEF SafetyInv, UntouchedUntilClaimed, Unclaimed, Holding
<1>5. SentOnce'
  BY <1>1, <1>2, <1>3 DEF SafetyInv, SentOnce, Holding
<1>6. ReportsAreTrue'
  BY <1>1, <1>2, <1>3 DEF SafetyInv, ReportsAreTrue, UntouchedUntilClaimed, Reported, Holding, Unclaimed
<1>7. AttemptInHand'
  BY <1>1, <1>2, <1>3 DEF SafetyInv, AttemptInHand, UntouchedUntilClaimed, Unclaimed, Holding
<1>8. AcknowledgedIsClosed'
  BY <1>1, <1>2, <1>3 DEF SafetyInv, AcknowledgedIsClosed
<1>9. UncertaintyIsJournaled'
  BY <1>1, <1>2, <1>3 DEF SafetyInv, UncertaintyIsJournaled, UntouchedUntilClaimed, Unacknowledged, Journaled, Unclaimed, Holding
<1>10. Punctual'
  BY <1>1, <1>2, <1>3 DEF SafetyInv, Punctual, UntouchedUntilClaimed, Holding, Unclaimed
<1>11. Replaced'
  BY <1>1, <1>2, <1>3 DEF SafetyInv, Replaced
<1>12. PinnedSick'
  BY <1>1, <1>2, <1>3 DEF SafetyInv, PinnedSick
<1> QED
  BY <1>4, <1>5, <1>6, <1>7, <1>8, <1>9, <1>10, <1>11, <1>12 DEF SafetyInv

\* An owner records that the outcome is unknown.
LEMMA ReconcileSafe ==
  ASSUME GovernedInv, NEW a \in Actions, Reconcile(a),
         UNCHANGED <<fleetVars, executorVars, lateVars, clusterVars>>
  PROVE  SafetyInv'
<1>1. /\ SafetyInv /\ GovernedTypeOK /\ ExecutionTypeOK /\ FleetTypeOK
      /\ cur \in Actions /\ journal \in [Actions -> Attempt] /\ actions \in [Actions -> ActionRow]
      /\ now \in Nat /\ receipts \in Nat
  BY DEF GovernedInv, ExecutionInv, GovernedTypeOK, ExecutionTypeOK, FleetInv, FleetTypeOK
<1>2. /\ journal' = journal /\ pods' = pods /\ sick' = sick /\ effect' = effect /\ lateReceipts' = lateReceipts /\ lateDeletes' = lateDeletes
      /\ issued' = issued /\ now' = now /\ deadline' = deadline /\ cur' = cur /\ pc' = pc /\ ticket' = ticket /\ outcome' = outcome
  BY DEF executorVars, lateVars, clusterVars, fleetVars
<1>3. /\ evidence' = evidence /\ plans' = plans
      /\ actions[a].state = "SUBMITTED" /\ actions'[a].state = "AMBIGUOUS"
      /\ actions'[a].receipt = actions[a].receipt /\ actions'[a].submittedAt = actions[a].submittedAt
      /\ actions[a].submittedAt + ReconcileAfter <= now
      /\ \A b \in Actions \ {a} : actions'[b] = actions[b]
  <2>1. /\ Writes(a) /\ actions[a].state \in {"SUBMITTED"} /\ actions'[a].state = "AMBIGUOUS"
        /\ actions'[a].receipt = actions[a].receipt /\ actions'[a].submittedAt = actions[a].submittedAt
    BY <1>1, ReconcileWrites
  <2> QED
    BY <2>1 DEF Reconcile, Writes
<1>4. UntouchedUntilClaimed'
  BY <1>1, <1>2, <1>3 DEF SafetyInv, UntouchedUntilClaimed, Unclaimed, Holding
<1>5. SentOnce'
  BY <1>1, <1>2, <1>3 DEF SafetyInv, SentOnce, Holding
<1>6. ReportsAreTrue'
  BY <1>1, <1>2, <1>3 DEF SafetyInv, ReportsAreTrue, Reported, Holding
<1>7. AttemptInHand'
  BY <1>1, <1>2, <1>3 DEF SafetyInv, AttemptInHand
<1>8. AcknowledgedIsClosed'
  BY <1>1, <1>2, <1>3 DEF SafetyInv, AcknowledgedIsClosed
<1>9. UncertaintyIsJournaled'
  BY <1>1, <1>2, <1>3 DEF SafetyInv, UncertaintyIsJournaled, Unacknowledged, Journaled
<1>10. Punctual'
  BY <1>1, <1>2, <1>3 DEF SafetyInv, Punctual, Holding
<1>11. Replaced'
  BY <1>1, <1>2, <1>3 DEF SafetyInv, Replaced
<1>12. PinnedSick'
  BY <1>1, <1>2, <1>3 DEF SafetyInv, PinnedSick
<1> QED
  BY <1>4, <1>5, <1>6, <1>7, <1>8, <1>9, <1>10, <1>11, <1>12 DEF SafetyInv

\* A dispute, or another policy.
LEMMA TablesSafe ==
  ASSUME GovernedInv, ChangePolicy \/ \E e \in Items : Quarantine(e),
         UNCHANGED <<fleetVars, executorVars, lateVars, clusterVars>>
  PROVE  SafetyInv'
<1>1. /\ SafetyInv /\ GovernedTypeOK /\ ExecutionTypeOK /\ FleetTypeOK
      /\ cur \in Actions /\ journal \in [Actions -> Attempt] /\ actions \in [Actions -> ActionRow]
      /\ now \in Nat /\ receipts \in Nat
  BY DEF GovernedInv, ExecutionInv, GovernedTypeOK, ExecutionTypeOK, FleetInv, FleetTypeOK
<1>2. /\ journal' = journal /\ pods' = pods /\ sick' = sick /\ effect' = effect /\ lateReceipts' = lateReceipts /\ lateDeletes' = lateDeletes
      /\ issued' = issued /\ now' = now /\ deadline' = deadline /\ cur' = cur /\ pc' = pc /\ ticket' = ticket /\ outcome' = outcome
  BY DEF executorVars, lateVars, clusterVars, fleetVars
<1>3. /\ plans' = plans /\ actions' = actions
      /\ \A f \in Items : evidence'[f].target = evidence[f].target /\ evidence'[f].version = evidence[f].version
  BY <1>1, QuarantineTyped DEF ChangePolicy
<1>4. UntouchedUntilClaimed'
  BY <1>1, <1>2, <1>3 DEF SafetyInv, UntouchedUntilClaimed, Unclaimed, Holding
<1>5. SentOnce'
  BY <1>1, <1>2, <1>3 DEF SafetyInv, SentOnce, Holding
<1>6. ReportsAreTrue'
  BY <1>1, <1>2, <1>3 DEF SafetyInv, ReportsAreTrue, Reported, Holding
<1>7. AttemptInHand'
  BY <1>1, <1>2, <1>3 DEF SafetyInv, AttemptInHand
<1>8. AcknowledgedIsClosed'
  BY <1>1, <1>2, <1>3 DEF SafetyInv, AcknowledgedIsClosed
<1>9. UncertaintyIsJournaled'
  BY <1>1, <1>2, <1>3 DEF SafetyInv, UncertaintyIsJournaled, Unacknowledged, Journaled
<1>10. Punctual'
  BY <1>1, <1>2, <1>3 DEF SafetyInv, Punctual, Holding
<1>11. Replaced'
  BY <1>1, <1>2, <1>3 DEF SafetyInv, Replaced
<1>12. PinnedSick'
  BY <1>1, <1>2, <1>3 DEF SafetyInv, PinnedSick
<1> QED
  BY <1>4, <1>5, <1>6, <1>7, <1>8, <1>9, <1>10, <1>11, <1>12 DEF SafetyInv

\* Engineers and operators.
LEMMA PeopleSafe ==
  ASSUME GovernedInv, PeopleNext, UNCHANGED <<fleetVars, executorVars, lateVars, clusterVars>>
  PROVE  SafetyInv'
  BY ProposeSafe, DecisionSafe, ReconcileSafe, TablesSafe DEF PeopleNext

\* Every step keeps the invariant.
LEMMA GovernedStepInv ==
  ASSUME GovernedInv, [Next]_vars
  PROVE  GovernedInv' /\ Settled
<1>1. ExecutionInv /\ GovernedTypeOK /\ SafetyInv
  BY DEF GovernedInv
<1>2. ExecutionInv' /\ Settled
  BY <1>1, ExecutionPart
<1>3. GovernedTypeOK'
  <2>1. CASE UNCHANGED vars
    BY <1>1, <2>1 DEF vars, executorVars, lateVars, clusterVars, GovernedTypeOK
  <2> QED
    BY <1>1, <1>2, <2>1, PollTyped, FailureTyped, EnvironmentTyped DEF Next
<1>4. ASSUME PollNext PROVE SafetyInv'
  BY <1>4, QuietSafe, FlushSendSafe, ChecksSafe, GiveUpSafe, RecordSafe, JournalClaimSafe, FlushDoneSafe,
     DeleteAppliedSafe, DeleteRefusedSafe, ReceiptRecordedSafe, ReceiptAcknowledgedSafe, ClaimReplySafe
  DEF PollNext, QuietStep
<1>5. ASSUME FailureNext PROVE SafetyInv'
  BY <1>5, QuietSafe, StopInReceiptSafe, DeleteUnknownSafe DEF FailureNext, QuietStep
<1>6. ASSUME EnvironmentNext PROVE SafetyInv'
  BY <1>2, <1>6, WorldSafe, PeopleSafe, ReportSafe, PodChangesSafe, LateClaimSafe, LateReceiptSafe, LateDeleteSafe
  DEF EnvironmentNext, WorldNext
<1>7. ASSUME UNCHANGED vars PROVE SafetyInv'
  BY <1>2, <1>7, WorldSafe
<1> QED
  BY <1>2, <1>3, <1>4, <1>5, <1>6, <1>7 DEF GovernedInv, Next

\* A fresh installation satisfies the invariant.
LEMMA GovernedInitInv == Init => GovernedInv
<1> SUFFICES ASSUME Init PROVE GovernedInv
  OBVIOUS
<1>1. ExecutionInv
  BY ExecutionInitInv DEF Init
<1>2. /\ Executor \in AgentIds /\ (CHOOSE u \in ClusterUIDs : TRUE) \in ClusterUIDs
      /\ (CHOOSE a \in Actions : TRUE) \in Actions
  BY FleetAssumption, ExecutionAssumption, GovernedExecutionAssumption
<1>3. NoCredential \in Credential /\ NoAttempt \in Attempt /\ NoAttempt.token = 0
  BY <1>2 DEF NoCredential, Credential, Roles, NoAttempt, Attempt, Outcomes
<1>4. GovernedTypeOK
  BY <1>2, <1>3 DEF Init, ExecutorInit, GovernedTypeOK, Steps, Outcomes
<1>5. \A a \in Actions : actions[a].state = "NONE" /\ ~actions[a].reconciled /\ journal[a].token = 0
                          /\ issued[a] = 0 /\ ~effect[a]
  BY <1>3 DEF Init, ExecutionInit, ExecutorInit, NoAction
<1>6. \A e \in Items : evidence[e].version = 0 /\ sick[e] = {0} /\ pods[e].version = 0 /\ pods[e].unhealthy
  BY DEF Init, ExecutionInit, ExecutorInit, NoItem
<1>7. now = 0 /\ deadline = 0 /\ pc = "down" /\ lateReceipts = {} /\ lateDeletes = {} /\ PollTimeout \in Nat
  BY GovernedExecutionAssumption DEF Init, FleetInit, ExecutorInit
<1>8. UntouchedUntilClaimed /\ SentOnce
  BY <1>5, <1>7 DEF UntouchedUntilClaimed, SentOnce, Holding
<1>9. ReportsAreTrue
  BY <1>5, <1>7 DEF ReportsAreTrue, Reported
<1>10. AttemptInHand /\ AcknowledgedIsClosed /\ UncertaintyIsJournaled
  BY <1>5, <1>7 DEF AttemptInHand, AcknowledgedIsClosed, UncertaintyIsJournaled
<1>11. Punctual /\ Replaced /\ PinnedSick
  BY <1>5, <1>6, <1>7 DEF Punctual, Holding, Replaced, PinnedSick
<1> QED
  BY <1>1, <1>4, <1>8, <1>9, <1>10, <1>11 DEF GovernedInv, SafetyInv

-----------------------------------------------------------------------------
(* The theorems. *)

\* The inductive invariant holds in every reachable state of the whole system.
THEOREM GovernedInvariant == Spec => []GovernedInv
<1>1. GovernedInv /\ [Next]_vars => GovernedInv'
  BY GovernedStepInv
<1> QED
  BY <1>1, GovernedInitInv, PTL DEF Spec

\* The tables, the executor's files and the cluster stay typed.
THEOREM GovernedTyped == Spec => []TypeOK
<1>1. GovernedInv => TypeOK
  BY DEF GovernedInv, ExecutionInv, FleetInv, TypeOK
<1> QED
  BY <1>1, GovernedInvariant, PTL

\* The real delete is sent at most once per approved action, whatever crashes,
\* time-outs, lost and late calls Poll meets.
THEOREM OneDeletePerAction == Spec => []DeletedAtMostOnce
<1>1. GovernedInv => DeletedAtMostOnce
  BY DEF GovernedInv, SafetyInv, SentOnce, DeletedAtMostOnce
<1> QED
  BY <1>1, GovernedInvariant, PTL

\* What the orchestrator records as APPLIED or FAILED is what happened.
THEOREM OutcomesAreTrue == Spec => []RecordedOutcomeIsTrue
<1>1. GovernedInv => RecordedOutcomeIsTrue
  BY DEF GovernedInv, SafetyInv, ReportsAreTrue, RecordedOutcomeIsTrue
<1> QED
  BY <1>1, GovernedInvariant, PTL

\* A delete the orchestrator has no outcome of is an open attempt on the
\* executor's disk, with the receipt token that reports it.
THEOREM OpenAttemptsAreJournaled == Spec => []UncertaintyIsJournaled
<1>1. GovernedInv => UncertaintyIsJournaled
  BY DEF GovernedInv, SafetyInv
<1> QED
  BY <1>1, GovernedInvariant, PTL

\* What a step does to the cluster on behalf of actions: nothing, Poll sends its
\* delete, or a late delete arrives.
SendsDelete == pc = "delete" /\ InTime /\ UNCHANGED executionVars /\ Issue /\ (effect' = effect \/ PodDeleted(cur))
DeleteArrives == UNCHANGED <<executionVars, issued>> /\ \E d \in lateDeletes : PodDeleted(d)

\* A step leaves the deletes and their effects alone, sends a delete, or is the
\* arrival of one sent earlier.
LEMMA ClusterStep ==
  ASSUME [Next]_vars
  PROVE  UNCHANGED <<issued, effect>> \/ SendsDelete \/ DeleteArrives
<1>1. CASE Start \/ PollBegin \/ FlushRejected \/ ReceiptRecorded \/ ReceiptAcknowledged \/ ReceiptRefused
           \/ (\E a \in Actions : FlushSend(a)) \/ (\E gone \in SUBSET Actions : FlushDone(gone))
  BY <1>1 DEF Start, PollBegin, FlushRejected, ReceiptRecorded, ReceiptAcknowledged, ReceiptRefused, FlushSend,
              FlushDone, clusterVars
<1>2. CASE RenewReply \/ Authorized \/ AuthorizeRefused \/ ListReply \/ ListRefused \/ PollEnd
           \/ ClaimReply \/ ClaimRefused \/ (\E b \in bootstraps : EnrollReply(b))
           \/ (\E a \in Actions : Skip(a) \/ ClaimSend(a) \/ JournalFull(a))
  BY <1>2 DEF RenewReply, Authorized, AuthorizeRefused, ListReply, ListRefused, PollEnd, ClaimReply, ClaimRefused,
              EnrollReply, Skip, ClaimSend, JournalFull, clusterVars
<1>3. CASE JournalClaim \/ CheckPasses \/ RecheckPasses \/ RecheckFails \/ DeleteExpired \/ Record \/ TimedOut
           \/ (\E o \in Outcomes : CheckFails(o))
  BY <1>3 DEF JournalClaim, CheckPasses, RecheckPasses, RecheckFails, DeleteExpired, Record, TimedOut, CheckFails,
              clusterVars
<1>4. CASE DeleteApplied \/ DeleteUnknown \/ (\E o \in Outcomes : DeleteRefused(o))
  BY <1>4 DEF DeleteApplied, DeleteUnknown, DeleteRefused, Goto, SendsDelete
<1>5. CASE Stop \/ StopInClaim \/ StopInReceipt \/ StopInEnroll \/ StopInRenewal
  BY <1>5 DEF Stop, StopInClaim, StopInReceipt, StopInEnroll, StopInRenewal, Stopped, clusterVars
<1>6. CASE \E a \in lateDeletes : LateDelete(a)
  BY <1>6 DEF LateDelete, DeleteArrives
<1>7. CASE \/ \E c \in credentials, e \in Items : Report(c, e)
           \/ \E e \in Items, u \in BOOLEAN : PodChanges(e, u)
           \/ \E uid \in ClusterUIDs : Reenroll(uid)
           \/ \E m \in lateClaims : LateClaim(m)
           \/ \E m \in lateReceipts : LateReceipt(m)
           \/ \E b \in bootstraps : LateEnroll(b)
           \/ \E c \in lateRenewals : LateRenewal(c)
  BY <1>7 DEF Report, PodChanges, Reenroll, LateClaim, LateReceipt, LateEnroll, LateRenewal, clusterVars
<1>8. CASE UNCHANGED clusterVars \/ UNCHANGED vars
  BY <1>8 DEF clusterVars, vars
<1>9. CASE PollNext
  BY <1>1, <1>2, <1>3, <1>4, <1>9 DEF PollNext
<1>10. CASE FailureNext
  BY <1>4, <1>5, <1>10 DEF FailureNext
<1>11. CASE EnvironmentNext
  BY <1>6, <1>7, <1>8, <1>11 DEF EnvironmentNext, WorldNext
<1> QED
  BY <1>8, <1>9, <1>10, <1>11 DEF Next

\* A Pod is deleted for an action only at the version its plan pins, which the
\* action did not delete before.
LEMMA DeleteNeedsVersion ==
  ASSUME GovernedInv, [Next]_vars, NEW a \in Actions, ~effect[a], effect'[a]
  PROVE  /\ pods[plans[a].item].version = plans[a].target
         /\ UNCHANGED executionVars
         /\ \A b \in Actions \ {a} : effect'[b] = effect[b]
         /\ actions[a].state # "NONE"
<1>1. ExecutionTypeOK /\ GovernedTypeOK /\ SafetyInv /\ cur \in Actions /\ lateDeletes \subseteq Actions
  BY DEF GovernedInv, ExecutionInv, GovernedTypeOK
<1>2. PICK d \in Actions : PodDeleted(d) /\ UNCHANGED executionVars /\ (d \in lateDeletes \/ (pc = "delete" /\ cur = d))
  BY <1>1, ClusterStep DEF SendsDelete, DeleteArrives
<1>3. d = a /\ pods[plans[a].item].version = plans[a].target /\ \A b \in Actions \ {a} : effect'[b] = effect[b]
  BY <1>1, <1>2, PodDeletedFacts
<1>4. actions[a].state # "NONE"
  BY <1>1, <1>2, <1>3 DEF SafetyInv, UntouchedUntilClaimed, Unclaimed, Holding
<1> QED
  BY <1>2, <1>3, <1>4

\* Only the unhealthy Pod that the owner approved is ever deleted.
THEOREM DeletesUnhealthyOnly == Spec => OnlyUnhealthyDeleted
<1>1. ASSUME GovernedInv, [Next]_vars, NEW a \in Actions, ~effect[a], effect'[a]
      PROVE  pods[plans[a].item].unhealthy /\ pods[plans[a].item].version = plans[a].target
  <2>1. pods[plans[a].item].version = plans[a].target /\ actions[a].state # "NONE"
    BY <1>1, DeleteNeedsVersion
  <2>2. plans[a].item \in Items
    BY <1>1 DEF GovernedInv, ExecutionInv, ExecutionTypeOK, Plan
  <2> QED
    BY <1>1, <2>1, <2>2 DEF GovernedInv, SafetyInv, PinnedSick
<1>2. GovernedInv /\ [Next]_vars =>
        [\A a \in Actions :
           ~effect[a] /\ effect'[a] =>
             /\ pods[plans[a].item].unhealthy
             /\ pods[plans[a].item].version = plans[a].target]_vars
  BY <1>1
<1> QED
  BY <1>2, GovernedInvariant, PTL DEF Spec, OnlyUnhealthyDeleted

\* After an owner's reconciliation the executor's Poll is past its deadline.
THEOREM ReconcileIsSafe == Spec => NoDeleteAfterReconcile
<1>1. ASSUME GovernedInv, [Next]_vars, NEW a \in Actions, actions[a].reconciled
      PROVE  issued'[a] = issued[a]
  <2>1. /\ actions[a].submittedAt \in Nat /\ now \in Nat /\ deadline \in Nat
        /\ {PollTimeout, ReconcileAfter} \subseteq Nat /\ PollTimeout <= ReconcileAfter
    BY <1>1, GovernedExecutionAssumption, ExecutionAssumption
    DEF GovernedInv, ExecutionInv, FleetInv, FleetTypeOK, ExecutionTypeOK, ActionRow, GovernedTypeOK
  <2>2. ~(pc = "delete" /\ InTime /\ cur = a)
    <3> SUFFICES ASSUME pc = "delete", InTime, cur = a PROVE FALSE
      OBVIOUS
    <3>1. deadline <= actions[a].submittedAt + PollTimeout /\ actions[a].submittedAt + ReconcileAfter <= now
      BY <1>1 DEF GovernedInv, SafetyInv, Punctual, Holding
    <3>2. now < deadline
      BY DEF InTime
    <3> QED
      BY <2>1, <3>1, <3>2
  <2>3. cur # a /\ Issue => issued'[a] = issued[a]
    BY <1>1 DEF GovernedInv, GovernedTypeOK, Issue
  <2> QED
    BY <1>1, <2>2, <2>3, ClusterStep DEF SendsDelete, DeleteArrives
<1>2. GovernedInv /\ [Next]_vars => [\A a \in Actions : actions[a].reconciled => issued'[a] = issued[a]]_vars
  BY <1>1
<1> QED
  BY <1>2, GovernedInvariant, PTL DEF Spec, NoDeleteAfterReconcile

\* Only action a's row changes: it is proposed, or makes an allowed move.
Moved(a) ==
  /\ \A b \in Actions \ {a} : actions'[b] = actions[b] /\ plans'[b] = plans[b]
  /\ \/ actions[a].state = "NONE" /\ actions'[a].state = "PROPOSED"
     \/ <<actions[a].state, actions'[a].state>> \in Moves /\ plans'[a] = plans[a]

\* A claim or a receipt moves exactly one action along Moves.
LEMMA CallMoves ==
  ASSUME FleetTypeOK, ExecutionTypeOK, CallOnly
  PROVE  \E a \in Actions : Moved(a)
<1>1. /\ now \in Nat /\ receipts \in Nat /\ actions \in [Actions -> ActionRow]
  BY DEF FleetTypeOK, ExecutionTypeOK
<1>2. PICK c, a : a \in Actions /\ (Claim(c, a) \/ \E r, o : o \in Outcomes /\ Receipt(c, a, r, o))
  BY DEF CallOnly
<1>3. CASE Claim(c, a)
  <2>1. Writes(a) /\ actions[a].state = "APPROVED" /\ actions'[a].state = "SUBMITTED"
    BY <1>1, <1>2, <1>3, ClaimWrites
  <2> QED
    BY <1>2, <1>3, <2>1, AllowedMoves DEF Claim, Writes, Moved
<1>4. ASSUME NEW r, NEW o \in Outcomes, Receipt(c, a, r, o) PROVE Moved(a)
  <2>1. Writes(a) /\ actions[a].state = "SUBMITTED" /\ actions'[a].state \in {"APPLIED", "FAILED", "AMBIGUOUS"}
    BY <1>1, <1>2, <1>4, ReceiptWrites, OutcomeStateIsState
  <2> QED
    BY <1>2, <1>4, <2>1, AllowedMoves DEF Receipt, Writes, Moved
<1> QED
  BY <1>2, <1>3, <1>4

\* What engineers and owners do moves at most one action along Moves.
LEMMA PeopleMoves ==
  ASSUME FleetTypeOK, ExecutionTypeOK, PeopleNext
  PROVE  UNCHANGED <<plans, actions>> \/ \E a \in Actions : Moved(a)
<1>1. now \in Nat /\ actions \in [Actions -> ActionRow]
  BY DEF FleetTypeOK, ExecutionTypeOK
<1>2. ASSUME NEW a \in Actions, NEW e \in Items, NEW x \in AgentIds, Propose(a, e, x) PROVE Moved(a)
  BY <1>2, ProposeWrites DEF Writes, Moved
<1>3. ASSUME NEW a \in Actions, NEW t \in (now + 1)..(now + ApprovalTTL), Approve(a, t) PROVE Moved(a)
  <2>1. t \in Nat
    BY <1>1, <1>3, ExecutionAssumption
  <2>2. Writes(a) /\ actions[a].state = "PROPOSED" /\ actions'[a].state = "APPROVED"
    BY <1>1, <1>3, <2>1, ApproveWrites
  <2> QED
    BY <1>3, <2>2, AllowedMoves DEF Approve, Writes, Moved
<1>4. ASSUME NEW a \in Actions, Cancel(a) PROVE Moved(a)
  <2>1. Writes(a) /\ actions[a].state \in {"PROPOSED", "APPROVED"} /\ actions'[a].state = "CANCELLED"
    BY <1>1, <1>4, CancelWrites
  <2> QED
    BY <1>4, <2>1, AllowedMoves DEF Cancel, Writes, Moved
<1>5. ASSUME NEW a \in Actions, Reconcile(a) PROVE Moved(a)
  <2>1. Writes(a) /\ actions[a].state = "SUBMITTED" /\ actions'[a].state = "AMBIGUOUS"
    BY <1>1, <1>5, ReconcileWrites
  <2> QED
    BY <1>5, <2>1, AllowedMoves DEF Reconcile, Writes, Moved
<1>6. CASE ChangePolicy \/ \E e \in Items : Quarantine(e)
  BY <1>6 DEF ChangePolicy, Quarantine
<1> QED
  BY <1>2, <1>3, <1>4, <1>5, <1>6 DEF PeopleNext

\* A step moves at most one action, and never when it touches the cluster.
LEMMA TableStep ==
  ASSUME GovernedInv, [Next]_vars
  PROVE  UNCHANGED <<plans, actions>> \/ (UNCHANGED effect /\ \E a \in Actions : Moved(a))
<1>1. FleetTypeOK /\ ExecutionTypeOK /\ GovernedTypeOK
  BY DEF GovernedInv, ExecutionInv, FleetInv
<1>2. UNCHANGED effect \/ UNCHANGED executionVars
  BY ClusterStep DEF SendsDelete, DeleteArrives
<1>3. UNCHANGED <<plans, actions>> \/ \E a \in Actions : Moved(a)
  <2>1. CASE PollNext \/ FailureNext
    BY <1>1, <2>1, PollTables, CallMoves DEF FleetOnly, executionVars
  <2>2. CASE FleetStep /\ UNCHANGED <<executionVars, executorVars, lateVars, clusterVars>>
    BY <2>2 DEF executionVars
  <2>3. CASE PeopleNext
    BY <1>1, <2>3, PeopleMoves
  <2>4. CASE (\E c \in credentials, e \in Items : Report(c, e)) \/ (\E e \in Items, u \in BOOLEAN : PodChanges(e, u))
             \/ (\E a \in lateDeletes : LateDelete(a)) \/ UNCHANGED vars
    BY <2>4 DEF Report, Observe, PodChanges, LateDelete, executionVars, vars
  <2>5. CASE \/ \E uid \in ClusterUIDs : Reenroll(uid)
             \/ \E b \in bootstraps : LateEnroll(b)
             \/ \E c \in lateRenewals : LateRenewal(c)
    BY <2>5 DEF Reenroll, LateEnroll, LateRenewal, executionVars
  <2>6. CASE (\E m \in lateClaims : LateClaim(m)) \/ (\E m \in lateReceipts : LateReceipt(m))
    <3>1. (\A m \in lateClaims : m.action \in Actions) /\ (\A m \in lateReceipts : m.action \in Actions /\ m.outcome \in Outcomes)
      BY <1>1 DEF GovernedTypeOK
    <3>2. CallOnly
      BY <2>6, <3>1 DEF LateClaim, LateReceipt, CallOnly
    <3> QED
      BY <1>1, <3>2, CallMoves
  <2> QED
    BY <2>1, <2>2, <2>3, <2>4, <2>5, <2>6 DEF Next, EnvironmentNext, WorldNext
<1> QED
  BY <1>2, <1>3 DEF executionVars

\* No two actions that pin the same version of a Pod both replace it.
THEOREM PodsAreReplacedOnce == Spec => []OneReplacementPerPod
<1>1. Init => OneReplacementPerPod
  BY DEF Init, ExecutorInit, OneReplacementPerPod
<1>2. ASSUME GovernedInv, OneReplacementPerPod, [Next]_vars
      PROVE  OneReplacementPerPod'
  <2> SUFFICES ASSUME NEW a \in Actions, NEW b \in Actions, effect'[a], effect'[b],
                      plans'[a].item = plans'[b].item, plans'[a].target = plans'[b].target, a # b
               PROVE  FALSE
    BY DEF OneReplacementPerPod
  <2>1. \A c \in Actions : effect[c] => plans[c].target < pods[plans[c].item].version
    BY <1>2 DEF GovernedInv, SafetyInv, Replaced
  <2>2. \A c \in Actions : plans[c].target \in Nat
    BY <1>2 DEF GovernedInv, ExecutionInv, ExecutionTypeOK, Plan
  <2>3. CASE effect[a] /\ effect[b]
    <3>1. \A c \in Actions : effect[c] => actions[c].state # "NONE"
      BY <1>2 DEF GovernedInv, SafetyInv, UntouchedUntilClaimed, Unclaimed
    <3>2. plans'[a] = plans[a] /\ plans'[b] = plans[b]
      BY <1>2, <2>3, <3>1, TableStep DEF Moved
    <3> QED
      BY <1>2, <2>3, <3>2 DEF OneReplacementPerPod
  <2>4. CASE ~effect[a]
    <3>1. pods[plans[a].item].version = plans[a].target /\ plans' = plans /\ effect'[b] = effect[b]
      BY <1>2, <2>4, DeleteNeedsVersion DEF executionVars
    <3> QED
      BY <2>1, <2>2, <3>1
  <2>5. CASE ~effect[b]
    <3>1. pods[plans[b].item].version = plans[b].target /\ plans' = plans /\ effect'[a] = effect[a]
      BY <1>2, <2>5, DeleteNeedsVersion DEF executionVars
    <3> QED
      BY <2>1, <2>2, <3>1
  <2> QED
    BY <2>3, <2>4, <2>5
<1> QED
  BY <1>1, <1>2, GovernedInvariant, PTL DEF Spec

\* The recorded states and the effects on the cluster behave as GovernedAction
\* promises: every step of the system is a step of the promise or changes neither.
THEOREM PromiseIsKept == Spec => KeepsPromise
<1> DEFINE status == [a \in Actions |-> actions[a].state]
<1>1. Init => Promise!Init
  <2> SUFFICES ASSUME Init PROVE Promise!Init
    OBVIOUS
  <2>1. effect = [a \in Actions |-> FALSE]
    BY DEF Init, ExecutorInit
  <2>2. actions = [a \in Actions |-> NoAction] /\ NoAction.state = "NONE"
    BY DEF Init, ExecutionInit, NoAction
  <2>3. \A a \in Actions : actions[a].state = "NONE"
    BY <2>2
  <2>4. [a \in Actions |-> actions[a].state] = [a \in Actions |-> "NONE"]
    BY <2>3
  <2> QED
    BY <2>1, <2>4 DEF Promise!Init
<1>2. ASSUME GovernedInv, GovernedInv', [Next]_vars
      PROVE  [Promise!Next]_(Promise!promiseVars)
  <2>1. effect \in [Actions -> BOOLEAN] /\ effect' \in [Actions -> BOOLEAN]
    BY <1>2 DEF GovernedInv, GovernedTypeOK
  <2>2. ASSUME NEW a \in Actions, UNCHANGED effect, Moved(a) PROVE Promise!Next
    <3>1. status' = [status EXCEPT ![a] = actions'[a].state] /\ status[a] = actions[a].state
      BY <2>2 DEF Moved
    <3>2. actions'[a].state = "APPLIED" => effect[a]
      BY <1>2, <2>2 DEF GovernedInv, SafetyInv, ReportsAreTrue
    <3>3. actions'[a].state = "FAILED" => ~effect[a]
      BY <1>2, <2>2 DEF GovernedInv, SafetyInv, ReportsAreTrue
    <3> HIDE DEF status
    <3>4. \/ Promise!Propose(a) \/ Promise!Approve(a) \/ Promise!Cancel(a) \/ Promise!Submit(a) \/ Promise!Conclude(a)
      BY <2>2, <3>1, <3>2, <3>3
      DEF Moved, Moves, Promise!Propose, Promise!Approve, Promise!Cancel, Promise!Submit, Promise!Conclude,
          Promise!Move, status
    <3> QED
      BY <3>4 DEF Promise!Next
  <2>3. ASSUME NEW a \in Actions, ~effect[a], effect'[a] PROVE Promise!Next
    <3>1. actions' = actions /\ \A b \in Actions \ {a} : effect'[b] = effect[b]
      BY <1>2, <2>3, DeleteNeedsVersion DEF executionVars
    <3>2. effect' = [effect EXCEPT ![a] = TRUE]
      BY <2>1, <2>3, <3>1
    <3>3. actions[a].state \in {"SUBMITTED", "AMBIGUOUS"}
      <4>1. actions[a].state \in States
        BY <1>2 DEF GovernedInv, ExecutionInv, ExecutionTypeOK, ActionRow
      <4>2. actions[a].state # "APPLIED"
        BY <1>2, <2>3 DEF GovernedInv, SafetyInv, ReportsAreTrue
      <4>3. actions[a].state # "FAILED"
        BY <1>2, <2>3, <3>1 DEF GovernedInv, SafetyInv, ReportsAreTrue
      <4>4. ~Unclaimed(a)
        BY <1>2, <2>3, <3>1 DEF GovernedInv, SafetyInv, UntouchedUntilClaimed, Unclaimed
      <4> QED
        BY <4>1, <4>2, <4>3, <4>4 DEF Unclaimed, States, Open, Terminal
    <3>4. Promise!TakeEffect(a)
      BY <2>3, <3>1, <3>2, <3>3 DEF Promise!TakeEffect
    <3> QED
      BY <3>4 DEF Promise!Next
  <2>4. ASSUME NEW a \in Actions, effect[a], ~effect'[a] PROVE FALSE
    <3>1. PICK d \in Actions : PodDeleted(d)
      BY <1>2, <2>4, ClusterStep DEF SendsDelete, DeleteArrives, GovernedInv, GovernedTypeOK
    <3> QED
      BY <1>2, <2>1, <2>4, <3>1 DEF PodDeleted
  <2>5. CASE UNCHANGED <<plans, actions>> /\ UNCHANGED effect
    BY <2>5 DEF Promise!promiseVars
  <2>6. effect' = effect \/ \E a \in Actions : effect'[a] # effect[a]
    BY <2>1
  <2> QED
    BY <1>2, <2>1, <2>2, <2>3, <2>4, <2>5, <2>6, TableStep
<1> QED
  BY <1>1, <1>2, GovernedInvariant, PTL DEF Spec, KeepsPromise, Promise!Spec
=============================================================================
