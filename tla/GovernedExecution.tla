------------------------- MODULE GovernedExecution -------------------------
(***************************************************************************)
(* The executor agent (pkg/agent/executor) against the orchestrator        *)
(* (Execution, Fleet) and the cluster.                                     *)
(*                                                                         *)
(* Poll is followed step by step: what it does between two calls to the    *)
(* orchestrator, to the Kubernetes API or to the disk is one step, named   *)
(* by pc.  Any error makes Poll and Run return and the process exit, as a  *)
(* crash does; the container is restarted and reads its files again.       *)
(* journal and credential are those files: in memory they only differ      *)
(* while a write is under way, and a write that fails ends the process.    *)
(*                                                                         *)
(* A call whose answer the executor did not wait for may still reach its   *)
(* destination later, or never: the late variables hold such calls.        *)
(***************************************************************************)
EXTENDS Execution

CONSTANTS
  Executor,      \* the executor's identity
  PollTimeout,   \* 2 minutes: deadline of one Poll
  RenewBefore,   \* 2 minutes: renew a credential with less than this left
  JournalMax,    \* 256: attempts a journal may hold
  CompactAt,     \* 192: attempts at which the journal is compacted
  CompactTo,     \* 128: attempts compaction aims at
  MaxFaults      \* bound on crashes and lost calls

ASSUME GovernedExecutionAssumption ==
  /\ Executor \in AgentIds
  /\ {PollTimeout, RenewBefore, JournalMax, CompactAt} \subseteq Nat \ {0}
  /\ {CompactTo, MaxFaults} \subseteq Nat
  /\ CompactTo < CompactAt
  /\ RenewBefore <= CredentialTTL     \* 2 and 30 minutes
  /\ PollTimeout <= ReconcileAfter    \* 2 minutes and 120 seconds

VARIABLES
  pc,           \* where Poll is
  credential,   \* the credential file
  bootFile,     \* the bootstrap token in the mounted Secret, 0 if none
  journal,      \* the attempts file
  listed,       \* approved actions left of the last listing
  cur,          \* the action Poll is working on
  resume,       \* where Poll goes on after a receipt: "flush" or "work"
  ticket,       \* the receipt token of the claim in hand
  outcome,      \* the outcome Poll is about to record
  deadline,     \* when the context of Poll expires
  faults,       \* crashes and lost calls so far
  lateClaims, lateReceipts, lateEnrolls, lateRenewals, lateDeletes,
  pods,         \* the Pod behind each evidence item
  sick,         \* resource versions at which that Pod was unhealthy
  issued,       \* how many non-dry-run deletes were sent for an action
  effect        \* whether one of them deleted the Pod

executorVars == <<pc, credential, bootFile, journal, listed, cur, resume, ticket, outcome,
                  deadline, faults>>
lateVars == <<lateClaims, lateReceipts, lateEnrolls, lateRenewals, lateDeletes>>
clusterVars == <<pods, sick, issued, effect>>
vars == <<fleetVars, executionVars, executorVars, lateVars, clusterVars>>

NoCredential == [id |-> Executor, token |-> 0, generation |-> 0, role |-> "EXECUTOR",
                 uid |-> CHOOSE u \in ClusterUIDs : TRUE, epoch |-> 0, expiresAt |-> 0, boot |-> 0]

Attempt == [token : Nat, outcome : Outcomes, acknowledged : BOOLEAN]
NoAttempt == [token |-> 0, outcome |-> "AMBIGUOUS", acknowledged |-> FALSE]

Journaled == {a \in Actions : journal[a].token # 0}
Unacknowledged == {a \in Journaled : ~journal[a].acknowledged}

ExecutorInit ==
  /\ pc = "down"
  /\ credential = NoCredential
  /\ bootFile = 0
  /\ journal = [a \in Actions |-> NoAttempt]
  /\ listed = {}
  /\ cur = CHOOSE a \in Actions : TRUE
  /\ resume = "flush"
  /\ ticket = 0
  /\ outcome = "AMBIGUOUS"
  /\ deadline = 0
  /\ faults = 0
  /\ lateClaims = {} /\ lateReceipts = {} /\ lateEnrolls = {} /\ lateRenewals = {} /\ lateDeletes = {}
  /\ pods = [e \in Items |-> [version |-> 0, unhealthy |-> TRUE]]
  /\ sick = [e \in Items |-> {0}]
  /\ issued = [a \in Actions |-> 0]
  /\ effect = [a \in Actions |-> FALSE]

Init == FleetInit /\ ExecutionInit /\ ExecutorInit

-----------------------------------------------------------------------------
(* Poll. *)

\* validCredential: present and not expired, by the agent's own copy.
ValidCredential == credential.token # 0 /\ credential.expiresAt > now

\* The context of this Poll has not expired.
InTime == now < deadline

Goto(from, to) == pc = from /\ pc' = to

\* NewRuntime and openJournal, in a restarted container.
Start ==
  /\ Goto("down", "idle")
  /\ UNCHANGED <<credential, bootFile, journal, listed, cur, resume, ticket, outcome, deadline, faults>>
  /\ UNCHANGED <<fleetVars, executionVars, lateVars, clusterVars>>

\* Poll begins: a credential file that is no longer valid asks for re-enrolment.
PollBegin ==
  /\ pc = "idle"
  /\ pc' = IF credential.token # 0 /\ ~ValidCredential THEN "down" ELSE "flush"
  /\ deadline' = now + PollTimeout
  /\ listed' = {}
  /\ UNCHANGED <<credential, bootFile, journal, cur, resume, ticket, outcome, faults>>
  /\ UNCHANGED <<fleetVars, executionVars, lateVars, clusterVars>>

\* An attempt that was not acknowledged is sent before anything else.
FlushSend(a) ==
  /\ Goto("flush", "receipt")
  /\ a \in Unacknowledged
  /\ ValidCredential
  /\ cur' = a
  /\ resume' = "flush"
  /\ UNCHANGED <<credential, bootFile, journal, listed, ticket, outcome, deadline, faults>>
  /\ UNCHANGED <<fleetVars, executionVars, lateVars, clusterVars>>

FlushRejected ==
  /\ Goto("flush", "down")
  /\ Unacknowledged # {}
  /\ ~ValidCredential
  /\ UNCHANGED <<credential, bootFile, journal, listed, cur, resume, ticket, outcome, deadline, faults>>
  /\ UNCHANGED <<fleetVars, executionVars, lateVars, clusterVars>>

\* compactJournal: at CompactAt attempts, acknowledged ones are deleted, in map
\* order, until CompactTo are left.
Pruned(gone) ==
  /\ gone \subseteq Journaled \ Unacknowledged
  /\ IF Cardinality(Journaled) < CompactAt
       THEN gone = {}
       ELSE Cardinality(Journaled \ gone) = CompactTo

\* Fault: the credential is rotated before the receipts are flushed.
FlushDoneEarly(gone) ==
  /\ Goto("flush", "authorize")
  /\ Pruned(gone)
  /\ journal' = [a \in Actions |-> IF a \in gone THEN NoAttempt ELSE journal[a]]
  /\ UNCHANGED <<credential, bootFile, listed, cur, resume, ticket, outcome, deadline, faults>>
  /\ UNCHANGED <<fleetVars, executionVars, lateVars, clusterVars>>

FlushDone(gone) ==
  /\ Goto("flush", "authorize")
  /\ Unacknowledged = {}
  /\ Pruned(gone)
  /\ journal' = [a \in Actions |-> IF a \in gone THEN NoAttempt ELSE journal[a]]
  /\ UNCHANGED <<credential, bootFile, listed, cur, resume, ticket, outcome, deadline, faults>>
  /\ UNCHANGED <<fleetVars, executionVars, lateVars, clusterVars>>

\* The reply to a receipt: recorded, or acknowledged without a change.
Acknowledge ==
  /\ pc' = resume
  /\ journal' = [journal EXCEPT ![cur].acknowledged = TRUE]
  /\ UNCHANGED <<credential, bootFile, listed, cur, resume, ticket, outcome, deadline, faults>>

ReceiptRecorded ==
  /\ pc = "receipt"
  /\ InTime
  /\ Receipt(credential, cur, journal[cur].token, journal[cur].outcome)
  /\ Acknowledge
  /\ UNCHANGED <<fleetVars, lateVars, clusterVars>>

ReceiptAcknowledged ==
  /\ pc = "receipt"
  /\ InTime
  /\ Receivable(credential, cur, journal[cur].token)
  /\ Acknowledges(cur, journal[cur].outcome)
  /\ Acknowledge
  /\ UNCHANGED <<fleetVars, executionVars, lateVars, clusterVars>>

\* 401 or a conflict: Poll returns the error.
ReceiptRefused ==
  /\ Goto("receipt", "down")
  /\ InTime
  /\ \/ ~Receivable(credential, cur, journal[cur].token)
     \/ actions[cur].state # "SUBMITTED" /\ ~Acknowledges(cur, journal[cur].outcome)
  /\ UNCHANGED <<credential, bootFile, journal, listed, cur, resume, ticket, outcome, deadline, faults>>
  /\ UNCHANGED <<fleetVars, executionVars, lateVars, clusterVars>>

-----------------------------------------------------------------------------
(* authorize. *)

NeedsRenewal == credential.expiresAt < now + RenewBefore

\* With no credential file the mounted bootstrap token is exchanged for one.
EnrollReply(b) ==
  /\ Goto("authorize", "list")
  /\ InTime
  /\ credential.token = 0
  /\ b \in bootstraps /\ b.token = bootFile /\ b.id = Executor
  /\ Enroll(b, b.uid, "EXECUTOR")
  /\ credential' = CredentialOf(Executor, agents'[Executor], b.token)
  /\ UNCHANGED <<bootFile, journal, listed, cur, resume, ticket, outcome, deadline, faults>>
  /\ UNCHANGED <<executionVars, lateVars, clusterVars>>

RenewReply ==
  /\ Goto("authorize", "list")
  /\ InTime
  /\ ValidCredential
  /\ NeedsRenewal
  /\ Renew(credential, "EXECUTOR")
  /\ credential' = CredentialOf(Executor, agents'[Executor], 0)
  /\ UNCHANGED <<bootFile, journal, listed, cur, resume, ticket, outcome, deadline, faults>>
  /\ UNCHANGED <<executionVars, lateVars, clusterVars>>

Authorized ==
  /\ Goto("authorize", "list")
  /\ ValidCredential
  /\ ~NeedsRenewal
  /\ UNCHANGED <<credential, bootFile, journal, listed, cur, resume, ticket, outcome, deadline, faults>>
  /\ UNCHANGED <<fleetVars, executionVars, lateVars, clusterVars>>

\* No usable bootstrap, an expired credential, or a renewal the orchestrator refuses.
AuthorizeRefused ==
  /\ Goto("authorize", "down")
  /\ \/ credential.token = 0 /\ ~\E b \in bootstraps : b.token = bootFile /\ Consumable(b, b.uid, "EXECUTOR")
     \/ credential.token # 0 /\ ~ValidCredential
     \/ credential.token # 0 /\ NeedsRenewal /\ ~AuthenticateTx(credential.id, credential.token, "EXECUTOR")
  /\ UNCHANGED <<credential, bootFile, journal, listed, cur, resume, ticket, outcome, deadline, faults>>
  /\ UNCHANGED <<fleetVars, executionVars, lateVars, clusterVars>>

-----------------------------------------------------------------------------
(* Approved work. *)

\* GET /agent/actions: ExecutorActions for the authenticated agent.
ListReply ==
  /\ Goto("list", "work")
  /\ InTime
  /\ AuthenticateTx(credential.id, credential.token, "EXECUTOR")
  /\ listed' = {a \in Actions :
       /\ actions[a].state = "APPROVED"
       /\ plans[a].executor = Executor
       /\ plans[a].executorGeneration = agents[Executor].generation
       /\ plans[a].epoch = agents[Executor].epoch
       /\ plans[a].expiresAt > now
       /\ actions[a].approvalExpiresAt > now}
  /\ UNCHANGED <<credential, bootFile, journal, cur, resume, ticket, outcome, deadline, faults>>
  /\ UNCHANGED <<fleetVars, executionVars, lateVars, clusterVars>>

ListRefused ==
  /\ Goto("list", "down")
  /\ ~AuthenticateTx(credential.id, credential.token, "EXECUTOR")
  /\ UNCHANGED <<credential, bootFile, journal, listed, cur, resume, ticket, outcome, deadline, faults>>
  /\ UNCHANGED <<fleetVars, executionVars, lateVars, clusterVars>>

\* validate: the plan, the approval and the credential are in force and the live
\* Pod is the unhealthy one the plan pins.  It fails on any error besides.
Validated(a) ==
  LET p == plans[a] IN
  /\ InTime
  /\ p.executor = credential.id
  /\ p.executorGeneration = credential.generation
  /\ p.epoch = credential.epoch
  /\ p.expiresAt > now
  /\ ValidCredential
  /\ actions[a].approvalExpiresAt > now
  /\ pods[p.item].version = p.target
  /\ pods[p.item].unhealthy

\* An attempt on record, an expired approval or a failed validate skips the action.
Skip(a) ==
  /\ pc = "work"
  /\ a \in listed
  /\ listed' = listed \ {a}
  /\ UNCHANGED <<pc, credential, bootFile, journal, cur, resume, ticket, outcome, deadline, faults>>
  /\ UNCHANGED <<fleetVars, executionVars, lateVars, clusterVars>>

ClaimSend(a) ==
  /\ Goto("work", "claim")
  /\ a \in listed \ Journaled
  /\ Validated(a)
  /\ Cardinality(Journaled) < JournalMax
  /\ cur' = a
  /\ listed' = listed \ {a}
  /\ UNCHANGED <<credential, bootFile, journal, resume, ticket, outcome, deadline, faults>>
  /\ UNCHANGED <<fleetVars, executionVars, lateVars, clusterVars>>

JournalFull(a) ==
  /\ Goto("work", "down")
  /\ a \in listed \ Journaled
  /\ Validated(a)
  /\ Cardinality(Journaled) >= JournalMax
  /\ UNCHANGED <<credential, bootFile, journal, listed, cur, resume, ticket, outcome, deadline, faults>>
  /\ UNCHANGED <<fleetVars, executionVars, lateVars, clusterVars>>

PollEnd ==
  /\ Goto("work", "idle")
  /\ listed = {}
  /\ UNCHANGED <<credential, bootFile, journal, listed, cur, resume, ticket, outcome, deadline, faults>>
  /\ UNCHANGED <<fleetVars, executionVars, lateVars, clusterVars>>

ClaimReply ==
  /\ Goto("claim", "journal")
  /\ InTime
  /\ Claim(credential, cur)
  /\ ticket' = receipts'
  /\ UNCHANGED <<credential, bootFile, journal, listed, cur, resume, outcome, deadline, faults>>
  /\ UNCHANGED <<fleetVars, lateVars, clusterVars>>

ClaimRefused ==
  /\ Goto("claim", "down")
  /\ ~MayClaim(credential, cur)
  /\ UNCHANGED <<credential, bootFile, journal, listed, cur, resume, ticket, outcome, deadline, faults>>
  /\ UNCHANGED <<fleetVars, executionVars, lateVars, clusterVars>>

\* Fault: the attempt starts out with the outcome of a failed precondition.
JournalClaimPessimistic ==
  /\ Goto("journal", "check")
  /\ journal' = [journal EXCEPT ![cur] =
       [token |-> ticket, outcome |-> "PRECONDITION_FAILED", acknowledged |-> FALSE]]
  /\ UNCHANGED <<credential, bootFile, listed, cur, resume, ticket, outcome, deadline, faults>>
  /\ UNCHANGED <<fleetVars, executionVars, lateVars, clusterVars>>

\* Fault: the attempt is kept in memory only.
JournalClaimUnsaved ==
  /\ Goto("journal", "check")
  /\ UNCHANGED <<credential, bootFile, journal, listed, cur, resume, ticket, outcome, deadline, faults>>
  /\ UNCHANGED <<fleetVars, executionVars, lateVars, clusterVars>>

\* The attempt is on disk, with an uncertain outcome, before anything is mutated.
JournalClaim ==
  /\ Goto("journal", "check")
  /\ journal' = [journal EXCEPT ![cur] =
       [token |-> ticket, outcome |-> "AMBIGUOUS", acknowledged |-> FALSE]]
  /\ UNCHANGED <<credential, bootFile, listed, cur, resume, ticket, outcome, deadline, faults>>
  /\ UNCHANGED <<fleetVars, executionVars, lateVars, clusterVars>>

\* validate again, then a dry-run delete with the target's UID and resource version.
CheckPasses ==
  /\ Goto("check", "recheck")
  /\ Validated(cur)
  /\ UNCHANGED <<credential, bootFile, journal, listed, cur, resume, ticket, outcome, deadline, faults>>
  /\ UNCHANGED <<fleetVars, executionVars, lateVars, clusterVars>>

\* validate fails (PRECONDITION_FAILED) or the dry run does.
CheckFails(o) ==
  /\ Goto("check", "record")
  /\ o \in {"PRECONDITION_FAILED", "DENIED"}
  /\ outcome' = o
  /\ UNCHANGED <<credential, bootFile, journal, listed, cur, resume, ticket, deadline, faults>>
  /\ UNCHANGED <<fleetVars, executionVars, lateVars, clusterVars>>

\* The dry run takes time: validate once more before the real write.
RecheckPasses ==
  /\ Goto("recheck", "delete")
  /\ Validated(cur)
  /\ UNCHANGED <<credential, bootFile, journal, listed, cur, resume, ticket, outcome, deadline, faults>>
  /\ UNCHANGED <<fleetVars, executionVars, lateVars, clusterVars>>

RecheckFails ==
  /\ Goto("recheck", "record")
  /\ outcome' = "PRECONDITION_FAILED"
  /\ UNCHANGED <<credential, bootFile, journal, listed, cur, resume, ticket, deadline, faults>>
  /\ UNCHANGED <<fleetVars, executionVars, lateVars, clusterVars>>

\* The API server deletes the Pod a's plan pins, if that is still the live one;
\* its controller creates a healthy replacement.
PodDeleted(a) ==
  LET e == plans[a].item IN
  /\ pods[e].version = plans[a].target
  /\ pods' = [pods EXCEPT ![e] = [version |-> @.version + 1, unhealthy |-> FALSE]]
  /\ effect' = [effect EXCEPT ![a] = TRUE]

Issue == issued' = [issued EXCEPT ![cur] = @ + 1]

DeleteApplied ==
  /\ Goto("delete", "record")
  /\ InTime
  /\ Issue
  /\ PodDeleted(cur)
  /\ outcome' = "APPLIED"
  /\ UNCHANGED <<credential, bootFile, journal, listed, cur, resume, ticket, deadline, faults>>
  /\ UNCHANGED <<fleetVars, executionVars, lateVars, sick>>

\* The API server refuses: the Pod changed, or deletion is not allowed.
DeleteRefused(o) ==
  /\ Goto("delete", "record")
  /\ InTime
  /\ Issue
  /\ o \in {"PRECONDITION_FAILED", "DENIED"}
  /\ outcome' = o
  /\ UNCHANGED <<credential, bootFile, journal, listed, cur, resume, ticket, deadline, faults>>
  /\ UNCHANGED <<fleetVars, executionVars, lateVars, pods, sick, effect>>

\* Fault: a call that got no answer is repeated.
DeleteUnknownRetried ==
  /\ pc = "delete" /\ UNCHANGED pc
  /\ InTime
  /\ faults < MaxFaults
  /\ faults' = faults + 1
  /\ Issue
  /\ lateDeletes' = lateDeletes \cup {cur}
  /\ UNCHANGED <<credential, bootFile, journal, listed, cur, resume, ticket, outcome, deadline>>
  /\ UNCHANGED <<fleetVars, executionVars, lateClaims, lateReceipts, lateEnrolls, lateRenewals, pods, sick, effect>>

\* The call fails without a verdict; it may still take effect.
DeleteUnknown ==
  /\ Goto("delete", "record")
  /\ InTime
  /\ faults < MaxFaults
  /\ faults' = faults + 1
  /\ Issue
  /\ lateDeletes' = lateDeletes \cup {cur}
  /\ outcome' = "AMBIGUOUS"
  /\ UNCHANGED <<credential, bootFile, journal, listed, cur, resume, ticket, deadline>>
  /\ UNCHANGED <<fleetVars, executionVars, lateClaims, lateReceipts, lateEnrolls, lateRenewals, pods, sick, effect>>

\* The context expired: the call is not made and its error proves nothing.
DeleteExpired ==
  /\ Goto("delete", "record")
  /\ ~InTime
  /\ outcome' = "AMBIGUOUS"
  /\ UNCHANGED <<credential, bootFile, journal, listed, cur, resume, ticket, deadline, faults>>
  /\ UNCHANGED <<fleetVars, executionVars, lateVars, clusterVars>>

\* The outcome is on disk before its receipt is sent.
Record ==
  /\ Goto("record", "receipt")
  /\ journal' = [journal EXCEPT ![cur].outcome = outcome]
  /\ resume' = "work"
  /\ UNCHANGED <<credential, bootFile, listed, cur, ticket, outcome, deadline, faults>>
  /\ UNCHANGED <<fleetVars, executionVars, lateVars, clusterVars>>

-----------------------------------------------------------------------------
(* Failures. *)

\* The context of Poll expires while it waits for the orchestrator.
TimedOut ==
  /\ pc \in {"receipt", "authorize", "list", "claim"}
  /\ pc' = "down"
  /\ ~InTime
  /\ UNCHANGED <<credential, bootFile, journal, listed, cur, resume, ticket, outcome, deadline, faults>>
  /\ UNCHANGED <<fleetVars, executionVars, lateVars, clusterVars>>

\* The process ends: a crash, a failed write, or a call that got no answer.  The
\* call it was waiting for, if any, may be under way.
Stopped ==
  /\ pc # "down"
  /\ faults < MaxFaults
  /\ faults' = faults + 1
  /\ pc' = "down"
  /\ UNCHANGED <<credential, bootFile, journal, listed, cur, resume, ticket, outcome, deadline>>
  /\ UNCHANGED <<fleetVars, executionVars, clusterVars>>

Stop == Stopped /\ UNCHANGED lateVars

StopInClaim ==
  /\ pc = "claim"
  /\ Stopped
  /\ lateClaims' = lateClaims \cup {[action |-> cur, credential |-> credential]}
  /\ UNCHANGED <<lateReceipts, lateEnrolls, lateRenewals, lateDeletes>>

StopInReceipt ==
  /\ pc = "receipt"
  /\ Stopped
  /\ lateReceipts' = lateReceipts \cup
       {[action |-> cur, credential |-> credential, token |-> journal[cur].token,
         outcome |-> journal[cur].outcome]}
  /\ UNCHANGED <<lateClaims, lateEnrolls, lateRenewals, lateDeletes>>

StopInEnroll ==
  /\ pc = "authorize"
  /\ credential.token = 0
  /\ Stopped
  /\ lateEnrolls' = lateEnrolls \cup {bootFile}
  /\ UNCHANGED <<lateClaims, lateReceipts, lateRenewals, lateDeletes>>

StopInRenewal ==
  /\ pc = "authorize"
  /\ ValidCredential /\ NeedsRenewal
  /\ Stopped
  /\ lateRenewals' = lateRenewals \cup {credential}
  /\ UNCHANGED <<lateClaims, lateReceipts, lateEnrolls, lateDeletes>>

\* A late call arrives, and nobody reads its answer.
LateClaim(m) ==
  /\ m \in lateClaims
  /\ Claim(m.credential, m.action)
  /\ lateClaims' = lateClaims \ {m}
  /\ UNCHANGED <<fleetVars, executorVars, lateReceipts, lateEnrolls, lateRenewals, lateDeletes, clusterVars>>

LateReceipt(m) ==
  /\ m \in lateReceipts
  /\ Receipt(m.credential, m.action, m.token, m.outcome)
  /\ lateReceipts' = lateReceipts \ {m}
  /\ UNCHANGED <<fleetVars, executorVars, lateClaims, lateEnrolls, lateRenewals, lateDeletes, clusterVars>>

LateEnroll(b) ==
  /\ b \in bootstraps /\ b.token \in lateEnrolls /\ b.id = Executor
  /\ Enroll(b, b.uid, "EXECUTOR")
  /\ lateEnrolls' = lateEnrolls \ {b.token}
  /\ UNCHANGED <<executionVars, executorVars, lateClaims, lateReceipts, lateRenewals, lateDeletes, clusterVars>>

LateRenewal(c) ==
  /\ c \in lateRenewals
  /\ Renew(c, "EXECUTOR")
  /\ lateRenewals' = lateRenewals \ {c}
  /\ UNCHANGED <<executionVars, executorVars, lateClaims, lateReceipts, lateEnrolls, lateDeletes, clusterVars>>

LateDelete(a) ==
  /\ a \in lateDeletes
  /\ PodDeleted(a)
  /\ lateDeletes' = lateDeletes \ {a}
  /\ UNCHANGED <<fleetVars, executionVars, executorVars, lateClaims, lateReceipts, lateEnrolls, lateRenewals, sick, issued>>

-----------------------------------------------------------------------------
(* The cluster and the people around it. *)

\* The Pod's status changes, or it is replaced: a new resource version.
PodChanges(e, u) ==
  /\ pods[e].version < MaxTarget
  /\ pods' = [pods EXCEPT ![e] = [version |-> @.version + 1, unhealthy |-> u]]
  /\ sick' = [sick EXCEPT ![e] = IF u THEN @ \cup {pods[e].version + 1} ELSE @]
  /\ UNCHANGED <<fleetVars, executionVars, executorVars, lateVars, issued, effect>>

\* The collector reports what a scan found, perhaps some time ago.
Report(c, e) ==
  /\ \E t \in sick[e] : Observe(c, e, t)
  /\ UNCHANGED <<fleetVars, executorVars, lateVars, clusterVars>>

\* An administrator enrols the executor again: the agent is stopped, its credential
\* file is taken away and the Secret gets a new bootstrap token.
Reenroll(uid) ==
  /\ pc = "down"
  /\ Bootstrap(Executor, uid, "EXECUTOR")
  /\ credential' = NoCredential
  /\ bootFile' = tokens'
  /\ UNCHANGED <<pc, journal, listed, cur, resume, ticket, outcome, deadline, faults>>
  /\ UNCHANGED <<executionVars, lateVars, clusterVars>>

\* Agents other than the executor, the administrators and the clock.
FleetStep ==
  \/ \E i \in AgentIds \ {Executor}, uid \in ClusterUIDs : Bootstrap(i, uid, "COLLECTOR")
  \/ \E b \in bootstraps : b.id # Executor /\ Enroll(b, b.uid, b.role)
  \/ \E c \in credentials : c.id # Executor /\ Renew(c, c.role)
  \/ \E i \in AgentIds : Revoke(i)
  \/ RotateEpoch
  \/ Tick

WorldNext ==
  \/ \E c \in credentials, e \in Items : Report(c, e)
  \/ \E e \in Items, u \in BOOLEAN : PodChanges(e, u)
  \/ \E uid \in ClusterUIDs : Reenroll(uid)
  \/ \E m \in lateClaims : LateClaim(m)
  \/ \E m \in lateReceipts : LateReceipt(m)
  \/ \E b \in bootstraps : LateEnroll(b)
  \/ \E c \in lateRenewals : LateRenewal(c)
  \/ \E a \in lateDeletes : LateDelete(a)

EnvironmentNext ==
  \/ FleetStep /\ UNCHANGED <<executionVars, executorVars, lateVars, clusterVars>>
  \/ PeopleNext /\ UNCHANGED <<fleetVars, executorVars, lateVars, clusterVars>>
  \/ WorldNext

\* One step of the executor's process that is not a failure.
PollNext ==
  \/ Start
  \/ PollBegin
  \/ \E a \in Actions : FlushSend(a)
  \/ FlushRejected
  \/ \E gone \in SUBSET Actions : FlushDone(gone)
  \/ ReceiptRecorded \/ ReceiptAcknowledged \/ ReceiptRefused
  \/ \E b \in bootstraps : EnrollReply(b)
  \/ RenewReply \/ Authorized \/ AuthorizeRefused
  \/ ListReply \/ ListRefused
  \/ \E a \in Actions : Skip(a) \/ ClaimSend(a) \/ JournalFull(a)
  \/ PollEnd
  \/ ClaimReply \/ ClaimRefused
  \/ JournalClaim
  \/ CheckPasses \/ \E o \in Outcomes : CheckFails(o)
  \/ RecheckPasses \/ RecheckFails
  \/ DeleteApplied \/ (\E o \in Outcomes : DeleteRefused(o)) \/ DeleteExpired
  \/ Record
  \/ TimedOut

FailureNext == Stop \/ StopInClaim \/ StopInReceipt \/ StopInEnroll \/ StopInRenewal \/ DeleteUnknown

Next == PollNext \/ FailureNext \/ EnvironmentNext

Spec == Init /\ [][Next]_vars

\* The container is restarted and Run keeps polling, so the process takes its next
\* step unless it is stopped first; the network answers a call it can answer.
FairSpec == Spec /\ WF_vars(PollNext)

-----------------------------------------------------------------------------
Steps == {"down", "idle", "flush", "receipt", "authorize", "list", "work", "claim", "journal",
          "check", "recheck", "delete", "record"}

GovernedTypeOK ==
  /\ pc \in Steps
  /\ credential \in Credential
  /\ bootFile \in Nat
  /\ journal \in [Actions -> Attempt]
  /\ listed \subseteq Actions
  /\ cur \in Actions
  /\ resume \in {"flush", "work"}
  /\ ticket \in Nat
  /\ outcome \in Outcomes
  /\ deadline \in Nat
  /\ faults \in Nat
  /\ lateClaims \subseteq [action : Actions, credential : Credential]
  /\ lateReceipts \subseteq [action : Actions, credential : Credential, token : Nat, outcome : Outcomes]
  /\ lateEnrolls \subseteq Nat
  /\ lateRenewals \subseteq Credential
  /\ lateDeletes \subseteq Actions
  /\ pods \in [Items -> [version : Nat, unhealthy : BOOLEAN]]
  /\ sick \in [Items -> SUBSET Nat]
  /\ issued \in [Actions -> Nat]
  /\ effect \in [Actions -> BOOLEAN]

TypeOK == FleetTypeOK /\ ExecutionTypeOK /\ GovernedTypeOK

\* However the executor crashes, restarts, times out and polls again, and whatever
\* late calls arrive, the real delete is sent at most once per approved action:
\* "a crash at any subsequent point is never replayed".
DeletedAtMostOnce == \A a \in Actions : issued[a] <= 1

\* What the orchestrator records is true: APPLIED only for an action that deleted
\* its Pod, FAILED only for one that did not and has no delete under way.
RecordedOutcomeIsTrue ==
  \A a \in Actions :
    /\ actions[a].state = "APPLIED" => effect[a]
    /\ actions[a].state = "FAILED" => ~effect[a] /\ a \notin lateDeletes

\* A delete whose outcome the orchestrator does not know yet has an attempt on the
\* executor's disk with the receipt token that reports it: neither a crash nor the
\* compaction of the journal loses it.
UncertaintyIsJournaled ==
  \A a \in Actions :
    issued[a] > 0 /\ actions[a].state = "SUBMITTED" =>
      a \in Unacknowledged /\ journal[a].token = actions[a].receipt

\* Two actions that pin the same Pod at the same resource version, approved from
\* the same evidence, never both delete a Pod.
OneReplacementPerPod ==
  \A a, b \in Actions :
    /\ effect[a] /\ effect[b]
    /\ plans[a].item = plans[b].item /\ plans[a].target = plans[b].target
    => a = b

\* Only an unhealthy Pod, the one at the resource version the owner approved, is
\* deleted, although its health is read before the delete is sent and the delete
\* may arrive much later.
OnlyUnhealthyDeleted ==
  [][\A a \in Actions :
       ~effect[a] /\ effect'[a] =>
         /\ pods[plans[a].item].unhealthy
         /\ pods[plans[a].item].version = plans[a].target]_vars

\* Once an owner has recorded an action as AMBIGUOUS the executor sends no delete
\* for it: the deadline of Poll is no longer than the wait before Reconcile.
NoDeleteAfterReconcile ==
  [][\A a \in Actions : actions[a].reconciled => issued'[a] = issued[a]]_vars

\* The detailed system keeps the promise of GovernedAction.
Promise == INSTANCE GovernedAction WITH status <- [a \in Actions |-> actions[a].state]

KeepsPromise == Promise!Spec

\* The executor's credential is one the orchestrator accepts.
Accepted == AuthenticateTx(credential.id, credential.token, "EXECUTOR")

\* An attempt that was not acknowledged is acknowledged in the end unless the
\* executor's credential stops being accepted first: rotating the credential
\* never strands the receipts of the previous generation.
ReceiptsAreFlushed ==
  \A a \in Actions : a \in Unacknowledged ~> (a \notin Unacknowledged \/ ~Accepted)

\* The executor was stopped, its credential file taken away and its Secret given a
\* bootstrap token the orchestrator would accept.
Reenrolling ==
  /\ credential.token = 0
  /\ tokens < MaxTokens
  /\ \E b \in bootstraps : b.token = bootFile /\ Consumable(b, b.uid, "EXECUTOR")

\* The documented procedure works: an executor that is enrolled again, with its
\* journal preserved, gets a credential while its bootstrap is good.
ReenrollmentRecovers == Reenrolling ~> ~Reenrolling
=============================================================================
