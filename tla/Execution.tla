----------------------------- MODULE Execution -----------------------------
(***************************************************************************)
(* The governed action at the orchestrator: pkg/execution (Propose,        *)
(* Approve, Claim, Receipt, Cancel, Reconcile) over the actions and items  *)
(* tables of pkg/storage/postgres, with the agents of Fleet.               *)
(*                                                                         *)
(* The only kind of action is REPLACE_POD.  Each operation is one          *)
(* transaction under the scope's advisory lock, hence one atomic action;   *)
(* a call that returns an error changes nothing.  The principals and their *)
(* permissions are the environment: any engineer may call at any time.     *)
(***************************************************************************)
EXTENDS Fleet, Sequences

CONSTANTS
  Actions,         \* identifiers NewID may draw for plans
  Items,           \* evidence identifiers: one unhealthy Pod finding each
  PlanTTL,         \* 5 minutes: longest life of a plan
  EvidenceTTL,     \* how long an observation stays valid
  ApprovalTTL,     \* longest remaining life of an approver's session
  ReconcileAfter,  \* 120 seconds without a receipt
  MaxEvidence,     \* bound on the versions of an evidence item
  MaxTarget,       \* bound on Pod resource versions
  MaxPolicy        \* bound on policy versions

ASSUME ExecutionAssumption ==
  /\ AgentIds # {} /\ Actions # {} /\ Items # {}
  /\ {PlanTTL, EvidenceTTL, ApprovalTTL, ReconcileAfter} \subseteq Nat \ {0}
  /\ {MaxEvidence, MaxTarget, MaxPolicy} \subseteq Nat

VARIABLES
  policy,    \* version of the authorization policy in force
  evidence,  \* latest version of each evidence item, with its eligibility row
  plans,     \* the immutable plan in each action's envelope
  actions,   \* the rest of the action row: state, version and what each step adds
  events,    \* action_events and the ACTION_UPDATED outbox rows: the states saved
  receipts   \* how many receipt tokens Claim has drawn

executionVars == <<policy, evidence, plans, actions, events, receipts>>

Outcomes == {"APPLIED", "PRECONDITION_FAILED", "DENIED", "AMBIGUOUS"}
Open == {"PROPOSED", "APPROVED", "SUBMITTED"}
Terminal == {"APPLIED", "FAILED", "AMBIGUOUS", "CANCELLED"}
States == {"NONE"} \cup Open \cup Terminal

ItemRow == [version : Nat, validUntil : Nat, quarantined : BOOLEAN, source : AgentIds,
            generation : Nat, epoch : Nat, target : Nat]

Plan == [item : Items, itemVersion : Nat, target : Nat, source : AgentIds,
         sourceGeneration : Nat, executor : AgentIds, executorGeneration : Nat,
         epoch : Nat, policy : Nat, expiresAt : Nat]

ActionRow == [state : States, version : Nat, approvalExpiresAt : Nat, submittedAt : Nat,
              receipt : Nat, outcome : Outcomes \cup {""}, reconciled : BOOLEAN]

NoItem == [version |-> 0, validUntil |-> 0, quarantined |-> FALSE,
           source |-> CHOOSE i \in AgentIds : TRUE, generation |-> 0, epoch |-> 0, target |-> 0]

NoPlan == [item |-> CHOOSE e \in Items : TRUE, itemVersion |-> 0, target |-> 0,
           source |-> CHOOSE i \in AgentIds : TRUE, sourceGeneration |-> 0,
           executor |-> CHOOSE i \in AgentIds : TRUE, executorGeneration |-> 0,
           epoch |-> 0, policy |-> 0, expiresAt |-> 0]

NoAction == [state |-> "NONE", version |-> 0, approvalExpiresAt |-> 0, submittedAt |-> 0,
             receipt |-> 0, outcome |-> "", reconciled |-> FALSE]

ExecutionInit ==
  /\ policy = 1
  /\ evidence = [e \in Items |-> NoItem]
  /\ plans = [a \in Actions |-> NoPlan]
  /\ actions = [a \in Actions |-> NoAction]
  /\ events = [a \in Actions |-> <<>>]
  /\ receipts = 0

-----------------------------------------------------------------------------
(* Evidence, as pkg/execution reads it. *)

\* Ingest: an authenticated collector reports the finding for the Pod at resource
\* version t; the item gets a new version, which starts out not quarantined.
Observe(c, e, t) ==
  /\ c \in credentials
  /\ AuthenticateTx(c.id, c.token, "COLLECTOR")
  /\ evidence[e].version < MaxEvidence
  /\ evidence' = [evidence EXCEPT ![e] =
       [version |-> @.version + 1, validUntil |-> now + EvidenceTTL, quarantined |-> FALSE,
        source |-> c.id, generation |-> agents[c.id].generation, epoch |-> agents[c.id].epoch,
        target |-> t]]
  /\ UNCHANGED <<policy, plans, actions, events, receipts>>

\* Quarantine: a dispute, or the dispute of an ancestor, makes the item ineligible.
Quarantine(e) ==
  /\ evidence[e].version # 0
  /\ evidence' = [evidence EXCEPT ![e].quarantined = TRUE]
  /\ UNCHANGED <<policy, plans, actions, events, receipts>>

\* Fault: the source may have been enrolled again since the observation.
EligibleAnyGeneration(e) ==
  LET i == evidence[e] IN
  /\ i.version # 0
  /\ ~i.quarantined
  /\ i.validUntil > now
  /\ agents[i.source].epoch = i.epoch
  /\ agents[i.source].epoch = epoch
  /\ agents[i.source].role = "COLLECTOR"
  /\ ~agents[i.source].revoked
  /\ agents[i.source].expiresAt > now

\* Eligible: not quarantined, fresh, and reported by a collector whose row is
\* still the one that reported it and is not covered by a revocation.
Eligible(e) ==
  LET i == evidence[e] IN
  /\ i.version # 0
  /\ ~i.quarantined
  /\ i.validUntil > now
  /\ agents[i.source].generation = i.generation
  /\ agents[i.source].epoch = i.epoch
  /\ agents[i.source].epoch = epoch
  /\ agents[i.source].role = "COLLECTOR"
  /\ ~agents[i.source].revoked
  /\ agents[i.source].expiresAt > now
  /\ ~\E r \in revocations :
        r.id = i.source /\ r.epoch = i.epoch /\ r.through >= i.generation

\* The executor a plan may name: enrolled, in force, and in the given cluster.
UsableExecutor(x, uid) ==
  /\ agents[x].generation # 0
  /\ agents[x].role = "EXECUTOR"
  /\ ~agents[x].revoked
  /\ agents[x].epoch = epoch
  /\ agents[x].expiresAt > now
  /\ agents[x].uid = uid

Least(S) == CHOOSE n \in S : \A m \in S : n <= m

\* SaveAction and enqueue: write the row, and log its new state.
SaveAction(a, row) ==
  /\ actions' = [actions EXCEPT ![a] = row]
  /\ events' = [events EXCEPT ![a] = Append(@, row.state)]

-----------------------------------------------------------------------------
(* The operations of execution.Service. *)

Propose(a, e, x) ==
  /\ actions[a].state = "NONE"
  /\ Eligible(e)
  /\ UsableExecutor(x, agents[evidence[e].source].uid)
  /\ plans' = [plans EXCEPT ![a] =
       [item |-> e, itemVersion |-> evidence[e].version, target |-> evidence[e].target,
        source |-> evidence[e].source, sourceGeneration |-> evidence[e].generation,
        executor |-> x, executorGeneration |-> agents[x].generation,
        epoch |-> epoch, policy |-> policy,
        expiresAt |-> Least({now + PlanTTL, evidence[e].validUntil,
                             agents[evidence[e].source].expiresAt, agents[x].expiresAt})]]
  /\ SaveAction(a, [NoAction EXCEPT !.state = "PROPOSED", !.version = 1])
  /\ UNCHANGED <<policy, evidence, receipts>>

\* current: nothing the plan was proposed from has changed since.
Current(a) ==
  LET p == plans[a] IN
  /\ p.epoch = epoch
  /\ p.policy = policy
  /\ p.expiresAt > now
  /\ Eligible(p.item)
  /\ evidence[p.item].version = p.itemVersion
  /\ ~agents[p.executor].revoked
  /\ agents[p.executor].role = "EXECUTOR"
  /\ agents[p.executor].epoch = p.epoch
  /\ agents[p.executor].generation = p.executorGeneration
  /\ agents[p.executor].expiresAt > now

\* Approve: the approval lasts as long as the approver's session, until t.
Approve(a, t) ==
  /\ actions[a].state = "PROPOSED"
  /\ Current(a)
  /\ SaveAction(a, [actions[a] EXCEPT !.state = "APPROVED", !.version = @ + 1,
                                      !.approvalExpiresAt = t])
  /\ UNCHANGED <<policy, evidence, plans, receipts>>

\* The checks of Claim.
MayClaim(c, a) ==
  /\ AuthenticateTx(c.id, c.token, "EXECUTOR")
  /\ actions[a].state = "APPROVED"
  /\ actions[a].approvalExpiresAt > now
  /\ plans[a].executor = c.id
  /\ plans[a].executorGeneration = agents[c.id].generation
  /\ Current(a)

\* Claim: the action is submitted and its executor gets a fresh receipt token.
Claim(c, a) ==
  /\ MayClaim(c, a)
  /\ receipts' = receipts + 1
  /\ SaveAction(a, [actions[a] EXCEPT !.state = "SUBMITTED", !.version = @ + 1,
                                      !.submittedAt = now, !.receipt = receipts + 1])
  /\ UNCHANGED <<policy, evidence, plans>>

\* Fault: any generation of the plan's executor may report the outcome.
ReceivableAnyGeneration(c, a, r) ==
  /\ AuthenticateTx(c.id, c.token, "EXECUTOR")
  /\ plans[a].executor = c.id
  /\ r # 0
  /\ actions[a].receipt = r

\* The caller holds the receipt token and is the agent generation of the plan.
Receivable(c, a, r) ==
  /\ AuthenticateTx(c.id, c.token, "EXECUTOR")
  /\ plans[a].executor = c.id
  /\ plans[a].executorGeneration = agents[c.id].generation
  /\ r # 0
  /\ actions[a].receipt = r

\* Receipt on an action that is no longer submitted: acknowledged without a
\* change when the outcome is the recorded one or an owner has reconciled it.
Acknowledges(a, o) ==
  /\ actions[a].state # "SUBMITTED"
  /\ \/ actions[a].outcome = o
     \/ actions[a].state = "AMBIGUOUS" /\ actions[a].outcome = "AMBIGUOUS" /\ actions[a].reconciled

OutcomeState(o) == IF o \in {"APPLIED", "AMBIGUOUS"} THEN o ELSE "FAILED"

\* Receipt: the first outcome of a submitted action is recorded.
Receipt(c, a, r, o) ==
  /\ Receivable(c, a, r)
  /\ actions[a].state = "SUBMITTED"
  /\ SaveAction(a, [actions[a] EXCEPT !.state = OutcomeState(o), !.version = @ + 1,
                                      !.outcome = o])
  /\ UNCHANGED <<policy, evidence, plans, receipts>>

\* Cancel: an approver withdraws an action that was not submitted.
Cancel(a) ==
  /\ actions[a].state \in {"PROPOSED", "APPROVED"}
  /\ SaveAction(a, [actions[a] EXCEPT !.state = "CANCELLED", !.version = @ + 1, !.receipt = 0])
  /\ UNCHANGED <<policy, evidence, plans, receipts>>

\* Fault: an owner need not wait for the receipt.
ReconcileAtOnce(a) ==
  /\ actions[a].state = "SUBMITTED"
  /\ SaveAction(a, [actions[a] EXCEPT !.state = "AMBIGUOUS", !.version = @ + 1,
                                      !.outcome = "AMBIGUOUS", !.reconciled = TRUE])
  /\ UNCHANGED <<policy, evidence, plans, receipts>>

\* Reconcile: an owner records that the outcome of a submitted action is unknown.
Reconcile(a) ==
  /\ actions[a].state = "SUBMITTED"
  /\ actions[a].submittedAt + ReconcileAfter <= now
  /\ SaveAction(a, [actions[a] EXCEPT !.state = "AMBIGUOUS", !.version = @ + 1,
                                      !.outcome = "AMBIGUOUS", !.reconciled = TRUE])
  /\ UNCHANGED <<policy, evidence, plans, receipts>>

\* The operator deploys another authorization policy.
ChangePolicy ==
  /\ policy < MaxPolicy
  /\ policy' = policy + 1
  /\ UNCHANGED <<evidence, plans, actions, events, receipts>>

\* What engineers and operators do to the actions and the evidence.
PeopleNext ==
  \/ \E a \in Actions, e \in Items, x \in AgentIds : Propose(a, e, x)
  \/ \E a \in Actions, t \in (now + 1)..(now + ApprovalTTL) : Approve(a, t)
  \/ \E a \in Actions : Cancel(a)
  \/ \E a \in Actions : Reconcile(a)
  \/ \E e \in Items : Quarantine(e)
  \/ ChangePolicy

\* What agents may ask of the orchestrator, with any credential and receipt token
\* that was ever issued.
AgentNext ==
  \/ \E c \in credentials, e \in Items, t \in 0..MaxTarget : Observe(c, e, t)
  \/ \E c \in credentials, a \in Actions : Claim(c, a)
  \/ \E c \in credentials, a \in Actions, r \in 1..receipts, o \in Outcomes : Receipt(c, a, r, o)

ExecutionNext ==
  \/ (PeopleNext \/ AgentNext) /\ UNCHANGED fleetVars
  \/ FleetNext /\ UNCHANGED executionVars

ExecutionSpec ==
  FleetInit /\ ExecutionInit /\ [][ExecutionNext]_<<fleetVars, executionVars>>

-----------------------------------------------------------------------------
ExecutionTypeOK ==
  /\ policy \in Nat
  /\ evidence \in [Items -> ItemRow]
  /\ plans \in [Actions -> Plan]
  /\ actions \in [Actions -> ActionRow]
  /\ events \in [Actions -> Seq(States)]
  /\ receipts \in Nat

\* The moves an action may make between two saved states.
Moves ==
  {<<"PROPOSED", "APPROVED">>, <<"PROPOSED", "CANCELLED">>,
   <<"APPROVED", "SUBMITTED">>, <<"APPROVED", "CANCELLED">>}
  \cup ({"SUBMITTED"} \X {"APPLIED", "FAILED", "AMBIGUOUS"})

\* The audit log of every action is complete (one entry per version), starts at
\* PROPOSED and moves only forward: whatever agents, approvers and owners race to
\* call, an action is submitted at most once and concluded at most once.
ForwardTrail ==
  \A a \in Actions :
    LET trail == events[a] IN
    /\ Len(trail) = actions[a].version
    /\ trail # <<>> => trail[1] = "PROPOSED" /\ trail[Len(trail)] = actions[a].state
    /\ \A n \in 1..(Len(trail) - 1) : <<trail[n], trail[n + 1]>> \in Moves

\* A concluded action never changes: a receipt that arrives after an owner
\* reconciled the action, or a reconciliation after a receipt, leaves it alone.
ConcludedIsFinal ==
  [][\A a \in Actions : actions[a].state \in Terminal => actions'[a] = actions[a]]_executionVars

\* When an action is submitted, its executor and the collector whose evidence it
\* rests on are enrolled in the same cluster.  Claim does not compare clusters: it
\* relies on the generations pinned by the plan and by the evidence, so a move of
\* either agent to another cluster between Propose and Claim must stop it.
SubmittedInOneCluster ==
  [][\A a \in Actions :
       actions[a].state = "APPROVED" /\ actions'[a].state = "SUBMITTED" =>
         agents[plans[a].executor].uid = agents[plans[a].source].uid]_executionVars

\* An outcome other than an owner's reconciliation is recorded only while the
\* credential that claimed the action is in force: after a revocation, a renewal,
\* a new enrolment or a new epoch the action can only be reconciled.
OutcomeFromClaimant ==
  [][\A a \in Actions :
       actions[a].state = "SUBMITTED" /\ actions'[a].state # "SUBMITTED" /\ ~actions'[a].reconciled =>
         \E c \in credentials :
           /\ c.id = plans[a].executor
           /\ c.generation = plans[a].executorGeneration
           /\ c.epoch = plans[a].epoch
           /\ AuthenticateTx(c.id, c.token, "EXECUTOR")]_executionVars
=============================================================================
