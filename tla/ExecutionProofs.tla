-------------------------- MODULE ExecutionProofs --------------------------
(***************************************************************************)
(* Theorems about Execution, for every set of actions, items, identities   *)
(* and clusters, every life time and every bound.                          *)
(***************************************************************************)
EXTENDS Execution, FleetProofs

-----------------------------------------------------------------------------
(* What each operation does to the actions table, field by field. *)

\* Only the row of action a is written, and its new state is logged.
Writes(a) ==
  /\ actions' \in [Actions -> ActionRow]
  /\ \A b \in Actions \ {a} : actions'[b] = actions[b]
  /\ events' = [events EXCEPT ![a] = Append(@, actions'[a].state)]

\* Writing a typed row is all that SaveAction does.
LEMMA SaveActionWrites ==
  ASSUME actions \in [Actions -> ActionRow], NEW a \in Actions, NEW row \in ActionRow,
         SaveAction(a, row)
  PROVE  Writes(a) /\ actions'[a] = row
<1>1. actions' = [actions EXCEPT ![a] = row] /\ events' = [events EXCEPT ![a] = Append(@, row.state)]
  BY DEF SaveAction
<1>2. actions'[a] = row /\ actions' \in [Actions -> ActionRow] /\ \A b \in Actions \ {a} : actions'[b] = actions[b]
  BY <1>1
<1> QED
  BY <1>1, <1>2 DEF Writes

\* An outcome is recorded as one of the concluded states.
LEMMA OutcomeStateIsState ==
  \A o \in Outcomes : OutcomeState(o) \in {"APPLIED", "FAILED", "AMBIGUOUS"} /\ OutcomeState(o) \in States
  BY DEF Outcomes, OutcomeState, States, Open, Terminal

\* Approve keeps the receipt token and the reconciliation as they were.
LEMMA ApproveWrites ==
  ASSUME actions \in [Actions -> ActionRow], 
         NEW a \in Actions, NEW t \in Nat, Approve(a, t)
  PROVE  /\ Writes(a)
         /\ actions[a].state \in {"PROPOSED"}
         /\ actions'[a].state = "APPROVED"
         /\ actions'[a].version = actions[a].version + 1
         /\ actions'[a].submittedAt = actions[a].submittedAt
         /\ actions'[a].receipt = actions[a].receipt
         /\ actions'[a].reconciled = actions[a].reconciled
<1> DEFINE row == [actions[a] EXCEPT !.state = "APPROVED", !.version = @ + 1, !.approvalExpiresAt = t]
<1>1. actions[a] \in ActionRow /\ actions[a].version \in Nat
  BY DEF ActionRow
<1>2. row \in ActionRow
  <2>1. ASSUME NEW v \in Nat
        PROVE  [actions[a] EXCEPT !.state = "APPROVED", !.version = v, !.approvalExpiresAt = t] \in ActionRow
    BY <1>1 DEF ActionRow, States, Open, Terminal, Outcomes
  <2>2. actions[a].version + 1 \in Nat
    BY <1>1
  <2> QED
    BY <2>1, <2>2
<1>3. row.state = "APPROVED"
  BY <1>1 DEF ActionRow
<1>4. row.version = actions[a].version + 1
  BY <1>1 DEF ActionRow
<1>5. row.submittedAt = actions[a].submittedAt
  BY <1>1 DEF ActionRow
<1>6. row.receipt = actions[a].receipt
  BY <1>1 DEF ActionRow
<1>7. row.reconciled = actions[a].reconciled
  BY <1>1 DEF ActionRow
<1>8. SaveAction(a, row) /\ actions[a].state \in {"PROPOSED"}
  BY DEF Approve
<1> HIDE DEF row
<1>9. Writes(a) /\ actions'[a] = row
  BY <1>2, <1>8, SaveActionWrites
<1> QED
  BY <1>3, <1>4, <1>5, <1>6, <1>7, <1>8, <1>9

\* Claim submits an approved action with a fresh receipt token.
LEMMA ClaimWrites ==
  ASSUME actions \in [Actions -> ActionRow], now \in Nat, receipts \in Nat,
         NEW c, NEW a \in Actions, Claim(c, a)
  PROVE  /\ Writes(a)
         /\ actions[a].state \in {"APPROVED"}
         /\ actions'[a].state = "SUBMITTED"
         /\ actions'[a].version = actions[a].version + 1
         /\ actions'[a].submittedAt = now
         /\ actions'[a].receipt = receipts + 1
         /\ actions'[a].reconciled = actions[a].reconciled
<1> DEFINE row == [actions[a] EXCEPT !.state = "SUBMITTED", !.version = @ + 1, !.submittedAt = now, !.receipt = receipts + 1]
<1>1. actions[a] \in ActionRow /\ actions[a].version \in Nat
  BY DEF ActionRow
<1>2. row \in ActionRow
  <2>1. ASSUME NEW v \in Nat, NEW r \in Nat
        PROVE  [actions[a] EXCEPT !.state = "SUBMITTED", !.version = v, !.submittedAt = now, !.receipt = r] \in ActionRow
    BY <1>1 DEF ActionRow, States, Open, Terminal, Outcomes
  <2>2. actions[a].version + 1 \in Nat /\ receipts + 1 \in Nat
    BY <1>1
  <2> QED
    BY <2>1, <2>2
<1>3. row.state = "SUBMITTED"
  BY <1>1 DEF ActionRow
<1>4. row.version = actions[a].version + 1
  BY <1>1 DEF ActionRow
<1>5. row.submittedAt = now
  BY <1>1 DEF ActionRow
<1>6. row.receipt = receipts + 1
  BY <1>1 DEF ActionRow
<1>7. row.reconciled = actions[a].reconciled
  BY <1>1 DEF ActionRow
<1>8. SaveAction(a, row) /\ actions[a].state \in {"APPROVED"}
  BY DEF Claim, MayClaim
<1> HIDE DEF row
<1>9. Writes(a) /\ actions'[a] = row
  BY <1>2, <1>8, SaveActionWrites
<1> QED
  BY <1>3, <1>4, <1>5, <1>6, <1>7, <1>8, <1>9

\* Receipt concludes a submitted action.
LEMMA ReceiptWrites ==
  ASSUME actions \in [Actions -> ActionRow], 
         NEW c, NEW a \in Actions, NEW r, NEW o \in Outcomes, Receipt(c, a, r, o)
  PROVE  /\ Writes(a)
         /\ actions[a].state \in {"SUBMITTED"}
         /\ actions'[a].state = OutcomeState(o)
         /\ actions'[a].version = actions[a].version + 1
         /\ actions'[a].outcome = o
         /\ actions'[a].submittedAt = actions[a].submittedAt
         /\ actions'[a].receipt = actions[a].receipt
         /\ actions'[a].reconciled = actions[a].reconciled
<1> DEFINE row == [actions[a] EXCEPT !.state = OutcomeState(o), !.version = @ + 1, !.outcome = o]
<1>1. actions[a] \in ActionRow /\ actions[a].version \in Nat
  BY DEF ActionRow
<1>2. row \in ActionRow
  <2>1. ASSUME NEW v \in Nat, NEW s \in States
        PROVE  [actions[a] EXCEPT !.state = s, !.version = v, !.outcome = o] \in ActionRow
    BY <1>1 DEF ActionRow, States, Open, Terminal, Outcomes
  <2>2. actions[a].version + 1 \in Nat /\ OutcomeState(o) \in States
    BY <1>1, OutcomeStateIsState
  <2> QED
    BY <2>1, <2>2
<1>3. row.state = OutcomeState(o)
  BY <1>1 DEF ActionRow
<1>4. row.version = actions[a].version + 1
  BY <1>1 DEF ActionRow
<1>5. row.outcome = o
  BY <1>1 DEF ActionRow
<1>6. row.submittedAt = actions[a].submittedAt
  BY <1>1 DEF ActionRow
<1>7. row.receipt = actions[a].receipt
  BY <1>1 DEF ActionRow
<1>8. row.reconciled = actions[a].reconciled
  BY <1>1 DEF ActionRow
<1>9. SaveAction(a, row) /\ actions[a].state \in {"SUBMITTED"}
  BY DEF Receipt
<1> HIDE DEF row
<1>10. Writes(a) /\ actions'[a] = row
  BY <1>2, <1>9, SaveActionWrites
<1> QED
  BY <1>3, <1>4, <1>5, <1>6, <1>7, <1>8, <1>9, <1>10

\* Cancel withdraws an action that was not submitted.
LEMMA CancelWrites ==
  ASSUME actions \in [Actions -> ActionRow], 
         NEW a \in Actions, Cancel(a)
  PROVE  /\ Writes(a)
         /\ actions[a].state \in {"PROPOSED", "APPROVED"}
         /\ actions'[a].state = "CANCELLED"
         /\ actions'[a].version = actions[a].version + 1
         /\ actions'[a].submittedAt = actions[a].submittedAt
         /\ actions'[a].reconciled = actions[a].reconciled
<1> DEFINE row == [actions[a] EXCEPT !.state = "CANCELLED", !.version = @ + 1, !.receipt = 0]
<1>1. actions[a] \in ActionRow /\ actions[a].version \in Nat
  BY DEF ActionRow
<1>2. row \in ActionRow
  <2>1. ASSUME NEW v \in Nat
        PROVE  [actions[a] EXCEPT !.state = "CANCELLED", !.version = v, !.receipt = 0] \in ActionRow
    BY <1>1 DEF ActionRow, States, Open, Terminal, Outcomes
  <2>2. actions[a].version + 1 \in Nat
    BY <1>1
  <2> QED
    BY <2>1, <2>2
<1>3. row.state = "CANCELLED"
  BY <1>1 DEF ActionRow
<1>4. row.version = actions[a].version + 1
  BY <1>1 DEF ActionRow
<1>5. row.submittedAt = actions[a].submittedAt
  BY <1>1 DEF ActionRow
<1>6. row.reconciled = actions[a].reconciled
  BY <1>1 DEF ActionRow
<1>7. SaveAction(a, row) /\ actions[a].state \in {"PROPOSED", "APPROVED"}
  BY DEF Cancel
<1> HIDE DEF row
<1>8. Writes(a) /\ actions'[a] = row
  BY <1>2, <1>7, SaveActionWrites
<1> QED
  BY <1>3, <1>4, <1>5, <1>6, <1>7, <1>8

\* Reconcile concludes a submitted action as uncertain.
LEMMA ReconcileWrites ==
  ASSUME actions \in [Actions -> ActionRow], 
         NEW a \in Actions, Reconcile(a)
  PROVE  /\ Writes(a)
         /\ actions[a].state \in {"SUBMITTED"}
         /\ actions'[a].state = "AMBIGUOUS"
         /\ actions'[a].version = actions[a].version + 1
         /\ actions'[a].submittedAt = actions[a].submittedAt
         /\ actions'[a].receipt = actions[a].receipt
         /\ actions'[a].reconciled = TRUE
<1> DEFINE row == [actions[a] EXCEPT !.state = "AMBIGUOUS", !.version = @ + 1, !.outcome = "AMBIGUOUS", !.reconciled = TRUE]
<1>1. actions[a] \in ActionRow /\ actions[a].version \in Nat
  BY DEF ActionRow
<1>2. row \in ActionRow
  <2>1. ASSUME NEW v \in Nat
        PROVE  [actions[a] EXCEPT !.state = "AMBIGUOUS", !.version = v, !.outcome = "AMBIGUOUS", !.reconciled = TRUE] \in ActionRow
    BY <1>1 DEF ActionRow, States, Open, Terminal, Outcomes
  <2>2. actions[a].version + 1 \in Nat
    BY <1>1
  <2> QED
    BY <2>1, <2>2
<1>3. row.state = "AMBIGUOUS"
  BY <1>1 DEF ActionRow
<1>4. row.version = actions[a].version + 1
  BY <1>1 DEF ActionRow
<1>5. row.submittedAt = actions[a].submittedAt
  BY <1>1 DEF ActionRow
<1>6. row.receipt = actions[a].receipt
  BY <1>1 DEF ActionRow
<1>7. row.reconciled = TRUE
  BY <1>1 DEF ActionRow
<1>8. SaveAction(a, row) /\ actions[a].state \in {"SUBMITTED"}
  BY DEF Reconcile
<1> HIDE DEF row
<1>9. Writes(a) /\ actions'[a] = row
  BY <1>2, <1>8, SaveActionWrites
<1> QED
  BY <1>3, <1>4, <1>5, <1>6, <1>7, <1>8, <1>9

\* The earliest of four deadlines is one of them.
LEMMA LeastIsNat ==
  ASSUME NEW p \in Nat, NEW q \in Nat, NEW r \in Nat, NEW s \in Nat
  PROVE  Least({p, q, r, s}) \in Nat
<1>1. \E n \in {p, q, r, s} : \A m \in {p, q, r, s} : n <= m
  OBVIOUS
<1>2. Least({p, q, r, s}) \in {p, q, r, s}
  BY <1>1 DEF Least
<1> QED
  BY <1>2

\* Propose fills in the plan of an unused identifier.
LEMMA ProposeWrites ==
  ASSUME FleetTypeOK, ExecutionTypeOK, NEW a \in Actions, NEW e \in Items, NEW x \in AgentIds,
         Propose(a, e, x)
  PROVE  /\ Writes(a)
         /\ plans' \in [Actions -> Plan]
         /\ \A b \in Actions \ {a} : plans'[b] = plans[b]
         /\ plans'[a].item = e /\ plans'[a].target = evidence[e].target
         /\ evidence[e].version # 0
         /\ actions[a].state = "NONE"
         /\ actions'[a].state = "PROPOSED"
         /\ actions'[a].version = 1
         /\ actions'[a].receipt = 0
         /\ actions'[a].reconciled = FALSE
<1> DEFINE src == evidence[e].source
           until == Least({now + PlanTTL, evidence[e].validUntil, agents[src].expiresAt, agents[x].expiresAt})
           plan == [item |-> e, itemVersion |-> evidence[e].version, target |-> evidence[e].target,
                    source |-> src, sourceGeneration |-> evidence[e].generation,
                    executor |-> x, executorGeneration |-> agents[x].generation,
                    epoch |-> epoch, policy |-> policy, expiresAt |-> until]
           row == [NoAction EXCEPT !.state = "PROPOSED", !.version = 1]
<1>1. /\ now \in Nat /\ epoch \in Nat /\ policy \in Nat /\ evidence[e] \in ItemRow
      /\ actions \in [Actions -> ActionRow] /\ plans \in [Actions -> Plan]
      /\ agents \in [AgentIds -> AgentRow]
  BY DEF FleetTypeOK, ExecutionTypeOK
<1>2. /\ src \in AgentIds /\ evidence[e].validUntil \in Nat /\ evidence[e].version \in Nat
      /\ evidence[e].target \in Nat /\ evidence[e].generation \in Nat
  BY <1>1 DEF ItemRow
<1>3. agents[src] \in AgentRow /\ agents[x] \in AgentRow
  BY <1>1, <1>2
<1>4. agents[src].expiresAt \in Nat /\ agents[x].expiresAt \in Nat /\ agents[x].generation \in Nat
  BY <1>3 DEF AgentRow
<1>5. until \in Nat
  <2>1. now + PlanTTL \in Nat
    BY <1>1, ExecutionAssumption
  <2> QED
    BY <2>1, <1>2, <1>4, LeastIsNat
<1> HIDE DEF until
<1>6. plan \in Plan
  BY <1>1, <1>2, <1>4, <1>5 DEF Plan
<1>7. plan.item = e /\ plan.target = evidence[e].target
  OBVIOUS
<1>8. row \in ActionRow
  BY DEF NoAction, ActionRow, States, Open
<1>9. row.state = "PROPOSED" /\ row.version = 1 /\ row.receipt = 0 /\ row.reconciled = FALSE
  BY DEF NoAction
<1>10. /\ plans' = [plans EXCEPT ![a] = plan] /\ SaveAction(a, row)
       /\ actions[a].state = "NONE" /\ evidence[e].version # 0
  BY DEF Propose, Eligible, until
<1> HIDE DEF plan, row
<1>11. Writes(a) /\ actions'[a] = row
  BY <1>1, <1>8, <1>10, SaveActionWrites
<1>12. plans' \in [Actions -> Plan] /\ plans'[a] = plan /\ \A b \in Actions \ {a} : plans'[b] = plans[b]
  BY <1>1, <1>6, <1>10
<1> QED
  BY <1>7, <1>9, <1>10, <1>11, <1>12

-----------------------------------------------------------------------------
(* Types. *)

\* A fresh installation is typed.
LEMMA ExecutionInitTyped == ExecutionInit => ExecutionTypeOK
<1> SUFFICES ASSUME ExecutionInit PROVE ExecutionTypeOK
  OBVIOUS
<1>1. /\ (CHOOSE i \in AgentIds : TRUE) \in AgentIds
      /\ (CHOOSE e \in Items : TRUE) \in Items
  BY ExecutionAssumption
<1>2. NoItem \in ItemRow
  BY <1>1 DEF NoItem, ItemRow
<1>3. NoPlan \in Plan
  BY <1>1 DEF NoPlan, Plan
<1>4. NoAction \in ActionRow
  BY DEF NoAction, ActionRow, States
<1> QED
  BY <1>2, <1>3, <1>4 DEF ExecutionInit, ExecutionTypeOK

\* Appending a state keeps the log typed.
LEMMA WritesTyped ==
  ASSUME ExecutionTypeOK, NEW a \in Actions, Writes(a)
  PROVE  actions' \in [Actions -> ActionRow] /\ events' \in [Actions -> Seq(States)]
<1>1. actions'[a].state \in States /\ actions' \in [Actions -> ActionRow]
  BY DEF Writes, ActionRow
<1>2. Append(events[a], actions'[a].state) \in Seq(States)
  BY <1>1 DEF ExecutionTypeOK
<1> QED
  BY <1>1, <1>2 DEF Writes, ExecutionTypeOK

\* A report keeps the evidence typed and gives one item its new version.
LEMMA ObserveTyped ==
  ASSUME FleetTypeOK, ExecutionTypeOK, NEW c \in credentials, NEW e \in Items, NEW t \in Nat,
         Observe(c, e, t)
  PROVE  /\ ExecutionTypeOK'
         /\ evidence'[e].target = t
         /\ \A f \in Items \ {e} : evidence'[f] = evidence[f]
         /\ UNCHANGED <<policy, plans, actions, events, receipts>>
<1> DEFINE item == [version |-> evidence[e].version + 1, validUntil |-> now + EvidenceTTL, quarantined |-> FALSE,
                    source |-> c.id, generation |-> agents[c.id].generation, epoch |-> agents[c.id].epoch,
                    target |-> t]
<1>1. /\ evidence \in [Items -> ItemRow] /\ evidence[e] \in ItemRow /\ now \in Nat
      /\ c \in Credential /\ agents \in [AgentIds -> AgentRow]
  BY DEF FleetTypeOK, ExecutionTypeOK
<1>2. c.id \in AgentIds /\ evidence[e].version \in Nat
  BY <1>1 DEF Credential, ItemRow
<1>3. agents[c.id].generation \in Nat /\ agents[c.id].epoch \in Nat
  BY <1>1, <1>2 DEF AgentRow
<1>4. evidence[e].version + 1 \in Nat /\ now + EvidenceTTL \in Nat
  BY <1>1, <1>2, ExecutionAssumption
<1>5. item \in ItemRow /\ item.target = t
  BY <1>2, <1>3, <1>4 DEF ItemRow
<1>6. evidence' = [evidence EXCEPT ![e] = item] /\ UNCHANGED <<policy, plans, actions, events, receipts>>
  BY DEF Observe
<1> HIDE DEF item
<1>7. evidence' \in [Items -> ItemRow] /\ evidence'[e] = item /\ \A f \in Items \ {e} : evidence'[f] = evidence[f]
  BY <1>1, <1>5, <1>6
<1> QED
  BY <1>5, <1>6, <1>7 DEF ExecutionTypeOK

\* A dispute only marks the item.
LEMMA QuarantineTyped ==
  ASSUME ExecutionTypeOK, NEW e \in Items, Quarantine(e)
  PROVE  /\ ExecutionTypeOK'
         /\ \A f \in Items : evidence'[f].target = evidence[f].target /\ evidence'[f].version = evidence[f].version
         /\ UNCHANGED <<policy, plans, actions, events, receipts>>
<1>1. evidence \in [Items -> ItemRow]
  BY DEF ExecutionTypeOK
<1>2. evidence' = [evidence EXCEPT ![e] = [evidence[e] EXCEPT !.quarantined = TRUE]]
  BY <1>1 DEF Quarantine, ItemRow
<1>3. [evidence[e] EXCEPT !.quarantined = TRUE] \in ItemRow
  BY <1>1 DEF ItemRow
<1>4. \A f \in Items : evidence'[f].target = evidence[f].target /\ evidence'[f].version = evidence[f].version
  BY <1>1, <1>2 DEF ItemRow
<1>5. evidence' \in [Items -> ItemRow]
  BY <1>1, <1>2, <1>3
<1> QED
  BY <1>4, <1>5 DEF Quarantine, ExecutionTypeOK

-----------------------------------------------------------------------------
(* The invariant and the theorems of ExecutionSpec. *)

\* An action has a log from its proposal on, and only then.
LoggedOnceProposed ==
  \A a \in Actions : actions[a].state = "NONE" <=> events[a] = <<>>

ExecutionInv == FleetInv /\ ExecutionTypeOK /\ LoggedOnceProposed /\ ForwardTrail

\* One logged move keeps every trail complete and forward.
LEMMA MoveKeepsTrail ==
  ASSUME ExecutionTypeOK, LoggedOnceProposed, ForwardTrail, NEW a \in Actions, Writes(a),
         actions'[a].version = actions[a].version + 1,
         \/ actions[a].state = "NONE" /\ actions'[a].state = "PROPOSED"
         \/ <<actions[a].state, actions'[a].state>> \in Moves
  PROVE  LoggedOnceProposed' /\ ForwardTrail'
<1> DEFINE old == events[a]
           new == Append(old, actions'[a].state)
<1>1. /\ old \in Seq(States) /\ actions'[a].state \in States
      /\ events' \in [Actions -> Seq(States)] /\ events'[a] = new
      /\ \A b \in Actions \ {a} : events'[b] = events[b] /\ actions'[b] = actions[b]
  BY WritesTyped DEF ExecutionTypeOK, Writes, ActionRow
<1>2. /\ Len(old) = actions[a].version
      /\ old # <<>> => old[1] = "PROPOSED" /\ old[Len(old)] = actions[a].state
      /\ \A n \in 1..(Len(old) - 1) : <<old[n], old[n + 1]>> \in Moves
      /\ actions[a].state = "NONE" <=> old = <<>>
  BY DEF ForwardTrail, LoggedOnceProposed
<1>3. /\ Len(new) = Len(old) + 1 /\ new # <<>>
      /\ \A n \in 1..Len(old) : new[n] = old[n]
      /\ new[Len(old) + 1] = actions'[a].state
  BY <1>1
<1>4. Len(old) \in Nat /\ (old = <<>> <=> Len(old) = 0)
  BY <1>1
<1> HIDE DEF old, new
<1>5. actions'[a].state # "NONE"
  BY DEF Moves
<1>6. LoggedOnceProposed'
  BY <1>1, <1>3, <1>5 DEF LoggedOnceProposed
<1>7. Len(new) = actions'[a].version
  BY <1>2, <1>3
<1>8. new[1] = "PROPOSED" /\ new[Len(new)] = actions'[a].state
  <2>1. CASE old = <<>>
    <3>1. actions'[a].state = "PROPOSED"
      BY <2>1, <1>2 DEF Moves
    <3> QED
      BY <2>1, <3>1, <1>3, <1>4
  <2>2. CASE old # <<>>
    BY <2>2, <1>2, <1>3, <1>4
  <2> QED
    BY <2>1, <2>2
<1>9. ASSUME NEW n \in 1..(Len(new) - 1)
      PROVE  <<new[n], new[n + 1]>> \in Moves
  <2>1. CASE n < Len(old)
    <3>1. n \in 1..(Len(old) - 1) /\ n \in 1..Len(old) /\ n + 1 \in 1..Len(old)
      BY <2>1, <1>3, <1>4, <1>9
    <3>2. new[n] = old[n] /\ new[n + 1] = old[n + 1]
      BY <3>1, <1>3
    <3> QED
      BY <3>1, <3>2, <1>2
  <2>2. CASE n = Len(old)
    <3>1. old # <<>> /\ n \in 1..Len(old)
      BY <2>2, <1>3, <1>4, <1>9
    <3>2. new[n] = actions[a].state /\ new[n + 1] = actions'[a].state
      <4>1. new[n] = old[n] /\ old[n] = actions[a].state
        BY <2>2, <3>1, <1>2, <1>3
      <4>2. new[n + 1] = actions'[a].state
        BY <2>2, <1>3
      <4> QED
        BY <4>1, <4>2
    <3>3. <<actions[a].state, actions'[a].state>> \in Moves
      BY <3>1, <1>2
    <3> QED
      BY <3>2, <3>3
  <2> QED
    BY <2>1, <2>2, <1>3, <1>4, <1>9
<1> QED
  BY <1>1, <1>6, <1>7, <1>8, <1>9 DEF ForwardTrail

\* The moves of the operations are the allowed ones.
LEMMA AllowedMoves ==
  /\ <<"PROPOSED", "APPROVED">> \in Moves /\ <<"APPROVED", "SUBMITTED">> \in Moves
  /\ <<"PROPOSED", "CANCELLED">> \in Moves /\ <<"APPROVED", "CANCELLED">> \in Moves
  /\ \A s \in {"APPLIED", "FAILED", "AMBIGUOUS"} : <<"SUBMITTED", s>> \in Moves
  BY DEF Moves

\* A concluded action keeps its row when another one is written.
Settled == \A a \in Actions : actions[a].state \in Terminal => actions'[a] = actions[a]

\* A step that moves action a forward and leaves the rest of the tables typed.
LEMMA MoveKeepsExecution ==
  ASSUME ExecutionTypeOK, LoggedOnceProposed, ForwardTrail, NEW a \in Actions, Writes(a),
         actions'[a].version = actions[a].version + 1,
         actions[a].state \notin Terminal,
         \/ actions[a].state = "NONE" /\ actions'[a].state = "PROPOSED"
         \/ <<actions[a].state, actions'[a].state>> \in Moves,
         policy' = policy, evidence' = evidence, plans' \in [Actions -> Plan], receipts' \in Nat
  PROVE  ExecutionTypeOK' /\ LoggedOnceProposed' /\ ForwardTrail' /\ Settled
<1>1. LoggedOnceProposed' /\ ForwardTrail'
  BY MoveKeepsTrail
<1>2. ExecutionTypeOK'
  BY WritesTyped DEF ExecutionTypeOK
<1>3. Settled
  BY DEF Settled, Writes
<1> QED
  BY <1>1, <1>2, <1>3

\* Every step of engineers and operators keeps the invariant.
LEMMA PeopleKeepExecution ==
  ASSUME FleetTypeOK, ExecutionTypeOK, LoggedOnceProposed, ForwardTrail, PeopleNext
  PROVE  ExecutionTypeOK' /\ LoggedOnceProposed' /\ ForwardTrail' /\ Settled
<1>1. /\ now \in Nat /\ receipts \in Nat /\ actions \in [Actions -> ActionRow]
      /\ plans \in [Actions -> Plan] /\ policy \in Nat
  BY DEF FleetTypeOK, ExecutionTypeOK
<1>2. ASSUME NEW a \in Actions, NEW e \in Items, NEW x \in AgentIds, Propose(a, e, x)
      PROVE  ExecutionTypeOK' /\ LoggedOnceProposed' /\ ForwardTrail' /\ Settled
  <2>1. actions[a].version = 0
    <3>1. actions[a].state = "NONE"
      BY <1>2, ProposeWrites
    <3>2. events[a] = <<>> /\ Len(events[a]) = actions[a].version
      BY <3>1 DEF LoggedOnceProposed, ForwardTrail
    <3> QED
      BY <3>2
  <2>2. actions'[a].version = actions[a].version + 1
    <3>1. actions'[a].version = 1
      BY <1>2, ProposeWrites
    <3> QED
      BY <2>1, <3>1
  <2>3. policy' = policy /\ evidence' = evidence /\ receipts' = receipts
    BY <1>2 DEF Propose
  <2>4. actions[a].state \notin Terminal
    BY <1>2, ProposeWrites DEF Terminal
  <2> QED
    BY <1>1, <1>2, <2>2, <2>3, <2>4, ProposeWrites, MoveKeepsExecution
<1>3. ASSUME NEW a \in Actions, NEW t \in (now + 1)..(now + ApprovalTTL), Approve(a, t)
      PROVE  ExecutionTypeOK' /\ LoggedOnceProposed' /\ ForwardTrail' /\ Settled
  <2>1. t \in Nat
    BY <1>1, <1>3, ExecutionAssumption
  <2>2. policy' = policy /\ evidence' = evidence /\ plans' = plans /\ receipts' = receipts
    BY <1>3 DEF Approve
  <2>3. /\ Writes(a) /\ actions'[a].version = actions[a].version + 1
        /\ actions[a].state = "PROPOSED" /\ actions'[a].state = "APPROVED"
    BY <1>1, <1>3, <2>1, ApproveWrites
  <2>4. actions[a].state \notin Terminal
    BY <2>3 DEF Terminal
  <2> QED
    BY <1>1, <2>2, <2>3, <2>4, AllowedMoves, MoveKeepsExecution
<1>4. ASSUME NEW a \in Actions, Cancel(a)
      PROVE  ExecutionTypeOK' /\ LoggedOnceProposed' /\ ForwardTrail' /\ Settled
  <2>1. policy' = policy /\ evidence' = evidence /\ plans' = plans /\ receipts' = receipts
    BY <1>4 DEF Cancel
  <2>2. /\ Writes(a) /\ actions'[a].version = actions[a].version + 1
        /\ actions[a].state \in {"PROPOSED", "APPROVED"} /\ actions'[a].state = "CANCELLED"
    BY <1>1, <1>4, CancelWrites
  <2>3. actions[a].state \notin Terminal
    BY <2>2 DEF Terminal
  <2>4. <<actions[a].state, actions'[a].state>> \in Moves
    BY <2>2, AllowedMoves
  <2> QED
    BY <1>1, <2>1, <2>2, <2>3, <2>4, MoveKeepsExecution
<1>5. ASSUME NEW a \in Actions, Reconcile(a)
      PROVE  ExecutionTypeOK' /\ LoggedOnceProposed' /\ ForwardTrail' /\ Settled
  <2>1. policy' = policy /\ evidence' = evidence /\ plans' = plans /\ receipts' = receipts
    BY <1>5 DEF Reconcile
  <2>2. /\ Writes(a) /\ actions'[a].version = actions[a].version + 1
        /\ actions[a].state = "SUBMITTED" /\ actions'[a].state = "AMBIGUOUS"
    BY <1>1, <1>5, ReconcileWrites
  <2>3. actions[a].state \notin Terminal
    BY <2>2 DEF Terminal
  <2> QED
    BY <1>1, <2>1, <2>2, <2>3, AllowedMoves, MoveKeepsExecution
<1>6. ASSUME NEW e \in Items, Quarantine(e)
      PROVE  ExecutionTypeOK' /\ LoggedOnceProposed' /\ ForwardTrail' /\ Settled
  BY <1>6, QuarantineTyped DEF LoggedOnceProposed, ForwardTrail, Settled
<1>7. ASSUME ChangePolicy
      PROVE  ExecutionTypeOK' /\ LoggedOnceProposed' /\ ForwardTrail' /\ Settled
  BY <1>1, <1>7 DEF ChangePolicy, ExecutionTypeOK, LoggedOnceProposed, ForwardTrail, Settled
<1> QED
  BY <1>2, <1>3, <1>4, <1>5, <1>6, <1>7 DEF PeopleNext

\* A claim and a receipt keep it, whoever calls.
LEMMA CallsKeepExecution ==
  ASSUME FleetTypeOK, ExecutionTypeOK, LoggedOnceProposed, ForwardTrail, NEW c, NEW a \in Actions,
         Claim(c, a) \/ \E r, o : o \in Outcomes /\ Receipt(c, a, r, o)
  PROVE  ExecutionTypeOK' /\ LoggedOnceProposed' /\ ForwardTrail' /\ Settled
<1>1. /\ now \in Nat /\ receipts \in Nat /\ actions \in [Actions -> ActionRow]
      /\ plans \in [Actions -> Plan]
  BY DEF FleetTypeOK, ExecutionTypeOK
<1>2. CASE Claim(c, a)
  <2>1. policy' = policy /\ evidence' = evidence /\ plans' = plans /\ receipts' = receipts + 1
    BY <1>2 DEF Claim
  <2>2. /\ Writes(a) /\ actions'[a].version = actions[a].version + 1
        /\ actions[a].state = "APPROVED" /\ actions'[a].state = "SUBMITTED"
    BY <1>1, <1>2, ClaimWrites
  <2>3. actions[a].state \notin Terminal /\ receipts' \in Nat
    BY <1>1, <2>1, <2>2 DEF Terminal
  <2> QED
    BY <1>1, <2>1, <2>2, <2>3, AllowedMoves, MoveKeepsExecution
<1>3. ASSUME NEW r, NEW o \in Outcomes, Receipt(c, a, r, o)
      PROVE  ExecutionTypeOK' /\ LoggedOnceProposed' /\ ForwardTrail' /\ Settled
  <2>1. policy' = policy /\ evidence' = evidence /\ plans' = plans /\ receipts' = receipts
    BY <1>3 DEF Receipt
  <2>2. /\ Writes(a) /\ actions'[a].version = actions[a].version + 1
        /\ actions[a].state = "SUBMITTED" /\ actions'[a].state \in {"APPLIED", "FAILED", "AMBIGUOUS"}
    BY <1>1, <1>3, ReceiptWrites, OutcomeStateIsState
  <2>3. actions[a].state \notin Terminal
    BY <2>2 DEF Terminal
  <2>4. <<actions[a].state, actions'[a].state>> \in Moves
    BY <2>2, AllowedMoves
  <2> QED
    BY <1>1, <2>1, <2>2, <2>3, <2>4, MoveKeepsExecution
<1> QED
  BY <1>2, <1>3

\* Every step of ExecutionNext keeps the invariant.
LEMMA ExecutionStepInv ==
  ASSUME ExecutionInv, [ExecutionNext]_<<fleetVars, executionVars>>
  PROVE  ExecutionInv' /\ Settled
<1>1. FleetInv /\ FleetTypeOK /\ ExecutionTypeOK /\ LoggedOnceProposed /\ ForwardTrail
  BY DEF ExecutionInv, FleetInv
<1>2. CASE PeopleNext /\ UNCHANGED fleetVars
  BY <1>1, <1>2, PeopleKeepExecution, FleetStepInv DEF ExecutionInv
<1>3. CASE AgentNext /\ UNCHANGED fleetVars
  <2>1. FleetInv'
    BY <1>1, <1>3, FleetStepInv
  <2>2. ASSUME NEW c \in credentials, NEW e \in Items, NEW t \in 0..MaxTarget, Observe(c, e, t)
        PROVE  ExecutionTypeOK' /\ LoggedOnceProposed' /\ ForwardTrail' /\ Settled
    <3>1. t \in Nat
      BY <2>2, ExecutionAssumption
    <3>2. ExecutionTypeOK' /\ UNCHANGED <<actions, events>>
      BY <1>1, <2>2, <3>1, ObserveTyped
    <3> QED
      BY <1>1, <3>2 DEF LoggedOnceProposed, ForwardTrail, Settled
  <2>3. ExecutionTypeOK' /\ LoggedOnceProposed' /\ ForwardTrail' /\ Settled
    BY <1>1, <1>3, <2>2, CallsKeepExecution DEF AgentNext
  <2> QED
    BY <2>1, <2>3 DEF ExecutionInv
<1>4. CASE FleetNext /\ UNCHANGED executionVars
  BY <1>1, <1>4, FleetStepInv
  DEF ExecutionInv, executionVars, ExecutionTypeOK, LoggedOnceProposed, ForwardTrail, Settled
<1>5. CASE UNCHANGED <<fleetVars, executionVars>>
  BY <1>1, <1>5, FleetStepInv
  DEF ExecutionInv, executionVars, ExecutionTypeOK, LoggedOnceProposed, ForwardTrail, Settled
<1> QED
  BY <1>2, <1>3, <1>4, <1>5 DEF ExecutionNext

\* A fresh installation satisfies the invariant.
LEMMA ExecutionInitInv == FleetInit /\ ExecutionInit => ExecutionInv
<1> SUFFICES ASSUME FleetInit, ExecutionInit PROVE ExecutionInv
  OBVIOUS
<1>1. FleetInv /\ ExecutionTypeOK
  BY FleetInitInv, ExecutionInitTyped
<1>2. LoggedOnceProposed /\ ForwardTrail
  <2>1. \A a \in Actions : events[a] = <<>> /\ actions[a] = NoAction
    BY DEF ExecutionInit
  <2>2. NoAction.state = "NONE" /\ NoAction.version = 0
    BY DEF NoAction
  <2>3. LoggedOnceProposed
    BY <2>1, <2>2 DEF LoggedOnceProposed
  <2>4. ASSUME NEW a \in Actions
        PROVE  /\ Len(events[a]) = actions[a].version
               /\ \A n \in 1..(Len(events[a]) - 1) : FALSE
    BY <2>1, <2>2
  <2>5. ForwardTrail
    BY <2>1, <2>4 DEF ForwardTrail
  <2> QED
    BY <2>3, <2>5
<1> QED
  BY <1>1, <1>2 DEF ExecutionInv

\* The invariant holds of every state of the orchestrator under any sequence of
\* calls that engineers, operators and agents may make.
THEOREM ExecutionInvariant == ExecutionSpec => []ExecutionInv
<1>1. FleetInit /\ ExecutionInit => ExecutionInv
  BY ExecutionInitInv
<1>2. ExecutionInv /\ [ExecutionNext]_<<fleetVars, executionVars>> => ExecutionInv'
  BY ExecutionStepInv
<1> QED
  BY <1>1, <1>2, PTL DEF ExecutionSpec

\* The tables of pkg/execution stay typed.
THEOREM ExecutionTyped == ExecutionSpec => []ExecutionTypeOK
<1>1. ExecutionInv => ExecutionTypeOK
  BY DEF ExecutionInv
<1> QED
  BY <1>1, ExecutionInvariant, PTL

\* The audit log of every action is complete and moves only forward: no race of
\* Approve, Cancel, Claim, Receipt and Reconcile submits or concludes it twice.
THEOREM TrailsMoveForward == ExecutionSpec => []ForwardTrail
<1>1. ExecutionInv => ForwardTrail
  BY DEF ExecutionInv
<1> QED
  BY <1>1, ExecutionInvariant, PTL

\* No operation changes a concluded action: late receipts leave a reconciled
\* action alone and an owner cannot reconcile one that has its receipt.
THEOREM ConcludedActions == ExecutionSpec => ConcludedIsFinal
<1>1. ExecutionInv /\ [ExecutionNext]_<<fleetVars, executionVars>> =>
        [\A a \in Actions : actions[a].state \in Terminal => actions'[a] = actions[a]]_executionVars
  BY ExecutionStepInv DEF Settled
<1> QED
  BY <1>1, ExecutionInvariant, PTL DEF ExecutionSpec, ConcludedIsFinal

-----------------------------------------------------------------------------
(* What a plan pins: the generations of its agents and the version of its evidence. *)

\* As long as the rows are still of the pinned generations, the executor is in the plan's epoch and
\* both agents are in one cluster; as long as the item has the pinned version, its source is the
\* plan's.  Generations and versions only grow, so what moved on never comes back.
PlanPins(p, x, s, i) ==
  /\ p.executorGeneration <= x.generation
  /\ p.sourceGeneration <= s.generation
  /\ p.itemVersion <= i.version
  /\ x.generation = p.executorGeneration => x.epoch = p.epoch
  /\ i.version = p.itemVersion => i.source = p.source /\ i.generation = p.sourceGeneration
  /\ x.generation = p.executorGeneration /\ s.generation = p.sourceGeneration => x.uid = s.uid

PlansPin ==
  \A a \in Actions : actions[a].state # "NONE" =>
    PlanPins(plans[a], agents[plans[a].executor], agents[plans[a].source], evidence[plans[a].item])

\* A row stays, or its generation steps: Enroll, Renew and Revoke never leave it where it was.
AgentsAge ==
  \A i \in AgentIds : agents'[i] = agents[i] \/ agents'[i].generation = agents[i].generation + 1

\* An item keeps what a plan copied from it, or gets a new version.
ItemsAge ==
  \A e \in Items :
    \/ /\ evidence'[e].version = evidence[e].version /\ evidence'[e].source = evidence[e].source
       /\ evidence'[e].generation = evidence[e].generation
    \/ evidence'[e].version = evidence[e].version + 1

LEMMA FleetAges ==
  ASSUME FleetTypeOK, FleetNext
  PROVE  AgentsAge
<1>1. agents \in [AgentIds -> AgentRow]
  BY DEF FleetTypeOK
<1>2. ASSUME NEW i \in AgentIds, NEW row, agents' = [agents EXCEPT ![i] = row],
             row.generation = agents[i].generation + 1
      PROVE  AgentsAge
  BY <1>1, <1>2 DEF AgentsAge
<1>3. CASE UNCHANGED agents
  BY <1>3 DEF AgentsAge
<1>4. ASSUME NEW b \in bootstraps, NEW uid \in ClusterUIDs, NEW r \in Roles, Enroll(b, uid, r)
      PROVE  AgentsAge
  <2>1. b.id \in AgentIds
    BY DEF FleetTypeOK, BootstrapRow
  <2>2. Upserted(b.id, agents[b.id], b, tokens + 1).generation = agents[b.id].generation + 1
    BY DEF Upserted
  <2> QED
    BY <1>2, <1>4, <2>1, <2>2 DEF Enroll
<1>5. ASSUME NEW d \in credentials, NEW r \in Roles, Renew(d, r)
      PROVE  AgentsAge
  <2>1. d.id \in AgentIds /\ agents[d.id] \in AgentRow
    BY DEF FleetTypeOK, Credential
  <2>2. Rotated(agents[d.id], tokens + 1).generation = agents[d.id].generation + 1
    BY <2>1 DEF Rotated, AgentRow
  <2> QED
    BY <1>2, <1>5, <2>1, <2>2 DEF Renew
<1>6. ASSUME NEW i \in AgentIds, Revoke(i)
      PROVE  AgentsAge
  <2> DEFINE row == [agents[i] EXCEPT !.revoked = TRUE, !.generation = @ + 1]
  <2>1. agents' = [agents EXCEPT ![i] = row]
    BY <1>1, <1>6 DEF Revoke
  <2>2. row.generation = agents[i].generation + 1
    BY <1>1 DEF AgentRow
  <2> HIDE DEF row
  <2> QED
    BY <1>2, <2>1, <2>2
<1> QED
  BY <1>3, <1>4, <1>5, <1>6 DEF FleetNext, Bootstrap, RotateEpoch, Tick

\* What one plan pins, from one state to the next.
LEMMA PinsAge ==
  ASSUME NEW p \in Plan, NEW x \in AgentRow, NEW s \in AgentRow, NEW i \in ItemRow,
         NEW y \in AgentRow, NEW t \in AgentRow, NEW j \in ItemRow, PlanPins(p, x, s, i),
         y = x \/ y.generation = x.generation + 1,
         t = s \/ t.generation = s.generation + 1,
         \/ j.version = i.version /\ j.source = i.source /\ j.generation = i.generation
         \/ j.version = i.version + 1
  PROVE  PlanPins(p, y, t, j)
<1>1. /\ p.executorGeneration \in Nat /\ p.sourceGeneration \in Nat /\ p.itemVersion \in Nat
      /\ x.generation \in Nat /\ s.generation \in Nat /\ i.version \in Nat
      /\ y.generation \in Nat /\ t.generation \in Nat /\ j.version \in Nat
  BY DEF Plan, AgentRow, ItemRow
<1>2. p.executorGeneration <= y.generation /\ (y.generation = p.executorGeneration => y = x)
  BY <1>1 DEF PlanPins
<1>3. p.sourceGeneration <= t.generation /\ (t.generation = p.sourceGeneration => t = s)
  BY <1>1 DEF PlanPins
<1>4. /\ p.itemVersion <= j.version
      /\ j.version = p.itemVersion => j.source = i.source /\ j.generation = i.generation /\ j.version = i.version
  BY <1>1 DEF PlanPins
<1> QED
  BY <1>2, <1>3, <1>4 DEF PlanPins

\* The plans that stay keep pinning.
LEMMA PinsKept ==
  ASSUME FleetTypeOK, ExecutionTypeOK, FleetTypeOK', ExecutionTypeOK', PlansPin, AgentsAge, ItemsAge,
         NEW a \in Actions, plans'[a] = plans[a], actions[a].state # "NONE"
  PROVE  PlanPins(plans[a], agents[plans[a].executor], agents[plans[a].source], evidence[plans[a].item])'
<1>1. PICK p \in Plan : p = plans[a] /\ p = plans'[a]
  BY DEF ExecutionTypeOK
<1>2. p.executor \in AgentIds /\ p.source \in AgentIds /\ p.item \in Items
  BY DEF Plan
<1>3. PICK x \in AgentRow, s \in AgentRow, i \in ItemRow :
        x = agents[p.executor] /\ s = agents[p.source] /\ i = evidence[p.item]
  BY <1>2 DEF FleetTypeOK, ExecutionTypeOK
<1>4. PICK y \in AgentRow, t \in AgentRow, j \in ItemRow :
        y = agents'[p.executor] /\ t = agents'[p.source] /\ j = evidence'[p.item]
  BY <1>2 DEF FleetTypeOK, ExecutionTypeOK
<1>5. /\ y = x \/ y.generation = x.generation + 1
      /\ t = s \/ t.generation = s.generation + 1
      /\ \/ j.version = i.version /\ j.source = i.source /\ j.generation = i.generation
         \/ j.version = i.version + 1
  BY <1>2, <1>3, <1>4 DEF AgentsAge, ItemsAge
<1>6. PlanPins(p, x, s, i)
  BY <1>1, <1>3 DEF PlansPin
<1>7. PlanPins(p, y, t, j)
  BY <1>5, <1>6, PinsAge
<1> QED
  BY <1>1, <1>4, <1>7

\* A step that proposes nothing.
LEMMA OldPlansPin ==
  ASSUME FleetTypeOK, ExecutionTypeOK, FleetTypeOK', ExecutionTypeOK', PlansPin, AgentsAge, ItemsAge,
         UNCHANGED plans, \A a \in Actions : actions'[a].state # "NONE" => actions[a].state # "NONE"
  PROVE  PlansPin'
<1> SUFFICES ASSUME NEW a \in Actions, actions'[a].state # "NONE"
             PROVE  PlanPins(plans[a], agents[plans[a].executor], agents[plans[a].source], evidence[plans[a].item])'
  BY DEF PlansPin
<1> QED
  BY PinsKept

\* Propose pins what it read, and compares the clusters.
LEMMA NewPlanPins ==
  ASSUME FleetTypeOK, ExecutionTypeOK, NEW a \in Actions, NEW e \in Items, NEW x \in AgentIds, Propose(a, e, x),
         UNCHANGED fleetVars
  PROVE  PlanPins(plans[a], agents[plans[a].executor], agents[plans[a].source], evidence[plans[a].item])'
<1>1. /\ plans'[a].item = e /\ plans'[a].itemVersion = evidence[e].version
      /\ plans'[a].source = evidence[e].source /\ plans'[a].sourceGeneration = evidence[e].generation
      /\ plans'[a].executor = x /\ plans'[a].executorGeneration = agents[x].generation /\ plans'[a].epoch = epoch
  BY DEF Propose, ExecutionTypeOK
<1>2. evidence' = evidence /\ agents' = agents
  BY DEF Propose, fleetVars
<1>3. /\ agents[x].epoch = epoch /\ agents[x].uid = agents[evidence[e].source].uid
      /\ agents[evidence[e].source].generation = evidence[e].generation
  BY DEF Propose, Eligible, UsableExecutor
<1>4. /\ evidence[e].version \in Nat /\ agents[x].generation \in Nat /\ evidence[e].generation \in Nat
  BY DEF FleetTypeOK, ExecutionTypeOK, AgentRow, ItemRow
<1> QED
  BY <1>1, <1>2, <1>3, <1>4 DEF PlanPins

LEMMA PlansPinStep ==
  ASSUME ExecutionInv, PlansPin, [ExecutionNext]_<<fleetVars, executionVars>>
  PROVE  PlansPin'
<1>1. FleetTypeOK /\ ExecutionTypeOK /\ FleetTypeOK' /\ ExecutionTypeOK'
  BY ExecutionStepInv DEF ExecutionInv, FleetInv
<1>2. actions \in [Actions -> ActionRow] /\ now \in Nat /\ receipts \in Nat
  BY <1>1 DEF ExecutionTypeOK, FleetTypeOK
<1>3. UNCHANGED agents => AgentsAge
  BY DEF AgentsAge
<1>4. UNCHANGED evidence => ItemsAge
  BY DEF ItemsAge
<1>5. ASSUME UNCHANGED fleetVars, UNCHANGED evidence, UNCHANGED plans, NEW a \in Actions, Writes(a), actions[a].state # "NONE"
      PROVE  PlansPin'
  BY <1>1, <1>3, <1>4, <1>5, OldPlansPin DEF Writes, fleetVars
<1>6. ASSUME UNCHANGED fleetVars, NEW a \in Actions, NEW e \in Items, NEW x \in AgentIds, Propose(a, e, x)
      PROVE  PlansPin'
  <2>1. AgentsAge /\ ItemsAge
    BY <1>3, <1>4, <1>6 DEF Propose, fleetVars
  <2>2. \A b \in Actions \ {a} : plans'[b] = plans[b] /\ actions'[b] = actions[b]
    BY <1>1, <1>6, ProposeWrites DEF Writes
  <2>3. PlanPins(plans[a], agents[plans[a].executor], agents[plans[a].source], evidence[plans[a].item])'
    BY <1>1, <1>6, NewPlanPins
  <2> SUFFICES ASSUME NEW b \in Actions \ {a}, actions'[b].state # "NONE"
               PROVE  PlanPins(plans[b], agents[plans[b].executor], agents[plans[b].source], evidence[plans[b].item])'
    BY <2>3 DEF PlansPin
  <2> QED
    BY <1>1, <2>1, <2>2, PinsKept
<1>7. ASSUME UNCHANGED fleetVars, NEW a \in Actions, NEW t \in (now + 1)..(now + ApprovalTTL), Approve(a, t)
      PROVE  PlansPin'
  <2>1. t \in Nat
    BY <1>2, <1>7, ExecutionAssumption
  <2> QED
    BY <1>2, <1>5, <1>7, <2>1, ApproveWrites DEF Approve
<1>8. ASSUME UNCHANGED fleetVars, NEW a \in Actions, Cancel(a)
      PROVE  PlansPin'
  BY <1>2, <1>5, <1>8, CancelWrites DEF Cancel
<1>9. ASSUME UNCHANGED fleetVars, NEW a \in Actions, Reconcile(a)
      PROVE  PlansPin'
  BY <1>2, <1>5, <1>9, ReconcileWrites DEF Reconcile
<1>10. ASSUME UNCHANGED fleetVars, NEW c \in credentials, NEW a \in Actions, Claim(c, a)
      PROVE  PlansPin'
  BY <1>2, <1>5, <1>10, ClaimWrites DEF Claim
<1>11. ASSUME UNCHANGED fleetVars, NEW c \in credentials, NEW a \in Actions, NEW r \in 1..receipts, NEW o \in Outcomes,
              Receipt(c, a, r, o)
      PROVE  PlansPin'
  BY <1>2, <1>5, <1>11, ReceiptWrites DEF Receipt
<1>12. ASSUME UNCHANGED fleetVars, NEW e \in Items, Quarantine(e)
      PROVE  PlansPin'
  <2>1. evidence' = [evidence EXCEPT ![e].quarantined = TRUE] /\ evidence \in [Items -> ItemRow]
    BY <1>1, <1>12 DEF Quarantine, ExecutionTypeOK
  <2>2. ItemsAge
    BY <2>1 DEF ItemsAge, ItemRow
  <2> QED
    BY <1>1, <1>3, <1>12, <2>2, OldPlansPin DEF Quarantine, fleetVars
<1>13. ASSUME UNCHANGED fleetVars, NEW c \in credentials, NEW e \in Items, NEW t \in 0..MaxTarget, Observe(c, e, t)
      PROVE  PlansPin'
  <2>1. evidence \in [Items -> ItemRow] /\ evidence'[e].version = evidence[e].version + 1
    BY <1>1, <1>13 DEF Observe, ExecutionTypeOK
  <2>2. ItemsAge
    BY <1>13, <2>1 DEF ItemsAge, Observe
  <2> QED
    BY <1>1, <1>3, <1>13, <2>2, OldPlansPin DEF Observe, fleetVars
<1>14. ASSUME UNCHANGED fleetVars, ChangePolicy
      PROVE  PlansPin'
  BY <1>1, <1>3, <1>4, <1>14, OldPlansPin DEF ChangePolicy, fleetVars
<1>15. CASE FleetNext /\ UNCHANGED executionVars
  BY <1>1, <1>4, <1>15, FleetAges, OldPlansPin DEF executionVars
<1>16. CASE UNCHANGED <<fleetVars, executionVars>>
  BY <1>1, <1>3, <1>4, <1>16, OldPlansPin DEF fleetVars, executionVars
<1>17. CASE PeopleNext /\ UNCHANGED fleetVars
  BY <1>6, <1>7, <1>8, <1>9, <1>12, <1>14, <1>17 DEF PeopleNext
<1>18. CASE AgentNext /\ UNCHANGED fleetVars
  BY <1>10, <1>11, <1>13, <1>18 DEF AgentNext
<1> QED
  BY <1>15, <1>16, <1>17, <1>18 DEF ExecutionNext

\* Plans, evidence and agents keep to what was pinned under any sequence of calls.
THEOREM PlansStayPinned == ExecutionSpec => []PlansPin
<1>1. FleetInit /\ ExecutionInit => PlansPin
  <2>1. ExecutionInit => \A a \in Actions : actions[a] = NoAction
    BY DEF ExecutionInit
  <2>2. NoAction.state = "NONE"
    BY DEF NoAction
  <2> QED
    BY <2>1, <2>2 DEF PlansPin
<1>2. ExecutionInv /\ PlansPin /\ [ExecutionNext]_<<fleetVars, executionVars>> => PlansPin'
  BY PlansPinStep
<1> QED
  BY <1>1, <1>2, ExecutionInvariant, PTL DEF ExecutionSpec

\* An approved action is moved by a claim or a cancellation, a submitted one by a receipt or an
\* owner's reconciliation.
LEMMA MovedBy ==
  ASSUME ExecutionInv, [ExecutionNext]_<<fleetVars, executionVars>>, NEW a \in Actions,
         actions[a].state \in {"APPROVED", "SUBMITTED"}, actions'[a].state # actions[a].state
  PROVE  \/ actions'[a].state = "CANCELLED" /\ actions[a].state = "APPROVED"
         \/ actions'[a].reconciled /\ actions[a].state = "SUBMITTED"
         \/ \E c \in credentials : MayClaim(c, a) /\ actions'[a].state = "SUBMITTED"
         \/ /\ actions[a].state = "SUBMITTED" /\ actions'[a].state # "SUBMITTED"
            /\ \E c \in credentials, r \in 1..receipts : Receivable(c, a, r)
<1> DEFINE Moved == \/ actions'[a].state = "CANCELLED" /\ actions[a].state = "APPROVED"
                    \/ actions'[a].reconciled /\ actions[a].state = "SUBMITTED"
                    \/ \E c \in credentials : MayClaim(c, a) /\ actions'[a].state = "SUBMITTED"
                    \/ /\ actions[a].state = "SUBMITTED" /\ actions'[a].state # "SUBMITTED"
                       /\ \E c \in credentials, r \in 1..receipts : Receivable(c, a, r)
<1>1. FleetTypeOK /\ ExecutionTypeOK
  BY DEF ExecutionInv, FleetInv
<1>2. actions \in [Actions -> ActionRow] /\ now \in Nat /\ receipts \in Nat
  BY <1>1 DEF ExecutionTypeOK, FleetTypeOK
<1>3. \A b \in Actions : Writes(b) => a = b
  BY DEF Writes
<1>4. ~UNCHANGED actions
  OBVIOUS
<1>5. ASSUME NEW b \in Actions, NEW e \in Items, NEW x \in AgentIds, Propose(b, e, x) PROVE FALSE
  BY <1>1, <1>3, <1>5, ProposeWrites
<1>6. ASSUME NEW b \in Actions, NEW t \in (now + 1)..(now + ApprovalTTL), Approve(b, t) PROVE FALSE
  <2>1. t \in Nat
    BY <1>2, <1>6, ExecutionAssumption
  <2> QED
    BY <1>2, <1>3, <1>6, <2>1, ApproveWrites
<1>7. ASSUME NEW b \in Actions, Cancel(b) PROVE Moved
  BY <1>2, <1>3, <1>7, CancelWrites
<1>8. ASSUME NEW b \in Actions, Reconcile(b) PROVE Moved
  BY <1>2, <1>3, <1>8, ReconcileWrites
<1>9. ASSUME NEW c \in credentials, NEW b \in Actions, Claim(c, b) PROVE Moved
  <2>1. a = b /\ actions'[a].state = "SUBMITTED" /\ MayClaim(c, a)
    BY <1>2, <1>3, <1>9, ClaimWrites DEF Claim
  <2> QED
    BY <2>1
<1>10. ASSUME NEW c \in credentials, NEW b \in Actions, NEW r \in 1..receipts, NEW o \in Outcomes, Receipt(c, b, r, o)
       PROVE  Moved
  <2>1. a = b /\ actions[a].state = "SUBMITTED" /\ Receivable(c, a, r)
    BY <1>2, <1>3, <1>10, ReceiptWrites DEF Receipt
  <2> QED
    BY <2>1
<1> HIDE DEF Moved
<1>11. ASSUME PeopleNext PROVE Moved
  BY <1>4, <1>5, <1>6, <1>7, <1>8, <1>11 DEF PeopleNext, Quarantine, ChangePolicy
<1>12. ASSUME AgentNext PROVE Moved
  BY <1>4, <1>9, <1>10, <1>12 DEF AgentNext, Observe
<1>13. Moved
  BY <1>4, <1>11, <1>12 DEF ExecutionNext, executionVars
<1> QED
  BY <1>13 DEF Moved

\* When an action is submitted, its executor and the collector its evidence came from are in one
\* cluster: Claim does not compare clusters, but an agent that moved has another generation than the
\* plan or the evidence pinned at Propose, where they were compared.
THEOREM SubmissionsStayInOneCluster == ExecutionSpec => SubmittedInOneCluster
<1>1. ASSUME ExecutionInv, PlansPin, [ExecutionNext]_<<fleetVars, executionVars>>, NEW a \in Actions,
             actions[a].state = "APPROVED", actions'[a].state = "SUBMITTED"
      PROVE  agents[plans[a].executor].uid = agents[plans[a].source].uid
  <2>1. Current(a)
    BY <1>1, MovedBy DEF MayClaim
  <2>2. PlanPins(plans[a], agents[plans[a].executor], agents[plans[a].source], evidence[plans[a].item])
    BY <1>1 DEF PlansPin
  <2>3. /\ evidence[plans[a].item].version = plans[a].itemVersion
        /\ agents[plans[a].executor].generation = plans[a].executorGeneration
        /\ agents[evidence[plans[a].item].source].generation = evidence[plans[a].item].generation
    BY <2>1 DEF Current, Eligible
  <2> QED
    BY <2>2, <2>3 DEF PlanPins
<1>2. ExecutionInv /\ PlansPin /\ [ExecutionNext]_<<fleetVars, executionVars>> =>
        [\A a \in Actions :
           actions[a].state = "APPROVED" /\ actions'[a].state = "SUBMITTED" =>
             agents[plans[a].executor].uid = agents[plans[a].source].uid]_executionVars
  BY <1>1
<1> QED
  BY <1>2, ExecutionInvariant, PlansStayPinned, PTL DEF ExecutionSpec, SubmittedInOneCluster

\* The outcome of a submitted action is recorded only for the credential that claimed it, while that
\* credential is in force: Receipt authenticates and compares generations, and a generation names
\* one credential, of the epoch the plan was made in.
THEOREM OutcomesComeFromClaimants == ExecutionSpec => OutcomeFromClaimant
<1>1. ASSUME ExecutionInv, PlansPin, [ExecutionNext]_<<fleetVars, executionVars>>, NEW a \in Actions,
             actions[a].state = "SUBMITTED", actions'[a].state # "SUBMITTED", ~actions'[a].reconciled
      PROVE  \E c \in credentials :
               /\ c.id = plans[a].executor /\ c.generation = plans[a].executorGeneration
               /\ c.epoch = plans[a].epoch /\ AuthenticateTx(c.id, c.token, "EXECUTOR")
  <2>1. PICK c \in credentials, r \in 1..receipts : Receivable(c, a, r)
    BY <1>1, MovedBy
  <2>2. /\ AuthenticateTx(c.id, c.token, "EXECUTOR") /\ plans[a].executor = c.id
        /\ plans[a].executorGeneration = agents[c.id].generation
    BY <2>1 DEF Receivable
  <2>3. c = CredentialOf(c.id, agents[c.id], c.boot)
    BY <1>1, <2>2 DEF ExecutionInv, FleetInv, RowIsCredential, AuthenticateTx
  <2>4. c.generation = agents[c.id].generation /\ c.epoch = agents[c.id].epoch
    BY <2>3 DEF CredentialOf
  <2>5. agents[c.id].epoch = plans[a].epoch
    BY <1>1, <2>2 DEF PlansPin, PlanPins
  <2> QED
    BY <2>2, <2>4, <2>5
<1>2. ExecutionInv /\ PlansPin /\ [ExecutionNext]_<<fleetVars, executionVars>> =>
        [\A a \in Actions :
           actions[a].state = "SUBMITTED" /\ actions'[a].state # "SUBMITTED" /\ ~actions'[a].reconciled =>
             \E c \in credentials :
               /\ c.id = plans[a].executor
               /\ c.generation = plans[a].executorGeneration
               /\ c.epoch = plans[a].epoch
               /\ AuthenticateTx(c.id, c.token, "EXECUTOR")]_executionVars
  BY <1>1
<1> QED
  BY <1>2, ExecutionInvariant, PlansStayPinned, PTL DEF ExecutionSpec, OutcomeFromClaimant
=============================================================================
