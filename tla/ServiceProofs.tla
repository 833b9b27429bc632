---------------------------- MODULE ServiceProofs ---------------------------
(***************************************************************************)
(* Proofs about the services that share no state: the remediation engine,  *)
(* the result cache and plugins.                                           *)
(***************************************************************************)
EXTENDS Remediation, ResultCache, Plugin, FiniteSetTheorems, TLAPS

-----------------------------------------------------------------------------
(* The remediation engine. *)

ProposalStatus == ActiveProposal \cup TerminalProposal \cup {"NONE", "PRUNED"}

Verdicts == {"", "VERIFIED", "FAILED", "UNAVAILABLE", "UNVERIFIED"}

ProposalRecord ==
  [issue : Issues \cup {NoProposal.issue}, version : Nat, status : ProposalStatus, expired : BOOLEAN,
   verification : Verdicts]

Hand == [pc : {"idle", "got", "start", "execute", "finish"}, id : 0..MaxProposals,
         result : {"", "ok", "error", "stale"}]

Request == [pc : {"idle", "approve", "enqueue"}, id : 0..MaxProposals]

Listing == [id : ProposalIds, status : ActiveProposal, expired : BOOLEAN]

\* The records, the queue, the hands and the requests stay in their domains.
RemediationTyped ==
  /\ proposals \in [ProposalIds -> ProposalRecord]
  /\ target \in [Issues -> Nat]
  /\ queue \in Seq(ProposalIds)
  /\ workers \in [Workers -> Hand]
  /\ \A w \in Workers : workers[w].pc # "idle" => workers[w].id \in ProposalIds
  /\ approvers \in [Approvers -> Request]
  /\ \A a \in Approvers : approvers[a].pc # "idle" => approvers[a].id \in ProposalIds
  /\ recovering \subseteq Listing
  /\ engine = "down" =>
       /\ queue = <<>> /\ recovering = {}
       /\ \A w \in Workers : workers[w].pc = "idle"
       /\ \A a \in Approvers : approvers[a].pc = "idle"
  /\ sent \in [ProposalIds -> Nat] /\ effect \subseteq ProposalIds /\ learned \subseteq ProposalIds

\* A worker between the durable EXECUTING and the durable outcome.
Executes(w, p) == workers[w].pc \in {"execute", "finish"} /\ workers[w].id = p

\* What a worker executes is EXECUTING, in no other hand, and not what recovery found interrupted.
ExecutingInOneHand ==
  \A w \in Workers, p \in ProposalIds :
    Executes(w, p) =>
      /\ proposals[p].status = "EXECUTING"
      /\ \A v \in Workers : Executes(v, p) => v = w
      /\ \A r \in recovering : r.id = p => r.status # "EXECUTING"

\* Recovery's snapshot is not contradicted by an earlier state.
SnapshotHolds ==
  \A r \in recovering :
    r.status = "EXECUTING" => proposals[r.id].status \notin {"NONE", "PENDING", "APPROVED"}

\* Nothing was sent before the execution, and a result in hand is true.
HandsAreTrue ==
  \A w \in Workers :
    /\ workers[w].pc = "execute" => sent[workers[w].id] = 0 /\ workers[w].id \notin effect
    /\ workers[w].pc = "finish" =>
         /\ workers[w].result \in {"ok", "error", "stale"}
         /\ workers[w].result = "stale" => workers[w].id \notin effect
         /\ workers[w].result = "ok" =>
              workers[w].id \in effect \/ proposals[workers[w].id].issue \in Untouched

\* Before its execution a proposal has sent nothing.
UnsentBefore ==
  \A p \in ProposalIds : proposals[p].status \in {"NONE", "PENDING", "APPROVED"} =>
                           sent[p] = 0 /\ p \notin effect

RemediationInv ==
  /\ RemediationTyped /\ ExecutingInOneHand /\ SnapshotHolds /\ HandsAreTrue /\ UnsentBefore
  /\ MutatedAtMostOnce /\ ProposalOutcomeIsTrue /\ OneActiveProposal

USE RemediationAssumption


LEMMA RemediationStarts == RemediationInit => RemediationInv
<1> SUFFICES ASSUME RemediationInit PROVE RemediationInv
  OBVIOUS
<1>1. NoProposal \in ProposalRecord /\ NoProposal.status = "NONE"
  BY DEF NoProposal, ProposalRecord, ProposalStatus, Verdicts
<1>2. /\ IdleHand \in Hand /\ IdleHand.pc = "idle"
      /\ NoRequest \in Request /\ NoRequest.pc = "idle"
  BY DEF IdleHand, NoRequest, Hand, Request
<1>3. proposals = [p \in ProposalIds |-> NoProposal]
  BY DEF RemediationInit
<1>4. RemediationTyped
  BY <1>1, <1>2 DEF RemediationInit, RemediationTyped
<1>5. UnsentBefore /\ MutatedAtMostOnce /\ ProposalOutcomeIsTrue
  BY <1>1 DEF RemediationInit, UnsentBefore, MutatedAtMostOnce, ProposalOutcomeIsTrue
<1>6. OneActiveProposal
  BY <1>1, <1>3 DEF OneActiveProposal, ActiveProposal
<1>7. ExecutingInOneHand /\ SnapshotHolds /\ HandsAreTrue
  BY <1>2 DEF RemediationInit, ExecutingInOneHand, SnapshotHolds, HandsAreTrue, Executes
<1> QED
  BY <1>4, <1>5, <1>6, <1>7 DEF RemediationInv

-----------------------------------------------------------------------------
\* What a step may do to a proposal without executing it.  An execution ends in no hand, and truly.
Ends(q) ==
  /\ \A w \in Workers : ~Executes(w, q)'
  /\ proposals'[q].status \in {"FAILED", "STALE", "COMPLETED"}
  /\ proposals'[q].status = "STALE" => q \notin effect
  /\ proposals'[q].status = "COMPLETED" => q \in effect \/ proposals[q].issue \in Untouched

Proceeds(q) ==
  /\ proposals'[q].issue = proposals[q].issue
  /\ \/ proposals'[q].status = proposals[q].status /\ proposals'[q].verification = proposals[q].verification
     \/ proposals[q].status = "PENDING" /\ proposals'[q].status \in {"APPROVED", "REJECTED", "STALE", "EXPIRED"}
     \/ proposals[q].status = "APPROVED" /\ proposals'[q].status \in {"STALE", "EXPIRED"}
     \/ /\ proposals[q].status \in TerminalProposal /\ proposals'[q].status = "PRUNED"
        /\ proposals'[q].verification = proposals[q].verification
     \/ proposals[q].status = "EXECUTING" /\ Ends(q)

\* What is newly learned from is durably completed, verified, and took effect or is nominal.
LearnedTruly(q) ==
  /\ proposals'[q].status = "COMPLETED" /\ proposals'[q].verification = "VERIFIED"
  /\ q \in effect \/ proposals[q].issue \in Nominal

\* A step that starts no execution and lists nothing new.
CalmStep ==
  /\ \A w \in Workers : workers'[w] = workers[w] \/ workers'[w].pc \in {"idle", "got", "start"}
  /\ recovering' \subseteq recovering
  /\ sent' = sent /\ effect' = effect
  /\ \A q \in ProposalIds : Proceeds(q)
  /\ \A q \in ProposalIds : q \in learned' =>
       q \in learned \/ LearnedTruly(q)

LEMMA CalmStepKeeps ==
  ASSUME RemediationInv, RemediationTyped', CalmStep
  PROVE  RemediationInv'
<1>1. ExecutingInOneHand'
  <2>1. ASSUME NEW w \in Workers, NEW p \in ProposalIds, Executes(w, p)'
        PROVE  Executes(w, p) /\ workers'[w] = workers[w]
    BY <2>1 DEF CalmStep, Executes
  <2>2. ASSUME NEW w \in Workers, NEW p \in ProposalIds, Executes(w, p)'
        PROVE  proposals'[p].status = "EXECUTING"
    <3>1. Executes(w, p) /\ proposals[p].status = "EXECUTING"
      BY <2>1, <2>2 DEF RemediationInv, ExecutingInOneHand
    <3>2. Proceeds(p) /\ ~Ends(p)
      BY <2>2 DEF CalmStep, Ends
    <3> QED
      BY <3>1, <3>2 DEF Proceeds, TerminalProposal
  <2> QED
    BY <2>1, <2>2 DEF RemediationInv, ExecutingInOneHand, CalmStep
<1>2. SnapshotHolds'
  BY DEF RemediationInv, RemediationTyped, SnapshotHolds, CalmStep, Proceeds, Ends, TerminalProposal, Listing
<1>3. HandsAreTrue'
  <2>1. SUFFICES ASSUME NEW w \in Workers, workers'[w].pc \in {"execute", "finish"}
        PROVE  HandsAreTrue!(w)'
    BY DEF HandsAreTrue
  <2>2. workers'[w] = workers[w] /\ workers[w].id \in ProposalIds
    BY <2>1 DEF CalmStep, RemediationInv, RemediationTyped
  <2>3. Proceeds(workers[w].id) /\ sent' = sent /\ effect' = effect
    BY <2>2 DEF CalmStep
  <2> QED
    BY <2>2, <2>3 DEF RemediationInv, HandsAreTrue, Proceeds
<1>4. UnsentBefore' /\ MutatedAtMostOnce'
  BY DEF RemediationInv, RemediationTyped, UnsentBefore, MutatedAtMostOnce, CalmStep, Proceeds, Ends
<1>5. ProposalOutcomeIsTrue'
  <2>1. SUFFICES ASSUME NEW p \in ProposalIds
        PROVE /\ proposals'[p].status = "COMPLETED" => p \in effect' \/ proposals'[p].issue \in Untouched
              /\ proposals'[p].status \in {"PENDING", "APPROVED", "STALE", "REJECTED", "EXPIRED"} => p \notin effect'
              /\ p \in learned' =>
                   /\ proposals'[p].status \in {"COMPLETED", "PRUNED"} /\ proposals'[p].verification = "VERIFIED"
                   /\ p \in effect' \/ proposals'[p].issue \in Nominal
    BY DEF ProposalOutcomeIsTrue
  <2>2. /\ Proceeds(p) /\ effect' = effect
        /\ p \in learned' => p \in learned \/ LearnedTruly(p)
    BY DEF CalmStep
  <2> QED
    BY <2>2 DEF RemediationInv, ProposalOutcomeIsTrue, UnsentBefore, Proceeds, Ends, LearnedTruly, TerminalProposal
<1>6. OneActiveProposal'
  <2>1. ASSUME NEW q \in ProposalIds, proposals'[q].status \in ActiveProposal
        PROVE  proposals[q].status \in ActiveProposal /\ proposals'[q].issue = proposals[q].issue
    BY <2>1 DEF CalmStep, Proceeds, Ends, ActiveProposal, TerminalProposal
  <2> QED
    BY <2>1 DEF RemediationInv, OneActiveProposal
<1> QED
  BY <1>1, <1>2, <1>3, <1>4, <1>5, <1>6 DEF RemediationInv

-----------------------------------------------------------------------------
\* A write of one proposal's status.
LEMMA SavedFacts ==
  ASSUME RemediationTyped, NEW p \in ProposalIds, NEW to \in ProposalStatus, NEW v \in Verdicts, Saved(p, to, v)
  PROVE  /\ proposals' \in [ProposalIds -> ProposalRecord]
         /\ \A q \in ProposalIds : q # p => proposals'[q] = proposals[q]
         /\ proposals'[p].status = to /\ proposals'[p].verification = v
         /\ proposals'[p].issue = proposals[p].issue
<1>1. proposals \in [ProposalIds -> ProposalRecord]
  BY DEF RemediationTyped
<1> DEFINE new == [[proposals[p] EXCEPT !.status = to] EXCEPT !.verification = v]
<1>2. new \in ProposalRecord /\ new.status = to /\ new.verification = v /\ new.issue = proposals[p].issue
  <2>1. proposals[p] \in ProposalRecord
    BY <1>1
  <2> QED
    BY <2>1 DEF ProposalRecord
<1>3. proposals' = [proposals EXCEPT ![p] = new]
  BY <1>1 DEF Saved
<1> HIDE DEF new
<1> QED
  BY <1>1, <1>2, <1>3

\* A compare-and-swap whose caller does not look at its result.
LEMMA TransitionFacts ==
  ASSUME RemediationTyped, NEW p \in ProposalIds, NEW from, NEW to \in ProposalStatus, Transition(p, from, to)
  PROVE  /\ proposals' \in [ProposalIds -> ProposalRecord]
         /\ \A q \in ProposalIds : q # p => proposals'[q] = proposals[q]
         /\ proposals'[p].verification = proposals[p].verification
         /\ proposals'[p].issue = proposals[p].issue
         /\ \/ proposals'[p].status = proposals[p].status
            \/ proposals[p].status = from /\ proposals'[p].status = to
<1>1. proposals \in [ProposalIds -> ProposalRecord] /\ proposals[p].verification \in Verdicts
  BY DEF RemediationTyped, ProposalRecord
<1>2. CASE proposals' = proposals
  BY <1>1, <1>2
<1>3. CASE proposals[p].status = from /\ Saved(p, to, proposals[p].verification)
  BY <1>1, <1>3, SavedFacts
<1> QED
  BY <1>2, <1>3 DEF Transition, MayTransition, SaveFails, remediationStore

\* A proposal nobody writes proceeds.
LEMMA StoreUnchanged ==
  ASSUME proposals' = proposals
  PROVE  \A q \in ProposalIds : Proceeds(q)
BY DEF Proceeds

LEMMA PruneKeeps == ASSUME RemediationInv, NEW p \in ProposalIds, PruneRetention(p) PROVE RemediationInv'
<1>1. proposals \in [ProposalIds -> ProposalRecord] /\ proposals[p] \in ProposalRecord
  BY DEF RemediationInv, RemediationTyped
<1>2. PICK v \in Verdicts : v = proposals[p].verification
  BY <1>1 DEF ProposalRecord
<1>3. [proposals[p] EXCEPT !.status = "PRUNED"] = [[proposals[p] EXCEPT !.status = "PRUNED"] EXCEPT !.verification = v]
  BY <1>1, <1>2 DEF ProposalRecord
<1>4. Saved(p, "PRUNED", v)
  BY <1>1, <1>3 DEF PruneRetention, Saved
<1>5. "PRUNED" \in ProposalStatus
  BY DEF ProposalStatus
<1>6. /\ proposals' \in [ProposalIds -> ProposalRecord]
      /\ \A q \in ProposalIds : q # p => proposals'[q] = proposals[q]
      /\ proposals'[p].status = "PRUNED" /\ proposals'[p].verification = proposals[p].verification
      /\ proposals'[p].issue = proposals[p].issue
  BY <1>2, <1>4, <1>5, SavedFacts DEF RemediationInv
<1>7. /\ proposals[p].status \in TerminalProposal
      /\ UNCHANGED <<target, engine, queue, workers, approvers, recovering, sent, effect, learned>>
  BY DEF PruneRetention, remediationHistory
<1>8. RemediationTyped'
  BY <1>6, <1>7 DEF RemediationInv, RemediationTyped
<1>9. CalmStep
  BY <1>6, <1>7 DEF CalmStep, Proceeds
<1> QED
  BY <1>8, <1>9, CalmStepKeeps

LEMMA ExpiryKeeps == ASSUME RemediationInv, NEW p \in ProposalIds, ProposalExpires(p) PROVE RemediationInv'
<1>1. proposals \in [ProposalIds -> ProposalRecord] /\ proposals[p] \in ProposalRecord
  BY DEF RemediationInv, RemediationTyped
<1> DEFINE new == [proposals[p] EXCEPT !.expired = TRUE]
<1>2. /\ new \in ProposalRecord /\ new.status = proposals[p].status
      /\ new.verification = proposals[p].verification /\ new.issue = proposals[p].issue
  BY <1>1 DEF ProposalRecord
<1>3. /\ proposals' = [proposals EXCEPT ![p] = new]
      /\ UNCHANGED <<target, engine, queue, workers, approvers, recovering, sent, effect, learned>>
  BY <1>1 DEF ProposalExpires, remediationHistory
<1> HIDE DEF new
<1>4. RemediationTyped'
  BY <1>1, <1>2, <1>3 DEF RemediationInv, RemediationTyped
<1>5. CalmStep
  BY <1>1, <1>2, <1>3 DEF CalmStep, Proceeds
<1> QED
  BY <1>4, <1>5, CalmStepKeeps

LEMMA RejectKeeps == ASSUME RemediationInv, NEW p \in ProposalIds, Reject(p) PROVE RemediationInv'
<1>1. PICK to \in {"EXPIRED", "REJECTED"} : Transition(p, "PENDING", to)
  BY DEF Reject
<1>2. to \in ProposalStatus
  BY DEF ProposalStatus, TerminalProposal
<1>3. UNCHANGED <<target, engine, queue, workers, approvers, recovering, sent, effect, learned>>
  BY DEF Reject, remediationHistory
<1>4. RemediationTyped'
  BY <1>1, <1>2, <1>3, TransitionFacts DEF RemediationInv, RemediationTyped
<1>5. \A q \in ProposalIds : Proceeds(q)
  BY <1>1, <1>2, TransitionFacts DEF RemediationInv, Proceeds
<1>6. CalmStep
  BY <1>3, <1>5 DEF CalmStep
<1> QED
  BY <1>4, <1>6, CalmStepKeeps

LEMMA CreateKeeps == ASSUME RemediationInv, NEW i \in Issues, CreateProposal(i) PROVE RemediationInv'
<1>1. PICK p \in ProposalIds :
        /\ proposals[p].status = "NONE"
        /\ proposals' = [proposals EXCEPT ![p] = [NoProposal EXCEPT !.issue = i, !.version = target[i], !.status = "PENDING"]]
  BY DEF CreateProposal
<1>2. /\ ActiveFor(i) = {}
      /\ UNCHANGED <<target, engine, queue, workers, approvers, recovering, sent, effect, learned>>
  BY DEF CreateProposal, remediationHistory
<1>3. proposals \in [ProposalIds -> ProposalRecord] /\ target[i] \in Nat
  BY DEF RemediationInv, RemediationTyped
<1> DEFINE new == [NoProposal EXCEPT !.issue = i, !.version = target[i], !.status = "PENDING"]
<1>4. new \in ProposalRecord /\ new.status = "PENDING" /\ new.issue = i
  <2>1. NoProposal \in ProposalRecord
    BY DEF NoProposal, ProposalRecord, ProposalStatus, Verdicts
  <2>2. "PENDING" \in ProposalStatus
    BY DEF ProposalStatus, ActiveProposal
  <2> QED
    BY <1>3, <2>1, <2>2 DEF ProposalRecord
<1> HIDE DEF new
<1>5. /\ proposals' \in [ProposalIds -> ProposalRecord]
      /\ \A q \in ProposalIds : q # p => proposals'[q] = proposals[q]
      /\ proposals'[p].status = "PENDING" /\ proposals'[p].issue = i
  <2>1. proposals' = [proposals EXCEPT ![p] = new]
    BY <1>1 DEF new
  <2> QED
    BY <2>1, <1>3, <1>4
<1>6. RemediationTyped'
  BY <1>2, <1>5 DEF RemediationInv, RemediationTyped
<1>7. sent[p] = 0 /\ p \notin effect /\ p \notin learned
  BY <1>1 DEF RemediationInv, UnsentBefore, ProposalOutcomeIsTrue
<1>8. \A w \in Workers : ~Executes(w, p)
  BY <1>1 DEF RemediationInv, ExecutingInOneHand
<1>9. ExecutingInOneHand' /\ SnapshotHolds'
  <2>1. \A r \in recovering : r.status = "EXECUTING" => r.id \in ProposalIds /\ r.id # p
    BY <1>1 DEF RemediationInv, RemediationTyped, Listing, SnapshotHolds
  <2> QED
    BY <1>2, <1>5, <1>8, <2>1 DEF RemediationInv, ExecutingInOneHand, SnapshotHolds, Executes
<1>10. HandsAreTrue'
  <2>1. \A w \in Workers : workers[w].pc = "finish" => workers[w].id \in ProposalIds /\ workers[w].id # p
    BY <1>8 DEF RemediationInv, RemediationTyped, Executes
  <2> QED
    BY <1>2, <1>5, <2>1 DEF RemediationInv, HandsAreTrue
<1>11. UnsentBefore' /\ MutatedAtMostOnce' /\ ProposalOutcomeIsTrue'
  BY <1>2, <1>5, <1>7 DEF RemediationInv, UnsentBefore, MutatedAtMostOnce, ProposalOutcomeIsTrue
<1>12. OneActiveProposal'
  <2>1. \A q \in ProposalIds : proposals[q].issue = i => proposals[q].status \notin ActiveProposal
    BY <1>2 DEF ActiveFor
  <2> QED
    BY <1>5, <2>1 DEF RemediationInv, OneActiveProposal
<1> QED
  BY <1>6, <1>9, <1>10, <1>11, <1>12 DEF RemediationInv

LEMMA ApproveValidatesKeeps ==
  ASSUME RemediationInv, NEW a \in Approvers, NEW p \in ProposalIds, ApproveValidates(a, p)
  PROVE  RemediationInv'
<1>1. UNCHANGED <<target, engine, queue, workers, recovering, sent, effect, learned>> /\ engine # "down"
  BY DEF ApproveValidates, remediationHistory
<1>2. \/ approvers' = approvers /\ \E to \in {"EXPIRED", "STALE", "REJECTED"} : Transition(p, "PENDING", to)
      \/ approvers' = [approvers EXCEPT ![a] = [pc |-> "approve", id |-> p]] /\ proposals' = proposals
  BY DEF ApproveValidates, remediationStore
<1>3. /\ approvers' \in [Approvers -> Request]
      /\ \A b \in Approvers : approvers'[b].pc # "idle" => approvers'[b].id \in ProposalIds
  <2>1. [pc |-> "approve", id |-> p] \in Request /\ [pc |-> "approve", id |-> p].id = p
    BY DEF Request, ProposalIds
  <2> QED
    BY <1>2, <2>1 DEF RemediationInv, RemediationTyped
<1>4. proposals' \in [ProposalIds -> ProposalRecord] /\ \A q \in ProposalIds : Proceeds(q)
  <2>1. CASE proposals' = proposals
    BY <2>1, StoreUnchanged DEF RemediationInv, RemediationTyped
  <2>2. ASSUME NEW to \in {"EXPIRED", "STALE", "REJECTED"}, Transition(p, "PENDING", to)
        PROVE  proposals' \in [ProposalIds -> ProposalRecord] /\ \A q \in ProposalIds : Proceeds(q)
    <3>1. to \in ProposalStatus
      BY DEF ProposalStatus, TerminalProposal
    <3> QED
      BY <2>2, <3>1, TransitionFacts DEF RemediationInv, Proceeds
  <2> QED
    BY <1>2, <2>1, <2>2
<1>5. RemediationTyped'
  BY <1>1, <1>3, <1>4 DEF RemediationInv, RemediationTyped
<1>6. CalmStep
  BY <1>1, <1>4 DEF CalmStep
<1> QED
  BY <1>5, <1>6, CalmStepKeeps

\* A request that goes on, or ends, keeps its proposal.
LEMMA RequestsStayTyped ==
  ASSUME RemediationTyped, NEW a \in Approvers,
         approvers' = [approvers EXCEPT ![a].pc = "enqueue"] \/ approvers' = [approvers EXCEPT ![a] = NoRequest],
         approvers[a].pc # "idle"
  PROVE  /\ approvers' \in [Approvers -> Request]
         /\ \A b \in Approvers : approvers'[b].pc # "idle" => approvers'[b].id \in ProposalIds
<1>1. /\ approvers \in [Approvers -> Request] /\ approvers[a] \in Request /\ approvers[a].id \in ProposalIds
      /\ \A b \in Approvers : approvers[b].pc # "idle" => approvers[b].id \in ProposalIds
  BY DEF RemediationTyped
<1> DEFINE next == [approvers[a] EXCEPT !.pc = "enqueue"]
<1>2. next \in Request /\ next.id = approvers[a].id
  BY <1>1 DEF Request
<1>3. NoRequest \in Request /\ NoRequest.pc = "idle"
  BY DEF NoRequest, Request
<1>4. approvers' = [approvers EXCEPT ![a] = next] \/ approvers' = [approvers EXCEPT ![a] = NoRequest]
  OBVIOUS
<1> HIDE DEF next
<1> QED
  BY <1>1, <1>2, <1>3, <1>4

LEMMA ApproveCommitsKeeps ==
  ASSUME RemediationInv, NEW a \in Approvers, ApproveCommits(a)
  PROVE  RemediationInv'
<1> DEFINE p == approvers[a].id
<1>1. UNCHANGED <<target, engine, queue, workers, recovering, sent, effect, learned>>
  BY DEF ApproveCommits, remediationHistory
<1>2. engine # "down" /\ approvers[a].pc # "idle" /\ p \in ProposalIds
  BY DEF ApproveCommits, RemediationInv, RemediationTyped
<1>3. \/ proposals[p].status = "PENDING" /\ Saved(p, "APPROVED", "")
      \/ proposals' = proposals
  BY DEF ApproveCommits, MayTransition, SaveFails, remediationStore
<1>4. approvers' = [approvers EXCEPT ![a].pc = "enqueue"] \/ approvers' = [approvers EXCEPT ![a] = NoRequest]
  BY DEF ApproveCommits
<1> HIDE DEF p
<1>5. proposals' \in [ProposalIds -> ProposalRecord] /\ \A q \in ProposalIds : Proceeds(q)
  <2>1. CASE proposals' = proposals
    BY <2>1, StoreUnchanged DEF RemediationInv, RemediationTyped
  <2>2. CASE proposals[p].status = "PENDING" /\ Saved(p, "APPROVED", "")
    <3>1. "APPROVED" \in ProposalStatus /\ "" \in Verdicts
      BY DEF ProposalStatus, ActiveProposal, Verdicts
    <3> QED
      BY <1>2, <2>2, <3>1, SavedFacts DEF RemediationInv, Proceeds
  <2> QED
    BY <1>3, <2>1, <2>2
<1>6. RemediationTyped'
  BY <1>1, <1>2, <1>4, <1>5, RequestsStayTyped DEF RemediationInv, RemediationTyped
<1>7. CalmStep
  BY <1>1, <1>5 DEF CalmStep
<1> QED
  BY <1>6, <1>7, CalmStepKeeps

LEMMA EnqueueKeeps ==
  ASSUME RemediationInv, NEW a \in Approvers, Enqueue(a)
  PROVE  RemediationInv'
<1>1. /\ UNCHANGED <<proposals, target, engine, workers, recovering, sent, effect, learned>>
      /\ approvers' = [approvers EXCEPT ![a] = NoRequest]
      /\ engine # "down" /\ approvers[a].pc # "idle" /\ approvers[a].id \in ProposalIds
  BY DEF Enqueue, remediationHistory, RemediationInv, RemediationTyped
<1>2. queue' \in Seq(ProposalIds)
  <2>1. queue \in Seq(ProposalIds) /\ (queue' = queue \/ queue' = Append(queue, approvers[a].id))
    BY DEF Enqueue, RemediationInv, RemediationTyped
  <2> QED
    BY <1>1, <2>1
<1>3. /\ approvers' \in [Approvers -> Request]
      /\ \A b \in Approvers : approvers'[b].pc # "idle" => approvers'[b].id \in ProposalIds
  BY <1>1, RequestsStayTyped DEF RemediationInv
<1>4. RemediationTyped'
  BY <1>1, <1>2, <1>3 DEF RemediationInv, RemediationTyped
<1>5. CalmStep
  BY <1>1, StoreUnchanged DEF CalmStep
<1> QED
  BY <1>4, <1>5, CalmStepKeeps

-----------------------------------------------------------------------------
\* A worker that takes something, goes on or lets go.
LEMMA HandsStayTyped ==
  ASSUME RemediationTyped, NEW w \in Workers, NEW hand \in Hand,
         hand.pc # "idle" => hand.id \in ProposalIds, workers' = [workers EXCEPT ![w] = hand]
  PROVE  /\ workers' \in [Workers -> Hand]
         /\ \A v \in Workers : workers'[v].pc # "idle" => workers'[v].id \in ProposalIds
         /\ workers'[w] = hand /\ \A v \in Workers : v # w => workers'[v] = workers[v]
BY DEF RemediationTyped

LEMMA IdleHandTyped == IdleHand \in Hand /\ IdleHand.pc = "idle"
BY DEF IdleHand, Hand

LEMMA HeadTailTyped ==
  ASSUME NEW S, NEW s \in Seq(S), s # <<>>
  PROVE  Head(s) \in S /\ Tail(s) \in Seq(S)
OBVIOUS

LEMMA DequeueKeeps == ASSUME RemediationInv, NEW w \in Workers, Dequeue(w) PROVE RemediationInv'
<1>1. /\ UNCHANGED <<proposals, target, engine, approvers, recovering, sent, effect, learned>>
      /\ engine # "down" /\ queue # <<>> /\ queue' = Tail(queue) /\ workers[w].pc = "idle"
      /\ workers' = [workers EXCEPT ![w] = [pc |-> "got", id |-> Head(queue), result |-> ""]]
  BY DEF Dequeue, remediationHistory
<1>2. queue \in Seq(ProposalIds)
  BY DEF RemediationInv, RemediationTyped
<1>3. queue' \in Seq(ProposalIds) /\ Head(queue) \in ProposalIds
  BY <1>1, <1>2, HeadTailTyped
<1> DEFINE p == Head(queue)
           hand == [pc |-> "got", id |-> p, result |-> ""]
<1>4. workers' = [workers EXCEPT ![w] = hand]
  BY <1>1
<1> HIDE DEF p
<1>5. hand \in Hand /\ hand.pc = "got" /\ hand.id \in ProposalIds
  BY <1>3 DEF Hand, ProposalIds, p
<1> HIDE DEF hand
<1>6. /\ workers' \in [Workers -> Hand]
      /\ \A v \in Workers : workers'[v].pc # "idle" => workers'[v].id \in ProposalIds
      /\ workers'[w] = hand /\ \A v \in Workers : v # w => workers'[v] = workers[v]
  BY <1>4, <1>5, HandsStayTyped DEF RemediationInv
<1>7. RemediationTyped'
  BY <1>1, <1>3, <1>6 DEF RemediationInv, RemediationTyped
<1>8. CalmStep
  BY <1>1, <1>5, <1>6, StoreUnchanged DEF CalmStep
<1> QED
  BY <1>7, <1>8, CalmStepKeeps

LEMMA LookUpKeeps == ASSUME RemediationInv, NEW w \in Workers, LookUp(w) PROVE RemediationInv'
<1> DEFINE p == workers[w].id
<1>1. /\ UNCHANGED <<target, engine, queue, approvers, recovering, sent, effect, learned>>
      /\ workers[w].pc = "got" /\ engine # "down" /\ p \in ProposalIds
  BY DEF LookUp, remediationHistory, RemediationInv, RemediationTyped
<1>2. proposals' = proposals \/ Transition(p, "APPROVED", "EXPIRED")
  BY DEF LookUp, remediationStore
<1>3. workers' = [workers EXCEPT ![w] = IdleHand] \/ workers' = [workers EXCEPT ![w].pc = "start"]
  BY DEF LookUp
<1> HIDE DEF p
<1>4. proposals' \in [ProposalIds -> ProposalRecord] /\ \A q \in ProposalIds : Proceeds(q)
  <2>1. CASE proposals' = proposals
    BY <2>1, StoreUnchanged DEF RemediationInv, RemediationTyped
  <2>2. CASE Transition(p, "APPROVED", "EXPIRED")
    <3>1. "EXPIRED" \in ProposalStatus
      BY DEF ProposalStatus, TerminalProposal
    <3> QED
      BY <1>1, <2>2, <3>1, TransitionFacts DEF RemediationInv, Proceeds
  <2> QED
    BY <1>2, <2>1, <2>2
<1>5. PICK hand \in Hand : /\ workers' = [workers EXCEPT ![w] = hand] /\ hand.pc \in {"idle", "start"}
                           /\ hand.pc # "idle" => hand.id \in ProposalIds
  <2> DEFINE next == [workers[w] EXCEPT !.pc = "start"]
  <2>1. workers[w] \in Hand
    BY DEF RemediationInv, RemediationTyped
  <2>2. next \in Hand /\ next.pc = "start" /\ next.id \in ProposalIds
    BY <1>1, <2>1 DEF Hand, p
  <2>3. workers' = [workers EXCEPT ![w] = IdleHand] \/ workers' = [workers EXCEPT ![w] = next]
    BY <1>3
  <2> HIDE DEF next
  <2> QED
    BY <2>2, <2>3, IdleHandTyped
<1>6. /\ workers' \in [Workers -> Hand]
      /\ \A v \in Workers : workers'[v].pc # "idle" => workers'[v].id \in ProposalIds
      /\ workers'[w] = hand /\ \A v \in Workers : v # w => workers'[v] = workers[v]
  BY <1>5, HandsStayTyped DEF RemediationInv
<1>7. RemediationTyped'
  BY <1>1, <1>4, <1>6 DEF RemediationInv, RemediationTyped
<1>8. CalmStep
  BY <1>1, <1>4, <1>5, <1>6 DEF CalmStep
<1> QED
  BY <1>7, <1>8, CalmStepKeeps

\* The durable EXECUTING: from then on the proposal is in this worker's hands alone.
LEMMA StartExecutionKeeps ==
  ASSUME RemediationInv, NEW w \in Workers, StartExecution(w)
  PROVE  RemediationInv'
<1> DEFINE p == workers[w].id
           next == [workers[w] EXCEPT !.pc = "execute"]
<1>1. /\ UNCHANGED <<target, engine, queue, approvers, recovering, sent, effect, learned>>
      /\ workers[w].pc = "start" /\ engine # "down" /\ p \in ProposalIds /\ workers[w] \in Hand
  BY DEF StartExecution, remediationHistory, RemediationInv, RemediationTyped
<1>2. \/ proposals' = proposals /\ workers' = [workers EXCEPT ![w] = IdleHand]
      \/ /\ proposals[p].status = "APPROVED" /\ Saved(p, "EXECUTING", "")
         /\ workers' = [workers EXCEPT ![w] = next]
  BY DEF StartExecution, SaveFails, remediationStore, MayTransition
<1>3. next \in Hand /\ next.pc = "execute" /\ next.id = p
  BY <1>1 DEF Hand
<1> HIDE DEF p, next
<1>4. CASE proposals' = proposals /\ workers' = [workers EXCEPT ![w] = IdleHand]
  <2>1. /\ workers' \in [Workers -> Hand]
        /\ \A v \in Workers : workers'[v].pc # "idle" => workers'[v].id \in ProposalIds
        /\ workers'[w] = IdleHand /\ \A v \in Workers : v # w => workers'[v] = workers[v]
    BY <1>4, IdleHandTyped, HandsStayTyped DEF RemediationInv
  <2>2. RemediationTyped'
    BY <1>1, <1>4, <2>1 DEF RemediationInv, RemediationTyped
  <2>3. CalmStep
    BY <1>1, <1>4, <2>1, IdleHandTyped, StoreUnchanged DEF CalmStep
  <2> QED
    BY <2>2, <2>3, CalmStepKeeps
<1>5. CASE /\ proposals[p].status = "APPROVED" /\ Saved(p, "EXECUTING", "")
           /\ workers' = [workers EXCEPT ![w] = next]
  <2>1. /\ workers' \in [Workers -> Hand]
        /\ \A v \in Workers : workers'[v].pc # "idle" => workers'[v].id \in ProposalIds
        /\ workers'[w] = next /\ \A v \in Workers : v # w => workers'[v] = workers[v]
    BY <1>1, <1>3, <1>5, HandsStayTyped DEF RemediationInv
  <2>2. "EXECUTING" \in ProposalStatus /\ "" \in Verdicts
    BY DEF ProposalStatus, ActiveProposal, Verdicts
  <2>3. /\ proposals' \in [ProposalIds -> ProposalRecord]
        /\ \A q \in ProposalIds : q # p => proposals'[q] = proposals[q]
        /\ proposals'[p].status = "EXECUTING" /\ proposals'[p].issue = proposals[p].issue
    BY <1>1, <1>5, <2>2, SavedFacts DEF RemediationInv
  <2>4. RemediationTyped'
    BY <1>1, <2>1, <2>3 DEF RemediationInv, RemediationTyped
  <2>5. sent[p] = 0 /\ p \notin effect /\ p \notin learned
    BY <1>1, <1>5 DEF RemediationInv, UnsentBefore, ProposalOutcomeIsTrue
  <2>6. \A v \in Workers : ~Executes(v, p)
    BY <1>1, <1>5 DEF RemediationInv, ExecutingInOneHand
  <2>7. \A r \in recovering : r.id = p => r.status # "EXECUTING"
    BY <1>5 DEF RemediationInv, SnapshotHolds
  <2>8. ExecutingInOneHand'
    <3>1. ASSUME NEW v \in Workers, NEW q \in ProposalIds, Executes(v, q)'
          PROVE  (v = w /\ q = p) \/ (v # w /\ q # p /\ Executes(v, q))
      BY <1>3, <2>1, <2>6, <3>1 DEF Executes
    <3>2. ASSUME NEW q \in ProposalIds, q # p
          PROVE  \A v \in Workers : Executes(v, q) =>
                   /\ proposals'[q].status = "EXECUTING"
                   /\ \A u \in Workers : Executes(u, q)' => u = v
                   /\ \A r \in recovering : r.id = q => r.status # "EXECUTING"
      BY <2>3, <3>1, <3>2 DEF RemediationInv, ExecutingInOneHand
    <3> QED
      BY <1>1, <2>3, <2>7, <3>1, <3>2 DEF ExecutingInOneHand
  <2>9. SnapshotHolds'
    BY <1>1, <2>3 DEF RemediationInv, RemediationTyped, SnapshotHolds, Listing
  <2>10. HandsAreTrue'
    <3>1. HandsAreTrue!(w)'
      BY <1>1, <1>3, <2>1, <2>5
    <3>2. ASSUME NEW v \in Workers, v # w PROVE HandsAreTrue!(v)'
      <4>1. workers'[v] = workers[v] /\ (workers[v].pc = "finish" => workers[v].id \in ProposalIds)
        BY <2>1, <3>2 DEF RemediationInv, RemediationTyped
      <4>2. HandsAreTrue!(v)
        BY DEF RemediationInv, HandsAreTrue
      <4>3. workers[v].pc = "finish" => proposals'[workers[v].id].issue = proposals[workers[v].id].issue
        BY <2>3, <4>1
      <4> QED
        BY <1>1, <4>1, <4>2, <4>3
    <3> QED
      BY <3>1, <3>2 DEF HandsAreTrue
  <2>11. UnsentBefore' /\ MutatedAtMostOnce' /\ ProposalOutcomeIsTrue'
    BY <1>1, <2>3, <2>5 DEF RemediationInv, UnsentBefore, MutatedAtMostOnce, ProposalOutcomeIsTrue
  <2>12. OneActiveProposal'
    <3>1. ASSUME NEW q \in ProposalIds, proposals'[q].status \in ActiveProposal
          PROVE  proposals[q].status \in ActiveProposal /\ proposals'[q].issue = proposals[q].issue
      BY <1>5, <2>3, <3>1 DEF ActiveProposal
    <3> QED
      BY <3>1 DEF RemediationInv, OneActiveProposal
  <2> QED
    BY <2>4, <2>8, <2>9, <2>10, <2>11, <2>12 DEF RemediationInv
<1> QED
  BY <1>2, <1>4, <1>5

LEMMA CounterTyped ==
  ASSUME NEW S, NEW f \in [S -> Nat], NEW x
  PROVE  [f EXCEPT ![x] = @ + 1] \in [S -> Nat]
<1>1. CASE x \in S
  BY <1>1
<1>2. CASE x \notin S
  BY <1>2
<1> QED
  BY <1>1, <1>2

\* What Execute does to the one proposal in hand.
LEMMA ExecuteFacts ==
  ASSUME RemediationInv, NEW w \in Workers, Execute(w)
  PROVE  LET p == workers[w].id
         IN  /\ p \in ProposalIds /\ sent[p] = 0 /\ p \notin effect
             /\ sent' = sent \/ sent' = [sent EXCEPT ![p] = @ + 1]
             /\ target' \in [Issues -> Nat]
             /\ \E x \in {"ok", "error", "stale"} :
                  /\ workers' = [workers EXCEPT ![w].pc = "finish", ![w].result = x]
                  /\ x = "stale" => effect' = effect
                  /\ x = "ok" => p \in effect' \/ proposals[p].issue \in Untouched
             /\ effect' = effect \/ effect' = effect \cup {p}
<1> DEFINE p == workers[w].id
<1>1. workers[w].pc = "execute"
  BY DEF Execute
<1>2. p \in ProposalIds /\ sent[p] = 0 /\ p \notin effect /\ target \in [Issues -> Nat]
  BY <1>1 DEF RemediationInv, RemediationTyped, HandsAreTrue
<1>3. PICK v \in Validations(p) :
          \/ /\ v = "stale"
             /\ workers' = [workers EXCEPT ![w].pc = "finish", ![w].result = "stale"]
             /\ sent' \in {sent, [sent EXCEPT ![p] = @ + 1]}
             /\ UNCHANGED <<target, effect>>
          \/ /\ v = "protected" \/ (v = "ok" /\ proposals[p].issue \notin Untouched)
             /\ workers' = [workers EXCEPT ![w].pc = "finish", ![w].result = "error"]
             /\ sent' = IF v = "ok" THEN [sent EXCEPT ![p] = @ + 1] ELSE sent
             /\ UNCHANGED <<target, effect>>
          \/ /\ v = "ok" /\ proposals[p].issue \in Untouched
             /\ workers' = [workers EXCEPT ![w].pc = "finish", ![w].result = "ok"]
             /\ UNCHANGED <<target, sent, effect>>
          \/ /\ MutationApplied(p)
             /\ \E answered \in BOOLEAN :
                  workers' = [workers EXCEPT ![w].pc = "finish", ![w].result = LostAnswer(answered)]
  BY Zenon DEF Execute
<1> HIDE DEF p
<1> DEFINE done(x) == workers' = [workers EXCEPT ![w].pc = "finish", ![w].result = x]
<1>4. CASE MutationApplied(p) /\ \E answered \in BOOLEAN : done(LostAnswer(answered))
  <2>1. \E x \in {"ok", "error"} : done(x)
    BY <1>4 DEF LostAnswer
  <2>2. effect' = effect \cup {p} /\ sent' = [sent EXCEPT ![p] = @ + 1]
    BY <1>4 DEF MutationApplied
  <2>3. target' \in [Issues -> Nat]
    BY <1>2, <1>4, CounterTyped DEF MutationApplied
  <2>4. \E x \in {"ok", "error", "stale"} :
          /\ done(x)
          /\ x = "stale" => effect' = effect
          /\ x = "ok" => p \in effect' \/ proposals[p].issue \in Untouched
    <3> HIDE DEF done
    <3> QED
      BY <2>1, <2>2
  <2> QED
    BY <1>2, <2>2, <2>3, <2>4 DEF p
<1>5. CASE done("stale") /\ sent' \in {sent, [sent EXCEPT ![p] = @ + 1]} /\ UNCHANGED <<target, effect>>
  BY <1>2, <1>5 DEF p
<1>6. CASE done("error") /\ sent' \in {sent, [sent EXCEPT ![p] = @ + 1]} /\ UNCHANGED <<target, effect>>
  BY <1>2, <1>6 DEF p
<1>7. CASE proposals[p].issue \in Untouched /\ done("ok") /\ UNCHANGED <<target, sent, effect>>
  BY <1>2, <1>7 DEF p
<1> QED
  BY <1>3, <1>4, <1>5, <1>6, <1>7

LEMMA ExecuteKeeps == ASSUME RemediationInv, NEW w \in Workers, Execute(w) PROVE RemediationInv'
<1> DEFINE p == workers[w].id
<1>1. /\ p \in ProposalIds /\ sent[p] = 0 /\ p \notin effect
      /\ sent' = sent \/ sent' = [sent EXCEPT ![p] = @ + 1]
      /\ target' \in [Issues -> Nat]
      /\ effect' = effect \/ effect' = effect \cup {p}
  BY ExecuteFacts
<1>2. PICK x \in {"ok", "error", "stale"} :
        /\ workers' = [workers EXCEPT ![w].pc = "finish", ![w].result = x]
        /\ x = "stale" => effect' = effect
        /\ x = "ok" => p \in effect' \/ proposals[p].issue \in Untouched
  BY ExecuteFacts
<1>3. /\ UNCHANGED <<proposals, engine, queue, approvers, recovering, learned>>
      /\ workers[w].pc = "execute" /\ engine # "down" /\ workers[w] \in Hand
  BY DEF Execute, RemediationInv, RemediationTyped
<1> DEFINE next == [[workers[w] EXCEPT !.pc = "finish"] EXCEPT !.result = x]
<1>4. next \in Hand /\ next.pc = "finish" /\ next.id = p /\ next.result = x
  BY <1>3 DEF Hand
<1>5. workers' = [workers EXCEPT ![w] = next]
  <2>1. workers \in [Workers -> Hand]
    BY DEF RemediationInv, RemediationTyped
  <2> QED
    BY <1>2, <2>1
<1>6. Executes(w, p)
  BY <1>3 DEF Executes
<1> HIDE DEF p, next
<1>7. /\ workers' \in [Workers -> Hand]
      /\ \A v \in Workers : workers'[v].pc # "idle" => workers'[v].id \in ProposalIds
      /\ workers'[w] = next /\ \A v \in Workers : v # w => workers'[v] = workers[v]
  BY <1>1, <1>4, <1>5, HandsStayTyped DEF RemediationInv
<1>8. /\ sent' \in [ProposalIds -> Nat] /\ effect' \subseteq ProposalIds /\ sent'[p] <= 1
      /\ \A q \in ProposalIds : q # p => sent'[q] = sent[q] /\ (q \in effect' <=> q \in effect)
  <2>1. sent \in [ProposalIds -> Nat] /\ effect \subseteq ProposalIds
    BY DEF RemediationInv, RemediationTyped
  <2>2. effect' \subseteq ProposalIds /\ \A q \in ProposalIds : q # p => (q \in effect' <=> q \in effect)
    BY <1>1, <2>1
  <2>3. sent' \in [ProposalIds -> Nat] /\ sent'[p] <= 1 /\ \A q \in ProposalIds : q # p => sent'[q] = sent[q]
    BY <1>1, <2>1
  <2> QED
    BY <2>2, <2>3
<1>9. RemediationTyped'
  BY <1>1, <1>3, <1>7, <1>8 DEF RemediationInv, RemediationTyped
<1>10. proposals[p].status = "EXECUTING" /\ \A v \in Workers : Executes(v, p) => v = w
  BY <1>1, <1>6 DEF RemediationInv, ExecutingInOneHand
<1>11. \A v \in Workers, q \in ProposalIds : Executes(v, q)' => Executes(v, q)
  <2>1. workers[w].id = p
    BY DEF p
  <2> QED
    BY <1>3, <1>4, <1>7, <2>1 DEF Executes
<1>12. ExecutingInOneHand' /\ SnapshotHolds'
  BY <1>3, <1>11 DEF RemediationInv, ExecutingInOneHand, SnapshotHolds
<1>13. HandsAreTrue'
  <2>1. HandsAreTrue!(w)'
    BY <1>1, <1>2, <1>3, <1>4, <1>7
  <2>2. ASSUME NEW v \in Workers, v # w PROVE HandsAreTrue!(v)'
    <3>1. workers'[v] = workers[v] /\ HandsAreTrue!(v)
      BY <1>7, <2>2 DEF RemediationInv, HandsAreTrue
    <3>2. CASE workers[v].pc \in {"execute", "finish"}
      <4>1. workers[v].id \in ProposalIds
        BY <3>2 DEF RemediationInv, RemediationTyped
      <4>2. workers[v].id # p
        BY <1>10, <2>2, <3>2, <4>1 DEF Executes
      <4> QED
        BY <1>3, <1>8, <3>1, <4>1, <4>2
    <3> QED
      BY <3>1, <3>2
  <2> QED
    BY <2>1, <2>2 DEF HandsAreTrue
<1>14. UnsentBefore' /\ MutatedAtMostOnce' /\ ProposalOutcomeIsTrue'
  BY <1>1, <1>3, <1>8, <1>10 DEF RemediationInv, UnsentBefore, MutatedAtMostOnce, ProposalOutcomeIsTrue
<1>15. OneActiveProposal'
  BY <1>3 DEF RemediationInv, OneActiveProposal
<1> QED
  BY <1>9, <1>12, <1>13, <1>14, <1>15 DEF RemediationInv

LEMMA FinishExecutionKeeps ==
  ASSUME RemediationInv, NEW w \in Workers, FinishExecution(w)
  PROVE  RemediationInv'
<1>p. PICK p \in ProposalIds : p = workers[w].id
  BY DEF FinishExecution, RemediationInv, RemediationTyped
<1>1. /\ UNCHANGED <<target, engine, queue, approvers, recovering, sent, effect>>
      /\ workers[w].pc = "finish" /\ engine # "down"
      /\ workers' = [workers EXCEPT ![w] = IdleHand]
  BY DEF FinishExecution, RemediationInv, RemediationTyped
<1>2. \/ proposals' = proposals /\ learned' = learned
      \/ workers[w].result = "stale" /\ Transition(p, "EXECUTING", "STALE") /\ learned' = learned
      \/ workers[w].result = "error" /\ Transition(p, "EXECUTING", "FAILED") /\ learned' = learned
      \/ /\ workers[w].result \notin {"stale", "error"}
         /\ \E v \in Verifications(p) :
              /\ Saved(p, "COMPLETED", v)
              /\ learned' = learned \/ (v = "VERIFIED" /\ learned' = learned \cup {p})
  BY <1>p DEF FinishExecution, SaveFails
<1>3. /\ workers[w].result \in {"ok", "error", "stale"}
      /\ workers[w].result = "stale" => p \notin effect
      /\ workers[w].result = "ok" => p \in effect \/ proposals[p].issue \in Untouched
  BY <1>p, <1>1 DEF RemediationInv, HandsAreTrue
<1>4. Executes(w, p)
  BY <1>p, <1>1 DEF Executes
<1>5. /\ workers' \in [Workers -> Hand]
      /\ \A v \in Workers : workers'[v].pc # "idle" => workers'[v].id \in ProposalIds
      /\ workers'[w] = IdleHand /\ \A v \in Workers : v # w => workers'[v] = workers[v]
  BY <1>1, IdleHandTyped, HandsStayTyped DEF RemediationInv
<1>6. proposals[p].status = "EXECUTING" /\ \A v \in Workers : Executes(v, p) => v = w
  BY <1>1, <1>4 DEF RemediationInv, ExecutingInOneHand
<1>7. \A v \in Workers : ~Executes(v, p)'
  BY <1>1, <1>5, <1>6, IdleHandTyped DEF Executes
<1> DEFINE Good == /\ proposals' \in [ProposalIds -> ProposalRecord]
                   /\ learned' \subseteq ProposalIds
                   /\ \A q \in ProposalIds : Proceeds(q)
                   /\ \A q \in ProposalIds : q \in learned' =>
                        q \in learned \/ LearnedTruly(q)
<1>8. {"STALE", "FAILED", "COMPLETED"} \subseteq ProposalStatus
  BY DEF ProposalStatus, TerminalProposal
<1>9. Good
  <2>1. learned \subseteq ProposalIds /\ proposals \in [ProposalIds -> ProposalRecord]
    BY DEF RemediationInv, RemediationTyped
  <2>2. CASE proposals' = proposals /\ learned' = learned
    BY <2>1, <2>2, StoreUnchanged
  <2>3. ASSUME NEW to \in {"STALE", "FAILED"}, Transition(p, "EXECUTING", to), learned' = learned,
               to = "STALE" => p \notin effect
        PROVE  Good
    <3>1. to \in ProposalStatus
      BY <1>8
    <3>2. /\ proposals' \in [ProposalIds -> ProposalRecord]
          /\ \A q \in ProposalIds : q # p => proposals'[q] = proposals[q]
          /\ proposals'[p].verification = proposals[p].verification
          /\ proposals'[p].issue = proposals[p].issue
          /\ proposals'[p].status \in {proposals[p].status, to}
      BY <1>1, <2>3, <3>1, TransitionFacts DEF RemediationInv
    <3>3. Proceeds(p)
      BY <1>6, <1>7, <2>3, <3>2 DEF Proceeds, Ends
    <3>4. \A q \in ProposalIds : Proceeds(q)
      BY <3>2, <3>3 DEF Proceeds
    <3> QED
      BY <2>1, <2>3, <3>2, <3>4
  <2>4. ASSUME NEW v \in Verifications(p), Saved(p, "COMPLETED", v),
               learned' = learned \/ (v = "VERIFIED" /\ learned' = learned \cup {p}),
               workers[w].result = "ok"
        PROVE  Good
    <3>1. v \in Verdicts
      BY DEF Verifications, Verdicts
    <3>2. /\ proposals' \in [ProposalIds -> ProposalRecord]
          /\ \A q \in ProposalIds : q # p => proposals'[q] = proposals[q]
          /\ proposals'[p].status = "COMPLETED" /\ proposals'[p].verification = v
          /\ proposals'[p].issue = proposals[p].issue
      BY <1>1, <1>8, <2>4, <3>1, SavedFacts DEF RemediationInv
    <3>3. Proceeds(p)
      BY <1>3, <1>6, <1>7, <2>4, <3>2 DEF Proceeds, Ends
    <3>4. \A q \in ProposalIds : Proceeds(q)
      BY <3>2, <3>3 DEF Proceeds
    <3>5. v = "VERIFIED" => LearnedTruly(p)
      BY <1>3, <2>4, <3>2 DEF LearnedTruly, Verifications, Untouched
    <3> QED
      BY <1>1, <2>1, <2>4, <3>2, <3>4, <3>5
  <2> QED
    BY <1>2, <1>3, <2>2, <2>3, <2>4
<1>10. RemediationTyped'
  BY <1>1, <1>5, <1>9 DEF RemediationInv, RemediationTyped
<1>11. CalmStep
  BY <1>1, <1>5, <1>9, IdleHandTyped DEF CalmStep
<1> QED
  BY <1>10, <1>11, CalmStepKeeps

-----------------------------------------------------------------------------
\* A step that only drops work in memory.
LEMMA DroppedKeeps ==
  ASSUME RemediationInv, RemediationTyped',
         \A w \in Workers : workers'[w] = workers[w] \/ workers'[w].pc = "idle",
         recovering' \subseteq recovering,
         UNCHANGED <<proposals, sent, effect, learned>>
  PROVE  RemediationInv'
<1>1. CalmStep
  BY StoreUnchanged DEF CalmStep
<1> QED
  BY <1>1, CalmStepKeeps

LEMMA CloseKeeps == ASSUME RemediationInv, CloseEngine PROVE RemediationInv'
<1>1. RemediationTyped'
  BY DEF CloseEngine, RemediationInv, RemediationTyped, remediationHistory
<1> QED
  BY <1>1, DroppedKeeps DEF CloseEngine, remediationHistory

LEMMA StopKeeps == ASSUME RemediationInv, StopProcess PROVE RemediationInv'
<1>1. NoRequest \in Request /\ NoRequest.pc = "idle"
  BY DEF NoRequest, Request
<1>2. RemediationTyped'
  BY <1>1, IdleHandTyped DEF StopProcess, RemediationInv, RemediationTyped, remediationHistory
<1> QED
  BY <1>2, IdleHandTyped, DroppedKeeps DEF StopProcess, remediationHistory

\* Recovery lists what the store holds when no worker has anything in hand.
LEMMA StartEngineKeeps == ASSUME RemediationInv, StartEngine PROVE RemediationInv'
<1>1. /\ UNCHANGED <<proposals, target, queue, workers, approvers, sent, effect, learned>>
      /\ engine' = "up" /\ recovering' = Listed /\ \A w \in Workers : workers[w].pc = "idle"
  BY DEF StartEngine, remediationHistory, RemediationInv, RemediationTyped
<1>2. \A r \in Listed : r \in Listing /\ r.status = proposals[r.id].status
  <2>1. ASSUME NEW q \in ProposalIds, proposals[q].status \in ActiveProposal,
               NEW r, r = [id |-> q, status |-> proposals[q].status, expired |-> proposals[q].expired]
        PROVE  r \in Listing /\ r.status = proposals[r.id].status
    BY <2>1 DEF RemediationInv, RemediationTyped, ProposalRecord, Listing
  <2> QED
    BY <2>1 DEF Listed
<1>3. RemediationTyped'
  BY <1>1, <1>2 DEF RemediationInv, RemediationTyped
<1>4. ExecutingInOneHand' /\ HandsAreTrue'
  BY <1>1 DEF ExecutingInOneHand, HandsAreTrue, Executes
<1>5. SnapshotHolds'
  BY <1>1, <1>2 DEF SnapshotHolds
<1>6. (UnsentBefore /\ MutatedAtMostOnce /\ ProposalOutcomeIsTrue /\ OneActiveProposal)'
  BY <1>1 DEF RemediationInv, UnsentBefore, MutatedAtMostOnce, ProposalOutcomeIsTrue, OneActiveProposal
<1> QED
  BY <1>3, <1>4, <1>5, <1>6 DEF RemediationInv

\* What recovery fails was interrupted: no worker has it in hand.
LEMMA RecoverKeeps == ASSUME RemediationInv, RecoverNext PROVE RemediationInv'
<1>1. PICK r \in recovering : Recover(r) /\ recovering' = recovering \ {r}
  BY DEF RecoverNext
<1>2. /\ UNCHANGED <<target, engine, workers, approvers, sent, effect, learned>> /\ engine = "up"
  BY DEF RecoverNext, remediationHistory
<1>3. PICK p \in ProposalIds : p = r.id
  BY DEF RemediationInv, RemediationTyped, Listing
<1>4. \/ proposals' = proposals /\ (queue' = queue \/ queue' = Append(queue, p))
      \/ queue' = queue /\ \E from \in {"PENDING", "APPROVED"} : Transition(p, from, "EXPIRED")
      \/ queue' = queue /\ r.status = "EXECUTING" /\ Transition(p, "EXECUTING", "FAILED")
  BY <1>1, <1>3 DEF Recover, remediationStore
<1>5. r.status = "EXECUTING" => \A w \in Workers : ~Executes(w, p)'
  <2>1. \A w \in Workers : Executes(w, p)' => Executes(w, p)
    BY <1>2 DEF Executes
  <2> QED
    BY <1>1, <1>3, <2>1 DEF RemediationInv, ExecutingInOneHand
<1>6. proposals' \in [ProposalIds -> ProposalRecord] /\ \A q \in ProposalIds : Proceeds(q)
  <2>1. CASE proposals' = proposals
    BY <2>1, StoreUnchanged DEF RemediationInv, RemediationTyped
  <2>2. ASSUME NEW from \in {"PENDING", "APPROVED"}, Transition(p, from, "EXPIRED")
        PROVE  proposals' \in [ProposalIds -> ProposalRecord] /\ \A q \in ProposalIds : Proceeds(q)
    <3>1. "EXPIRED" \in ProposalStatus
      BY DEF ProposalStatus, TerminalProposal
    <3> QED
      BY <2>2, <3>1, TransitionFacts DEF RemediationInv, Proceeds
  <2>3. CASE r.status = "EXECUTING" /\ Transition(p, "EXECUTING", "FAILED")
    <3>1. "FAILED" \in ProposalStatus
      BY DEF ProposalStatus, TerminalProposal
    <3>2. /\ proposals' \in [ProposalIds -> ProposalRecord]
          /\ \A q \in ProposalIds : q # p => proposals'[q] = proposals[q]
          /\ proposals'[p].verification = proposals[p].verification
          /\ proposals'[p].issue = proposals[p].issue
          /\ \/ proposals'[p].status = proposals[p].status
             \/ proposals[p].status = "EXECUTING" /\ proposals'[p].status = "FAILED"
      BY <2>3, <3>1, TransitionFacts DEF RemediationInv
    <3>3. Proceeds(p)
      BY <1>5, <2>3, <3>2 DEF Proceeds, Ends
    <3> QED
      BY <3>2, <3>3 DEF Proceeds
  <2> QED
    BY <1>4, <2>1, <2>2, <2>3
<1>7. queue' \in Seq(ProposalIds)
  <2>1. queue \in Seq(ProposalIds) /\ (queue' = queue \/ queue' = Append(queue, p))
    BY <1>4 DEF RemediationInv, RemediationTyped
  <2> QED
    BY <2>1
<1>8. RemediationTyped'
  BY <1>1, <1>2, <1>6, <1>7 DEF RemediationInv, RemediationTyped
<1>9. CalmStep
  BY <1>1, <1>2, <1>6 DEF CalmStep
<1> QED
  BY <1>8, <1>9, CalmStepKeeps

LEMMA TargetChangesKeeps == ASSUME RemediationInv, NEW i \in Issues, TargetChanges(i) PROVE RemediationInv'
<1>1. /\ target' = [target EXCEPT ![i] = @ + 1] /\ target \in [Issues -> Nat]
      /\ UNCHANGED <<proposals, engine, queue, workers, approvers, recovering, sent, effect, learned>>
  BY DEF TargetChanges, remediationHistory, RemediationInv, RemediationTyped
<1>2. target' \in [Issues -> Nat]
  BY <1>1, CounterTyped
<1>3. RemediationTyped'
  BY <1>1, <1>2 DEF RemediationInv, RemediationTyped
<1> QED
  BY <1>1, <1>3, DroppedKeeps

LEMMA RemediationInductive == RemediationInv /\ [RemediationNext]_remediationVars => RemediationInv'
<1> SUFFICES ASSUME RemediationInv, [RemediationNext]_remediationVars PROVE RemediationInv'
  OBVIOUS
<1>1. CASE UNCHANGED remediationVars
  <2>1. RemediationTyped'
    BY <1>1 DEF remediationVars, RemediationInv, RemediationTyped
  <2> QED
    BY <1>1, <2>1, DroppedKeeps DEF remediationVars
<1>2. CASE \E p \in ProposalIds : PruneRetention(p) \/ ProposalExpires(p) \/ Reject(p)
  BY <1>2, PruneKeeps, ExpiryKeeps, RejectKeeps
<1>3. CASE \E i \in Issues : CreateProposal(i) \/ TargetChanges(i)
  BY <1>3, CreateKeeps, TargetChangesKeeps
<1>4. CASE \/ \E a \in Approvers, p \in ProposalIds : ApproveValidates(a, p)
           \/ \E a \in Approvers : ApproveCommits(a) \/ Enqueue(a)
  BY <1>4, ApproveValidatesKeeps, ApproveCommitsKeeps, EnqueueKeeps
<1>5. CASE \E w \in Workers : WorkerNext(w)
  BY <1>5, DequeueKeeps, LookUpKeeps, StartExecutionKeeps, ExecuteKeeps, FinishExecutionKeeps DEF WorkerNext
<1>6. CASE CloseEngine \/ EngineClosed \/ EngineCrashes \/ StartEngine \/ RecoverNext
  BY <1>6, CloseKeeps, StopKeeps, StartEngineKeeps, RecoverKeeps DEF EngineClosed, EngineCrashes
<1> QED
  BY <1>1, <1>2, <1>3, <1>4, <1>5, <1>6 DEF RemediationNext

LEMMA RemediationIsInvariant == RemediationSpec => []RemediationInv
BY RemediationStarts, RemediationInductive, PTL DEF RemediationSpec

\* However approvals, workers, crashes and recovery interleave, the mutation of a proposal is
\* sent to the API server at most once.
THEOREM RemediationMutatesOnce == RemediationSpec => []MutatedAtMostOnce
<1>1. RemediationInv => MutatedAtMostOnce
  BY DEF RemediationInv
<1> QED
  BY <1>1, RemediationIsInvariant, PTL

\* What the store records of a proposal is true of the cluster, up to manual actions and the
\* version bumps the executor has no call for, and only durable, verified completions that took
\* effect or are such a bump are learned from.
THEOREM RemediationRecordsTruth == RemediationSpec => []ProposalOutcomeIsTrue
<1>1. RemediationInv => ProposalOutcomeIsTrue
  BY DEF RemediationInv
<1> QED
  BY <1>1, RemediationIsInvariant, PTL

\* An issue never has two active proposals, through creation, execution and recovery.
THEOREM RemediationActsAlone == RemediationSpec => []OneActiveProposal
<1>1. RemediationInv => OneActiveProposal
  BY DEF RemediationInv
<1> QED
  BY <1>1, RemediationIsInvariant, PTL

-----------------------------------------------------------------------------
\* The promise of ProposalPromise, step by step.  A proposal never changes what it is about, and
\* versions only grow, so a target that is another one stays another one.
TargetsAge ==
  \A p \in ProposalIds :
    proposals[p].status # "NONE" =>
      proposals[p].issue \in Issues /\ proposals[p].version <= target[proposals[p].issue]

StatusOf == [p \in ProposalIds |-> proposals[p].status]
ManualOnes == {p \in ProposalIds : proposals[p].status # "NONE" /\ proposals[p].issue \in Manual}
NominalOnes == {p \in ProposalIds : proposals[p].status # "NONE" /\ proposals[p].issue \in Nominal}
CurrentOnes ==
  {p \in ProposalIds : proposals[p].status # "NONE" /\ target[proposals[p].issue] = proposals[p].version}

KeptStep == (Kept!Next \/ UNCHANGED Kept!proposalVars) /\ TargetsAge'

Pinned(q) == proposals'[q].issue = proposals[q].issue /\ proposals'[q].version = proposals[q].version

\* No status changes, or that of one proposal.
Rests == \A q \in ProposalIds : Pinned(q) /\ proposals'[q].status = proposals[q].status
Turns(p, to) ==
  /\ \A q \in ProposalIds : Pinned(q) /\ (q # p => proposals'[q].status = proposals[q].status)
  /\ proposals'[p].status = to

\* Moves of the promise that only change the status.
SimpleMoves ==
  {<<"PENDING", "APPROVED">>, <<"PENDING", "REJECTED">>, <<"PENDING", "STALE">>, <<"PENDING", "EXPIRED">>,
   <<"APPROVED", "EXPIRED">>, <<"APPROVED", "EXECUTING">>, <<"EXECUTING", "FAILED">>}

LEMMA RestIsKept ==
  ASSUME TargetsAge, Rests, UNCHANGED <<target, effect, learned>>
  PROVE  KeptStep
<1>1. StatusOf' = StatusOf /\ ManualOnes' = ManualOnes /\ NominalOnes' = NominalOnes /\ CurrentOnes' = CurrentOnes
  BY DEF Rests, Pinned, StatusOf, ManualOnes, NominalOnes, CurrentOnes
<1>2. UNCHANGED Kept!proposalVars
  BY <1>1 DEF Kept!proposalVars, StatusOf, ManualOnes, NominalOnes, CurrentOnes
<1>3. TargetsAge'
  BY DEF TargetsAge, Rests, Pinned
<1> QED
  BY <1>2, <1>3 DEF KeptStep

LEMMA TurnFacts ==
  ASSUME TargetsAge, NEW p \in ProposalIds, NEW to, to # "NONE", proposals[p].status # "NONE",
         Turns(p, to), target' = target
  PROVE  /\ StatusOf' = [StatusOf EXCEPT ![p] = to]
         /\ ManualOnes' = ManualOnes /\ NominalOnes' = NominalOnes /\ CurrentOnes' = CurrentOnes /\ TargetsAge'
<1>1. \A q \in ProposalIds : Pinned(q) /\ (q # p => proposals'[q].status = proposals[q].status)
  BY DEF Turns
<1>2. \A q \in ProposalIds : proposals'[q].status # "NONE" <=> proposals[q].status # "NONE"
  BY <1>1 DEF Turns
<1>3. StatusOf' = [StatusOf EXCEPT ![p] = to]
  BY <1>1 DEF Turns, StatusOf
<1>4. ManualOnes' = ManualOnes /\ NominalOnes' = NominalOnes /\ CurrentOnes' = CurrentOnes
  BY <1>1, <1>2 DEF Pinned, ManualOnes, NominalOnes, CurrentOnes
<1>5. TargetsAge'
  BY <1>1, <1>2 DEF TargetsAge, Pinned
<1> QED
  BY <1>3, <1>4, <1>5

\* The moves of one proposal, in the words of the promise.
LEMMA MoveIsKept ==
  ASSUME TargetsAge, NEW p \in ProposalIds, NEW from, NEW to, proposals[p].status = from, from # "NONE", to # "NONE",
         Turns(p, to), UNCHANGED <<target, effect, learned>>,
         \/ <<from, to>> \in SimpleMoves
         \/ from = "EXECUTING" /\ to = "STALE" /\ p \notin effect
         \/ from \in TerminalProposal /\ to = "PRUNED"
  PROVE  KeptStep
<1>1. /\ StatusOf' = [StatusOf EXCEPT ![p] = to]
      /\ ManualOnes' = ManualOnes /\ NominalOnes' = NominalOnes /\ CurrentOnes' = CurrentOnes /\ TargetsAge'
  BY TurnFacts
<1>2. StatusOf[p] = from
  BY DEF StatusOf
<1>3. ASSUME NEW S, from \in S PROVE Kept!Move(p, S, to)
  BY <1>1, <1>2, <1>3 DEF Kept!Move, Kept!Becomes, StatusOf, ManualOnes, NominalOnes, CurrentOnes
<1>4. Kept!Decide(p) \/ Kept!Start(p) \/ Kept!GiveUp(p) \/ Kept!Forget(p)
  <2>1. CASE <<from, to>> \in SimpleMoves
    <3>1. from = "PENDING" \/ from = "APPROVED" \/ from = "EXECUTING"
      BY <2>1 DEF SimpleMoves
    <3>2. CASE from = "PENDING"
      <4>1. to \in {"APPROVED", "REJECTED", "STALE", "EXPIRED"}
        BY <2>1, <3>2 DEF SimpleMoves
      <4>2. Kept!Move(p, {"PENDING"}, to) /\ Kept!Move(p, {"PENDING", "APPROVED"}, to)
        BY <1>3, <3>2
      <4> QED
        BY <4>1, <4>2 DEF Kept!Decide
    <3>3. CASE from = "APPROVED"
      <4>1. to \in {"EXPIRED", "EXECUTING"}
        BY <2>1, <3>3 DEF SimpleMoves
      <4>2. Kept!Move(p, {"APPROVED"}, to) /\ Kept!Move(p, {"PENDING", "APPROVED"}, to)
        BY <1>3, <3>3
      <4> QED
        BY <4>1, <4>2 DEF Kept!Decide, Kept!Start
    <3>4. CASE from = "EXECUTING"
      <4>1. to = "FAILED"
        BY <2>1, <3>4 DEF SimpleMoves
      <4>2. Kept!Move(p, {"EXECUTING"}, to)
        BY <1>3, <3>4
      <4> QED
        BY <4>1, <4>2 DEF Kept!GiveUp
    <3> QED
      BY <3>1, <3>2, <3>3, <3>4
  <2>2. CASE from = "EXECUTING" /\ to = "STALE" /\ p \notin effect
    <3>1. Kept!Move(p, {"EXECUTING"}, to)
      BY <1>3, <2>2
    <3> QED
      BY <2>2, <3>1 DEF Kept!GiveUp
  <2>3. CASE from \in TerminalProposal /\ to = "PRUNED"
    <3>1. Kept!Move(p, TerminalProposal, to)
      BY <1>3, <2>3
    <3> QED
      BY <2>3, <3>1 DEF Kept!Forget, TerminalProposal
  <2> QED
    BY <2>1, <2>2, <2>3
<1> QED
  BY <1>1, <1>4 DEF KeptStep, Kept!Next

LEMMA SavedTurns ==
  ASSUME RemediationTyped, NEW p \in ProposalIds, NEW to, NEW v, Saved(p, to, v)
  PROVE  Turns(p, to)
<1>1. proposals \in [ProposalIds -> ProposalRecord] /\ proposals[p] \in ProposalRecord
  BY DEF RemediationTyped
<1> DEFINE new == [[proposals[p] EXCEPT !.status = to] EXCEPT !.verification = v]
<1>2. new.status = to /\ new.issue = proposals[p].issue /\ new.version = proposals[p].version
  BY <1>1 DEF ProposalRecord
<1>3. proposals' = [proposals EXCEPT ![p] = new]
  BY <1>1 DEF Saved
<1> HIDE DEF new
<1> QED
  BY <1>1, <1>2, <1>3 DEF Turns, Pinned

LEMMA TransitionTurns ==
  ASSUME RemediationTyped, NEW p \in ProposalIds, NEW from, NEW to, Transition(p, from, to)
  PROVE  Rests \/ (proposals[p].status = from /\ Turns(p, to))
<1>1. CASE proposals' = proposals
  BY <1>1 DEF Rests, Pinned
<1>2. CASE proposals[p].status = from /\ Saved(p, to, proposals[p].verification)
  BY <1>2, SavedTurns
<1> QED
  BY <1>1, <1>2 DEF Transition, MayTransition, SaveFails, remediationStore

\* A compare-and-swap of the store is a move of the promise or nothing.
LEMMA TransitionIsKept ==
  ASSUME RemediationTyped, TargetsAge, NEW p \in ProposalIds, NEW from, NEW to, from # "NONE", to # "NONE",
         Transition(p, from, to), UNCHANGED <<target, effect, learned>>,
         <<from, to>> \in SimpleMoves \/ (from = "EXECUTING" /\ to = "STALE" /\ p \notin effect)
  PROVE  KeptStep
  BY TransitionTurns, RestIsKept, MoveIsKept

\* A step that leaves the store alone.
LEMMA StoreRests ==
  ASSUME TargetsAge, UNCHANGED <<proposals, target, effect, learned>>
  PROVE  KeptStep
<1>1. Rests
  BY DEF Rests, Pinned
<1> QED
  BY <1>1, RestIsKept

LEMMA PruneIsKept ==
  ASSUME RemediationInv, TargetsAge, NEW p \in ProposalIds, PruneRetention(p) PROVE KeptStep
<1>1. proposals \in [ProposalIds -> ProposalRecord] /\ proposals[p] \in ProposalRecord
  BY DEF RemediationInv, RemediationTyped
<1>2. Turns(p, "PRUNED")
  <2> DEFINE new == [proposals[p] EXCEPT !.status = "PRUNED"]
  <2>1. new.status = "PRUNED" /\ new.issue = proposals[p].issue /\ new.version = proposals[p].version
    BY <1>1 DEF ProposalRecord
  <2>2. proposals' = [proposals EXCEPT ![p] = new]
    BY <1>1 DEF PruneRetention
  <2> HIDE DEF new
  <2> QED
    BY <1>1, <2>1, <2>2 DEF Turns, Pinned
<1>3. PICK from \in TerminalProposal : from = proposals[p].status
  BY DEF PruneRetention
<1>4. UNCHANGED <<target, effect, learned>> /\ from # "NONE"
  BY DEF PruneRetention, remediationHistory, TerminalProposal
<1> QED
  BY <1>2, <1>3, <1>4, MoveIsKept

LEMMA ExpiryIsKept ==
  ASSUME RemediationInv, TargetsAge, NEW p \in ProposalIds, ProposalExpires(p) PROVE KeptStep
<1>1. proposals \in [ProposalIds -> ProposalRecord] /\ proposals[p] \in ProposalRecord
  BY DEF RemediationInv, RemediationTyped
<1>2. Rests
  <2> DEFINE new == [proposals[p] EXCEPT !.expired = TRUE]
  <2>1. /\ new.status = proposals[p].status /\ new.issue = proposals[p].issue
        /\ new.version = proposals[p].version
    BY <1>1 DEF ProposalRecord
  <2>2. proposals' = [proposals EXCEPT ![p] = new]
    BY <1>1 DEF ProposalExpires
  <2> HIDE DEF new
  <2> QED
    BY <1>1, <2>1, <2>2 DEF Rests, Pinned
<1>3. UNCHANGED <<target, effect, learned>>
  BY DEF ProposalExpires, remediationHistory
<1> QED
  BY <1>2, <1>3, RestIsKept

LEMMA RejectIsKept ==
  ASSUME RemediationInv, TargetsAge, NEW p \in ProposalIds, Reject(p) PROVE KeptStep
<1>1. PICK to \in {"EXPIRED", "REJECTED"} : Transition(p, "PENDING", to)
  BY DEF Reject
<1>2. UNCHANGED <<target, effect, learned>>
  BY DEF Reject, remediationHistory
<1>3. <<"PENDING", to>> \in SimpleMoves /\ to # "NONE"
  BY DEF SimpleMoves
<1> QED
  BY <1>1, <1>2, <1>3, TransitionIsKept DEF RemediationInv

LEMMA CreateIsKept ==
  ASSUME RemediationInv, TargetsAge, NEW i \in Issues, CreateProposal(i) PROVE KeptStep
<1>1. proposals \in [ProposalIds -> ProposalRecord] /\ target \in [Issues -> Nat]
  BY DEF RemediationInv, RemediationTyped
<1> DEFINE new == [NoProposal EXCEPT !.issue = i, !.version = target[i], !.status = "PENDING"]
<1>2. PICK p \in ProposalIds : proposals[p].status = "NONE" /\ proposals' = [proposals EXCEPT ![p] = new]
  BY DEF CreateProposal
<1>3. new.issue = i /\ new.version = target[i] /\ new.status = "PENDING"
  BY DEF NoProposal
<1>4. UNCHANGED <<target, effect, learned>>
  BY DEF CreateProposal, remediationHistory
<1> HIDE DEF new
<1>5. proposals'[p] = new /\ \A q \in ProposalIds : q # p => proposals'[q] = proposals[q]
  BY <1>1, <1>2
<1>6. StatusOf[p] = "NONE" /\ StatusOf' = [StatusOf EXCEPT ![p] = "PENDING"]
  <2>1. proposals'[p].status = "PENDING" /\ \A q \in ProposalIds : q # p => proposals'[q].status = proposals[q].status
    BY <1>3, <1>5
  <2> QED
    BY <1>2, <2>1 DEF StatusOf
<1>7. \/ ManualOnes' = ManualOnes /\ NominalOnes' = NominalOnes
      \/ ManualOnes' = ManualOnes \cup {p} /\ NominalOnes' = NominalOnes
      \/ ManualOnes' = ManualOnes /\ NominalOnes' = NominalOnes \cup {p}
  <2>1. \A q \in ProposalIds : q # p => (q \in ManualOnes' <=> q \in ManualOnes) /\ (q \in NominalOnes' <=> q \in NominalOnes)
    BY <1>5 DEF ManualOnes, NominalOnes
  <2>2. p \notin ManualOnes /\ p \notin NominalOnes /\ (p \in ManualOnes' <=> i \in Manual) /\ (p \in NominalOnes' <=> i \in Nominal)
    BY <1>2, <1>3, <1>5 DEF ManualOnes, NominalOnes
  <2>3. /\ ManualOnes \subseteq ProposalIds /\ NominalOnes \subseteq ProposalIds
        /\ ManualOnes' \subseteq ProposalIds /\ NominalOnes' \subseteq ProposalIds
    BY DEF ManualOnes, NominalOnes
  <2>4. ManualOnes' = IF i \in Manual THEN ManualOnes \cup {p} ELSE ManualOnes
    BY <2>1, <2>2, <2>3
  <2>5. NominalOnes' = IF i \in Nominal THEN NominalOnes \cup {p} ELSE NominalOnes
    BY <2>1, <2>2, <2>3
  <2> QED
    BY <2>4, <2>5
<1>8. CurrentOnes' = CurrentOnes \cup {p}
  <2>1. \A q \in ProposalIds : q \in CurrentOnes' <=> q \in CurrentOnes \/ q = p
    BY <1>3, <1>4, <1>5 DEF CurrentOnes
  <2> QED
    BY <2>1 DEF CurrentOnes
<1>9. TargetsAge'
  BY <1>1, <1>3, <1>4, <1>5 DEF TargetsAge
<1>10. Kept!Create(p)
  BY <1>4, <1>6, <1>7, <1>8 DEF Kept!Create, Kept!Becomes, StatusOf, ManualOnes, NominalOnes, CurrentOnes
<1> QED
  BY <1>9, <1>10 DEF KeptStep, Kept!Next

LEMMA ApproveValidatesIsKept ==
  ASSUME RemediationInv, TargetsAge, NEW a \in Approvers, NEW p \in ProposalIds, ApproveValidates(a, p)
  PROVE  KeptStep
<1>1. UNCHANGED <<target, effect, learned>>
  BY DEF ApproveValidates, remediationHistory
<1>2. \/ \E to \in {"EXPIRED", "STALE", "REJECTED"} : Transition(p, "PENDING", to)
      \/ UNCHANGED remediationStore
  BY DEF ApproveValidates
<1>3. CASE UNCHANGED remediationStore
  BY <1>1, <1>3, StoreRests DEF remediationStore
<1>4. CASE \E to \in {"EXPIRED", "STALE", "REJECTED"} : Transition(p, "PENDING", to)
  <2>1. PICK to \in {"EXPIRED", "STALE", "REJECTED"} : Transition(p, "PENDING", to)
    BY <1>4
  <2>2. <<"PENDING", to>> \in SimpleMoves /\ to # "NONE"
    BY DEF SimpleMoves
  <2> QED
    BY <1>1, <2>1, <2>2, TransitionIsKept DEF RemediationInv
<1> QED
  BY <1>2, <1>3, <1>4

LEMMA ApproveCommitsIsKept ==
  ASSUME RemediationInv, TargetsAge, NEW a \in Approvers, ApproveCommits(a) PROVE KeptStep
<1>1. UNCHANGED <<target, effect, learned>>
  BY DEF ApproveCommits, remediationHistory
<1>2. PICK p \in ProposalIds : p = approvers[a].id
  BY DEF ApproveCommits, RemediationInv, RemediationTyped
<1>3. proposals' = proposals \/ (proposals[p].status = "PENDING" /\ Saved(p, "APPROVED", ""))
  BY <1>2 DEF ApproveCommits, MayTransition, SaveFails, remediationStore
<1>4. CASE proposals' = proposals
  BY <1>1, <1>4, StoreRests
<1>5. CASE proposals[p].status = "PENDING" /\ Saved(p, "APPROVED", "")
  <2>1. Turns(p, "APPROVED") /\ <<"PENDING", "APPROVED">> \in SimpleMoves
    BY <1>5, SavedTurns DEF RemediationInv, SimpleMoves
  <2> QED
    BY <1>1, <1>5, <2>1, MoveIsKept
<1> QED
  BY <1>3, <1>4, <1>5

LEMMA LookUpIsKept ==
  ASSUME RemediationInv, TargetsAge, NEW w \in Workers, LookUp(w) PROVE KeptStep
<1>1. UNCHANGED <<target, effect, learned>>
  BY DEF LookUp, remediationHistory
<1>2. PICK p \in ProposalIds : p = workers[w].id
  BY DEF LookUp, RemediationInv, RemediationTyped
<1>3. UNCHANGED remediationStore \/ Transition(p, "APPROVED", "EXPIRED")
  BY <1>2 DEF LookUp
<1>4. CASE UNCHANGED remediationStore
  BY <1>1, <1>4, StoreRests DEF remediationStore
<1>5. CASE Transition(p, "APPROVED", "EXPIRED")
  <2>1. <<"APPROVED", "EXPIRED">> \in SimpleMoves
    BY DEF SimpleMoves
  <2> QED
    BY <1>1, <1>5, <2>1, TransitionIsKept DEF RemediationInv
<1> QED
  BY <1>3, <1>4, <1>5

LEMMA StartExecutionIsKept ==
  ASSUME RemediationInv, TargetsAge, NEW w \in Workers, StartExecution(w) PROVE KeptStep
<1>1. UNCHANGED <<target, effect, learned>>
  BY DEF StartExecution, remediationHistory
<1>2. PICK p \in ProposalIds : p = workers[w].id
  BY DEF StartExecution, RemediationInv, RemediationTyped
<1>3. proposals' = proposals \/ (proposals[p].status = "APPROVED" /\ Saved(p, "EXECUTING", ""))
  BY <1>2 DEF StartExecution, MayTransition, SaveFails, remediationStore
<1>4. CASE proposals' = proposals
  BY <1>1, <1>4, StoreRests
<1>5. CASE proposals[p].status = "APPROVED" /\ Saved(p, "EXECUTING", "")
  <2>1. Turns(p, "EXECUTING") /\ <<"APPROVED", "EXECUTING">> \in SimpleMoves
    BY <1>5, SavedTurns DEF RemediationInv, SimpleMoves
  <2> QED
    BY <1>1, <1>5, <2>1, MoveIsKept
<1> QED
  BY <1>3, <1>4, <1>5
\* A target that changes is no longer the one any proposal is about.
LEMMA TargetsGrow ==
  ASSUME RemediationTyped, TargetsAge, NEW i \in Issues, proposals' = proposals,
         target' = [target EXCEPT ![i] = @ + 1]
  PROVE  /\ TargetsAge' /\ CurrentOnes' \subseteq CurrentOnes
         /\ \A p \in ProposalIds : proposals[p].issue = i => p \notin CurrentOnes'
<1>1. target \in [Issues -> Nat] /\ \A p \in ProposalIds : proposals[p].version \in Nat
  BY DEF RemediationTyped, ProposalRecord
<1>2. ASSUME NEW p \in ProposalIds, proposals[p].status # "NONE"
      PROVE  /\ proposals[p].version <= target'[proposals[p].issue]
             /\ proposals[p].issue = i => proposals[p].version < target'[i]
             /\ proposals[p].issue # i => target'[proposals[p].issue] = target[proposals[p].issue]
  <2>1. PICK j \in Issues : j = proposals[p].issue /\ proposals[p].version <= target[j]
    BY <1>2 DEF TargetsAge
  <2>2. CASE j = i
    BY <1>1, <2>1, <2>2
  <2>3. CASE j # i
    BY <1>1, <2>1, <2>3
  <2> QED
    BY <2>2, <2>3
<1>3. TargetsAge'
  BY <1>2 DEF TargetsAge
<1>4. ASSUME NEW p \in ProposalIds, p \in CurrentOnes' PROVE p \in CurrentOnes /\ proposals[p].issue # i
  <2>1. proposals[p].status # "NONE" /\ target'[proposals[p].issue] = proposals[p].version
    BY <1>4 DEF CurrentOnes
  <2>2. proposals[p].issue # i
    <3>1. SUFFICES ASSUME proposals[p].issue = i PROVE FALSE
      OBVIOUS
    <3>2. proposals[p].version < proposals[p].version
      BY <1>2, <2>1, <3>1
    <3> QED
      BY <1>1, <3>2
  <2> QED
    BY <1>2, <2>1, <2>2 DEF CurrentOnes
<1> QED
  BY <1>3, <1>4 DEF CurrentOnes

\* The mutation: approved, on the very version that was approved, and for the first time.
LEMMA ExecuteIsKept ==
  ASSUME RemediationInv, TargetsAge, NEW w \in Workers, Execute(w) PROVE KeptStep
<1>1. UNCHANGED <<proposals, learned>> /\ workers[w].pc = "execute"
  BY DEF Execute
<1>2. PICK p \in ProposalIds : p = workers[w].id
  BY <1>1 DEF RemediationInv, RemediationTyped
<1>3. proposals[p].status = "EXECUTING" /\ p \notin effect
  BY <1>1, <1>2 DEF RemediationInv, ExecutingInOneHand, Executes, HandsAreTrue
<1>4. PICK i \in Issues : i = proposals[p].issue
  BY <1>3 DEF TargetsAge
<1>5. \/ UNCHANGED <<target, effect>>
      \/ "ok" \in Validations(p) /\ i \notin Untouched /\ MutationApplied(p)
  BY <1>2, <1>4 DEF Execute
<1>6. CASE UNCHANGED <<target, effect>>
  BY <1>1, <1>6, StoreRests
<1>7. CASE "ok" \in Validations(p) /\ i \notin Untouched /\ MutationApplied(p)
  <2>1. target[i] = proposals[p].version
    BY <1>4, <1>7 DEF Validations
  <2>2. target \in [Issues -> Nat] /\ target' = [target EXCEPT ![i] = @ + 1] /\ effect' = effect \cup {p}
    BY <1>4, <1>7 DEF MutationApplied, RemediationInv, RemediationTyped
  <2>3. p \in CurrentOnes /\ p \notin ManualOnes /\ p \notin NominalOnes
    BY <1>3, <1>4, <1>7, <2>1 DEF CurrentOnes, ManualOnes, NominalOnes, Untouched
  <2>4. TargetsAge' /\ CurrentOnes' \subseteq CurrentOnes \ {p}
    BY <1>1, <1>4, <2>1, <2>2, TargetsGrow DEF RemediationInv
  <2>5. StatusOf' = StatusOf /\ ManualOnes' = ManualOnes /\ NominalOnes' = NominalOnes /\ StatusOf[p] = "EXECUTING"
    BY <1>1, <1>3 DEF StatusOf, ManualOnes, NominalOnes
  <2>6. Kept!TakeEffect(p)
    BY <1>1, <1>3, <2>2, <2>3, <2>4, <2>5 DEF Kept!TakeEffect, StatusOf, ManualOnes, NominalOnes, CurrentOnes
  <2> QED
    BY <2>4, <2>6 DEF KeptStep, Kept!Next
<1> QED
  BY <1>5, <1>6, <1>7

LEMMA FinishIsKept ==
  ASSUME RemediationInv, TargetsAge, NEW w \in Workers, FinishExecution(w) PROVE KeptStep
<1>1. UNCHANGED <<target, effect>> /\ workers[w].pc = "finish"
  BY DEF FinishExecution
<1>2. PICK p \in ProposalIds : p = workers[w].id
  BY <1>1 DEF RemediationInv, RemediationTyped
<1>3. /\ workers[w].result = "stale" => p \notin effect
      /\ workers[w].result \in {"ok", "error", "stale"}
      /\ workers[w].result = "ok" => p \in effect \/ proposals[p].issue \in Untouched
      /\ proposals[p].status = "EXECUTING"
  BY <1>1, <1>2 DEF RemediationInv, HandsAreTrue, ExecutingInOneHand, Executes
<1>4. CASE workers[w].result = "stale"
  <2>1. Transition(p, "EXECUTING", "STALE") /\ UNCHANGED learned
    BY <1>2, <1>4 DEF FinishExecution
  <2> QED
    BY <1>1, <1>3, <1>4, <2>1, TransitionIsKept DEF RemediationInv
<1>5. CASE workers[w].result = "error"
  <2>1. Transition(p, "EXECUTING", "FAILED") /\ UNCHANGED learned
    BY <1>2, <1>5 DEF FinishExecution
  <2>2. <<"EXECUTING", "FAILED">> \in SimpleMoves
    BY DEF SimpleMoves
  <2> QED
    BY <1>1, <2>1, <2>2, TransitionIsKept DEF RemediationInv
<1>6. CASE workers[w].result = "ok"
  <2>1. \/ SaveFails /\ UNCHANGED learned
        \/ \E v \in Verifications(p) :
             /\ Saved(p, "COMPLETED", v)
             /\ \/ v = "VERIFIED" /\ learned' = learned \cup {p}
                \/ UNCHANGED learned
    BY <1>2, <1>6 DEF FinishExecution
  <2>2. CASE SaveFails /\ UNCHANGED learned
    BY <1>1, <2>2, StoreRests DEF SaveFails
  <2>3. CASE \E v \in Verifications(p) :
               /\ Saved(p, "COMPLETED", v)
               /\ \/ v = "VERIFIED" /\ learned' = learned \cup {p}
                  \/ UNCHANGED learned
    <3>1. PICK v \in Verifications(p) :
            /\ Saved(p, "COMPLETED", v)
            /\ \/ v = "VERIFIED" /\ learned' = learned \cup {p}
               \/ UNCHANGED learned
      BY <2>3
    <3>2. Turns(p, "COMPLETED")
      BY <3>1, SavedTurns DEF RemediationInv
    <3>3. /\ StatusOf' = [StatusOf EXCEPT ![p] = "COMPLETED"]
          /\ ManualOnes' = ManualOnes /\ NominalOnes' = NominalOnes /\ CurrentOnes' = CurrentOnes /\ TargetsAge'
      BY <1>1, <1>3, <3>2, TurnFacts
    <3>4. StatusOf[p] = "EXECUTING" /\ p \in effect \cup ManualOnes \cup NominalOnes
      BY <1>3, <1>6 DEF StatusOf, ManualOnes, NominalOnes, Untouched
    <3>5. (p \notin ManualOnes /\ learned' = learned \cup {p}) \/ UNCHANGED learned
      BY <3>1 DEF Verifications, ManualOnes, NominalOnes
    <3>6. Kept!Complete(p)
      BY <1>1, <3>3, <3>4, <3>5 DEF Kept!Complete, Kept!Becomes, StatusOf, ManualOnes, NominalOnes, CurrentOnes
    <3> QED
      BY <3>3, <3>6 DEF KeptStep, Kept!Next
  <2> QED
    BY <2>1, <2>2, <2>3
<1> QED
  BY <1>3, <1>4, <1>5, <1>6

LEMMA RecoverIsKept ==
  ASSUME RemediationInv, TargetsAge, RecoverNext PROVE KeptStep
<1>1. UNCHANGED <<target, effect, learned>>
  BY DEF RecoverNext, remediationHistory
<1>2. PICK r \in recovering : Recover(r)
  BY DEF RecoverNext
<1>3. r.id \in ProposalIds /\ r.status \in ActiveProposal
  BY DEF RemediationInv, RemediationTyped, Listing
<1>4. PICK p \in ProposalIds : p = r.id
  BY <1>3
<1>5. \/ UNCHANGED remediationStore
      \/ \E from \in {"PENDING", "APPROVED"} : Transition(p, from, "EXPIRED")
      \/ Transition(p, "EXECUTING", "FAILED")
  <2>1. CASE r.expired /\ r.status \in {"PENDING", "APPROVED"}
    BY <1>2, <1>4, <2>1 DEF Recover
  <2>2. CASE ~r.expired /\ r.status = "APPROVED"
    BY <1>2, <2>2 DEF Recover
  <2>3. CASE ~r.expired /\ r.status = "EXECUTING"
    BY <1>2, <1>4, <2>3 DEF Recover
  <2>4. CASE ~(r.expired /\ r.status \in {"PENDING", "APPROVED"}) /\ (r.expired \/ r.status = "PENDING")
    BY <1>2, <2>4 DEF Recover
  <2> QED
    BY <1>3, <2>1, <2>2, <2>3, <2>4 DEF ActiveProposal
<1>6. CASE UNCHANGED remediationStore
  BY <1>1, <1>6, StoreRests DEF remediationStore
<1>7. CASE \E from \in {"PENDING", "APPROVED"} : Transition(p, from, "EXPIRED")
  <2>1. PICK from \in {"PENDING", "APPROVED"} : Transition(p, from, "EXPIRED")
    BY <1>7
  <2>2. <<from, "EXPIRED">> \in SimpleMoves /\ from # "NONE"
    BY DEF SimpleMoves
  <2> QED
    BY <1>1, <2>1, <2>2, TransitionIsKept DEF RemediationInv
<1>8. CASE Transition(p, "EXECUTING", "FAILED")
  <2>1. <<"EXECUTING", "FAILED">> \in SimpleMoves
    BY DEF SimpleMoves
  <2> QED
    BY <1>1, <1>8, <2>1, TransitionIsKept DEF RemediationInv
<1> QED
  BY <1>5, <1>6, <1>7, <1>8

LEMMA TargetChangesIsKept ==
  ASSUME RemediationInv, TargetsAge, NEW i \in Issues, TargetChanges(i) PROVE KeptStep
<1>1. /\ UNCHANGED <<proposals, effect, learned>>
      /\ target \in [Issues -> Nat] /\ target' = [target EXCEPT ![i] = @ + 1]
  BY DEF TargetChanges, remediationHistory, RemediationInv, RemediationTyped
<1>2. TargetsAge' /\ CurrentOnes' \subseteq CurrentOnes
  BY <1>1, TargetsGrow DEF RemediationInv
<1>3. StatusOf' = StatusOf /\ ManualOnes' = ManualOnes /\ NominalOnes' = NominalOnes
  BY <1>1 DEF StatusOf, ManualOnes, NominalOnes
<1>4. Kept!Outdate
  BY <1>1, <1>2, <1>3 DEF Kept!Outdate, StatusOf, ManualOnes, NominalOnes, CurrentOnes
<1> QED
  BY <1>2, <1>4 DEF KeptStep, Kept!Next

LEMMA PromiseStep ==
  ASSUME RemediationInv, TargetsAge, [RemediationNext]_remediationVars PROVE KeptStep
<1>1. CASE UNCHANGED <<proposals, target, effect, learned>>
  BY <1>1, StoreRests
<1>2. CASE UNCHANGED remediationVars
  BY <1>2, StoreRests DEF remediationVars
<1>3. CASE \E p \in ProposalIds : PruneRetention(p) \/ ProposalExpires(p) \/ Reject(p)
  BY <1>3, PruneIsKept, ExpiryIsKept, RejectIsKept
<1>4. CASE \E i \in Issues : CreateProposal(i) \/ TargetChanges(i)
  BY <1>4, CreateIsKept, TargetChangesIsKept
<1>5. CASE \E a \in Approvers, p \in ProposalIds : ApproveValidates(a, p)
  BY <1>5, ApproveValidatesIsKept
<1>6. CASE \E a \in Approvers : ApproveCommits(a) \/ Enqueue(a)
  <2>1. ASSUME NEW a \in Approvers, Enqueue(a) PROVE UNCHANGED <<proposals, target, effect, learned>>
    BY <2>1 DEF Enqueue, remediationHistory
  <2> QED
    BY <1>1, <1>6, <2>1, ApproveCommitsIsKept
<1>7. CASE \E w \in Workers : WorkerNext(w)
  <2>1. ASSUME NEW w \in Workers, Dequeue(w) PROVE UNCHANGED <<proposals, target, effect, learned>>
    BY <2>1 DEF Dequeue, remediationHistory
  <2> QED
    BY <1>1, <1>7, <2>1, LookUpIsKept, StartExecutionIsKept, ExecuteIsKept, FinishIsKept DEF WorkerNext
<1>8. CASE CloseEngine \/ EngineClosed \/ EngineCrashes \/ StartEngine
  <2>1. UNCHANGED <<proposals, target, effect, learned>>
    BY <1>8 DEF CloseEngine, EngineClosed, EngineCrashes, StopProcess, StartEngine, remediationHistory
  <2> QED
    BY <1>1, <2>1
<1>9. CASE RecoverNext
  BY <1>9, RecoverIsKept
<1> QED
  BY <1>2, <1>3, <1>4, <1>5, <1>6, <1>7, <1>8, <1>9 DEF RemediationNext

\* The engine keeps the promise of ProposalPromise: nothing is done that was not approved, a
\* mutation happens at most once and on the version that was approved, and the record
\* is true, but that a nominal bump completes without an effect, through repeated
\* approvals, failed writes, lost answers, crashes and recovery.
THEOREM ProposalPromiseIsKept == RemediationSpec => KeepsProposalPromise
<1>1. ASSUME RemediationInit PROVE Kept!Init /\ TargetsAge
  <2>1. proposals = [p \in ProposalIds |-> NoProposal] /\ NoProposal.status = "NONE" /\ effect = {} /\ learned = {}
    BY <1>1 DEF RemediationInit, NoProposal
  <2>2. StatusOf = [p \in ProposalIds |-> "NONE"] /\ ManualOnes = {} /\ CurrentOnes = {}
    BY <2>1 DEF StatusOf, ManualOnes, NominalOnes, CurrentOnes
  <2>3. Kept!Init
    BY <2>1, <2>2 DEF Kept!Init, StatusOf, ManualOnes, NominalOnes, CurrentOnes
  <2> QED
    BY <2>1, <2>3 DEF TargetsAge
<1>2. RemediationInv /\ TargetsAge /\ [RemediationNext]_remediationVars
        => TargetsAge' /\ [Kept!Next]_(Kept!proposalVars)
  BY PromiseStep DEF KeptStep
<1> QED
  BY <1>1, <1>2, RemediationIsInvariant, PTL DEF RemediationSpec, KeepsProposalPromise, Kept!Spec

-----------------------------------------------------------------------------
(* The result cache. *)

Answer == [answers : Questions, given : Nat]

CacheObject == [digest : {Digest(q) : q \in Questions}, value : Answer, expires : Nat, intact : BOOLEAN]

\* Where a client may be.
WithAnswer == [pc : {"served", "store", "put"}, q : Questions, value : Answer, at : Nat]
WithQuestion == [pc : {"discard", "provider"}, q : Questions]

CacheTyped ==
  /\ objects \subseteq CacheObject /\ IsFiniteSet(objects)
  /\ cacheLock \in [Instances -> Clients \cup {NoHolder}]
  /\ asking \in [Clients -> {Idle} \cup WithAnswer \cup WithQuestion]
  /\ cacheClock \in Nat

\* An object is the answer to the question of its digest, and expires a TTL after it was given.
ObjectsAreTrue ==
  \A o \in objects : o.digest = Digest(o.value.answers) /\ o.expires = o.value.given + TTL

\* So will be what a client is about to store.
AnswersAreTrue ==
  \A c \in Clients : asking[c].pc \in {"store", "put"} =>
                       asking[c].value.answers = asking[c].q /\ asking[c].at = asking[c].value.given

OneObjectPerDigest == \A o, p \in objects : o.digest = p.digest => o = p

\* Who writes holds the lock of its cache.
WritersHoldLock == \A c \in Clients : asking[c].pc = "put" => cacheLock[InstanceOf[c]] = c

Writing == {c \in Clients : asking[c].pc = "put"}

\* The digests that are stored or about to be.
Taken == {o.digest : o \in objects}
Promised == {Digest(asking[c].q) : c \in Writing}

CapacityHolds ==
  IsFiniteSet(Taken \cup Promised) /\ Cardinality(Taken \cup Promised) <= MaxEntries + Cardinality(Instances) - 1

CacheInv ==
  /\ CacheTyped /\ ObjectsAreTrue /\ AnswersAreTrue /\ OneObjectPerDigest /\ WritersHoldLock
  /\ CapacityHolds /\ ServedIsFresh

LEMMA InstanceFacts ==
  /\ Cardinality(Instances) \in Nat /\ MaxEntries \in Nat /\ MaxEntries >= 1 /\ TTL \in Nat /\ TTL >= 1
  /\ IsFiniteSet(Instances) /\ InstanceOf \in [Clients -> Instances] /\ NoHolder \notin Clients
BY ResultCacheAssumption, FS_CardinalityType DEF NoHolder

\* A digest determines its question.
LEMMA DigestInjective ==
  ASSUME NEW q \in Questions, NEW r \in Questions, Digest(q) = Digest(r)
  PROVE  q = r
<1>1. q \in [operation : STRING, model : STRING, prompt : STRING] /\ r \in [operation : STRING, model : STRING, prompt : STRING]
  BY ResultCacheAssumption
<1>2. q.operation = r.operation /\ q.model = r.model /\ q.prompt = r.prompt
  BY DEF Digest
<1> QED
  BY <1>1, <1>2

\* There are as many objects as digests.
LEMMA ObjectsCounted ==
  ASSUME IsFiniteSet(objects), OneObjectPerDigest
  PROVE  IsFiniteSet(Taken) /\ Cardinality(Taken) = Cardinality(objects)
<1> DEFINE f == [o \in objects |-> o.digest]
<1>1. f \in Surjection(objects, Taken) /\ f \in Injection(objects, Taken)
  BY DEF Surjection, Injection, IsInjective, Taken, OneObjectPerDigest
<1> QED
  BY <1>1, FS_Surjection

\* The writers are in different caches.
LEMMA WritersCounted ==
  ASSUME NEW I \in SUBSET Instances, WritersHoldLock, \A c \in Writing : InstanceOf[c] \in I
  PROVE  IsFiniteSet(Promised) /\ Cardinality(Promised) <= Cardinality(I)
<1>1. IsFiniteSet(I)
  BY InstanceFacts, FS_Subset
<1> DEFINE h == [c \in Writing |-> InstanceOf[c]]
<1>2. h \in Injection(Writing, I)
  BY DEF Injection, IsInjective, Writing, WritersHoldLock
<1>3. IsFiniteSet(Writing) /\ Cardinality(Writing) <= Cardinality(I)
  BY <1>1, <1>2, FS_Injection
<1> DEFINE g == [c \in Writing |-> Digest(asking[c].q)]
<1>4. g \in Surjection(Writing, Promised)
  BY DEF Surjection, Promised
<1>5. IsFiniteSet(Promised) /\ Cardinality(Promised) <= Cardinality(Writing)
  BY <1>3, <1>4, FS_Surjection
<1> QED
  BY <1>1, <1>3, <1>5, FS_CardinalityType

LEMMA CacheStarts == CacheInit => CacheInv
<1> SUFFICES ASSUME CacheInit PROVE CacheInv
  OBVIOUS
<1>1. Idle.pc = "idle"
  BY DEF Idle
<1>2. CacheTyped
  BY FS_EmptySet DEF CacheInit, CacheTyped
<1>3. ObjectsAreTrue /\ AnswersAreTrue /\ OneObjectPerDigest /\ WritersHoldLock /\ ServedIsFresh
  BY <1>1 DEF CacheInit, ObjectsAreTrue, AnswersAreTrue, OneObjectPerDigest, WritersHoldLock, ServedIsFresh
<1>4. CapacityHolds
  <2>1. Writing = {}
    BY <1>1 DEF CacheInit, Writing
  <2>2. Taken \cup Promised = {}
    BY <2>1 DEF CacheInit, Taken, Promised
  <2>3. IsFiniteSet(Taken \cup Promised) /\ Cardinality(Taken \cup Promised) = 0
    BY <2>2, FS_EmptySet
  <2> QED
    BY <2>3, InstanceFacts DEF CapacityHolds
<1> QED
  BY <1>2, <1>3, <1>4 DEF CacheInv

\* The bound is kept when nothing new is stored or promised.
LEMMA CapacityKept ==
  ASSUME CapacityHolds, Taken' \cup Promised' \subseteq Taken \cup Promised
  PROVE  CapacityHolds'
<1>1. IsFiniteSet((Taken \cup Promised)') /\ Cardinality((Taken \cup Promised)') <= Cardinality(Taken \cup Promised)
  BY FS_Subset DEF CapacityHolds
<1> QED
  BY <1>1, FS_CardinalityType, InstanceFacts DEF CapacityHolds

-----------------------------------------------------------------------------
\* The step of one client that leaves the objects and the writers alone.
LEMMA ClientStepKeeps ==
  ASSUME CacheInv, NEW c \in Clients, NEW next, next \in {Idle} \cup WithAnswer \cup WithQuestion,
         next.pc # "put", asking' = [asking EXCEPT ![c] = next],
         next.pc = "store" => next.value.answers = next.q /\ next.at = next.value.given,
         next.pc = "served" => next.value.answers = next.q /\ next.at - next.value.given < TTL,
         objects' \subseteq objects, cacheClock' \in Nat,
         cacheLock' \in [Instances -> Clients \cup {NoHolder}],
         \A d \in Clients : d # c /\ asking[d].pc = "put" => cacheLock'[InstanceOf[d]] = cacheLock[InstanceOf[d]]
  PROVE  CacheInv'
<1>1. /\ asking' \in [Clients -> {Idle} \cup WithAnswer \cup WithQuestion]
      /\ asking'[c] = next /\ \A d \in Clients : d # c => asking'[d] = asking[d]
  BY DEF CacheInv, CacheTyped
<1>2. IsFiniteSet(objects')
  BY FS_Subset DEF CacheInv, CacheTyped
<1>3. CacheTyped'
  BY <1>1, <1>2 DEF CacheInv, CacheTyped
<1>4. ObjectsAreTrue' /\ OneObjectPerDigest'
  BY DEF CacheInv, ObjectsAreTrue, OneObjectPerDigest
<1>5. AnswersAreTrue' /\ ServedIsFresh'
  BY <1>1 DEF CacheInv, AnswersAreTrue, ServedIsFresh
<1>6. WritersHoldLock'
  BY <1>1 DEF CacheInv, WritersHoldLock
<1>7. Taken' \cup Promised' \subseteq Taken \cup Promised
  <2>1. \A d \in Writing' : d \in Writing /\ asking'[d] = asking[d]
    BY <1>1 DEF Writing
  <2>2. Promised' \subseteq Promised
    BY <2>1 DEF Promised
  <2>3. Taken' \subseteq Taken
    BY DEF Taken
  <2> QED
    BY <2>2, <2>3
<1> QED
  BY <1>3, <1>4, <1>5, <1>6, <1>7, CapacityKept DEF CacheInv

LEMMA IdleFacts == Idle.pc = "idle"
BY DEF Idle

\* The lock of a cache whose lock is free or the client's own belongs to no other writer.
LEMMA LockIsOwn ==
  ASSUME CacheInv, NEW c \in Clients, Free(c) \/ cacheLock[InstanceOf[c]] = c,
         NEW holder \in Clients \cup {NoHolder},
         cacheLock' = [cacheLock EXCEPT ![InstanceOf[c]] = holder]
  PROVE  /\ cacheLock' \in [Instances -> Clients \cup {NoHolder}]
         /\ \A d \in Clients : d # c /\ asking[d].pc = "put" => cacheLock'[InstanceOf[d]] = cacheLock[InstanceOf[d]]
<1>1. cacheLock \in [Instances -> Clients \cup {NoHolder}]
  BY DEF CacheInv, CacheTyped
<1>2. \A d \in Clients : d # c /\ asking[d].pc = "put" => InstanceOf[d] # InstanceOf[c]
  BY InstanceFacts DEF CacheInv, WritersHoldLock, Free
<1> QED
  BY <1>1, <1>2, InstanceFacts

LEMMA LookupKeeps == ASSUME CacheInv, NEW c \in Clients, NEW q \in Questions, Lookup(c, q) PROVE CacheInv'
<1> DEFINE hit == {o \in Stored(q) : Intact(o, q) /\ Alive(o)}
           served == [pc |-> "served", q |-> q, value |-> (CHOOSE o \in hit : TRUE).value, at |-> cacheClock]
           discard == [pc |-> "discard", q |-> q]
           ask == [pc |-> "provider", q |-> q]
<1>1. /\ objects' = objects /\ cacheClock' = cacheClock /\ cacheClock \in Nat
      /\ cacheLock \in [Instances -> Clients \cup {NoHolder}]
  BY DEF Lookup, CacheInv, CacheTyped
<1>2. /\ cacheLock' \in [Instances -> Clients \cup {NoHolder}]
      /\ \A d \in Clients : d # c /\ asking[d].pc = "put" => cacheLock'[InstanceOf[d]] = cacheLock[InstanceOf[d]]
  <2>1. CASE cacheLock' = cacheLock
    BY <1>1, <2>1
  <2>2. CASE Free(c) /\ cacheLock' = [cacheLock EXCEPT ![InstanceOf[c]] = c]
    BY <2>2, LockIsOwn
  <2> QED
    BY <2>1, <2>2 DEF Lookup
<1>3. \/ hit # {} /\ asking' = [asking EXCEPT ![c] = served]
      \/ asking' = [asking EXCEPT ![c] = discard]
      \/ asking' = [asking EXCEPT ![c] = ask]
  <2> DEFINE next == CASE hit # {} -> served [] Stored(q) \ hit # {} -> discard [] OTHER -> ask
  <2>1. asking' = [asking EXCEPT ![c] = next]
    BY DEF Lookup, Now
  <2>2. (hit # {} /\ next = served) \/ next = discard \/ next = ask
    <3> HIDE DEF hit, served, discard, ask
    <3> QED
      OBVIOUS
  <2> HIDE DEF hit, served, discard, ask, next
  <2> QED
    BY <2>1, <2>2
<1>4. discard \in WithQuestion /\ ask \in WithQuestion /\ discard.pc = "discard" /\ ask.pc = "provider"
  BY DEF WithQuestion
<1>5. CASE hit # {} /\ asking' = [asking EXCEPT ![c] = served]
  <2>1. PICK o \in hit : o = CHOOSE x \in hit : TRUE
    BY <1>5
  <2>2. o \in objects /\ o.digest = Digest(q) /\ o.expires > cacheClock
    BY <2>1 DEF Stored, Alive
  <2>3. o \in CacheObject /\ o.digest = Digest(o.value.answers) /\ o.expires = o.value.given + TTL
    BY <2>2 DEF CacheInv, CacheTyped, ObjectsAreTrue
  <2>4. o.value \in Answer /\ o.value.answers \in Questions /\ o.value.given \in Nat
    BY <2>3 DEF CacheObject, Answer
  <2>5. o.value.answers = q /\ cacheClock - o.value.given < TTL
    <3>1. o.value.answers = q
      BY <2>2, <2>3, <2>4, DigestInjective
    <3> QED
      BY <1>1, <2>2, <2>3, <2>4, <3>1, InstanceFacts
  <2>6. served = [pc |-> "served", q |-> q, value |-> o.value, at |-> cacheClock]
    BY <2>1
  <2> HIDE DEF served, hit
  <2>7. /\ served \in WithAnswer /\ served.pc = "served" /\ served.q = q
        /\ served.value = o.value /\ served.at = cacheClock
    BY <1>1, <2>4, <2>6 DEF WithAnswer
  <2> QED
    BY <1>1, <1>2, <1>5, <2>5, <2>7, ClientStepKeeps
<1>6. CASE asking' = [asking EXCEPT ![c] = discard]
  <2> HIDE DEF discard
  <2> QED
    BY <1>1, <1>2, <1>4, <1>6, ClientStepKeeps
<1>7. CASE asking' = [asking EXCEPT ![c] = ask]
  <2> HIDE DEF ask
  <2> QED
    BY <1>1, <1>2, <1>4, <1>7, ClientStepKeeps
<1> QED
  BY <1>3, <1>5, <1>6, <1>7

LEMMA LookupFailsKeeps == ASSUME CacheInv, NEW c \in Clients, NEW q \in Questions, LookupFails(c, q) PROVE CacheInv'
<1> DEFINE ask == [pc |-> "provider", q |-> q]
<1>1. /\ UNCHANGED <<objects, cacheLock, cacheClock>> /\ cacheClock \in Nat
      /\ cacheLock \in [Instances -> Clients \cup {NoHolder}]
      /\ asking' = [asking EXCEPT ![c] = ask]
  BY DEF LookupFails, Now, CacheInv, CacheTyped
<1>2. ask \in WithQuestion /\ ask.pc = "provider"
  BY DEF WithQuestion
<1> HIDE DEF ask
<1> QED
  BY <1>1, <1>2, ClientStepKeeps

LEMMA DiscardKeeps == ASSUME CacheInv, NEW c \in Clients, Discard(c) PROVE CacheInv'
<1>1. /\ asking[c].pc = "discard" /\ asking[c] \in WithQuestion /\ asking[c].q \in Questions
      /\ objects' \subseteq objects /\ cacheClock' = cacheClock /\ cacheClock \in Nat
      /\ cacheLock \in [Instances -> Clients \cup {NoHolder}]
      /\ asking' = [asking EXCEPT ![c] = [pc |-> "provider", q |-> asking[c].q]]
  BY IdleFacts DEF Discard, Now, CacheInv, CacheTyped, WithAnswer, WithQuestion
<1>2. /\ cacheLock' \in [Instances -> Clients \cup {NoHolder}]
      /\ \A d \in Clients : d # c /\ asking[d].pc = "put" => cacheLock'[InstanceOf[d]] = cacheLock[InstanceOf[d]]
  <2>1. CASE cacheLock' = cacheLock
    BY <1>1, <2>1
  <2>2. CASE cacheLock[InstanceOf[c]] = c /\ cacheLock' = [cacheLock EXCEPT ![InstanceOf[c]] = NoHolder]
    BY <2>2, LockIsOwn
  <2> QED
    BY <2>1, <2>2 DEF Discard, Release
<1> DEFINE ask == [pc |-> "provider", q |-> asking[c].q]
<1>3. ask \in WithQuestion /\ ask.pc = "provider"
  BY <1>1 DEF WithQuestion
<1>4. asking' = [asking EXCEPT ![c] = ask]
  BY <1>1
<1> HIDE DEF ask
<1> QED
  BY <1>1, <1>2, <1>3, <1>4, ClientStepKeeps

LEMMA AnswersKeeps == ASSUME CacheInv, NEW c \in Clients, ProviderAnswers(c) PROVE CacheInv'
<1> DEFINE q == asking[c].q
           store == [pc |-> "store", q |-> q, value |-> [answers |-> q, given |-> cacheClock], at |-> cacheClock]
<1>1. /\ asking[c].pc = "provider" /\ asking[c] \in WithQuestion /\ q \in Questions
      /\ UNCHANGED <<objects, cacheLock, cacheClock>> /\ cacheClock \in Nat
      /\ cacheLock \in [Instances -> Clients \cup {NoHolder}]
  BY IdleFacts DEF ProviderAnswers, CacheInv, CacheTyped, WithAnswer, WithQuestion
<1>2. asking' = [asking EXCEPT ![c] = Idle] \/ asking' = [asking EXCEPT ![c] = store]
  BY DEF ProviderAnswers, Now
<1> HIDE DEF q
<1>3. /\ store \in WithAnswer /\ store.pc = "store" /\ store.value.answers = store.q
      /\ store.at = store.value.given
  BY <1>1 DEF WithAnswer, Answer
<1> HIDE DEF store
<1>4. CASE asking' = [asking EXCEPT ![c] = Idle]
  BY <1>1, <1>4, IdleFacts, ClientStepKeeps
<1>5. CASE asking' = [asking EXCEPT ![c] = store]
  BY <1>1, <1>3, <1>5, ClientStepKeeps
<1> QED
  BY <1>2, <1>4, <1>5

LEMMA GoesIdleKeeps ==
  ASSUME CacheInv, NEW c \in Clients, asking' = [asking EXCEPT ![c] = Idle],
         objects' = objects, cacheLock' = cacheLock, cacheClock' = cacheClock
  PROVE  CacheInv'
<1>1. cacheClock \in Nat /\ cacheLock \in [Instances -> Clients \cup {NoHolder}]
  BY DEF CacheInv, CacheTyped
<1> QED
  BY <1>1, IdleFacts, ClientStepKeeps

\* A write is promised: when the key is new, there was room and no other writer of this cache.
LEMMA CountsKeeps == ASSUME CacheInv, NEW c \in Clients, SetCounts(c) PROVE CacheInv'
<1> DEFINE next == [asking[c] EXCEPT !.pc = "put"]
<1>1. /\ asking[c].pc = "store" /\ asking[c] \in WithAnswer /\ Free(c)
      /\ UNCHANGED <<objects, cacheClock>>
  BY IdleFacts DEF SetCounts, CacheInv, CacheTyped, WithAnswer, WithQuestion
<1>2. CASE ~HasRoom(asking[c].q)
  BY <1>1, <1>2, GoesIdleKeeps DEF SetCounts, Now
<1>3. CASE HasRoom(asking[c].q)
  <2>1. /\ cacheLock' = [cacheLock EXCEPT ![InstanceOf[c]] = c]
        /\ asking' = [asking EXCEPT ![c] = next]
    BY <1>3 DEF SetCounts, Now
  <2>2. /\ next \in WithAnswer /\ next.pc = "put" /\ next.q = asking[c].q
        /\ next.value = asking[c].value /\ next.at = asking[c].at
    BY <1>1 DEF WithAnswer
  <2> HIDE DEF next
  <2>3. /\ asking' \in [Clients -> {Idle} \cup WithAnswer \cup WithQuestion]
        /\ asking'[c] = next /\ \A d \in Clients : d # c => asking'[d] = asking[d]
    BY <2>1, <2>2 DEF CacheInv, CacheTyped
  <2>4. /\ cacheLock' \in [Instances -> Clients \cup {NoHolder}]
        /\ \A d \in Clients : d # c /\ asking[d].pc = "put" => cacheLock'[InstanceOf[d]] = cacheLock[InstanceOf[d]]
    BY <1>1, <2>1, LockIsOwn
  <2>5. CacheTyped'
    BY <1>1, <2>3, <2>4 DEF CacheInv, CacheTyped
  <2>6. ObjectsAreTrue' /\ OneObjectPerDigest'
    BY <1>1 DEF CacheInv, ObjectsAreTrue, OneObjectPerDigest
  <2>7. AnswersAreTrue' /\ ServedIsFresh'
    BY <1>1, <2>2, <2>3 DEF CacheInv, AnswersAreTrue, ServedIsFresh
  <2>8. cacheLock'[InstanceOf[c]] = c
    BY <2>1, InstanceFacts DEF CacheInv, CacheTyped
  <2>9. WritersHoldLock'
    BY <2>2, <2>3, <2>4, <2>8 DEF CacheInv, WritersHoldLock
  <2>10. Taken' = Taken /\ Promised' \subseteq Promised \cup {Digest(asking[c].q)}
    <3>1. Writing' \subseteq Writing \cup {c}
      BY <2>3 DEF Writing
    <3>2. \A d \in Writing' : Digest(asking'[d].q) \in Promised \cup {Digest(asking[c].q)}
      BY <2>2, <2>3, <3>1 DEF Promised, Writing
    <3> QED
      BY <1>1, <3>2 DEF Taken, Promised
  <2>11. CapacityHolds'
    <3>1. CASE Stored(asking[c].q) # {}
      <4>1. Digest(asking[c].q) \in Taken
        BY <3>1 DEF Stored, Taken
      <4> QED
        BY <2>10, <4>1, CapacityKept DEF CacheInv
    <3>2. CASE Cardinality(objects) < MaxEntries
      <4> DEFINE I == Instances \ {InstanceOf[c]}
                 d == Digest(asking[c].q)
      <4>1. IsFiniteSet(I) /\ Cardinality(I) = Cardinality(Instances) - 1
        BY InstanceFacts, FS_RemoveElement
      <4>2. \A x \in Writing : InstanceOf[x] \in I
        BY <1>1, InstanceFacts DEF CacheInv, WritersHoldLock, Writing, Free
      <4>3. IsFiniteSet(Promised) /\ Cardinality(Promised) <= Cardinality(I)
        BY <4>2, WritersCounted DEF CacheInv
      <4>4. IsFiniteSet(Taken) /\ Cardinality(Taken) = Cardinality(objects)
        BY ObjectsCounted DEF CacheInv, CacheTyped
      <4>5. /\ IsFiniteSet(Taken \cup Promised)
            /\ Cardinality(Taken \cup Promised) <= Cardinality(Taken) + Cardinality(Promised)
        <5>1. Cardinality(Taken \cap Promised) \in Nat /\ Cardinality(Taken) \in Nat /\ Cardinality(Promised) \in Nat
          <6>1. IsFiniteSet(Taken \cap Promised)
            BY <4>3, FS_Intersection
          <6> QED
            BY <4>3, <4>4, <6>1, FS_CardinalityType
        <5>2. /\ IsFiniteSet(Taken \cup Promised)
              /\ Cardinality(Taken \cup Promised) =
                   Cardinality(Taken) + Cardinality(Promised) - Cardinality(Taken \cap Promised)
          BY <4>3, <4>4, FS_Union
        <5> QED
          BY <5>1, <5>2
      <4>6. /\ IsFiniteSet((Taken \cup Promised) \cup {d})
            /\ Cardinality((Taken \cup Promised) \cup {d}) <= Cardinality(Taken \cup Promised) + 1
        <5>1. Cardinality(Taken \cup Promised) \in Nat
          BY <4>5, FS_CardinalityType
        <5>2. /\ IsFiniteSet((Taken \cup Promised) \cup {d})
              /\ Cardinality((Taken \cup Promised) \cup {d}) =
                   IF d \in Taken \cup Promised THEN Cardinality(Taken \cup Promised) ELSE Cardinality(Taken \cup Promised) + 1
          BY <4>5, FS_AddElement
        <5> QED
          BY <5>1, <5>2
      <4>7. (Taken \cup Promised)' \subseteq (Taken \cup Promised) \cup {d}
        BY <2>10
      <4>8. /\ IsFiniteSet((Taken \cup Promised)')
            /\ Cardinality((Taken \cup Promised)') <= Cardinality((Taken \cup Promised) \cup {d})
        BY <4>6, <4>7, FS_Subset
      <4>9. /\ Cardinality((Taken \cup Promised)') \in Nat /\ Cardinality((Taken \cup Promised) \cup {d}) \in Nat
            /\ Cardinality(Taken \cup Promised) \in Nat /\ Cardinality(Taken) \in Nat
            /\ Cardinality(Promised) \in Nat /\ Cardinality(Instances) \in Nat /\ MaxEntries \in Nat
        BY <4>3, <4>4, <4>5, <4>6, <4>8, InstanceFacts, FS_CardinalityType
      <4>10. Cardinality((Taken \cup Promised)') <= MaxEntries + Cardinality(Instances) - 1
        BY <3>2, <4>1, <4>3, <4>4, <4>5, <4>6, <4>8, <4>9
      <4> QED
        BY <4>8, <4>10 DEF CapacityHolds
    <3> QED
      BY <1>3, <3>1, <3>2 DEF HasRoom
  <2> QED
    BY <2>5, <2>6, <2>7, <2>9, <2>11 DEF CacheInv
<1> QED
  BY <1>2, <1>3

\* The object is the one that was promised.
LEMMA PutsKeeps == ASSUME CacheInv, NEW c \in Clients, SetPuts(c) PROVE CacheInv'
<1> DEFINE q == asking[c].q
           new == [digest |-> Digest(q), value |-> asking[c].value, expires |-> asking[c].at + TTL, intact |-> TRUE]
<1>1. /\ asking[c].pc = "put" /\ asking[c] \in WithAnswer /\ cacheClock' = cacheClock
      /\ asking' = [asking EXCEPT ![c] = Idle]
      /\ cacheLock' = [cacheLock EXCEPT ![InstanceOf[c]] = NoHolder]
      /\ cacheLock[InstanceOf[c]] = c /\ asking[c].value.answers = q /\ asking[c].at = asking[c].value.given
  BY IdleFacts DEF SetPuts, Now, Release, CacheInv, CacheTyped, WithAnswer, WithQuestion, WritersHoldLock, AnswersAreTrue
<1>2. objects' = objects \/ objects' = (objects \ Stored(q)) \cup {new}
  BY DEF SetPuts
<1>3. q \in Questions /\ asking[c].value \in Answer /\ asking[c].at \in Nat
  BY <1>1 DEF WithAnswer
<1>4. c \in Writing
  BY <1>1 DEF Writing
<1> HIDE DEF q
<1>5. /\ new \in CacheObject /\ new.digest = Digest(q) /\ new.value.answers = q
      /\ new.expires = new.value.given + TTL
  BY <1>1, <1>3, InstanceFacts DEF CacheObject
<1> HIDE DEF new
<1>6. /\ cacheLock' \in [Instances -> Clients \cup {NoHolder}]
      /\ \A d \in Clients : d # c /\ asking[d].pc = "put" => cacheLock'[InstanceOf[d]] = cacheLock[InstanceOf[d]]
  BY <1>1, LockIsOwn
<1>7. /\ asking' \in [Clients -> {Idle} \cup WithAnswer \cup WithQuestion]
      /\ asking'[c] = Idle /\ \A d \in Clients : d # c => asking'[d] = asking[d]
  BY <1>1 DEF CacheInv, CacheTyped
<1>8. CASE objects' = objects
  <2>1. cacheClock' \in Nat
    BY <1>1 DEF CacheInv, CacheTyped
  <2> QED
    BY <1>1, <1>6, <1>8, <2>1, IdleFacts, ClientStepKeeps
<1>9. CASE objects' = (objects \ Stored(q)) \cup {new}
  <2>1. IsFiniteSet(objects') /\ objects' \subseteq CacheObject
    BY <1>5, <1>9, FS_Difference, FS_AddElement DEF CacheInv, CacheTyped
  <2>2. CacheTyped'
    BY <1>1, <1>6, <1>7, <2>1 DEF CacheInv, CacheTyped
  <2>3. ObjectsAreTrue' /\ OneObjectPerDigest'
    BY <1>5, <1>9 DEF CacheInv, ObjectsAreTrue, OneObjectPerDigest, Stored
  <2>4. AnswersAreTrue' /\ ServedIsFresh' /\ WritersHoldLock'
    BY <1>6, <1>7, IdleFacts DEF CacheInv, AnswersAreTrue, ServedIsFresh, WritersHoldLock
  <2>5. Digest(q) \in Promised
    BY <1>4 DEF Promised, q
  <2>6. \A d \in Writing' : d \in Writing /\ asking'[d] = asking[d]
    BY <1>7, IdleFacts DEF Writing
  <2>7. Promised' \subseteq Promised
    BY <2>6 DEF Promised
  <2>8. Taken' \subseteq Taken \cup {Digest(q)}
    BY <1>5, <1>9 DEF Taken
  <2>9. CapacityHolds'
    BY <2>5, <2>7, <2>8, CapacityKept DEF CacheInv
  <2> QED
    BY <2>2, <2>3, <2>4, <2>9 DEF CacheInv
<1> QED
  BY <1>2, <1>8, <1>9

\* Damage keeps a digest; what List and Purge remove is gone.
LEMMA DamageKeeps == ASSUME CacheInv, ObjectDamaged PROVE CacheInv'
<1>1. PICK o \in objects : objects' = (objects \ {o}) \cup {[o EXCEPT !.intact = FALSE]}
  BY DEF ObjectDamaged
<1>2. UNCHANGED <<cacheLock, asking, cacheClock>>
  BY DEF ObjectDamaged
<1> DEFINE bad == [o EXCEPT !.intact = FALSE]
<1>3. o \in CacheObject
  BY DEF CacheInv, CacheTyped
<1>4. bad \in CacheObject /\ bad.digest = o.digest /\ bad.value = o.value /\ bad.expires = o.expires
  BY <1>3 DEF CacheObject
<1>5. objects' = (objects \ {o}) \cup {bad}
  BY <1>1
<1> HIDE DEF bad
<1>6. IsFiniteSet(objects') /\ objects' \subseteq CacheObject
  BY <1>4, <1>5, FS_RemoveElement, FS_AddElement DEF CacheInv, CacheTyped
<1>7. CacheTyped'
  BY <1>2, <1>6 DEF CacheInv, CacheTyped
<1>8. ObjectsAreTrue' /\ OneObjectPerDigest'
  BY <1>4, <1>5 DEF CacheInv, ObjectsAreTrue, OneObjectPerDigest
<1>9. AnswersAreTrue' /\ ServedIsFresh' /\ WritersHoldLock'
  BY <1>2 DEF CacheInv, AnswersAreTrue, ServedIsFresh, WritersHoldLock
<1>10. Promised' = Promised /\ Taken' \subseteq Taken
  BY <1>2, <1>4, <1>5 DEF Promised, Writing, Taken
<1>11. CapacityHolds'
  BY <1>10, CapacityKept DEF CacheInv
<1> QED
  BY <1>7, <1>8, <1>9, <1>11 DEF CacheInv

LEMMA RemovalKeeps ==
  ASSUME CacheInv, objects' \subseteq objects, cacheLock' = cacheLock, asking' = asking, cacheClock' \in Nat
  PROVE  CacheInv'
<1>1. IsFiniteSet(objects')
  BY FS_Subset DEF CacheInv, CacheTyped
<1>2. CacheTyped' /\ ObjectsAreTrue' /\ OneObjectPerDigest'
  BY <1>1 DEF CacheInv, CacheTyped, ObjectsAreTrue, OneObjectPerDigest
<1>3. AnswersAreTrue' /\ ServedIsFresh' /\ WritersHoldLock'
  BY DEF CacheInv, AnswersAreTrue, ServedIsFresh, WritersHoldLock
<1>4. Promised' = Promised /\ Taken' \subseteq Taken
  BY DEF Promised, Writing, Taken
<1>5. CapacityHolds'
  BY <1>4, CapacityKept DEF CacheInv
<1> QED
  BY <1>2, <1>3, <1>5 DEF CacheInv

LEMMA CacheInductive == CacheInv /\ [CacheNext]_cacheVars => CacheInv'
<1> SUFFICES ASSUME CacheInv, [CacheNext]_cacheVars PROVE CacheInv'
  OBVIOUS
<1>0. cacheClock \in Nat
  BY DEF CacheInv, CacheTyped
<1>1. CASE UNCHANGED cacheVars
  BY <1>0, <1>1, RemovalKeeps DEF cacheVars
<1>2. ASSUME NEW c \in Clients,
             \/ \E q \in Questions : Lookup(c, q) \/ LookupFails(c, q)
             \/ Discard(c) \/ ProviderAnswers(c) \/ ProviderFails(c)
             \/ SetCounts(c) \/ SetPuts(c) \/ Served(c)
      PROVE  CacheInv'
  <2>1. CASE ProviderFails(c) \/ Served(c)
    BY <2>1, GoesIdleKeeps DEF ProviderFails, Served, Now
  <2> QED
    BY <1>2, <2>1, LookupKeeps, LookupFailsKeeps, DiscardKeeps, AnswersKeeps, CountsKeeps, PutsKeeps
<1>3. CASE \E c \in Clients : ListEntries(c) \/ PurgeEntries(c) \/ \E q \in Questions : RemoveEntry(c, q)
  BY <1>0, <1>3, RemovalKeeps DEF ListEntries, PurgeEntries, RemoveEntry
<1>4. CASE ObjectDamaged
  BY <1>4, DamageKeeps
<1>5. CASE CacheTick
  BY <1>0, <1>5, RemovalKeeps DEF CacheTick
<1> QED
  BY <1>1, <1>2, <1>3, <1>4, <1>5 DEF CacheNext

LEMMA CacheIsInvariant == CacheSpec => []CacheInv
BY CacheStarts, CacheInductive, PTL DEF CacheSpec

\* Whatever is damaged, replaced, removed or answered at the same time, a served answer is of
\* the client's own question and was younger than the TTL.
THEOREM CacheServesFresh == CacheSpec => []ServedIsFresh
<1>1. CacheInv => ServedIsFresh
  BY DEF CacheInv
<1> QED
  BY <1>1, CacheIsInvariant, PTL

\* However many processes share the store, each of the others adds at most one entry to the limit.
THEOREM CacheIsNearlyBounded == CacheSpec => []NearlyBounded
<1>1. CacheInv => NearlyBounded
  <2> SUFFICES ASSUME CacheInv PROVE NearlyBounded
    OBVIOUS
  <2>1. IsFiniteSet(Taken) /\ Cardinality(Taken) = Cardinality(objects)
    BY ObjectsCounted DEF CacheInv, CacheTyped
  <2>2. /\ Cardinality(Taken) <= Cardinality(Taken \cup Promised)
        /\ Cardinality(Taken) \in Nat /\ Cardinality(Taken \cup Promised) \in Nat
    BY <2>1, FS_Subset, FS_CardinalityType DEF CacheInv, CapacityHolds
  <2>3. Cardinality(Taken \cup Promised) <= MaxEntries + Cardinality(Instances) - 1
    BY DEF CacheInv, CapacityHolds
  <2> QED
    BY <2>1, <2>2, <2>3, InstanceFacts DEF NearlyBounded
<1> QED
  BY <1>1, CacheIsInvariant, PTL

-----------------------------------------------------------------------------
(* Plugins. *)

Supervisor ==
  [state : {"new", "starting", "running", "stopping", "stopped", "closed"}, op : {"none", "start", "stop"},
   stopRequested : BOOLEAN, armed : BOOLEAN, canceled : BOOLEAN, run : BOOLEAN]

PluginClient == [made : BOOLEAN, returned : BOOLEAN, closed : BOOLEAN, conn : BOOLEAN, live : Int]

StopRequest ==
  [pc : {"idle"}] \cup
  [pc : {"wait", "interrupt", "grace", "return"}, close : BOOLEAN, op : {"none", "start", "stop"}]

PluginTyped ==
  /\ supervisor \in Supervisor
  /\ child \in {"none", "up", "interrupted", "killed", "down"}
  /\ starting \in [Starters -> {"idle", "arm", "launch", "health", "ready", "unhealthy", "failed"}]
  /\ stopping \in [Stoppers -> StopRequest]
  /\ client \in PluginClient
  /\ calling \in [PluginCalls -> {"idle", "connect", "queued", "dial", "install", "request"}]

\* Nothing runs and nothing is open.
Clean == child \in {"none", "killed", "down"} /\ (client.made => client.closed)

Starting(t) == starting[t] # "idle"
Terminates(t) == stopping[t].pc \in {"interrupt", "grace"}

\* One Start at a time, and only until its outcome is decided.
StartIsAlone ==
  /\ supervisor.state = "new" => child = "none" /\ ~client.made
  /\ \A t \in Starters : Starting(t) =>
       /\ supervisor.state \in {"starting", "closed"}
       /\ \A u \in Starters : Starting(u) => u = t
       /\ starting[t] \in {"arm", "launch"} => child = "none" /\ ~client.made
       /\ starting[t] = "failed" => Clean

\* One Stop ends the process, of which no Start is in progress any more.
StopIsAlone ==
  \A t \in Stoppers : Terminates(t) =>
    /\ supervisor.state \in {"stopping", "closed"}
    /\ \A u \in Stoppers : Terminates(u) => u = t
    /\ \A u \in Starters : ~Starting(u)
    /\ stopping[t].pc = "grace" => child # "up" /\ client.closed

SupervisorInv == StartIsAlone /\ StopIsAlone /\ StoppedIsClean

Connecting(k) == calling[k] \in {"dial", "install"}

\* One dial at a time; the connections are the installed one and the one about to be.
ConnectionsCounted ==
  /\ client.closed => ~client.conn
  /\ \A k \in PluginCalls : Connecting(k) => ~client.conn /\ \A j \in PluginCalls : Connecting(j) => j = k
  /\ (\E k \in PluginCalls : calling[k] = "install") => client.live = 1
  /\ (\A k \in PluginCalls : calling[k] # "install") => client.live = IF client.conn THEN 1 ELSE 0

PluginInv == PluginTyped /\ SupervisorInv /\ ConnectionsCounted

LEMMA PluginStarts == PluginInit => PluginInv
<1> SUFFICES ASSUME PluginInit PROVE PluginInv
  OBVIOUS
<1>1. PluginTyped
  BY DEF PluginInit, PluginTyped, Supervisor, PluginClient, StopRequest
<1>2. StartIsAlone /\ StopIsAlone /\ StoppedIsClean
  BY DEF PluginInit, StartIsAlone, StopIsAlone, StoppedIsClean, Starting, Terminates
<1>3. ConnectionsCounted
  BY DEF PluginInit, ConnectionsCounted, Connecting
<1> QED
  BY <1>1, <1>2, <1>3 DEF PluginInv, SupervisorInv

\* What Close makes of a client.
LEMMA ClosedFacts ==
  ASSUME NEW c \in PluginClient
  PROVE  /\ Closed(c) \in PluginClient /\ Closed(c).made = c.made /\ Closed(c).closed /\ ~Closed(c).conn
         /\ Closed(c).live = IF c.conn THEN c.live - 1 ELSE c.live
<1> DEFINE n == IF c.conn THEN c.live - 1 ELSE c.live
<1>1. c.live \in Int /\ c.conn \in BOOLEAN
  BY DEF PluginClient
<1>2. n \in Int
  BY <1>1
<1>3. Closed(c) = [c EXCEPT !.closed = TRUE, !.conn = FALSE, !.live = n]
  BY DEF Closed
<1> HIDE DEF n
<1>4. Closed(c) \in PluginClient /\ Closed(c).made = c.made
  BY <1>2, <1>3 DEF PluginClient
<1>5. Closed(c).closed = TRUE /\ Closed(c).conn = FALSE /\ Closed(c).live = n
  BY <1>3 DEF PluginClient
<1> QED
  BY <1>4, <1>5 DEF n

\* A step of the client or of the registry.
LEMMA SupervisorUndisturbed ==
  ASSUME SupervisorInv, UNCHANGED <<supervisor, starting, stopping>>,
         child' = child \/ child' = "down", child' = "none" => child = "none", child # "none" \/ child' = "none",
         client'.made = client.made, client.closed => client'.closed
  PROVE  SupervisorInv'
<1>1. StartIsAlone'
  BY DEF SupervisorInv, StartIsAlone, Starting, Clean
<1>2. StopIsAlone' /\ StoppedIsClean'
  BY DEF SupervisorInv, StopIsAlone, StoppedIsClean, Starting, Terminates
<1> QED
  BY <1>1, <1>2 DEF SupervisorInv

LEMMA ClosingKeepsCount ==
  ASSUME PluginTyped, ConnectionsCounted, client' = Closed(client), calling' = calling
  PROVE  ConnectionsCounted'
<1>1. client \in PluginClient
  BY DEF PluginTyped
<1>2. /\ client'.closed /\ ~client'.conn
      /\ client'.live = IF client.conn THEN client.live - 1 ELSE client.live
  BY <1>1, ClosedFacts
<1>3. \A k \in PluginCalls : calling[k] = "install" => ~client.conn
  BY DEF ConnectionsCounted, Connecting
<1> QED
  BY <1>1, <1>2, <1>3 DEF ConnectionsCounted, Connecting, PluginClient

LEMMA CountUndisturbed ==
  ASSUME ConnectionsCounted, calling' = calling, client'.closed = client.closed,
         client'.conn = client.conn, client'.live = client.live
  PROVE  ConnectionsCounted'
BY DEF ConnectionsCounted, Connecting

-----------------------------------------------------------------------------
\* A Start goes one step on: what it is about to do, and what it leaves, must fit.
LEMMA StarterStep ==
  ASSUME PluginInv, NEW t \in Starters, NEW pc, starting' = [starting EXCEPT ![t] = pc], stopping' = stopping,
         \A u \in Starters : Starting(u) => u = t, \A u \in Stoppers : ~Terminates(u),
         pc # "idle" => supervisor'.state \in {"starting", "closed"},
         pc \in {"arm", "launch"} => child' = "none" /\ ~client'.made,
         pc = "failed" => Clean',
         supervisor'.state # "new", supervisor'.state = "stopped" => Clean'
  PROVE  SupervisorInv'
<1>1. starting'[t] = pc /\ \A u \in Starters : u # t => starting'[u] = starting[u]
  BY DEF PluginInv, PluginTyped
<1>2. \A u \in Starters : Starting(u)' => u = t
  BY <1>1 DEF Starting
<1>3. \A u \in Starters : Starting(u)' => starting'[u] = pc /\ pc # "idle"
  BY <1>1, <1>2 DEF Starting
<1>4. StartIsAlone'
  BY <1>2, <1>3 DEF StartIsAlone
<1>5. \A u \in Stoppers : ~Terminates(u)'
  BY DEF Terminates
<1>6. StopIsAlone'
  BY <1>5 DEF StopIsAlone
<1>7. StoppedIsClean'
  BY DEF StoppedIsClean, Clean
<1> QED
  BY <1>4, <1>6, <1>7 DEF SupervisorInv

\* While a Start is in progress nobody ends the process.
LEMMA StarterFacts ==
  ASSUME PluginInv, NEW t \in Starters, Starting(t)
  PROVE  /\ supervisor.state \in {"starting", "closed"}
         /\ \A u \in Starters : Starting(u) => u = t
         /\ \A u \in Stoppers : ~Terminates(u)
         /\ starting[t] \in {"arm", "launch"} => child = "none" /\ ~client.made
         /\ starting[t] = "failed" => Clean
BY DEF PluginInv, SupervisorInv, StartIsAlone, StopIsAlone

LEMMA StartEntersKeeps == ASSUME PluginInv, NEW t \in Starters, StartEnters(t) PROVE PluginInv'
<1>1. /\ starting' = [starting EXCEPT ![t] = "arm"] /\ supervisor.state = "new"
      /\ supervisor' = [supervisor EXCEPT !.state = "starting", !.op = "start"]
      /\ UNCHANGED <<child, stopping, client, calling>> /\ supervisor \in Supervisor
  BY DEF StartEnters, Start, PluginInv, PluginTyped
<1>2. supervisor' \in Supervisor /\ supervisor'.state = "starting"
  BY <1>1 DEF Supervisor
<1>3. PluginTyped'
  BY <1>1, <1>2 DEF PluginInv, PluginTyped
<1>4. /\ \A u \in Starters : ~Starting(u) /\ child = "none" /\ ~client.made
      /\ \A u \in Stoppers : ~Terminates(u)
  BY <1>1 DEF PluginInv, SupervisorInv, StartIsAlone, StopIsAlone
<1>5. SupervisorInv'
  BY <1>1, <1>2, <1>4, StarterStep
<1>6. ConnectionsCounted'
  BY <1>1, CountUndisturbed DEF PluginInv
<1> QED
  BY <1>3, <1>5, <1>6 DEF PluginInv

LEMMA StartArmsKeeps == ASSUME PluginInv, NEW t \in Starters, StartArms(t) PROVE PluginInv'
<1>1. PICK pc \in {"failed", "launch"} : starting' = [starting EXCEPT ![t] = pc]
  BY DEF StartArms, Start
<1>2. /\ UNCHANGED <<child, stopping, client, calling>> /\ supervisor \in Supervisor /\ Starting(t)
      /\ starting[t] = "arm" /\ supervisor' \in {supervisor, [supervisor EXCEPT !.armed = TRUE]}
  BY DEF StartArms, Start, PluginInv, PluginTyped, Starting
<1>3. supervisor' \in Supervisor /\ supervisor'.state = supervisor.state
  BY <1>2 DEF Supervisor
<1>4. PluginTyped'
  BY <1>1, <1>2, <1>3 DEF PluginInv, PluginTyped
<1>5. /\ supervisor.state \in {"starting", "closed"} /\ child = "none" /\ ~client.made
      /\ \A u \in Starters : Starting(u) => u = t
      /\ \A u \in Stoppers : ~Terminates(u)
  BY <1>2, StarterFacts
<1>6. SupervisorInv'
  BY <1>1, <1>2, <1>3, <1>5, StarterStep DEF Clean
<1>7. ConnectionsCounted'
  BY <1>2, CountUndisturbed DEF PluginInv
<1> QED
  BY <1>4, <1>6, <1>7 DEF PluginInv

LEMMA StartLaunchesKeeps == ASSUME PluginInv, NEW t \in Starters, StartLaunches(t) PROVE PluginInv'
<1>1. /\ UNCHANGED <<supervisor, stopping, calling>> /\ Starting(t) /\ starting[t] = "launch"
      /\ client \in PluginClient
  BY DEF StartLaunches, Starting, PluginInv, PluginTyped
<1>2. /\ supervisor.state \in {"starting", "closed"} /\ child = "none" /\ ~client.made
      /\ \A u \in Starters : Starting(u) => u = t
      /\ \A u \in Stoppers : ~Terminates(u)
  BY <1>1, StarterFacts
<1> DEFINE made == [client EXCEPT !.made = TRUE]
<1>3. /\ made \in PluginClient /\ made.made /\ made.closed = client.closed
      /\ made.conn = client.conn /\ made.live = client.live
  BY <1>1 DEF PluginClient
<1>4. \/ child' = "up" /\ client' = made /\ starting' = [starting EXCEPT ![t] = "health"]
      \/ child' = child /\ client' = Closed(made) /\ starting' = [starting EXCEPT ![t] = "failed"]
      \/ child' = child /\ client' = client /\ starting' = [starting EXCEPT ![t] = "failed"]
  BY DEF StartLaunches, Start
<1> HIDE DEF made
<1>5. CASE child' = "up" /\ client' = made /\ starting' = [starting EXCEPT ![t] = "health"]
  <2>1. PluginTyped'
    BY <1>1, <1>3, <1>5 DEF PluginInv, PluginTyped
  <2>2. SupervisorInv'
    BY <1>1, <1>2, <1>5, StarterStep
  <2>3. ConnectionsCounted'
    BY <1>1, <1>3, <1>5, CountUndisturbed DEF PluginInv
  <2> QED
    BY <2>1, <2>2, <2>3 DEF PluginInv
<1>6. CASE child' = child /\ client' = Closed(made) /\ starting' = [starting EXCEPT ![t] = "failed"]
  <2>1. /\ client' \in PluginClient /\ client'.closed /\ ~client'.conn
        /\ client'.live = IF client.conn THEN client.live - 1 ELSE client.live
    BY <1>3, <1>6, ClosedFacts
  <2>2. PluginTyped'
    BY <1>1, <1>6, <2>1 DEF PluginInv, PluginTyped
  <2>3. SupervisorInv'
    BY <1>1, <1>2, <1>6, <2>1, StarterStep DEF Clean
  <2>4. \A k \in PluginCalls : calling[k] = "install" => ~client.conn
    BY DEF PluginInv, ConnectionsCounted, Connecting
  <2>5. ConnectionsCounted'
    BY <1>1, <2>1, <2>4 DEF PluginInv, ConnectionsCounted, Connecting, PluginClient
  <2> QED
    BY <2>2, <2>3, <2>5 DEF PluginInv
<1>7. CASE child' = child /\ client' = client /\ starting' = [starting EXCEPT ![t] = "failed"]
  <2>1. PluginTyped'
    BY <1>1, <1>7 DEF PluginInv, PluginTyped
  <2>2. SupervisorInv'
    BY <1>1, <1>2, <1>7, StarterStep DEF Clean
  <2>3. ConnectionsCounted'
    BY <1>1, <1>7, CountUndisturbed DEF PluginInv
  <2> QED
    BY <2>1, <2>2, <2>3 DEF PluginInv
<1> QED
  BY <1>4, <1>5, <1>6, <1>7

LEMMA StartHealthyKeeps == ASSUME PluginInv, NEW t \in Starters, StartHealthy(t) PROVE PluginInv'
<1>1. PICK pc \in {"ready", "unhealthy"} : starting' = [starting EXCEPT ![t] = pc]
  BY DEF StartHealthy, Start
<1>2. UNCHANGED <<supervisor, child, stopping, client, calling>> /\ Starting(t)
  BY DEF StartHealthy, Starting
<1>3. PluginTyped'
  BY <1>1, <1>2 DEF PluginInv, PluginTyped
<1>4. SupervisorInv'
  BY <1>1, <1>2, StarterFacts, StarterStep
<1>5. ConnectionsCounted'
  BY <1>2, CountUndisturbed DEF PluginInv
<1> QED
  BY <1>3, <1>4, <1>5 DEF PluginInv

LEMMA StartFinishesKeeps == ASSUME PluginInv, NEW t \in Starters, StartFinishes(t) PROVE PluginInv'
<1>1. /\ starting' = [starting EXCEPT ![t] = "idle"] /\ Starting(t)
      /\ supervisor' = [supervisor EXCEPT !.state = "running", !.run = TRUE, !.armed = FALSE, !.op = "none"]
      /\ client' = [client EXCEPT !.returned = TRUE]
      /\ UNCHANGED <<child, stopping, calling>> /\ supervisor \in Supervisor /\ client \in PluginClient
  BY DEF StartFinishes, Start, Starting, PluginInv, PluginTyped
<1>2. supervisor' \in Supervisor /\ supervisor'.state = "running"
  BY <1>1 DEF Supervisor
<1>3. /\ client' \in PluginClient /\ client'.closed = client.closed
      /\ client'.conn = client.conn /\ client'.live = client.live
  BY <1>1 DEF PluginClient
<1>4. PluginTyped'
  BY <1>1, <1>2, <1>3 DEF PluginInv, PluginTyped
<1>5. SupervisorInv'
  <2>1. (\A u \in Starters : Starting(u) => u = t) /\ \A u \in Stoppers : ~Terminates(u)
    BY <1>1, StarterFacts
  <2>2. starting' = [starting EXCEPT ![t] = "idle"] /\ stopping' = stopping
    BY <1>1
  <2> QED
    BY <1>2, <2>1, <2>2, StarterStep
<1>6. ConnectionsCounted'
  BY <1>1, <1>3, CountUndisturbed DEF PluginInv
<1> QED
  BY <1>4, <1>5, <1>6 DEF PluginInv

LEMMA StartCleansUpKeeps == ASSUME PluginInv, NEW t \in Starters, StartCleansUp(t) PROVE PluginInv'
<1>1. /\ starting' = [starting EXCEPT ![t] = "failed"] /\ Starting(t) /\ child' = Killed
      /\ client' = Closed(client) /\ UNCHANGED <<supervisor, stopping, calling>> /\ client \in PluginClient
  BY DEF StartCleansUp, Start, Starting, PluginInv, PluginTyped
<1>2. client' \in PluginClient /\ client'.closed
  BY <1>1, ClosedFacts
<1>3. child' \in {"none", "killed", "down"}
  BY <1>1 DEF Killed, ChildAlive, PluginInv, PluginTyped
<1>4. PluginTyped'
  BY <1>1, <1>2, <1>3 DEF PluginInv, PluginTyped
<1>5. SupervisorInv'
  <2>1. Clean'
    BY <1>2, <1>3 DEF Clean
  <2> QED
    BY <1>1, <2>1, StarterFacts, StarterStep
<1>6. ConnectionsCounted'
  BY <1>1, ClosingKeepsCount DEF PluginInv
<1> QED
  BY <1>4, <1>5, <1>6 DEF PluginInv

LEMMA StartFailsKeeps == ASSUME PluginInv, NEW t \in Starters, StartFails(t) PROVE PluginInv'
<1> DEFINE to == IF supervisor.state = "closed" THEN "closed" ELSE "stopped"
<1>1. /\ starting' = [starting EXCEPT ![t] = "idle"] /\ Starting(t) /\ starting[t] = "failed"
      /\ supervisor' = [supervisor EXCEPT !.state = to, !.run = FALSE, !.armed = FALSE,
                                          !.stopRequested = FALSE, !.op = "none"]
      /\ UNCHANGED <<child, stopping, client, calling>> /\ supervisor \in Supervisor
  BY DEF StartFails, Start, Starting, PluginInv, PluginTyped
<1>2. to \in {"closed", "stopped"}
  OBVIOUS
<1> HIDE DEF to
<1>3. supervisor' \in Supervisor /\ supervisor'.state = to
  BY <1>1, <1>2 DEF Supervisor
<1>4. PluginTyped'
  BY <1>1, <1>3 DEF PluginInv, PluginTyped
<1>5. Clean'
  BY <1>1, StarterFacts DEF Clean
<1>6. SupervisorInv'
  BY <1>1, <1>2, <1>3, <1>5, StarterFacts, StarterStep
<1>7. ConnectionsCounted'
  BY <1>1, CountUndisturbed DEF PluginInv
<1> QED
  BY <1>4, <1>6, <1>7 DEF PluginInv

-----------------------------------------------------------------------------
\* A Stop goes one step on.
LEMMA StopperStep ==
  ASSUME PluginInv, NEW t \in Stoppers, NEW next, stopping' = [stopping EXCEPT ![t] = next],
         starting' = starting, client'.made = client.made, client.closed => client'.closed,
         child' \in {"none", "killed", "down", child} \/ (child = "up" /\ child' = "interrupted"),
         child = "none" => child' = "none",
         supervisor'.state = "new" => supervisor.state = "new",
         (\E u \in Starters : Starting(u)) => supervisor'.state \in {"starting", "closed"},
         (\E u \in Stoppers : u # t /\ Terminates(u)) =>
            supervisor'.state \in {"stopping", "closed"} /\ next.pc \notin {"interrupt", "grace"},
         next.pc \in {"interrupt", "grace"} =>
            supervisor'.state \in {"stopping", "closed"} /\ \A u \in Starters : ~Starting(u),
         next.pc = "grace" => child' # "up" /\ client'.closed,
         supervisor'.state = "stopped" => Clean'
  PROVE  SupervisorInv'
<1>1. stopping'[t] = next /\ \A u \in Stoppers : u # t => stopping'[u] = stopping[u]
  BY DEF PluginInv, PluginTyped
<1>2. \A u \in Starters : Starting(u)' <=> Starting(u)
  BY DEF Starting
<1>3. Clean => Clean'
  BY DEF Clean
<1>4. StartIsAlone'
  BY <1>2, <1>3 DEF PluginInv, SupervisorInv, StartIsAlone
<1>5. \A u \in Stoppers : Terminates(u)' => (u = t /\ next.pc \in {"interrupt", "grace"}) \/ (u # t /\ Terminates(u))
  BY <1>1 DEF Terminates
<1>6. StopIsAlone'
  <2>1. SUFFICES ASSUME NEW u \in Stoppers, Terminates(u)'
        PROVE  /\ supervisor'.state \in {"stopping", "closed"}
               /\ \A v \in Stoppers : Terminates(v)' => v = u
               /\ \A v \in Starters : ~Starting(v)'
               /\ stopping'[u].pc = "grace" => child' # "up" /\ client'.closed
    BY DEF StopIsAlone
  <2>2. CASE u = t
    BY <1>1, <1>2, <1>5, <2>1, <2>2
  <2>3. CASE u # t
    <3>1. Terminates(u) /\ stopping'[u] = stopping[u]
      BY <1>1, <1>5, <2>1, <2>3
    <3>2. /\ \A v \in Stoppers : Terminates(v) => v = u
          /\ \A v \in Starters : ~Starting(v)
          /\ stopping[u].pc = "grace" => child # "up" /\ client.closed
      BY <3>1 DEF PluginInv, SupervisorInv, StopIsAlone
    <3> QED
      BY <1>2, <1>5, <2>3, <3>1, <3>2
  <2> QED
    BY <2>2, <2>3
<1>7. StoppedIsClean'
  BY DEF StoppedIsClean, Clean
<1> QED
  BY <1>4, <1>6, <1>7 DEF SupervisorInv

LEMMA StopEntersKeeps ==
  ASSUME PluginInv, NEW t \in Stoppers, NEW close \in BOOLEAN, StopEnters(t, close)
  PROVE  PluginInv'
<1> DEFINE pc == CASE supervisor.state \in {"starting", "stopping"} -> "wait"
                   [] supervisor.state = "running" -> "interrupt"
                   [] OTHER -> "return"
           next == [pc |-> pc, close |-> close, op |-> supervisor.op]
<1>1. /\ stopping' = [stopping EXCEPT ![t] = next] /\ stopping[t].pc = "idle"
      /\ UNCHANGED <<starting, client, calling>> /\ supervisor \in Supervisor
      /\ child' = IF supervisor.state = "starting" /\ supervisor.armed THEN Killed ELSE child
  BY DEF StopEnters, PluginInv, PluginTyped
<1>2. pc \in {"wait", "interrupt", "return"} /\ (pc = "interrupt" <=> supervisor.state = "running")
  OBVIOUS
<1> HIDE DEF pc
<1>3. next \in StopRequest /\ next.pc = pc
  BY <1>1, <1>2 DEF StopRequest, Supervisor
<1> HIDE DEF next
<1>4. child' \in {"none", "killed", "down", child} /\ (child = "none" => child' = "none")
  BY <1>1 DEF Killed, ChildAlive
<1>5. /\ supervisor' \in Supervisor
      /\ supervisor'.state = IF supervisor.state = "running" THEN "stopping" ELSE supervisor.state
  <2>1. CASE supervisor.state = "starting"
    <3>1. supervisor' = [supervisor EXCEPT !.stopRequested = TRUE, !.canceled = supervisor.canceled \/ supervisor.armed]
      BY <2>1 DEF StopEnters
    <3> QED
      BY <1>1, <2>1, <3>1 DEF Supervisor
  <2>2. CASE supervisor.state = "running"
    <3>1. supervisor' = [supervisor EXCEPT !.state = "stopping", !.op = "stop"]
      BY <2>2 DEF StopEnters
    <3> QED
      BY <1>1, <2>2, <3>1 DEF Supervisor
  <2>3. CASE supervisor.state \notin {"starting", "running"}
    BY <1>1, <2>3 DEF StopEnters
  <2> QED
    BY <2>1, <2>2, <2>3
<1>6. PluginTyped'
  <2>1. child' \in {"none", "up", "interrupted", "killed", "down"}
    BY <1>4 DEF PluginInv, PluginTyped
  <2> QED
    BY <1>1, <1>3, <1>5, <2>1 DEF PluginInv, PluginTyped
<1>7. SupervisorInv'
  <2>1. (\E u \in Starters : Starting(u)) => supervisor.state \in {"starting", "closed"}
    BY DEF PluginInv, SupervisorInv, StartIsAlone
  <2>2. (\E u \in Stoppers : Terminates(u)) => supervisor.state \in {"stopping", "closed"}
    BY DEF PluginInv, SupervisorInv, StopIsAlone
  <2>3. supervisor'.state = "stopped" => Clean'
    <3>1. supervisor'.state = "stopped" => supervisor.state = "stopped"
      BY <1>5
    <3> QED
      BY <1>1, <1>4, <3>1 DEF PluginInv, SupervisorInv, StoppedIsClean, Clean
  <2> QED
    BY <1>1, <1>2, <1>3, <1>4, <1>5, <2>1, <2>2, <2>3, StopperStep
<1>8. ConnectionsCounted'
  BY <1>1, CountUndisturbed DEF PluginInv
<1> QED
  BY <1>6, <1>7, <1>8 DEF PluginInv

\* A request that only waits, or returns, changes nothing that is running.
LEMMA WaitingStep ==
  ASSUME PluginInv, NEW t \in Stoppers, NEW next \in StopRequest, next.pc \notin {"interrupt", "grace"},
         stopping' = [stopping EXCEPT ![t] = next], supervisor' \in Supervisor,
         supervisor'.state \in {supervisor.state, "closed"}, UNCHANGED <<child, starting, client, calling>>
  PROVE  PluginInv'
<1>1. PluginTyped'
  BY DEF PluginInv, PluginTyped
<1>2. /\ (\E u \in Starters : Starting(u)) => supervisor.state \in {"starting", "closed"}
      /\ (\E u \in Stoppers : Terminates(u)) => supervisor.state \in {"stopping", "closed"}
  BY DEF PluginInv, SupervisorInv, StartIsAlone, StopIsAlone
<1>3. supervisor'.state = "stopped" => Clean'
  BY DEF PluginInv, SupervisorInv, StoppedIsClean, Clean
<1>4. SupervisorInv'
  BY <1>2, <1>3, StopperStep
<1>5. ConnectionsCounted'
  BY CountUndisturbed DEF PluginInv
<1> QED
  BY <1>1, <1>4, <1>5 DEF PluginInv

\* A request that goes on keeps what it is.
LEMMA RequestGoesOn ==
  ASSUME PluginTyped, NEW t \in Stoppers, stopping[t].pc # "idle", NEW pc \in {"grace", "return"}
  PROVE  [stopping[t] EXCEPT !.pc = pc] \in StopRequest /\ [stopping[t] EXCEPT !.pc = pc].pc = pc
<1>1. stopping[t] \in [pc : {"wait", "interrupt", "grace", "return"}, close : BOOLEAN, op : {"none", "start", "stop"}]
  BY DEF PluginTyped, StopRequest
<1> QED
  BY <1>1 DEF StopRequest

LEMMA StopWaitedKeeps == ASSUME PluginInv, NEW t \in Stoppers, StopWaited(t) PROVE PluginInv'
<1> DEFINE next == [stopping[t] EXCEPT !.pc = "return"]
<1>1. /\ stopping' = [stopping EXCEPT ![t] = next] /\ stopping[t].pc = "wait"
      /\ UNCHANGED <<supervisor, child, starting, client, calling>> /\ supervisor \in Supervisor
  BY DEF StopWaited, Stop, PluginInv, PluginTyped
<1>2. next \in StopRequest /\ next.pc = "return"
  BY <1>1, RequestGoesOn DEF PluginInv
<1> HIDE DEF next
<1> QED
  BY <1>1, <1>2, WaitingStep

LEMMA CloseOrReturnKeeps == ASSUME PluginInv, NEW t \in Stoppers, CloseOrReturn(t) PROVE PluginInv'
<1> DEFINE next == [pc |-> "idle"]
<1>1. /\ stopping' = [stopping EXCEPT ![t] = next] /\ supervisor \in Supervisor
      /\ UNCHANGED <<child, starting, client, calling>>
      /\ supervisor' = supervisor \/ supervisor' = [supervisor EXCEPT !.state = "closed"]
  BY DEF CloseOrReturn, StopReturns, PluginInv, PluginTyped
<1>2. next \in StopRequest /\ next.pc = "idle"
  BY DEF StopRequest
<1>3. supervisor' \in Supervisor /\ supervisor'.state \in {supervisor.state, "closed"}
  BY <1>1 DEF Supervisor
<1> HIDE DEF next
<1> QED
  BY <1>1, <1>2, <1>3, WaitingStep

LEMMA StopInterruptsKeeps == ASSUME PluginInv, NEW t \in Stoppers, StopInterrupts(t) PROVE PluginInv'
<1> DEFINE next == [stopping[t] EXCEPT !.pc = "grace"]
<1>1. /\ stopping' = [stopping EXCEPT ![t] = next] /\ stopping[t].pc = "interrupt" /\ Terminates(t)
      /\ UNCHANGED <<supervisor, starting, calling>> /\ client' = Closed(client)
      /\ child' \in (IF child = "up" THEN {"interrupted", "killed"} ELSE {child})
      /\ client \in PluginClient
  BY DEF StopInterrupts, Stop, PluginInv, PluginTyped, Terminates
<1>2. next \in StopRequest /\ next.pc = "grace"
  BY <1>1, RequestGoesOn DEF PluginInv
<1> HIDE DEF next
<1>3. client' \in PluginClient /\ client'.closed /\ client'.made = client.made
  BY <1>1, ClosedFacts
<1>4. PluginTyped'
  <2>1. child' \in {"none", "up", "interrupted", "killed", "down"}
    BY <1>1 DEF PluginInv, PluginTyped
  <2> QED
    BY <1>1, <1>2, <1>3, <2>1 DEF PluginInv, PluginTyped
<1>5. /\ supervisor.state \in {"stopping", "closed"} /\ \A u \in Starters : ~Starting(u)
      /\ \A u \in Stoppers : Terminates(u) => u = t
  BY <1>1 DEF PluginInv, SupervisorInv, StopIsAlone
<1>6. SupervisorInv'
  <2>1. child' # "up" /\ (child = "none" => child' = "none")
    BY <1>1
  <2>2. child' \in {"none", "killed", "down", child} \/ (child = "up" /\ child' = "interrupted")
    BY <1>1
  <2> QED
    BY <1>1, <1>2, <1>3, <1>5, <2>1, <2>2, StopperStep
<1>7. ConnectionsCounted'
  BY <1>1, ClosingKeepsCount DEF PluginInv
<1> QED
  BY <1>4, <1>6, <1>7 DEF PluginInv

LEMMA StopFinishesKeeps == ASSUME PluginInv, NEW t \in Stoppers, StopFinishes(t) PROVE PluginInv'
<1> DEFINE next == [stopping[t] EXCEPT !.pc = "return"]
           to == IF supervisor.state = "closed" THEN "closed" ELSE "stopped"
<1>1. /\ stopping' = [stopping EXCEPT ![t] = next] /\ stopping[t].pc = "grace" /\ Terminates(t)
      /\ UNCHANGED <<starting, client, calling>> /\ child' = StopKills(child) /\ supervisor \in Supervisor
      /\ supervisor' = [supervisor EXCEPT !.state = to, !.run = FALSE, !.op = "none"]
  BY DEF StopFinishes, Stop, PluginInv, PluginTyped, Terminates
<1>2. next \in StopRequest /\ next.pc = "return"
  BY <1>1, RequestGoesOn DEF PluginInv
<1>3. to \in {"closed", "stopped"}
  OBVIOUS
<1> HIDE DEF next, to
<1>4. supervisor' \in Supervisor /\ supervisor'.state \in {"closed", "stopped"}
  BY <1>1, <1>3 DEF Supervisor
<1>5. /\ \A u \in Starters : ~Starting(u) /\ child # "up" /\ client.closed
      /\ \A u \in Stoppers : Terminates(u) => u = t
  BY <1>1 DEF PluginInv, SupervisorInv, StopIsAlone
<1>6. child # "up" /\ client.closed
  BY <1>1 DEF PluginInv, SupervisorInv, StopIsAlone
<1>7. child' \in {"none", "killed", "down"} /\ (child = "none" => child' = "none")
  BY <1>1, <1>6 DEF StopKills, PluginInv, PluginTyped
<1>8. PluginTyped'
  BY <1>1, <1>2, <1>4, <1>7 DEF PluginInv, PluginTyped
<1>9. Clean'
  BY <1>1, <1>6, <1>7 DEF Clean
<1>10. SupervisorInv'
  BY <1>1, <1>2, <1>4, <1>5, <1>7, <1>9, StopperStep
<1>11. ConnectionsCounted'
  BY <1>1, CountUndisturbed DEF PluginInv
<1> QED
  BY <1>8, <1>10, <1>11 DEF PluginInv

LEMMA ChildExitsKeeps == ASSUME PluginInv, ChildExits PROVE PluginInv'
<1>1. UNCHANGED <<supervisor, starting, stopping, client, calling>> /\ child' = "down" /\ child # "none"
  BY DEF ChildExits
<1>2. PluginTyped'
  BY <1>1 DEF PluginInv, PluginTyped
<1>3. SupervisorInv'
  BY <1>1, SupervisorUndisturbed DEF PluginInv
<1>4. ConnectionsCounted'
  BY <1>1, CountUndisturbed DEF PluginInv
<1> QED
  BY <1>2, <1>3, <1>4 DEF PluginInv

-----------------------------------------------------------------------------
\* A call goes one step on.
LEMMA CallStep ==
  ASSUME PluginInv, NEW k \in PluginCalls,
         NEW pc \in {"idle", "connect", "queued", "dial", "install", "request"},
         calling' = [calling EXCEPT ![k] = pc], UNCHANGED supervision,
         client' \in PluginClient, client'.made = client.made, client'.closed = client.closed,
         ConnectionsCounted'
  PROVE  PluginInv'
<1>1. UNCHANGED <<supervisor, child, starting, stopping>>
  BY DEF supervision
<1>2. PluginTyped'
  BY <1>1 DEF PluginInv, PluginTyped
<1>3. SupervisorInv'
  BY <1>1, SupervisorUndisturbed DEF PluginInv
<1> QED
  BY <1>2, <1>3 DEF PluginInv

\* A call that is not about to connect, before and after.
LEMMA QuietCall ==
  ASSUME PluginInv, NEW k \in PluginCalls,
         NEW pc \in {"idle", "connect", "queued", "request"}, calling[k] # "install",
         calling' = [calling EXCEPT ![k] = pc], UNCHANGED <<supervision, client>>
  PROVE  PluginInv'
<1>1. calling'[k] = pc /\ \A j \in PluginCalls : j # k => calling'[j] = calling[j]
  BY DEF PluginInv, PluginTyped
<1>2. \A j \in PluginCalls : (Connecting(j)' => Connecting(j)) /\ (calling'[j] = "install" <=> calling[j] = "install")
  BY <1>1 DEF Connecting
<1>3. ConnectionsCounted'
  BY <1>2 DEF PluginInv, ConnectionsCounted
<1>4. client' \in PluginClient
  BY DEF PluginInv, PluginTyped
<1> QED
  BY <1>3, <1>4, CallStep

LEMMA DialKeeps == ASSUME PluginInv, NEW k \in PluginCalls, CallDials(k) PROVE PluginInv'
<1>1. UNCHANGED <<supervision, client>> /\ calling[k] = "queued" /\ \A j \in PluginCalls : ~Connecting(j)
  BY DEF CallDials, Connecting
<1>2. \/ \E pc \in {"idle", "request"} : calling' = [calling EXCEPT ![k] = pc]
      \/ ~client.conn /\ calling' = [calling EXCEPT ![k] = "dial"]
  BY DEF CallDials, Call, MustDial
<1>3. CASE ~client.conn /\ calling' = [calling EXCEPT ![k] = "dial"]
  <2>1. calling'[k] = "dial" /\ \A j \in PluginCalls : j # k => calling'[j] = calling[j]
    BY <1>3 DEF PluginInv, PluginTyped
  <2>2. \A j \in PluginCalls : (Connecting(j)' => j = k) /\ calling'[j] # "install" /\ calling[j] # "install"
    BY <1>1, <2>1 DEF Connecting
  <2>3. ConnectionsCounted'
    BY <1>1, <1>3, <2>2 DEF PluginInv, ConnectionsCounted
  <2>4. client' \in PluginClient
    BY <1>1 DEF PluginInv, PluginTyped
  <2> QED
    BY <1>1, <1>3, <2>3, <2>4, CallStep
<1> QED
  BY <1>1, <1>2, <1>3, QuietCall

LEMMA DialedKeeps == ASSUME PluginInv, NEW k \in PluginCalls, CallDialed(k) PROVE PluginInv'
<1>1. /\ UNCHANGED supervision /\ calling[k] = "dial" /\ client \in PluginClient /\ Connecting(k)
  BY DEF CallDialed, PluginInv, PluginTyped, Connecting
<1>2. \/ client' = client /\ calling' = [calling EXCEPT ![k] = "idle"]
      \/ client' = [client EXCEPT !.live = client.live + 1] /\ calling' = [calling EXCEPT ![k] = "install"]
  BY DEF CallDialed, Call
<1>3. CASE client' = [client EXCEPT !.live = client.live + 1] /\ calling' = [calling EXCEPT ![k] = "install"]
  <2>1. calling'[k] = "install" /\ \A j \in PluginCalls : j # k => calling'[j] = calling[j]
    BY <1>3 DEF PluginInv, PluginTyped
  <2>2. /\ client' \in PluginClient /\ client'.made = client.made /\ client'.closed = client.closed
        /\ client'.conn = client.conn /\ client'.live = client.live + 1
    BY <1>1, <1>3 DEF PluginClient
  <2>3. ~client.conn /\ \A j \in PluginCalls : Connecting(j) => j = k
    BY <1>1 DEF PluginInv, ConnectionsCounted
  <2>4. client.live = 0
    BY <1>1, <2>3 DEF PluginInv, ConnectionsCounted, Connecting
  <2>5. \A j \in PluginCalls : Connecting(j)' => j = k
    BY <2>1, <2>3 DEF Connecting
  <2>6. ConnectionsCounted'
    BY <2>1, <2>2, <2>3, <2>4, <2>5 DEF PluginInv, ConnectionsCounted
  <2> QED
    BY <1>1, <1>3, <2>2, <2>6, CallStep
<1> QED
  BY <1>1, <1>2, <1>3, QuietCall

LEMMA InstallKeeps == ASSUME PluginInv, NEW k \in PluginCalls, CallInstalls(k) PROVE PluginInv'
<1>1. /\ UNCHANGED supervision /\ calling[k] = "install" /\ client \in PluginClient /\ Connecting(k)
  BY DEF CallInstalls, PluginInv, PluginTyped, Connecting
<1>2. PICK pc \in {"idle", "request"} :
        /\ calling' = [calling EXCEPT ![k] = pc]
        /\ \/ client.closed /\ client' = [client EXCEPT !.live = client.live - 1]
           \/ ~client.closed /\ client' = [client EXCEPT !.conn = TRUE]
  BY DEF CallInstalls, Call, Refuses
<1>3. ~client.conn /\ client.live = 1 /\ \A j \in PluginCalls : Connecting(j) => j = k
  BY <1>1 DEF PluginInv, ConnectionsCounted
<1>4. calling'[k] = pc /\ \A j \in PluginCalls : j # k => calling'[j] = calling[j]
  BY <1>2 DEF PluginInv, PluginTyped
<1>5. \A j \in PluginCalls : ~Connecting(j)' /\ calling'[j] # "install"
  BY <1>3, <1>4 DEF Connecting
<1>6. /\ client' \in PluginClient /\ client'.made = client.made /\ client'.closed = client.closed
      /\ client'.closed => ~client'.conn
      /\ client'.live = IF client'.conn THEN 1 ELSE 0
  <2>1. CASE client.closed /\ client' = [client EXCEPT !.live = client.live - 1]
    <3>1. /\ client' \in PluginClient /\ client'.made = client.made /\ client'.closed = client.closed
          /\ client'.conn = client.conn /\ client'.live = client.live - 1
      <4> DEFINE n == client.live - 1
      <4>1. client' = [client EXCEPT !.live = n]
        BY <2>1
      <4>2. n \in Int
        BY <1>3
      <4> HIDE DEF n
      <4>3. /\ client' \in PluginClient /\ client'.made = client.made /\ client'.closed = client.closed
            /\ client'.conn = client.conn /\ client'.live = n
        BY <1>1, <4>1, <4>2 DEF PluginClient
      <4> QED
        BY <4>3 DEF n
    <3> QED
      BY <1>3, <3>1
  <2>2. CASE ~client.closed /\ client' = [client EXCEPT !.conn = TRUE]
    BY <1>1, <1>3, <2>2 DEF PluginClient
  <2> QED
    BY <1>2, <2>1, <2>2
<1>7. ConnectionsCounted'
  BY <1>5, <1>6 DEF ConnectionsCounted
<1> QED
  BY <1>1, <1>2, <1>6, <1>7, CallStep

LEMMA RegistryKeeps ==
  ASSUME PluginInv, UNCHANGED <<supervision, calling>>, client' = client \/ client' = Closed(client)
  PROVE  PluginInv'
<1>1. client \in PluginClient /\ UNCHANGED <<supervisor, child, starting, stopping>>
  BY DEF PluginInv, PluginTyped, supervision
<1>2. client' \in PluginClient /\ client'.made = client.made /\ (client.closed => client'.closed)
  BY <1>1, ClosedFacts
<1>3. PluginTyped' /\ SupervisorInv'
  BY <1>1, <1>2, SupervisorUndisturbed DEF PluginInv, PluginTyped
<1>4. ConnectionsCounted'
  BY ClosingKeepsCount, CountUndisturbed DEF PluginInv
<1> QED
  BY <1>3, <1>4 DEF PluginInv

LEMMA PluginInductive == PluginInv /\ [PluginNext]_pluginVars => PluginInv'
<1> SUFFICES ASSUME PluginInv, [PluginNext]_pluginVars PROVE PluginInv'
  OBVIOUS
<1>1. CASE UNCHANGED pluginVars
  BY <1>1, RegistryKeeps DEF pluginVars
<1>2. ASSUME NEW t \in Starters,
             \/ StartEnters(t) \/ StartArms(t) \/ StartLaunches(t) \/ StartHealthy(t)
             \/ StartFinishes(t) \/ StartCleansUp(t) \/ StartFails(t)
      PROVE  PluginInv'
  BY <1>2, StartEntersKeeps, StartArmsKeeps, StartLaunchesKeeps, StartHealthyKeeps, StartFinishesKeeps,
     StartCleansUpKeeps, StartFailsKeeps
<1>3. ASSUME NEW t \in Stoppers,
             \/ \E close \in BOOLEAN : StopEnters(t, close)
             \/ StopWaited(t) \/ StopInterrupts(t) \/ StopFinishes(t) \/ CloseOrReturn(t)
      PROVE  PluginInv'
  BY <1>3, StopEntersKeeps, StopWaitedKeeps, StopInterruptsKeeps, StopFinishesKeeps, CloseOrReturnKeeps
<1>4. CASE ChildExits
  BY <1>4, ChildExitsKeeps
<1>5. ASSUME NEW k \in PluginCalls, CallBegins(k) \/ CallConnects(k) \/ PluginCallEnds(k)
      PROVE  PluginInv'
  <2>1. /\ UNCHANGED <<supervision, client>> /\ calling[k] # "install"
        /\ \E pc \in {"idle", "connect", "queued", "request"} : calling' = [calling EXCEPT ![k] = pc]
    BY <1>5 DEF CallBegins, CallConnects, PluginCallEnds, Call
  <2> QED
    BY <2>1, QuietCall
<1>6. ASSUME NEW k \in PluginCalls, CallDials(k) \/ CallDialed(k) \/ CallInstalls(k)
      PROVE  PluginInv'
  BY <1>6, DialKeeps, DialedKeeps, InstallKeeps
<1>7. CASE \/ RegisterPlugin \/ Activate \/ DeactivateMarks \/ DeactivateDetaches \/ Unregister \/ CloseRegistry
  <2>1. UNCHANGED <<supervision, calling>> /\ (client' = client \/ client' = Closed(client))
    BY <1>7 DEF RegisterPlugin, Activate, DeactivateMarks, DeactivateDetaches, Unregister, CloseRegistry
  <2> QED
    BY <2>1, RegistryKeeps
<1> QED
  BY <1>1, <1>2, <1>3, <1>4, <1>5, <1>6, <1>7 DEF PluginNext

LEMMA PluginIsInvariant == PluginSpec => []PluginInv
BY PluginStarts, PluginInductive, PTL DEF PluginSpec

\* A stopped supervisor has no running child and a closed client, whichever calls of Start,
\* Stop and Close overlapped.
THEOREM PluginStopsClean == PluginSpec => []StoppedIsClean
<1>1. PluginInv => StoppedIsClean
  BY DEF PluginInv, SupervisorInv
<1> QED
  BY <1>1, PluginIsInvariant, PTL

\* However calls, dials and Close overlap, a closed client has no connection left.
THEOREM PluginLeaksNothing == PluginSpec => []NoConnectionLeaks
<1>1. PluginInv => NoConnectionLeaks
  BY DEF PluginInv, ConnectionsCounted, NoConnectionLeaks
<1> QED
  BY <1>1, PluginIsInvariant, PTL
=============================================================================
