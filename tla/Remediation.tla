----------------------------- MODULE Remediation -----------------------------
(***************************************************************************)
(* The remediation engine of the legacy server (pkg/remediation): proposals *)
(* are created by the scanner, approved or rejected by people, queued, and  *)
(* executed against the cluster by workers; a file store survives restarts. *)
(*                                                                         *)
(* A call of the store is atomic (its mutex and the rename of the file) and *)
(* either takes effect or fails.  Between two calls anything may happen.    *)
(* A chmod that fails after the rename counts as a failure: the file is     *)
(* then ahead of the memory until the next write.                           *)
(* A target is the resource version of the object a proposal is about.      *)
(***************************************************************************)
EXTENDS Naturals, Sequences

CONSTANTS
  Issues,         \* issues the scanner reports
  Protected,      \* issues whose target IsProtectedPod
  Manual,         \* issues whose action is ActionManual or ActionGitOpsPR
  Nominal,        \* version bumps of a Kind that is neither Deployment nor Pod
  Approvers,      \* concurrent requests to approve
  Workers,        \* EngineOptions.WorkerCount
  QueueSize,      \* EngineOptions.QueueSize
  MaxProposals,   \* bound: proposals ever created
  MaxVersions,    \* bound: versions of a target others make
  MaxRestarts,    \* bound: restarts of the process
  MaxWriteFailures \* bound: failed writes of the store

ASSUME RemediationAssumption ==
  /\ Protected \subseteq Issues /\ Manual \subseteq Issues
  /\ Nominal \subseteq Issues \ Manual
  /\ QueueSize \in Nat \ {0}
  /\ {MaxProposals, MaxVersions, MaxRestarts, MaxWriteFailures} \subseteq Nat

VARIABLES
  proposals,     \* the store: memory and proposals.json agree
  target,        \* resource version of an issue's object in the cluster
  engine,        \* "down", "up" or "closing"
  queue,         \* Engine.queue
  workers,       \* what each worker has in hand
  approvers,     \* where each Approve is
  recovering,    \* what recoverApprovedWork still has to look at
  restarts, writeFailures, \* counters of the bounds
  sent,          \* history: mutations a proposal sent to the API server
  effect,        \* history: proposals whose mutation took effect
  learned        \* history: proposals the outcome observer was given

remediationStore == <<proposals, writeFailures>>
remediationHistory == <<sent, effect, learned>>
remediationVars == <<proposals, target, engine, queue, workers, approvers, recovering,
                     restarts, writeFailures, sent, effect, learned>>

ProposalIds == 1..MaxProposals

\* Issues whose action neither reads nor changes its target.
Untouched == Manual \cup Nominal

\* A record of the store.  Statuses are those of engine.go, and PRUNED is a record that was
\* removed; verification is empty, VERIFIED, FAILED, UNAVAILABLE or UNVERIFIED.
NoProposal == [issue |-> CHOOSE i \in Issues : TRUE, version |-> 1, status |-> "NONE",
               expired |-> FALSE, verification |-> ""]

\* What a worker has in hand: idle, got, start, execute or finish.
IdleHand == [pc |-> "idle", id |-> 0, result |-> ""]

\* An ApproveProposal in progress: idle, approve or enqueue.
NoRequest == [pc |-> "idle", id |-> 0]

RemediationInit ==
  /\ proposals = [p \in ProposalIds |-> NoProposal]
  /\ target = [i \in Issues |-> 1]
  /\ engine = "up"
  /\ queue = <<>>
  /\ workers = [w \in Workers |-> IdleHand]
  /\ approvers = [a \in Approvers |-> NoRequest]
  /\ recovering = {}
  /\ restarts = 0 /\ writeFailures = 0
  /\ sent = [p \in ProposalIds |-> 0]
  /\ effect = {} /\ learned = {}

-----------------------------------------------------------------------------
(* The store. *)

ActiveProposal == {"PENDING", "APPROVED", "EXECUTING"}
TerminalProposal == {"COMPLETED", "REJECTED", "FAILED", "STALE", "EXPIRED"}

ValidProposalTransition ==
  [PENDING |-> {"APPROVED", "REJECTED", "STALE", "EXPIRED"},
   APPROVED |-> {"EXECUTING", "STALE", "EXPIRED"},
   EXECUTING |-> {"COMPLETED", "FAILED", "STALE"}]

\* Fault: the status is not compared with the one the caller expects.
MayTransitionAny(p, from, to) == to \in ValidProposalTransition[from]

\* transitionState: a compare-and-swap on the status.
MayTransition(p, from, to) ==
  /\ proposals[p].status = from
  /\ to \in ValidProposalTransition[from]

\* The write of the new state to a temporary file and its rename.
Saved(p, to, verification) ==
  /\ proposals' = [proposals EXCEPT ![p].status = to, ![p].verification = verification]
  /\ UNCHANGED writeFailures

\* A write that fails: nothing changes, PersistenceErrors counts it.
SaveFails ==
  /\ writeFailures < MaxWriteFailures
  /\ writeFailures' = writeFailures + 1
  /\ UNCHANGED proposals

\* Engine.transition where the caller does not care whether it succeeded.
Transition(p, from, to) ==
  IF MayTransition(p, from, to)
    THEN Saved(p, to, proposals[p].verification) \/ SaveFails
    ELSE UNCHANGED remediationStore

\* PruneRetention, and List: terminal proposals that are old or too many go.
PruneRetention(p) ==
  /\ engine # "down"
  /\ proposals[p].status \in TerminalProposal
  /\ proposals' = [proposals EXCEPT ![p].status = "PRUNED"]
  /\ UNCHANGED <<target, engine, queue, workers, approvers, recovering, restarts,
                 writeFailures, remediationHistory>>

\* ExpiresAt of an active proposal passes.
ProposalExpires(p) ==
  /\ proposals[p].status \in ActiveProposal /\ ~proposals[p].expired
  /\ proposals' = [proposals EXCEPT ![p].expired = TRUE]
  /\ UNCHANGED <<target, engine, queue, workers, approvers, recovering, restarts,
                 writeFailures, remediationHistory>>

-----------------------------------------------------------------------------
(* Scanner and people. *)

\* Fault: only proposals that wait for approval count as active.
ActiveForPending(i) == {p \in ProposalIds : proposals[p].issue = i /\ proposals[p].status = "PENDING"}

ActiveFor(i) == {p \in ProposalIds : proposals[p].issue = i /\ proposals[p].status \in ActiveProposal}

\* CreateProposalForActor, under createMu: the active proposal of the issue is
\* returned, or one is stored that pins the version the scanner saw.
CreateProposal(i) ==
  /\ engine # "down"
  /\ ActiveFor(i) = {}
  /\ \E p \in ProposalIds :
       /\ proposals[p].status = "NONE"
       /\ \A q \in 1..p - 1 : proposals[q].status # "NONE"
       /\ proposals' = [proposals EXCEPT ![p] = [NoProposal EXCEPT
                          !.issue = i, !.version = target[i], !.status = "PENDING"]]
  /\ UNCHANGED <<target, engine, queue, workers, approvers, recovering, restarts,
                 writeFailures, remediationHistory>>

\* Fault: the object there is now is not compared with the one the proposal is about.
ValidationsAnyVersion(p) ==
  LET i == proposals[p].issue
  IN  IF i \in Untouched THEN {"ok"} ELSE {"stale", IF i \in Protected THEN "protected" ELSE "ok"}

\* Executor.Validate: it cannot tell a target it cannot read from one that is gone, and
\* accepts a version bump of any other Kind without reading the target.
Validations(p) ==
  LET i == proposals[p].issue
  IN  CASE i \in Untouched -> {"ok"}
        [] i \notin Untouched /\ target[i] # proposals[p].version -> {"stale"}
        [] OTHER -> {"stale", IF i \in Protected THEN "protected" ELSE "ok"}

\* Approve up to its last transition.
ApproveValidates(a, p) ==
  /\ engine # "down"
  /\ approvers[a] = NoRequest
  /\ proposals[p].status \notin {"NONE", "PRUNED"}
  /\ IF proposals[p].expired
       THEN Transition(p, "PENDING", "EXPIRED") /\ UNCHANGED approvers
       ELSE \E v \in Validations(p) :
              \/ v = "stale" /\ Transition(p, "PENDING", "STALE") /\ UNCHANGED approvers
              \/ v = "protected" /\ Transition(p, "PENDING", "REJECTED") /\ UNCHANGED approvers
              \/ /\ v = "ok"
                 /\ approvers' = [approvers EXCEPT ![a] = [pc |-> "approve", id |-> p]]
                 /\ UNCHANGED remediationStore
  /\ UNCHANGED <<target, engine, queue, workers, recovering, restarts, remediationHistory>>

\* The approval becomes durable before the work is queued.
ApproveCommits(a) ==
  /\ approvers[a].pc = "approve"
  /\ LET p == approvers[a].id
     IN  IF MayTransition(p, "PENDING", "APPROVED") /\ engine # "down"
           THEN \/ /\ Saved(p, "APPROVED", "")
                   /\ approvers' = [approvers EXCEPT ![a].pc = "enqueue"]
                \/ SaveFails /\ approvers' = [approvers EXCEPT ![a] = NoRequest]
           ELSE /\ approvers' = [approvers EXCEPT ![a] = NoRequest]
                /\ UNCHANGED remediationStore
  /\ UNCHANGED <<target, engine, queue, workers, recovering, restarts, remediationHistory>>

\* enqueue: the queue takes it, or the request's context or the engine ends first.
Enqueue(a) ==
  /\ approvers[a].pc = "enqueue"
  /\ approvers' = [approvers EXCEPT ![a] = NoRequest]
  /\ \/ Len(queue) < QueueSize /\ queue' = Append(queue, approvers[a].id)
     \/ UNCHANGED queue
  /\ UNCHANGED <<proposals, target, engine, workers, recovering, restarts, writeFailures,
                 remediationHistory>>

Reject(p) ==
  /\ engine # "down"
  /\ proposals[p].status = "PENDING"
  /\ Transition(p, "PENDING", IF proposals[p].expired THEN "EXPIRED" ELSE "REJECTED")
  /\ UNCHANGED <<target, engine, queue, workers, approvers, recovering, restarts,
                 remediationHistory>>

-----------------------------------------------------------------------------
(* Workers. *)

Dequeue(w) ==
  /\ engine # "down"
  /\ workers[w].pc = "idle" /\ queue # <<>>
  /\ workers' = [workers EXCEPT ![w] = [pc |-> "got", id |-> Head(queue), result |-> ""]]
  /\ queue' = Tail(queue)
  /\ UNCHANGED <<proposals, target, engine, approvers, recovering, restarts, writeFailures,
                 remediationHistory>>

\* executeProposal reads the proposal.
LookUp(w) ==
  /\ workers[w].pc = "got"
  /\ LET p == workers[w].id
     IN  CASE proposals[p].status # "APPROVED" ->
                /\ workers' = [workers EXCEPT ![w] = IdleHand]
                /\ UNCHANGED remediationStore
           [] proposals[p].status = "APPROVED" /\ proposals[p].expired ->
                /\ workers' = [workers EXCEPT ![w] = IdleHand]
                /\ Transition(p, "APPROVED", "EXPIRED")
           [] OTHER ->
                /\ workers' = [workers EXCEPT ![w].pc = "start"]
                /\ UNCHANGED remediationStore
  /\ UNCHANGED <<target, engine, queue, approvers, recovering, restarts, remediationHistory>>

\* The durable EXECUTING that must precede the mutation.
StartExecution(w) ==
  /\ workers[w].pc = "start"
  /\ LET p == workers[w].id
     IN  IF MayTransition(p, "APPROVED", "EXECUTING")
           THEN \/ /\ Saved(p, "EXECUTING", "")
                   /\ workers' = [workers EXCEPT ![w].pc = "execute"]
                \/ SaveFails /\ workers' = [workers EXCEPT ![w] = IdleHand]
           ELSE /\ workers' = [workers EXCEPT ![w] = IdleHand]
                /\ UNCHANGED remediationStore
  /\ UNCHANGED <<target, engine, queue, approvers, recovering, restarts, remediationHistory>>

\* Fault: a mutation whose answer is lost is reported as a stale target.
LostIsStale(answered) == IF answered THEN "ok" ELSE "stale"

\* What Execute returns for a mutation the API server applied: conflict and not
\* found are the only answers that mean stale.
LostAnswer(answered) == IF answered THEN "ok" ELSE "error"

\* The API server accepts the delete, patch or update: the object is another one.
MutationApplied(p) ==
  /\ target' = [target EXCEPT ![proposals[p].issue] = @ + 1]
  /\ sent' = [sent EXCEPT ![p] = @ + 1]
  /\ effect' = effect \cup {p}

\* Execute: Validate again, then the mutation with the pinned version as its
\* precondition.  The answer may be lost or late (execution timeout, Close).  A manual
\* action, and a version bump of any other Kind, succeed without a call.
Execute(w) ==
  /\ workers[w].pc = "execute"
  /\ LET p == workers[w].id
         i == proposals[p].issue
     IN \E v \in Validations(p) :
          \/ /\ v = "stale"
             /\ workers' = [workers EXCEPT ![w].pc = "finish", ![w].result = "stale"]
             /\ sent' \in {sent, [sent EXCEPT ![p] = @ + 1]}
             /\ UNCHANGED <<target, effect>>
          \/ /\ v = "protected" \/ (v = "ok" /\ i \notin Untouched)
             /\ workers' = [workers EXCEPT ![w].pc = "finish", ![w].result = "error"]
             /\ sent' = IF v = "ok" THEN [sent EXCEPT ![p] = @ + 1] ELSE sent
             /\ UNCHANGED <<target, effect>>
          \/ /\ v = "ok" /\ i \in Untouched
             /\ workers' = [workers EXCEPT ![w].pc = "finish", ![w].result = "ok"]
             /\ UNCHANGED <<target, sent, effect>>
          \/ /\ v = "ok" /\ i \notin Untouched
             /\ MutationApplied(p)
             /\ \E answered \in BOOLEAN :
                  workers' = [workers EXCEPT ![w].pc = "finish", ![w].result = LostAnswer(answered)]
  /\ UNCHANGED <<proposals, engine, queue, approvers, recovering, restarts, writeFailures, learned>>

\* Verify: after the mutation the target is the requested one, is not (a Pod with
\* finalizers), or cannot be read; the version bump that changed nothing is VERIFIED
\* without a read, and a manual action is not verified.
Verifications(p) ==
  CASE proposals[p].issue \in Manual -> {"UNVERIFIED"}
    [] proposals[p].issue \in Nominal -> {"VERIFIED"}
    [] OTHER -> {"VERIFIED", "FAILED", "UNAVAILABLE"}

\* finishExecution, or finishVerifiedExecution and scheduleOutcome, which gives a
\* durable verified outcome to the observer if it has a free slot.
FinishExecution(w) ==
  /\ workers[w].pc = "finish"
  /\ workers' = [workers EXCEPT ![w] = IdleHand]
  /\ LET p == workers[w].id
     IN  CASE workers[w].result = "stale" -> Transition(p, "EXECUTING", "STALE") /\ UNCHANGED learned
           [] workers[w].result = "error" -> Transition(p, "EXECUTING", "FAILED") /\ UNCHANGED learned
           [] OTHER ->
                \/ \E v \in Verifications(p) :
                     /\ MayTransition(p, "EXECUTING", "COMPLETED")
                     /\ Saved(p, "COMPLETED", v)
                     /\ \/ v = "VERIFIED" /\ learned' = learned \cup {p}
                        \/ UNCHANGED learned
                \/ SaveFails /\ UNCHANGED learned
  /\ UNCHANGED <<target, engine, queue, approvers, recovering, restarts, sent, effect>>

-----------------------------------------------------------------------------
(* The process and the cluster. *)

\* Close cancels the workers' context; the queue is dropped with the process.
CloseEngine ==
  /\ engine = "up"
  /\ engine' = "closing"
  /\ recovering' = {}
  /\ UNCHANGED <<proposals, target, queue, workers, approvers, restarts, writeFailures,
                 remediationHistory>>

\* The workers have returned and the store is closed, or the process dies.
StopProcess ==
  /\ engine' = "down"
  /\ queue' = <<>>
  /\ workers' = [w \in Workers |-> IdleHand]
  /\ approvers' = [a \in Approvers |-> NoRequest]
  /\ recovering' = {}
  /\ UNCHANGED <<proposals, target, restarts, writeFailures, remediationHistory>>

EngineClosed ==
  /\ engine = "closing"
  /\ \A w \in Workers : workers[w].pc = "idle"
  /\ StopProcess

EngineCrashes == engine # "down" /\ StopProcess

\* What NewFileProposalStore reads from the file, as far as recovery looks at it.
Listed ==
  {[id |-> p, status |-> proposals[p].status, expired |-> proposals[p].expired] :
     p \in {q \in ProposalIds : proposals[q].status \in ActiveProposal}}

\* NewEngineWithVerificationOptions: the proposals are listed before the engine is
\* exposed, and recovery runs beside the workers.
StartEngine ==
  /\ engine = "down" /\ restarts < MaxRestarts
  /\ engine' = "up"
  /\ restarts' = restarts + 1
  /\ recovering' = Listed
  /\ UNCHANGED <<proposals, target, queue, workers, approvers, writeFailures, remediationHistory>>

\* Fault: what was being executed is queued again.
RecoverAgain(r) ==
  IF r.status \in {"APPROVED", "EXECUTING"}
    THEN /\ Len(queue) < QueueSize
         /\ queue' = Append(queue, r.id)
         /\ proposals' = [proposals EXCEPT ![r.id].status = "APPROVED"]
         /\ UNCHANGED writeFailures
    ELSE UNCHANGED <<queue, remediationStore>>

\* recoverApprovedWork for one listed proposal.
Recover(r) ==
  CASE r.expired /\ r.status \in {"PENDING", "APPROVED"} ->
         Transition(r.id, r.status, "EXPIRED") /\ UNCHANGED queue
    [] ~r.expired /\ r.status = "APPROVED" ->
         /\ Len(queue) < QueueSize
         /\ queue' = Append(queue, r.id)
         /\ UNCHANGED remediationStore
    [] ~r.expired /\ r.status = "EXECUTING" ->
         Transition(r.id, "EXECUTING", "FAILED") /\ UNCHANGED queue
    [] OTHER -> UNCHANGED <<queue, remediationStore>>

RecoverNext ==
  /\ engine = "up"
  /\ \E r \in recovering :
       /\ \A s \in recovering : r.id <= s.id
       /\ Recover(r)
       /\ recovering' = recovering \ {r}
  /\ UNCHANGED <<target, engine, workers, approvers, restarts, remediationHistory>>

\* Somebody else changes the object.  Only a change under an active proposal is noticed:
\* the versions of other objects, and of untouched ones, are compared with nothing.
TargetChanges(i) ==
  /\ i \notin Untouched /\ ActiveFor(i) # {}
  /\ target[i] < MaxVersions
  /\ target' = [target EXCEPT ![i] = @ + 1]
  /\ UNCHANGED <<proposals, engine, queue, workers, approvers, recovering, restarts,
                 writeFailures, remediationHistory>>

WorkerNext(w) ==
  \/ Dequeue(w)
  \/ LookUp(w)
  \/ StartExecution(w)
  \/ Execute(w)
  \/ FinishExecution(w)

RemediationNext ==
  \/ \E p \in ProposalIds : PruneRetention(p) \/ ProposalExpires(p) \/ Reject(p)
  \/ \E i \in Issues : CreateProposal(i) \/ TargetChanges(i)
  \/ \E a \in Approvers, p \in ProposalIds : ApproveValidates(a, p)
  \/ \E a \in Approvers : ApproveCommits(a) \/ Enqueue(a)
  \/ \E w \in Workers : WorkerNext(w)
  \/ CloseEngine
  \/ EngineClosed
  \/ EngineCrashes
  \/ StartEngine
  \/ RecoverNext

RemediationSpec == RemediationInit /\ [][RemediationNext]_remediationVars

-----------------------------------------------------------------------------
(* Properties. *)

\* A proposal's mutation is sent at most once: not again after a repeated approval, and
\* not by recovery after a crash in the middle (executeProposal, Approve,
\* recoverApprovedWork).
MutatedAtMostOnce == \A p \in ProposalIds : sent[p] <= 1

\* What the store says of a proposal is true of the cluster: COMPLETED took effect, but for
\* manual actions and for version bumps of a Kind the executor has no call for, which it
\* reports as done and verified (executeVersionBump); STALE, REJECTED and EXPIRED did not,
\* whatever was lost in between (finishExecution).  Only what is durably COMPLETED and
\* VERIFIED was learned from, so it took effect or is such a bump (scheduleOutcome).
ProposalOutcomeIsTrue ==
  \A p \in ProposalIds :
    /\ proposals[p].status = "COMPLETED" => p \in effect \/ proposals[p].issue \in Untouched
    /\ proposals[p].status \in {"PENDING", "APPROVED", "STALE", "REJECTED", "EXPIRED"} => p \notin effect
    /\ p \in learned =>
         /\ proposals[p].status \in {"COMPLETED", "PRUNED"} /\ proposals[p].verification = "VERIFIED"
         /\ p \in effect \/ proposals[p].issue \in Nominal

\* An issue has at most one active proposal, so two approvals never race for one
\* target (CreateProposalForActor).
OneActiveProposal ==
  \A p, q \in ProposalIds :
    /\ {proposals[p].status, proposals[q].status} \subseteq ActiveProposal
    /\ proposals[p].issue = proposals[q].issue
    => p = q

\* The engine keeps the promise of ProposalPromise: every step of scanner, people, workers,
\* recovery and restarts is one of its moves or none (engine.go and the store's
\* transitionState).
Kept == INSTANCE ProposalPromise WITH
  Proposals <- ProposalIds,
  status <- [p \in ProposalIds |-> proposals[p].status],
  manual <- {p \in ProposalIds : proposals[p].status # "NONE" /\ proposals[p].issue \in Manual},
  nominal <- {p \in ProposalIds : proposals[p].status # "NONE" /\ proposals[p].issue \in Nominal},
  current <- {p \in ProposalIds :
                proposals[p].status # "NONE" /\ target[proposals[p].issue] = proposals[p].version}

KeepsProposalPromise == Kept!Spec

\* Once recovery is over, whatever is EXECUTING is in a worker's hands: an interrupted
\* mutation was recorded as failed (recoverApprovedWork).
InterruptedIsFailed ==
  engine = "up" /\ recovering = {} =>
    \A p \in ProposalIds :
      proposals[p].status = "EXECUTING" => \E w \in Workers : workers[w].id = p
=============================================================================
