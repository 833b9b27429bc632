--------------------------- MODULE DiagnosticJobs ---------------------------
(***************************************************************************)
(* Diagnostic jobs: engineers enqueue them, enrolled collectors claim and  *)
(* assess them (pkg/investigation/queue.go, agent.go, over the             *)
(* diagnostic_jobs and investigation_runs tables).                         *)
(*                                                                         *)
(* A transaction holds the scope's advisory lock, so each is one action.   *)
(* The claim and refresh requests are several transactions each, and an    *)
(* agent that gave up on a request leaves its handler running: a handler   *)
(* that is no longer awaited may still commit.                             *)
(*                                                                         *)
(* What a snapshot holds is abstracted to two versions: of the incident's  *)
(* eligible evidence and answers, and of the environment with the reviewed *)
(* guidance.  Jobs are numbered in the order of created_at.  Of moments of *)
(* time only what is left of them is kept, and Tick counts it down.        *)
(***************************************************************************)
EXTENDS Naturals, FiniteSets, Sequences

CONSTANTS
  Incidents,      \* incidents of the application
  Profiles,       \* investigation profiles
  Agents,         \* enrolled collectors
  Serves,         \* agent -> the profiles it asks for
  MaxJobs,        \* bound: jobs ever enqueued
  MaxActive,      \* 8 active jobs
  Lifetime,       \* 10 minutes, or what is left of the engineer's session
  LeaseTime,      \* DiagnosticLeaseDuration, 30 seconds
  WorkTime,       \* 90 seconds: the context of runDiagnostic
  MaxRefreshes,   \* 2 refreshes of an attempt
  MaxAttempts,    \* bound: claims of a job
  MaxEvidence,    \* bound: versions of an incident's evidence
  MaxEnvironment, \* bound: versions of the environment
  MaxGeneration,  \* bound: renewals of a credential
  MaxLate         \* bound: handlers of an agent it no longer waits for

ASSUME DiagnosticJobsAssumption ==
  /\ {MaxJobs, MaxActive, Lifetime, LeaseTime, WorkTime} \subseteq Nat \ {0}
  /\ {MaxRefreshes, MaxAttempts, MaxGeneration, MaxLate} \subseteq Nat
  /\ {MaxEvidence, MaxEnvironment} \subseteq Nat \ {0}
  /\ Incidents # {} /\ Profiles # {} /\ Agents # {}
  /\ Serves \in [Agents -> SUBSET Profiles]

VARIABLES
  jobs,         \* diagnostic_jobs table
  runs,         \* investigation_runs.status of a job
  claims,       \* the claims recorded for a job
  questions,    \* status of the clarification a job asked for
  outbox,       \* events recorded for jobs
  evidence,     \* version of what an incident's evidence and answers are now
  environment,  \* version of the environment context and the guidance
  generation,   \* generation of an agent's credential
  agents,       \* what an agent is doing
  handlers      \* requests of agents the orchestrator is serving

tables == <<jobs, runs, claims, questions, outbox>>
context == <<evidence, environment, generation>>
vars == <<tables, context, agents, handlers>>

JobIds == 1..MaxJobs

Snapshot == [evidence : 0..MaxEvidence, environment : 0..MaxEnvironment]

\* input IS NULL.
NoInput == [evidence |-> 0, environment |-> 0]

Active == {"QUEUED", "RUNNING"}

Job == [state : Active \cup {"NONE", "COMPLETED", "CANCELLED"}, incident : Incidents,
        profile : Profiles, expiresIn : 0..Lifetime, agent : Agents,
        generation : 1..MaxGeneration + 1, attempt : 0..MaxAttempts,
        leaseLeft : 0..LeaseTime, input : Snapshot, refreshes : 0..MaxRefreshes]

NoJob == [state |-> "NONE", incident |-> CHOOSE i \in Incidents : TRUE,
          profile |-> CHOOSE p \in Profiles : TRUE, expiresIn |-> 0,
          agent |-> CHOOSE a \in Agents : TRUE, generation |-> 1, attempt |-> 0,
          leaseLeft |-> 0, input |-> NoInput, refreshes |-> 0]

\* parents are the claim's; assessed is the snapshot the agent reasoned about.
ClaimItem == [attempt : 1..MaxAttempts, parents : Snapshot, assessed : Snapshot,
              needsEvidence : BOOLEAN]

Work == [pc : {"idle", "claiming", "working", "refreshing", "concluding",
               "completing"},
         job : JobIds, attempt : 0..MaxAttempts, snapshot : Snapshot, left : 0..WorkTime]

NoWork == [pc |-> "idle", job |-> 1, attempt |-> 0, snapshot |-> NoInput, left |-> 0]

Handler == [step : {"read", "start", "collect", "store", "complete"}, agent : Agents,
            generation : 1..MaxGeneration + 1, job : JobIds, attempt : 1..MaxAttempts,
            snapshot : Snapshot, awaited : BOOLEAN]

Init ==
  /\ jobs = [j \in JobIds |-> NoJob]
  /\ runs = [j \in JobIds |-> "NONE"]
  /\ claims = [j \in JobIds |-> <<>>]
  /\ questions = [j \in JobIds |-> "NONE"]
  /\ outbox = {}
  /\ evidence = [i \in Incidents |-> 1]
  /\ environment = 1
  /\ generation = [a \in Agents |-> 1]
  /\ agents = [a \in Agents |-> NoWork]
  /\ handlers = {}

Least(m, n) == IF m < n THEN m ELSE n

Less(n, d) == IF n > d THEN n - d ELSE 0

\* What is left after d units of time; of a finished job nobody reads it.
AgedJobs(d) ==
  [j \in JobIds |-> IF jobs[j].state \in Active
                    THEN [jobs[j] EXCEPT !.expiresIn = Less(@, d), !.leaseLeft = Less(@, d)]
                    ELSE jobs[j]]

AgedAgents(d) == [a \in Agents |-> [agents[a] EXCEPT !.left = Less(@, d)]]

Tick ==
  /\ jobs' = AgedJobs(1)
  /\ agents' = AgedAgents(1)
  /\ UNCHANGED <<runs, claims, questions, outbox, context, handlers>>

-----------------------------------------------------------------------------
(***************************************************************************)
(* Engineers.                                                              *)
(***************************************************************************)
ActiveJobs == {j \in JobIds : jobs[j].state \in Active}

\* ActiveDiagnosticJob does not look at expires_at.
ActiveDiagnosticJob(i) == {j \in ActiveJobs : jobs[j].incident = i}

\* Enqueue.  With an active job of the incident it returns that one (same profile) or
\* ErrConflict, and changes nothing; StartRun and QueueRun leave the run QUEUED.
Enqueue(i, p) ==
  /\ ActiveDiagnosticJob(i) = {}
  /\ Cardinality(ActiveJobs) < MaxActive
  /\ \E j \in JobIds, life \in 1..Lifetime :
       /\ jobs[j].state = "NONE"
       /\ \A k \in 1..j - 1 : jobs[k].state # "NONE"
       /\ jobs' = [jobs EXCEPT ![j] = [NoJob EXCEPT !.state = "QUEUED", !.incident = i,
                                                    !.profile = p, !.expiresIn = life]]
       /\ runs' = [runs EXCEPT ![j] = "QUEUED"]
  /\ UNCHANGED <<claims, questions, outbox, context, agents, handlers>>

\* FinishDiagnosticJob.
Finished(row, state) ==
  IF row.state \in Active
  THEN [row EXCEPT !.state = state, !.input = NoInput, !.leaseLeft = 0]
  ELSE row

\* FinishRun.
FinishedRun(status, outcome) == IF status \in Active THEN outcome ELSE status

Cancel(j) ==
  /\ jobs[j].state \in Active
  /\ jobs' = [jobs EXCEPT ![j] = Finished(@, "CANCELLED")]
  /\ runs' = [runs EXCEPT ![j] = FinishedRun(@, "CANCELLED")]
  /\ UNCHANGED <<claims, questions, outbox, context, agents, handlers>>

\* AnswerInteraction: the answer becomes part of what is read of the incident.
Answer(j) ==
  /\ questions[j] = "PENDING"
  /\ evidence[jobs[j].incident] < MaxEvidence
  /\ questions' = [questions EXCEPT ![j] = "ANSWERED"]
  /\ outbox' = outbox \cup {<<"CLARIFICATION_ANSWERED", j>>}
  /\ evidence' = [evidence EXCEPT ![jobs[j].incident] = @ + 1]
  /\ UNCHANGED <<jobs, runs, claims, environment, generation, agents, handlers>>

-----------------------------------------------------------------------------
(***************************************************************************)
(* What snapshots are read from.                                           *)
(***************************************************************************)
\* readSnapshot.
Current(i) == [evidence |-> evidence[i], environment |-> environment]

\* A report, a quarantine, or evidence or an answer that is too old by now.
EvidenceChanges(i) ==
  /\ evidence[i] < MaxEvidence
  /\ evidence' = [evidence EXCEPT ![i] = @ + 1]
  /\ UNCHANGED <<tables, environment, generation, agents, handlers>>

\* Another environment context, or guidance that is retired.
EnvironmentChanges ==
  /\ environment < MaxEnvironment
  /\ environment' = environment + 1
  /\ UNCHANGED <<tables, evidence, generation, agents, handlers>>

\* An agent's credential is renewed: what it observed under the old one is no longer
\* eligible.
Renew(a) ==
  /\ generation[a] <= MaxGeneration
  /\ \A i \in Incidents : evidence[i] < MaxEvidence
  /\ generation' = [generation EXCEPT ![a] = @ + 1]
  /\ evidence' = [i \in Incidents |-> evidence[i] + 1]
  /\ UNCHANGED <<tables, environment, agents, handlers>>

-----------------------------------------------------------------------------
(***************************************************************************)
(* ClaimAgent, its first transaction.                                      *)
(***************************************************************************)
\* ClaimAgentDiagnostic, its second and third statement, on a row.
Swept(row) ==
  CASE row.state \in Active /\ row.expiresIn = 0
         -> [row EXCEPT !.state = "CANCELLED", !.input = NoInput]
    [] row.state = "RUNNING" /\ row.expiresIn > 0 /\ row.leaseLeft = 0
         -> [row EXCEPT !.state = "QUEUED", !.input = NoInput]
    [] OTHER -> row

\* The first statement ends the runs of the jobs that have expired.
RunsSwept ==
  [j \in JobIds |-> IF jobs[j].state \in Active /\ jobs[j].expiresIn = 0
                    THEN FinishedRun(runs[j], "CANCELLED") ELSE runs[j]]

\* The rows before the fourth statement.  Each statement reads the clock for itself:
\* the later ones may read it d units after the first.
JobsSwept(d) == [j \in JobIds |-> Swept(AgedJobs(d)[j])]

\* What the fourth statement selects from.
Claimable(rows, a) ==
  {j \in JobIds : /\ rows[j].state = "QUEUED"
                  /\ rows[j].profile \in Serves[a]
                  /\ \A k \in JobIds : rows[k].state # "RUNNING"}

Claimed(row, a) ==
  [row EXCEPT !.state = "RUNNING", !.agent = a, !.generation = generation[a],
              !.attempt = @ + 1, !.leaseLeft = Least(row.expiresIn, LeaseTime),
              !.input = NoInput, !.refreshes = 0]

\* Nothing to claim is an error of the transaction: what it swept is rolled back.
Claim(a) ==
  /\ agents[a].pc = "idle"
  /\ \E d \in {0, 1} :
       LET rows == JobsSwept(d)
       IN  \E j \in Claimable(rows, a) :
             /\ \A k \in Claimable(rows, a) : j <= k
             /\ rows[j].attempt < MaxAttempts
             /\ jobs' = [rows EXCEPT ![j] = Claimed(@, a)]
             /\ runs' = RunsSwept
             /\ agents' = [AgedAgents(d) EXCEPT ![a].pc = "claiming"]
             /\ handlers' = handlers \cup
                  {[step |-> "read", agent |-> a, generation |-> generation[a], job |-> j,
                    attempt |-> rows[j].attempt + 1, snapshot |-> NoInput, awaited |-> TRUE]}
  /\ UNCHANGED <<claims, questions, outbox, context>>

-----------------------------------------------------------------------------
(***************************************************************************)
(* Requests and their handlers.                                            *)
(***************************************************************************)
\* Fault: a cancelled job still takes its agent's result.
HeldAnyState(j, attempt, a, g) ==
  /\ g = generation[a]
  /\ jobs[j].attempt = attempt /\ jobs[j].agent = a /\ jobs[j].generation = g

\* Fault: a lease is recognised by its agent alone.
HeldByAgent(j, attempt, a, g) ==
  /\ g = generation[a]
  /\ jobs[j].state = "RUNNING" /\ jobs[j].agent = a /\ jobs[j].generation = g
  /\ jobs[j].expiresIn > 0 /\ jobs[j].leaseLeft > 0

\* The token authenticates, and AgentDiagnostic finds the job under this attempt.
Held(j, attempt, a, g) ==
  /\ g = generation[a]
  /\ jobs[j].state = "RUNNING"
  /\ jobs[j].attempt = attempt /\ jobs[j].agent = a /\ jobs[j].generation = g
  /\ jobs[j].expiresIn > 0 /\ jobs[j].leaseLeft > 0

HeldBy(h) == Held(h.job, h.attempt, h.agent, h.generation)

\* Fault: only the environment is compared.
ValidEnvironment(snapshot, i) == snapshot.environment = environment /\ snapshot # NoInput

\* validateAgentSnapshot.
ValidSnapshot(snapshot, i) == snapshot = Current(i)

Moved(h, step, snapshot) ==
  (handlers \ {h}) \cup {[h EXCEPT !.step = step, !.snapshot = snapshot]}

\* The handler answers; an agent that waits for it goes on with its next state.
Respond(h, next) ==
  /\ handlers' = handlers \ {h}
  /\ agents' = IF h.awaited THEN [agents EXCEPT ![h.agent] = next] ELSE agents

\* ClaimAgent reads the incident, outside of the transaction that claimed the job.
ClaimRead(h) ==
  /\ h.step = "read"
  /\ handlers' = Moved(h, "start", Current(jobs[h.job].incident))
  /\ UNCHANGED <<tables, context, agents>>

\* ClaimAgent, its last transaction: StartAgentDiagnostic and SetDiagnosticInput.
ClaimStart(h) ==
  /\ h.step = "start"
  /\ HeldBy(h)
  /\ ValidSnapshot(h.snapshot, jobs[h.job].incident)
  /\ runs[h.job] \in Active
  /\ runs' = [runs EXCEPT ![h.job] = "RUNNING"]
  /\ jobs' = [jobs EXCEPT ![h.job].input = h.snapshot]
  /\ Respond(h, [pc |-> "working", job |-> h.job, attempt |-> h.attempt,
                 snapshot |-> h.snapshot, left |-> WorkTime])
  /\ UNCHANGED <<claims, questions, outbox, context>>

InContext(a, pcs) == agents[a].pc \in pcs /\ agents[a].left > 0

\* HeartbeatAgent, every 8 seconds while runDiagnostic is at work.
Heartbeat(a) ==
  LET w == agents[a]
  IN  /\ InContext(a, {"working", "refreshing", "concluding", "completing"})
      /\ Held(w.job, w.attempt, a, generation[a])
      /\ jobs' = [jobs EXCEPT ![w.job].leaseLeft = Least(jobs[w.job].expiresIn, LeaseTime)]
      /\ UNCHANGED <<runs, claims, questions, outbox, context, agents, handlers>>

\* RefreshAgent and SetDiagnosticInput allow two refreshes of an attempt.
RefreshesLeft(row) == row.refreshes < MaxRefreshes

Called(a, step) ==
  [step |-> step, agent |-> a, generation |-> generation[a], job |-> agents[a].job,
   attempt |-> agents[a].attempt, snapshot |-> agents[a].snapshot, awaited |-> TRUE]

\* RefreshAgent, its first transaction: the refresh is paid for before the wait.
Refresh(a) ==
  LET w == agents[a]
      row == jobs[w.job]
  IN  /\ InContext(a, {"working"})
      /\ Held(w.job, w.attempt, a, generation[a])
      /\ RefreshesLeft(row)
      /\ ValidSnapshot(row.input, row.incident)
      /\ jobs' = [jobs EXCEPT ![w.job].refreshes = @ + 1]
      /\ agents' = [agents EXCEPT ![a].pc = "refreshing"]
      /\ handlers' = handlers \cup {[Called(a, "collect") EXCEPT !.snapshot = row.input]}
      /\ UNCHANGED <<runs, claims, questions, outbox, context>>

\* collectChecks saw the checks fulfilled, each with newer evidence, and the incident
\* is read again.
RefreshRead(h) ==
  LET i == jobs[h.job].incident
  IN  /\ h.step = "collect"
      /\ evidence[i] > h.snapshot.evidence
      /\ environment = h.snapshot.environment
      /\ handlers' = Moved(h, "store", Current(i))
      /\ UNCHANGED <<tables, context, agents>>

\* collectChecks gave up after 12 seconds: the agent concludes with what it has.
RefreshUnavailable(h) ==
  /\ h.step = "collect"
  /\ Respond(h, [agents[h.agent] EXCEPT !.pc = "concluding"])
  /\ UNCHANGED <<tables, context>>

\* RefreshAgent, its last transaction.
RefreshStore(h) ==
  /\ h.step = "store"
  /\ HeldBy(h)
  /\ ValidSnapshot(h.snapshot, jobs[h.job].incident)
  /\ jobs' = [jobs EXCEPT ![h.job].input = h.snapshot]
  /\ Respond(h, [agents[h.agent] EXCEPT !.pc = "working", !.snapshot = h.snapshot])
  /\ UNCHANGED <<runs, claims, questions, outbox, context>>

\* runDiagnostic sends its result.
Complete(a) ==
  /\ InContext(a, {"working", "concluding"})
  /\ agents' = [agents EXCEPT ![a].pc = "completing"]
  /\ handlers' = handlers \cup {Called(a, "complete")}
  /\ UNCHANGED <<tables, context>>

\* CompleteAgent: the claim, the run, the job, a question when evidence is needed, and
\* the event.  Citations are checked against the stored input.
CompleteAgent(h) ==
  LET row == jobs[h.job]
  IN  /\ h.step = "complete"
      /\ HeldBy(h)
      /\ ValidSnapshot(row.input, row.incident)
      /\ \E needs \in BOOLEAN :
           /\ claims' = [claims EXCEPT ![h.job] =
                           Append(@, [attempt |-> h.attempt, parents |-> row.input,
                                      assessed |-> h.snapshot, needsEvidence |-> needs])]
           /\ questions' = IF needs THEN [questions EXCEPT ![h.job] = "PENDING"] ELSE questions
           /\ outbox' = outbox \cup {<<"INVESTIGATION_RECORDED", h.job>>}
                               \cup (IF needs THEN {<<"CLARIFICATION_REQUESTED", h.job>>} ELSE {})
      /\ runs' = [runs EXCEPT ![h.job] = FinishedRun(@, "ASSESSED")]
      /\ jobs' = [jobs EXCEPT ![h.job] = Finished(@, "COMPLETED")]
      /\ Respond(h, NoWork)
      /\ UNCHANGED context

\* A handler fails: an error of any of its checks, or the orchestrator or the connection
\* is lost.  An agent that waits for it drops the attempt.
Fail(h) ==
  /\ Respond(h, NoWork)
  /\ UNCHANGED <<tables, context>>

Awaited(a) == {h \in handlers : h.agent = a /\ h.awaited}

Late(a) == {h \in handlers : h.agent = a /\ ~h.awaited}

\* An agent drops its attempt: its context or a request timed out, a heartbeat failed, or
\* it was restarted.  The handler it waited for does not know.
GiveUp(a) ==
  /\ agents[a].pc # "idle"
  /\ Awaited(a) # {} => Cardinality(Late(a)) < MaxLate
  /\ agents' = [agents EXCEPT ![a] = NoWork]
  /\ handlers' = {IF h.agent = a THEN [h EXCEPT !.awaited = FALSE] ELSE h : h \in handlers}
  /\ UNCHANGED <<tables, context>>

Serve(h) ==
  \/ ClaimRead(h) \/ ClaimStart(h)
  \/ RefreshRead(h) \/ RefreshUnavailable(h) \/ RefreshStore(h)
  \/ CompleteAgent(h)
  \/ Fail(h)

AgentNext(a) ==
  \/ Claim(a) \/ Heartbeat(a) \/ Refresh(a) \/ Complete(a) \/ GiveUp(a)
  \/ Renew(a)

Next ==
  \/ Tick
  \/ \E i \in Incidents, p \in Profiles : Enqueue(i, p)
  \/ \E j \in JobIds : Cancel(j) \/ Answer(j)
  \/ \E i \in Incidents : EvidenceChanges(i)
  \/ EnvironmentChanges
  \/ \E a \in Agents : AgentNext(a)
  \/ \E h \in handlers : Serve(h)

Spec == Init /\ [][Next]_vars

\* Time passes, agents poll every 2 seconds, a handler ends and so does an attempt whose
\* context is over.
FairSpec ==
  /\ Spec
  /\ WF_vars(Tick)
  /\ \A a \in Agents : /\ WF_vars(Claim(a))
                       /\ WF_vars(agents[a].left = 0 /\ GiveUp(a))
  /\ WF_vars(\E h \in handlers : Serve(h))

-----------------------------------------------------------------------------
(***************************************************************************)
(* Properties.                                                             *)
(***************************************************************************)
\* The tables, the agents and the handlers stay in their domains; in particular an attempt
\* never gets more than its two refreshes (SetDiagnosticInput).
TypeOK ==
  /\ jobs \in [JobIds -> Job]
  /\ runs \in [JobIds -> Active \cup {"NONE", "ASSESSED", "CANCELLED"}]
  /\ claims \in [JobIds -> Seq(ClaimItem)]
  /\ questions \in [JobIds -> {"NONE", "PENDING", "ANSWERED"}]
  /\ outbox \subseteq {"INVESTIGATION_RECORDED", "CLARIFICATION_REQUESTED",
                       "CLARIFICATION_ANSWERED"} \X JobIds
  /\ evidence \in [Incidents -> 1..MaxEvidence]
  /\ environment \in 1..MaxEnvironment
  /\ generation \in [Agents -> 1..MaxGeneration + 1]
  /\ agents \in [Agents -> Work]
  /\ handlers \subseteq Handler

\* A recorded claim names as its parents exactly what its agent reasoned about, although
\* CompleteAgent takes them from the job's row and attempts, refreshes and handlers nobody
\* waits for any more come and go in between.
ParentsWereAssessed ==
  \A j \in JobIds : \A n \in 1..Len(claims[j]) : claims[j][n].parents = claims[j][n].assessed

\* A job has one claim when it is COMPLETED and none otherwise; its run, its event and its
\* question agree, so a cancelled or reclaimed job is never reported as assessed, and no run
\* ends before its job, although the sweep ends runs by an earlier reading of the clock.
OutcomeIsWhole ==
  \A j \in JobIds :
    /\ Len(claims[j]) = (IF jobs[j].state = "COMPLETED" THEN 1 ELSE 0)
    /\ runs[j] = "ASSESSED" <=> jobs[j].state = "COMPLETED"
    /\ jobs[j].state \in Active => runs[j] \in Active
    /\ <<"INVESTIGATION_RECORDED", j>> \in outbox <=> jobs[j].state = "COMPLETED"
    /\ questions[j] # "NONE" <=> \E n \in 1..Len(claims[j]) : claims[j][n].needsEvidence

\* What is recorded was reasoned about on evidence, answers and environment that are still
\* the current ones.
RecordedIsCurrent ==
  [][\A j \in JobIds : Len(claims'[j]) > Len(claims[j]) =>
       claims'[j][Len(claims'[j])].assessed = Current(jobs[j].incident)]_vars

\* "Expired authority is terminal" (ClaimAgentDiagnostic): a job that has expired is ended
\* while agents poll.
ExpiredIsTerminal ==
  \A j \in JobIds : jobs[j].state \in Active /\ jobs[j].expiresIn = 0
                      ~> jobs[j].state \notin Active

=============================================================================
