--------------------------- MODULE DiagnosticProofs ---------------------------
(***************************************************************************)
(* Proofs about diagnostic jobs: their tables stay typed, a job's outcome  *)
(* is whole, and a claim's parents are what its agent reasoned about,      *)
(* which is still current when it is recorded.                             *)
(***************************************************************************)
EXTENDS DiagnosticJobs, TLAPS

\* The attempt is the one the job's row is leased to.
Leased(j, attempt) == jobs[j].state = "RUNNING" /\ jobs[j].attempt = attempt

\* What a handler counts on: its attempt was handed out, its agent waits for it where it was
\* called from, and the row's input is what the agent reasons about.
HandlerHolds(h) ==
  /\ h.attempt <= jobs[h.job].attempt
  /\ h.step = "complete" /\ Leased(h.job, h.attempt) => jobs[h.job].input = h.snapshot
  /\ h.awaited =>
       /\ h.step \in {"read", "start"} => agents[h.agent].pc = "claiming"
       /\ h.step = "complete" => agents[h.agent].pc = "completing"
       /\ h.step \in {"collect", "store"} =>
            /\ agents[h.agent].pc = "refreshing"
            /\ agents[h.agent].job = h.job /\ agents[h.agent].attempt = h.attempt
       /\ h.step = "collect" /\ Leased(h.job, h.attempt) => jobs[h.job].input = agents[h.agent].snapshot

\* The request of an attempt is one at a time, whether or not it is awaited.
OneHandler == \A g, h \in handlers : g.job = h.job /\ g.attempt = h.attempt => g = h

OneAwaited == \A g, h \in handlers : g.awaited /\ h.awaited /\ g.agent = h.agent => g = h

Reasons(a) == agents[a].pc \in {"working", "concluding"}

\* An agent that reasons has no request of its attempt under way, and the row has what it read.
WorkerHolds(a) ==
  /\ agents[a].attempt \in 1..jobs[agents[a].job].attempt
  /\ \A h \in handlers : h.job = agents[a].job => h.attempt # agents[a].attempt
  /\ Leased(agents[a].job, agents[a].attempt) => jobs[agents[a].job].input = agents[a].snapshot

WorkersApart ==
  \A a, b \in Agents :
    Reasons(a) /\ Reasons(b) /\ agents[a].job = agents[b].job /\ agents[a].attempt = agents[b].attempt => a = b

\* The inductive invariant of an attempt: whoever carries it (its agent or one request) has
\* seen what the job's row holds.
AttemptInv ==
  /\ \A j \in JobIds : jobs[j].state = "NONE" => jobs[j].attempt = 0
  /\ \A h \in handlers : HandlerHolds(h)
  /\ OneHandler /\ OneAwaited
  /\ \A a \in Agents : Reasons(a) => WorkerHolds(a)
  /\ WorkersApart

-----------------------------------------------------------------------------
(* Types. *)

LEMMA DefaultsAreTyped ==
  /\ NoInput \in Snapshot
  /\ NoJob \in Job /\ NoJob.state = "NONE" /\ NoJob.attempt = 0
  /\ NoWork \in Work /\ NoWork.pc = "idle"
<1> USE DiagnosticJobsAssumption
<1>1. NoInput \in Snapshot
  BY DEF NoInput, Snapshot
<1>2. /\ (CHOOSE i \in Incidents : TRUE) \in Incidents
      /\ (CHOOSE p \in Profiles : TRUE) \in Profiles
      /\ (CHOOSE a \in Agents : TRUE) \in Agents
  OBVIOUS
<1>3. NoJob \in Job /\ NoJob.state = "NONE" /\ NoJob.attempt = 0
  BY <1>1, <1>2 DEF NoJob, Job
<1>4. NoWork \in Work /\ NoWork.pc = "idle"
  BY <1>1 DEF NoWork, Work, JobIds
<1> QED
  BY <1>1, <1>3, <1>4

LEMMA LessIsLess ==
  ASSUME NEW max \in Nat, NEW n \in 0..max, NEW d \in Nat
  PROVE  Less(n, d) \in 0..max /\ Less(n, d) <= n
  BY DEF Less

LEMMA LeastIsTyped ==
  ASSUME NEW n \in Nat, NEW max \in Nat
  PROVE  Least(n, max) \in 0..max
  BY DEF Least

\* What ages keeps its type and everything but what is left.
LEMMA AgedJobsAreTyped ==
  ASSUME jobs \in [JobIds -> Job], NEW d \in Nat
  PROVE  /\ AgedJobs(d) \in [JobIds -> Job]
         /\ \A j \in JobIds : /\ AgedJobs(d)[j].state = jobs[j].state
                              /\ AgedJobs(d)[j].attempt = jobs[j].attempt
                              /\ AgedJobs(d)[j].input = jobs[j].input
                              /\ AgedJobs(d)[j].incident = jobs[j].incident
                              /\ jobs[j].state \in Active /\ jobs[j].expiresIn = 0 => AgedJobs(d)[j].expiresIn = 0
<1>1. ASSUME NEW j \in JobIds
      PROVE  /\ AgedJobs(d)[j] \in Job
             /\ AgedJobs(d)[j].state = jobs[j].state
             /\ AgedJobs(d)[j].attempt = jobs[j].attempt
             /\ AgedJobs(d)[j].input = jobs[j].input
             /\ AgedJobs(d)[j].incident = jobs[j].incident
             /\ jobs[j].state \in Active /\ jobs[j].expiresIn = 0 => AgedJobs(d)[j].expiresIn = 0
  <2>1. jobs[j] \in Job
    OBVIOUS
  <2>2. Lifetime \in Nat /\ LeaseTime \in Nat
    BY DiagnosticJobsAssumption
  <2>3. PICK e \in 0..Lifetime : e = Less(jobs[j].expiresIn, d) /\ e <= jobs[j].expiresIn
    BY <2>1, <2>2, LessIsLess DEF Job
  <2>4. PICK l \in 0..LeaseTime : l = Less(jobs[j].leaseLeft, d)
    BY <2>1, <2>2, LessIsLess DEF Job
  <2>5. AgedJobs(d)[j] = IF jobs[j].state \in Active THEN [jobs[j] EXCEPT !.expiresIn = e, !.leaseLeft = l] ELSE jobs[j]
    BY <2>3, <2>4 DEF AgedJobs
  <2>6. jobs[j].expiresIn \in Nat
    BY <2>1, <2>2 DEF Job
  <2>7. CASE jobs[j].state \in Active
    <3>1. AgedJobs(d)[j] = [jobs[j] EXCEPT !.expiresIn = e, !.leaseLeft = l]
      BY <2>5, <2>7
    <3>2. AgedJobs(d)[j] \in Job
      BY <2>1, <3>1 DEF Job
    <3>3. /\ AgedJobs(d)[j].state = jobs[j].state /\ AgedJobs(d)[j].attempt = jobs[j].attempt
          /\ AgedJobs(d)[j].input = jobs[j].input /\ AgedJobs(d)[j].incident = jobs[j].incident
          /\ AgedJobs(d)[j].expiresIn = e
      BY <2>1, <3>1 DEF Job
    <3> QED
      BY <2>3, <2>6, <3>2, <3>3
  <2> QED
    BY <2>1, <2>5, <2>7
<1> QED
  BY <1>1 DEF AgedJobs

LEMMA AgedAgentsAreTyped ==
  ASSUME agents \in [Agents -> Work], NEW d \in Nat
  PROVE  /\ AgedAgents(d) \in [Agents -> Work]
         /\ \A a \in Agents : /\ AgedAgents(d)[a].pc = agents[a].pc
                              /\ AgedAgents(d)[a].job = agents[a].job
                              /\ AgedAgents(d)[a].attempt = agents[a].attempt
                              /\ AgedAgents(d)[a].snapshot = agents[a].snapshot
<1>1. ASSUME NEW a \in Agents
      PROVE  /\ AgedAgents(d)[a] \in Work
             /\ AgedAgents(d)[a].pc = agents[a].pc
             /\ AgedAgents(d)[a].job = agents[a].job
             /\ AgedAgents(d)[a].attempt = agents[a].attempt
             /\ AgedAgents(d)[a].snapshot = agents[a].snapshot
  <2>1. agents[a] \in Work /\ WorkTime \in Nat
    BY DiagnosticJobsAssumption
  <2>2. PICK l \in 0..WorkTime : l = Less(agents[a].left, d)
    BY <2>1, LessIsLess DEF Work
  <2>3. AgedAgents(d)[a] = [agents[a] EXCEPT !.left = l]
    BY <2>2 DEF AgedAgents
  <2> QED
    BY <2>1, <2>3 DEF Work
<1> QED
  BY <1>1 DEF AgedAgents

\* The sweep ends what has expired and takes back what nobody renewed.
LEMMA SweptIsTyped ==
  ASSUME jobs \in [JobIds -> Job], NEW d \in {0, 1}
  PROVE  /\ JobsSwept(d) \in [JobIds -> Job]
         /\ \A j \in JobIds :
              /\ JobsSwept(d)[j].attempt = jobs[j].attempt
              /\ JobsSwept(d)[j].incident = jobs[j].incident
              /\ JobsSwept(d)[j].state = "NONE" <=> jobs[j].state = "NONE"
              /\ JobsSwept(d)[j].state = "COMPLETED" <=> jobs[j].state = "COMPLETED"
              /\ JobsSwept(d)[j].state = "RUNNING" => jobs[j].state = "RUNNING" /\ JobsSwept(d)[j].input = jobs[j].input
              /\ JobsSwept(d)[j].state \in Active =>
                   jobs[j].state \in Active /\ jobs[j].expiresIn # 0
<1>1. ASSUME NEW j \in JobIds
      PROVE  /\ JobsSwept(d)[j] \in Job
             /\ JobsSwept(d)[j].attempt = jobs[j].attempt
             /\ JobsSwept(d)[j].incident = jobs[j].incident
             /\ JobsSwept(d)[j].state = "NONE" <=> jobs[j].state = "NONE"
             /\ JobsSwept(d)[j].state = "COMPLETED" <=> jobs[j].state = "COMPLETED"
             /\ JobsSwept(d)[j].state = "RUNNING" => jobs[j].state = "RUNNING" /\ JobsSwept(d)[j].input = jobs[j].input
             /\ JobsSwept(d)[j].state \in Active => jobs[j].state \in Active /\ jobs[j].expiresIn # 0
  <2>1. PICK row \in Job : /\ row = AgedJobs(d)[j] /\ row.state = jobs[j].state /\ row.attempt = jobs[j].attempt
                           /\ row.input = jobs[j].input /\ row.incident = jobs[j].incident
                           /\ jobs[j].state \in Active /\ jobs[j].expiresIn = 0 => row.expiresIn = 0
    BY AgedJobsAreTyped
  <2>2. JobsSwept(d)[j] = Swept(row)
    BY <2>1 DEF JobsSwept
  <2>3. NoInput \in Snapshot /\ Lifetime \in Nat
    BY DefaultsAreTyped, DiagnosticJobsAssumption
  <2>4. CASE row.state \in Active /\ row.expiresIn = 0
    <3>1. Swept(row) = [row EXCEPT !.state = "CANCELLED", !.input = NoInput]
      BY <2>4 DEF Swept, Active
    <3>2. Swept(row) \in Job
      BY <2>1, <2>3, <3>1 DEF Job
    <3>3. /\ Swept(row).state = "CANCELLED" /\ Swept(row).attempt = row.attempt /\ Swept(row).incident = row.incident
      BY <2>1, <3>1 DEF Job
    <3> QED
      BY <2>1, <2>2, <2>4, <3>2, <3>3 DEF Active
  <2>5. CASE row.state = "RUNNING" /\ row.expiresIn # 0 /\ row.leaseLeft = 0
    <3>1. Swept(row) = [row EXCEPT !.state = "QUEUED", !.input = NoInput]
      BY <2>3, <2>5 DEF Swept, Active, Job
    <3>2. Swept(row) \in Job
      BY <2>1, <2>3, <3>1 DEF Job, Active
    <3>3. /\ Swept(row).state = "QUEUED" /\ Swept(row).attempt = row.attempt /\ Swept(row).incident = row.incident
      BY <2>1, <3>1 DEF Job
    <3> QED
      BY <2>1, <2>2, <2>5, <3>2, <3>3 DEF Active
  <2>6. CASE ~(row.state \in Active /\ row.expiresIn = 0) /\ ~(row.state = "RUNNING" /\ row.expiresIn # 0 /\ row.leaseLeft = 0)
    <3>1. Swept(row) = row
      BY <2>6 DEF Swept, Active
    <3> QED
      BY <2>1, <2>2, <2>6, <3>1 DEF Active
  <2> QED
    BY <2>4, <2>5, <2>6
<1> QED
  BY <1>1 DEF JobsSwept

\* A finished row and a finished run.
LEMMA FinishedIsTyped ==
  ASSUME NEW row \in Job, NEW state \in {"COMPLETED", "CANCELLED"}
  PROVE  /\ Finished(row, state) \in Job
         /\ Finished(row, state).attempt = row.attempt
         /\ row.state \in Active => Finished(row, state).state = state
         /\ row.state \notin Active => Finished(row, state) = row
<1>1. PICK zero \in 0..LeaseTime : zero = 0
  BY DiagnosticJobsAssumption
<1>2. NoInput \in Snapshot
  BY DefaultsAreTyped
<1>3. CASE row.state \in Active
  <2>1. Finished(row, state) = [row EXCEPT !.state = state, !.input = NoInput, !.leaseLeft = zero]
    BY <1>1, <1>3 DEF Finished
  <2>2. Finished(row, state) \in Job
    BY <1>2, <2>1 DEF Job
  <2>3. Finished(row, state).state = state /\ Finished(row, state).attempt = row.attempt
    BY <2>1 DEF Job
  <2> QED
    BY <1>3, <2>2, <2>3
<1> QED
  BY <1>3 DEF Finished

\* A row that is claimed.
LEMMA ClaimedIsTyped ==
  ASSUME NEW row \in Job, NEW a \in Agents, generation \in [Agents -> 1..MaxGeneration + 1],
         row.attempt < MaxAttempts
  PROVE  /\ Claimed(row, a) \in Job /\ Claimed(row, a).state = "RUNNING"
         /\ Claimed(row, a).attempt = row.attempt + 1 /\ row.attempt + 1 \in 1..MaxAttempts
         /\ Claimed(row, a).incident = row.incident
<1>1. Lifetime \in Nat /\ LeaseTime \in Nat /\ MaxAttempts \in Nat /\ MaxRefreshes \in Nat
  BY DiagnosticJobsAssumption
<1>2. PICK n \in 0..MaxAttempts : n = row.attempt + 1
  BY <1>1 DEF Job
<1>3. PICK l \in 0..LeaseTime : l = Least(row.expiresIn, LeaseTime)
  <2>1. row.expiresIn \in Nat
    BY <1>1 DEF Job
  <2> QED
    BY <1>1, <2>1, LeastIsTyped
<1>4. PICK zero \in 0..MaxRefreshes : zero = 0
  BY <1>1
<1>5. NoInput \in Snapshot /\ generation[a] \in 1..MaxGeneration + 1
  BY DefaultsAreTyped
<1>6. Claimed(row, a) = [row EXCEPT !.state = "RUNNING", !.agent = a, !.generation = generation[a], !.attempt = n,
                                    !.leaseLeft = l, !.input = NoInput, !.refreshes = zero]
  BY <1>2, <1>3, <1>4 DEF Claimed, Job
<1>7. Claimed(row, a) \in Job
  BY <1>5, <1>6 DEF Job, Active
<1>8. Claimed(row, a).state = "RUNNING" /\ Claimed(row, a).attempt = n /\ Claimed(row, a).incident = row.incident
  BY <1>6 DEF Job
<1>9. n \in 1..MaxAttempts
  BY <1>1, <1>2 DEF Job
<1> QED
  BY <1>2, <1>7, <1>8, <1>9

\* What an incident's evidence is now.
LEMMA CurrentIsTyped ==
  ASSUME TypeOK, NEW i \in Incidents
  PROVE  Current(i) \in Snapshot /\ Current(i) # NoInput
<1>1. evidence[i] \in 1..MaxEvidence /\ environment \in 1..MaxEnvironment
  BY DEF TypeOK
<1>2. Current(i).evidence = evidence[i] /\ Current(i).environment = environment
  BY DEF Current
<1>3. Current(i) \in Snapshot
  BY <1>1, DiagnosticJobsAssumption DEF Current, Snapshot
<1> QED
  BY <1>1, <1>2, <1>3 DEF NoInput

\* Handlers: what a step makes of one, and what an agent gets from it.
LEMMA MovedIsTyped ==
  ASSUME TypeOK, NEW h \in handlers, NEW step \in {"start", "store"}, NEW snapshot \in Snapshot,
         handlers' = Moved(h, step, snapshot)
  PROVE  handlers' \subseteq Handler
<1>1. h \in Handler
  BY DEF TypeOK
<1>2. [h EXCEPT !.step = step, !.snapshot = snapshot] \in Handler
  BY <1>1 DEF Handler
<1> QED
  BY <1>2 DEF Moved, TypeOK

LEMMA RespondIsTyped ==
  ASSUME TypeOK, NEW h \in handlers, NEW next \in Work, Respond(h, next)
  PROVE  agents' \in [Agents -> Work] /\ handlers' \subseteq Handler
<1>1. h \in Handler /\ h.agent \in Agents
  BY DEF TypeOK, Handler
<1> QED
  BY <1>1 DEF Respond, TypeOK

LEMMA CalledIsTyped ==
  ASSUME TypeOK, NEW a \in Agents, NEW step \in {"collect", "complete"}, agents[a].attempt # 0
  PROVE  /\ Called(a, step) \in Handler
         /\ Called(a, step).step = step /\ Called(a, step).agent = a /\ Called(a, step).job = agents[a].job
         /\ Called(a, step).attempt = agents[a].attempt /\ Called(a, step).snapshot = agents[a].snapshot
         /\ Called(a, step).awaited = TRUE
<1>1. /\ agents[a] \in Work /\ agents[a].job \in JobIds /\ agents[a].snapshot \in Snapshot
      /\ generation[a] \in 1..MaxGeneration + 1
  BY DEF TypeOK, Work
<1>2. agents[a].attempt \in 1..MaxAttempts
  BY <1>1, DiagnosticJobsAssumption DEF Work
<1>3. Called(a, step) \in Handler
  BY <1>1, <1>2 DEF Called, Handler
<1> QED
  BY <1>3 DEF Called

-----------------------------------------------------------------------------
(* Attempts. *)

\* What the invariant says of types, in the form the steps use.
LEMMA Typed ==
  ASSUME TypeOK
  PROVE  /\ \A j \in JobIds : jobs[j] \in Job /\ jobs[j].attempt \in Nat /\ jobs[j].incident \in Incidents
         /\ \A h \in handlers : /\ h \in Handler /\ h.job \in JobIds /\ h.agent \in Agents /\ h.attempt \in Nat \ {0}
                                /\ h.snapshot \in Snapshot /\ h.awaited \in BOOLEAN
         /\ \A a \in Agents : agents[a] \in Work /\ agents[a].job \in JobIds /\ agents[a].attempt \in Nat
<1>1. MaxAttempts \in Nat
  BY DiagnosticJobsAssumption
<1>2. \A j \in JobIds : jobs[j] \in Job /\ jobs[j].attempt \in Nat /\ jobs[j].incident \in Incidents
  BY <1>1 DEF TypeOK, Job
<1>3. \A h \in handlers : /\ h \in Handler /\ h.job \in JobIds /\ h.agent \in Agents /\ h.attempt \in Nat \ {0}
                          /\ h.snapshot \in Snapshot /\ h.awaited \in BOOLEAN
  BY <1>1 DEF TypeOK, Handler
<1>4. \A a \in Agents : agents[a] \in Work /\ agents[a].job \in JobIds /\ agents[a].attempt \in Nat
  BY <1>1 DEF TypeOK, Work
<1> QED
  BY <1>2, <1>3, <1>4

\* Steps that leave the requests and the agents' work alone and give no row a new input.
LEMMA RowsMove ==
  ASSUME TypeOK, AttemptInv, handlers' = handlers,
         \A a \in Agents : /\ agents'[a].pc = agents[a].pc /\ agents'[a].job = agents[a].job
                           /\ agents'[a].attempt = agents[a].attempt /\ agents'[a].snapshot = agents[a].snapshot,
         \A j \in JobIds : /\ jobs'[j].attempt = jobs[j].attempt
                           /\ jobs'[j].state = "NONE" => jobs[j].state = "NONE"
                           /\ jobs'[j].state = "RUNNING" => jobs[j].state = "RUNNING" /\ jobs'[j].input = jobs[j].input
  PROVE  AttemptInv'
<1>1. ASSUME NEW h \in handlers PROVE HandlerHolds(h)'
  BY Typed DEF AttemptInv, HandlerHolds, Leased
<1>2. ASSUME NEW a \in Agents, Reasons(a)' PROVE WorkerHolds(a)'
  <2>1. WorkerHolds(a)
    BY <1>2 DEF AttemptInv, Reasons
  <2> QED
    BY <2>1, Typed DEF WorkerHolds, Leased
<1>3. WorkersApart'
  BY DEF AttemptInv, WorkersApart, Reasons
<1> QED
  BY <1>1, <1>2, <1>3 DEF AttemptInv, OneHandler, OneAwaited

\* A request ends.  Its agent, if it waits, goes on with what the request leaves in the row.
LEMMA RequestDone ==
  ASSUME TypeOK, AttemptInv, NEW h \in handlers, NEW next \in Work, Respond(h, next),
         next.pc = "idle" \/ /\ next.pc \in {"working", "concluding"}
                             /\ h.awaited => next.job = h.job /\ next.attempt = h.attempt
                             /\ h.awaited /\ Leased(h.job, h.attempt)' => jobs'[h.job].input = next.snapshot,
         \A j \in JobIds : /\ jobs'[j].attempt = jobs[j].attempt
                           /\ jobs'[j].state = "NONE" => jobs[j].state = "NONE"
                           /\ jobs'[j].state = "RUNNING" =>
                                /\ jobs[j].state = "RUNNING"
                                /\ jobs'[j].input = jobs[j].input \/ (j = h.job /\ jobs[j].attempt = h.attempt)
  PROVE  AttemptInv'
<1>1. handlers' = handlers \ {h} /\ h.agent \in Agents /\ h.job \in JobIds /\ h.attempt \in Nat \ {0}
  BY Typed DEF Respond
<1>2. /\ h.awaited => agents'[h.agent] = next
      /\ \A a \in Agents : ~(h.awaited /\ a = h.agent) => agents'[a] = agents[a]
  BY <1>1 DEF Respond, TypeOK
<1>3. \A g \in handlers' : g \in handlers /\ ~(g.job = h.job /\ g.attempt = h.attempt)
  BY <1>1 DEF AttemptInv, OneHandler
<1>4. ASSUME NEW g \in handlers' PROVE HandlerHolds(g)'
  <2>1. HandlerHolds(g) /\ g.job \in JobIds /\ g.agent \in Agents /\ g.attempt \in Nat
    BY <1>3, Typed DEF AttemptInv
  <2>2. Leased(g.job, g.attempt)' => Leased(g.job, g.attempt) /\ jobs'[g.job].input = jobs[g.job].input
    BY <1>3, <2>1 DEF Leased
  <2>3. g.awaited => agents'[g.agent] = agents[g.agent]
    BY <1>1, <1>2, <1>3, <2>1 DEF AttemptInv, OneAwaited
  <2> QED
    BY <2>1, <2>2, <2>3 DEF HandlerHolds
<1>5. ASSUME NEW a \in Agents, Reasons(a)', ~(h.awaited /\ a = h.agent)
      PROVE  WorkerHolds(a)' /\ Reasons(a) /\ ~(agents[a].job = h.job /\ agents[a].attempt = h.attempt)
  <2>1. agents'[a] = agents[a] /\ Reasons(a) /\ WorkerHolds(a) /\ agents[a].job \in JobIds
    BY <1>2, <1>5, Typed DEF AttemptInv, Reasons
  <2>2. ~(agents[a].job = h.job /\ agents[a].attempt = h.attempt)
    BY <2>1 DEF WorkerHolds
  <2>3. WorkerHolds(a)'
    BY <1>3, <2>1, <2>2 DEF WorkerHolds, Leased
  <2> QED
    BY <2>1, <2>2, <2>3
<1>6. ASSUME h.awaited, Reasons(h.agent)' PROVE WorkerHolds(h.agent)' /\ next.job = h.job /\ next.attempt = h.attempt
  <2>1. agents'[h.agent] = next /\ next.job = h.job /\ next.attempt = h.attempt
        /\ (Leased(h.job, h.attempt)' => jobs'[h.job].input = next.snapshot)
    BY <1>2, <1>6 DEF Reasons
  <2>2. h.attempt \in 1..jobs'[h.job].attempt
    BY <1>1, Typed DEF AttemptInv, HandlerHolds
  <2>3. WorkerHolds(h.agent)'
    <3>1. Leased(h.job, h.attempt)' <=> jobs'[h.job].state = "RUNNING" /\ jobs'[h.job].attempt = h.attempt
      BY DEF Leased
    <3> QED
      BY <1>3, <2>1, <2>2, <3>1 DEF WorkerHolds, Leased
  <2> QED
    BY <2>1, <2>3
<1>7. WorkersApart'
  <2>1. SUFFICES ASSUME NEW a \in Agents, NEW b \in Agents, Reasons(a)', Reasons(b)', agents'[a].job = agents'[b].job,
                        agents'[a].attempt = agents'[b].attempt
                 PROVE  a = b
    BY DEF WorkersApart
  <2>2. CASE ~(h.awaited /\ a = h.agent) /\ ~(h.awaited /\ b = h.agent)
    BY <1>2, <1>5, <2>1, <2>2 DEF AttemptInv, WorkersApart
  <2>3. CASE h.awaited /\ a = h.agent /\ b # h.agent
    BY <1>2, <1>5, <1>6, <2>1, <2>3
  <2>4. CASE h.awaited /\ b = h.agent /\ a # h.agent
    BY <1>2, <1>5, <1>6, <2>1, <2>4
  <2> QED
    BY <2>2, <2>3, <2>4
<1>8. OneHandler' /\ OneAwaited'
  BY <1>3 DEF AttemptInv, OneHandler, OneAwaited
<1>9. \A j \in JobIds : jobs'[j].state = "NONE" => jobs'[j].attempt = 0
  BY DEF AttemptInv
<1> QED
  BY <1>4, <1>5, <1>6, <1>7, <1>8, <1>9 DEF AttemptInv

\* A request goes on with what it read.
LEMMA RequestReads ==
  ASSUME TypeOK, AttemptInv, NEW h \in handlers, NEW step \in {"start", "store"}, NEW snapshot \in Snapshot,
         handlers' = Moved(h, step, snapshot), UNCHANGED <<jobs, agents>>,
         step = "start" => h.step = "read", step = "store" => h.step = "collect"
  PROVE  AttemptInv'
<1> DEFINE n == [h EXCEPT !.step = step, !.snapshot = snapshot]
<1>1. handlers' = (handlers \ {h}) \cup {n} /\ h \in Handler
  BY Typed DEF Moved
<1>2. /\ n.step = step /\ n.job = h.job /\ n.attempt = h.attempt /\ n.agent = h.agent /\ n.awaited = h.awaited
      /\ n.snapshot = snapshot
  BY <1>1 DEF Handler
<1> HIDE DEF n
<1>3. HandlerHolds(n)'
  BY <1>2 DEF AttemptInv, HandlerHolds, Leased
<1>4. \A g \in handlers : HandlerHolds(g)'
  BY DEF AttemptInv, HandlerHolds, Leased
<1>5. OneHandler' /\ OneAwaited'
  BY <1>1, <1>2 DEF AttemptInv, OneHandler, OneAwaited
<1>6. \A a \in Agents : Reasons(a)' => WorkerHolds(a)'
  BY <1>1, <1>2 DEF AttemptInv, Reasons, WorkerHolds, Leased
<1>7. WorkersApart'
  BY DEF AttemptInv, WorkersApart, Reasons
<1> QED
  BY <1>1, <1>3, <1>4, <1>5, <1>6, <1>7 DEF AttemptInv

\* An agent that reasons calls: its attempt passes to the request.
LEMMA RequestCalled ==
  ASSUME TypeOK, AttemptInv, NEW a \in Agents, Reasons(a), NEW n \in Handler, handlers' = handlers \cup {n},
         n.agent = a, n.job = agents[a].job, n.attempt = agents[a].attempt, n.awaited,
         n.step \in {"collect", "complete"}, n.step = "complete" => n.snapshot = agents[a].snapshot,
         agents' = [agents EXCEPT ![a].pc = IF n.step = "collect" THEN "refreshing" ELSE "completing"],
         \A j \in JobIds : /\ jobs'[j].attempt = jobs[j].attempt /\ jobs'[j].state = jobs[j].state
                           /\ jobs'[j].input = jobs[j].input
  PROVE  AttemptInv'
<1>1. WorkerHolds(a) /\ agents[a] \in Work /\ agents[a].job \in JobIds /\ agents[a].attempt \in Nat
  BY Typed DEF AttemptInv
<1>2. /\ agents'[a].job = n.job /\ agents'[a].attempt = n.attempt /\ agents'[a].snapshot = agents[a].snapshot
      /\ agents'[a].pc = IF n.step = "collect" THEN "refreshing" ELSE "completing"
      /\ \A b \in Agents \ {a} : agents'[b] = agents[b]
  BY <1>1 DEF TypeOK, Work
<1>3. \A h \in handlers : ~(h.awaited /\ h.agent = a) /\ ~(h.job = n.job /\ h.attempt = n.attempt)
  <2>1. SUFFICES ASSUME NEW h \in handlers PROVE ~(h.awaited /\ h.agent = a)
    BY <1>1 DEF WorkerHolds
  <2>2. HandlerHolds(h) /\ h.step \in {"read", "start", "collect", "store", "complete"}
    BY Typed DEF AttemptInv, Handler
  <2> QED
    BY <2>2 DEF HandlerHolds, Reasons
<1>4. HandlerHolds(n)'
  <2>1. n.attempt <= jobs[n.job].attempt
    BY <1>1, Typed DEF WorkerHolds
  <2> QED
    BY <1>1, <1>2, <2>1 DEF HandlerHolds, WorkerHolds, Leased
<1>5. ASSUME NEW h \in handlers PROVE HandlerHolds(h)'
  <2>1. HandlerHolds(h) /\ h.job \in JobIds /\ h.agent \in Agents /\ (h.awaited => h.agent # a)
    BY <1>3, Typed DEF AttemptInv
  <2> QED
    BY <1>2, <2>1 DEF HandlerHolds, Leased
<1>6. OneHandler' /\ OneAwaited'
  BY <1>3 DEF AttemptInv, OneHandler, OneAwaited
<1>7. ASSUME NEW b \in Agents, Reasons(b)' PROVE WorkerHolds(b)' /\ b # a
  <2>1. b # a
    BY <1>2, <1>7 DEF Reasons
  <2>2. agents'[b] = agents[b] /\ Reasons(b) /\ WorkerHolds(b) /\ agents[b].job \in JobIds
    BY <1>2, <1>7, <2>1, Typed DEF Reasons, AttemptInv
  <2>3. ~(n.job = agents[b].job /\ n.attempt = agents[b].attempt)
    BY <2>1, <2>2 DEF AttemptInv, WorkersApart
  <2> QED
    BY <2>1, <2>2, <2>3 DEF WorkerHolds, Leased
<1>8. WorkersApart'
  BY <1>2, <1>7 DEF AttemptInv, WorkersApart, Reasons
<1> QED
  BY <1>4, <1>5, <1>6, <1>7, <1>8 DEF AttemptInv

-----------------------------------------------------------------------------
(* The steps, for types and attempts. *)

JobsInv == TypeOK /\ AttemptInv

LEMMA TickKeeps ==
  ASSUME JobsInv, Tick
  PROVE  JobsInv'
<1>1. TypeOK /\ AttemptInv /\ jobs' = AgedJobs(1) /\ agents' = AgedAgents(1)
      /\ UNCHANGED <<runs, claims, questions, outbox, evidence, environment, generation, handlers>>
  BY DEF JobsInv, Tick, context
<1>2. /\ jobs' \in [JobIds -> Job]
      /\ \A j \in JobIds : /\ jobs'[j].state = jobs[j].state /\ jobs'[j].attempt = jobs[j].attempt
                           /\ jobs'[j].input = jobs[j].input
  BY <1>1, AgedJobsAreTyped DEF TypeOK
<1>3. /\ agents' \in [Agents -> Work]
      /\ \A a \in Agents : /\ agents'[a].pc = agents[a].pc /\ agents'[a].job = agents[a].job
                           /\ agents'[a].attempt = agents[a].attempt /\ agents'[a].snapshot = agents[a].snapshot
  BY <1>1, AgedAgentsAreTyped DEF TypeOK
<1>4. TypeOK'
  BY <1>1, <1>2, <1>3 DEF TypeOK
<1> QED
  BY <1>1, <1>2, <1>3, <1>4, RowsMove DEF JobsInv

LEMMA EnqueueKeeps ==
  ASSUME JobsInv, NEW i \in Incidents, NEW p \in Profiles, Enqueue(i, p)
  PROVE  JobsInv'
<1>1. TypeOK /\ AttemptInv /\ UNCHANGED <<claims, questions, outbox, evidence, environment, generation, agents, handlers>>
  BY DEF JobsInv, Enqueue, context
<1>2. PICK j \in JobIds, l \in 1..Lifetime :
        /\ jobs[j].state = "NONE"
        /\ jobs' = [jobs EXCEPT ![j] = [NoJob EXCEPT !.state = "QUEUED", !.incident = i, !.profile = p, !.expiresIn = l]]
        /\ runs' = [runs EXCEPT ![j] = "QUEUED"]
  BY DEF Enqueue
<1> DEFINE row == [NoJob EXCEPT !.state = "QUEUED", !.incident = i, !.profile = p, !.expiresIn = l]
<1>3. row \in Job
  <2>1. l \in 0..Lifetime
    BY DiagnosticJobsAssumption
  <2> QED
    BY <2>1, DefaultsAreTyped DEF Job, Active
<1>4. row.state = "QUEUED" /\ row.attempt = 0
  BY DefaultsAreTyped DEF Job
<1>5. jobs' = [jobs EXCEPT ![j] = row]
  BY <1>2
<1> HIDE DEF row
<1>6. /\ jobs' \in [JobIds -> Job] /\ jobs'[j] = row
      /\ \A k \in JobIds \ {j} : jobs'[k] = jobs[k]
  BY <1>1, <1>3, <1>5 DEF TypeOK
<1>7. TypeOK'
  BY <1>1, <1>2, <1>6 DEF TypeOK, Active
<1>8. jobs[j].attempt = 0
  BY <1>1, <1>2 DEF AttemptInv
<1> QED
  BY <1>1, <1>4, <1>6, <1>7, <1>8, RowsMove DEF JobsInv

LEMMA CancelKeeps ==
  ASSUME JobsInv, NEW j \in JobIds, Cancel(j)
  PROVE  JobsInv'
<1>1. TypeOK /\ AttemptInv /\ UNCHANGED <<claims, questions, outbox, evidence, environment, generation, agents, handlers>>
  BY DEF JobsInv, Cancel, context
<1>2. PICK row \in Job : row = Finished(jobs[j], "CANCELLED") /\ row.attempt = jobs[j].attempt /\ row.state = "CANCELLED"
  BY <1>1, FinishedIsTyped, Typed DEF Cancel
<1>3. /\ jobs' \in [JobIds -> Job] /\ jobs'[j] = row
      /\ \A k \in JobIds \ {j} : jobs'[k] = jobs[k]
  BY <1>1, <1>2 DEF Cancel, TypeOK
<1>4. TypeOK'
  BY <1>1, <1>3 DEF TypeOK, Cancel, FinishedRun
<1> QED
  BY <1>1, <1>2, <1>3, <1>4, RowsMove DEF JobsInv

LEMMA AnswerKeeps ==
  ASSUME JobsInv, NEW j \in JobIds, Answer(j)
  PROVE  JobsInv'
<1>1. TypeOK /\ AttemptInv /\ UNCHANGED <<jobs, runs, claims, environment, generation, agents, handlers>>
  BY DEF JobsInv, Answer
<1>2. jobs[j].incident \in Incidents
  BY <1>1, Typed
<1>3. evidence' \in [Incidents -> 1..MaxEvidence]
  <2>1. MaxEvidence \in Nat /\ evidence \in [Incidents -> 1..MaxEvidence] /\ evidence[jobs[j].incident] < MaxEvidence
    BY <1>1, DiagnosticJobsAssumption DEF Answer, TypeOK
  <2>2. PICK n \in 1..MaxEvidence : n = evidence[jobs[j].incident] + 1
    BY <1>2, <2>1
  <2>3. evidence' = [evidence EXCEPT ![jobs[j].incident] = n]
    BY <2>2 DEF Answer
  <2> QED
    BY <2>1, <2>3
<1>4. questions' \in [JobIds -> {"NONE", "PENDING", "ANSWERED"}]
  BY <1>1 DEF Answer, TypeOK
<1>5. TypeOK'
  BY <1>1, <1>3, <1>4 DEF TypeOK, Answer
<1> QED
  BY <1>1, <1>5, RowsMove DEF JobsInv

LEMMA ContextKeeps ==
  ASSUME JobsInv, UNCHANGED <<tables, agents, handlers>>, evidence' \in [Incidents -> 1..MaxEvidence],
         environment' \in 1..MaxEnvironment, generation' \in [Agents -> 1..MaxGeneration + 1]
  PROVE  JobsInv'
<1>1. TypeOK /\ AttemptInv /\ UNCHANGED <<jobs, runs, claims, questions, outbox>>
  BY DEF JobsInv, tables
<1>2. TypeOK'
  BY <1>1 DEF TypeOK
<1> QED
  BY <1>1, <1>2, RowsMove DEF JobsInv

LEMMA EvidenceChangesKeeps ==
  ASSUME JobsInv, NEW i \in Incidents, EvidenceChanges(i)
  PROVE  JobsInv'
<1>1. evidence' \in [Incidents -> 1..MaxEvidence]
  BY DiagnosticJobsAssumption DEF EvidenceChanges, JobsInv, TypeOK
<1> QED
  BY <1>1, ContextKeeps DEF EvidenceChanges, JobsInv, TypeOK

LEMMA EnvironmentChangesKeeps ==
  ASSUME JobsInv, EnvironmentChanges
  PROVE  JobsInv'
<1>1. environment' \in 1..MaxEnvironment
  BY DiagnosticJobsAssumption DEF EnvironmentChanges, JobsInv, TypeOK
<1> QED
  BY <1>1, ContextKeeps DEF EnvironmentChanges, JobsInv, TypeOK

LEMMA RenewKeeps ==
  ASSUME JobsInv, NEW a \in Agents, Renew(a)
  PROVE  JobsInv'
<1>1. evidence' \in [Incidents -> 1..MaxEvidence]
  <2>1. MaxEvidence \in Nat /\ evidence \in [Incidents -> 1..MaxEvidence] /\ \A i \in Incidents : evidence[i] < MaxEvidence
    BY DiagnosticJobsAssumption DEF Renew, JobsInv, TypeOK
  <2>2. \A i \in Incidents : evidence[i] + 1 \in 1..MaxEvidence
    BY <2>1
  <2> QED
    BY <2>2 DEF Renew
<1>2. generation' \in [Agents -> 1..MaxGeneration + 1]
  <2>1. MaxGeneration \in Nat /\ generation \in [Agents -> 1..MaxGeneration + 1] /\ generation[a] <= MaxGeneration
    BY DiagnosticJobsAssumption DEF Renew, JobsInv, TypeOK
  <2>2. PICK n \in 1..MaxGeneration + 1 : n = generation[a] + 1
    BY <2>1
  <2>3. generation' = [generation EXCEPT ![a] = n]
    BY <2>2 DEF Renew
  <2> QED
    BY <2>1, <2>3
<1> QED
  BY <1>1, <1>2, ContextKeeps DEF Renew, JobsInv, TypeOK

LEMMA HeartbeatKeeps ==
  ASSUME JobsInv, NEW a \in Agents, Heartbeat(a)
  PROVE  JobsInv'
<1>1. TypeOK /\ AttemptInv /\ UNCHANGED <<runs, claims, questions, outbox, evidence, environment, generation, agents, handlers>>
  BY DEF JobsInv, Heartbeat, context
<1>2. PICK j \in JobIds : j = agents[a].job /\ jobs[j] \in Job
  BY <1>1, Typed
<1>3. jobs[j].expiresIn \in Nat /\ LeaseTime \in Nat
  BY <1>2, DiagnosticJobsAssumption DEF Job
<1>4. PICK l \in 0..LeaseTime : l = Least(jobs[j].expiresIn, LeaseTime)
  BY <1>3, LeastIsTyped
<1> DEFINE row == [jobs[j] EXCEPT !.leaseLeft = l]
<1>5. jobs' = [jobs EXCEPT ![j] = row]
  BY <1>2, <1>4 DEF Heartbeat
<1>6. row \in Job
  BY <1>2 DEF Job
<1>7. row.attempt = jobs[j].attempt /\ row.state = jobs[j].state /\ row.input = jobs[j].input
  BY <1>2 DEF Job
<1> HIDE DEF row
<1>8. /\ jobs' \in [JobIds -> Job] /\ jobs'[j] = row
      /\ \A k \in JobIds \ {j} : jobs'[k] = jobs[k]
  BY <1>1, <1>5, <1>6 DEF TypeOK
<1>9. TypeOK'
  BY <1>1, <1>8 DEF TypeOK
<1> QED
  BY <1>1, <1>7, <1>8, <1>9, RowsMove DEF JobsInv

LEMMA ClaimReadKeeps ==
  ASSUME JobsInv, NEW h \in handlers, ClaimRead(h)
  PROVE  JobsInv'
<1>1. TypeOK /\ AttemptInv /\ UNCHANGED <<jobs, runs, claims, questions, outbox, evidence, environment, generation, agents>>
  BY DEF JobsInv, ClaimRead, tables, context
<1>2. PICK snapshot \in Snapshot : handlers' = Moved(h, "start", snapshot) /\ h.step = "read"
  BY <1>1, CurrentIsTyped, Typed DEF ClaimRead
<1>3. TypeOK'
  BY <1>1, <1>2, MovedIsTyped DEF TypeOK
<1> QED
  BY <1>1, <1>2, <1>3, RequestReads DEF JobsInv

LEMMA RefreshReadKeeps ==
  ASSUME JobsInv, NEW h \in handlers, RefreshRead(h)
  PROVE  JobsInv'
<1>1. TypeOK /\ AttemptInv /\ UNCHANGED <<jobs, runs, claims, questions, outbox, evidence, environment, generation, agents>>
  BY DEF JobsInv, RefreshRead, tables, context
<1>2. PICK snapshot \in Snapshot : handlers' = Moved(h, "store", snapshot) /\ h.step = "collect"
  BY <1>1, CurrentIsTyped, Typed DEF RefreshRead
<1>3. TypeOK'
  BY <1>1, <1>2, MovedIsTyped DEF TypeOK
<1> QED
  BY <1>1, <1>2, <1>3, RequestReads DEF JobsInv

\* Who holds a lease finds its own attempt in the row.
LEMMA HeldIsLeased ==
  ASSUME NEW j, NEW attempt, NEW a, NEW g, Held(j, attempt, a, g)
  PROVE  Leased(j, attempt)
  BY DEF Held, Leased

\* A request stores what it read, and its agent reasons about it.
LEMMA InputStored ==
  ASSUME JobsInv, NEW h \in handlers, HeldBy(h), NEW next \in Work, Respond(h, next),
         jobs' = [jobs EXCEPT ![h.job].input = h.snapshot],
         runs' \in [JobIds -> Active \cup {"NONE", "ASSESSED", "CANCELLED"}],
         UNCHANGED <<claims, questions, outbox, context>>,
         next.pc = "working", next.snapshot = h.snapshot,
         h.awaited => next.job = h.job /\ next.attempt = h.attempt
  PROVE  JobsInv'
<1>1. TypeOK /\ AttemptInv /\ UNCHANGED <<evidence, environment, generation>>
  BY DEF JobsInv, context
<1>2. PICK j \in JobIds : j = h.job /\ jobs[j] \in Job /\ h.snapshot \in Snapshot /\ Leased(j, h.attempt)
  BY <1>1, Typed, HeldIsLeased DEF HeldBy
<1> DEFINE row == [jobs[j] EXCEPT !.input = h.snapshot]
<1>3. jobs' = [jobs EXCEPT ![j] = row]
  BY <1>2
<1>4. row \in Job
  BY <1>2 DEF Job
<1>5. row.attempt = jobs[j].attempt /\ row.state = jobs[j].state /\ row.input = h.snapshot
  BY <1>2 DEF Job
<1> HIDE DEF row
<1>6. /\ jobs' \in [JobIds -> Job] /\ jobs'[j] = row
      /\ \A k \in JobIds \ {j} : jobs'[k] = jobs[k]
  BY <1>1, <1>3, <1>4 DEF TypeOK
<1>7. agents' \in [Agents -> Work] /\ handlers' \subseteq Handler
  BY <1>1, RespondIsTyped
<1>8. TypeOK'
  BY <1>1, <1>6, <1>7 DEF TypeOK
<1>9. jobs'[h.job].input = next.snapshot
  BY <1>2, <1>5, <1>6
<1>10. jobs[j].attempt = h.attempt
  BY <1>2 DEF Leased
<1> QED
  BY <1>1, <1>2, <1>5, <1>6, <1>8, <1>9, <1>10, RequestDone DEF JobsInv

LEMMA ClaimStartKeeps ==
  ASSUME JobsInv, NEW h \in handlers, ClaimStart(h)
  PROVE  JobsInv'
<1>1. h.job \in JobIds /\ h.attempt \in 1..MaxAttempts /\ h.snapshot \in Snapshot
  BY DEF JobsInv, TypeOK, Handler
<1> DEFINE next == [pc |-> "working", job |-> h.job, attempt |-> h.attempt, snapshot |-> h.snapshot, left |-> WorkTime]
<1>2. next \in Work
  <2>1. WorkTime \in 0..WorkTime /\ h.attempt \in 0..MaxAttempts
    BY <1>1, DiagnosticJobsAssumption
  <2> QED
    BY <1>1, <2>1 DEF Work
<1>3. next.pc = "working" /\ next.snapshot = h.snapshot /\ next.job = h.job /\ next.attempt = h.attempt
  OBVIOUS
<1>4. Respond(h, next) /\ HeldBy(h) /\ UNCHANGED <<claims, questions, outbox, context>>
      /\ jobs' = [jobs EXCEPT ![h.job].input = h.snapshot]
  BY DEF ClaimStart
<1>5. runs' \in [JobIds -> Active \cup {"NONE", "ASSESSED", "CANCELLED"}]
  BY <1>1 DEF ClaimStart, JobsInv, TypeOK, Active
<1> HIDE DEF next
<1> QED
  BY <1>2, <1>3, <1>4, <1>5, InputStored

LEMMA RefreshStoreKeeps ==
  ASSUME JobsInv, NEW h \in handlers, RefreshStore(h)
  PROVE  JobsInv'
<1>1. h.agent \in Agents /\ agents[h.agent] \in Work /\ h.snapshot \in Snapshot
  BY Typed DEF JobsInv
<1> DEFINE next == [agents[h.agent] EXCEPT !.pc = "working", !.snapshot = h.snapshot]
<1>2. next \in Work
  BY <1>1 DEF Work
<1>3. /\ next.pc = "working" /\ next.snapshot = h.snapshot
      /\ next.job = agents[h.agent].job /\ next.attempt = agents[h.agent].attempt
  BY <1>1 DEF Work
<1>4. Respond(h, next) /\ HeldBy(h) /\ UNCHANGED <<runs, claims, questions, outbox, context>> /\ h.step = "store"
      /\ jobs' = [jobs EXCEPT ![h.job].input = h.snapshot]
  BY DEF RefreshStore
<1>5. runs' \in [JobIds -> Active \cup {"NONE", "ASSESSED", "CANCELLED"}]
  BY <1>4 DEF JobsInv, TypeOK
<1> HIDE DEF next
<1>6. h.awaited => next.job = h.job /\ next.attempt = h.attempt
  BY <1>3, <1>4 DEF JobsInv, AttemptInv, HandlerHolds
<1> QED
  BY <1>2, <1>3, <1>4, <1>5, <1>6, InputStored

\* A request ends and no table changes.
LEMMA RequestLeft ==
  ASSUME JobsInv, NEW h \in handlers, NEW next \in Work, Respond(h, next), UNCHANGED <<tables, context>>,
         next.pc = "idle" \/ (h.step = "collect" /\ next.pc = "concluding" /\ next.job = agents[h.agent].job
                              /\ next.attempt = agents[h.agent].attempt /\ next.snapshot = agents[h.agent].snapshot)
  PROVE  JobsInv'
<1>1. TypeOK /\ AttemptInv
      /\ UNCHANGED <<jobs, runs, claims, questions, outbox, evidence, environment, generation>>
  BY DEF JobsInv, context, tables
<1>2. agents' \in [Agents -> Work] /\ handlers' \subseteq Handler
  BY <1>1, RespondIsTyped
<1>3. TypeOK'
  BY <1>1, <1>2 DEF TypeOK
<1>4. HandlerHolds(h)
  BY <1>1 DEF AttemptInv
<1>5. next.pc = "idle" \/ /\ next.pc \in {"working", "concluding"}
                          /\ h.awaited => next.job = h.job /\ next.attempt = h.attempt
                          /\ h.awaited /\ Leased(h.job, h.attempt)' => jobs'[h.job].input = next.snapshot
  BY <1>1, <1>4 DEF HandlerHolds, Leased
<1> QED
  BY <1>1, <1>3, <1>5, RequestDone DEF JobsInv

LEMMA RefreshUnavailableKeeps ==
  ASSUME JobsInv, NEW h \in handlers, RefreshUnavailable(h)
  PROVE  JobsInv'
<1>1. h.agent \in Agents /\ agents[h.agent] \in Work
  BY Typed DEF JobsInv
<1> DEFINE next == [agents[h.agent] EXCEPT !.pc = "concluding"]
<1>2. next \in Work
  BY <1>1 DEF Work
<1>3. /\ next.pc = "concluding" /\ next.job = agents[h.agent].job
      /\ next.attempt = agents[h.agent].attempt /\ next.snapshot = agents[h.agent].snapshot
  BY <1>1 DEF Work
<1>4. Respond(h, next) /\ UNCHANGED <<tables, context>> /\ h.step = "collect"
  BY DEF RefreshUnavailable
<1> HIDE DEF next
<1> QED
  BY <1>2, <1>3, <1>4, RequestLeft

LEMMA FailKeeps ==
  ASSUME JobsInv, NEW h \in handlers, Fail(h)
  PROVE  JobsInv'
  BY DefaultsAreTyped, RequestLeft DEF Fail

LEMMA CompleteAgentKeeps ==
  ASSUME JobsInv, NEW h \in handlers, CompleteAgent(h)
  PROVE  JobsInv'
<1>1. TypeOK /\ AttemptInv /\ UNCHANGED <<evidence, environment, generation>> /\ Respond(h, NoWork) /\ HeldBy(h)
  BY DEF JobsInv, CompleteAgent, context
<1>2. PICK j \in JobIds : j = h.job /\ jobs[j] \in Job /\ h.snapshot \in Snapshot /\ h.attempt \in 1..MaxAttempts
                          /\ jobs[j].state \in Active
  BY <1>1 DEF TypeOK, Handler, HeldBy, Held, Active
<1>3. PICK row \in Job : row = Finished(jobs[j], "COMPLETED") /\ row.attempt = jobs[j].attempt /\ row.state = "COMPLETED"
  BY <1>2, FinishedIsTyped
<1>4. /\ jobs' \in [JobIds -> Job] /\ jobs'[j] = row
      /\ \A k \in JobIds \ {j} : jobs'[k] = jobs[k]
  BY <1>1, <1>2, <1>3 DEF CompleteAgent, TypeOK
<1>5. runs' \in [JobIds -> Active \cup {"NONE", "ASSESSED", "CANCELLED"}]
  BY <1>1, <1>2 DEF CompleteAgent, TypeOK, FinishedRun
<1>6. PICK needs \in BOOLEAN :
        /\ claims' = [claims EXCEPT ![j] = Append(@, [attempt |-> h.attempt, parents |-> jobs[j].input,
                                                      assessed |-> h.snapshot, needsEvidence |-> needs])]
        /\ questions' = IF needs THEN [questions EXCEPT ![j] = "PENDING"] ELSE questions
        /\ outbox' = outbox \cup {<<"INVESTIGATION_RECORDED", j>>}
                            \cup (IF needs THEN {<<"CLARIFICATION_REQUESTED", j>>} ELSE {})
  BY <1>2 DEF CompleteAgent
<1>7. claims' \in [JobIds -> Seq(ClaimItem)]
  <2>1. PICK item \in ClaimItem : item = [attempt |-> h.attempt, parents |-> jobs[j].input,
                                          assessed |-> h.snapshot, needsEvidence |-> needs]
    BY <1>2 DEF ClaimItem, Job
  <2> QED
    BY <1>1, <1>6, <2>1 DEF TypeOK
<1>8. questions' \in [JobIds -> {"NONE", "PENDING", "ANSWERED"}]
  BY <1>1, <1>6 DEF TypeOK
<1>9. outbox' \subseteq {"INVESTIGATION_RECORDED", "CLARIFICATION_REQUESTED", "CLARIFICATION_ANSWERED"} \X JobIds
  BY <1>1, <1>6 DEF TypeOK
<1>10. agents' \in [Agents -> Work] /\ handlers' \subseteq Handler
  BY <1>1, RespondIsTyped, DefaultsAreTyped
<1>11. TypeOK'
  BY <1>1, <1>4, <1>5, <1>7, <1>8, <1>9, <1>10 DEF TypeOK
<1> QED
  BY <1>1, <1>3, <1>4, <1>11, RequestDone, DefaultsAreTyped DEF JobsInv

LEMMA CompleteKeeps ==
  ASSUME JobsInv, NEW a \in Agents, Complete(a)
  PROVE  JobsInv'
<1>1. TypeOK /\ AttemptInv /\ UNCHANGED <<jobs, runs, claims, questions, outbox, evidence, environment, generation>>
      /\ Reasons(a)
  BY DEF JobsInv, Complete, context, tables, InContext, Reasons
<1>2. agents[a] \in Work /\ agents[a].attempt # 0
  BY <1>1, Typed DEF AttemptInv, WorkerHolds
<1>3. PICK n \in Handler :
        /\ n = Called(a, "complete") /\ n.step = "complete" /\ n.agent = a /\ n.job = agents[a].job
        /\ n.attempt = agents[a].attempt /\ n.snapshot = agents[a].snapshot /\ n.awaited = TRUE
  BY <1>1, <1>2, CalledIsTyped
<1>4. handlers' = handlers \cup {n} /\ agents' = [agents EXCEPT ![a].pc = "completing"]
  BY <1>3 DEF Complete
<1>5. agents' \in [Agents -> Work]
  BY <1>1, <1>2, <1>4 DEF TypeOK, Work
<1>6. TypeOK'
  BY <1>1, <1>4, <1>5 DEF TypeOK
<1>7. agents' = [agents EXCEPT ![a].pc = IF n.step = "collect" THEN "refreshing" ELSE "completing"]
  BY <1>3, <1>4
<1> QED
  BY <1>1, <1>3, <1>4, <1>6, <1>7, RequestCalled DEF JobsInv

LEMMA RefreshKeeps ==
  ASSUME JobsInv, NEW a \in Agents, Refresh(a)
  PROVE  JobsInv'
<1>1. TypeOK /\ AttemptInv /\ UNCHANGED <<runs, claims, questions, outbox, evidence, environment, generation>>
      /\ Reasons(a)
  BY DEF JobsInv, Refresh, context, InContext, Reasons
<1>2. PICK j \in JobIds : j = agents[a].job /\ jobs[j] \in Job /\ agents[a] \in Work /\ agents[a].attempt # 0
  BY <1>1, Typed DEF AttemptInv, WorkerHolds
<1>3. jobs[j].input \in Snapshot /\ jobs[j].refreshes < MaxRefreshes /\ jobs[j].refreshes \in Nat /\ MaxRefreshes \in Nat
  BY <1>2, DiagnosticJobsAssumption DEF Refresh, RefreshesLeft, Job
<1>4. PICK r \in 0..MaxRefreshes : r = jobs[j].refreshes + 1
  BY <1>3
<1> DEFINE row == [jobs[j] EXCEPT !.refreshes = r]
           called == Called(a, "collect")
           n == [called EXCEPT !.snapshot = jobs[j].input]
<1>5. jobs' = [jobs EXCEPT ![j] = row]
  BY <1>2, <1>4 DEF Refresh
<1>6. row \in Job
  BY <1>2 DEF Job
<1>7. row.attempt = jobs[j].attempt /\ row.state = jobs[j].state /\ row.input = jobs[j].input
  BY <1>2 DEF Job
<1> HIDE DEF row
<1>8. /\ jobs' \in [JobIds -> Job] /\ jobs'[j] = row
      /\ \A k \in JobIds \ {j} : jobs'[k] = jobs[k]
  BY <1>1, <1>5, <1>6 DEF TypeOK
<1>9. /\ called \in Handler /\ called.step = "collect" /\ called.agent = a /\ called.job = agents[a].job
      /\ called.attempt = agents[a].attempt /\ called.awaited = TRUE
  BY <1>1, <1>2, CalledIsTyped
<1>10. handlers' = handlers \cup {n} /\ agents' = [agents EXCEPT ![a].pc = "refreshing"]
  BY <1>2 DEF Refresh
<1> HIDE DEF called
<1>11. n \in Handler
  BY <1>3, <1>9 DEF Handler
<1>12. /\ n.step = "collect" /\ n.agent = a /\ n.job = agents[a].job /\ n.attempt = agents[a].attempt
       /\ n.awaited = TRUE
  BY <1>9 DEF Handler
<1> HIDE DEF n
<1>13. agents' \in [Agents -> Work]
  BY <1>1, <1>2, <1>10 DEF TypeOK, Work
<1>14. TypeOK'
  BY <1>1, <1>8, <1>10, <1>11, <1>13 DEF TypeOK
<1>15. agents' = [agents EXCEPT ![a].pc = IF n.step = "collect" THEN "refreshing" ELSE "completing"]
  BY <1>10, <1>12
<1>16. PICK m \in Handler :
         /\ handlers' = handlers \cup {m} /\ m.step = "collect" /\ m.agent = a /\ m.job = agents[a].job
         /\ m.attempt = agents[a].attempt /\ m.awaited = TRUE
         /\ agents' = [agents EXCEPT ![a].pc = IF m.step = "collect" THEN "refreshing" ELSE "completing"]
  BY <1>10, <1>11, <1>12, <1>15
<1>17. \A k \in JobIds : /\ jobs'[k].attempt = jobs[k].attempt /\ jobs'[k].state = jobs[k].state
                         /\ jobs'[k].input = jobs[k].input
  BY <1>7, <1>8
<1> QED
  BY <1>1, <1>14, <1>16, <1>17, RequestCalled DEF JobsInv

\* An agent drops its attempt: its requests go on without it.
LEMMA GiveUpKeeps ==
  ASSUME JobsInv, NEW a \in Agents, GiveUp(a)
  PROVE  JobsInv'
<1>1. TypeOK /\ AttemptInv /\ UNCHANGED <<jobs, runs, claims, questions, outbox, evidence, environment, generation>>
      /\ agents' = [agents EXCEPT ![a] = NoWork]
      /\ handlers' = {IF h.agent = a THEN [h EXCEPT !.awaited = FALSE] ELSE h : h \in handlers}
  BY DEF JobsInv, GiveUp, context, tables
<1>2. agents' \in [Agents -> Work] /\ agents'[a].pc = "idle" /\ \A b \in Agents \ {a} : agents'[b] = agents[b]
  BY <1>1, DefaultsAreTyped DEF TypeOK
<1>3. ASSUME NEW g \in handlers'
      PROVE  \E h \in handlers : /\ g \in Handler /\ g.step = h.step /\ g.agent = h.agent /\ g.job = h.job
                                 /\ g.attempt = h.attempt /\ g.snapshot = h.snapshot
                                 /\ g.awaited => h.awaited /\ h.agent # a
                                 /\ g = IF h.agent = a THEN [h EXCEPT !.awaited = FALSE] ELSE h
  <2>1. PICK h \in handlers : g = IF h.agent = a THEN [h EXCEPT !.awaited = FALSE] ELSE h
    BY <1>1
  <2>2. h \in Handler
    BY <1>1, Typed
  <2>3. CASE h.agent = a
    BY <2>1, <2>2, <2>3 DEF Handler
  <2>4. CASE h.agent # a
    BY <2>1, <2>2, <2>4
  <2> QED
    BY <2>3, <2>4
<1>4. TypeOK'
  BY <1>1, <1>2, <1>3 DEF TypeOK
<1>5. ASSUME NEW g \in handlers' PROVE HandlerHolds(g)'
  <2>1. PICK h \in handlers : /\ g.step = h.step /\ g.agent = h.agent /\ g.job = h.job
                              /\ g.attempt = h.attempt /\ g.snapshot = h.snapshot
                              /\ g.awaited => h.awaited /\ h.agent # a
    BY <1>3
  <2>2. HandlerHolds(h) /\ h.agent \in Agents
    BY <1>1, Typed DEF AttemptInv
  <2>3. g.awaited => agents'[g.agent] = agents[h.agent] /\ h.awaited
    BY <1>2, <2>1, <2>2
  <2>4. HandlerHolds(h)' \/ agents'[h.agent] # agents[h.agent]
    BY <1>1, <2>2 DEF HandlerHolds, Leased
  <2>5. CASE g.awaited
    BY <2>1, <2>3, <2>4, <2>5 DEF HandlerHolds, Leased
  <2>6. CASE ~g.awaited
    BY <1>1, <2>1, <2>2, <2>6 DEF HandlerHolds, Leased
  <2> QED
    BY <2>5, <2>6
<1>6. OneHandler'
  <2>1. SUFFICES ASSUME NEW g \in handlers', NEW k \in handlers', g.job = k.job /\ g.attempt = k.attempt
                 PROVE  g = k
    BY DEF OneHandler
  <2>2. PICK h \in handlers : /\ g.job = h.job /\ g.attempt = h.attempt /\ g.agent = h.agent /\ (g.awaited => h.awaited)
                              /\ g = IF h.agent = a THEN [h EXCEPT !.awaited = FALSE] ELSE h
    BY <1>3
  <2>3. PICK m \in handlers : /\ k.job = m.job /\ k.attempt = m.attempt /\ k.agent = m.agent /\ (k.awaited => m.awaited)
                              /\ k = IF m.agent = a THEN [m EXCEPT !.awaited = FALSE] ELSE m
    BY <1>3
  <2>4. h = m
    BY <1>1, <2>1, <2>2, <2>3 DEF AttemptInv, OneHandler
  <2> QED
    BY <2>2, <2>3, <2>4
<1>7. OneAwaited'
  <2>1. SUFFICES ASSUME NEW g \in handlers', NEW k \in handlers', g.awaited /\ k.awaited /\ g.agent = k.agent
                 PROVE  g = k
    BY DEF OneAwaited
  <2>2. PICK h \in handlers : /\ g.job = h.job /\ g.attempt = h.attempt /\ g.agent = h.agent /\ (g.awaited => h.awaited)
                              /\ g = IF h.agent = a THEN [h EXCEPT !.awaited = FALSE] ELSE h
    BY <1>3
  <2>3. PICK m \in handlers : /\ k.job = m.job /\ k.attempt = m.attempt /\ k.agent = m.agent /\ (k.awaited => m.awaited)
                              /\ k = IF m.agent = a THEN [m EXCEPT !.awaited = FALSE] ELSE m
    BY <1>3
  <2>4. h = m
    BY <1>1, <2>1, <2>2, <2>3 DEF AttemptInv, OneAwaited
  <2> QED
    BY <2>2, <2>3, <2>4
<1>8. ASSUME NEW b \in Agents, Reasons(b)' PROVE WorkerHolds(b)' /\ b # a
  <2>1. b # a /\ agents'[b] = agents[b]
    BY <1>2, <1>8 DEF Reasons
  <2>2. WorkerHolds(b)
    BY <1>1, <1>8, <2>1 DEF AttemptInv, Reasons
  <2> QED
    BY <1>1, <1>3, <2>1, <2>2 DEF WorkerHolds, Leased
<1>9. WorkersApart'
  BY <1>1, <1>2, <1>8 DEF AttemptInv, WorkersApart, Reasons
<1> QED
  BY <1>1, <1>4, <1>5, <1>6, <1>7, <1>8, <1>9 DEF AttemptInv, JobsInv

\* The claim: the attempt is new, nobody else carries it, and the row has no input yet.
LEMMA ClaimKeeps ==
  ASSUME JobsInv, NEW a \in Agents, Claim(a)
  PROVE  JobsInv'
<1>1. TypeOK /\ AttemptInv /\ UNCHANGED <<claims, questions, outbox, evidence, environment, generation>>
      /\ agents[a].pc = "idle"
  BY DEF JobsInv, Claim, context
<1>2. PICK d \in {0, 1}, j \in JobIds :
        /\ JobsSwept(d)[j].attempt < MaxAttempts
        /\ jobs' = [JobsSwept(d) EXCEPT ![j] = Claimed(@, a)]
        /\ runs' = RunsSwept
        /\ agents' = [AgedAgents(d) EXCEPT ![a].pc = "claiming"]
        /\ handlers' = handlers \cup
             {[step |-> "read", agent |-> a, generation |-> generation[a], job |-> j,
               attempt |-> JobsSwept(d)[j].attempt + 1, snapshot |-> NoInput, awaited |-> TRUE]}
  BY DEF Claim, Claimable
<1>3. PICK rows \in [JobIds -> Job] : rows = JobsSwept(d)
  BY <1>1, SweptIsTyped DEF TypeOK
<1>4. \A k \in JobIds : /\ rows[k].attempt = jobs[k].attempt
                        /\ rows[k].state = "NONE" <=> jobs[k].state = "NONE"
                        /\ rows[k].state = "RUNNING" => jobs[k].state = "RUNNING" /\ rows[k].input = jobs[k].input
  BY <1>1, <1>3, SweptIsTyped DEF TypeOK
<1>5. PICK row \in Job : /\ row = Claimed(rows[j], a) /\ row.state = "RUNNING" /\ row.attempt = jobs[j].attempt + 1
                         /\ jobs[j].attempt + 1 \in 1..MaxAttempts
  <2>1. rows[j] \in Job /\ rows[j].attempt < MaxAttempts /\ generation \in [Agents -> 1..MaxGeneration + 1]
    BY <1>1, <1>2, <1>3 DEF TypeOK
  <2> QED
    BY <1>4, <2>1, ClaimedIsTyped
<1>6. jobs' = [rows EXCEPT ![j] = row]
  BY <1>2, <1>3, <1>5
<1>7. /\ jobs' \in [JobIds -> Job] /\ jobs'[j] = row
      /\ \A k \in JobIds \ {j} : jobs'[k] = rows[k]
  BY <1>6
<1>8. PICK n \in Handler :
        /\ handlers' = handlers \cup {n} /\ n.step = "read" /\ n.agent = a /\ n.job = j
        /\ n.attempt = jobs[j].attempt + 1 /\ n.awaited = TRUE
  <2> DEFINE m == [step |-> "read", agent |-> a, generation |-> generation[a], job |-> j,
                   attempt |-> rows[j].attempt + 1, snapshot |-> NoInput, awaited |-> TRUE]
  <2>1. m \in Handler
    BY <1>1, <1>4, <1>5, DefaultsAreTyped DEF Handler, TypeOK
  <2>2. handlers' = handlers \cup {m}
    BY <1>2, <1>3
  <2>3. m.step = "read" /\ m.agent = a /\ m.job = j /\ m.attempt = jobs[j].attempt + 1 /\ m.awaited = TRUE
    BY <1>4
  <2> HIDE DEF m
  <2> QED
    BY <2>1, <2>2, <2>3
<1>9. /\ agents' \in [Agents -> Work] /\ agents'[a].pc = "claiming"
      /\ \A b \in Agents \ {a} : /\ agents'[b].pc = agents[b].pc /\ agents'[b].job = agents[b].job
                                 /\ agents'[b].attempt = agents[b].attempt /\ agents'[b].snapshot = agents[b].snapshot
  <2>1. PICK aged \in [Agents -> Work] : aged = AgedAgents(d)
    BY <1>1, AgedAgentsAreTyped DEF TypeOK
  <2>2. \A b \in Agents : /\ aged[b].pc = agents[b].pc /\ aged[b].job = agents[b].job
                          /\ aged[b].attempt = agents[b].attempt /\ aged[b].snapshot = agents[b].snapshot
    BY <1>1, <2>1, AgedAgentsAreTyped DEF TypeOK
  <2>3. agents' = [aged EXCEPT ![a].pc = "claiming"]
    BY <1>2, <2>1
  <2>4. agents' \in [Agents -> Work] /\ agents'[a].pc = "claiming" /\ \A b \in Agents \ {a} : agents'[b] = aged[b]
    BY <2>1, <2>3 DEF Work
  <2> QED
    BY <2>2, <2>4
<1>10. TypeOK'
  <2>1. runs' \in [JobIds -> Active \cup {"NONE", "ASSESSED", "CANCELLED"}]
    BY <1>1, <1>2 DEF RunsSwept, FinishedRun, TypeOK
  <2> QED
    BY <1>1, <1>7, <1>8, <1>9, <2>1 DEF TypeOK
<1>11. ASSUME NEW k \in JobIds, NEW attempt \in Nat, attempt <= jobs[k].attempt
       PROVE  /\ attempt <= jobs'[k].attempt /\ (k = n.job => attempt # n.attempt)
              /\ Leased(k, attempt)' => Leased(k, attempt) /\ jobs'[k].input = jobs[k].input
  <2>1. jobs[k].attempt \in Nat
    BY <1>1, Typed
  <2>2. CASE k = j
    BY <1>5, <1>7, <1>8, <1>11, <2>1, <2>2 DEF Leased
  <2>3. CASE k # j
    BY <1>4, <1>7, <1>8, <1>11, <2>3 DEF Leased
  <2> QED
    BY <2>2, <2>3
<1>12. ASSUME NEW h \in handlers PROVE HandlerHolds(h)' /\ ~(h.awaited /\ h.agent = a) /\ (h.job = n.job => h.attempt # n.attempt)
  <2>1. /\ HandlerHolds(h) /\ h.job \in JobIds /\ h.agent \in Agents /\ h.attempt \in Nat /\ h.attempt <= jobs[h.job].attempt
        /\ h.step \in {"read", "start", "collect", "store", "complete"}
    BY <1>1, Typed DEF AttemptInv, HandlerHolds, Handler
  <2>2. ~(h.awaited /\ h.agent = a)
    BY <1>1, <2>1 DEF HandlerHolds
  <2>3. /\ h.attempt <= jobs'[h.job].attempt /\ (h.job = n.job => h.attempt # n.attempt)
        /\ Leased(h.job, h.attempt)' => Leased(h.job, h.attempt) /\ jobs'[h.job].input = jobs[h.job].input
    BY <1>11, <2>1
  <2> QED
    BY <1>9, <2>1, <2>2, <2>3 DEF HandlerHolds
<1>13. HandlerHolds(n)'
  <2>1. n.attempt <= jobs'[n.job].attempt
    BY <1>1, <1>5, <1>7, <1>8, Typed
  <2> QED
    BY <1>8, <1>9, <2>1 DEF HandlerHolds
<1>14. OneHandler' /\ OneAwaited'
  BY <1>1, <1>8, <1>12 DEF AttemptInv, OneHandler, OneAwaited
<1>15. ASSUME NEW b \in Agents, Reasons(b)' PROVE WorkerHolds(b)' /\ b # a
  <2>1. b # a
    BY <1>9, <1>15 DEF Reasons
  <2>2. WorkerHolds(b) /\ agents[b].job \in JobIds /\ agents[b].attempt \in Nat
    BY <1>1, <1>9, <1>15, <2>1, Typed DEF AttemptInv, Reasons
  <2>3. jobs[agents[b].job].attempt \in Nat /\ agents[b].attempt <= jobs[agents[b].job].attempt /\ agents[b].attempt # 0
    BY <1>1, <2>2, Typed DEF WorkerHolds
  <2>4. /\ agents[b].attempt <= jobs'[agents[b].job].attempt
        /\ agents[b].job = n.job => agents[b].attempt # n.attempt
        /\ Leased(agents[b].job, agents[b].attempt) \/ ~(jobs'[agents[b].job].state = "RUNNING" /\ jobs'[agents[b].job].attempt = agents[b].attempt)
        /\ jobs'[agents[b].job].state = "RUNNING" /\ jobs'[agents[b].job].attempt = agents[b].attempt
             => jobs'[agents[b].job].input = jobs[agents[b].job].input
    <3>1. PICK k \in JobIds, t \in Nat : k = agents[b].job /\ t = agents[b].attempt
      BY <2>2
    <3>2. t <= jobs'[k].attempt /\ (k = n.job => t # n.attempt)
          /\ (Leased(k, t)' => Leased(k, t) /\ jobs'[k].input = jobs[k].input)
      BY <1>11, <2>3, <3>1
    <3> QED
      BY <3>1, <3>2 DEF Leased
  <2>5. jobs'[agents[b].job].attempt \in Nat
    BY <1>7, <2>2, DiagnosticJobsAssumption DEF Job
  <2> QED
    BY <1>8, <1>9, <2>1, <2>2, <2>3, <2>4, <2>5 DEF WorkerHolds, Leased
<1>16. WorkersApart'
  BY <1>1, <1>9, <1>15 DEF AttemptInv, WorkersApart, Reasons
<1>17. \A k \in JobIds : jobs'[k].state = "NONE" => jobs'[k].attempt = 0
  BY <1>1, <1>4, <1>5, <1>7 DEF AttemptInv
<1> QED
  BY <1>8, <1>10, <1>12, <1>13, <1>14, <1>15, <1>16, <1>17 DEF AttemptInv, JobsInv

-----------------------------------------------------------------------------
(* Outcomes. *)

\* Steps that record nothing.
LEMMA OutcomeMoves ==
  ASSUME OutcomeIsWhole, claims' = claims,
         \A j \in JobIds : /\ jobs'[j].state = "COMPLETED" <=> jobs[j].state = "COMPLETED"
                           /\ runs'[j] = "ASSESSED" <=> runs[j] = "ASSESSED"
                           /\ jobs'[j].state \in Active => runs'[j] \in Active
                           /\ <<"INVESTIGATION_RECORDED", j>> \in outbox' <=> <<"INVESTIGATION_RECORDED", j>> \in outbox
                           /\ questions'[j] = "NONE" <=> questions[j] = "NONE"
  PROVE  OutcomeIsWhole'
  BY DEF OutcomeIsWhole

LEMMA OutcomeKept ==
  ASSUME OutcomeIsWhole, UNCHANGED <<runs, claims, questions, outbox>>,
         \A j \in JobIds : jobs'[j].state = jobs[j].state
  PROVE  OutcomeIsWhole'
  BY DEF OutcomeIsWhole

LEMMA EnqueueIsWhole ==
  ASSUME TypeOK, OutcomeIsWhole, NEW i \in Incidents, NEW p \in Profiles, Enqueue(i, p)
  PROVE  OutcomeIsWhole'
<1>1. UNCHANGED <<claims, questions, outbox>>
  BY DEF Enqueue
<1>2. PICK j \in JobIds, l \in 1..Lifetime :
        /\ jobs[j].state = "NONE"
        /\ jobs' = [jobs EXCEPT ![j] = [NoJob EXCEPT !.state = "QUEUED", !.incident = i, !.profile = p, !.expiresIn = l]]
        /\ runs' = [runs EXCEPT ![j] = "QUEUED"]
  BY DEF Enqueue
<1>3. jobs'[j].state = "QUEUED" /\ \A k \in JobIds \ {j} : jobs'[k] = jobs[k]
  BY <1>2, DefaultsAreTyped DEF TypeOK, Job
<1>4. runs'[j] = "QUEUED" /\ \A k \in JobIds \ {j} : runs'[k] = runs[k]
  BY <1>2 DEF TypeOK
<1>5. runs[j] # "ASSESSED"
  BY <1>2 DEF OutcomeIsWhole
<1>6. \A k \in JobIds : jobs[k].state \in Active => runs[k] \in Active
  BY DEF OutcomeIsWhole
<1> QED
  BY <1>1, <1>2, <1>3, <1>4, <1>5, <1>6, OutcomeMoves DEF Active

LEMMA CancelIsWhole ==
  ASSUME TypeOK, OutcomeIsWhole, NEW j \in JobIds, Cancel(j)
  PROVE  OutcomeIsWhole'
<1>1. UNCHANGED <<claims, questions, outbox>> /\ jobs[j].state \in Active /\ runs[j] \in Active
  BY DEF Cancel, OutcomeIsWhole
<1>2. jobs'[j].state = "CANCELLED" /\ \A k \in JobIds \ {j} : jobs'[k] = jobs[k]
  BY <1>1, FinishedIsTyped, Typed DEF Cancel, TypeOK
<1>3. runs'[j] = "CANCELLED" /\ \A k \in JobIds \ {j} : runs'[k] = runs[k]
  BY <1>1 DEF Cancel, FinishedRun, TypeOK
<1>4. \A k \in JobIds : jobs[k].state \in Active => runs[k] \in Active
  BY DEF OutcomeIsWhole
<1> QED
  BY <1>1, <1>2, <1>3, <1>4, OutcomeMoves DEF Active

LEMMA AnswerIsWhole ==
  ASSUME TypeOK, OutcomeIsWhole, NEW j \in JobIds, Answer(j)
  PROVE  OutcomeIsWhole'
<1>1. UNCHANGED <<jobs, runs, claims>> /\ questions[j] = "PENDING"
  BY DEF Answer
<1>2. questions'[j] = "ANSWERED" /\ \A k \in JobIds \ {j} : questions'[k] = questions[k]
  BY DEF Answer, TypeOK
<1>3. \A k \in JobIds : <<"INVESTIGATION_RECORDED", k>> \in outbox' <=> <<"INVESTIGATION_RECORDED", k>> \in outbox
  BY DEF Answer
<1>4. \A k \in JobIds : jobs[k].state \in Active => runs[k] \in Active
  BY DEF OutcomeIsWhole
<1> QED
  BY <1>1, <1>2, <1>3, <1>4, OutcomeMoves

\* The sweep ends the runs by an earlier reading of the clock than the jobs.
LEMMA ClaimIsWhole ==
  ASSUME TypeOK, OutcomeIsWhole, NEW a \in Agents, Claim(a)
  PROVE  OutcomeIsWhole'
<1>1. UNCHANGED <<claims, questions, outbox>>
  BY DEF Claim
<1>2. PICK d \in {0, 1}, j \in JobIds :
        /\ JobsSwept(d)[j].state = "QUEUED" /\ JobsSwept(d)[j].attempt < MaxAttempts
        /\ jobs' = [JobsSwept(d) EXCEPT ![j] = Claimed(@, a)]
        /\ runs' = RunsSwept
  BY DEF Claim, Claimable
<1>3. PICK rows \in [JobIds -> Job] : rows = JobsSwept(d)
  BY SweptIsTyped DEF TypeOK
<1>4. \A k \in JobIds : /\ rows[k].state = "COMPLETED" <=> jobs[k].state = "COMPLETED"
                        /\ rows[k].state \in Active => jobs[k].state \in Active /\ jobs[k].expiresIn # 0
  BY <1>3, SweptIsTyped DEF TypeOK
<1>5. Claimed(rows[j], a).state = "RUNNING"
  BY <1>2, <1>3, ClaimedIsTyped DEF TypeOK
<1>6. jobs'[j].state = "RUNNING" /\ rows[j].state = "QUEUED" /\ \A k \in JobIds \ {j} : jobs'[k] = rows[k]
  BY <1>2, <1>3, <1>5
<1>7. \A k \in JobIds : /\ jobs[k].state \in Active /\ jobs[k].expiresIn # 0 => runs'[k] = runs[k]
                        /\ runs'[k] = runs[k] \/ (runs[k] \in Active /\ runs'[k] = "CANCELLED")
  BY <1>2 DEF RunsSwept, FinishedRun
<1>8. \A k \in JobIds : jobs[k].state \in Active => runs[k] \in Active
  BY DEF OutcomeIsWhole
<1>9. \A k \in JobIds : /\ jobs'[k].state = "COMPLETED" <=> jobs[k].state = "COMPLETED"
                        /\ jobs'[k].state \in Active => jobs[k].state \in Active /\ jobs[k].expiresIn # 0
  BY <1>4, <1>6 DEF Active
<1>10. \A k \in JobIds : runs'[k] = "ASSESSED" <=> runs[k] = "ASSESSED"
  BY <1>7 DEF Active
<1> QED
  BY <1>1, <1>7, <1>8, <1>9, <1>10, OutcomeMoves

LEMMA StoreIsWhole ==
  ASSUME TypeOK, OutcomeIsWhole, NEW h \in handlers, ClaimStart(h) \/ RefreshStore(h)
  PROVE  OutcomeIsWhole'
<1>1. h.job \in JobIds /\ UNCHANGED <<claims, questions, outbox>>
  BY Typed DEF ClaimStart, RefreshStore
<1>2. \A j \in JobIds : jobs'[j].state = jobs[j].state
  <2>1. jobs' = [jobs EXCEPT ![h.job].input = h.snapshot] /\ jobs[h.job] \in Job
    BY <1>1, Typed DEF ClaimStart, RefreshStore
  <2> QED
    BY <1>1, <2>1 DEF TypeOK, Job
<1>3. runs' = runs \/ (runs[h.job] \in Active /\ runs' = [runs EXCEPT ![h.job] = "RUNNING"])
  BY DEF ClaimStart, RefreshStore
<1>4. \A j \in JobIds : /\ jobs[j].state \in Active => runs[j] \in Active
                        /\ runs'[j] = runs[j] \/ (runs[j] \in Active /\ runs'[j] = "RUNNING")
  BY <1>1, <1>3 DEF OutcomeIsWhole, TypeOK
<1> QED
  BY <1>1, <1>2, <1>4, OutcomeMoves DEF Active

\* What CompleteAgent records of a job: the one claim it has.
LEMMA Recorded ==
  ASSUME TypeOK, OutcomeIsWhole, NEW h \in handlers, CompleteAgent(h)
  PROVE  \E item \in ClaimItem :
           /\ item.parents = jobs[h.job].input /\ item.assessed = h.snapshot
           /\ h.job \in JobIds /\ jobs[h.job].state = "RUNNING"
           /\ claims'[h.job] = <<item>> /\ claims[h.job] = <<>>
           /\ \A k \in JobIds \ {h.job} : claims'[k] = claims[k]
           /\ questions' = IF item.needsEvidence THEN [questions EXCEPT ![h.job] = "PENDING"] ELSE questions
           /\ outbox' = outbox \cup {<<"INVESTIGATION_RECORDED", h.job>>}
                               \cup (IF item.needsEvidence THEN {<<"CLARIFICATION_REQUESTED", h.job>>} ELSE {})
<1>1. h.job \in JobIds /\ jobs[h.job] \in Job /\ jobs[h.job].state = "RUNNING" /\ h \in Handler
  BY Typed DEF CompleteAgent, HeldBy, Held
<1>2. PICK needs \in BOOLEAN :
        /\ claims' = [claims EXCEPT ![h.job] = Append(@, [attempt |-> h.attempt, parents |-> jobs[h.job].input,
                                                          assessed |-> h.snapshot, needsEvidence |-> needs])]
        /\ questions' = IF needs THEN [questions EXCEPT ![h.job] = "PENDING"] ELSE questions
        /\ outbox' = outbox \cup {<<"INVESTIGATION_RECORDED", h.job>>}
                            \cup (IF needs THEN {<<"CLARIFICATION_REQUESTED", h.job>>} ELSE {})
  BY DEF CompleteAgent
<1> DEFINE item == [attempt |-> h.attempt, parents |-> jobs[h.job].input, assessed |-> h.snapshot,
                    needsEvidence |-> needs]
<1>3. claims[h.job] = <<>>
  <2>1. claims[h.job] \in Seq(ClaimItem) /\ Len(claims[h.job]) = 0
    BY <1>1 DEF TypeOK, OutcomeIsWhole
  <2> QED
    BY <2>1
<1>4. claims' = [claims EXCEPT ![h.job] = Append(@, item)]
  BY <1>2
<1>5. item \in ClaimItem
  BY <1>1 DEF ClaimItem, Job, Handler
<1>6. item.parents = jobs[h.job].input /\ item.assessed = h.snapshot /\ item.needsEvidence = needs
  OBVIOUS
<1> HIDE DEF item
<1>7. claims'[h.job] = <<item>> /\ \A k \in JobIds \ {h.job} : claims'[k] = claims[k]
  BY <1>1, <1>3, <1>4, <1>5 DEF TypeOK
<1>8. /\ questions' = IF item.needsEvidence THEN [questions EXCEPT ![h.job] = "PENDING"] ELSE questions
      /\ outbox' = outbox \cup {<<"INVESTIGATION_RECORDED", h.job>>}
                          \cup (IF item.needsEvidence THEN {<<"CLARIFICATION_REQUESTED", h.job>>} ELSE {})
  BY <1>2, <1>6
<1> QED
  BY <1>1, <1>3, <1>5, <1>6, <1>7, <1>8

LEMMA CompleteAgentIsWhole ==
  ASSUME TypeOK, OutcomeIsWhole, NEW h \in handlers, CompleteAgent(h)
  PROVE  OutcomeIsWhole'
<1>1. PICK item \in ClaimItem :
        /\ h.job \in JobIds /\ jobs[h.job].state = "RUNNING"
        /\ claims'[h.job] = <<item>> /\ claims[h.job] = <<>>
        /\ \A k \in JobIds \ {h.job} : claims'[k] = claims[k]
        /\ questions' = IF item.needsEvidence THEN [questions EXCEPT ![h.job] = "PENDING"] ELSE questions
        /\ outbox' = outbox \cup {<<"INVESTIGATION_RECORDED", h.job>>}
                            \cup (IF item.needsEvidence THEN {<<"CLARIFICATION_REQUESTED", h.job>>} ELSE {})
  BY Recorded
<1>2. PICK j \in JobIds : j = h.job
  BY <1>1
<1>3. jobs'[j].state = "COMPLETED" /\ \A k \in JobIds \ {j} : jobs'[k] = jobs[k]
  <2>1. Finished(jobs[j], "COMPLETED").state = "COMPLETED"
    BY <1>1, <1>2, FinishedIsTyped, Typed DEF Active
  <2> QED
    BY <1>2, <2>1 DEF CompleteAgent, TypeOK
<1>4. runs'[j] = "ASSESSED" /\ \A k \in JobIds \ {j} : runs'[k] = runs[k]
  <2>1. runs[j] \in Active
    BY <1>1, <1>2 DEF OutcomeIsWhole, Active
  <2> QED
    BY <1>2, <2>1 DEF CompleteAgent, FinishedRun, TypeOK
<1>5. questions[j] = "NONE"
  <2>1. Len(claims[j]) = 0
    BY <1>1, <1>2
  <2>2. questions[j] # "NONE" => \E n \in 1..Len(claims[j]) : claims[j][n].needsEvidence
    BY DEF OutcomeIsWhole
  <2> QED
    BY <2>1, <2>2
<1>6. (questions'[j] # "NONE" <=> item.needsEvidence) /\ \A k \in JobIds \ {j} : questions'[k] = questions[k]
  BY <1>1, <1>2, <1>5 DEF TypeOK
<1>7. /\ <<"INVESTIGATION_RECORDED", j>> \in outbox'
      /\ \A k \in JobIds \ {j} : <<"INVESTIGATION_RECORDED", k>> \in outbox' <=> <<"INVESTIGATION_RECORDED", k>> \in outbox
  BY <1>1, <1>2
<1>8. Len(claims'[j]) = 1 /\ claims'[j][1] = item
  <2>1. claims'[j] = <<item>>
    BY <1>1, <1>2
  <2> QED
    BY <2>1
<1>9. (\E n \in 1..Len(claims'[j]) : claims'[j][n].needsEvidence) <=> item.needsEvidence
  BY <1>1, <1>8
<1> QED
  <2>1. SUFFICES ASSUME NEW k \in JobIds
                 PROVE  /\ Len(claims'[k]) = (IF jobs'[k].state = "COMPLETED" THEN 1 ELSE 0)
                        /\ runs'[k] = "ASSESSED" <=> jobs'[k].state = "COMPLETED"
                        /\ jobs'[k].state \in Active => runs'[k] \in Active
                        /\ <<"INVESTIGATION_RECORDED", k>> \in outbox' <=> jobs'[k].state = "COMPLETED"
                        /\ questions'[k] # "NONE" <=> \E n \in 1..Len(claims'[k]) : claims'[k][n].needsEvidence
    BY DEF OutcomeIsWhole
  <2>2. CASE k = j
    BY <1>3, <1>4, <1>6, <1>7, <1>8, <1>9, <2>2 DEF Active
  <2>3. CASE k # j
    <3>1. /\ claims'[k] = claims[k] /\ jobs'[k] = jobs[k] /\ runs'[k] = runs[k] /\ questions'[k] = questions[k]
          /\ <<"INVESTIGATION_RECORDED", k>> \in outbox' <=> <<"INVESTIGATION_RECORDED", k>> \in outbox
      BY <1>1, <1>2, <1>3, <1>4, <1>6, <1>7, <2>3
    <3> QED
      BY <3>1 DEF OutcomeIsWhole
  <2> QED
    BY <2>2, <2>3

LEMMA OutcomeStepIsWhole ==
  ASSUME TypeOK, OutcomeIsWhole, [Next]_vars
  PROVE  OutcomeIsWhole'
<1>1. CASE UNCHANGED vars
  BY <1>1, OutcomeKept DEF vars, tables
<1>2. CASE Tick
  BY <1>2, OutcomeKept, AgedJobsAreTyped DEF Tick, TypeOK
<1>3. CASE \E i \in Incidents : EvidenceChanges(i)
  BY <1>3, OutcomeKept DEF EvidenceChanges, tables
<1>4. CASE EnvironmentChanges
  BY <1>4, OutcomeKept DEF EnvironmentChanges, tables
<1>5. ASSUME NEW a \in Agents, AgentNext(a) PROVE OutcomeIsWhole'
  <2>1. CASE Complete(a) \/ GiveUp(a) \/ Renew(a)
    BY <2>1, OutcomeKept DEF Complete, GiveUp, Renew, tables
  <2>2. CASE Heartbeat(a) \/ Refresh(a)
    <3>1. PICK j \in JobIds : j = agents[a].job /\ jobs[j] \in Job
      BY Typed
    <3>2. \A k \in JobIds : jobs'[k].state = jobs[k].state
      <4>1. \/ jobs' = [jobs EXCEPT ![j].leaseLeft = Least(jobs[j].expiresIn, LeaseTime)]
            \/ jobs' = [jobs EXCEPT ![j].refreshes = @ + 1]
        BY <2>2, <3>1 DEF Heartbeat, Refresh
      <4>2. ASSUME NEW l, jobs' = [jobs EXCEPT ![j].leaseLeft = l] PROVE \A k \in JobIds : jobs'[k].state = jobs[k].state
        BY <3>1, <4>2 DEF TypeOK, Job
      <4>3. ASSUME NEW r, jobs' = [jobs EXCEPT ![j].refreshes = r] PROVE \A k \in JobIds : jobs'[k].state = jobs[k].state
        BY <3>1, <4>3 DEF TypeOK, Job
      <4>4. PICK l, r : l = Least(jobs[j].expiresIn, LeaseTime) /\ r = jobs[j].refreshes + 1
        OBVIOUS
      <4>5. jobs' = [jobs EXCEPT ![j].leaseLeft = l] \/ jobs' = [jobs EXCEPT ![j].refreshes = r]
        BY <4>1, <4>4
      <4> QED
        BY <4>2, <4>3, <4>5
    <3> QED
      BY <2>2, <3>2, OutcomeKept DEF Heartbeat, Refresh
  <2> QED
    BY <1>5, <2>1, <2>2, ClaimIsWhole DEF AgentNext
<1>6. ASSUME NEW h \in handlers, Serve(h) PROVE OutcomeIsWhole'
  <2>1. CASE ClaimRead(h) \/ RefreshRead(h) \/ RefreshUnavailable(h) \/ Fail(h)
    BY <2>1, OutcomeKept DEF ClaimRead, RefreshRead, RefreshUnavailable, Fail, tables
  <2> QED
    BY <1>6, <2>1, StoreIsWhole, CompleteAgentIsWhole DEF Serve
<1> QED
  BY <1>1, <1>2, <1>3, <1>4, <1>5, <1>6, EnqueueIsWhole, CancelIsWhole, AnswerIsWhole DEF Next

-----------------------------------------------------------------------------
(* The theorems. *)

LEMMA JobsInitHold == Init => JobsInv /\ OutcomeIsWhole /\ ParentsWereAssessed
<1> SUFFICES ASSUME Init PROVE JobsInv /\ OutcomeIsWhole /\ ParentsWereAssessed
  OBVIOUS
<1> USE DEF Init
<1>1. jobs \in [JobIds -> Job] /\ agents \in [Agents -> Work]
  BY DefaultsAreTyped
<1>2. /\ \A j \in JobIds : jobs[j].state = "NONE" /\ jobs[j].attempt = 0
      /\ \A a \in Agents : agents[a].pc = "idle"
  BY DefaultsAreTyped
<1>3. TypeOK
  <2>1. 1 \in 1..MaxEvidence /\ 1 \in 1..MaxEnvironment /\ 1 \in 1..MaxGeneration + 1
    BY DiagnosticJobsAssumption
  <2> QED
    BY <1>1, <2>1 DEF TypeOK
<1>4. AttemptInv
  BY <1>2 DEF AttemptInv, OneHandler, OneAwaited, WorkersApart, Reasons
<1>5. \A j \in JobIds : claims[j] = <<>> /\ Len(claims[j]) = 0
  OBVIOUS
<1>6. OutcomeIsWhole
  <2>1. \A j \in JobIds : runs[j] = "NONE" /\ questions[j] = "NONE" /\ <<"INVESTIGATION_RECORDED", j>> \notin outbox
    OBVIOUS
  <2>2. \A j \in JobIds : ~ \E n \in 1..Len(claims[j]) : claims[j][n].needsEvidence
    BY <1>5
  <2> QED
    BY <1>2, <1>5, <2>1, <2>2 DEF OutcomeIsWhole, Active
<1>7. ParentsWereAssessed
  BY <1>5 DEF ParentsWereAssessed
<1> QED
  BY <1>3, <1>4, <1>6, <1>7 DEF JobsInv

LEMMA JobsStepHold == JobsInv /\ [Next]_vars => JobsInv'
<1> SUFFICES ASSUME JobsInv, [Next]_vars PROVE JobsInv'
  OBVIOUS
<1>1. CASE UNCHANGED vars
  <2>1. UNCHANGED <<tables, agents, handlers>> /\ UNCHANGED <<evidence, environment, generation>>
    BY <1>1 DEF vars, context
  <2> QED
    BY <2>1, ContextKeeps DEF JobsInv, TypeOK
<1>2. ASSUME NEW a \in Agents, AgentNext(a) PROVE JobsInv'
  BY <1>2, ClaimKeeps, HeartbeatKeeps, RefreshKeeps, CompleteKeeps, GiveUpKeeps, RenewKeeps DEF AgentNext
<1>3. ASSUME NEW h \in handlers, Serve(h) PROVE JobsInv'
  BY <1>3, ClaimReadKeeps, ClaimStartKeeps, RefreshReadKeeps, RefreshUnavailableKeeps, RefreshStoreKeeps,
     CompleteAgentKeeps, FailKeeps DEF Serve
<1> QED
  BY <1>1, <1>2, <1>3, TickKeeps, EnqueueKeeps, CancelKeeps, AnswerKeeps, EvidenceChangesKeeps,
     EnvironmentChangesKeeps DEF Next

\* The claim CompleteAgent records: its parents are what the agent reasoned about, and that is
\* what the incident's evidence, answers and environment are at this moment.
LEMMA RecordedIsAssessed ==
  ASSUME JobsInv, OutcomeIsWhole, NEW h \in handlers, CompleteAgent(h)
  PROVE  /\ h.job \in JobIds /\ Len(claims'[h.job]) = 1
         /\ claims'[h.job][1].parents = claims'[h.job][1].assessed
         /\ claims'[h.job][1].assessed = Current(jobs[h.job].incident)
         /\ \A k \in JobIds \ {h.job} : claims'[k] = claims[k]
<1>1. TypeOK /\ AttemptInv
  BY DEF JobsInv
<1>2. PICK item \in ClaimItem : /\ item.parents = jobs[h.job].input /\ item.assessed = h.snapshot
                                /\ h.job \in JobIds /\ claims'[h.job] = <<item>>
                                /\ \A k \in JobIds \ {h.job} : claims'[k] = claims[k]
  BY <1>1, Recorded
<1>3. Leased(h.job, h.attempt) /\ h.step = "complete" /\ jobs[h.job].input = Current(jobs[h.job].incident)
  BY HeldIsLeased DEF CompleteAgent, HeldBy, ValidSnapshot
<1>4. jobs[h.job].input = h.snapshot
  BY <1>1, <1>3 DEF AttemptInv, HandlerHolds
<1>5. Len(claims'[h.job]) = 1 /\ claims'[h.job][1] = item
  BY <1>2
<1> QED
  BY <1>2, <1>3, <1>4, <1>5

\* Only CompleteAgent records a claim.
LEMMA OthersRecordNothing ==
  ASSUME [Next]_vars, \A h \in handlers : ~CompleteAgent(h)
  PROVE  claims' = claims
<1>1. CASE UNCHANGED vars
  BY <1>1 DEF vars, tables
<1>2. ASSUME NEW a \in Agents, AgentNext(a) PROVE claims' = claims
  BY <1>2 DEF AgentNext, Claim, Heartbeat, Refresh, Complete, GiveUp, Renew, tables
<1>3. ASSUME NEW h \in handlers, Serve(h) PROVE claims' = claims
  BY <1>3 DEF Serve, ClaimRead, ClaimStart, RefreshRead, RefreshUnavailable, RefreshStore, Fail, tables
<1> QED
  BY <1>1, <1>2, <1>3 DEF Next, Tick, Enqueue, Cancel, Answer, EvidenceChanges, EnvironmentChanges, tables

LEMMA ParentsStepHold ==
  ASSUME JobsInv, OutcomeIsWhole, ParentsWereAssessed, [Next]_vars
  PROVE  ParentsWereAssessed'
<1>1. CASE \E h \in handlers : CompleteAgent(h)
  <2>1. PICK h \in handlers : CompleteAgent(h)
    BY <1>1
  <2>2. /\ Len(claims'[h.job]) = 1 /\ claims'[h.job][1].parents = claims'[h.job][1].assessed
        /\ \A k \in JobIds \ {h.job} : claims'[k] = claims[k]
    BY <2>1, RecordedIsAssessed
  <2>3. SUFFICES ASSUME NEW j \in JobIds, NEW n \in 1..Len(claims'[j])
                 PROVE  claims'[j][n].parents = claims'[j][n].assessed
    BY DEF ParentsWereAssessed
  <2>4. CASE j = h.job
    BY <2>2, <2>3, <2>4
  <2>5. CASE j # h.job
    <3>1. claims'[j] = claims[j]
      BY <2>2, <2>5
    <3> QED
      BY <3>1 DEF ParentsWereAssessed
  <2> QED
    BY <2>4, <2>5
<1>2. CASE \A h \in handlers : ~CompleteAgent(h)
  BY <1>2, OthersRecordNothing DEF ParentsWereAssessed
<1> QED
  BY <1>1, <1>2

LEMMA RecordedStepHolds ==
  ASSUME JobsInv, OutcomeIsWhole, [Next]_vars, NEW j \in JobIds, Len(claims'[j]) > Len(claims[j])
  PROVE  claims'[j][Len(claims'[j])].assessed = Current(jobs[j].incident)
<1>1. Len(claims[j]) \in Nat
  BY DEF OutcomeIsWhole
<1>2. claims'[j] # claims[j]
  BY <1>1
<1>3. PICK h \in handlers : CompleteAgent(h)
  BY <1>2, OthersRecordNothing
<1>4. /\ Len(claims'[h.job]) = 1 /\ claims'[h.job][1].assessed = Current(jobs[h.job].incident)
      /\ \A k \in JobIds \ {h.job} : claims'[k] = claims[k]
  BY <1>3, RecordedIsAssessed
<1>5. j = h.job
  BY <1>2, <1>4
<1> QED
  BY <1>4, <1>5

\* The tables, the agents and the requests stay in their domains: in particular no attempt gets
\* more than its refreshes (SetDiagnosticInput), for every number of jobs, agents and incidents.
THEOREM DiagnosticsStayTyped == Spec => []TypeOK
<1>1. JobsInv => TypeOK
  BY DEF JobsInv
<1> QED
  BY <1>1, JobsInitHold, JobsStepHold, PTL DEF Spec

\* A job has its one claim exactly when it is COMPLETED, and its run, its event and its question
\* agree (CompleteAgent, Cancel, the sweep of ClaimAgentDiagnostic).
THEOREM DiagnosticOutcomeIsWhole == Spec => []OutcomeIsWhole
<1>1. JobsInv /\ OutcomeIsWhole /\ [Next]_vars => JobsInv' /\ OutcomeIsWhole'
  BY JobsStepHold, OutcomeStepIsWhole DEF JobsInv
<1> QED
  BY <1>1, JobsInitHold, PTL DEF Spec

\* CompleteAgent takes a claim's parents from the job's row; they are what the agent reasoned
\* about, whatever attempts, refreshes and late requests came in between.
THEOREM DiagnosticParentsWereAssessed == Spec => []ParentsWereAssessed
<1>1. JobsInv /\ OutcomeIsWhole /\ ParentsWereAssessed /\ [Next]_vars
        => JobsInv' /\ OutcomeIsWhole' /\ ParentsWereAssessed'
  BY JobsStepHold, OutcomeStepIsWhole, ParentsStepHold DEF JobsInv
<1> QED
  BY <1>1, JobsInitHold, PTL DEF Spec

\* When a claim is recorded, what its agent reasoned about is still the incident's current
\* evidence and environment (validateAgentSnapshot in the transaction of CompleteAgent).
THEOREM DiagnosticRecordsCurrent == Spec => RecordedIsCurrent
<1>1. JobsInv /\ OutcomeIsWhole /\ [Next]_vars => JobsInv' /\ OutcomeIsWhole'
  BY JobsStepHold, OutcomeStepIsWhole DEF JobsInv
<1>2. JobsInv /\ OutcomeIsWhole /\ [Next]_vars =>
        [\A j \in JobIds : Len(claims'[j]) > Len(claims[j]) =>
           claims'[j][Len(claims'[j])].assessed = Current(jobs[j].incident)]_vars
  BY RecordedStepHolds
<1> QED
  BY <1>1, <1>2, JobsInitHold, PTL DEF Spec, RecordedIsCurrent
=============================================================================
