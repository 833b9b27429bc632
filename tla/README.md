# A formal model of the SRE control plane

TLA+ modules, TLC configurations and TLAPS proofs for this repository: an
orchestrator that keeps incidents, evidence, approvals and notifications in
PostgreSQL, agents in each cluster that collect evidence and, when an owner has
approved it, replace one unhealthy Pod, and the standalone server and agent that
scan a cluster, propose remediations and serve people.

## The system and its parts

* **Orchestrator** (`pkg/orchestrator`, `cmd/sre-enterprise`): the HTTP API. One or
  more replicas share a PostgreSQL database; `postgres.Store.Transact` runs every
  operation in one transaction under an advisory lock of the scope, so an operation
  on one scope is atomic, and one that returns an error changes nothing.
* **Fleet** (`pkg/fleet`, `storage/postgres/agents.go`). State: an agents row per
  identity (generation, token hash, role, cluster UID, epoch, expiry, revoked),
  single-use bootstrap tokens, revocation records, the authority epoch. Operations:
  Bootstrap, Enroll, Renew, Revoke, AuthenticateTx. The epoch is a hash of the configured
  `SRE_AUTHORITY_GENERATION` (`fleet/service.go:41`, `orchestrator/runtime/run.go:66`), so a
  restart with another generation has another epoch and one without a change keeps it.
* **Execution** (`pkg/execution`, `storage/postgres/actions.go`). State: an immutable
  plan per action and a row that moves NONE -> PROPOSED -> APPROVED -> SUBMITTED ->
  APPLIED | FAILED | AMBIGUOUS, or CANCELLED; an audit log and outbox rows.
  Operations: Propose, Approve, Claim, Receipt, Cancel, Reconcile.
* **Evidence** (`pkg/agent/collection/report.go`, `storage/postgres/items.go`). State:
  versioned items with validity, quarantine and provenance. Operations: Ingest,
  Quarantine, Eligible.
* **Executor agent** (`pkg/agent/executor`). State: a credential file, a journal file
  of attempts, one Poll at a time. Poll flushes receipts, authorizes (enrol or renew),
  lists approved actions and for each one validates, claims, journals, validates,
  dry-runs, validates, deletes the Pod, journals the outcome and sends the receipt.
* **Notification delivery** (`pkg/delivery`, `storage/postgres/notifications.go`).
  State: a row per event and route with lease, attempts and acknowledgement.
  Operations: materialize, escalate, lease, send, finish, acknowledge.
* **Diagnostic jobs** (`pkg/investigation`, `storage/postgres/agent_diagnostics.go`,
  `jobs.go`). State: a job per incident (QUEUED, RUNNING, COMPLETED, CANCELLED)
  with its authority's expiry, a lease, an attempt number and a pinned snapshot of the
  evidence; a run per job. Operations: Enqueue, Cancel, ClaimAgent with its sweeps,
  HeartbeatAgent, RefreshAgent, CompleteAgent. Agents do the work.
* **Collector agent, recovery** (`pkg/agent/collection`, `pkg/recovery`). State: the
  collector's credential, reports on their way, evidence and health samples of an
  incident, its state. Operations: Ingest, AssessTx, Close.
* **Stewardship and knowledge** (`pkg/stewardship`, `pkg/knowledge`). State: claims with
  their lineage, quarantine, golden cases. Operations: Corroborate, Dispute, Adjudicate,
  Publish, Retire, and the investigations that read all of it.
* **Remediation** (`pkg/remediation`). State: a file of proposals, a queue, workers.
  Operations: create, approve, reject, execute, verify, recover at a start, prune.
* **Playbooks** (`pkg/playbook`). State: a catalog of sources, digests, playbooks and
  learned candidates, and settings. Operations: import, lifecycle, resolve, learn.
* **Scanner and scan history** (`pkg/scanner`, `pkg/scanplan`). State: findings with the
  last observation of each. Operations: the analyzers, a scan, its report, retention.
* **Scheduler and standalone agent** (`pkg/scheduler`, `internal/legacyagent`). State: a
  bounded queue of triggers, the overlap gate, announcements made.
* **Standalone server** (`internal/legacyserver`). State: the generation that is served,
  its requests and MCP runs, OIDC challenges, browser sessions, chat sessions.
* **Cache** (`pkg/cache`, `pkg/triage/cached.go`), **plugins** (`pkg/plugin`) and **user
  configuration** (`pkg/config`): a store shared by processes, a child process with a
  client, a file edited by commands.

What is hard here: the executor mutates a cluster that the orchestrator cannot see,
over two unreliable connections, and it may crash between any two of its steps;
agents are revoked, enrolled again and moved while their actions are in flight;
approvals, claims, receipts and reconciliations race; leases expire while the holder
is still working; reports arrive out of order; values are read, a provider or a model is
asked for a minute, and they are used; Start, Stop and Close of one object overlap.
`hazards` in `PROJECT.json` lists the places, with the properties that watch them.

What makes each part correct. *Fleet*: a credential that was replaced, revoked or
belongs to an old epoch never authenticates again. *Execution*: an action moves only
forward, is submitted once, in the cluster it was planned for, and only its claimant
concludes it. *Executor*: at most one delete per action whatever crashes, on the
version that was approved, and a report that is true. *Notifications*: a bounded number
of sends, one sender at a time, settled outcomes stay, everything settles. *Diagnostic
jobs*: what is recorded was assessed by the agent that holds the attempt, on the
evidence that is current; finished jobs stay finished; expired ones end. *Recovery*: an
incident is RECOVERED only on a full window of healthy, undisputed samples of one
credential. *Knowledge*: nothing rests on evidence that is disputed or revoked, nor on a
retired case, when it is committed. *Remediation*: a proposal mutates once and its record is true.
*Playbooks*: a proposal comes from an active playbook within the guardrails. *Scanner and
history*: silence resolves a finding only where somebody looked. *Scheduler*: an accepted
trigger is scanned, a proposal is announced at most once. *Server*: a generation that is shut down
serves nothing; *sessions* end where they were ended. *Cache*: what is served is fresh and
answers the question. *Plugins*: a stopped supervisor has no process. *Configuration*: what a
command writes always loads and what is resolved can be run.

## Modules

| module | models | state and actions |
|---|---|---|
| `Fleet` | `pkg/fleet`, `storage/postgres/agents.go` | `agents`, `bootstraps`, `revocations`, `epoch` are tables; `credentials` remembers every credential ever issued (history); `tokens` counts the random tokens drawn. One action per service method, plus `RotateEpoch` and the clock. |
| `Execution` | `pkg/execution`, `actions.go`, evidence as it reads it | extends `Fleet`. `plans` and `actions` are the two halves of an action row, `events` the audit log, `receipts` counts receipt tokens. One action per service method. |
| `GovernedAction` | nothing: the promise | an action is submitted once, takes effect at most once, and its record is true. |
| `GovernedExecution` | `pkg/agent/executor`, with `Execution`, `Fleet` and the cluster | `pc` is where `Poll` is between two external calls; `journal`, `credential`, `bootFile` are files; `late*` hold calls whose caller is gone; `pods` is the cluster. `issued` and `effect` are history: real deletes sent, and deletes that happened. |
| `Notifications` | `pkg/delivery`, `storage/postgres/notifications.go`, `outbox.go` | `outbox`, `notifications`, `registered` are tables; `since` is what comparing `created_at` with `registered_at` tells; `pc`, `held`, `left`, `delivered` are the variables of a replica's `Dispatch`; `sends` and `received` are history. |
| `DiagnosticJobs` | `pkg/investigation`, `storage/postgres/jobs.go`, `agent_diagnostics.go`, `runs.go`, the agent's `runDiagnostic` | `jobs`, `runs`, `claims`, `questions`, `outbox` are tables; `agents` is where each agent is with its job, attempt and snapshot; `handlers` are the requests the orchestrator is serving, awaited or not; `evidence`, `environment`, `generation` are versions of what a snapshot is checked against. |
| `Recovery` | `pkg/agent/collection/report.go`, `pkg/recovery`, `storage/postgres/recovery.go` | `reports` are the ones the collector made, `received` the ones taken in and the incident each joined; `samples`, `disputed`, `episode` are tables; `verdict` is the assessment of this instant. |
| `Knowledge` | `pkg/stewardship`, `pkg/knowledge`, `items.go`, `lineage.go`, `pkg/investigation/service.go` | `evidence`, `claims`, `contested`, `cases` are tables, `recoveries` the assessments cases rest on; `inquiry` is where an investigation is between its reads and its commit. |
| `Sessions` | `internal/legacyserver` `oidc.go`, `auth.go`, `chat_sessions.go`; the session manager of `pkg/triage/profile.go` | `challenges`, `browsers`, `chats` are the maps; `callback` and `chatter` are the requests in progress; `login` and `out` in `browsers` are history. |
| `Remediation` | `pkg/remediation` | `proposals` is the store; `queue`, `workers`, `approvers`, `recovering` are the engine's goroutines; `target` is the cluster; `sent`, `effect`, `learned` are history. |
| `ProposalPromise` | nothing: the promise | a proposal is approved before anything is done, changes the cluster at most once and only on the version that was approved, and its record is true. |
| `ResultCache` | `pkg/cache`, `pkg/triage/cached.go` | `objects` is what the directory or bucket holds; `cacheLock` is the mutex of each process; `asking` is where each caller is. |
| `Plugin` | `pkg/plugin` | `supervisor`, `client`, `entry` are the structs, `child` the process; `starting`, `stopping`, `calling` are the goroutines between two uses of a mutex. |
| `Playbook` | `pkg/playbook` | the catalog's tables, `settings`, `calls` (the requests in progress); `issued` and `observed` are the engine's proposals and the cluster. |
| `Analyzers` | the analyzers of `scanner.go`, `analyzers_extended.go`, `dynamic_analyzers.go`, `vulnerability.go` | one operator per analyzer, from the facts about an object and the set of reads that fail to issues and an error; `run` is the latest application. |
| `ScanHistory` | `pkg/scanner` `history*.go` and the scan around it | `scans` in progress, `entries` and `coverage` of the history, `uidOf` the cluster; `accepted` is history. |
| `Scheduler` | `pkg/scheduler`, the loop of `internal/legacyagent/main.go`, `pkg/scanplan` | `queue`, `informer`, `consumer`, `periodic`, `gate` are the goroutines and what they share; `scan` is the scan that runs; `proposals`, `recent`, `announced` are about notices. |
| `LegacyServer` | `internal/legacyserver/server.go`, `mcp.go` | `life` is the struct under `lifecycleMu`, `proc` where every caller and watcher is, `net`, `tracker`, `mcp` what they drive. |
| `UserConfig` | `pkg/config`, the commands of `internal/legacyagent/cli.go` | `file` is the document, `client` a process with its copy, `resolved` the runtime configuration. |
| `FleetProofs`, `ExecutionProofs`, `GovernedProofs`, `NotificationProofs`, `DiagnosticProofs` | - | theorems about the module of that name. |
| `AuthorityProofs` | - | theorems about `Sessions`, `Recovery` and `Knowledge`. |
| `ServiceProofs` | - | theorems about `Remediation`, `ResultCache` and `Plugin`. |
| `OperationsProofs` | - | theorems about `Playbook`, `Scheduler`, `UserConfig`, `LegacyServer`, `ScanHistory` and `Analyzers`. |
| `MC*` | - | instances for TLC. |

Abstractions. Token hashes, receipt tokens and plan hashes are numbers that are never
drawn twice. A Pod is its resource version and whether it is unhealthy; a plan pins a
resource version (UID and commitment follow it). Principals and permissions are the
environment: anybody who may call may call at any time. The clock is a counter; all
replicas, agents and the database read the same one. Payloads, wording and
logging are left out. A step of `Poll` is what it does between two calls to the
orchestrator, the API server or the disk. A failed write or call ends the process, as in
`Run`, and the container is started again. A call without an answer may have been
lost, or may arrive at any later time (`LateClaim`, `LateReceipt`, `LateEnroll`,
`LateRenewal`, `LateDelete`).

In `Notifications` a moment of time in a row (`lease_until`, `next_attempt_at`,
`created_at` plus the escalation delay) is a timer that `Tick` counts down, which keeps
the state finite without bounding time. `created_at` and `registered_at` are taken in
the order of the commits; in PostgreSQL they are the starts of transactions, so two
that overlap while they wait for the lock may be ordered the other way. A `Dispatch` is
three steps, the transaction, the request and the second transaction. Its 15 second
context covers all three, but a COMMIT that is on its way when the context ends is
executed all the same, so `Finish` may come at any later time.

In `DiagnosticJobs` what a snapshot holds is two versions, of the incident's evidence
and answers and of the environment with the reviewed guidance; a snapshot is current
when both are. Jobs are numbered in the order of `created_at`, which is the order they
are claimed in. `ClaimAgent` and `RefreshAgent` are several transactions each and so
several steps; an agent that gives up on a request leaves its handler running, and the
handler may still commit. The claim's sweep is one transaction, but its two statements
read the clock separately: `d` in `Claim` is the time that passes between them.

In the modules of the standalone stack a step is what a goroutine does between two
acquisitions of a mutex, two calls of a store or around one call to something external.
`Remediation`: a write of the store may fail, and a mutation may take effect without an
answer; a chmod that fails after the rename (`store.go:398`) counts as a failed write, with the file
ahead of the memory until the next one. Version bumps of a Kind that is neither Deployment nor Pod
(`Nominal`) are accepted unread (`executor.go:139`), done without a mutation (`:553`) and VERIFIED
unread (`:315`). `Playbook`: a content is the action and the target of its step, its confidence and
whether it is grounded, which is what the guardrails read; model answers are any content.
`ResultCache`: an answer is the question it is of and when it was given, and encryption is that an object
opens for its own key. `Analyzers`: an issue is its category; a fact that no analyzer
branches on is left out, and all facts are enumerated. `ScanHistory`: what an analyzer finds is any set
of the ids it reports; the issues of a report are judged in their order (`IssueRank`), each on the
entries the ones before it left. A match by content (`sameSemantic`, `history_report.go:169`) is left
out, and coverage is the namespace and the analyzer: selectors, kinds, names and schema versions
(`history_report.go:90`) only make reports cover less. `Scheduler`: a timer fires at any moment, `RunTrigger`'s scan is one plan. What a scan reports on
(`Covers`) is by the names, namespaces and kinds of its plan as written: a plan of `{Event}` reports
nothing about a Deployment, and one of the family `{Workload}` selects no analyzer
(`contract.go:482`). A scan made for a trigger answers it all the same (`AnsweredBy`).
`UserConfig`: an entry is a name and one value; interval, jitter and token are the settings with
rules, and a flag or variable may be absent, set but empty (`EmptyValue`), malformed or a value. A
file may be the user's own (`UserFiles`): of the old schema, with settings at the top level and nested
ones, of the current one, or of one to come. `Recovery`: the clock is finer than a scan, one report for an instant; a reading is ready, short
(coded Healthy with fewer ready replicas than the minimum), failing or unread, and items are keyed by the
code alone, as in `report.go:104`. `Knowledge`: one
resource and one incident; lineage is the recursive function `LineageOf`, as `lineageSQL`
walks it. An investigation reads its snapshot, its guidance and, in further rounds, a refreshed
snapshot in separate steps. `Sessions`: identifiers are never drawn twice; the text of a conversation is its
turns; an actor is the person, where `auth.go:192` makes a string of the identity, and the local mode
without authentication (`auth.go:43`) is left out. `Plugin`: what `Registry.Close` does after it leaves the
lock (`supervisor.go:455`, `client.go:426`) is one step with what it does under it. `Playbook`:
a FAILED proposal of the engine stands for REJECTED and EXPIRED ones too, none of which is learned from.
`Fleet`: an epoch that was left does not return; the operator could bring one back by setting
`SRE_AUTHORITY_GENERATION` to an earlier value.

Operators under a comment that starts with "Fault:" are not part of the model: each is
a plausible bug of the definition it stands next to, and the property it must break
is listed under `mutants` in `PROJECT.json`.

## Runs

| run | configuration | shows |
|---|---|---|
| `execution` | `MCExecution.cfg` | callers with any credential ever issued, two clusters, two epochs: an action is submitted in one cluster and concluded only by its claimant |
| `governed` | `MCGovernedPair.cfg` | one action, two failures, late calls, a revocation, a new epoch; and two actions in one Poll with a journal of one attempt: at most one delete, open attempts on disk, no delete after reconciliation, and the refinement of `GovernedAction`, in which outcomes are true |
| `flushed` | `MCGovernedLive.cfg` | liveness, with a credential that must be renewed in every Poll: open attempts are acknowledged |
| `delivery` | `MCNotifications.cfg` | 2 replicas, a route and the one it escalates to, any number of crashes: bounded, justified and truly recorded sends by one replica at a time; events settle and silence escalates |
| `diagnosis` | `MCDiagnosticJobs.cfg` | 2 agents, 1 job, 3 attempts, refreshes, a changing environment, late handlers: one claim, for what its agent assessed, on current evidence; jobs and runs end together |
| `authority` | `MCAuthority.cfg` | credentials of agents (`Fleet`), sessions of people (`Sessions`), an incident's recovery (`Recovery`), lessons and their evidence (`Knowledge`) |
| `operations` | `MCOperations.cfg` | playbooks, scan history, analyzers, scheduler, server and configuration |
| `services` | `MCServices.cfg` | remediation engine, result cache, plugin host |
| `reenroll` | `MCGovernedReenroll.cfg` | a violation: the documented re-enrolment gets stuck (below) |
| `expiry` | `MCDiagnosticJobsExpiry.cfg` | a violation: an expired job stays active (below) |
| `interrupted` | `RemediationInterrupted.cfg` | a violation: an interrupted mutation that is never failed (below) |
| `closed` | `PluginClose.cfg` | a violation: a process under a closed supervisor (below) |

`authority`, `operations` and `services` each ask one question of several components that
share no state: the variable `part` says which of them moves, and the others stay in their
initial states. The states are those of the components one after the other, and nothing
of their product. Where components do share state (control plane, executor and cluster;
jobs, agents and handlers; scans and history) one module has all of it.

What the properties of the joint runs say, in short:

* `CredentialsAreSound`, `RetiredStaysRetired`: one token per generation, one credential
  per bootstrap, only the last one accepted, revocations that cover; what is retired stays so.
* `OneSessionPerLogin`, `SignedOutStaysOut`, `ConversationIsWhole`: a callback sent twice
  makes one session; no request that comes after a sign-out is let in by its cookie;
  a chat's turns are of its owner, and each was asked with the turns before it.
* `RecoveredIsSustained`: a verdict RECOVERED rests on a chain of healthy, undisputed reports of
  one credential with enough ready replicas over the window, and no report taken in says otherwise of that
  time. One exception is the code's: a report coded Healthy with too few ready replicas that comes
  after a newer Healthy one is skipped by its code (`report.go:121`) and does not count.
* `EligibleIsSound`, `CommitsAreSound`: an eligible claim rests on nothing disputed or revoked,
  also through the cases that guided it, and a claim is committed only on what still holds then.
* `ProposalsAreGrounded`, `ImportIsOne`, `LearnedIsVerified`: a proposal is of a playbook
  that people activated and within the floors (that settings and lifecycle are read again
  right before the proposal, `resolve.go:91`, only narrows a window that stays open, and no property
  depends on it); the stored playbook is the normal form
  of the stored digest; only a verified outcome is learned from.
* `SeenStaysActive`, `RemovedStaysRemoved`, `SilenceIsAnObservation`: the latest look at a finding
  decides, whatever order reports arrive in (the first of them while the reports agree on the
  identity of the object, see below); an analyzer that could not look says so.
* `NoTriggerLost`, `AnnouncedOnce`: an accepted trigger is in the queue or the batch until a later scan
  reports on its object or is the scan made for it; a proposal is announced at most once. A process
  that dies between storing and announcing one (`main.go:1089`, `:1102`) leaves it unannounced. Under a
  base plan of kinds `{Event, Pod}` the Warning about a Deployment is accepted, and the scan it
  leads to reports nothing about the Deployment: no trigger is lost, and nothing is found.
* `ShutdownIsQuiet`: once Shutdown returned without an error no request of its generation is
  in its handler.
* `FileIsSound`, `ResolvedIsUsable`: the file is the user's own or one that loads and holds no
  secret; what resolution accepts has a positive interval, a shorter jitter, and requires the API token
  exactly when the first source that has its key says true or cannot be parsed. A key that is set
  but empty says no (see the findings).
* `MutatedAtMostOnce`, `ProposalOutcomeIsTrue`, `OneActiveProposal`: one mutation per proposal, a
  record that does not claim more than happened, but for the nominal version bumps, and one open
  proposal per issue.
  `KeepsProposalPromise`: every step is a move of `ProposalPromise` or none, so what
  takes effect was approved and finds the version that was approved.
* `ServedIsFresh`, `NearlyBounded`: a hit is unexpired and of the same question; the limit is
  exceeded by at most one entry per other process.
* `StoppedIsClean`, `NoConnectionLeaks`: a stopped supervisor has no child and a closed client;
  a closed client has no connection, also of a dial that ends after Close.

Bounds. Every counter has a bound in the guard of the action that raises it
(`MaxTime`, `MaxTokens`, `MaxGeneration`, `MaxEpoch`, `MaxEvidence`, `MaxTarget`,
`MaxPolicy`, `MaxFaults`). One action is enough for everything that concerns the life
of an action, because rows are independent; what two actions share, the Pod and the
journal, is covered by the proofs for any number of them, and by the second setting of
`governed`, in which two actions meet in one Poll and the journal is full. Two failures are enough for a crash in one step and a lost call
in another one of the same action. Renewals and re-enrolment happen in `flushed`, whose
credential must be renewed in every Poll; for the safety properties the proofs cover them. Time has enough ticks for a plan, an approval, a
credential and a Poll to expire before or after a reconciliation is due. Because the
clock and the tokens are bounded a behaviour may stop, so deadlock is not checked there.
`Notifications` has no such bounds and its runs check deadlock: attempts and timers are
finite by themselves. Two replicas are needed for a lease to be taken over, two
attempts for a late finisher to meet the next one; the safety part is proved for any
number of them. Lease, context and escalation times
keep the order they have in the code (`DispatchTimeout < LeaseTime`).
`DiagnosticJobs` counts time down as `Notifications` does; what is bounded is how many
jobs are enqueued (`MaxJobs`), claims of a job (`MaxAttempts`), versions
(`MaxEvidence`, `MaxEnvironment`, `MaxGeneration`) and handlers an agent left behind
(`MaxLate`). Two agents and three attempts let a lease be lost and its job be claimed
by the other agent and by the first one again, with one late handler of each; two
versions suffice to tell a stale snapshot from a current one, and with two versions one
refresh, instead of two, is the limit that is met. Deadlock is checked: an
engineer, an agent or the clock can always move.
In the joint runs: two workers, which are interchangeable (`SYMMETRY`), a queue of one and two
proposals let both be executed at once and the queue be full; the four issues are one of each kind,
ordinary, protected, manual and nominal; one restart and one failing write let each come at every step. A target is changed once by others, and
beyond that only by the mutations themselves, so a stale proposal is executed against an object that could take its mutation. Two
processes over one store and a limit of one entry let the limit be passed. Two starters, two stoppers and two
calls let every pair of plugin operations overlap; two starts of a server let
the watcher of one generation meet the next one. Two scans are enough for one to overtake
the other, with an object that is replaced once and two findings about it, one of which the
optional analyzer reports alone. Three plans, one of a name and a family of kinds, one of kinds and
namespaces and one that only leaves a namespace out, make scans that report on an object and
scans that do not. Two commands at a time and three in
all let an edit, a migration and a kill meet, over files with settings at both levels, a key,
a missing default, an interval that cannot be parsed and an unknown schema. For a recovery, a window of one tick, two
samples and three ticks let a late, a partial, a short and a disputed report fall inside; readings that
fail altogether, which break a window as failing ones do, are left to the proof. One claim, a
corroboration and a case need three claims; one dispute or one revocation
(`MaxSetbacks`) comes at any step; items have one version, so that a commit is on the latest of several rests on the
proof; three credentials let the collector enroll again after it. Facts of
`Analyzers` are enumerated completely. Behaviours end when a counter is used up, so these
runs do not check deadlock.
The part `fleet` of `authority` starts with nobody enrolled; the runs of `Execution` and `GovernedExecution`
start with the agents' bootstraps consumed, as the first states are
the same whatever the order of the first enrolments.

Fairness. `FairSpec` has weak fairness of `PollNext`: the container is restarted, `Run`
polls every interval, every call has a deadline and either answers or ends the process.
Nothing is assumed of people, of the clock or of late calls.
`Notifications!FairSpec`: time passes; a `Dispatch` that has begun ends, because its
context does; a replica that is down registers its routes and starts; and, as `Run` goes
round the routes every 5 seconds, no route is passed over for ever (strong fairness,
since a crash may come at any time before it). Crashes are unlimited and nobody has to
acknowledge anything. `DiagnosticJobs!FairSpec`: time passes; every agent that is
idle asks for work, as `RunDiagnostics` does every two seconds; an attempt ends when its
context does; a request that is being served ends. Nothing is assumed of engineers, so a job that needs one to end does not count as ending.

### The findings

*Re-enrolment.* `docs/enterprise-deployment.md:66` describes re-enrolment (stop the agent, replace its
private credential file, update the bootstrap Secret, restart) and asks to preserve
unresolved journal records. `Poll` (`action.go:62-71`) flushes unacknowledged attempts
before it authorizes and returns `ErrReenrollment` without a valid credential, so an
executor with such a record exits in every Poll and never reads the new bootstrap. The
receipts could not be accepted anyway, since they are bound to the old generation. Run
`reenroll` shows the loop.

*A sweep that is rolled back.* `ClaimAgentDiagnostic` first cancels the jobs whose
authority expired ("Expired authority is terminal", `agent_diagnostics.go:33`) and then
looks for one to claim. When there is none it returns `ErrNotFound`, which
`ClaimAgent` (`agent.go:45`) returns from its `Transact` callback, and `Transact` rolls
back on every error (`transaction.go:36`): the sweep is undone. The last expired job of an
application stays active however often agents ask (run `expiry`); its incident cannot
get a new job, and it holds one of the eight places, until an engineer cancels it or
another job is claimed.

*An interrupted mutation that expired.* `recoverApprovedWork` (`engine.go:236`) looks at
expiry first and `continue`s for every expired proposal, also for one that is EXECUTING,
which only the lines after it would fail ("Keep the durable record failed and require
reconciliation", `engine.go:258`). The record stays EXECUTING, blocks its issue and is never
pruned (run `interrupted`).

*A process under a closed supervisor.* `Close` calls `Stop` and then sets the state in a
critical section of its own (`supervisor.go:574`). A `Start` in between launches a child,
and no later call stops it (run `closed`), where the comment promises that Close "stops the
process if necessary".

Met while modelling, and not a run of its own:

*Two clocks in one sweep.* The sweep ends the runs of expired jobs in one statement and
the jobs in another, each with its own `clock_timestamp()`
(`agent_diagnostics.go:35`, `:39`). A job that expires in between is cancelled and its run
is not, and nothing ends that run afterwards. It takes a claim at the very
moment of expiry; `OutcomeIsWhole` says only that an active job has an active run.

*A blank security toggle.* `boolValue` reads a flag or variable that is set but empty as false, and the
source that has the key overrides the file (`profile.go:909`, `:996`): a blank `SRE_REQUIRE_API_TOKEN`
turns off what the file requires. `getEnvBool` reads the same value as true ("A malformed security
toggle must not silently disable protection", `config.go:473`), and a test asks for that of a blank
one (`config_test.go:497`). `ResolvedIsUsable` states what `ResolveConfig` does.

*A bump without an effect.* `executeVersionBump` does nothing for a Kind other than Deployment and Pod and
returns success (`executor.go:553`); `Verify` says VERIFIED without a read (`:315`), and the success is
learned from. `ProposalOutcomeIsTrue` and `ProposalPromise` name this case.

*The epoch.* `docs/enterprise-deployment.md:64` says that every start creates a new random
authority epoch; the code hashes the configured generation (`fleet/service.go:41`) and keeps the epoch
over a restart that does not change it.

## Proofs

All theorems hold for every value of the constants that satisfies the named assumptions
(the `ASSUME` of each module): any number of identities, actions, items, tokens, epochs,
jobs, proposals, sessions, scans and failures, any time-outs, with `PollTimeout <= ReconcileAfter`,
`RenewBefore <= CredentialTTL` and `DispatchTimeout < LeaseTime` as in the code. The others say that
bounds are natural numbers, that limits, lifetimes and intervals are positive, that a model value
such as `NoRow`, `Nothing` or `None` is none of the values it stands beside, that what is
given to a component is of its kind, and for the cache that its processes are finitely many.

`FleetProofs`. The inductive invariant `FleetInv` adds to the properties that tokens in
the tables were drawn (`DrawnTokens`), that no row is of a future epoch, that a row's
generation bounds the generations handed out (`GenerationBounds`), that the row which
stores a credential's token is that credential (`RowIsCredential`) and that a
credential's bootstrap is consumed. Without the bounds a new enrolment could reuse a
generation. From it follow uniqueness, single use, coverage of revocations and, as an
action property, that a credential which no longer authenticates never does again.

`ExecutionProofs`. Each operation writes one row and appends its state to the log
(`Writes`); `MoveKeepsTrail` shows once that such a write along an allowed move keeps the
log complete and forward, and every operation is an instance. `ExecutionInv` adds that an
action has a log exactly from its proposal on. `PlansPin` is what `Claim` relies on when it
compares generations and versions and nothing else: generations and versions only grow
(`AgentsAge`), so while they are the pinned ones the executor is in the plan's epoch, the
item is the collector's and both agents are in one cluster. From it follow, as action
properties, `SubmissionsStayInOneCluster` and `OutcomesComeFromClaimants`.

`GovernedProofs`. `GovernedInv` joins the types, the two invariants above and `SafetyInv`,
whose parts say what is true between two steps of `Poll`: an action that was never
claimed has no attempt, no delete and no effect (`UntouchedUntilClaimed`); a delete was
sent only from the journalled attempt in hand (`AttemptInHand`) and once (`SentOnce`);
every receipt, in the journal, on its way or late, is true of the cluster
(`ReportsAreTrue`); an acknowledged attempt is of a concluded action
(`AcknowledgedIsClosed`), so the journal's compaction drops nothing that is open; a Poll
has not outlived its deadline (`Punctual`), which with `PollTimeout <= ReconcileAfter`
separates its delete from a reconciliation; and a Pod's version only grows, so a pinned
version that was replaced never comes back (`Replaced`, `PinnedSick`). None of the
properties is inductive alone: a delete is unique because its attempt is, and a recorded
outcome is true because the report it came from was. `PromiseIsKept` is the refinement of
`GovernedAction`, initial states and each step, from the same invariant.

`NotificationProofs`. `NotificationsInv` adds to the properties that attempts in hand
were counted (`Holders`) and are in one hand (`OneHolder`), that while a replica may send
its row is SENDING under its attempt with a lease that outlives its context (`LiveLease`),
and that a send is counted before it happens (`SendCount`). `LiveLease` is the heart: it
needs `DispatchTimeout < LeaseTime`, and from it follows that no other replica can lease,
fail or finish the row in the meantime.

`DiagnosticProofs`. `JobsInv` is the types and `AttemptInv`: an attempt is carried by its
agent or by one request, never by both nor by two (`OneHandler`, `WorkerHolds`,
`WorkersApart`), and while the row is leased to that attempt its input is what the carrier
read, also when the request is one that nobody waits for any more. `OutcomeIsWhole`, over
the five tables that one transaction writes, is inductive with it, and then
`DiagnosticParentsWereAssessed` and the action property `DiagnosticRecordsCurrent` follow.

`AuthorityProofs`, about sessions. `SignInInv`: a login state whose challenge was not taken has no
callback and no session, and one that was taken has at most one of the two
(`LoginsHold`), because the challenge is deleted before the lock is left. `TalkInv`: while a
question is with the model, its asker holds the session's lock and its prompt is that of the
turns there are (`ChatterHolds`), so the turn that is appended fits.

`AuthorityProofs`, about recovery. `RecoveryInv`: every sample is that of a report taken in for its
incident, and every reading with a code of health that was taken in has a sample, its own or a newer
one of the same code; so a short reading, whose code is that of a ready one, may be the only one
without a sample. What is left is the loop of `AssessWindow`, for any number of samples:
`HealthSamples` lists the rows from the newest to the oldest without leaving one out
(`SamplesInOrder`), the loop has a value after every sample (`WalkExists`, `WalkSteps`), and while it
goes on every sample so far was complete, healthy, of the first one's generation and within the gap
of the one before (`WalkHoldsAll`). The samples up to the one that ends it are the chain
that `RecoveredIsSustained` asks for.

`AuthorityProofs`, about knowledge. `KnowledgeInv`: a claim refers to claims before it (`Founded`), a
case is about a claim that was made (`CasesAreMade`), what guided a claim is such a case (`GuidesAreCases`), and
the case's claim and recovery are among the historic edges of the claim it guided (`Guided`), which is what
`linkGuidance` records. Hence `LineageOf`, which the code computes, covers all that
`RestsOn` defines, a claim and a case at a time, and a new claim does not change the
lineage of the older ones. `EligibleIsSound` and the action property `CommitsAreSound` follow.

Both are about recursive functions, and the induction theorems of the library cannot be
applied. The proofs take the least counterexample instead: a set of natural numbers that is not empty has a
least member (`LeastNat`, from the well-founded order on them), and the definition of the function,
once it is shown to have one (a CHOOSE needs a witness, which is the same
argument again), gives a smaller one.

`ServiceProofs`. `RemediationInv`: what a worker executes is EXECUTING, in no other hand and not
in the listing recovery works off (`ExecutingInOneHand`, `SnapshotHolds`), and nothing was sent
before (`UnsentBefore`); at most one mutation per proposal follows, and the truth of the
record from the truth of the result in hand (`HandsAreTrue`), which for manual and
nominal ones asks for no effect. `ProposalPromiseIsKept` is the refinement
of `ProposalPromise`, each action a move of one proposal or none; it also needs `TargetsAge`, that no
proposal is about a version that is still to come: without it a target that was
replaced could become the approved one again. `CacheInv`: an object is the
answer to the question of its digest and expires a TTL after it was given, and the digests stored
*or about to be written* are at most the limit and one for every further process
(`CapacityHolds`): counting stored objects alone is not inductive. `PluginInv`: one Start and
one terminating Stop at a time, and the connections are the installed one and the one about to be.

`OperationsProofs`. `PlaybookInv` ties what a request remembers between two calls to catalog rows
that are never replaced (`Grows`, `CallsHold`). `SchedulerInv`: a pending trigger has its consumer woken
or about to be (`PendingIsAwake`), every trigger not yet answered is pending or in the batch
(`UnscannedIsTaken`), and
what was announced is on record and known to the scan under way. `ConfigInv`: a document in
a command's hands is sound before it is written. `ServerInv`: the slot is one caller's, and a generation
that is over is *settled*: no request is in its handler and none can enter any more.
`HistoryInv` is about what entries, coverage and reports have to do with each other:
starts are apart, no report's coverage is lost but to a newer one alike (`CoverageHolds`), an
active entry is of the report it is dated by and no newer report covers it (`EntriesHold`),
and whatever was seen at a time has an active entry from then on or a report that looked and saw
nothing (`FindingsAccounted`). The last one is needed for stale issues: one is dropped because of
an entry or a coverage that accounts for it. The issues of a report are judged in turn: `FreshMeans` says what
being fresh means when the entries are the ones the issues before it left. `SilenceIsAnObservationThm` is about one application of an
analyzer: `Observes`, which says that a result has all that a run with every read would have, or an error, is
shown of each way analyzers are put together, and so of each analyzer, for any facts and any failing
reads, where the run enumerates the facts of the model.

What the proof of `SeenStaysActive` showed. An earlier form of the property, without the premise
`OneIdentity`, passed on one finding and two scans and is false on more. With two findings
about one object, the rule that a newer observation of another UID makes an issue stale
(`history_report.go:144`, "A newer positive observation identifies the object") also counts entries
whose time was last set when they were *resolved*, and scans that started later but learned the older
UID, so a finding is dropped that nothing contradicts. With three scans, an older report that has the
finding under another identity, one of the two without a UID, takes over the entry of a newer
report and sets its time back (`history_report.go:193`, `:207`), and a scan between the
two then resolves it. Both need reports that disagree on the identity of one object, so the
property now says what holds when they agree; TLC checks it on two findings, and
`HistoryKeepsSeen` proves it for all. `RemovedStaysRemoved` needs no such premise.

`CredentialsAreSound` and `DeliveryIsSound` gather parts that are proved one by one and follow
from the same invariants (`SoundCredentials`, `SoundDelivery`). Some theorems state what no
run checks, because they hold for every instance: `TrailsMoveForward`, `ConcludedActions`,
`PlansStayPinned`, `DeletesUnhealthyOnly`, `PodsAreReplacedOnce`, `SettledStays`,
`DiagnosticsStayTyped`.

What the proof of `RecoveredIsSustained` showed. The turn of the loop was written as a CASE whose arms
overlap. TLC takes the first arm that applies, as the code does; in TLA+ such a CASE may take any of
them, and no proof goes through. It is a chain of IFs now, in the order of `service.go:43`.

`RecordedOutcomeIsTrue` is proved and not among the properties of `governed` any more:
`KeepsPromise`, which that run checks, allows APPLIED only with an effect, FAILED only without
one, and no effect after it.

Only model-checked: liveness (`ReceiptsAreFlushed`, `EventsSettle`, `SilenceEscalates`), which is
beyond the prover as ENABLED is. The four properties that are violated have no theorem. Every
other property of a run is stated by a theorem. No module that theorems are about declares a
RECURSIVE operator: recursion is in recursive functions, and logs are described by what may follow what.

## Hazards beyond the list

`hazards` in `PROJECT.json` has the ones that properties are for. Reading the code also
showed these, which no property is about; most need timing, a second clock or I/O that the
models leave out.

* Diagnostic jobs: the oldest job is always claimed first, so one whose snapshot cannot be
  built is claimed again after each lease until it expires (`agent_diagnostics.go:47`).
* Server: readiness is cleared outside the lock (`server.go:974`), so a server that was started
  again may serve and answer that it is not ready; `Start` replaces the map of MCP runs.
* Scheduler: after the lease is lost the loop never scans again; `KubernetesLease.Run` does not
  wait for what it cancelled; an issue that recurs is never announced again (`main.go:1048`).
* Analyzers: `scanClusterSecurity` drops the error of a read (`vulnerability.go:220`, `:251`), so
  its silence is not an observation: it is the exception `Silent` in the model. `scanStorage`
  applies the plan's selector to claims (`analyzers_extended.go:975`), and an ingress
  looks services up by name only.
* Playbooks: a crash between `SaveDigest` and `SavePlaybook`, or after the latter, leaves an import
  that only a repetition completes; `ListActive` applies its limit before the exact binding.
* Cache: expired entries count toward the limit; a remote discard of what a reader
  found spoiled may remove a fresh Put.
* Plugins: `Registry.Close` goes on after a failure; it keeps the first plugin whose client
  failed to close and forgets the later ones (`registry.go:279`).
* Remediation: an approval is durable although its enqueue was given up; only a restart picks it up. The directory is not synced after the rename (`store.go:365`).
* Configuration: two commands that load the same file lose one edit; the migration drops
  nested numbers and booleans, a required API token among them (`profile.go:1502`).
* Sessions: Close while a Send waits; `PurgeExpired` holds the manager's lock; `ensureVerifier` holds
  the write lock over discovery; the session query may be cut inside its marker.
* History: Falco alerts are invisible as soon as the history is not empty.

## Plan

What is left, in this order:

1. An abstract history of findings (what is seen, answered and forgotten, by the start of scans
   alone) and `ScanHistory` as its implementation, from `HistoryInv`.
2. An abstract incident that is closed only by a full window, and `Recovery` as its
   implementation, from `RecoveryInv`.
3. Liveness of the scheduler (a trigger is eventually scanned while the process lives) and of
   the remediation queue.
4. The clarifications that engineers ask, with their expiry, and the collector's spool.

## Not modelled

* The policies of `pkg/authorization` are stateless checks: the models let everyone who could be
  permitted call at any time. The rate limiter and `ProfileStore` are state of their own that
  nothing here depends on.
* Prompt construction, provider adapters and fallbacks (`pkg/triage`), the sanitizer, output and
  evaluation are text processing; a model's answer is any answer.
* Webhooks, integrations, notifiers and inbound messages are adapters to external
  services; metrics are counters; a support bundle is an archive.
* Migrations, HTTP and gRPC plumbing and the generated protobuf code; read-only endpoints change
  nothing.
* The commands under `cmd` are flag parsing and wiring.

`components` in `PROJECT.json` has every part with its status.
