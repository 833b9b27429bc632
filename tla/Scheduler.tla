----------------------------- MODULE Scheduler -----------------------------
(***************************************************************************)
(* The scanning loop of the standalone agent (pkg/scheduler and            *)
(* internal/legacyagent): the periodic runner, the informers that turn     *)
(* changes of Pods and Warning Events into triggers, the bounded queue     *)
(* that coalesces them, its one consumer, the overlap gate the two share,  *)
(* the leader election around them, and the announcement of the proposals  *)
(* a scan creates.                                                         *)
(*                                                                         *)
(* An Enqueue is two steps: the insertion under the mutex and the token in *)
(* the notify channel.  Durations are abstracted: a timer may fire at any  *)
(* moment, within MaxPeriods periodic scans per process.  The objects are  *)
(* namespaced ones, and the API versions of a trigger are left out.        *)
(***************************************************************************)
EXTENDS Naturals, Sequences, FiniteSets, SequencesExt, FiniteSetsExt

CONSTANTS Objects,      \* Kubernetes objects: [kind, ns, name]
          Warnings,     \* Warning Events: [kind, ns, name, about], about an object
          BasePlans,    \* configured scan plans: [include, exclude, kinds, names]
          Capacity,     \* EventQueueCapacity
          Debounces,    \* the EventDebounce values: does the consumer wait?
          MaxChanges, MaxPeriods, MaxProcesses

ASSUME SchedulerAssumption ==
  /\ Capacity \in Nat \ {0} /\ MaxChanges \in Nat /\ MaxPeriods \in Nat /\ MaxProcesses \in Nat \ {0}
  /\ Debounces \subseteq BOOLEAN

NoTarget == [kind |-> "none", ns |-> "none", name |-> "none"]

\* A plan is its four selections.
ASSUME PlanAssumption ==
  /\ BasePlans # {}
  /\ \A p \in BasePlans : p = [include |-> p.include, exclude |-> p.exclude, kinds |-> p.kinds, names |-> p.names]

Pods == {o \in Objects : o.kind = "Pod"}
Trigger(o, target) == [kind |-> o.kind, ns |-> o.ns, name |-> o.name, target |-> target]

VARIABLES
  base,        \* cfg.ScanPlan()
  debounces,   \* the debounce is longer than zero
  agent,       \* live (the context of the loop), and how many processes, changes and periods there were
  queue,       \* pending triggers, and whether notify holds a token
  informer,    \* for each informer: triggers still to enqueue, and a token it has still to send
  consumer,    \* at, the rest of the batch
  gate,        \* who holds Runner.running
  periodic,    \* where Runner.Run is
  scan,        \* the running scan: at, plan, todo and of (issues), known
  unscanned,   \* accepted triggers that no scan begun since answers
  proposals,   \* objects with a proposal in the store
  recent,      \* recentNotifications
  announced    \* how often the proposal on record of an object was announced

schedVars == <<base, debounces, agent, queue, informer, consumer, gate, periodic, scan, unscanned,
               proposals, recent, announced>>
conf == <<base, debounces>>
notices == <<proposals, recent, announced>>

NoScan == [at |-> "none", plan |-> CHOOSE p \in BasePlans : TRUE, todo |-> {}, of |-> NoTarget, known |-> {}]
Informers == {"pods", "events"}
Quiet == [i \in Informers |-> [todo |-> <<>>, waking |-> FALSE]]
Empty == [pending |-> {}, token |-> FALSE]
Waiting == [at |-> "idle", batch |-> {}]

SchedulerInit ==
  /\ base \in BasePlans /\ debounces \in Debounces
  /\ agent = [live |-> TRUE, starts |-> 1, changes |-> 0, periods |-> 0]
  /\ queue = Empty /\ informer = Quiet /\ consumer = Waiting
  /\ gate = "free" /\ periodic = "initial" /\ scan = NoScan
  /\ unscanned = {} /\ proposals = {} /\ recent = {}
  /\ announced = [o \in Objects |-> 0]

-----------------------------------------------------------------------------
(* Plans. *)

IncludesNamespace(p, ns) == ns \notin p.exclude /\ (p.include = {} \/ ns \in p.include)

Families == [Workload |-> {"Deployment", "StatefulSet", "DaemonSet", "ReplicaSet", "Job", "CronJob"},
             Storage |-> {"PersistentVolume", "PersistentVolumeClaim", "StorageClass"}]
TriggerKindAllowed(kinds, k) == k \in kinds \/ \E f \in DOMAIN Families : f \in kinds /\ k \in Families[f]
KindWanted(p, k) == p.kinds = {} \/ TriggerKindAllowed(p.kinds, k)

TriggerNameAllowed(p, t) ==
  p.names = {} \/ t.name \in p.names \/ (t.kind = "Event" /\ t.target.name \in p.names)

\* The object a trigger is about: the event's involved object, or the object itself.
Involved(t) == IF t.target = NoTarget THEN [kind |-> t.kind, ns |-> t.ns, name |-> t.name] ELSE t.target
AffectedKinds(t) == {Involved(t).kind} \cup (IF "Event" = t.kind \/ Involved(t).kind = "Pod" THEN {"Event"} ELSE {})

TriggerInScope(p, t) ==
  /\ IncludesNamespace(p, Involved(t).ns)
  /\ KindWanted(p, Involved(t).kind) \/ KindWanted(p, t.kind)
  /\ TriggerNameAllowed(p, t)
  /\ \E k \in AffectedKinds(t) : KindWanted(p, k)

\* The names go: the analyzers of the object read its dependencies too.
PlanForTrigger(p, t) ==
  [p EXCEPT !.kinds = {k \in AffectedKinds(t) : KindWanted(p, k)},
            !.names = {},
            !.include = IF @ = {} THEN {Involved(t).ns} ELSE @]

\* What a scan with a plan reports on.  A finding carries the kind of the object it is
\* about, also when an Event gave it, and a plan with kinds keeps the findings of exactly
\* those kinds: {Event} none about a Deployment, {Workload} none at all.
Covers(p, o) ==
  /\ IncludesNamespace(p, o.ns)
  /\ p.kinds = {} \/ o.kind \in p.kinds
  /\ p.names = {} \/ o.name \in p.names

-----------------------------------------------------------------------------
(* The informers and the queue. *)

\* A change reaches an informer's handler.
Offers(i, triggers) ==
  /\ agent.live /\ agent.changes < MaxChanges
  /\ informer[i].todo = <<>> /\ ~informer[i].waking
  /\ informer' = [informer EXCEPT ![i].todo = triggers]
  /\ agent' = [agent EXCEPT !.changes = @ + 1]
  /\ UNCHANGED <<conf, queue, consumer, gate, periodic, scan, unscanned, notices>>

EnqueuePod(o) == Offers("pods", <<Trigger(o, NoTarget)>>)

\* A Warning gives a trigger for the Event and one for the object it involves.
EnqueueEvent(e) == Offers("events", <<Trigger(e, e.about), Trigger(e.about, NoTarget)>>)

\* What the filter refuses is not enqueued.
PassesFilter(t) == TriggerInScope(base, t)

Accepts(t) == PassesFilter(t) /\ (t \in queue.pending \/ Cardinality(queue.pending) < Capacity)

Enqueue(i) ==
  LET t == Head(informer[i].todo)
  IN  /\ informer[i].todo # <<>> /\ ~informer[i].waking
      /\ IF Accepts(t)
           THEN /\ queue' = [queue EXCEPT !.pending = @ \cup {t}]
                /\ unscanned' = unscanned \cup {t}
           ELSE UNCHANGED <<queue, unscanned>>
      /\ informer' = [informer EXCEPT ![i] = [todo |-> Tail(@.todo), waking |-> Accepts(t)]]
      /\ UNCHANGED <<conf, agent, consumer, gate, periodic, scan, notices>>

Notify(i) ==
  /\ informer[i].waking
  /\ queue' = [queue EXCEPT !.token = TRUE]
  /\ informer' = [informer EXCEPT ![i].waking = FALSE]
  /\ UNCHANGED <<conf, agent, consumer, gate, periodic, scan, unscanned, notices>>

-----------------------------------------------------------------------------
(* The consumer. *)

ConsumerGoes(place) == consumer' = [consumer EXCEPT !.at = place]

Wake ==
  /\ consumer.at = "idle" /\ queue.token
  /\ queue' = [queue EXCEPT !.token = FALSE]
  /\ ConsumerGoes(IF debounces THEN "debounce" ELSE "drain")
  /\ UNCHANGED <<conf, agent, informer, gate, periodic, scan, unscanned, notices>>

WaitTriggerDebounce ==
  /\ consumer.at = "debounce"
  /\ ConsumerGoes("drain")
  /\ UNCHANGED <<conf, agent, queue, informer, gate, periodic, scan, unscanned, notices>>

Drain ==
  /\ consumer.at = "drain"
  /\ consumer' = [at |-> "batch", batch |-> queue.pending]
  /\ queue' = [queue EXCEPT !.pending = {}]
  /\ UNCHANGED <<conf, agent, informer, gate, periodic, scan, unscanned, notices>>

BatchDone ==
  /\ consumer.at = "batch" /\ consumer.batch = {}
  /\ ConsumerGoes("idle")
  /\ UNCHANGED <<conf, agent, queue, informer, gate, periodic, scan, unscanned, notices>>

\* A trigger is answered by a scan that reports on its object.  A Warning that passes
\* the filter by its own kind alone, about an object of a kind the base plan leaves out,
\* has no such scan: what answers it is the scan made for it.
AnsweredBy(p, t) ==
  IF KindWanted(base, Involved(t).kind) THEN Covers(p, Involved(t)) ELSE p = PlanForTrigger(base, t)

\* A scan sees what changed before it began.
BeginScan(p) ==
  /\ scan' = [NoScan EXCEPT !.at = "reading", !.plan = p]
  /\ unscanned' = {t \in unscanned : ~AnsweredBy(p, t)}

TakesTrigger(t, next) ==
  /\ consumer.at = "batch" /\ t \in consumer.batch /\ agent.live
  /\ consumer' = [at |-> next, batch |-> consumer.batch \ {t}]
  /\ UNCHANGED <<conf, agent, queue, informer, periodic, notices>>

RunsTrigger(t) ==
  /\ gate = "free" /\ gate' = "trigger"
  /\ TakesTrigger(t, "job")
  /\ BeginScan(PlanForTrigger(base, t))

\* Fault: a trigger that finds the gate taken is dropped.
TriggerJobOnce(t) ==
  \/ RunsTrigger(t)
  \/ gate # "free" /\ TakesTrigger(t, "batch") /\ UNCHANGED <<gate, scan, unscanned>>

\* A trigger that finds the gate taken stays, and is tried again every 10 ms.
TriggerJob(t) == RunsTrigger(t)

-----------------------------------------------------------------------------
(* The periodic runner. *)

PeriodicJob ==
  /\ periodic \in {"initial", "due"} /\ agent.live /\ gate = "free"
  /\ gate' = "periodic" /\ periodic' = "job"
  /\ BeginScan(base)
  /\ UNCHANGED <<conf, agent, queue, informer, consumer, notices>>

\* The gate is taken: a later period is skipped, the first one ends the loop.
PeriodicOverlaps ==
  /\ periodic \in {"initial", "due"} /\ agent.live /\ gate # "free"
  /\ IF periodic = "initial"
       THEN periodic' = "stopped" /\ agent' = [agent EXCEPT !.live = FALSE]
       ELSE periodic' = "wait" /\ UNCHANGED agent
  /\ UNCHANGED <<conf, queue, informer, consumer, gate, scan, unscanned, notices>>

PeriodDue ==
  /\ periodic = "wait" /\ agent.live /\ agent.periods < MaxPeriods
  /\ periodic' = "due"
  /\ agent' = [agent EXCEPT !.periods = @ + 1]
  /\ UNCHANGED <<conf, queue, informer, consumer, gate, scan, unscanned, notices>>

\* runOnceJob gives the gate back.
JobEnds ==
  /\ gate' = "free" /\ scan' = NoScan
  /\ IF gate = "periodic" THEN periodic' = "wait" /\ UNCHANGED consumer
                          ELSE ConsumerGoes("batch") /\ UNCHANGED periodic
  /\ UNCHANGED <<conf, agent, queue, informer, unscanned, notices>>

-----------------------------------------------------------------------------
(* A scan, and the announcement of what it proposes. *)

\* The scan reads; then the proposals of before are listed.  Either may fail.
ScanReads(found) ==
  /\ scan.at = "reading"
  /\ \A o \in found : Covers(scan.plan, o)
  /\ scan' = [scan EXCEPT !.at = "triage", !.todo = found, !.known = proposals]
  /\ UNCHANGED <<conf, agent, queue, informer, consumer, gate, periodic, unscanned, notices>>

ScanFails == scan.at = "reading" /\ JobEnds
ScanEnds == scan.at = "triage" /\ scan.todo = {} /\ JobEnds

\* No playbook, no diagnosis, nothing actionable, or a creation that is refused.
ProposesNothing(o) ==
  /\ scan.at = "triage" /\ o \in scan.todo
  /\ scan' = [scan EXCEPT !.todo = @ \ {o}]
  /\ UNCHANGED <<conf, agent, queue, informer, consumer, gate, periodic, unscanned, notices>>

\* An active proposal of the object is returned instead of a new one.
Proposes(o) ==
  /\ scan.at = "triage" /\ o \in scan.todo
  /\ proposals' = proposals \cup {o}
  /\ scan' = [scan EXCEPT !.at = "notify", !.todo = @ \ {o}, !.of = o]
  /\ UNCHANGED <<conf, agent, queue, informer, consumer, gate, periodic, unscanned, recent, announced>>

\* Fault: only what this process announced in the last day is known.
NewToProcess(o) == o \notin recent

NewToNotify(o) == o \notin scan.known /\ o \notin recent

\* The announcement is recorded before it is sent; one that fails is not repeated.
NotifyNewProposal ==
  LET o == scan.of
  IN  /\ scan.at = "notify"
      /\ scan' = [scan EXCEPT !.at = "triage", !.of = NoTarget, !.known = @ \cup {o}]
      /\ IF NewToNotify(o)
           THEN recent' = recent \cup {o} /\ announced' = [announced EXCEPT ![o] = @ + 1]
           ELSE UNCHANGED <<recent, announced>>
      /\ UNCHANGED <<conf, agent, queue, informer, consumer, gate, periodic, unscanned, proposals>>

\* A proposal an operator asks for is not announced.
OperatorProposes(o) ==
  /\ proposals' = proposals \cup {o}
  /\ UNCHANGED <<conf, agent, queue, informer, consumer, gate, periodic, scan, unscanned, recent, announced>>

\* The retention removes a proposal that ended, a week later or when too many have; its
\* notice stays.  The one a scan was just given is active.  What is announced next for the
\* object is another proposal.
ProposalPruned(o) ==
  /\ o \in proposals /\ o # scan.of
  /\ proposals' = proposals \ {o}
  /\ announced' = [announced EXCEPT ![o] = 0]
  /\ UNCHANGED <<conf, agent, queue, informer, consumer, gate, periodic, scan, unscanned, recent>>

\* A notice is forgotten after a day.
NoticeForgotten(o) ==
  /\ o \in recent
  /\ recent' = recent \ {o}
  /\ UNCHANGED <<conf, agent, queue, informer, consumer, gate, periodic, scan, unscanned, proposals, announced>>

-----------------------------------------------------------------------------
(* The process and its leadership. *)

\* A signal, or the lease is lost: elector.Run returns and so does the loop.
LoopCancelled ==
  /\ agent.live
  /\ agent' = [agent EXCEPT !.live = FALSE]
  /\ UNCHANGED <<conf, queue, informer, consumer, gate, periodic, scan, unscanned, notices>>

\* The process ends, at any step of a scan, and another starts and is elected.
AgentRestarts ==
  /\ agent.starts < MaxProcesses
  /\ agent' = [agent EXCEPT !.live = TRUE, !.starts = @ + 1]
  /\ queue' = Empty /\ informer' = Quiet /\ consumer' = Waiting
  /\ gate' = "free" /\ periodic' = "initial" /\ scan' = NoScan
  /\ unscanned' = {} /\ recent' = {}
  /\ UNCHANGED <<conf, proposals, announced>>

SchedulerNext ==
  \/ \E o \in Objects : \/ o.kind = "Pod" /\ EnqueuePod(o)
                        \/ ProposesNothing(o) \/ Proposes(o) \/ OperatorProposes(o)
                        \/ ProposalPruned(o) \/ NoticeForgotten(o)
  \/ \E e \in Warnings : EnqueueEvent(e)
  \/ \E i \in Informers : Enqueue(i) \/ Notify(i)
  \/ \E t \in consumer.batch : TriggerJob(t)
  \/ Wake \/ WaitTriggerDebounce \/ Drain \/ BatchDone
  \/ PeriodicJob \/ PeriodicOverlaps \/ PeriodDue
  \/ \E found \in SUBSET Objects : ScanReads(found)
  \/ ScanFails \/ ScanEnds \/ NotifyNewProposal
  \/ LoopCancelled \/ AgentRestarts

SchedulerSpec == SchedulerInit /\ [][SchedulerNext]_schedVars

-----------------------------------------------------------------------------
(* Properties. *)

Queued(t) ==
  \/ t \in consumer.batch
  \/ /\ t \in queue.pending
     /\ queue.token \/ consumer.at \in {"debounce", "drain"} \/ \E i \in Informers : informer[i].waking

\* No accepted trigger is lost: while the loop runs, a trigger the queue took and no
\* later scan has answered, by reporting on its object or by being the scan made for it,
\* is in the batch, or is pending and the consumer has been or is about to be woken
\* (Enqueue, drain, and the wait of RunWithTriggers at the gate).
NoTriggerLost == agent.live => \A t \in unscanned : Queued(t)

\* The proposal on record of an object is announced at most once, over any number of
\* scans, processes and days (the IDs known from the store in runSingleScanWithPlan,
\* recentNotifications within one process).  A process that dies between the creation and
\* the announcement leaves a proposal nobody announces: the store then knows it.
AnnouncedOnce == \A o \in Objects : announced[o] <= 1
=============================================================================
