------------------------------ MODULE Analyzers ------------------------------
(***************************************************************************)
(* The analyzers of pkg/scanner, as functions of what the cluster holds    *)
(* and of the reads that fail.  An analyzer returns issues and an error;   *)
(* the history resolves an old finding when the analyzer returned no error *)
(* and not the finding, so an analyzer that could not look must say so.    *)
(*                                                                         *)
(* Each record of facts is about one object and what it depends on.  An    *)
(* object that does not exist is a fact; a read that fails is in `f`.      *)
(* An issue is its category or the discriminator of its id; ids, wording   *)
(* and times are left out.                                                 *)
(***************************************************************************)
EXTENDS Naturals, FiniteSets

VARIABLE run   \* the latest analyzer run, with the issues of an unhindered one

When(cond, x) == IF cond THEN {x} ELSE {}
Finding(issues) == [issues |-> issues, err |-> FALSE]
Unread == [issues |-> {}, err |-> TRUE]

\* Most analyzers return nothing but the error of the first list that fails.
Reading(reads, f, result) == IF reads \cap f # {} THEN Unread ELSE result

-----------------------------------------------------------------------------
(* Core resources (scanner.go). *)

PodFacts ==
  [phase : {"Running", "Pending", "Failed", "Succeeded"}, evicted : BOOLEAN,
   deleting : {"no", "recent", "stuck"}, restartAlways : BOOLEAN, unschedulable : BOOLEAN,
   container : {"running", "crash", "image", "config", "oom", "exit0", "exit1"}, restarts : {0, 1, 6}]

\* A crash loop is reported once, by its reason or by the restarts.
ContainerFindings(p) ==
  When(p.container = "crash" \/ (p.container \in {"oom", "exit1"} /\ p.restartAlways /\ p.restarts > 0), "CrashLoop")
    \cup When(p.container = "image", "ImagePull")
    \cup When(p.container = "config", "ContainerConfig")
    \cup When(p.container = "oom", "OOMKilled")
    \cup When(p.restarts > 5, "HighRestarts")

\* A pod that is being deleted is looked at no further.
PodFindings(p) ==
  When(p.evicted, "Evicted") \cup
  IF p.deleting # "no" THEN When(p.deleting = "stuck", "StuckTerminating")
  ELSE ContainerFindings(p)
         \cup When(p.phase = "Pending" /\ p.unschedulable, "FailedScheduling")
         \cup When(p.phase = "Failed", "PodFailed")

\* Logs and events only enrich, but a scan without them is not a whole one.
ScanPods(p, f) ==
  Reading({"pods"}, f,
    IF p.phase = "Succeeded" THEN Finding({})
    ELSE [issues |-> PodFindings(p), err |-> PodFindings(p) # {} /\ {"logs", "events"} \cap f # {}])

NodeFacts ==
  [ready : BOOLEAN, pressure : SUBSET {"DiskPressure", "MemoryPressure", "PIDPressure"}, network : BOOLEAN,
   cordoned : BOOLEAN, taint : {"none", "NoSchedule", "NoExecute", "PreferNoSchedule"}]

ScanNodes(n, f) ==
  Reading({"nodes"}, f, Finding(
    When(~n.ready, "NodeNotReady") \cup n.pressure \cup When(~n.network, "NetworkUnavailable")
      \cup When(n.cordoned, "Unschedulable") \cup When(n.taint \in {"NoSchedule", "NoExecute"}, "Taint")))

ScanPVCs(phase, f) == Reading({"pvcs"}, f, Finding({phase} \cap {"Pending", "Lost"}))

\* slices: "partial" and "hidden" stand for a list cut off at the limit, with slices of
\* the service in it or without.
ServiceFacts ==
  [external : BOOLEAN, validName : BOOLEAN, slices : {"unserved", "none", "owned", "partial", "hidden"},
   ready : BOOLEAN, endpoints : {"missing", "empty", "ready"}, selector : BOOLEAN,
   target : {"name", "badName", "badNumber"}, pods : {"none", "noPorts", "match", "other"}]

ServiceReadyEndpoints(s, f) ==
  LET seen(n, found, complete) == [err |-> FALSE, ready |-> n, found |-> found, complete |-> complete]
      failed == [err |-> TRUE, ready |-> FALSE, found |-> FALSE, complete |-> TRUE]
  IN  IF "slices" \in f THEN failed
      ELSE IF s.slices \in {"owned", "partial"} THEN seen(s.ready, TRUE, s.slices = "owned")
      ELSE IF s.slices = "hidden" THEN seen(FALSE, TRUE, FALSE)
      ELSE IF "endpoints" \in f THEN failed
      ELSE seen(s.endpoints = "ready", s.endpoints # "missing", TRUE)

ServicePortMismatch(s) ==
  /\ s.selector
  /\ \/ s.target = "badName"
     \/ s.pods # "none" /\ (s.target = "badNumber" \/ s.pods = "other")

ScanServices(s, f) ==
  LET e == ServiceReadyEndpoints(s, f)
      none == When(~e.ready, "NoEndpoints")
  IN  Reading({"services"}, f,
        IF s.external THEN Finding(When(~s.validName, "ExternalNameInvalid"))
        ELSE IF e.err THEN [issues |-> {"EndpointError"}, err |-> TRUE]
        ELSE IF ~e.complete /\ ~e.ready THEN [issues |-> {"EndpointIncomplete"}, err |-> TRUE]
        ELSE IF s.selector /\ "pods" \in f THEN [issues |-> none, err |-> TRUE]
        ELSE [issues |-> none \cup When(ServicePortMismatch(s), "PortMismatch"), err |-> ~e.complete])

\* Warning events are one issue for an object and a reason.
ScanWarningEvents(reasons, f) == Reading({"events"}, f, Finding(reasons))

-----------------------------------------------------------------------------
(* Workloads (analyzers_workloads.go, analyzers_extended.go). *)

ReplicaFacts ==
  [kind : {"Deployment", "StatefulSet", "DaemonSet", "ReplicaSet"}, desired : 0..1, ready : 0..1,
   updated : 0..1, partitioned : BOOLEAN, partition : 0..1, observed : BOOLEAN, condition : BOOLEAN]

\* desired: the replicas the spec wants; partitioned: the rolling update of a StatefulSet has a
\* partition, and only the replicas above it are updated; observed: the controller has seen the
\* latest generation; condition: one of the conditions of a Deployment reports a failure.
ScanReplicas(w, f) ==
  LET short == w.desired > 0 /\ w.ready < w.desired
      degraded == CASE w.kind = "Deployment" -> short \/ ~w.observed \/ w.condition
                    [] w.kind = "StatefulSet" ->
                         short \/ ~w.observed \/ (w.partitioned /\ w.updated + w.partition < w.desired)
                    [] w.kind = "DaemonSet" -> short \/ w.updated < w.desired
                    [] w.kind = "ReplicaSet" -> short
  IN  Reading({w.kind}, f, Finding(When(degraded, w.kind)))

JobFacts == [failed : BOOLEAN, complete : BOOLEAN, attempts : 0..2, limit : 0..1, overdue : BOOLEAN]

ScanJobs(j, f) ==
  Reading({"jobs"}, f, Finding(
    When(j.failed, "JobFailed")
      \cup When(~j.complete /\ j.attempts > j.limit, "BackoffExceeded")
      \cup When(~j.complete /\ j.overdue, "DeadlineExceeded")))

CronFacts == [schedule : {"empty", "bad", "good"}, suspended : BOOLEAN, due : {"never", "early", "late", "tooLate"}, deadline : BOOLEAN]

ScanCronJobs(c, f) == Reading({"cronjobs"}, f, Finding(When(c.schedule = "empty", "CronJobFailed")))

\* A run that is late counts at once, or after the starting deadline when there is one.
ScanCronSemantics(c, f) ==
  Reading({"cronjobs"}, f, Finding(
    When(c.schedule = "bad", "InvalidSchedule") \cup When(c.suspended, "Suspended")
      \cup When(/\ ~c.suspended /\ c.schedule = "good"
                /\ c.due = "tooLate" \/ (c.due = "late" /\ ~c.deadline), "MissedSchedule")))

DriftKinds == {"Deployment", "StatefulSet", "DaemonSet", "ReplicaSet", "Job", "CronJob"}
DriftFacts == [kind : DriftKinds, selector : {"none", "invalid", "matches", "differs"}, manual : BOOLEAN]

\* A Job has no selector of its own unless it asks for one.
WorkloadDrifts(w) ==
  /\ w.selector # "matches"
  /\ ~(w.kind \in {"Job", "CronJob"} /\ w.selector = "none" /\ ~w.manual)

ScanWorkloadDrift(w, f) == Reading(DriftKinds, f, Finding(When(WorkloadDrifts(w), "SelectorDrift")))

LogFacts == [phase : {"Running", "Succeeded"}, restarts : 0..1, errors : SUBSET {"previous", "current"}]

\* Fault: a log that cannot be read is a log without errors.
ScanPodLogsQuietly(p, f) ==
  Reading({"pods"}, f, Finding(IF p.phase = "Succeeded" \/ p.restarts = 0 THEN {} ELSE p.errors \ f))

\* The logs of a container that has restarted; a log that does not exist is an empty one.
ScanPodLogs(p, f) ==
  Reading({"pods"}, f,
    IF p.phase = "Succeeded" \/ p.restarts = 0 THEN Finding({})
    ELSE [issues |-> p.errors \ f, err |-> {"previous", "current"} \cap f # {}])

-----------------------------------------------------------------------------
(* Networking, policy and configuration. *)

IngressFacts ==
  [class : BOOLEAN, address : BOOLEAN, old : BOOLEAN, path : BOOLEAN, tls : {"none", "missing", "found"},
   backend : {"none", "resource", "missing", "badPort", "found"}, elsewhere : BOOLEAN]

\* elsewhere: the scan covers several namespaces and another one has a service of the
\* name; the services are looked up by name alone.
ScanIngresses(i, f) ==
  Reading({"ingresses", "services", "secrets"}, f, Finding(
    When(~i.path, "PathInvalid")
      \cup When(i.backend = "missing" /\ ~i.elsewhere, "BackendNotFound")
      \cup When(i.tls = "missing", "TLSSecretMissing")))

ScanIngressSemantics(i, f) ==
  Reading({"ingresses", "services"} \cup When(i.tls # "none", "secrets"), f, Finding(
    When(~i.class, "ClassMissing") \cup When(i.class /\ ~i.address /\ i.old, "StatusPending")
      \cup When(i.backend = "resource", "UnsupportedBackend") \cup When(i.backend = "badPort", "InvalidPort")))

PolicyFacts == [selector : {"none", "invalid", "empty", "labels"}, pods : BOOLEAN, blocked : BOOLEAN]

ScanNetworkPolicies(n, f) ==
  Reading({"netpols"}, f,
    IF n.selector = "invalid" THEN Finding({"InvalidSelector"})
    ELSE Reading({"pods"}, f, Finding(
           When(n.selector = "empty", "WideSelector") \cup When(n.selector = "labels" /\ ~n.pods, "Orphaned"))))

ScanPDBs(p, f) == Reading({"pdbs"}, f, Finding(When(p.blocked, "DisruptionsBlocked")))

ScanPDBSemantics(p, f) ==
  Reading({"pdbs"}, f,
    IF p.selector = "none" THEN Finding({"SelectorMissing"})
    ELSE IF p.selector = "invalid" THEN Finding({"SelectorInvalid"})
    ELSE Reading({"pods"}, f, Finding(When(~p.pods, "NoMatchingPods"))))

HPAFacts == [active : BOOLEAN, limited : BOOLEAN, target : {"Deployment", "StatefulSet", "ReplicaSet", "other"},
             exists : BOOLEAN, metric : BOOLEAN]

ScanHPAs(h, f) ==
  Reading({"hpas"}, f, Finding(When(~h.active, "MetricsUnavailable") \cup When(h.limited, "ScalingLimited")))

\* A target that is missing is an issue; one that cannot be read is an error.
ScanHPASemantics(h, f) ==
  Reading({"hpas"} \cup ({h.target} \ {"other"}), f, Finding(
    When(h.target = "other", "UnsupportedTarget") \cup When(h.target # "other" /\ ~h.exists, "TargetMissing")
      \cup When(~h.metric, "MetricInvalid")))

WebhookDefects ==
  {"Name", "MultipleTargets", "TargetMissing", "URL", "ServiceReference", "CABundle", "Rule", "FailurePolicy",
   "MatchPolicy", "SideEffects", "Timeout", "ReviewVersion", "Reinvocation", "Selector", "MatchConditions"}
WebhookFacts ==
  [defect : WebhookDefects \cup {"none"}, url : BOOLEAN, service : {"missing", "noPort", "noSelector", "good"}, pods : BOOLEAN]

\* A webhook is looked up when it names one valid service and no URL.
WebhookIssues(w, f) ==
  LET found == {w.defect} \ {"none"}
  IN  IF w.url \/ w.defect \in {"MultipleTargets", "TargetMissing", "URL", "ServiceReference"} THEN Finding(found)
      ELSE IF w.service = "missing" THEN Reading({"service"}, f, Finding(found \cup {"ServiceMissing"}))
      ELSE IF w.service = "noSelector" THEN Reading({"service"}, f, Finding(found \cup {"SelectorMissing"}))
      ELSE Reading({"service", "pods"}, f, Finding(
             found \cup When(w.service = "noPort", "ServicePortMismatch") \cup When(~w.pods, "NoActivePods")))

ScanWebhooks(w, f) == Reading({"mutating", "validating"}, f, WebhookIssues(w, f))

ReferenceKinds == {"Pod"} \cup DriftKinds
ConfigMapFacts == [exists : BOOLEAN, ignored : BOOLEAN, size : {"empty", "small", "large"},
                   by : ReferenceKinds \cup {"none"}, optional : BOOLEAN]

\* One reference that is not optional decides.
ScanConfigMaps(c, f) ==
  Reading({"configmaps"} \cup ReferenceKinds, f, Finding(
    IF c.exists
      THEN IF c.ignored THEN {}
           ELSE When(c.size = "empty", "Empty") \cup When(c.size = "large", "TooLarge") \cup When(c.by = "none", "Unused")
      ELSE When(c.by # "none" /\ ~c.optional, "ReferenceMissing")))

StorageFacts ==
  [provisioner : {"none", "deprecated", "csi"}, defaults : 0..2, volume : {"Bound", "Released", "Failed"},
   small : BOOLEAN, class : {"unset", "missing", "found"}]

ScanStorage(s, f) ==
  Reading({"classes", "volumes", "claims"}, f, Finding(
    When(s.provisioner = "none", "NoProvisioner") \cup When(s.provisioner = "deprecated", "DeprecatedProvisioner")
      \cup When(s.defaults > 1, "MultipleDefaults") \cup ({s.volume} \ {"Bound"})
      \cup When(s.small, "SmallCapacity") \cup When(s.class # "found", "MissingStorageClass")))

-----------------------------------------------------------------------------
(* Security. *)

SecurityFacts ==
  [pod : SUBSET {"HostNamespace", "HostPath", "Privileged", "PrivilegeEscalation", "Root"},
   binding : {"none", "RoleBinding", "ClusterRoleBinding"}, kind : {"Role", "ClusterRole", "other"},
   role : {"cluster-admin", "missing", "broad", "narrow"}]

\* A role is read unless it is cluster-admin or of a kind the binding cannot have.
BindingIssues(b, f) ==
  IF b.role = "cluster-admin" THEN Finding({"ClusterAdmin"})
  ELSE IF b.kind = "other" \/ (b.binding = "ClusterRoleBinding" /\ b.kind = "Role") THEN Finding({})
  ELSE Reading({b.kind}, f, Finding(When(b.role = "broad", "BroadPermissions")))

ScanSecurity(s, f) ==
  Reading({"pods", "rolebindings", "clusterrolebindings"}, f,
    LET b == IF s.binding = "none" THEN Finding({}) ELSE BindingIssues(s, f)
    IN  IF b.err THEN Unread ELSE Finding(s.pod \cup b.issues))

ImageFacts == [phase : {"Running", "Succeeded"}, pinned : BOOLEAN, advisory : BOOLEAN]

ImageVulnerabilities(i) == When(~i.pinned, "MutableTag") \cup When(i.advisory, "CVE")

ScanPodVulnerabilities(i, f) ==
  Reading({"pods"}, f, Finding(IF i.phase = "Succeeded" THEN {} ELSE ImageVulnerabilities(i)))

ScanAppUpgrades(i, f) ==
  Reading({"deployments"}, f, Finding(When(ImageVulnerabilities(i) # {}, "Upgrade")))

ClusterSecurityFacts == [pod : {"none", "system", "workload"}, pressure : BOOLEAN]

\* The two lists are tried on their own, and their errors are dropped.
ScanClusterSecurity(c, f) ==
  Finding(When("pods" \notin f /\ c.pod = "workload", "DefaultNamespace")
            \cup When("nodes" \notin f /\ c.pressure, "MemoryPressureRisk"))

ScanFalcoEvents(rules, f) == Reading({"events"}, f, Finding(rules))

-----------------------------------------------------------------------------
(* Optional resources (dynamic_analyzers.go).  A version that is not served, or may not *)
(* be read, marks the run as unobserved; the others are analyzed.                       *)

Served == {"available", "absent", "forbidden", "truncated"}

DynamicAnalyze(served, found, f) ==
  LET listed == {v \in DOMAIN served : served[v] \in {"available", "truncated"} /\ v \notin f}
  IN  [issues |-> IF listed = {} THEN {} ELSE found,
       err |-> (\E v \in DOMAIN served : served[v] # "available") \/ (DOMAIN served \cap f # {})]

GatewayFacts == [class : BOOLEAN, conditions : SUBSET {"Accepted", "Programmed"}, listeners : {"none", "malformed", "invalid", "valid"}]

\* conditions: the ones that are false.
GatewayIssues(g) ==
  When(~g.class, "SpecInvalid") \cup g.conditions
    \cup When(g.listeners = "malformed", "ListenersMalformed") \cup When(g.listeners = "invalid", "ListenerInvalid")

RouteFacts ==
  [parent : {"none", "malformed", "unsupported", "missing", "refuses", "accepts"}, status : SUBSET {"Accepted", "ResolvedRefs"},
   backend : {"malformed", "unsupported", "missing", "badPort", "found"}, cross : BOOLEAN, grant : BOOLEAN]

\* gatewayAcceptsHTTPRoute: a listener of the section, for HTTP or HTTPS, that allows the
\* kind and the namespace.
ParentIssues(r, f) ==
  CASE r.parent = "none" -> Finding({"NoParent"})
    [] r.parent \in {"malformed", "unsupported"} -> Finding({r.parent})
    [] OTHER -> Reading({"gateway"}, f, Finding(
                  When(r.parent = "missing", "ParentMissing") \cup When(r.parent = "refuses", "ParentListener")))

\* Another namespace's service needs a grant; grants that cannot be read do not refuse.
BackendIssues(r, f) ==
  IF r.backend \in {"malformed", "unsupported"} THEN Finding({r.backend})
  ELSE IF r.cross /\ "grants" \notin f /\ ~r.grant THEN Finding({"ReferenceGrantMissing"})
  ELSE LET b == Reading({"backend"}, f, Finding(
                  When(r.backend = "missing", "BackendMissing") \cup When(r.backend = "badPort", "BackendPort")))
       IN  [b EXCEPT !.err = @ \/ (r.cross /\ "grants" \in f)]

\* A dependency that could not be read leaves the run unobserved and the others looked at.
RouteIssues(r, f) ==
  [issues |-> r.status \cup ParentIssues(r, f).issues \cup BackendIssues(r, f).issues,
   err |-> ParentIssues(r, f).err \/ BackendIssues(r, f).err]

GrantFacts == [from : {"none", "invalid", "valid"}, to : {"none", "invalid", "unsupported", "valid"}]

\* The first rule that is wrong is the one that is reported.
GrantIssues(g) ==
  IF "none" \in {g.from, g.to} THEN {"SpecInvalid"}
  ELSE IF g.from = "invalid" THEN {"From"} ELSE When(g.to # "valid", "To")

ResourceFacts == [family : {"olm", "integration"}, failed : BOOLEAN, condition : BOOLEAN, ready : BOOLEAN, paused : BOOLEAN, result : BOOLEAN]

ResourceIssues(r) ==
  When(r.failed, "Status") \cup When(~r.condition, "Condition")
    \cup IF r.family = "olm" THEN {}
         ELSE When(~r.ready, "Ready") \cup When(r.paused, "Paused") \cup When(~r.result, "Result")

Versions == [{"v1", "v1beta1"} -> Served]
ScanGateways(x, f) == DynamicAnalyze(x.served, GatewayIssues(x.object), f)
ScanReferenceGrants(x, f) == DynamicAnalyze(x.served, GrantIssues(x.object), f)
ScanResources(x, f) == DynamicAnalyze(x.served, ResourceIssues(x.object), f)
ScanHTTPRoutes(x, f) ==
  LET r == RouteIssues(x.object, f)
      d == DynamicAnalyze(x.served, r.issues, f)
  IN  [d EXCEPT !.err = @ \/ r.err]

-----------------------------------------------------------------------------
(* A run of an analyzer, with any of its reads failing. *)

Unrun == [analyzer |-> "none", issues |-> {}, err |-> FALSE, truth |-> {}]

Analyzes(analyzer, Scan(_, _), facts, reads) ==
  /\ run = Unrun
  /\ \E x \in facts, f \in SUBSET reads :
       run' = [analyzer |-> analyzer, issues |-> Scan(x, f).issues, err |-> Scan(x, f).err, truth |-> Scan(x, {}).issues]

AnalyzerInit == run = Unrun

CoreAnalyzers ==
  \/ Analyzes("Pod", ScanPods, PodFacts, {"pods", "logs", "events"})
  \/ Analyzes("Node", ScanNodes, NodeFacts, {"nodes"})
  \/ Analyzes("PVC", ScanPVCs, {"Bound", "Pending", "Lost"}, {"pvcs"})
  \/ Analyzes("Service", ScanServices, ServiceFacts, {"services", "slices", "endpoints", "pods"})
  \/ Analyzes("WarningEvent", ScanWarningEvents, SUBSET {"BackOff", "Unhealthy"}, {"events"})

WorkloadAnalyzers ==
  \/ Analyzes("Replicas", ScanReplicas, ReplicaFacts, DriftKinds)
  \/ Analyzes("Job", ScanJobs, JobFacts, {"jobs"})
  \/ Analyzes("CronJob", ScanCronJobs, CronFacts, {"cronjobs"})
  \/ Analyzes("CronSemantics", ScanCronSemantics, CronFacts, {"cronjobs"})
  \/ Analyzes("WorkloadDrift", ScanWorkloadDrift, DriftFacts, DriftKinds)
  \/ Analyzes("PodLog", ScanPodLogs, LogFacts, {"pods", "previous", "current"})

PolicyAnalyzers ==
  \/ Analyzes("Ingress", ScanIngresses, IngressFacts, {"ingresses", "services", "secrets"})
  \/ Analyzes("IngressSemantics", ScanIngressSemantics, IngressFacts, {"ingresses", "services", "secrets"})
  \/ Analyzes("NetworkPolicy", ScanNetworkPolicies, PolicyFacts, {"netpols", "pods"})
  \/ Analyzes("PDB", ScanPDBs, PolicyFacts, {"pdbs"})
  \/ Analyzes("PDBSemantics", ScanPDBSemantics, PolicyFacts, {"pdbs", "pods"})
  \/ Analyzes("HPA", ScanHPAs, HPAFacts, {"hpas"})
  \/ Analyzes("HPASemantics", ScanHPASemantics, HPAFacts, {"hpas", "Deployment", "StatefulSet", "ReplicaSet"})
  \/ Analyzes("Webhook", ScanWebhooks, WebhookFacts, {"mutating", "validating", "service", "pods"})
  \/ Analyzes("ConfigMap", ScanConfigMaps, ConfigMapFacts, {"configmaps"} \cup ReferenceKinds)
  \/ Analyzes("Storage", ScanStorage, StorageFacts, {"classes", "volumes", "claims"})

SecurityAnalyzers ==
  \/ Analyzes("Security", ScanSecurity, SecurityFacts, {"pods", "rolebindings", "clusterrolebindings", "Role", "ClusterRole"})
  \/ Analyzes("PodVulnerability", ScanPodVulnerabilities, ImageFacts, {"pods"})
  \/ Analyzes("AppUpgrade", ScanAppUpgrades, ImageFacts, {"deployments"})
  \/ Analyzes("ClusterSecurity", ScanClusterSecurity, ClusterSecurityFacts, {"pods", "nodes"})
  \/ Analyzes("Falco", ScanFalcoEvents, SUBSET {"shell", "write"}, {"events"})

DynamicAnalyzers ==
  \/ Analyzes("Gateway", ScanGateways, [served : Versions, object : GatewayFacts], {"v1", "v1beta1"})
  \/ Analyzes("HTTPRoute", ScanHTTPRoutes, [served : Versions, object : RouteFacts], {"v1", "v1beta1", "gateway", "grants", "backend"})
  \/ Analyzes("ReferenceGrant", ScanReferenceGrants, [served : Versions, object : GrantFacts], {"v1", "v1beta1"})
  \/ Analyzes("Resource", ScanResources, [served : Versions, object : ResourceFacts], {"v1", "v1beta1"})

AnalyzerNext == CoreAnalyzers \/ WorkloadAnalyzers \/ PolicyAnalyzers \/ SecurityAnalyzers \/ DynamicAnalyzers

AnalyzerSpec == AnalyzerInit /\ [][AnalyzerNext]_run

-----------------------------------------------------------------------------
(* Properties. *)

\* The analyzers that drop the error of a read (scanClusterSecurity).
Silent == {"ClusterSecurity"}

\* What makes reconciliation by silence sound (coveredBy, history_report.go): an analyzer
\* that leaves out what it would have found, because something could not be read, fails.
SilenceIsAnObservation ==
  run.analyzer \notin Silent => run.truth \subseteq run.issues \/ run.err
=============================================================================
