---------------------------- MODULE MCOperations -----------------------------
(***************************************************************************)
(* The agent's scheduler, analyzers and history of findings, its server,   *)
(* its configuration file and its playbooks.  A behaviour is one of the    *)
(* component `part' names, while the others wait in their initial states.  *)
(***************************************************************************)
EXTENDS Playbook, ScanHistory, Analyzers, Scheduler, LegacyServer, UserConfig

CONSTANT n1   \* a name in the configuration file

VARIABLE part

MCInit ==
  /\ part \in {"playbook", "history", "analyzers", "scheduler", "server", "config"}
  /\ PlaybookInit /\ ScanInit /\ AnalyzerInit /\ SchedulerInit /\ ServerInit /\ ConfigInit
  /\ part # "scheduler" => debounces /\ base = CHOOSE p \in BasePlans : TRUE
  /\ part = "scheduler" => (debounces <=> base.names = {})
  /\ part # "config" => file = Absent

MCNext ==
  \/ /\ part = "playbook" /\ PlaybookNext
     /\ UNCHANGED <<part, scanVars, run, schedVars, serverVars, configVars>>
  \/ /\ part = "history" /\ ScanNext
     /\ UNCHANGED <<part, playbookVars, run, schedVars, serverVars, configVars>>
  \/ /\ part = "analyzers" /\ AnalyzerNext
     /\ UNCHANGED <<part, playbookVars, scanVars, schedVars, serverVars, configVars>>
  \/ /\ part = "scheduler" /\ SchedulerNext
     /\ UNCHANGED <<part, playbookVars, scanVars, run, serverVars, configVars>>
  \/ /\ part = "server" /\ ServerNext
     /\ UNCHANGED <<part, playbookVars, scanVars, run, schedVars, configVars>>
  \/ /\ part = "config" /\ ConfigNext
     /\ UNCHANGED <<part, playbookVars, scanVars, run, schedVars, serverVars>>

MCSpec ==
  MCInit /\ [][MCNext]_<<part, playbookVars, scanVars, run, schedVars, serverVars, configVars>>

-----------------------------------------------------------------------------
\* Playbooks: what a provider may propose, and what an operator may save.
C(action, confidence, grounded) ==
  [action |-> action, confidence |-> confidence, grounded |-> grounded, target |-> "finding"]
S(enabled, min, actions, learning) ==
  [enabled |-> enabled, minConfidence |-> min, actions |-> actions, learning |-> learning]

MCContents == {C("RestartPod", 1, TRUE), C("RestartPod", 0, TRUE), C("Exec", 2, TRUE)}
MCFloors == S(TRUE, 1, {}, "AUTO_DRAFT")
MCSettings ==
  {S(TRUE, 1, {}, "AUTO_DRAFT"), S(TRUE, 0, {}, "AUTO_DRAFT"), S(TRUE, 1, {"ScaleWorkload"}, "OBSERVE_ONLY")}

\* Findings about one object: one that a typed and an optional analyzer both report, and one
\* of the optional analyzer alone.
MCAnalyzersOf == [i \in FindingIds |-> IF i = "oom" THEN Dynamic ELSE ScanAnalyzers]
MCObjectOf == [i \in FindingIds |-> "o"]
MCIssueRank == [i \in FindingIds |-> IF i = "crash" THEN 1 ELSE 2]
MCNamespaceOf == [o \in {"o"} |-> "n"]

\* Scheduling: objects of two namespaces and a Warning about one of them, over a plan
\* with a name and a family of kinds, one with namespaces and kinds, under which the Warning
\* passes and its object is not wanted, and one that only leaves a namespace out.
web == [kind |-> "Pod", ns |-> "shop", name |-> "web"]
api == [kind |-> "Deployment", ns |-> "core", name |-> "api"]
MCObjects == {web, api}
MCWarnings == {[kind |-> "Event", ns |-> "core", name |-> "backoff", about |-> api]}
Whole == [include |-> {}, exclude |-> {}, kinds |-> {}, names |-> {}]
MCBasePlans == {[Whole EXCEPT !.exclude = {"shop"}, !.kinds = {"Workload"}, !.names = {"api"}],
                [Whole EXCEPT !.include = {"core", "shop"}, !.kinds = {"Event", "Pod"}],
                [Whole EXCEPT !.exclude = {"shop"}]}

\* Configuration: two old files, one with a key in a profile and settings at both levels,
\* and one whose default filter does not exist; a file written by hand with a key and an
\* interval that cannot be parsed, and one of a schema to come.
Old == [Absent EXCEPT !.schema = "v0", !.entries["profiles"][n1] = 1, !.secrets = {n1},
                      !.settings.interval = 2, !.nested = [interval |-> 1, jitter |-> 3, token |-> TRUE, exclude |-> 0]]
MCUserFiles == {Old, [Old EXCEPT !.default["filters"] = n1, !.settings.token = TRUE],
                [Old EXCEPT !.schema = "v1", !.settings.interval = Bad, !.settings.token = TRUE, !.nested = Settings],
                [Absent EXCEPT !.schema = "other"]}
MCInputs == {[interval |-> None, jitter |-> None, token |-> None], [interval |-> 0, jitter |-> 4, token |-> Bad],
             [interval |-> EmptyValue, jitter |-> 4, token |-> EmptyValue], [interval |-> Bad, jitter |-> None, token |-> TRUE]}
=============================================================================
