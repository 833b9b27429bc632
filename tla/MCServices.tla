----------------------------- MODULE MCServices ------------------------------
(***************************************************************************)
(* Services that share no state: the remediation engine, the result cache  *)
(* and the plugin host.  A behaviour is one of the service `part' names,   *)
(* while the others wait in their initial states.                          *)
(***************************************************************************)
EXTENDS Remediation, ResultCache, Plugin, TLC

VARIABLE part

MCInit ==
  /\ part \in {"remediation", "cache", "plugin"}
  /\ RemediationInit /\ CacheInit /\ PluginInit
  /\ part # "cache" => backend = "file"

MCNext ==
  \/ part = "remediation" /\ RemediationNext /\ UNCHANGED <<part, cacheVars, pluginVars>>
  \/ part = "cache" /\ CacheNext /\ UNCHANGED <<part, remediationVars, pluginVars>>
  \/ part = "plugin" /\ PluginNext /\ UNCHANGED <<part, remediationVars, cacheVars>>

MCSpec == MCInit /\ [][MCNext]_<<part, remediationVars, cacheVars, pluginVars>>

-----------------------------------------------------------------------------
\* No worker is told apart from another.
MCSymmetry == Permutations(Workers)

\* Two processes share the cache; the command line has two requests at a time.
Q(model, prompt) == [operation |-> "diagnose", model |-> model, prompt |-> prompt]
MCQuestions == {Q("m1", "p"), Q("m2", "p"), Q("m1", "q"), Q("m2", "long")}
MCOversized == {Q("m2", "long")}
MCInstanceOf == [x \in Clients |-> IF x = "serve" THEN "service" ELSE "cli"]
=============================================================================
