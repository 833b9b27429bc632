----------------------------- MODULE MCAuthority -----------------------------
(***************************************************************************)
(* Who is believed: agents by their credentials, people by their sessions, *)
(* a recovery by its health samples and a lesson by the evidence under it. *)
(* A behaviour is one of the component `part' names, while the others wait *)
(* in their initial states.                                                *)
(***************************************************************************)
EXTENDS Fleet, Sessions, Recovery, Knowledge, TLC

VARIABLE part

MCInit ==
  /\ part \in {"fleet", "sessions", "recovery", "knowledge"}
  /\ FleetInit /\ SessionsInit /\ RecoveryInit /\ KnowledgeInit

MCNext ==
  \/ part = "fleet" /\ FleetNext /\ UNCHANGED <<part, sessionVars, recoveryVars, knowledgeVars>>
  \/ part = "sessions" /\ SessionsNext /\ UNCHANGED <<part, fleetVars, recoveryVars, knowledgeVars>>
  \/ part = "recovery" /\ RecoveryNext /\ UNCHANGED <<part, fleetVars, sessionVars, knowledgeVars>>
  \/ part = "knowledge" /\ KnowledgeNext /\ UNCHANGED <<part, fleetVars, sessionVars, recoveryVars>>

MCSpec == MCInit /\ [][MCNext]_<<part, fleetVars, sessionVars, recoveryVars, knowledgeVars>>

NamesAlike == Permutations(Chatters) \cup Permutations(Stewards)
=============================================================================
