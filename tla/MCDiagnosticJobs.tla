-------------------------- MODULE MCDiagnosticJobs --------------------------
(***************************************************************************)
(* Diagnostic jobs for TLC.                                                *)
(***************************************************************************)
EXTENDS DiagnosticJobs, TLC

\* Every agent asks for every profile.
ServeAll == [a \in Agents |-> Profiles]

AgentsAlike == Permutations(Agents)
=============================================================================
