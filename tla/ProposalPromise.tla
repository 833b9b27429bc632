--------------------------- MODULE ProposalPromise ---------------------------
(***************************************************************************)
(* What the remediation engine promises of a proposal: somebody approves   *)
(* it before anything is done, it is executed once, it changes the cluster *)
(* at most once and only while its target is the one that was approved,    *)
(* and what is recorded of it is true.  COMPLETED means that it took       *)
(* effect, that a person has to carry it out, or that it is nominal: there *)
(* is no call for it, and it is reported as done.  STALE means that it did *)
(* not take effect and never will; FAILED promises neither.  Only what was *)
(* completed is learned from, and nothing a person carries out.            *)
(***************************************************************************)
CONSTANT Proposals

VARIABLES
  status,   \* the recorded state of each proposal
  manual,   \* proposals a person carries out
  nominal,  \* proposals that are reported as done and change nothing
  current,  \* proposals whose target is still the one they are about
  effect,   \* proposals that changed the cluster
  learned   \* proposals the outcome observer was given

proposalVars == <<status, manual, nominal, current, effect, learned>>

Init ==
  /\ status = [p \in Proposals |-> "NONE"]
  /\ manual = {} /\ nominal = {} /\ current = {} /\ effect = {} /\ learned = {}

Becomes(p, from, to) ==
  /\ status[p] \in from
  /\ status' = [status EXCEPT ![p] = to]

Move(p, from, to) == Becomes(p, from, to) /\ UNCHANGED <<manual, nominal, current, effect, learned>>

Create(p) ==
  /\ Becomes(p, {"NONE"}, "PENDING")
  /\ \/ UNCHANGED <<manual, nominal>>
     \/ manual' = manual \cup {p} /\ UNCHANGED nominal
     \/ nominal' = nominal \cup {p} /\ UNCHANGED manual
  /\ current' = current \cup {p}
  /\ UNCHANGED <<effect, learned>>

Decide(p) ==
  \/ Move(p, {"PENDING"}, "APPROVED")
  \/ Move(p, {"PENDING"}, "REJECTED")
  \/ Move(p, {"PENDING"}, "STALE")
  \/ Move(p, {"PENDING", "APPROVED"}, "EXPIRED")

Start(p) == Move(p, {"APPROVED"}, "EXECUTING")

\* The target is another one afterwards, for this proposal and for any other about it.
TakeEffect(p) ==
  /\ status[p] \in {"EXECUTING", "FAILED"}
  /\ p \in current /\ p \notin effect \cup manual \cup nominal
  /\ effect' = effect \cup {p}
  /\ current' \subseteq current \ {p}
  /\ UNCHANGED <<status, manual, nominal, learned>>

Complete(p) ==
  /\ p \in effect \cup manual \cup nominal
  /\ Becomes(p, {"EXECUTING"}, "COMPLETED")
  /\ \/ p \notin manual /\ learned' = learned \cup {p}
     \/ UNCHANGED learned
  /\ UNCHANGED <<manual, nominal, current, effect>>

GiveUp(p) ==
  \/ p \notin effect /\ Move(p, {"EXECUTING"}, "STALE")
  \/ Move(p, {"EXECUTING"}, "FAILED")

Forget(p) == Move(p, {"COMPLETED", "REJECTED", "FAILED", "STALE", "EXPIRED"}, "PRUNED")

\* Somebody else changes a target: what was outdated stays outdated.
Outdate ==
  /\ current' \subseteq current
  /\ UNCHANGED <<status, manual, nominal, effect, learned>>

Next ==
  \/ Outdate
  \/ \E p \in Proposals :
       Create(p) \/ Decide(p) \/ Start(p) \/ TakeEffect(p) \/ Complete(p) \/ GiveUp(p) \/ Forget(p)

Spec == Init /\ [][Next]_proposalVars
=============================================================================
