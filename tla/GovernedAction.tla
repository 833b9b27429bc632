--------------------------- MODULE GovernedAction ---------------------------
(***************************************************************************)
(* What the product promises of a governed action: an engineer proposes    *)
(* it, an owner approves it, it is submitted once, it takes effect on the  *)
(* cluster at most once and only after submission, and what is recorded of *)
(* it is true.  APPLIED means that it took effect, FAILED that it did not  *)
(* and never will; AMBIGUOUS promises neither.                             *)
(***************************************************************************)
CONSTANT Actions

VARIABLES
  status,  \* the recorded state of each action
  effect   \* whether the Pod was deleted on behalf of the action

promiseVars == <<status, effect>>

Init ==
  /\ status = [a \in Actions |-> "NONE"]
  /\ effect = [a \in Actions |-> FALSE]

Move(a, from, to) ==
  /\ status[a] = from
  /\ status' = [status EXCEPT ![a] = to]
  /\ UNCHANGED effect

Propose(a) == Move(a, "NONE", "PROPOSED")
Approve(a) == Move(a, "PROPOSED", "APPROVED")
Cancel(a) == Move(a, "PROPOSED", "CANCELLED") \/ Move(a, "APPROVED", "CANCELLED")
Submit(a) == Move(a, "APPROVED", "SUBMITTED")

TakeEffect(a) ==
  /\ status[a] \in {"SUBMITTED", "AMBIGUOUS"}
  /\ ~effect[a]
  /\ effect' = [effect EXCEPT ![a] = TRUE]
  /\ UNCHANGED status

Conclude(a) ==
  \/ effect[a] /\ Move(a, "SUBMITTED", "APPLIED")
  \/ ~effect[a] /\ Move(a, "SUBMITTED", "FAILED")
  \/ Move(a, "SUBMITTED", "AMBIGUOUS")

Next ==
  \E a \in Actions :
    Propose(a) \/ Approve(a) \/ Cancel(a) \/ Submit(a) \/ TakeEffect(a) \/ Conclude(a)

Spec == Init /\ [][Next]_promiseVars
=============================================================================
