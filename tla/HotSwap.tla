-------------------------------- MODULE HotSwap --------------------------------
(***************************************************************************)
(* What an edge node promises about model swaps, as its clients see it:    *)
(* one model is in service, a promotion replaces it in a single step or is *)
(* discarded without a trace, and an inspection belongs to the model that  *)
(* was in service when it began, from its first step to its answer.  There *)
(* is no trial period and nothing to roll back here; EdgeNode, where the   *)
(* staged model does take the active slot while it is being judged, is     *)
(* shown to implement this module.                                         *)
(***************************************************************************)
CONSTANTS Versions, None, Initial, Requests

VARIABLES
  live,      \* the version in service
  candidate, \* the version waiting for promotion, or None
  calls      \* each inspection: not begun, open or done, and its version

swapVars == <<live, candidate, calls>>

Fresh == [at |-> "new", version |-> None]

Init ==
  /\ live = Initial
  /\ candidate = None
  /\ calls = [r \in Requests |-> Fresh]

Begin(r) ==
  /\ calls[r] = Fresh
  /\ \E stage \in {"open", "done"} :
       calls' = [calls EXCEPT ![r] = [at |-> stage, version |-> live]]
  /\ UNCHANGED <<live, candidate>>

End(r) ==
  /\ calls[r].at = "open"
  /\ calls' = [calls EXCEPT ![r].at = "done"]
  /\ UNCHANGED <<live, candidate>>

Propose(v) ==
  /\ candidate' = v
  /\ UNCHANGED <<live, calls>>

Promote ==
  /\ candidate # None
  /\ live' = candidate
  /\ candidate' = None
  /\ UNCHANGED calls

Discard ==
  /\ candidate # None
  /\ candidate' = None
  /\ UNCHANGED <<live, calls>>

Restart == Init'

Next ==
  \/ \E r \in Requests : Begin(r) \/ End(r)
  \/ \E v \in Versions : Propose(v)
  \/ Promote
  \/ Discard
  \/ Restart

Spec == Init /\ [][Next]_swapVars
===============================================================================
