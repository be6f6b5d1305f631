------------------------------ MODULE RolloutGate ------------------------------
(***************************************************************************)
(* What a staged rollout promises (F11), whatever devices, network and     *)
(* operators do: a device of a stage is asked only once every device of    *)
(* every earlier stage has reported healthy, "complete" means that all of  *)
(* them have, "halted" that one has not, and neither is ever taken back.   *)
(* A rollout may also stop asking without saying so.                       *)
(***************************************************************************)
EXTENDS Naturals, Sequences

CONSTANTS
  Rollouts,
  Stages    \* the devices of each stage of each rollout, in order

VARIABLES
  status,   \* the rollouts table, or "none" for a rollout not yet requested
  asked,    \* the positions each rollout has sent a request to
  healthy   \* those that reported healthy to it

gateVars == <<status, asked, healthy>>

(* A device may be named twice; it is then asked twice. *)
Positions(r) == UNION {{i} \X (1..Len(Stages[r][i])) : i \in 1..Len(Stages[r])}

Earlier(r, p) == {q \in Positions(r) : q[1] < p[1]}

Init ==
  /\ status = [r \in Rollouts |-> "none"]
  /\ asked = [r \in Rollouts |-> {}]
  /\ healthy = [r \in Rollouts |-> {}]

Open(r) ==
  /\ status[r] = "none"
  /\ status' = [status EXCEPT ![r] = "in_progress"]
  /\ UNCHANGED <<asked, healthy>>

(* A report may come in with the decision it leads to. *)
Hear(r) ==
  \E P \in SUBSET asked[r] : healthy' = [healthy EXCEPT ![r] = @ \union P]

Ask(r, p) ==
  /\ Earlier(r, p) \subseteq healthy'[r]
  /\ asked' = [asked EXCEPT ![r] = @ \union {p}]
  /\ UNCHANGED status

Settle(r) ==
  /\ status' = [status EXCEPT ![r] =
       IF Positions(r) \subseteq healthy'[r] THEN "complete" ELSE "halted"]
  /\ UNCHANGED asked

Proceed(r) ==
  /\ status[r] = "in_progress"
  /\ Hear(r)
  /\ Settle(r) \/ \E p \in Positions(r) : Ask(r, p)

Next == \E r \in Rollouts : Open(r) \/ Proceed(r)

Spec == Init /\ [][Next]_gateVars
===============================================================================
