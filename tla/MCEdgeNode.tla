------------------------------ MODULE MCEdgeNode ------------------------------
(***************************************************************************)
(* Small edge nodes for TLC.  good is the version they ship with; worse    *)
(* arrives by bundle, or is named by POST /model before its files exist.   *)
(***************************************************************************)
EXTENDS EdgeNode, TLC

CONSTANTS good, worse, h1, h2, part1, part2

(* worse scores every holdout image one step above good, up to the top of  *)
(* the scale, so that the gate's answer depends on the threshold in force: *)
(* at 0 good misjudges h2 and worse both, at 1 worse misjudges at most h2, *)
(* and at 2 nobody misjudges any.                                          *)
MCHoldoutScore ==
  [v \in Versions |-> [h \in Holdout |->
     LET s == (IF h = h1 THEN 0 ELSE 1) + (IF v = worse THEN 1 ELSE 0)
     IN  IF s > MaxScore THEN MaxScore ELSE s]]

(* For the liveness run nobody uses the override button, which no handler  *)
(* but itself and GET /health look at.                                     *)
NoOverrides == Next /\ total_overrides' = 0

LiveSpec == Init /\ [][NoOverrides]_vars /\ Fairness

Symmetry == Permutations(Requests)
===============================================================================
