------------------------------ MODULE MCRollout ------------------------------
(***************************************************************************)
(* Small fleets for TLC.  old is the version devices start with.           *)
(***************************************************************************)
EXTENDS Rollout

CONSTANTS d1, d2, r1, r2, old, new

(* One stage of two devices, an empty stage, and the first device again;   *)
(* and a second rollout, back to the old version, which takes the second   *)
(* device alone.                                                           *)
Cohorts  == <<<<d1, d2>>, <<>>, <<d1>>>>
JustOne  == <<<<d2>>>>
MCStages == [r \in Rollouts |-> IF r = r1 THEN Cohorts ELSE JustOne]
MCTarget == [r \in Rollouts |-> IF r = r1 THEN new ELSE old]
===============================================================================
