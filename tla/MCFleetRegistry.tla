---------------------------- MODULE MCFleetRegistry ----------------------------
(***************************************************************************)
(* Small fleets for TLC.                                                   *)
(***************************************************************************)
EXTENDS FleetRegistry

(* The pairs of twentieths a, b with a - b = 3/20 whose doubles satisfy    *)
(* abs(a - b) > 0.15; the other pairs that far apart do not.               *)
TwentyImageTies ==
  LET up == {4, 8, 9, 10, 11, 13, 15, 16, 17, 18, 20}
      Up(a, b) == a = b + 3 /\ a \in up
  IN  {t \in Rates \X Rates : Up(t[1], t[2]) \/ Up(t[2], t[1])}
===============================================================================
