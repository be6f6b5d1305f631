------------------------------ MODULE Activation ------------------------------
(***************************************************************************)
(* POST /model/activate between the two things outside the node that it    *)
(* depends on: the maintenance window lets an activation begin or answers  *)
(* 409, and the holdout directory, which a training run may be replacing,  *)
(* decides how it ends.  The window is asked once, before the swap: an     *)
(* evaluation goes on when it closes, and training runs ask nobody.        *)
(***************************************************************************)
EXTENDS HoldoutRefresh, MaintenanceWindow

allVars == <<vars, windowVars>>

ActivationInit == Init /\ WindowInit

ActivateInWindow ==
  /\ InMaintenanceWindow
  /\ Activate
  /\ UNCHANGED windowVars

ClockTicks == Tick /\ UNCHANGED vars

ActivationNext ==
  \/ ActivateInWindow
  \/ (TrainingStep \/ Evaluate) /\ UNCHANGED windowVars
  \/ ClockTicks

(* The clock runs; nobody has to train or to activate anything. *)
ActivationSpec == ActivationInit /\ [][ActivationNext]_allVars /\ WF_allVars(ClockTicks)
===============================================================================
