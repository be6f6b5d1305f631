----------------------------- MODULE FleetRegistry -----------------------------
(***************************************************************************)
(* The heartbeat loop of each edge node (heartbeat.py), the network, and   *)
(* the fleet's table of devices with its drift flag (db.py).               *)
(*                                                                         *)
(* A loop sends one heartbeat, waits for the post to come back, sleeps and *)
(* starts over.  A post gives up after 5 s while its request may still     *)
(* reach the fleet, so a heartbeat can be overtaken by a later one.        *)
(* Nothing is sent twice: httpx does not retry.  The fleet handles a       *)
(* heartbeat in one transaction without an await.                          *)
(*                                                                         *)
(* The rates are counts of misjudged holdout images out of HoldoutSize.    *)
(* The code compares the difference of their float quotients with 0.15; if *)
(* it is exactly 0.15, rounding decides, one way for some pairs of rates   *)
(* and the other way for others.                                           *)
(***************************************************************************)
EXTENDS Integers, FiniteSets

CONSTANTS
  Devices,
  HoldoutSize, \* number of holdout images of a device
  Rates,       \* the counts of misjudged images that occur
  TiesUp,      \* <<rate, baseline>> whose floats differ by more than 0.15
               \* although the quotients differ by exactly that
  None,        \* no holdout images, hence no rate
  Raises,      \* the evaluation raises: the active model's files are missing
  NoRow,       \* the fleet has never heard of the device
  MaxInFlight  \* bound on the heartbeats of a device in the network

ASSUME RegistryAssumption ==
  /\ HoldoutSize \in Nat \ {0}
  /\ Rates \subseteq 0..HoldoutSize
  /\ TiesUp \subseteq Rates \X Rates
  /\ \A t \in TiesUp : 20 * (t[1] - t[2]) \in {3 * HoldoutSize, -(3 * HoldoutSize)}
  /\ None \notin Rates /\ Raises \notin Rates \union {None}
  /\ MaxInFlight \in Nat \ {0}

VARIABLES
  health, \* what evaluating the device's active model would give now
  task,   \* its heartbeat loop: asleep, posting, or dead
  net,    \* heartbeats sent and neither received nor lost
  rows,   \* the devices table
  first   \* history: the first rate, other than none, the fleet received

fleetVars == <<health, task, net, rows, first>>

Reports == Rates \union {None}

Rows == [rate : Reports, baseline : Reports, drifting : BOOLEAN]

ASSUME NoRowAssumption == NoRow \notin Rows

Heartbeats == [device : Devices, rate : Reports]

Init ==
  /\ health \in [Devices -> Reports \union {Raises}]
  /\ task = [d \in Devices |-> "asleep"]
  /\ net = {}
  /\ rows = [d \in Devices |-> NoRow]
  /\ first = [d \in Devices |-> None]

-------------------------------------------------------------------------------
(* upsert_device. *)

MovedFar(rate, baseline) ==
  /\ rate # None /\ baseline # None
  /\ 20 * (rate - baseline) > 3 * HoldoutSize \/ 20 * (baseline - rate) > 3 * HoldoutSize

Moved(rate, baseline) == MovedFar(rate, baseline) \/ <<rate, baseline>> \in TiesUp

(* A device without a baseline is compared with the rate it reports. *)
Baseline(row, rate) ==
  IF row = NoRow \/ row.baseline = None THEN rate ELSE row.baseline

(* Mutant: "drifting" is missing from the conflict clause. *)
UpsertKeepsFlag(row, rate) ==
  [rate     |-> rate,
   baseline |-> IF row = NoRow THEN rate ELSE row.baseline,
   drifting |-> IF row = NoRow THEN FALSE ELSE row.drifting]

(* Mutant: the reported rate becomes the baseline of an existing row. *)
UpsertMovesBaseline(row, rate) ==
  [rate |-> rate, baseline |-> rate, drifting |-> Moved(rate, Baseline(row, rate))]

(* Mutant: INSERT OR IGNORE. *)
UpsertIgnores(row, rate) ==
  IF row = NoRow THEN [rate |-> rate, baseline |-> rate, drifting |-> FALSE] ELSE row

(* The conflict clause of the insert lists every column but the baseline:  *)
(* an existing row keeps the one it was inserted with, none included.      *)
Upsert(row, rate) ==
  [rate     |-> rate,
   baseline |-> IF row = NoRow THEN rate ELSE row.baseline,
   drifting |-> Moved(rate, Baseline(row, rate))]

-------------------------------------------------------------------------------
(* Another model, threshold or set of holdout images on the device. *)
HealthChanges(d) ==
  /\ \E h \in Reports \union {Raises} : health' = [health EXCEPT ![d] = h]
  /\ UNCHANGED <<task, net, rows, first>>

(* Mutant: what the evaluation raised is sent as if it were a rate. *)
BeatSendsError(d) ==
  /\ task[d] = "asleep"
  /\ task' = [task EXCEPT ![d] = "posting"]
  /\ Cardinality({m \in net : m.device = d}) < MaxInFlight
  /\ net' = net \union {[device |-> d, rate |-> health[d]]}
  /\ UNCHANGED <<health, rows, first>>

(* One round of _send_once up to its await.  Only httpx errors are caught: *)
(* an evaluation that raises ends the loop, which nobody starts again.     *)
Beat(d) ==
  /\ task[d] = "asleep"
  /\ IF health[d] = Raises
       THEN task' = [task EXCEPT ![d] = "dead"] /\ UNCHANGED net
       ELSE /\ task' = [task EXCEPT ![d] = "posting"]
            /\ Cardinality({m \in net : m.device = d}) < MaxInFlight
            /\ net' = net \union {[device |-> d, rate |-> health[d]]}
  /\ UNCHANGED <<health, rows, first>>

(* The post comes back, with an answer, an error or a timeout. *)
PostReturns(d) ==
  /\ task[d] = "posting"
  /\ task' = [task EXCEPT ![d] = "asleep"]
  /\ UNCHANGED <<health, net, rows, first>>

Receive(m) ==
  /\ m \in net
  /\ net' = net \ {m}
  /\ rows' = [rows EXCEPT ![m.device] = Upsert(rows[m.device], m.rate)]
  /\ first' = [first EXCEPT ![m.device] = IF @ = None THEN m.rate ELSE @]
  /\ UNCHANGED <<health, task>>

Lose(m) ==
  /\ m \in net
  /\ net' = net \ {m}
  /\ UNCHANGED <<health, task, rows, first>>

(* The node restarts; what it had sent is still on its way. *)
NodeRestarts(d) ==
  /\ task' = [task EXCEPT ![d] = "asleep"]
  /\ UNCHANGED <<health, net, rows, first>>

Next ==
  \/ \E d \in Devices : HealthChanges(d) \/ Beat(d) \/ PostReturns(d) \/ NodeRestarts(d)
  \/ \E m \in net : Receive(m) \/ Lose(m)

Spec == Init /\ [][Next]_fleetVars

(* A live loop goes on and no request stays in the network for ever.  A    *)
(* link that carries heartbeats again and again delivers some of them.     *)
Fairness ==
  /\ \A d \in Devices : WF_fleetVars(Beat(d)) /\ WF_fleetVars(PostReturns(d))
  /\ \A m \in Heartbeats :
       WF_fleetVars(Receive(m) \/ Lose(m)) /\ SF_fleetVars(Receive(m))

FairSpec == Spec /\ Fairness

-------------------------------------------------------------------------------
(* Kinds of value: no heartbeat carries, and no row stores, anything but a *)
(* rate or its absence.                                                    *)
TypeOK ==
  /\ health \in [Devices -> Reports \union {Raises}]
  /\ task \in [Devices -> {"asleep", "posting", "dead"}]
  /\ net \subseteq Heartbeats
  /\ rows \in [Devices -> Rows \union {NoRow}]
  /\ first \in [Devices -> Reports]

(* The stored drift flag is the one its row's rate and baseline imply,     *)
(* whatever heartbeats were lost or overtaken: GET /drift never lists a    *)
(* row on the strength of an older rate.                                   *)
DriftFlagFresh ==
  \A d \in Devices :
    rows[d] # NoRow => (rows[d].drifting <=> Moved(rows[d].rate, rows[d].baseline))

(* A device that has a baseline has its first reported rate for one: later *)
(* heartbeats, node restarts and gaps in the reports never move it.        *)
BaselineIsFirst ==
  \A d \in Devices :
    rows[d] # NoRow => rows[d].baseline \in {None, first[d]}

(* "If the fleet is unreachable, heartbeats fail silently" and the loop    *)
(* goes on (F10, F13): once a device settles on a rate, the fleet ends up  *)
(* showing it for good, whatever was lost, late or out of order before.    *)
RowCatchesUp ==
  \A d \in Devices : \A h \in Reports :
    <>[](health[d] = h /\ task[d] # "dead") => <>[](rows[d] # NoRow /\ rows[d].rate = h)

(* GET /drift as documented: "devices whose holdout FP rate has moved      *)
(* >0.15 from their own baseline", which is "captured at first heartbeat". *)
(* A device whose current rate is that far from the first rate it ever     *)
(* reported is listed.                                                     *)
DriftIsReported ==
  \A d \in Devices :
    rows[d] # NoRow /\ Moved(rows[d].rate, first[d]) => rows[d].drifting

(* "The node pushes a heartbeat every 10s", and "on failure it just        *)
(* retries in 10s": as long as the process runs, so does its loop.         *)
LoopSurvives == \A d \in Devices : task[d] # "dead"
===============================================================================
