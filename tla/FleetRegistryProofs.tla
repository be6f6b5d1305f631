-------------------------- MODULE FleetRegistryProofs --------------------------
(***************************************************************************)
(* The drift table is consistent for any devices, rates and network.  The  *)
(* inductive invariant adds that a device without a row has reported       *)
(* nothing, so that the first rate received is the one a new row stores.   *)
(***************************************************************************)
EXTENDS FleetRegistry, TLAPS

NothingBeforeRow == \A d \in Devices : rows[d] = NoRow => first[d] = None

FleetInv == TypeOK /\ DriftFlagFresh /\ BaselineIsFirst /\ NothingBeforeRow

(* An upsert stores a row whose flag agrees with its columns and whose     *)
(* baseline is the reported rate (a new row) or the old one.               *)
LEMMA UpsertShape ==
  ASSUME NEW row \in Rows \union {NoRow}, NEW rate \in Reports
  PROVE  /\ Upsert(row, rate) \in Rows
         /\ Upsert(row, rate).baseline = IF row = NoRow THEN rate ELSE row.baseline
         /\ Upsert(row, rate).drifting
              <=> Moved(Upsert(row, rate).rate, Upsert(row, rate).baseline)
  <1> USE RegistryAssumption, NoRowAssumption
  <1>1. Moved(rate, Baseline(row, rate)) \in BOOLEAN
    BY DEF Moved, MovedFar
  <1>2. Upsert(row, rate) \in Rows
    BY <1>1 DEF Upsert, Rows, Reports
  <1>3. CASE row = NoRow
    BY <1>2, <1>3 DEF Upsert, Baseline
  <1>4. CASE row # NoRow
    <2>1. CASE row.baseline = None
      <3>1. Upsert(row, rate).baseline = None /\ Upsert(row, rate).rate = rate
        BY <1>4, <2>1 DEF Upsert
      <3>2. ~Moved(rate, None) BY DEF Moved, MovedFar
      <3>3. ~Upsert(row, rate).drifting
        <4>1. Baseline(row, rate) = rate BY <2>1 DEF Baseline
        <4>2. ~Moved(rate, rate) BY DEF Moved, MovedFar, Reports
        <4> QED BY <4>1, <4>2 DEF Upsert
      <3> QED BY <1>2, <1>4, <2>1, <3>1, <3>2, <3>3
    <2>2. CASE row.baseline # None
      BY <1>2, <1>4, <2>2 DEF Upsert, Baseline
    <2> QED BY <2>1, <2>2
  <1> QED BY <1>3, <1>4

LEMMA InitFleet == Init => FleetInv
  BY RegistryAssumption, NoRowAssumption
  DEF Init, FleetInv, TypeOK, DriftFlagFresh, BaselineIsFirst, NothingBeforeRow, Reports

LEMMA ReceiveFleet == ASSUME FleetInv, NEW m \in net, Receive(m) PROVE FleetInv'
  <1> USE RegistryAssumption, NoRowAssumption
  <1> DEFINE d == m.device
             row == Upsert(rows[d], m.rate)
  <1>1. d \in Devices /\ m.rate \in Reports /\ rows[d] \in Rows \union {NoRow}
    BY DEF FleetInv, TypeOK, Heartbeats
  <1>2. /\ row \in Rows /\ row # NoRow
        /\ row.baseline = IF rows[d] = NoRow THEN m.rate ELSE rows[d].baseline
        /\ row.drifting <=> Moved(row.rate, row.baseline)
    BY <1>1, UpsertShape
  <1>3. /\ rows' = [rows EXCEPT ![d] = row]
        /\ first' = [first EXCEPT ![d] = IF first[d] = None THEN m.rate ELSE first[d]]
        /\ net' \subseteq net
        /\ UNCHANGED <<health, task>>
    BY DEF Receive
  <1> HIDE DEF d, row
  <1>4. TypeOK'
    BY <1>1, <1>2, <1>3 DEF FleetInv, TypeOK
  <1>5. /\ rows'[d] = row /\ first'[d] = IF first[d] = None THEN m.rate ELSE first[d]
        /\ \A e \in Devices : e # d => rows'[e] = rows[e] /\ first'[e] = first[e]
    BY <1>1, <1>3 DEF FleetInv, TypeOK
  <1>6. DriftFlagFresh'
    BY <1>2, <1>5 DEF FleetInv, DriftFlagFresh
  <1>7. BaselineIsFirst' /\ NothingBeforeRow'
    BY <1>1, <1>2, <1>5 DEF FleetInv, BaselineIsFirst, NothingBeforeRow
  <1> QED BY <1>4, <1>6, <1>7 DEF FleetInv

LEMMA StepFleet == ASSUME FleetInv, [Next]_fleetVars PROVE FleetInv'
  <1> USE DEF FleetInv, DriftFlagFresh, BaselineIsFirst, NothingBeforeRow
  <1>1. ASSUME NEW d \in Devices, HealthChanges(d) PROVE FleetInv'
    BY <1>1 DEF HealthChanges, TypeOK
  <1>2. ASSUME NEW d \in Devices, Beat(d) PROVE FleetInv'
    <2>1. CASE health[d] = Raises
      BY <1>2, <2>1 DEF Beat, TypeOK
    <2>2. CASE health[d] # Raises
      <3>1. [device |-> d, rate |-> health[d]] \in Heartbeats
        BY <2>2 DEF TypeOK, Heartbeats
      <3> QED BY <1>2, <2>2, <3>1 DEF Beat, TypeOK
    <2> QED BY <2>1, <2>2
  <1>3. ASSUME NEW d \in Devices, PostReturns(d) \/ NodeRestarts(d) PROVE FleetInv'
    BY <1>3 DEF PostReturns, NodeRestarts, TypeOK
  <1>4. ASSUME NEW m \in net, Receive(m) PROVE FleetInv'
    BY <1>4, ReceiveFleet
  <1>5. ASSUME NEW m \in net, Lose(m) PROVE FleetInv'
    BY <1>5 DEF Lose, TypeOK
  <1>6. CASE UNCHANGED fleetVars
    BY <1>6 DEF fleetVars, TypeOK
  <1> QED BY <1>1, <1>2, <1>3, <1>4, <1>5, <1>6 DEF Next

THEOREM FleetInvariant == Spec => []FleetInv
  BY InitFleet, StepFleet, PTL DEF Spec

(* Neither rows nor heartbeats ever hold anything but a rate or its        *)
(* absence, whatever evaluations raise on the nodes.                       *)
THEOREM FleetTypeCorrect == Spec => []TypeOK
  BY FleetInvariant, PTL DEF FleetInv

(* GET /drift never rests on an older rate, in any order of delivery. *)
THEOREM DriftFlagCorrect == Spec => []DriftFlagFresh
  BY FleetInvariant, PTL DEF FleetInv

(* A stored baseline is the device's first reported rate, for ever. *)
THEOREM BaselineCorrect == Spec => []BaselineIsFirst
  BY FleetInvariant, PTL DEF FleetInv
===============================================================================
