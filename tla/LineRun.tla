-------------------------------- MODULE LineRun --------------------------------
(***************************************************************************)
(* A feeder run against one node: what the feeder counts and what the node *)
(* keeps of the same images.  The node inspects an image it was sent at    *)
(* most once, possibly after the feeder has given it up, and an image is   *)
(* answered well only once it was inspected.                               *)
(***************************************************************************)
EXTENDS Feeder

CONSTANTS MaxSamples, Percents, MaxLatency \* as in LatencyWindow

ASSUME LineAssumption ==
  MaxSamples \in Nat \ {0} /\ Percents \subseteq 0..99 /\ MaxLatency \in Nat

VARIABLES
  samples, total_inspections, \* the node's metrics, as in LatencyWindow
  inspected                   \* history: the images the node has inspected

M == INSTANCE LatencyWindow

nodeVars == <<samples, total_inspections, inspected>>
lineVars == <<vars, nodeVars>>

LineInit ==
  /\ Init
  /\ M!Init
  /\ inspected = {}

(* POST /inspect, up to metrics.record(). *)
Inspect(i, ms) ==
  /\ tasks[i] \in {"sent", "failed"} /\ i \notin inspected
  /\ M!Record(ms)
  /\ inspected' = inspected \union {i}
  /\ UNCHANGED vars

Feed(step) == step /\ UNCHANGED nodeVars

LineNext ==
  \/ \E i \in 1..Len(tasks), ms \in 0..MaxLatency : Inspect(i, ms)
  \/ Feed(CreateTask)
  \/ \E i \in 1..Len(tasks) : Feed(SendOne(i)) \/ Feed(Answered(i, FALSE))
  \/ \E i \in inspected : Feed(Answered(i, TRUE))
  \/ Feed(TimeIsUp)
  \/ Feed(Return)

LineSpec == LineInit /\ [][LineNext]_lineVars /\ Fairness

-------------------------------------------------------------------------------
(* Kinds of value of feeder and node; the deque holds all samples until it *)
(* is full, and every inspection was recorded once.                        *)
LineTypeOK ==
  /\ TypeOK
  /\ M!TypeOK
  /\ inspected \subseteq 1..Len(tasks)
  /\ total_inspections = Cardinality(inspected)

(* The percentiles the node reports are percentiles of its last samples.  *)
PercentileIsRank == M!PercentileIsRank
===============================================================================
