----------------------------- MODULE LatencyWindow -----------------------------
(***************************************************************************)
(* The latencies a node keeps (metrics.py): the last MaxSamples of them,   *)
(* and the percentiles that GET /health and the heartbeat report.  The     *)
(* feeder computes its own in the same way (feeder.py).  A percentile is a *)
(* whole number here; int(0.95 * n) and int(0.99 * n) round as the         *)
(* quotients do for all n up to the 2000 samples of the code.              *)
(***************************************************************************)
EXTENDS Naturals, Sequences, FiniteSets, Functions

CONSTANTS
  MaxSamples,  \* max_samples, 2000 in the code
  Percents,    \* 50, 95 and 99 in the code
  MaxLatency   \* bound on the latencies

VARIABLES
  samples,           \* the deque, oldest first
  total_inspections

Init == samples = <<>> /\ total_inspections = 0

(* Mutant: the deque has no maxlen. *)
PushUnbounded(ms) == Append(samples, ms)

(* The oldest latency falls out of a full deque. *)
Push(ms) ==
  Append(IF Len(samples) = MaxSamples THEN Tail(samples) ELSE samples, ms)

(* record(), under its lock. *)
Record(ms) ==
  /\ samples' = Push(ms)
  /\ total_inspections' = total_inspections + 1

Smaller(a, b) == IF a <= b THEN a ELSE b

(* Mutant: the index is taken for a position that starts at one. *)
IndexFromOne(p, n) == Smaller((p * n) \div 100 + 1, n - 1)

(* Into the sorted samples, from zero. *)
Index(p, n) == Smaller((p * n) \div 100, n - 1)

(* sorted(): the samples in an order in which none is less than one before. *)
Sorted ==
  LET order == CHOOSE o \in Bijection(DOMAIN samples, DOMAIN samples) :
                 \A i, j \in DOMAIN samples : i < j => samples[o[i]] <= samples[o[j]]
  IN  [i \in DOMAIN samples |-> samples[order[i]]]

Percentile(p) == Sorted[Index(p, Len(samples)) + 1]

-------------------------------------------------------------------------------
(* Kinds of value; the deque is full once MaxSamples were recorded. *)
TypeOK ==
  /\ samples \in Seq(0..MaxLatency)
  /\ total_inspections \in Nat
  /\ Len(samples) = Smaller(total_inspections, MaxSamples)

(* A reported percentile is one: at most p percent of the kept latencies   *)
(* lie below it, and more than p percent lie at it or below.               *)
PercentileIsRank ==
  samples # <<>> =>
    \A p \in Percents :
      LET n == Len(samples)
          Count(S) == Cardinality({i \in 1..n : samples[i] \in S})
          v == Percentile(p)
      IN  /\ 100 * Count(0..(v - 1)) <= p * n
          /\ 100 * Count(0..v) > p * n
===============================================================================
