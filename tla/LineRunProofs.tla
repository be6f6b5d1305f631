----------------------------- MODULE LineRunProofs -----------------------------
(***************************************************************************)
(* A feeder run of any size against a node with a latency window of any    *)
(* size.  The counters of the feeder are numbers, while its promise is     *)
(* about tasks; FeederInv ties each of them to a set of tasks: the places  *)
(* taken to those under way, the totals to those answered, the latencies   *)
(* to those answered, once each.  The percentiles need that any sequence   *)
(* can be sorted, which is shown by counting: the place of a sample is one *)
(* more than the number of samples ahead of it.                            *)
(***************************************************************************)
EXTENDS LineRun, FiniteSetTheorems, SequenceTheorems, TLAPS

Done == In("ok") \union In("failed")

FeederInv ==
  /\ TypeOK
  /\ PlacesAccounted
  /\ Len(latencies) = total /\ {latencies[i] : i \in 1..Len(latencies)} = Done
  /\ total = Cardinality(Done) /\ failures = Cardinality(In("failed"))
  /\ phase = "returned" => TasksOver

-------------------------------------------------------------------------------
States == {"queued", "sent", "ok", "failed"}

LEMMA FirstNumbers ==
  ASSUME NEW n \in Nat
  PROVE  IsFiniteSet(1..n) /\ Cardinality(1..n) = n
  <1>1. 1 \in Int /\ n \in Int
    OBVIOUS
  <1>2. IsFiniteSet(1..n) /\ Cardinality(1..n) = IF 1 > n THEN 0 ELSE n - 1 + 1
    BY <1>1, FS_Interval
  <1>3. (IF 1 > n THEN 0 ELSE n - 1 + 1) = n
    OBVIOUS
  <1> QED BY <1>2, <1>3

LEMMA InFinite ==
  ASSUME tasks \in Seq(States), NEW s
  PROVE  IsFiniteSet(In(s)) /\ In(s) \subseteq 1..Len(tasks)
  <1>1. Len(tasks) \in Nat
    OBVIOUS
  <1>2. IsFiniteSet(1..Len(tasks))
    BY <1>1, FirstNumbers
  <1> QED BY <1>2, FS_Subset DEF In

(* A task that moves on leaves one set of tasks for another. *)
LEMMA TaskMoves ==
  ASSUME tasks \in Seq(States), NEW i \in 1..Len(tasks), NEW to \in States,
         tasks' = [tasks EXCEPT ![i] = to]
  PROVE  /\ tasks' \in Seq(States) /\ Len(tasks') = Len(tasks)
         /\ \A s : In(s)' = IF s = to THEN In(s) \union {i} ELSE In(s) \ {i}
  BY DEF In

LEMMA TaskAppears ==
  ASSUME tasks \in Seq(States), tasks' = Append(tasks, "queued")
  PROVE  /\ tasks' \in Seq(States) /\ Len(tasks') = Len(tasks) + 1
         /\ \A s \in States \ {"queued"} : In(s)' = In(s)
  <1>1. /\ tasks' \in Seq(States) /\ Len(tasks') = Len(tasks) + 1 /\ Len(tasks) \in Nat
        /\ \A i \in 1..Len(tasks) : tasks'[i] = tasks[i]
        /\ tasks'[Len(tasks) + 1] = "queued"
    BY DEF States
  <1>2. ASSUME NEW s \in States \ {"queued"} PROVE In(s)' = In(s)
    <2>1. \A i \in 1..Len(tasks') : tasks'[i] = s => i \in 1..Len(tasks)
      BY <1>1, <1>2
    <2>2. \A i \in 1..Len(tasks) : i \in 1..Len(tasks')
      BY <1>1
    <2> QED BY <1>1, <2>1, <2>2 DEF In
  <1> QED BY <1>1, <1>2

LEMMA FeederBegins == Init => FeederInv
  <1> SUFFICES ASSUME Init PROVE FeederInv OBVIOUS
  <1>1. \A s : In(s) = {}
    BY DEF Init, In
  <1>2. Done = {} /\ Cardinality(Done) = 0 /\ Cardinality(In("sent")) = 0 /\ Cardinality(In("failed")) = 0
    BY <1>1, FS_EmptySet DEF Done
  <1>3. TypeOK
    BY FeederAssumption DEF Init, TypeOK
  <1>4. PlacesAccounted
    BY <1>2, FeederAssumption DEF Init, PlacesAccounted
  <1>5. Len(latencies) = 0 /\ {latencies[i] : i \in 1..Len(latencies)} = {}
    BY DEF Init
  <1> QED BY <1>2, <1>3, <1>4, <1>5 DEF Init, FeederInv

LEMMA CreateKeeps == ASSUME FeederInv, CreateTask PROVE FeederInv'
  <1>1. tasks \in Seq(States)
    BY DEF FeederInv, TypeOK, States
  <1>2. /\ tasks' \in Seq(States) /\ Len(tasks') = Len(tasks) + 1
        /\ In("sent")' = In("sent") /\ In("ok")' = In("ok") /\ In("failed")' = In("failed")
    BY <1>1, TaskAppears DEF CreateTask, States
  <1>3. latencies' \in Seq(1..Len(tasks'))
    <2>1. Len(tasks) \in Nat /\ latencies' = latencies /\ latencies \in Seq(1..Len(tasks))
      BY <1>1 DEF CreateTask, FeederInv, TypeOK
    <2>2. 1..Len(tasks) \subseteq 1..Len(tasks')
      BY <1>2, <2>1
    <2> QED BY <2>1, <2>2, SeqMonotonic
  <1>4. TypeOK'
    BY <1>2, <1>3 DEF CreateTask, FeederInv, TypeOK, States
  <1>5. Done' = Done
    BY <1>2 DEF Done
  <1> QED BY <1>2, <1>4, <1>5 DEF CreateTask, FeederInv, PlacesAccounted

LEMMA SendKeeps == ASSUME FeederInv, NEW i \in 1..Len(tasks), SendOne(i) PROVE FeederInv'
  <1>1. tasks \in Seq(States) /\ tasks[i] = "queued"
    BY DEF FeederInv, TypeOK, States, SendOne, FirstQueued, In
  <1>2. /\ tasks' \in Seq(States) /\ Len(tasks') = Len(tasks)
        /\ \A s : In(s)' = IF s = "sent" THEN In(s) \union {i} ELSE In(s) \ {i}
    BY <1>1, TaskMoves DEF SendOne, States
  <1>3. i \notin In("sent") /\ i \notin In("ok") /\ i \notin In("failed")
    BY <1>1 DEF In
  <1>4. In("ok")' = In("ok") /\ In("failed")' = In("failed") /\ In("sent")' = In("sent") \union {i}
    BY <1>2, <1>3
  <1>5. Cardinality(In("sent"))' = Cardinality(In("sent")) + 1 /\ Cardinality(In("sent")) \in Nat
    BY <1>1, <1>3, <1>4, InFinite, FS_AddElement, FS_CardinalityType
  <1>6. TypeOK' /\ PlacesAccounted'
    BY <1>2, <1>5, FeederAssumption
    DEF SendOne, Acquire, FeederInv, TypeOK, PlacesAccounted, States
  <1>7. Done' = Done
    BY <1>4 DEF Done
  <1>8. phase # "returned"
    <2>1. i \in In("queued")
      BY DEF SendOne, FirstQueued
    <2> QED BY <2>1 DEF FeederInv, TasksOver
  <1> QED BY <1>4, <1>6, <1>7, <1>8 DEF SendOne, FeederInv

LEMMA AnswerKeeps ==
  ASSUME FeederInv, NEW i \in 1..Len(tasks), NEW ok \in BOOLEAN, Answered(i, ok)
  PROVE  FeederInv'
  <1> DEFINE to == IF ok THEN "ok" ELSE "failed"
  <1>1. tasks \in Seq(States) /\ tasks[i] = "sent" /\ to \in {"ok", "failed"}
    BY DEF FeederInv, TypeOK, States, Answered
  <1>2. /\ tasks' \in Seq(States) /\ Len(tasks') = Len(tasks)
        /\ \A s : In(s)' = IF s = to THEN In(s) \union {i} ELSE In(s) \ {i}
    BY <1>1, TaskMoves DEF Answered, States
  <1>3. i \in In("sent") /\ i \notin In("ok") /\ i \notin In("failed") /\ i \notin Done
    BY <1>1 DEF In, Done
  <1>4. /\ In("sent")' = In("sent") \ {i}
        /\ In("failed")' = IF ok THEN In("failed") ELSE In("failed") \union {i}
        /\ Done' = Done \union {i}
    BY <1>1, <1>2, <1>3 DEF Done
  <1>5. /\ IsFiniteSet(In("sent")) /\ IsFiniteSet(In("failed")) /\ IsFiniteSet(Done)
    BY <1>1, InFinite, FS_Union DEF Done
  <1>6. /\ Cardinality(In("sent"))' = Cardinality(In("sent")) - 1
        /\ Cardinality(In("sent")) \in Nat /\ Cardinality(In("sent"))' \in Nat
    BY <1>3, <1>4, <1>5, FS_RemoveElement, FS_CardinalityType
  <1>7. /\ Cardinality(Done)' = Cardinality(Done) + 1
        /\ Cardinality(In("failed"))' = IF ok THEN Cardinality(In("failed")) ELSE Cardinality(In("failed")) + 1
    BY <1>3, <1>4, <1>5, FS_AddElement
  <1>8. /\ latencies' \in Seq(1..Len(tasks')) /\ Len(latencies') = Len(latencies) + 1
        /\ {latencies'[k] : k \in 1..Len(latencies')} = {latencies[k] : k \in 1..Len(latencies)} \union {i}
    <2>1. latencies \in Seq(1..Len(tasks)) /\ latencies' = Append(latencies, i)
      BY DEF FeederInv, TypeOK, Answered
    <2>2. /\ latencies' \in Seq(1..Len(tasks)) /\ Len(latencies') = Len(latencies) + 1
          /\ Len(latencies) \in Nat
          /\ \A k \in 1..Len(latencies) : latencies'[k] = latencies[k]
          /\ latencies'[Len(latencies) + 1] = i
      BY <2>1
    <2>3. 1..Len(latencies') = (1..Len(latencies)) \union {Len(latencies) + 1}
      BY <2>2
    <2> QED BY <1>2, <2>2, <2>3
  <1>9. TypeOK' /\ PlacesAccounted'
    <2>1. places' = places + 1 /\ places \in 0..Concurrency /\ Concurrency \in Nat
          /\ places + Cardinality(In("sent")) = Concurrency
      BY FeederAssumption DEF Answered, Release, FeederInv, PlacesAccounted
    <2>2. places' \in 0..Concurrency /\ places' + Cardinality(In("sent"))' = Concurrency
      BY <1>6, <2>1
    <2>3. phase' = phase /\ total' \in Nat /\ failures' \in Nat
      BY DEF Answered, Count, FeederInv, TypeOK
    <2> QED BY <1>2, <1>8, <2>2, <2>3 DEF FeederInv, TypeOK, PlacesAccounted, States
  <1>10. phase # "returned"
    BY <1>3 DEF FeederInv, TasksOver
  <1> HIDE DEF to
  <1>11. total' = total + 1 /\ failures' = (IF ok THEN failures ELSE failures + 1) /\ phase' = phase
    BY DEF Answered, Count
  <1>12. Len(latencies') = total' /\ {latencies'[k] : k \in 1..Len(latencies')} = Done'
    BY <1>4, <1>8, <1>11 DEF FeederInv
  <1>13. total' = Cardinality(Done)' /\ failures' = Cardinality(In("failed"))'
    BY <1>7, <1>11 DEF FeederInv
  <1> QED BY <1>9, <1>10, <1>11, <1>12, <1>13 DEF FeederInv

(* The steps that leave tasks and counters as they are.                    *)
LEMMA PhaseKeeps ==
  ASSUME FeederInv, TimeIsUp \/ Return \/ UNCHANGED vars
  PROVE  FeederInv'
  <1>1. UNCHANGED <<tasks, places, total, failures, latencies>>
    BY DEF TimeIsUp, Return, vars
  <1>2. \A s : In(s)' = In(s)
    BY <1>1 DEF In
  <1>3. Done' = Done /\ (TasksOver' <=> TasksOver)
    BY <1>2 DEF Done, TasksOver
  <1>4. phase' \in {"feeding", "gathering", "returned"} /\ (phase' = "returned" => TasksOver)
    BY DEF TimeIsUp, Return, vars, FeederInv, TypeOK
  <1>5. TypeOK' /\ PlacesAccounted'
    BY <1>1, <1>2, <1>4 DEF FeederInv, TypeOK, PlacesAccounted
  <1> QED BY <1>1, <1>2, <1>3, <1>4, <1>5 DEF FeederInv

LEMMA FeederStep == FeederInv /\ [Next]_vars => FeederInv'
  <1> SUFFICES ASSUME FeederInv, [Next]_vars PROVE FeederInv' OBVIOUS
  <1>1. ASSUME NEW i \in 1..Len(tasks), RunTask(i) PROVE FeederInv'
    BY <1>1, SendKeeps, AnswerKeeps DEF RunTask
  <1> QED BY <1>1, CreateKeeps, PhaseKeeps DEF Next

(* The invariant of the feeder in a run of its own, whatever answers it.   *)
THEOREM FeederInvariant == Spec => []FeederInv
  BY FeederBegins, FeederStep, PTL DEF Spec

-------------------------------------------------------------------------------
(* To the feeder, a run against a node is a run. *)
LEMMA LineStep ==
  ASSUME inspected \subseteq 1..Len(tasks), [LineNext]_lineVars
  PROVE  [Next]_vars
  <1>1. CASE \E i \in 1..Len(tasks), ms \in 0..MaxLatency : Inspect(i, ms)
    BY <1>1 DEF Inspect
  <1>2. ASSUME NEW i \in 1..Len(tasks), SendOne(i) \/ Answered(i, FALSE) PROVE Next
    BY <1>2 DEF Next, RunTask
  <1>3. ASSUME NEW i \in inspected, Answered(i, TRUE) PROVE Next
    BY <1>3 DEF Next, RunTask
  <1> QED BY <1>1, <1>2, <1>3 DEF LineNext, lineVars, Feed, Next

(* What a push does to the latencies that are kept.                        *)
LEMMA PushKeeps ==
  ASSUME NEW n \in Nat, samples \in Seq(0..MaxLatency), Len(samples) = M!Smaller(n, MaxSamples),
         NEW ms \in 0..MaxLatency
  PROVE  /\ M!Push(ms) \in Seq(0..MaxLatency)
         /\ Len(M!Push(ms)) = M!Smaller(n + 1, MaxSamples)
  <1> USE LineAssumption
  <1>1. CASE Len(samples) = MaxSamples
    <2> DEFINE kept == Tail(samples)
    <2>1. kept \in Seq(0..MaxLatency) /\ Len(kept) = MaxSamples - 1
      BY <1>1
    <2>2. M!Push(ms) = Append(kept, ms) /\ M!Smaller(n + 1, MaxSamples) = MaxSamples
      BY <1>1 DEF M!Push, M!Smaller
    <2> HIDE DEF kept
    <2>3. Append(kept, ms) \in Seq(0..MaxLatency) /\ Len(Append(kept, ms)) = MaxSamples
      BY <2>1
    <2> QED BY <2>2, <2>3
  <1>2. CASE Len(samples) # MaxSamples
    <2>1. M!Push(ms) = Append(samples, ms) /\ Len(samples) = n /\ n < MaxSamples
      BY <1>2 DEF M!Push, M!Smaller
    <2>2. Append(samples, ms) \in Seq(0..MaxLatency) /\ Len(Append(samples, ms)) = n + 1
      BY <2>1
    <2> QED BY <2>1, <2>2 DEF M!Smaller
  <1> QED BY <1>1, <1>2

LineInv == LineTypeOK /\ FeederInv

LEMMA InspectedFinite == ASSUME LineTypeOK PROVE IsFiniteSet(inspected)
  <1>1. IsFiniteSet(1..Len(tasks))
    BY FirstNumbers DEF LineTypeOK, TypeOK
  <1> QED BY <1>1, FS_Subset DEF LineTypeOK

LEMMA InspectStep ==
  ASSUME LineInv, NEW i \in 1..Len(tasks), NEW ms \in 0..MaxLatency, Inspect(i, ms)
  PROVE  LineTypeOK'
  <1>1. samples' \in Seq(0..MaxLatency) /\ Len(samples') = M!Smaller(total_inspections + 1, MaxSamples)
    BY PushKeeps DEF LineInv, LineTypeOK, M!TypeOK, Inspect, M!Record
  <1>2. total_inspections' = total_inspections + 1 /\ total_inspections \in Nat
    BY DEF LineInv, LineTypeOK, M!TypeOK, Inspect, M!Record
  <1>3. Cardinality(inspected') = Cardinality(inspected) + 1
    BY InspectedFinite, FS_AddElement DEF LineInv, Inspect
  <1>4. M!TypeOK'
    BY <1>1, <1>2 DEF M!TypeOK, M!Smaller
  <1> QED
    BY <1>2, <1>3, <1>4 DEF LineInv, LineTypeOK, TypeOK, Inspect, vars

LEMMA FeedStep ==
  ASSUME LineInv, [Next]_vars, UNCHANGED nodeVars, TypeOK'
  PROVE  LineTypeOK'
  <1>1. Len(tasks) \in Nat /\ Len(tasks') \in Nat /\ Len(tasks) <= Len(tasks')
    <2>1. tasks \in Seq(States)
      BY DEF LineInv, FeederInv, TypeOK, States
    <2>2. CASE CreateTask
      BY <2>1, <2>2, TaskAppears DEF CreateTask
    <2>3. ASSUME NEW i \in 1..Len(tasks), RunTask(i) PROVE Len(tasks') = Len(tasks)
      <3>1. PICK to \in States : tasks' = [tasks EXCEPT ![i] = to]
        BY <2>3 DEF RunTask, SendOne, Answered, States
      <3> QED BY <2>1, <3>1, TaskMoves
    <2>4. CASE TimeIsUp \/ Return \/ UNCHANGED vars
      BY <2>1, <2>4 DEF TimeIsUp, Return, vars
    <2> QED BY <2>1, <2>2, <2>3, <2>4 DEF Next
  <1>2. 1..Len(tasks) \subseteq 1..Len(tasks')
    BY <1>1
  <1> QED BY <1>2 DEF LineInv, LineTypeOK, M!TypeOK, M!Smaller, nodeVars

(* The node's counters and the feeder's, together.                         *)
THEOREM LineInvariant == LineSpec => []LineInv
  <1>1. LineInit => LineInv
    <2> SUFFICES ASSUME LineInit PROVE LineInv OBVIOUS
    <2>1. FeederInv /\ TypeOK
      BY FeederBegins DEF LineInit, FeederInv
    <2>2. M!TypeOK
      BY LineAssumption DEF LineInit, M!Init, M!TypeOK, M!Smaller
    <2> QED BY <2>1, <2>2, FS_EmptySet DEF LineInit, M!Init, LineTypeOK, LineInv
  <1>2. LineInv /\ [LineNext]_lineVars => LineInv'
    <2> SUFFICES ASSUME LineInv, [LineNext]_lineVars PROVE LineInv' OBVIOUS
    <2>1. [Next]_vars
      BY LineStep DEF LineInv, LineTypeOK
    <2>2. FeederInv' /\ TypeOK'
      BY <2>1, FeederStep DEF LineInv, FeederInv
    <2>3. ASSUME NEW i \in 1..Len(tasks), NEW ms \in 0..MaxLatency, Inspect(i, ms) PROVE LineTypeOK'
      BY <2>3, InspectStep
    <2>4. ASSUME UNCHANGED nodeVars PROVE LineTypeOK'
      BY <2>1, <2>2, <2>4, FeedStep
    <2>5. (\E i \in 1..Len(tasks), ms \in 0..MaxLatency : Inspect(i, ms)) \/ UNCHANGED nodeVars
      BY DEF LineNext, lineVars, Feed
    <2> QED BY <2>2, <2>3, <2>4, <2>5 DEF LineInv
  <1> QED BY <1>1, <1>2, PTL DEF LineSpec

(* Kinds of value of feeder and node; every inspection was recorded once,  *)
(* and the deque forgets none before it is full.                           *)
THEOREM LineTypeCorrect == LineSpec => []LineTypeOK
  <1>1. LineInv => LineTypeOK
    BY DEF LineInv
  <1> QED BY <1>1, LineInvariant, PTL

(* No more requests are under way than were asked for, and a request that  *)
(* fails gives its place back, for any number of images and places.        *)
THEOREM PlacesAreAccounted == LineSpec => []PlacesAccounted
  <1>1. LineInv => PlacesAccounted
    BY DEF LineInv, FeederInv
  <1> QED BY <1>1, LineInvariant, PTL

(* The feeder's report accounts for every image it started a task for.     *)
THEOREM ReportCorrect == LineSpec => []ReportIsComplete
  <1>1. ASSUME FeederInv, phase = "returned" PROVE Done = 1..Len(tasks)
    <2>1. tasks \in Seq(States) /\ In("queued") = {} /\ In("sent") = {}
      BY <1>1 DEF FeederInv, TypeOK, States, TasksOver
    <2>2. \A i \in 1..Len(tasks) : tasks[i] \in States
      BY <2>1
    <2> QED BY <2>1, <2>2 DEF In, Done, States
  <1>2. ASSUME FeederInv, phase = "returned" PROVE ReportIsComplete
    <2>1. Len(tasks) \in Nat
      BY <1>2 DEF FeederInv, TypeOK
    <2>2. Cardinality(1..Len(tasks)) = Len(tasks)
      BY <2>1, FirstNumbers
    <2> QED BY <1>1, <1>2, <2>2 DEF FeederInv, ReportIsComplete
  <1>3. LineInv => ReportIsComplete
    BY <1>2 DEF LineInv, ReportIsComplete
  <1> QED BY <1>3, LineInvariant, PTL

-------------------------------------------------------------------------------
AnswersInspected == In("ok") \subseteq inspected

LEMMA AnsweredAfterInspection ==
  ASSUME LineInv, AnswersInspected, [LineNext]_lineVars
  PROVE  AnswersInspected'
  <1>1. tasks \in Seq(States)
    BY DEF LineInv, FeederInv, TypeOK, States
  <1>2. CASE \E i \in 1..Len(tasks), ms \in 0..MaxLatency : Inspect(i, ms)
    BY <1>2 DEF Inspect, vars, AnswersInspected, In
  <1>3. ASSUME NEW i \in 1..Len(tasks), SendOne(i) \/ Answered(i, FALSE), UNCHANGED nodeVars
        PROVE  AnswersInspected'
    <2>1. PICK s \in {"sent", "failed"} : tasks' = [tasks EXCEPT ![i] = s]
      BY <1>3 DEF SendOne, Answered
    <2>2. In("ok")' = In("ok") \ {i}
      BY <1>1, <2>1, TaskMoves DEF States
    <2> QED BY <1>3, <2>2 DEF AnswersInspected, nodeVars
  <1>4. ASSUME NEW i \in inspected, Answered(i, TRUE), UNCHANGED nodeVars PROVE AnswersInspected'
    <2>1. i \in 1..Len(tasks) /\ tasks' = [tasks EXCEPT ![i] = "ok"]
      BY <1>4 DEF LineInv, LineTypeOK, Answered
    <2>2. In("ok")' = In("ok") \union {i}
      BY <1>1, <2>1, TaskMoves DEF States
    <2> QED BY <1>4, <2>2 DEF AnswersInspected, nodeVars
  <1>5. ASSUME CreateTask, UNCHANGED nodeVars PROVE AnswersInspected'
    <2>1. In("ok")' = In("ok")
      BY <1>1, <1>5, TaskAppears DEF CreateTask, States
    <2> QED BY <1>5, <2>1 DEF AnswersInspected, nodeVars
  <1>6. ASSUME UNCHANGED <<tasks, nodeVars>> PROVE AnswersInspected'
    BY <1>6 DEF AnswersInspected, In, nodeVars
  <1> QED BY <1>2, <1>3, <1>4, <1>5, <1>6 DEF LineNext, lineVars, vars, Feed, TimeIsUp, Return

(* The two sides can be held against each other: the inspections the node  *)
(* counts are at least the good answers the feeder counts, and at most the *)
(* images the feeder started a task for, at every moment and however many  *)
(* requests the feeder gave up.                                            *)
THEOREM CountsAreComparable ==
  LineSpec => [](total - failures <= total_inspections /\ total_inspections <= Len(tasks))
  <1>1. LineInit => AnswersInspected
    BY DEF LineInit, Init, AnswersInspected, In
  <1>2. LineInv /\ AnswersInspected => total - failures <= total_inspections /\ total_inspections <= Len(tasks)
    <2> SUFFICES ASSUME LineInv, AnswersInspected
                 PROVE  total - failures <= total_inspections /\ total_inspections <= Len(tasks)
      OBVIOUS
    <2>0. tasks \in Seq(States)
      BY DEF LineInv, FeederInv, TypeOK, States
    <2>1. /\ IsFiniteSet(In("ok")) /\ IsFiniteSet(In("failed"))
          /\ In("ok") \intersect In("failed") = {}
      BY <2>0, InFinite DEF In
    <2>2. Cardinality(In("ok")) \in Nat /\ Cardinality(In("failed")) \in Nat
      BY <2>1, FS_CardinalityType
    <2>3. Cardinality(Done) = Cardinality(In("ok")) + Cardinality(In("failed"))
      <3>1. Cardinality(In("ok") \intersect In("failed")) = 0
        BY <2>1, FS_EmptySet
      <3>2. Cardinality(Done) =
              Cardinality(In("ok")) + Cardinality(In("failed")) - Cardinality(In("ok") \intersect In("failed"))
        BY <2>1, FS_Union DEF Done
      <3> QED BY <2>2, <3>1, <3>2
    <2>4. total - failures = Cardinality(In("ok"))
      BY <2>2, <2>3 DEF LineInv, FeederInv
    <2>5. Cardinality(In("ok")) <= Cardinality(inspected)
      BY InspectedFinite, FS_Subset DEF LineInv, AnswersInspected
    <2>6. Cardinality(inspected) <= Len(tasks)
      <3>1. Len(tasks) \in Nat
        BY <2>0
      <3>2. IsFiniteSet(1..Len(tasks)) /\ Cardinality(1..Len(tasks)) = Len(tasks)
        BY <3>1, FirstNumbers
      <3> QED BY <3>2, FS_Subset DEF LineInv, LineTypeOK
    <2> QED BY <2>4, <2>5, <2>6 DEF LineInv, LineTypeOK
  <1>3. LineInv /\ AnswersInspected /\ [LineNext]_lineVars => AnswersInspected'
    BY AnsweredAfterInspection
  <1> QED BY <1>1, <1>2, <1>3, LineInvariant, PTL DEF LineSpec

-------------------------------------------------------------------------------
(* o puts the numbers s in an order in which none is less than one before. *)
Sorts(o, s, n) == \A i, j \in 1..n : i < j => s[o[i]] <= s[o[j]]

(* Any numbers can be sorted: a goes before b if its number is less, or if *)
(* the numbers are equal and a comes first, and its place is one more than *)
(* the number of those before it.                                          *)
LEMMA SortingOrder ==
  ASSUME NEW n \in Nat, NEW s \in [1..n -> Nat]
  PROVE  \E o \in Bijection(1..n, 1..n) : Sorts(o, s, n)
  <1> DEFINE Before(a, b) == s[a] < s[b] \/ (s[a] = s[b] /\ a < b)
             Ahead(a) == {b \in 1..n : Before(b, a)}
             place == [a \in 1..n |-> Cardinality(Ahead(a)) + 1]
             order == [k \in 1..n |-> CHOOSE a \in 1..n : place[a] = k]
  <1>0. IsFiniteSet(1..n) /\ Cardinality(1..n) = n
    BY FirstNumbers
  <1>1. /\ \A a \in 1..n : ~Before(a, a)
        /\ \A a, b, c \in 1..n : Before(a, b) /\ Before(b, c) => Before(a, c)
        /\ \A a, b \in 1..n : a # b => Before(a, b) \/ Before(b, a)
    OBVIOUS
  <1>2. \A a \in 1..n : place[a] \in 1..n
    <2> TAKE a \in 1..n
    <2>1. IsFiniteSet((1..n) \ {a}) /\ Cardinality((1..n) \ {a}) = n - 1
      BY <1>0, FS_RemoveElement
    <2>2. Ahead(a) \subseteq (1..n) \ {a}
      BY <1>1
    <2> HIDE DEF Ahead
    <2>3. IsFiniteSet(Ahead(a)) /\ Cardinality(Ahead(a)) <= n - 1
      BY <2>1, <2>2, FS_Subset
    <2>4. Cardinality(Ahead(a)) \in Nat
      BY <2>3, FS_CardinalityType
    <2> QED BY <2>3, <2>4
  <1>3. \A a, b \in 1..n : Before(a, b) => place[a] < place[b]
    <2> SUFFICES ASSUME NEW a \in 1..n, NEW b \in 1..n, Before(a, b) PROVE place[a] < place[b]
      OBVIOUS
    <2>1. Ahead(a) \union {a} \subseteq Ahead(b) /\ a \notin Ahead(a)
      BY <1>1
    <2>2. Ahead(a) \subseteq 1..n /\ Ahead(b) \subseteq 1..n
      OBVIOUS
    <2> HIDE DEF Ahead
    <2>3. IsFiniteSet(Ahead(a)) /\ IsFiniteSet(Ahead(b))
      BY <2>2, <1>0, FS_Subset
    <2>4. /\ Cardinality(Ahead(a) \union {a}) = Cardinality(Ahead(a)) + 1
          /\ Cardinality(Ahead(a) \union {a}) <= Cardinality(Ahead(b))
      BY <2>1, <2>3, FS_AddElement, FS_Subset
    <2>5. Cardinality(Ahead(a)) \in Nat /\ Cardinality(Ahead(b)) \in Nat
      BY <2>3, FS_CardinalityType
    <2> QED BY <2>4, <2>5
  <1> HIDE DEF place
  <1>4. \A a, b \in 1..n : a # b => place[a] # place[b]
    BY <1>1, <1>2, <1>3
  <1>5. place \in Injection(1..n, 1..n)
    <2>1. place \in [1..n -> 1..n]
      BY <1>2 DEF place
    <2> QED BY <2>1, <1>4 DEF Injection, IsInjective
  <1>6. \A k \in 1..n : \E a \in 1..n : place[a] = k
    <2>1. place \in Surjection(1..n, 1..n)
      BY <1>0, <1>5, FS_Injection
    <2> QED BY <2>1 DEF Surjection
  <1>7. \A k \in 1..n : order[k] \in 1..n /\ place[order[k]] = k
    BY <1>6
  <1> HIDE DEF order, Before
  <1>8. \A a \in 1..n : order[place[a]] = a
    BY <1>2, <1>4, <1>7
  <1>9. order \in Bijection(1..n, 1..n)
    <2>1. order \in [1..n -> 1..n]
      BY <1>7 DEF order
    <2>2. order \in Injection(1..n, 1..n)
      <3>1. \A j, k \in 1..n : order[j] = order[k] => j = k
        BY <1>7
      <3> QED BY <2>1, <3>1 DEF Injection, IsInjective
    <2>3. order \in Surjection(1..n, 1..n)
      BY <2>1, <1>2, <1>8 DEF Surjection
    <2> QED BY <2>2, <2>3 DEF Bijection
  <1>10. \A i, j \in 1..n : i < j => s[order[i]] <= s[order[j]]
    <2> SUFFICES ASSUME NEW i \in 1..n, NEW j \in 1..n, i < j PROVE s[order[i]] <= s[order[j]]
      OBVIOUS
    <2>1. ~Before(order[j], order[i])
      BY <1>3, <1>7
    <2>2. order[i] \in 1..n /\ order[j] \in 1..n
      BY <1>7
    <2> QED BY <2>1, <2>2 DEF Before
  <1> QED BY <1>9, <1>10 DEF Sorts

(* What sorted() returns is the samples in such an order. *)
LEMMA SortedShape ==
  ASSUME samples \in Seq(Nat)
  PROVE  \E o \in Bijection(1..Len(samples), 1..Len(samples)) :
           /\ M!Sorted = [i \in 1..Len(samples) |-> samples[o[i]]]
           /\ Sorts(o, samples, Len(samples))
  <1> DEFINE n == Len(samples)
             order == CHOOSE o \in Bijection(1..n, 1..n) : Sorts(o, samples, n)
  <1>1. n \in Nat /\ samples \in [1..n -> Nat] /\ DOMAIN samples = 1..n
    OBVIOUS
  <1>2. \E o \in Bijection(1..n, 1..n) : Sorts(o, samples, n)
    BY <1>1, SortingOrder
  <1>3. order \in Bijection(1..n, 1..n) /\ Sorts(order, samples, n)
    BY <1>2
  <1>4. M!Sorted = [i \in 1..n |-> samples[order[i]]]
    BY <1>1 DEF Sorts, M!Sorted, M!Bijection, M!Injection, M!Surjection, M!IsInjective,
      Bijection, Injection, Surjection, IsInjective
  <1> QED BY <1>3, <1>4

(* The places up to k of an order hold k samples. *)
LEMMA FirstPlaces ==
  ASSUME NEW n \in Nat, NEW o \in Bijection(1..n, 1..n), NEW k \in 0..n
  PROVE  LET S == {o[i] : i \in 1..k} IN IsFiniteSet(S) /\ Cardinality(S) = k
  <1> DEFINE S == {o[i] : i \in 1..k}
             f == [i \in 1..k |-> o[i]]
  <1>1. IsFiniteSet(1..k) /\ Cardinality(1..k) = k
    BY FirstNumbers
  <1>2. f \in Bijection(1..k, S)
    <2>1. f \in [1..k -> S] /\ \A t \in S : \E i \in 1..k : f[i] = t
      OBVIOUS
    <2>2. \A i, j \in 1..n : o[i] = o[j] => i = j
      BY DEF Bijection, Injection, IsInjective
    <2>3. \A i, j \in 1..k : f[i] = f[j] => i = j
      BY <2>2
    <2> HIDE DEF f, S
    <2> QED BY <2>1, <2>3 DEF Bijection, Injection, Surjection, IsInjective
  <1>3. ExistsBijection(1..k, S)
    BY <1>2 DEF ExistsBijection
  <1> HIDE DEF S
  <1>4. IsFiniteSet(S) /\ Cardinality(S) = k
    BY <1>1, <1>3, FS_Bijection
  <1> QED BY <1>4 DEF S

(* Index(p, n) is the number of samples that are p percent of n, rounded   *)
(* down, except that it never leaves the sorted samples.                   *)
LEMMA IndexBounds ==
  ASSUME NEW p \in 0..99, NEW n \in Nat \ {0}
  PROVE  /\ M!Index(p, n) \in 0..(n - 1)
         /\ 100 * M!Index(p, n) <= p * n
         /\ 100 * (M!Index(p, n) + 1) > p * n
  <1> DEFINE m == p * n
             q == m \div 100
  <1>1. m \in Nat /\ m <= 99 * n
    <2>1. 99 * n = p * n + (99 - p) * n /\ p * n \in Nat /\ (99 - p) * n \in Nat
      OBVIOUS
    <2> QED BY <2>1
  <1> HIDE DEF m
  <1>2. q \in Nat /\ 100 * q <= m /\ m < 100 * q + 100
    BY <1>1
  <1>3. M!Index(p, n) = IF q <= n - 1 THEN q ELSE n - 1
    BY DEF M!Index, M!Smaller, m
  <1> HIDE DEF q
  <1>4. /\ M!Index(p, n) \in 0..(n - 1)
        /\ 100 * M!Index(p, n) <= m
        /\ 100 * (M!Index(p, n) + 1) > m
    BY <1>1, <1>2, <1>3
  <1> QED BY <1>4 DEF m

(* What the number at place k + 1 of an order says of all of them. *)
LEMMA RankOfPlace ==
  ASSUME NEW n \in Nat, NEW s \in [1..n -> Nat], NEW o \in Bijection(1..n, 1..n),
         Sorts(o, s, n), NEW k \in 0..(n - 1)
  PROVE  LET HowMany(S) == Cardinality({i \in 1..n : s[i] \in S})
             v == s[o[k + 1]]
         IN  /\ HowMany(0..(v - 1)) \in Nat /\ HowMany(0..(v - 1)) <= k
             /\ HowMany(0..v) \in Nat /\ k + 1 <= HowMany(0..v)
  <1> DEFINE v == s[o[k + 1]]
             Below == {i \in 1..n : s[i] \in 0..(v - 1)}
             UpTo == {i \in 1..n : s[i] \in 0..v}
  <1>1. k + 1 \in 1..n /\ k + 1 \in 0..n
    OBVIOUS
  <1>2. \A i \in 1..n : o[i] \in 1..n
    BY DEF Bijection, Injection
  <1>3. v \in Nat
    BY <1>1, <1>2
  <1>4. \A i \in 1..n : /\ i < k + 1 => s[o[i]] <= v
                        /\ k + 1 < i => v <= s[o[i]]
    BY <1>1 DEF Sorts
  <1>5. \A i \in 1..n : /\ k < i => ~(s[o[i]] < v)
                        /\ i <= k + 1 => s[o[i]] <= v
    <2> TAKE i \in 1..n
    <2>1. s[o[i]] \in Nat
      BY <1>2
    <2>2. CASE i = k + 1
      BY <1>3, <2>1, <2>2
    <2> HIDE DEF v
    <2>3. CASE i # k + 1
      BY <1>3, <1>4, <2>1, <2>3
    <2> QED BY <2>2, <2>3
  <1> HIDE DEF v
  <1>6. Below \subseteq {o[i] : i \in 1..k}
    <2> SUFFICES ASSUME NEW b \in 1..n, s[b] \in 0..(v - 1) PROVE b \in {o[i] : i \in 1..k}
      OBVIOUS
    <2>1. PICK i \in 1..n : o[i] = b
      BY DEF Bijection, Surjection
    <2>2. s[o[i]] < v
      BY <1>3, <2>1
    <2>3. i \in 1..k
      BY <1>5, <2>2
    <2> QED BY <2>1, <2>3
  <1>7. {o[i] : i \in 1..(k + 1)} \subseteq UpTo
    <2> SUFFICES ASSUME NEW i \in 1..(k + 1) PROVE o[i] \in UpTo
      OBVIOUS
    <2>1. i \in 1..n
      OBVIOUS
    <2>2. o[i] \in 1..n
      BY <1>2, <2>1
    <2>3. s[o[i]] \in 0..v
      BY <1>3, <1>5, <2>1, <2>2
    <2> QED BY <2>2, <2>3
  <1>8. IsFiniteSet(1..n)
    BY FirstNumbers
  <1>9. UpTo \subseteq 1..n /\ Below \subseteq 1..n
    OBVIOUS
  <1> HIDE DEF Below, UpTo
  <1>10. /\ IsFiniteSet(UpTo) /\ Cardinality(UpTo) \in Nat
         /\ IsFiniteSet(Below) /\ Cardinality(Below) \in Nat
    BY <1>8, <1>9, FS_Subset, FS_CardinalityType
  <1>11. Cardinality(Below) <= k
    <2>1. k \in 0..n
      OBVIOUS
    <2>2. IsFiniteSet({o[i] : i \in 1..k}) /\ Cardinality({o[i] : i \in 1..k}) = k
      BY <2>1, FirstPlaces
    <2> QED BY <1>6, <2>2, FS_Subset
  <1>12. k + 1 <= Cardinality(UpTo)
    <2>1. Cardinality({o[i] : i \in 1..(k + 1)}) = k + 1
      BY <1>1, FirstPlaces
    <2> QED BY <1>7, <1>10, <2>1, FS_Subset
  <1> QED BY <1>10, <1>11, <1>12 DEF Below, UpTo, v

IsPercentile(p) ==
  LET n == Len(samples)
      HowMany(S) == Cardinality({i \in 1..n : samples[i] \in S})
      v == M!Percentile(p)
  IN  /\ 100 * HowMany(0..(v - 1)) <= p * n
      /\ 100 * HowMany(0..v) > p * n

(* The two modules count with the same operator. *)
LEMMA SameCount == \A S : M!Cardinality(S) = Cardinality(S)
  BY DEF M!Cardinality, Cardinality

LEMMA PercentileOfSamples ==
  ASSUME samples \in Seq(0..MaxLatency), samples # <<>>, NEW p \in 0..99
  PROVE  IsPercentile(p)
  <1>1. /\ Len(samples) \in Nat \ {0} /\ samples \in Seq(Nat)
        /\ samples \in [1..Len(samples) -> Nat]
    <2>1. 0..MaxLatency \subseteq Nat
      BY LineAssumption
    <2>2. samples \in Seq(Nat)
      BY <2>1, SeqMonotonic
    <2> QED BY <2>2
  <1>2. PICK n \in Nat \ {0} : n = Len(samples)
    BY <1>1
  <1>3. PICK o \in Bijection(1..n, 1..n) :
          /\ M!Sorted = [i \in 1..n |-> samples[o[i]]]
          /\ Sorts(o, samples, n)
    BY <1>1, <1>2, SortedShape
  <1>4. PICK k \in 0..(n - 1) : k = M!Index(p, n) /\ 100 * k <= p * n /\ 100 * (k + 1) > p * n
    BY <1>2, IndexBounds
  <1>5. M!Percentile(p) = samples[o[k + 1]]
    <2>1. M!Percentile(p) = M!Sorted[k + 1]
      BY <1>2, <1>4 DEF M!Percentile
    <2>2. k + 1 \in 1..n
      OBVIOUS
    <2> QED BY <1>3, <2>1, <2>2
  <1> DEFINE HowMany(S) == Cardinality({i \in 1..n : samples[i] \in S})
             v == samples[o[k + 1]]
  <1>6. /\ HowMany(0..(v - 1)) \in Nat /\ HowMany(0..(v - 1)) <= k
        /\ HowMany(0..v) \in Nat /\ k + 1 <= HowMany(0..v)
    <2>1. samples \in [1..n -> Nat]
      BY <1>1, <1>2
    <2> HIDE <1>1, <1>2, <1>5
    <2> QED BY <1>3, <2>1, RankOfPlace
  <1> HIDE DEF HowMany, v
  <1>7. 100 * HowMany(0..(v - 1)) <= p * n /\ 100 * HowMany(0..v) > p * n
    <2>1. p * n \in Nat
      OBVIOUS
    <2> QED BY <1>4, <1>6, <2>1
  <1> QED BY <1>2, <1>5, <1>7 DEF HowMany, v, IsPercentile

(* The percentiles a node reports are percentiles of its last samples: at  *)
(* most p percent of them are less, and more than p percent are no         *)
(* greater, whatever was recorded and however large the window is.         *)
THEOREM PercentilesCorrect == LineSpec => []PercentileIsRank
  <1>1. ASSUME LineInv, samples # <<>>, NEW p \in Percents PROVE IsPercentile(p)
    <2>1. samples \in Seq(0..MaxLatency) /\ p \in 0..99
      BY <1>1, LineAssumption DEF LineInv, LineTypeOK, M!TypeOK
    <2> QED BY <1>1, <2>1, PercentileOfSamples
  <1>2. LineInv => PercentileIsRank
    BY <1>1, SameCount DEF IsPercentile, PercentileIsRank, M!PercentileIsRank
  <1> QED BY <1>2, LineInvariant, PTL
===============================================================================
