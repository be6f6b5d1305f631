-------------------------------- MODULE Feeder --------------------------------
(***************************************************************************)
(* The line feeder (feeder.py): a coroutine that starts a task per image   *)
(* until the time is up and then waits for all of them, and the tasks,     *)
(* which take turns at a semaphore, post their image and count the answer. *)
(* Images, rates and times are left out.  Nothing is awaited while         *)
(* results_lock is held, and it is never found locked: from the answer on, *)
(* a task runs to its end, and the next in line has its place.             *)
(***************************************************************************)
EXTENDS Naturals, Sequences, FiniteSets

CONSTANTS
  Concurrency, \* --concurrency
  MaxTasks     \* bound: images that fit into --duration at --rate

ASSUME FeederAssumption == Concurrency \in Nat \ {0} /\ MaxTasks \in Nat

VARIABLES
  phase,           \* run_feeder: feeding, gathering or returned
  tasks,           \* each task started, in order
  places,          \* free places of the semaphore
  total, failures, \* the counters
  latencies        \* the tasks whose latency was recorded, in order

vars == <<phase, tasks, places, total, failures, latencies>>

Init ==
  /\ phase = "feeding"
  /\ tasks = <<>>
  /\ places = Concurrency
  /\ total = 0 /\ failures = 0 /\ latencies = <<>>

In(state) == {i \in 1..Len(tasks) : tasks[i] = state}

CreateTask ==
  /\ phase = "feeding" /\ Len(tasks) < MaxTasks
  /\ tasks' = Append(tasks, "queued")
  /\ UNCHANGED <<phase, places, total, failures, latencies>>

(* The semaphore is fair: first come, first served. *)
FirstQueued(i) == i \in In("queued") /\ \A j \in In("queued") : i <= j

Acquire(i) == places > 0 /\ places' = places - 1

SendOne(i) ==
  /\ FirstQueued(i)
  /\ Acquire(i)
  /\ tasks' = [tasks EXCEPT ![i] = "sent"]
  /\ UNCHANGED <<phase, total, failures, latencies>>

(* Mutant: a request that fails keeps its place. *)
ReleaseIfOk(ok) == places' = IF ok THEN places + 1 ELSE places

Release(ok) == places' = places + 1

Count(ok) ==
  /\ total' = total + 1
  /\ failures' = IF ok THEN failures ELSE failures + 1

(* An answer; or an error status, no connection, or nothing for 10 s. *)
Answered(i, ok) ==
  /\ tasks[i] = "sent"
  /\ tasks' = [tasks EXCEPT ![i] = IF ok THEN "ok" ELSE "failed"]
  /\ Release(ok)
  /\ Count(ok)
  /\ latencies' = Append(latencies, i)
  /\ UNCHANGED phase

TimeIsUp ==
  /\ phase = "feeding"
  /\ phase' = "gathering"
  /\ UNCHANGED <<tasks, places, total, failures, latencies>>

(* Mutant: the tasks still waiting for a place are not gathered. *)
SentTasksOver == In("sent") = {}

TasksOver == In("queued") \union In("sent") = {}

Return ==
  /\ phase = "gathering" /\ TasksOver
  /\ phase' = "returned"
  /\ UNCHANGED <<tasks, places, total, failures, latencies>>

RunTask(i) == SendOne(i) \/ Answered(i, TRUE) \/ Answered(i, FALSE)

Next ==
  \/ CreateTask
  \/ \E i \in 1..Len(tasks) : RunTask(i)
  \/ TimeIsUp
  \/ Return

(* Time passes, coroutines that can run do, and httpx waits no more than   *)
(* 10 s for an answer.                                                     *)
Fairness ==
  WF_vars(TimeIsUp) /\ WF_vars(Return) /\ \A i \in 1..MaxTasks : WF_vars(i <= Len(tasks) /\ RunTask(i))

Spec == Init /\ [][Next]_vars /\ Fairness

-------------------------------------------------------------------------------
(* Kinds of value. *)
TypeOK ==
  /\ phase \in {"feeding", "gathering", "returned"}
  /\ tasks \in Seq({"queued", "sent", "ok", "failed"})
  /\ places \in 0..Concurrency
  /\ total \in Nat /\ failures \in Nat
  /\ latencies \in Seq(1..Len(tasks))

(* No more requests are under way than were asked for, and every place     *)
(* that is not taken is free: a failed request gives its place back.       *)
PlacesAccounted ==
  places \in 0..Concurrency /\ places + Cardinality(In("sent")) = Concurrency

(* The report accounts for every image that was sent, once: none is        *)
(* missing from the totals, and each has its latency.                      *)
ReportIsComplete ==
  phase = "returned" =>
    /\ total = Len(tasks) /\ failures = Cardinality(In("failed"))
    /\ Len(latencies) = total /\ {latencies[i] : i \in 1..Len(latencies)} = 1..Len(tasks)

(* The feeder returns, however many requests fail. *)
FeederReturns == <>(phase = "returned")
===============================================================================
