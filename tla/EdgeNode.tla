------------------------------- MODULE EdgeNode -------------------------------
(***************************************************************************)
(* One edge node: the HTTP handlers of main.py on the asyncio event loop,  *)
(* the inference worker pool beside it, and the state they share.          *)
(*                                                                         *)
(* Handlers run one at a time and give the loop back only at an await.  A  *)
(* handler without one is a single action; POST /inspect is one action up  *)
(* to its await on the pool and one after it.  POST /model/activate never  *)
(* awaits, but it swaps the model first and judges it afterwards, for as   *)
(* long as a whole holdout evaluation takes, while the workers keep        *)
(* scoring and the clock keeps running: it is two actions, and loop says   *)
(* who has the event loop in between.                                      *)
(*                                                                         *)
(* A version's files never change here and no legacy model.onnx is         *)
(* present.  Latencies and the last-success time are left out.             *)
(***************************************************************************)
EXTENDS ModelStore, Integers, Sequences, FiniteSets

CONSTANTS
  Initial,          \* the version a process starts with
  Shipped,          \* versions whose files are in model_dir at first start
  Bundled,          \* versions a correctly signed bundle can bring
  Requests,         \* POST /inspect calls
  Undecodable,      \* those whose body is not an image
  MaxScore,         \* scores and thresholds in [0, 1], as 0..MaxScore steps
  DefaultThreshold, \* LW_THRESHOLD
  Holdout,          \* the known-good images of holdout_dir
  HoldoutScore,     \* the score each version gives each of them
  CeilingPct,       \* LW_ROLLBACK_FP_CEILING, in percent
  WorkerCount,      \* LW_WORKER_COUNT
  InferenceModes,   \* values of LW_INFERENCE_MODE, read at process start
  MaxHistory        \* reviews.MAX_HISTORY

Scores == 0..MaxScore

ASSUME EdgeAssumption ==
  /\ Initial \in Versions
  /\ Shipped \subseteq Versions /\ Bundled \subseteq Versions
  /\ Undecodable \subseteq Requests
  /\ IsFiniteSet(Requests) /\ IsFiniteSet(Holdout)
  /\ MaxScore \in Nat
  /\ DefaultThreshold \in Scores
  /\ HoldoutScore \in [Versions -> [Holdout -> Scores]]
  /\ CeilingPct \in 0..100
  /\ WorkerCount \in Nat \ {0}
  /\ InferenceModes \subseteq {"worker", "inline"}
  /\ MaxHistory \in Nat \ {0}

VARIABLES
  store,            \* the model store's three slots
  disk,             \* versions whose files are in model_dir
  threshold,        \* config.threshold
  mode,             \* config.inference_mode, never assigned again
  window,           \* is the clock inside the maintenance window?
  loop,             \* the event loop: idle, or held between swap and gate
  reqs,             \* where each inspection is
  queue,            \* tasks the pool has accepted and no worker has taken
  pool,             \* "up", or "broken" once a worker process has died
  total_inspections, total_rejections, rollback_events, \* metrics
  recent, next_id, total_overrides, marked,             \* reviews
  accepted,         \* history: versions the gate let through in this process
  unjudged          \* history: versions whose holdout evaluation raised

R == INSTANCE Reviews

metricVars  == <<total_inspections, total_rejections, rollback_events>>
reviewVars  == <<recent, next_id, total_overrides, marked>>
poolVars    == <<reqs, queue, pool>>
gateVars    == <<store, loop, accepted, unjudged>>
vars == <<gateVars, disk, threshold, mode, window, poolVars, metricVars, reviewVars>>

InFlight == {"queued", "running", "scored", "raised"}
Answered == {"pass", "reject", "error"}

NewRequest == [at |-> "new", version |-> None, score |-> 0]

(* An inspection pinned to its version; an answered one has sent its score. *)
Pinned(at, v) == [at |-> at, version |-> v, score |-> 0]

Idle       == [at |-> "idle", prior |-> None]

(* Module-level singletons and lifespan(); the pool starts empty. *)
Init ==
  /\ store = NewStore(Initial) /\ threshold = DefaultThreshold
  /\ disk = Shipped /\ window \in BOOLEAN /\ mode \in InferenceModes
  /\ loop = Idle
  /\ reqs = [r \in Requests |-> NewRequest] /\ queue = <<>> /\ pool = "up"
  /\ total_inspections = 0 /\ total_rejections = 0 /\ rollback_events = {}
  /\ R!Init
  /\ accepted = {Initial} /\ unjudged = {}

-------------------------------------------------------------------------------
(* Holdout evaluation (holdout.py).  It raises when the version's files    *)
(* are missing, but looks for the holdout images first: with none of them  *)
(* there is no rate, and no file is opened.                                *)
FalsePositives(v) == {h \in Holdout : HoldoutScore[v][h] > threshold}

EvaluationRaises(v) == Holdout # {} /\ v \notin disk

ExceedsCeiling(v) ==
  /\ Holdout # {}
  /\ v \in disk
  /\ 100 * Cardinality(FalsePositives(v)) > CeilingPct * Cardinality(Holdout)

-------------------------------------------------------------------------------
(* POST /inspect. *)

Verdict(score) == IF score > threshold THEN "reject" ELSE "pass"

(* Mutant: metrics.record moved under "if verdict == reject". *)
CountRejectsOnly(r, v, score) ==
  /\ reqs' = [reqs EXCEPT ![r] = Pinned(Verdict(score), v)]
  /\ IF Verdict(score) = "reject"
       THEN /\ total_inspections' = total_inspections + 1
            /\ total_rejections' = total_rejections + 1
            /\ R!RecordReject
       ELSE UNCHANGED <<total_inspections, total_rejections, reviewVars>>

(* The handler after inference: the threshold is read now, not when the   *)
(* part arrived, and the counters and the review queue follow the verdict. *)
Decide(r, v, score) ==
  /\ reqs' = [reqs EXCEPT ![r] = Pinned(Verdict(score), v)]
  /\ total_inspections' = total_inspections + 1
  /\ IF Verdict(score) = "reject"
       THEN /\ total_rejections' = total_rejections + 1
            /\ R!RecordReject
       ELSE UNCHANGED <<total_rejections, reviewVars>>

Fail(r, v) == reqs' = [reqs EXCEPT ![r] = Pinned("error", v)]

CanScore(r, v) == r \notin Undecodable /\ v \in disk

(* Mutant: the handler may start while another one holds the event loop, *)
(* as a plain "def" handler in the thread pool would.                    *)
SubmitDuringTrial(r) ==
  /\ mode = "worker" /\ reqs[r].at = "new" /\ pool = "up"
  /\ reqs' = [reqs EXCEPT ![r] = Pinned("queued", store.active)]
  /\ queue' = Append(queue, r)
  /\ UNCHANGED <<gateVars, disk, mode, threshold, window, pool, metricVars, reviewVars>>

(* Worker mode: pin the active version to the task and await the pool.  A  *)
(* broken executor refuses the task.                                       *)
Submit(r) ==
  /\ loop = Idle /\ mode = "worker"
  /\ reqs[r].at = "new"
  /\ IF pool = "up"
       THEN /\ reqs' = [reqs EXCEPT ![r] = Pinned("queued", store.active)]
            /\ queue' = Append(queue, r)
       ELSE Fail(r, store.active) /\ UNCHANGED queue
  /\ UNCHANGED <<gateVars, disk, mode, threshold, window, pool, metricVars, reviewVars>>

(* Inline mode scores on the event loop, so the handler is one action. *)
InspectInline(r) ==
  /\ loop = Idle /\ mode = "inline"
  /\ reqs[r].at = "new"
  /\ IF CanScore(r, store.active)
       THEN \E s \in Scores : Decide(r, store.active, s)
       ELSE Fail(r, store.active) /\ UNCHANGED <<total_inspections, total_rejections, reviewVars>>
  /\ UNCHANGED <<gateVars, disk, mode, threshold, window, queue, pool, rollback_events>>

Running == {r \in Requests : reqs[r].at = "running"}

(* Mutant: a taken task stays in the queue. *)
TakeTwice ==
  /\ queue # <<>>
  /\ Cardinality(Running) < WorkerCount
  /\ reqs' = [reqs EXCEPT ![Head(queue)].at = "running"]
  /\ UNCHANGED <<gateVars, disk, mode, threshold, window, queue, pool, metricVars, reviewVars>>

WorkerTake ==
  /\ queue # <<>>
  /\ Cardinality(Running) < WorkerCount
  /\ reqs' = [reqs EXCEPT ![Head(queue)].at = "running"]
  /\ queue' = Tail(queue)
  /\ UNCHANGED <<gateVars, disk, mode, threshold, window, pool, metricVars, reviewVars>>

(* score_image in a worker process, under the version the task carries. *)
WorkerScore(r) ==
  /\ reqs[r].at = "running"
  /\ IF CanScore(r, reqs[r].version)
       THEN \E s \in Scores : reqs' = [reqs EXCEPT ![r].at = "scored", ![r].score = s]
       ELSE reqs' = [reqs EXCEPT ![r].at = "raised"]
  /\ UNCHANGED <<gateVars, disk, mode, threshold, window, queue, pool, metricVars, reviewVars>>

(* Mutant: the tasks of a dead pool are forgotten instead of failed. *)
WorkerDiesSilently ==
  /\ mode = "worker" /\ pool = "up"
  /\ \E r \in Requests : reqs[r].at # "new"
  /\ pool' = "broken"
  /\ queue' = <<>>
  /\ UNCHANGED <<gateVars, disk, mode, threshold, window, reqs, metricVars, reviewVars>>

(* A worker process is killed (out of memory, say).  The executor fails    *)
(* every task it holds and accepts none from then on; start_pool makes no  *)
(* other one, because _executor is not None.  Workers exist only once a    *)
(* first task has been submitted.                                          *)
WorkerDies ==
  /\ mode = "worker" /\ pool = "up"
  /\ \E r \in Requests : reqs[r].at # "new"
  /\ pool' = "broken"
  /\ queue' = <<>>
  /\ reqs' = [r \in Requests |-> IF reqs[r].at \in {"queued", "running"}
                                   THEN [reqs[r] EXCEPT !.at = "raised"]
                                   ELSE reqs[r]]
  /\ UNCHANGED <<gateVars, disk, mode, threshold, window, metricVars, reviewVars>>

(* Mutant: the version is read again after the await. *)
ReplyUnderActive(r) ==
  /\ loop = Idle
  /\ reqs[r].at = "scored"
  /\ Decide(r, store.active, reqs[r].score)
  /\ UNCHANGED <<gateVars, disk, mode, threshold, window, queue, pool, rollback_events>>

Reply(r) ==
  /\ loop = Idle
  /\ reqs[r].at = "scored"
  /\ Decide(r, reqs[r].version, reqs[r].score)
  /\ UNCHANGED <<gateVars, disk, mode, threshold, window, queue, pool, rollback_events>>

ReplyError(r) ==
  /\ loop = Idle
  /\ reqs[r].at = "raised"
  /\ Fail(r, reqs[r].version)
  /\ UNCHANGED <<gateVars, disk, mode, threshold, window, queue, pool, metricVars, reviewVars>>

-------------------------------------------------------------------------------
(* The other handlers. *)

(* PUT /config/threshold; a value outside [0, 1] is refused with 422. *)
PutThreshold(t) ==
  /\ loop = Idle
  /\ t \in Scores
  /\ threshold' = t
  /\ UNCHANGED <<gateVars, disk, mode, window, poolVars, metricVars, reviewVars>>

(* Mutant: staging from a thread, whatever holds the event loop. *)
StageDuringTrial(v) ==
  /\ store' = Stage(store, v)
  /\ UNCHANGED <<loop, accepted, unjudged, disk, mode, threshold, window, poolVars, metricVars,
                 reviewVars>>

(* POST /model: any label is staged, whether its files exist or not. *)
StageModel(v) ==
  /\ loop = Idle
  /\ store' = Stage(store, v)
  /\ UNCHANGED <<loop, accepted, unjudged, disk, mode, threshold, window, poolVars, metricVars,
                 reviewVars>>

(* POST /model/bundle with a bundle that verifies; another one is refused *)
(* before anything is written or staged.                                  *)
StageBundle(v) ==
  /\ loop = Idle
  /\ disk' = disk \union {v}
  /\ store' = Stage(store, v)
  /\ UNCHANGED <<loop, accepted, unjudged, mode, threshold, window, poolVars, metricVars,
                 reviewVars>>

(* POST /reviews/{id}/override. *)
OverrideReview(id) ==
  /\ loop = Idle
  /\ R!MarkOverridden(id)
  /\ UNCHANGED <<gateVars, disk, mode, threshold, window, poolVars, metricVars>>

-------------------------------------------------------------------------------
(* POST /model/activate.  Outside the window (409) or with nothing staged  *)
(* (400) it changes nothing.  loop.prior is its local previous_version.    *)

(* Mutant: the swap restarts the pool and loses what is in it. *)
SwapRestartsPool ==
  /\ loop = Idle /\ window /\ store.staged # None
  /\ loop' = [at |-> "gate", prior |-> store.active]
  /\ store' = ActivateStaged(store)
  /\ queue' = <<>>
  /\ reqs' = [r \in Requests |-> IF reqs[r].at \in {"queued", "running"}
                                   THEN [reqs[r] EXCEPT !.at = "raised"]
                                   ELSE reqs[r]]
  /\ UNCHANGED <<accepted, unjudged, disk, mode, threshold, window, pool, metricVars, reviewVars>>

ActivateSwap ==
  /\ loop = Idle
  /\ window
  /\ store.staged # None
  /\ loop' = [at |-> "gate", prior |-> store.active]
  /\ store' = ActivateStaged(store)
  /\ UNCHANGED <<accepted, unjudged, disk, mode, threshold, window, poolVars, metricVars,
                 reviewVars>>

GateAccepts ==
  /\ loop.at = "gate"
  /\ ~EvaluationRaises(store.active) /\ ~ExceedsCeiling(store.active)
  /\ loop' = Idle
  /\ accepted' = accepted \union {store.active}
  /\ UNCHANGED <<store, unjudged, disk, mode, threshold, window, poolVars, metricVars, reviewVars>>

GateRollsBack ==
  /\ loop.at = "gate"
  /\ ExceedsCeiling(store.active)
  /\ loop' = Idle
  /\ store' = Rollback(store)
  /\ rollback_events' = rollback_events \union
       {[from_version |-> store.active, to_version |-> loop.prior]}
  /\ UNCHANGED <<accepted, unjudged, disk, mode, threshold, window, poolVars, total_inspections,
                 total_rejections, reviewVars>>

(* The evaluation raises: the handler ends in a 500 and nobody undoes the swap. *)
GateRaises ==
  /\ loop.at = "gate"
  /\ EvaluationRaises(store.active)
  /\ loop' = Idle
  /\ unjudged' = unjudged \union {store.active}
  /\ UNCHANGED <<store, accepted, disk, mode, threshold, window, poolVars, metricVars, reviewVars>>

Gate == GateAccepts \/ GateRollsBack \/ GateRaises

-------------------------------------------------------------------------------
(* The maintenance window opens and closes with the time of day. *)
WindowTurns ==
  /\ window' = ~window
  /\ UNCHANGED <<gateVars, disk, mode, threshold, poolVars, metricVars, reviewVars>>

(* The process stops, at any point, and starts again: only model_dir and  *)
(* the clock outlive it, and every open connection is lost.               *)
Restart ==
  /\ store' = NewStore(Initial) /\ threshold' = DefaultThreshold
  /\ UNCHANGED <<disk, mode, window>>
  /\ loop' = Idle
  /\ reqs' = [r \in Requests |-> NewRequest] /\ queue' = <<>> /\ pool' = "up"
  /\ total_inspections' = 0 /\ total_rejections' = 0 /\ rollback_events' = {}
  /\ R!Restart
  /\ accepted' = {Initial} /\ unjudged' = {}

Next ==
  \/ \E r \in Requests : Submit(r) \/ InspectInline(r) \/ WorkerScore(r)
  \/ \E r \in Requests : Reply(r) \/ ReplyError(r)
  \/ WorkerTake
  \/ WorkerDies
  \/ \E t \in -1..(MaxScore + 1) : PutThreshold(t)
  \/ \E v \in Versions : StageModel(v)
  \/ \E v \in Bundled : StageBundle(v)
  \/ \E id \in 1..next_id : OverrideReview(id)
  \/ ActivateSwap
  \/ Gate
  \/ WindowTurns
  \/ Restart

Spec == Init /\ [][Next]_vars

(* The workers keep scoring and a handler that has the loop runs to its    *)
(* end.  A coroutine whose await is over stays in the loop's ready queue,  *)
(* which is first in, first out: later handlers cannot overtake it for     *)
(* ever, hence strong fairness.  Nothing obliges clients, operators, the   *)
(* clock or the out-of-memory killer to act.                               *)
Fairness ==
  /\ WF_vars(WorkerTake)
  /\ WF_vars(Gate)
  /\ \A r \in Requests : WF_vars(WorkerScore(r)) /\ SF_vars(Reply(r) \/ ReplyError(r))

FairSpec == Spec /\ Fairness

-------------------------------------------------------------------------------
(* Kinds of value. *)
NodeTypeOK ==
  /\ store \in Stores
  /\ disk \subseteq Versions
  /\ threshold \in Scores
  /\ mode \in InferenceModes /\ window \in BOOLEAN
  /\ loop \in [at : {"idle", "gate"}, prior : Versions \union {None}]
  /\ reqs \in [Requests -> [at : {"new"} \union InFlight \union Answered,
                           version : Versions \union {None}, score : Scores]]
  /\ queue \in Seq(Requests)
  /\ pool \in {"up", "broken"}
  /\ total_inspections \in Nat /\ total_rejections \in Nat
  /\ rollback_events \subseteq [from_version : Versions, to_version : Versions]
  /\ accepted \subseteq Versions /\ unjudged \subseteq Versions

TypeOK == NodeTypeOK /\ R!TypeOK

(* What clients see of the slots: during a trial the prior model is still  *)
(* the one in service, and the model on trial still the one waiting.       *)
Live      == IF loop.at = "gate" THEN loop.prior ELSE store.active
Candidate == IF loop.at = "gate" THEN store.active ELSE store.staged

(* The pool owes a worker exactly the queued inspections, each once: none  *)
(* is scored twice, and none is waiting where no worker will find it.      *)
QueueHoldsEachOnce ==
  /\ \A i \in 1..Len(queue) : reqs[queue[i]].at = "queued"
  /\ \A i, j \in 1..Len(queue) : queue[i] = queue[j] => i = j
  /\ \A r \in Requests : reqs[r].at = "queued" => \E i \in 1..Len(queue) : queue[i] = r

(* While a model is on trial, the slot a rollback would restore holds the  *)
(* version the handler saw before the swap and will report as to_version,  *)
(* and nothing is staged: no other handler moved the slots in between, so  *)
(* rollback() never raises and never restores a third model.               *)
RollbackTarget ==
  loop.at = "gate" =>
    /\ store.previous = loop.prior
    /\ loop.prior # None
    /\ store.staged = None

Released == accepted \union unjudged

(* No inspection ever runs on a model that was on trial or was rolled back *)
(* and never released, not even one that arrives during the trial and      *)
(* whatever restarts, rollbacks and restagings came before: its version is *)
(* one the gate let through, or one whose evaluation raised.               *)
ServedWasReleased ==
  /\ \A r \in Requests : reqs[r].at # "new" => reqs[r].version \in Released
  /\ Live \in Released

Rejects == {r \in Requests : reqs[r].at = "reject"}
Decided == {r \in Requests : reqs[r].at \in {"pass", "reject"}}

(* Every inspection that got a verdict, and no failed one, is counted once *)
(* in /health, and every reject was counted and entered in the review      *)
(* queue together: the review ids run from 1 to total_rejections.          *)
CountersAgree ==
  /\ total_inspections = Cardinality(Decided)
  /\ total_rejections = Cardinality(Rejects)
  /\ next_id - 1 = total_rejections

CallStage(at) == IF at = "new" THEN "new" ELSE IF at \in InFlight THEN "open" ELSE "done"

Calls == [r \in Requests |-> [at |-> CallStage(reqs[r].at), version |-> reqs[r].version]]

HS == INSTANCE HotSwap WITH live <- Live, candidate <- Candidate, calls <- Calls

(* Swap, judgement and rollback look like one step from outside (F6, F8):  *)
(* the node implements HotSwap, so a promotion is atomic for every         *)
(* inspection and none changes version between its first step and answer.  *)
SwapLooksAtomic == HS!Spec

(* Every inspection that was begun is answered, by a verdict or an error,  *)
(* unless the process restarts under it: no swap, gate failure or dead     *)
(* worker leaves a client waiting for ever.                                *)
InspectionAnswered ==
  \A r \in Requests :
    reqs[r].at \in InFlight ~> reqs[r].at \in Answered \union {"new"}

(* "No dropped in-flight work" (F6): an image that its version can score   *)
(* gets a verdict, however many swaps and rollbacks happen meanwhile.      *)
(* Only a restart or a dead worker process takes the verdict away.         *)
SwapDropsNoWork ==
  \A r \in Requests :
    (reqs[r].at \in {"queued", "running", "scored"} /\ CanScore(r, reqs[r].version))
      ~> (reqs[r].at \in {"pass", "reject", "new"} \/ pool = "broken")
===============================================================================
