# Edgemonitor in TLA+

Models, model-checking runs and machine-checked proofs for Edgemonitor, an edge
visual-inspection platform: nodes at the production line score images with a
model, judge and roll back model updates themselves, and report to a fleet
service that rolls models out and watches for drift.

## The system

| Component | State | Operations | Correct when |
|---|---|---|---|
| Model store (`edge_node/app/model_store.py`) | active, previous and staged version, in memory | stage, activate, roll back | the slot a rollback restores is the one replaced |
| Inspection (`main.py`, `worker.py`, `inference.py`) | in-flight requests, the process pool, session caches | `POST /inspect`, worker scoring | one answer per request, under the version it began with |
| Activation gate (`main.py`, `holdout.py`) | the local variables of the handler between swap and rollback | `POST /model/activate` | nothing is served by a model on trial |
| Configuration (`config.py`) | threshold, maintenance window | `PUT /config/threshold`, window test | threshold in range |
| Metrics (`metrics.py`) | counters, rollback events, latency window | record, snapshot | counters agree with the verdicts given |
| Review queue (`reviews.py`) | last 200 rejects, override count | record, override | ids unbroken, overrides counted once |
| Signed bundles (`bundle.py`) | files in `model_dir` | `POST /model/bundle` | nothing unverified reaches the disk |
| Heartbeat (`heartbeat.py`) | one asyncio task | evaluate, post, sleep | goes on as long as the process |
| Fleet registry (`fleet_service/app/db.py`, `main.py`) | `devices` table | upsert, drift list | drift flag agrees with rate and baseline |
| Rollout (`orchestrator.py`, `db.py`) | `rollouts` table, one coroutine each | stage and activate cohort by cohort | no later stage after a failure |
| Inference sessions (`inference.py`) | one cache of sessions per process | load a version once, score | a model is paired with its own calibration |
| Review and demo pages (JavaScript in `main.py`) | lists and the current request in the browser | load, override, inspect | what is shown belongs together, and is the newest in the end |
| Feeder (`feeder/feeder.py`) | tasks, semaphore, counters | post, count, report | the report accounts for every image |
| Training run (`training/train_padim.py`, `make_bundle.py`) | files it writes into a node's directories, signed bundles | write model, calibration and holdout images | a node never judges or serves a mixture |
| Reject sink, other scripts | a log; files | logging, measuring, downloading | — |

How they interact: all handlers of a node share one asyncio event loop and the
module-level singletons; inference runs in a `ProcessPoolExecutor` and comes
back through an await. Nodes call the fleet (heartbeats), the fleet calls nodes
(staging and activation over HTTP with a timeout). A node's memory is lost at a
restart, its `model_dir` is not; the fleet's tables are SQLite.

The hard parts: what runs between the swap and the end of the gate, values read
before an await and used after it, a dead worker process, exceptions half-way
through a handler, restarts that forget the active model, lost and overtaken
heartbeats, concurrent rollouts, files replaced under cached sessions.
`PROJECT.json` lists each of these hazards at its line.

## Modules

* **ModelStore** — the three slots as a record and the store's methods as
  operators. Constant-level, so that any module can keep a store.
* **Reviews** — the review queue. Each function of `reviews.py` that writes
  holds one lock, hence one action each. `marked` is a history variable.
* **EdgeNode** — the node. It extends ModelStore and instantiates Reviews as
  `R`. The correspondence:

  | Code | Model |
  |---|---|
  | `inspect` up to its await / after it | `Submit` / `Reply`, `ReplyError` |
  | `inspect` in inline mode | `InspectInline` |
  | the pool's queue, `score_image` in a worker | `WorkerTake`, `WorkerScore` |
  | a killed worker: `BrokenProcessPool` | `WorkerDies` |
  | `activate_model`, up to the swap / the evaluation and after | `ActivateSwap` / `GateAccepts`, `GateRollsBack`, `GateRaises` |
  | `stage_model`, `stage_model_bundle`, `put_threshold`, `override_review` | `StageModel`, `StageBundle`, `PutThreshold`, `OverrideReview` |
  | the local clock against the window | `WindowTurns` |
  | the process stops, anywhere, and starts again | `Restart` |

  `loop` says who has the event loop. `activate_model` has no await, so no other
  handler runs while `loop.at = "gate"`; workers, clock and restarts do. The
  versions let through by the gate and those whose evaluation raised are kept in
  the history variables `accepted` and `unjudged`.
* **HotSwap** — what the node promises its clients: one live model, atomic
  promotion, each inspection under one version. `EdgeNode!HS` instantiates it
  with the refinement mapping (`Live`, `Candidate`, `Calls`): during a trial the
  prior model is still live and the one on trial still the candidate.
* **FleetRegistry** — the heartbeat loops, a network that loses and reorders,
  and `upsert_device` with its conflict clause and drift flag. The float
  comparison `> 0.15` is a comparison of quotients plus `TiesUp`, the pairs of
  rates exactly 0.15 apart for which rounding says yes.
* **RolloutGate** — what F11 promises of a rollout, without devices or network:
  a device is asked only when every device of the earlier stages has reported
  healthy, and a final status says which it was.
* **Rollout** — one coroutine per `POST /rollout`, the requests and answers in
  the network, and the devices. It implements RolloutGate (`GateHolds`). A
  device is modelled as what HotSwap promises of it, one live version and one
  candidate that is promoted or discarded in one step; EdgeNode is shown to
  implement HotSwap.

  | Code | Model |
  |---|---|
  | `start_rollout` / the background task begins | `StartRollout` / `RunTask` |
  | between two awaits of `promote_to_devices`: loop, lookup, next request, judgement of the stage | `StagingAnswered`, `ActivationAnswered`, `RequestFails`, through `AfterDevice`, `EnterStage`, `Send`, `End` |
  | `stage_model`, `activate_model` on the device | `DeliverStaging`, `DeliverActivation` |
  | an operator, or another client, at the device | `OperatorStages`, `OperatorActivates` |
  | httpx gives up / the request is lost, or still carried out later | `RequestFails` / `Lose`, `DeliverStaging`, `DeliverActivation` |
  | device or fleet process restarts | `DeviceRestarts`, `FleetRestarts` |
* **ModelFiles** — the two files of a version on disk, who writes them
  (`verify_and_apply_bundle` step by step, a training run), who reads them (the
  event loop's process and each worker, `_get_session` step by step), and the
  slots with the trial of a staged model. EdgeNode takes for granted that a label
  names one model; here a label's files may be written again at any time, by a
  bundle or by training over the same label, and the module says what still holds.

  | Code | Model |
  |---|---|
  | `stage_model_bundle`: verified / each of the four moments of the two writes | `ReceiveBundle` / `WriteStep`, with `AfterStep` |
  | a training run, from its first write on; broken off | `Train`, `WriteStep`; `TrainingStops` |
  | `_get_session`: paths, model, calibration; an exception | `Find`, `ReadModel`, `ReadCalibration`; `Raise` |
  | an inspection in a worker, one that scores on the event loop | `Submit`, `Health` |
  | `activate_model`: swap / first image scored with a model not loaded yet | `Activate` / `TrialLoads` |
  | the evaluation ends with a rate / has no images, or raises over them | `Judge` / `NoVerdict` |
  | the node's processes die and start again | `Restart` |
* **HoldoutRefresh** — the holdout directory while a training run replaces its
  images and an activation lists, reads and judges.
* **MaintenanceWindow** — `in_maintenance_window` against a clock of finer
  resolution than the setting. In EdgeNode the window turns at any time.
* **Activation** — the two together: an activation begins inside the window only
  (`ActivateInWindow`), and while it is judged the clock goes on and the training
  run writes.
* **LatencyWindow** — the bounded deque of latencies and its percentiles.
* **LineRun** — a feeder run (Feeder) against one node's metrics (LatencyWindow):
  an image is inspected at most once, perhaps after the feeder gave it up.
* **ReviewPage** — the script of `GET /review` with Reviews instantiated as `R`:
  loads and clicks that overlap, and a node that restarts under an open page.
* **DemoPage** — the script of `GET /demo`: picks that abort each other.
* **Feeder** — the feeder's coroutine, its tasks and the semaphore.
* **MCEdgeNode, MCFleetRegistry, MCRollout, MCModelFiles** — constants and bounds
  for TLC; **MCReviews** runs the queue behind the page. The other modules are
  small enough for a cfg.
* **ReviewsProofs, EdgeNodeProofs, FleetRegistryProofs, RolloutProofs,
  ModelFilesProofs, ActivationProofs** (with HoldoutRefresh and
  MaintenanceWindow)**, LineRunProofs, PagesProofs** (both pages) — the theorems.

Operators introduced by a comment "Mutant:" are plausible wrong versions of the
definition after them. Nothing uses them; substituting one makes TLC find the
property named in `PROJECT.json` violated, which shows the property has teeth.

### Abstractions

* In EdgeNode and Rollout a version is a label; its files are present or missing
  and never change. ModelFiles is where they do.
* An image scores an arbitrary value in every worker run; only the holdout
  images have fixed scores per version. Scores and thresholds are `0..MaxScore`.
* `rollback_events` is a set of pairs instead of a time-stamped list.
* Time stamps, thumbnails and the read-only endpoints are left out, except those
  that evaluate a model (`Health` in ModelFiles) or feed a page (`ListRecent`).
* In FleetRegistry a device's rate changes freely, and two heartbeats of the
  same content in flight are one; so are two equal requests in Rollout.
* A signature is what it was computed over, or None; a hash is what it was
  computed of. Bundles that fail verification change nothing.
* A file is truncated when it is opened and whole when it is closed; a reader in
  between finds it torn and raises.
* In Rollout the four answers of a device are nondeterministic: healthy, rolled
  back, an error before or after the swap.
* The positions of a rollout are pairs (stage, place), so that a device named
  twice is asked twice, as in the code.
* In the pages, elements that are shown and hidden together are one variable.

## Runs

| Run | Shows |
|---|---|
| `reviews` | the queue behind an open review page: overlapping loads, a click on a stale card, evictions, a restart |
| `node_worker` | the node in both inference modes: two inspections against swaps, gate outcomes, threshold changes, a dying worker and restarts |
| `node_live` | every inspection is answered, and no swap costs one its verdict |
| `fleet` | the registry: its safety, and its convergence after losses and overtaking |
| `fleet_drift`, `fleet_loop` | disagreements between code and documents, below |
| `rollout` | two rollouts that overlap, operators in between, faults of network, devices and fleet |
| `files` | bundles (tampered ones included), training over the same label, loads, trials and crashes in every interleaving, with a legacy model |
| `files_live` | a disagreement, below |
| `activation` | activations before, between and after training runs, in all windows of a day of two hours of two minutes, with two ticks a minute |
| `demo_page` | three picks of two images, answered, failing or aborted in any order |
| `line` | a feeder run of four images over two places against one node |

Properties of the node: `RollbackTarget` (a rollback restores what the handler
reports and never raises), `ServedWasReleased` (no inspection under a model on
trial), `QueueHoldsEachOnce`, `CountersAgree` (`/health` and review queue),
`SwapLooksAtomic` (refinement of HotSwap), `InspectionAnswered` and
`SwapDropsNoWork` (liveness).

Properties of the fleet: `DriftFlagFresh`, `BaselineIsFirst`, `RowCatchesUp`
(the row converges whatever was lost or overtaken), `GateHolds` (refinement of
RolloutGate), `CompleteMeansPromoted`, `RolloutSettles`.

Properties of files and holdout images: `SessionsCurrent` (a cached session is
what is on the disk, hence the same in the gate and in the workers), `PairsMatch`
(no model with the calibration of another), `ServedWasGated` (what a process
serves, the gate accepted or could not judge), `OnlyVerified`,
`QuietVerdictIsRight`.

Properties of the review queue and its page: `KeepsNewest`, `CountedOnce`,
`DoneCardsAreCounted`, `PageCatchesUp`. Of the demo page:
`ShowsTheNewest`, `NeverStuck`. Of the feeder and the node's latencies:
`PlacesAccounted`, `ReportIsComplete`, `FeederReturns`, `PercentileIsRank`. Of the
window: `WindowIsStretch`, `OpensAndCloses`, `OpensEveryDay`.

Some properties carry a condition, because without it the code does not keep
them; the comment at the property says what happens then.

* `CompleteMeansPromoted` is for a rollout that has its devices to itself
  (`Alone`). Staging and activating are two requests (`orchestrator.py:21-22`):
  what another rollout or an operator stages in between is what gets activated,
  and the rollout is "promoted" all the same. Such interleavings are reached by
  the run, and no property covers them.
* `GateHolds` is about later stages: after a failure the rest of the failed
  device's own stage is still asked (`orchestrator.py:15-30`).
* `SessionsCurrent` and `ServedWasGated` are for labels that nobody wrote after a
  process had begun to load them (`rewritten`). Sessions are cached by label
  (`inference.py:45`): after a write, one process has the old model and another
  the new one, and the gate may have seen neither of the two that are served; a
  session of a legacy file stays when the label's own files arrive.
* `PairsMatch` excepts such labels too, those being written at the moment, and
  those last written by two at once or not to the end (`tangled`): model and
  calibration are two writes (`bundle.py:76-79`, `train_padim.py:95-112`) and two
  reads (`inference.py:53-56`). An undisturbed write of both files makes a label
  good again.
* `ServedWasGated` counts three kinds of model as let through that nobody judged:
  the label the node starts with, one activated without holdout images, and one
  whose evaluation raised (`main.py:134`). The last stays in service after the
  handler has failed; no document says whether it should. `ServedWasReleased` and
  `SwapLooksAtomic` treat it the same way.
* `QuietVerdictIsRight` is for evaluations no training run disturbs: during the
  refresh of the holdout images (`train_padim.py:118-124`) a gate can judge by
  a part of them, which the run reaches and no property covers.
* `DoneCardsAreCounted` is for cards of the current run of the node: ids begin
  again at 1 after a restart (`reviews.py:23`), and a click on an older card marks
  whatever part has its id now.
* `RolloutSettles` is for rollouts the fleet does not restart under; the row of
  one it does says in_progress for ever (`fleet_service/app/main.py:73`).
* `CountedOnce` counts overrides, not the rate: `operator_override_rate` divides
  all overrides ever made by the rejects still kept (`reviews.py:78`).
* `DriftFlagFresh` takes the float comparison of `db.py:63` as it is: of rates
  exactly 0.15 apart, `TiesUp` names those that come out above.

Bounds. Two versions, of which one has no files until its bundle arrives, reach
all three gate outcomes for both, since the outcome depends on the threshold:
re-promoting the active version, rolling back to it, promoting a version without
files. Two inspections give every order of two answers around a swap, and a
queue of one evicts at the second reject. `mode` is chosen at the start and stays,
so `node_worker` explores the pool and the event loop; the inspections are
symmetric there. `node_live` has one that cannot be decoded, the pool only, and
nobody who uses the override button. One device suffices in `fleet`: rows are keyed by device.

Two devices in three stages, one of them empty and the last naming a device
again, let a rollout fail in any place of a stage, with a stage after it or none;
the second rollout, with one device and the other version, meets the first
between the staging and the activation of either. Nothing in Rollout
is counted: `asked`, `healthy` and `put` are sets of positions, `touched` is a set
of devices. In ModelFiles one of two labels can be replaced under the other; it is
signed from one build and trained from another, so that either may be written
first, again, under a load, or beside the other; a third build is the legacy model
that stands in for it before. One worker and the event loop's process are the
least that can differ. In `files_live` the node is delivered with both labels, and
a bundle brings a new build of one. Two holdout images and a ceiling of one half
make a rate that meets the ceiling, and leave an image read and one unread on
either side of a deletion. The day of `activation` has windows of every kind: one
tick long, around midnight, all day long. The review page needs two loads to be
overtaken, one click that can be stale, and a queue of two to evict under it. Four images overflow a latency
window of three, and two places leave one image waiting for another to fail.
`MaxRejects`, `MaxRestarts`, `MaxInFlight`, `MaxPicks`, `MaxTasks`, `MaxLatency`
and the finite `Requests` are the only bounds of counters.

Fairness. `EdgeNode!Fairness`: workers go on (the pool's own processes), the
handler that has the event loop ends (the evaluation is a finite loop), and a
coroutine whose await is over runs eventually: asyncio's ready queue is first
in, first out, so an unbounded run of other handlers cannot overtake it — strong
fairness, since each of those handlers disables it for a while. Nothing is
assumed of clients, operators, the clock or crashes.
`FleetRegistry!Fairness`: loops go on, requests do not stay in the network for
ever, and of a heartbeat sent again and again some arrive. The last is an
assumption on the link, the one under which any report can get through.
`Rollout!Fairness`: a coroutine goes on once its await is over, and the client's
timeout of 15 s ends every await; nothing is assumed of devices, network and
operators. `ReviewPage!Fairness`: the timer goes on firing, and the node and the
network answer. `DemoPage!Fairness`: a request ends in an answer or an error;
the page sets no time limit itself, so this is up to the browser.
`Feeder!Fairness`: time passes, tasks that can run do, and httpx waits at most
10 s. `ActivationSpec`: the clock runs.

Deadlock is checked in `node_worker`, `node_live`, `fleet`, `fleet_drift`,
`fleet_loop` and `activation`. Elsewhere the bounds, an idle system or a finished run
leave nothing to do, and the cfg says so.

### Disagreements

* `fleet_drift`: a device whose first heartbeat carries no rate never gets a
  baseline: the conflict clause (`db.py:70-76`) does not store the one computed in
  `db.py:58-59`. It is never listed by `GET /drift` (`README.md:100-101`).
* `fleet_loop`: an evaluation that raises ends the heartbeat task for good
  (`heartbeat.py:42`; `README.md:93`, `TECH_DEBT.md:51-52`).
* `files_live`: a bundle for the label that is active is live in every worker that
  has not loaded the label yet, without an activation, and even half of it is, the
  new model with the old calibration (`inference.py:45`, `bundle.py:76-79`; "a
  bundle landing on disk is not the same as it being live", `main.py:109-111`).

## Proofs

All theorems hold for every value of the constants under the named assumptions
of the modules, which only state what kind of thing a constant is
(`EdgeAssumption`, `NoneAssumption`, `MaxHistoryAssumption`,
`RegistryAssumption`, `NoRowAssumption`, `RolloutAssumption`,
`ModelFilesAssumption`, `HoldoutAssumption`, `ClockAssumption`,
`FeederAssumption`, `DemoPageAssumption`, and `LineAssumption`: the latency
window has a place, and percentiles are below 100, as 50, 95 and 99 are).

* **ReviewsProofs**: `TypeOK /\ KeepsNewest /\ CountedOnce` is inductive, and
  only together: a kept id occurs once because the queue is an unbroken run, and
  a new id is unmarked because ids only grow. `PushShape` says what a push to a
  bounded deque does to each position.
* **EdgeNodeProofs**: `ReviewStep` shows that each step of the node is a step of
  Reviews or leaves it alone, so the invariants of the queue carry over
  (`NodeRunsReviews`, `NodeReviewsInvariant`). `NodeInv` is the inductive
  invariant of the rest: types, `RollbackTarget` (needed to see that a rollback
  restores a released version), `QueueHoldsEachOnce` (needed to see that a worker
  takes a queued inspection, not one never begun), `ServedWasReleased`, and that
  an inspection not begun carries no version. One lemma per action. From it follow
  the counters (`CountersCorrect`, by counting the decided inspections) and the
  refinement (`SwapIsAtomic`, one step per action, with `RollbackTarget` showing
  that a rollback leaves the live model alone).
* **FleetRegistryProofs**: types, the flag and the baseline, from an invariant
  that adds that a device without a row has reported nothing.
* **RolloutProofs**: `RolloutsKeepTheGate`, for any stages, devices and number of
  rollouts. The gate's promise is about the set of healthy devices, while the
  coroutine remembers one flag and its place. The invariant `WaitsWell` ties the
  two together: the earlier stages are healthy; the flag is true exactly if the
  places before this one in the stage are; nothing at or after it is. Without the
  last part "halted" could stand for a rollout whose devices are all healthy.
  `AfterDeviceStep` and `EnterStageStep` follow the loop of the code, `Moves` is
  what each of them leaves in order, `QuietStep` covers everything outside the
  coroutines. `CompleteIsPromoted` is on top of that. The invariant `Promoting`
  says what having the devices to itself buys a rollout: nothing but its own
  version waits on them, so an answer "healthy" that the coroutine has not even
  looked at yet already stands for a position where its version was put into
  service. That no one else comes by is `OwnRequest`, which needs that requests
  under way belong to rollouts that were started.
* **ModelFilesProofs**: nothing is assumed of how often a label is built, packed
  or trained, nor of the legacy files. `FilesInv` (types, how far a load is, what
  the event loop is busy with, that a write under way is a signed bundle's or a
  training run's) gives `NothingUnsignedLands`. `CurrentInv` adds that a load of a
  label not rewritten has read what is still on the disk (`LoadCurrent`), hence
  `SessionsAreCurrent`. `PairsInv` says the same of builds: a label that is
  neither tangled nor being written has a pair on the disk (`PairOnDisk`), a write
  alone under way leaves one behind (`WriterAlone`), and a load that was not
  written under has a part of it. `PairsStayTogether` assumes that each bundle was
  packed from one build (`PackedInPairs`), since a signature covers any two files;
  `make_bundle.py` does that if no training run writes them while it reads them.
  `ServedInv` carries the gate's acceptance from its own process to the others:
  what is cleared in one is cleared wherever the label is loaded (`Cleared`),
  because by `CurrentInv` both have what is on the disk, and the label a rejection
  would return to is cleared as well (`ServedIsGated`).
* **ActivationProofs**: what an activation depends on besides the node. A
  training run that copies has exactly what it copied in the holdout directory,
  so one that ends leaves the holdout set there; an undisturbed evaluation finds
  it whole throughout, and has read what it need not read any more (`Quiet`).
  Both rates are over the same number of images (`ReadIsTest`). The maintenance
  window is for a day of any length and a clock of any resolution, by cases of
  where midnight lies; `TicksInDay` is the only place where hours and minutes
  matter. `ActivationIsBoth` shows that each half behaves in the composition as it
  does alone.
* **LineRunProofs**: `FeederInv` counts by sets: the total is the number of
  tasks that are done, the places taken that of the tasks sent, and the recorded
  latencies are as many as the tasks done and name all of them. From it follow
  `PlacesAreAccounted` and `ReportCorrect`, for any number of images and places.
  `LineStep` shows that to the feeder a run against a node is a run, so its
  invariant carries over; with what the node counts (`LineTypeCorrect`) it gives
  `CountsAreComparable`, which no run states: feeder and node can be held
  against each other at every moment. `PercentilesCorrect` needs that a sequence
  can be sorted at all. `SortingOrder` gets it without induction: the place of a
  sample is the number of samples that are less, or equal and earlier, and these
  numbers are different for different samples. In an ascending order at most as
  many samples are less than the one at a place as there are places before it
  (`RankOfPlace`), and `IndexBounds` puts the index of the code between the two
  ranks.
* **PagesProofs**: the review page can only do to the queue what Reviews allows
  (`PageUsesTheQueue`), so the invariants of the queue hold behind it. `PageInv`
  says that a card is truthful wherever it is: on the page, in an answer that has
  not been shown, or under a click that has not been served. Ids and marks only
  grow within a run of the node (`StaysTruthful`) and a restart makes every card
  an old one (`OldCardsAreTruthful`), which is why the order in which loads
  overtake each other does not matter. `DoneCardsCorrect` and
  `ClicksNameTheirPart` follow, for any number of overlapping loads and clicks. In
  the demo page all requests but the current one are over or aborted
  (`NewestRunsAlone`), so the one that shows something is the one whose image is
  shown (`NewestShown`).

Only model-checked: the liveness properties (`InspectionAnswered`,
`SwapDropsNoWork`, `RowCatchesUp`, `RolloutSettles`, `OpensEveryDay`,
`PageCatchesUp`, `NeverStuck`, `FeederReturns`), since fairness and ENABLED are
outside the prover's reach. Every safety property of a run is proved. The
disagreements are counterexamples and need no proof.

## Not modelled

* The image arithmetic of inference (resizing, normalisation) and the training
  itself: numeric code around third-party libraries. An image's score is any
  value.
* `quantize_compare.py` and `download_bottle.py`: sequential offline scripts
  whose results no component reads.
* The reject sink: a log nothing in the repository writes to.
* Settings that cannot be parsed: a maintenance window that is not HH:MM-HH:MM
  makes every activation raise, and a bundle whose manifest is no JSON the
  upload. A device whose reported URL is none would end a rollout's coroutine
  with an exception that is not caught, as a fleet restart does.
* Which threshold applies to a part that is in the pool while the threshold
  changes (`main.py:42`), and the answer of a `PUT /config/threshold` whose
  evaluation raises (`main.py:87`): EdgeNode has the state changes, the documents
  promise nothing.
