-------------------------------- MODULE Rollout --------------------------------
(***************************************************************************)
(* Staged rollouts (orchestrator.py, the rollouts table of db.py): one     *)
(* coroutine per POST /rollout on the fleet's event loop, any number of    *)
(* them at once, the requests they send to devices, and the devices.       *)
(*                                                                         *)
(* A device is promoted by two requests, POST /model and then              *)
(* POST /model/activate.  A request may be lost, and one that the          *)
(* coroutine gave up on after its timeout may still be carried out later.  *)
(* An answer to a coroutine that has given up goes nowhere.  A coroutine   *)
(* awaits nothing but answers: all it does from one answer to its next     *)
(* request is one action.                                                  *)
(*                                                                         *)
(* A device is what HotSwap promises of it: one live model and one         *)
(* candidate, promoted or discarded in one step.  EdgeNode implements that.*)
(***************************************************************************)
EXTENDS Naturals, Sequences

CONSTANTS
  Devices, Versions, None,
  Initial,          \* the version a device's process starts with
  Rollouts,
  Stages,           \* the devices of each stage of each rollout, in order
  Target,           \* the version of each rollout
  OperatorVersions  \* versions operators stage on devices themselves; if
                    \* there are none, operators leave the devices alone

ASSUME RolloutAssumption ==
  /\ Initial \in Versions /\ None \notin Versions
  /\ Stages \in [Rollouts -> Seq(Seq(Devices))]
  /\ Target \in [Rollouts -> Versions]
  /\ OperatorVersions \subseteq Versions

VARIABLES
  status, asked, healthy, \* as in RolloutGate; the last two are history
  task,                   \* each rollout's coroutine
  known,                  \* devices with a row in the fleet's table
  net,                    \* requests under way to a device
  live, candidate,        \* each device's models
  put,                    \* history: positions at which a rollout's own
                          \* activation put its own version into service
  touched                 \* history: devices operators staged or activated on

RG == INSTANCE RolloutGate

rolloutVars == <<status, asked, healthy, task>>
deviceVars  == <<live, candidate, put, touched>>
vars        == <<rolloutVars, known, net, deviceVars>>

Request(r, p, kind) == [rollout |-> r, at |-> p, kind |-> kind]

Requests ==
  UNION {[rollout : {r}, at : RG!Positions(r), kind : {"stage", "activate"}] : r \in Rollouts}

DeviceAt(r, p) == Stages[r][p[1]][p[2]]

(* A coroutine: the position and kind of its last request, the answer if   *)
(* it is there, and whether the stage has gone well so far.                *)
NewTask == [state |-> "none", at |-> <<0, 0>>, kind |-> "stage", answer |-> "none", ok |-> TRUE]

Init ==
  /\ RG!Init
  /\ task = [r \in Rollouts |-> NewTask]
  /\ known = {} /\ net = {}
  /\ live = [d \in Devices |-> Initial] /\ candidate = [d \in Devices |-> None]
  /\ put = [r \in Rollouts |-> {}] /\ touched = {}

-------------------------------------------------------------------------------
(* The coroutine. *)

Smallest(S) == CHOOSE n \in S : \A m \in S : n <= m

(* POST /rollout: a row in the table and a background task. *)
StartRollout(r) ==
  /\ status[r] = "none"
  /\ status' = [status EXCEPT ![r] = "in_progress"]
  /\ task' = [task EXCEPT ![r].state = "queued"]
  /\ UNCHANGED <<asked, healthy, known, net, deviceVars>>

Send(r, p, kind, ok) ==
  /\ task' = [task EXCEPT ![r] =
       [state |-> "waiting", at |-> p, kind |-> kind, answer |-> "none", ok |-> ok]]
  /\ net' = net \union {Request(r, p, kind)}
  /\ asked' = [asked EXCEPT ![r] = @ \union {p}]
  /\ UNCHANGED status

(* Mutant: the outcome is recorded, but the coroutine does not return. *)
EndKeepsWaiting(r, outcome) ==
  /\ status' = [status EXCEPT ![r] = outcome]
  /\ UNCHANGED <<task, net, asked>>

End(r, outcome) ==
  /\ status' = [status EXCEPT ![r] = outcome]
  /\ task' = [task EXCEPT ![r].state = "ended", ![r].answer = "none"]
  /\ UNCHANGED <<net, asked>>

(* Positions of a stage, beyond the j-th, whose device has a row. *)
Reachable(r, i, j) == {k \in (j + 1)..Len(Stages[r][i]) : Stages[r][i][k] \in known}

LaterStages(r, i) == {n \in (i + 1)..Len(Stages[r]) : Stages[r][n] # <<>>}

(* The next stage with a device in it; a device without a row fails the    *)
(* stage, but those after it are still asked.  No stage is left: complete. *)
EnterStage(r, i) ==
  IF LaterStages(r, i) = {} THEN End(r, "complete")
  ELSE LET n == Smallest(LaterStages(r, i))
           K == Reachable(r, n, 0)
       IN  IF K = {} THEN End(r, "halted")
           ELSE Send(r, <<n, Smallest(K)>>, "stage", Smallest(K) = 1)

(* Mutant: a device without a row is skipped and not counted as failed. *)
SkipUnknown(r, p, ok) ==
  LET i == p[1]
      K == Reachable(r, i, p[2])
  IN  IF K # {} THEN Send(r, <<i, Smallest(K)>>, "stage", ok)
      ELSE IF ok THEN EnterStage(r, i)
      ELSE End(r, "halted")

(* Mutant: only the last device of a stage decides. *)
LastDecides(r, p, ok) ==
  LET i == p[1]
      K == Reachable(r, i, p[2])
  IN  IF K # {} THEN Send(r, <<i, Smallest(K)>>, "stage", TRUE)
      ELSE IF ok /\ p[2] = Len(Stages[r][i]) THEN EnterStage(r, i)
      ELSE End(r, "halted")

(* Mutant: the coroutine of a failed stage returns without a word. *)
HaltSilently(r, p, ok) ==
  LET i == p[1]
      K == Reachable(r, i, p[2])
  IN  IF K # {} THEN Send(r, <<i, Smallest(K)>>, "stage", ok /\ Smallest(K) = p[2] + 1)
      ELSE IF ok /\ p[2] = Len(Stages[r][i]) THEN EnterStage(r, i)
      ELSE End(r, status[r])

(* After the device at p: the rest of its stage, then the judgement of the *)
(* stage.  ok says whether all devices up to p activated healthily.        *)
AfterDevice(r, p, ok) ==
  LET i == p[1]
      K == Reachable(r, i, p[2])
  IN  IF K # {} THEN Send(r, <<i, Smallest(K)>>, "stage", ok /\ Smallest(K) = p[2] + 1)
      ELSE IF ok /\ p[2] = Len(Stages[r][i]) THEN EnterStage(r, i)
      ELSE End(r, "halted")

RunTask(r) ==
  /\ task[r].state = "queued"
  /\ EnterStage(r, 0)
  /\ UNCHANGED <<healthy, known, deviceVars>>

(* The staging request was answered; the code does not look at the status. *)
StagingAnswered(r) ==
  /\ task[r].state = "waiting" /\ task[r].kind = "stage" /\ task[r].answer # "none"
  /\ Send(r, task[r].at, "activate", task[r].ok)
  /\ UNCHANGED <<healthy, known, deviceVars>>

ActivationAnswered(r) ==
  /\ task[r].state = "waiting" /\ task[r].kind = "activate" /\ task[r].answer # "none"
  /\ LET fine == task[r].answer = "healthy"
     IN  /\ healthy' = [healthy EXCEPT ![r] = IF fine THEN @ \union {task[r].at} ELSE @]
         /\ AfterDevice(r, task[r].at, task[r].ok /\ fine)
  /\ UNCHANGED <<known, deviceVars>>

(* httpx gives up: no connection, or no answer within the 15 s. *)
RequestFails(r) ==
  /\ task[r].state = "waiting"
  /\ AfterDevice(r, task[r].at, FALSE)
  /\ UNCHANGED <<healthy, known, deviceVars>>

-------------------------------------------------------------------------------
(* Devices and network. *)

(* A heartbeat of a device arrives. *)
Register(d) ==
  /\ known' = known \union {d}
  /\ UNCHANGED <<rolloutVars, net, deviceVars>>

(* The answer reaches the coroutine if it still waits for this request. *)
Answer(m, a) ==
  task' = IF /\ task[m.rollout].state = "waiting"
             /\ task[m.rollout].at = m.at /\ task[m.rollout].kind = m.kind
          THEN [task EXCEPT ![m.rollout].answer = a] ELSE task

DeliverStaging(m) ==
  /\ m \in net /\ m.kind = "stage"
  /\ net' = net \ {m}
  /\ candidate' = [candidate EXCEPT ![DeviceAt(m.rollout, m.at)] = Target[m.rollout]]
  /\ Answer(m, "staged")
  /\ UNCHANGED <<status, asked, healthy, known, live, put, touched>>

Promote(d) ==
  /\ candidate[d] # None
  /\ live' = [live EXCEPT ![d] = candidate[d]]
  /\ candidate' = [candidate EXCEPT ![d] = None]

Discard(d) ==
  /\ candidate[d] # None
  /\ candidate' = [candidate EXCEPT ![d] = None]
  /\ UNCHANGED live

(* POST /model/activate: the gate lets the candidate through; or it rolls  *)
(* back, which is an answer like any other; or the evaluation raises after *)
(* the swap; or there is nothing to do, or the window is closed.           *)
DeliverActivation(m) ==
  /\ m \in net /\ m.kind = "activate"
  /\ net' = net \ {m}
  /\ LET d == DeviceAt(m.rollout, m.at)
     IN  /\ \/ Promote(d) /\ (Answer(m, "healthy") \/ Answer(m, "error"))
            \/ Discard(d) /\ Answer(m, "rolled_back")
            \/ Answer(m, "error") /\ UNCHANGED <<live, candidate>>
         /\ put' = [put EXCEPT ![m.rollout] =
              IF candidate[d] = Target[m.rollout] /\ live'[d] = Target[m.rollout] /\ candidate'[d] = None
                THEN @ \union {m.at} ELSE @]
  /\ UNCHANGED <<status, asked, healthy, known, touched>>

Lose(m) ==
  /\ m \in net
  /\ net' = net \ {m}
  /\ UNCHANGED <<rolloutVars, known, deviceVars>>

OperatorStages(d, v) ==
  /\ candidate' = [candidate EXCEPT ![d] = v]
  /\ touched' = touched \union {d}
  /\ UNCHANGED <<rolloutVars, known, net, live, put>>

OperatorActivates(d) ==
  /\ OperatorVersions # {}
  /\ Promote(d) \/ Discard(d)
  /\ touched' = touched \union {d}
  /\ UNCHANGED <<rolloutVars, known, net, put>>

DeviceRestarts(d) ==
  /\ live' = [live EXCEPT ![d] = Initial]
  /\ candidate' = [candidate EXCEPT ![d] = None]
  /\ UNCHANGED <<rolloutVars, known, net, put, touched>>

(* The fleet's process restarts: the tables are on disk, the coroutines    *)
(* are gone, and nobody starts them again.                                 *)
FleetRestarts ==
  /\ task' = [r \in Rollouts |->
       IF task[r].state \in {"queued", "waiting"}
         THEN [task[r] EXCEPT !.state = "lost", !.answer = "none"] ELSE task[r]]
  /\ UNCHANGED <<status, asked, healthy, known, net, deviceVars>>

Resume(r) == RunTask(r) \/ StagingAnswered(r) \/ ActivationAnswered(r) \/ RequestFails(r)

Next ==
  \/ \E r \in Rollouts : StartRollout(r) \/ Resume(r)
  \/ \E m \in net : DeliverStaging(m) \/ DeliverActivation(m) \/ Lose(m)
  \/ \E d \in Devices : Register(d) \/ OperatorActivates(d) \/ DeviceRestarts(d)
  \/ \E d \in Devices, v \in OperatorVersions : OperatorStages(d, v)
  \/ FleetRestarts

Spec == Init /\ [][Next]_vars

(* A coroutine whose await is over runs on, and no await outlasts the      *)
(* client's timeout.  Devices, network and operators owe nothing.          *)
Fairness == \A r \in Rollouts : WF_vars(Resume(r))

FairSpec == Spec /\ Fairness

-------------------------------------------------------------------------------
Tasks ==
  [state : {"none", "queued", "waiting", "ended", "lost"}, at : Nat \X Nat,
   kind : {"stage", "activate"}, answer : {"none", "staged", "healthy", "rolled_back", "error"},
   ok : BOOLEAN]

(* Kinds of value; a coroutine waits only while its row says in_progress,  *)
(* and for a position of its own plan.                                     *)
TypeOK ==
  /\ status \in [Rollouts -> {"none", "in_progress", "complete", "halted"}]
  /\ task \in [Rollouts -> Tasks]
  /\ \A r \in Rollouts :
       /\ asked[r] \subseteq RG!Positions(r) /\ healthy[r] \subseteq asked[r]
       /\ put[r] \subseteq RG!Positions(r)
       /\ task[r].state \in {"queued", "waiting"} => status[r] = "in_progress"
       /\ task[r].state = "waiting" => task[r].at \in asked[r]
  /\ known \subseteq Devices
  /\ net \subseteq Requests
  /\ touched \subseteq Devices
  /\ live \in [Devices -> Versions] /\ candidate \in [Devices -> Versions \union {None}]

(* F11: "a stage only proceeds to the next if every device in it activated *)
(* healthily", and later stages are otherwise never attempted: rollouts    *)
(* with lost, late and unanswered requests, unknown devices and fleet      *)
(* restarts implement RolloutGate.                                         *)
GateHolds == RG!Spec

(* Nobody else, neither operators nor another rollout, has staged anything *)
(* on the devices of this one.                                             *)
DevicesOf(r) == {DeviceAt(r, p) : p \in RG!Positions(r)}

Alone(r) ==
  /\ DevicesOf(r) \intersect touched = {}
  /\ \A s \in Rollouts \ {r} : status[s] # "none" => DevicesOf(r) \intersect DevicesOf(s) = {}

(* A rollout that is recorded as "complete", "promoted to all devices",    *)
(* has put its own version into service at each of them, whatever was      *)
(* lost, late or restarted, if it had its devices to itself.  Without that *)
(* condition it may not have: staging and activating are two requests, and *)
(* what someone else stages in between is activated and counted.           *)
CompleteMeansPromoted ==
  \A r \in Rollouts : status[r] = "complete" /\ Alone(r) => RG!Positions(r) \subseteq put[r]

(* Every rollout that was requested ends up complete or halted, however    *)
(* silent its devices are, unless the fleet restarts under it: then its    *)
(* row says in_progress for ever.                                          *)
RolloutSettles ==
  \A r \in Rollouts :
    status[r] = "in_progress" ~> (status[r] \in {"complete", "halted"} \/ task[r].state = "lost")
===============================================================================
