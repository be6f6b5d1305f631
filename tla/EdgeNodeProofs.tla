---------------------------- MODULE EdgeNodeProofs ----------------------------
(***************************************************************************)
(* Theorems of EdgeNode for any versions, inspections, holdout scores,     *)
(* ceiling, worker count and inference mode.                               *)
(*                                                                         *)
(* The review queue is a component of its own: every step of the node is a *)
(* step of Reviews or leaves it alone, so its invariants carry over.  The  *)
(* rest is one inductive invariant, NodeInv.  It adds to the properties    *)
(* checked by TLC that an inspection not begun carries no version.         *)
(***************************************************************************)
EXTENDS EdgeNode, FiniteSetTheorems, TLAPS

RP == INSTANCE ReviewsProofs

BlankUntilBegun == \A r \in Requests : reqs[r].at = "new" => reqs[r].version = None

NodeInv ==
  /\ NodeTypeOK
  /\ RollbackTarget
  /\ QueueHoldsEachOnce
  /\ ServedWasReleased
  /\ BlankUntilBegun

-------------------------------------------------------------------------------
(* Every step of the node is a step of its review queue, or leaves it alone. *)
LEMMA ReviewStep == ASSUME [Next]_vars PROVE [R!Next]_reviewVars
  <1> USE DEF reviewVars
  <1>1. CASE UNCHANGED vars
    BY <1>1 DEF vars
  <1>2. ASSUME NEW r \in Requests, NEW v, NEW s, Decide(r, v, s) PROVE [R!Next]_reviewVars
    BY <1>2 DEF Decide, R!Next
  <1>3. ASSUME NEW r \in Requests, Submit(r) \/ InspectInline(r) \/ WorkerScore(r)
        PROVE  [R!Next]_reviewVars
    BY <1>2, <1>3 DEF Submit, InspectInline, WorkerScore
  <1>4. ASSUME NEW r \in Requests, Reply(r) \/ ReplyError(r) PROVE [R!Next]_reviewVars
    BY <1>2, <1>4 DEF Reply, ReplyError
  <1>5. ASSUME NEW id \in 1..next_id, OverrideReview(id) PROVE [R!Next]_reviewVars
    BY <1>5 DEF OverrideReview, R!Next
  <1>6. CASE WorkerTake BY <1>6 DEF WorkerTake
  <1>7. CASE WorkerDies BY <1>7 DEF WorkerDies
  <1>8. CASE \E t \in -1..(MaxScore + 1) : PutThreshold(t) BY <1>8 DEF PutThreshold
  <1>9. CASE \E v \in Versions : StageModel(v) BY <1>9 DEF StageModel
  <1>10. CASE \E v \in Bundled : StageBundle(v) BY <1>10 DEF StageBundle
  <1>11. CASE ActivateSwap BY <1>11 DEF ActivateSwap
  <1>12. CASE Gate BY <1>12 DEF Gate, GateAccepts, GateRollsBack, GateRaises
  <1>13. CASE WindowTurns BY <1>13 DEF WindowTurns
  <1>14. CASE Restart BY <1>14 DEF Restart, R!Next
  <1> QED
    BY <1>1, <1>3, <1>4, <1>5, <1>6, <1>7, <1>8, <1>9, <1>10, <1>11, <1>12, <1>13, <1>14
    DEF Next

(* The node's review queue behaves as Reviews says. *)
THEOREM NodeRunsReviews == Spec => R!Spec
  <1>1. Init => R!Init BY DEF Init
  <1> QED BY <1>1, ReviewStep, PTL DEF Spec, R!Spec, reviewVars, R!reviewVars

(* The invariants of the review queue hold of the node's. *)
THEOREM NodeReviewsInvariant == Spec => [](R!TypeOK /\ R!KeepsNewest)
  <1>1. R!Spec <=> RP!Spec
    BY PTL DEF R!Spec, RP!Spec, R!Init, RP!Init, R!Next, RP!Next, R!RecordReject, RP!RecordReject,
      R!Push, RP!Push, R!MarkOverridden, RP!MarkOverridden, R!Restart, RP!Restart,
      R!reviewVars, RP!reviewVars
  <1>2. RP!IInv => R!TypeOK /\ R!KeepsNewest
    BY DEF RP!IInv, R!TypeOK, RP!TypeOK, R!Review, RP!Review, R!KeepsNewest, RP!KeepsNewest
  <1>3. RP!Spec => []RP!IInv
    BY RP!ReviewsInvariant, EdgeAssumption
  <1>4. R!Spec => []RP!IInv
    BY <1>1, <1>3
  <1> QED BY <1>2, <1>4, NodeRunsReviews, PTL

-------------------------------------------------------------------------------
LEMMA NodeInitInv == Init => NodeInv
  <1> USE EdgeAssumption, NoneAssumption
  <1> SUFFICES ASSUME Init PROVE NodeInv OBVIOUS
  <1>1. NodeTypeOK
    BY DEF Init, NodeTypeOK, NewStore, Stores, Idle, NewRequest, Scores
  <1>2. RollbackTarget /\ QueueHoldsEachOnce
    BY DEF Init, RollbackTarget, QueueHoldsEachOnce, Idle, NewRequest
  <1>3. ServedWasReleased /\ BlankUntilBegun
    BY DEF Init, ServedWasReleased, BlankUntilBegun, Live, Released, Idle, NewRequest, NewStore
  <1> QED BY <1>1, <1>2, <1>3 DEF NodeInv

(* A restart establishes the invariant, whatever the state before. *)
LEMMA RestartInv == ASSUME NodeInv, Restart PROVE NodeInv'
  <1> USE EdgeAssumption, NoneAssumption
  <1>1. NodeTypeOK'
    BY DEF NodeInv, Restart, NodeTypeOK, NewStore, Stores, Idle, NewRequest, Scores
  <1>2. RollbackTarget' /\ QueueHoldsEachOnce'
    BY DEF Restart, RollbackTarget, QueueHoldsEachOnce, Idle, NewRequest
  <1>3. ServedWasReleased' /\ BlankUntilBegun'
    BY DEF Restart, ServedWasReleased, BlankUntilBegun, Live, Released, Idle, NewRequest, NewStore
  <1> QED BY <1>1, <1>2, <1>3 DEF NodeInv

(* Answering an inspection that is in no queue. *)
LEMMA AnswerInv ==
  ASSUME NodeInv, NEW r \in Requests, NEW at \in Answered, NEW v \in Released,
         reqs[r].at # "queued",
         reqs' = [reqs EXCEPT ![r] = Pinned(at, v)],
         total_inspections' \in Nat, total_rejections' \in Nat,
         UNCHANGED <<gateVars, disk, mode, threshold, window, queue, pool, rollback_events>>
  PROVE  NodeInv'
  <1> USE EdgeAssumption, NoneAssumption
  <1>1. NodeTypeOK'
    BY DEF NodeInv, NodeTypeOK, Pinned, gateVars, Answered, Scores, Released
  <1>2. RollbackTarget'
    BY DEF NodeInv, RollbackTarget, gateVars
  <1>3. \A q \in Requests : reqs'[q].at = "queued" => q # r /\ reqs'[q] = reqs[q]
    BY DEF NodeInv, NodeTypeOK, Pinned, Answered
  <1>4. \A i \in 1..Len(queue) : queue[i] \in Requests /\ queue[i] # r
    BY DEF NodeInv, NodeTypeOK, QueueHoldsEachOnce
  <1>5. QueueHoldsEachOnce'
    BY <1>3, <1>4 DEF NodeInv, NodeTypeOK, QueueHoldsEachOnce
  <1>6. ServedWasReleased' /\ BlankUntilBegun'
    BY DEF NodeInv, NodeTypeOK, ServedWasReleased, BlankUntilBegun, Live, Released, gateVars,
      Pinned, Answered
  <1> QED BY <1>1, <1>2, <1>5, <1>6 DEF NodeInv

LEMMA DecideInv ==
  ASSUME NodeInv, NEW r \in Requests, NEW s, NEW v \in Released, reqs[r].at # "queued",
         Decide(r, v, s),
         UNCHANGED <<gateVars, disk, mode, threshold, window, queue, pool, rollback_events>>
  PROVE  NodeInv'
  <1>1. Verdict(s) \in Answered BY DEF Verdict, Answered
  <1>2. total_inspections' \in Nat /\ total_rejections' \in Nat
    BY DEF Decide, NodeInv, NodeTypeOK
  <1> QED BY <1>1, <1>2, AnswerInv DEF Decide

LEMMA FailInv ==
  ASSUME NodeInv, NEW r \in Requests, NEW v \in Released, reqs[r].at # "queued", Fail(r, v),
         UNCHANGED <<gateVars, disk, mode, threshold, window, queue, pool, metricVars>>
  PROVE  NodeInv'
  <1>1. "error" \in Answered BY DEF Answered
  <1> QED BY <1>1, AnswerInv DEF Fail, NodeInv, NodeTypeOK, metricVars

LEMMA SubmitInv == ASSUME NodeInv, NEW r \in Requests, Submit(r) PROVE NodeInv'
  <1> USE EdgeAssumption, NoneAssumption
  <1>1. store.active \in Released /\ store.active \in Versions /\ reqs[r].at = "new"
    BY DEF Submit, NodeInv, NodeTypeOK, ServedWasReleased, Live, Idle, Stores
  <1>2. CASE pool # "up"
    BY <1>1, <1>2, FailInv DEF Submit
  <1>3. CASE pool = "up"
    <2>1. /\ reqs' = [reqs EXCEPT ![r] = Pinned("queued", store.active)]
          /\ queue' = Append(queue, r)
          /\ UNCHANGED <<gateVars, disk, mode, threshold, window, pool, metricVars, reviewVars>>
      BY <1>3 DEF Submit
    <2>2. NodeTypeOK'
      BY <1>1, <2>1 DEF NodeInv, NodeTypeOK, Pinned, InFlight, gateVars, metricVars, Scores
    <2>3. RollbackTarget'
      BY <2>1 DEF NodeInv, RollbackTarget, gateVars
    <2>4. /\ queue \in Seq(Requests) /\ reqs'[r].at = "queued"
          /\ \A q \in Requests : q # r => reqs'[q] = reqs[q]
          /\ \A i \in 1..Len(queue) : queue[i] \in Requests /\ queue[i] # r
      BY <1>1, <2>1 DEF NodeInv, NodeTypeOK, QueueHoldsEachOnce, Pinned
    <2>5. /\ Len(queue') = Len(queue) + 1 /\ queue'[Len(queue) + 1] = r
          /\ \A i \in 1..Len(queue) : queue'[i] = queue[i]
      BY <2>1, <2>4
    <2>6. Len(queue) \in Nat /\ 1..Len(queue') = 1..Len(queue) \union {Len(queue) + 1}
      BY <2>4, <2>5
    <2>7. \A i \in 1..Len(queue') : reqs'[queue'[i]].at = "queued"
      BY <2>4, <2>5, <2>6 DEF NodeInv, QueueHoldsEachOnce
    <2>8. \A i, j \in 1..Len(queue') : queue'[i] = queue'[j] => i = j
      BY <2>4, <2>5, <2>6 DEF NodeInv, QueueHoldsEachOnce
    <2>9. \A q \in Requests : reqs'[q].at = "queued" => \E i \in 1..Len(queue') : queue'[i] = q
      BY <2>4, <2>5, <2>6 DEF NodeInv, QueueHoldsEachOnce
    <2>10. ServedWasReleased' /\ BlankUntilBegun'
      BY <1>1, <2>1 DEF NodeInv, NodeTypeOK, ServedWasReleased, BlankUntilBegun, Live, Released,
        gateVars, Pinned
    <2> QED BY <2>2, <2>3, <2>7, <2>8, <2>9, <2>10 DEF NodeInv, QueueHoldsEachOnce
  <1> QED BY <1>2, <1>3

LEMMA InlineInv == ASSUME NodeInv, NEW r \in Requests, InspectInline(r) PROVE NodeInv'
  <1>1. store.active \in Released /\ reqs[r].at # "queued"
    BY DEF InspectInline, NodeInv, ServedWasReleased, Live, Idle
  <1>2. CASE CanScore(r, store.active)
    BY <1>1, <1>2, DecideInv DEF InspectInline
  <1>3. CASE ~CanScore(r, store.active)
    BY <1>1, <1>3, FailInv DEF InspectInline, metricVars
  <1> QED BY <1>2, <1>3

LEMMA ReplyInv == ASSUME NodeInv, NEW r \in Requests, Reply(r) \/ ReplyError(r) PROVE NodeInv'
  <1>1. reqs[r].version \in Released /\ reqs[r].at # "queued"
    BY DEF Reply, ReplyError, NodeInv, ServedWasReleased
  <1>2. CASE Reply(r) BY <1>1, <1>2, DecideInv DEF Reply
  <1>3. CASE ReplyError(r) BY <1>1, <1>3, FailInv DEF ReplyError
  <1> QED BY <1>2, <1>3

(* The task a worker takes is a queued inspection. *)
LEMMA HeadQueued ==
  ASSUME NodeInv, WorkerTake PROVE Head(queue) \in Requests /\ reqs[Head(queue)].at = "queued"
  BY DEF WorkerTake, NodeInv, NodeTypeOK, QueueHoldsEachOnce

(* A worker moves an inspection from one stage to another in the pool. *)
LEMMA TakeInv == ASSUME NodeInv, WorkerTake PROVE NodeInv'
  <1> USE EdgeAssumption, NoneAssumption
  <1> DEFINE r == Head(queue)
  <1>1. /\ queue \in Seq(Requests) /\ Len(queue) \in Nat \ {0}
        /\ r = queue[1] /\ r \in Requests /\ reqs[r].at = "queued"
    BY DEF WorkerTake, NodeInv, NodeTypeOK, QueueHoldsEachOnce
  <1>2. /\ reqs' = [reqs EXCEPT ![r].at = "running"]
        /\ queue' = Tail(queue)
        /\ UNCHANGED <<gateVars, disk, mode, threshold, window, pool, metricVars, reviewVars>>
    BY DEF WorkerTake
  <1>3. /\ queue' \in Seq(Requests) /\ Len(queue') = Len(queue) - 1
        /\ \A i \in 1..Len(queue') : i + 1 \in 1..Len(queue) /\ queue'[i] = queue[i + 1]
    BY <1>1, <1>2
  <1> HIDE DEF r
  <1>4. /\ \A q \in Requests : q # r => reqs'[q] = reqs[q]
        /\ reqs'[r] = [reqs[r] EXCEPT !.at = "running"]
        /\ reqs'[r].at = "running" /\ reqs'[r].version = reqs[r].version
    BY <1>1, <1>2 DEF NodeInv, NodeTypeOK
  <1>5. NodeTypeOK'
    <2> DEFINE Inspection == [at : {"new"} \union InFlight \union Answered,
                              version : Versions \union {None}, score : Scores]
    <2>1. reqs \in [Requests -> Inspection] BY DEF NodeInv, NodeTypeOK
    <2>2. [reqs[r] EXCEPT !.at = "running"] \in Inspection BY <1>1, <2>1 DEF InFlight
    <2> HIDE DEF Inspection
    <2>3. reqs' \in [Requests -> Inspection] BY <1>1, <1>2, <2>1, <2>2
    <2> QED BY <2>3, <1>2, <1>3 DEF Inspection, NodeInv, NodeTypeOK, gateVars, metricVars
  <1>6. RollbackTarget'
    BY <1>2 DEF NodeInv, RollbackTarget, gateVars
  <1>7. \A i \in 1..Len(queue') : queue'[i] \in Requests /\ queue'[i] # r
    BY <1>1, <1>3 DEF NodeInv, NodeTypeOK, QueueHoldsEachOnce
  <1>8. \A i \in 1..Len(queue') : reqs'[queue'[i]].at = "queued"
    BY <1>3, <1>4, <1>7 DEF NodeInv, QueueHoldsEachOnce
  <1>9. \A i, j \in 1..Len(queue') : queue'[i] = queue'[j] => i = j
    <2> TAKE i, j \in 1..Len(queue')
    <2> HAVE queue'[i] = queue'[j]
    <2>1. queue[i + 1] = queue[j + 1] BY <1>3
    <2>2. i + 1 = j + 1 BY <2>1, <1>3 DEF NodeInv, QueueHoldsEachOnce
    <2> QED BY <2>2, <1>1, <1>3
  <1>10. \A q \in Requests : reqs'[q].at = "queued" => \E i \in 1..Len(queue') : queue'[i] = q
    <2> TAKE q \in Requests
    <2> HAVE reqs'[q].at = "queued"
    <2>1. q # r /\ reqs[q].at = "queued" BY <1>4
    <2>2. PICK k \in 1..Len(queue) : queue[k] = q
      BY <2>1 DEF NodeInv, QueueHoldsEachOnce
    <2>3. k # 1 BY <2>1, <2>2, <1>1
    <2>4. k - 1 \in 1..Len(queue') BY <2>2, <2>3, <1>1, <1>3
    <2>5. queue'[k - 1] = queue[k] BY <2>2, <2>4, <1>1, <1>3
    <2> QED BY <2>2, <2>4, <2>5
  <1>11. ServedWasReleased' /\ BlankUntilBegun'
    BY <1>1, <1>2, <1>4 DEF NodeInv, ServedWasReleased, BlankUntilBegun, Live, Released, gateVars
  <1> QED BY <1>5, <1>6, <1>8, <1>9, <1>10, <1>11 DEF NodeInv, QueueHoldsEachOnce

LEMMA ScoreInv == ASSUME NodeInv, NEW r \in Requests, WorkerScore(r) PROVE NodeInv'
  <1> USE EdgeAssumption, NoneAssumption
  <1>1. PICK s \in Scores, at \in {"scored", "raised"} :
          reqs' = [reqs EXCEPT ![r] = [reqs[r] EXCEPT !.at = at, !.score = s]]
    <2>1. CASE CanScore(r, reqs[r].version)
      BY <2>1 DEF WorkerScore
    <2>2. CASE ~CanScore(r, reqs[r].version)
      <3>1. reqs[r] = [reqs[r] EXCEPT !.score = reqs[r].score] /\ reqs[r].score \in Scores
        BY DEF NodeInv, NodeTypeOK
      <3>2. reqs' = [reqs EXCEPT ![r] = [reqs[r] EXCEPT !.at = "raised"]]
        BY <2>2 DEF WorkerScore
      <3>3. [reqs[r] EXCEPT !.at = "raised"]
              = [reqs[r] EXCEPT !.at = "raised", !.score = reqs[r].score]
        BY DEF NodeInv, NodeTypeOK
      <3> QED BY <3>1, <3>2, <3>3
    <2> QED BY <2>1, <2>2
  <1>2. /\ reqs[r].at = "running"
        /\ UNCHANGED <<gateVars, disk, mode, threshold, window, queue, pool, metricVars, reviewVars>>
    BY DEF WorkerScore
  <1>3. /\ \A q \in Requests : q # r => reqs'[q] = reqs[q]
        /\ reqs'[r].at \in {"scored", "raised"} /\ reqs'[r].version = reqs[r].version
        /\ reqs'[r].score \in Scores
    BY <1>1 DEF NodeInv, NodeTypeOK
  <1>4. NodeTypeOK'
    <2>1. [reqs[r] EXCEPT !.at = at, !.score = s]
            \in [at : {"new"} \union InFlight \union Answered,
                version : Versions \union {None}, score : Scores]
      <3>1. reqs[r] \in [at : {"new"} \union InFlight \union Answered,
                        version : Versions \union {None}, score : Scores]
        BY DEF NodeInv, NodeTypeOK
      <3>2. at \in {"new"} \union InFlight \union Answered /\ s \in Scores
        BY DEF InFlight
      <3> QED BY <3>1, <3>2
    <2>2. reqs' \in [Requests -> [at : {"new"} \union InFlight \union Answered,
                                 version : Versions \union {None}, score : Scores]]
      BY <1>1, <2>1 DEF NodeInv, NodeTypeOK
    <2> QED BY <1>2, <2>2 DEF NodeInv, NodeTypeOK, gateVars, metricVars
  <1>5. RollbackTarget'
    BY <1>2 DEF NodeInv, RollbackTarget, gateVars
  <1>6. \A i \in 1..Len(queue) : queue[i] \in Requests /\ queue[i] # r
    BY <1>2 DEF NodeInv, NodeTypeOK, QueueHoldsEachOnce
  <1>7. QueueHoldsEachOnce'
    BY <1>2, <1>3, <1>6 DEF NodeInv, QueueHoldsEachOnce
  <1>8. ServedWasReleased' /\ BlankUntilBegun'
    BY <1>2, <1>3 DEF NodeInv, ServedWasReleased, BlankUntilBegun, Live, Released, gateVars
  <1> QED BY <1>4, <1>5, <1>7, <1>8 DEF NodeInv

LEMMA DiesInv == ASSUME NodeInv, WorkerDies PROVE NodeInv'
  <1> USE EdgeAssumption, NoneAssumption
  <1>1. /\ pool' = "broken" /\ queue' = <<>>
        /\ UNCHANGED <<gateVars, disk, mode, threshold, window, metricVars, reviewVars>>
    BY DEF WorkerDies
  <1>2. \A q \in Requests :
          /\ reqs'[q] = IF reqs[q].at \in {"queued", "running"}
                          THEN [reqs[q] EXCEPT !.at = "raised"] ELSE reqs[q]
          /\ reqs'[q].version = reqs[q].version
          /\ reqs'[q].at # "queued"
          /\ reqs[q].at = "new" <=> reqs'[q].at = "new"
    BY DEF WorkerDies, NodeInv, NodeTypeOK
  <1>3. NodeTypeOK'
    <2>1. reqs' \in [Requests -> [at : {"new"} \union InFlight \union Answered,
                                 version : Versions \union {None}, score : Scores]]
      <3>1. \A q \in Requests :
              [reqs[q] EXCEPT !.at = "raised"]
                \in [at : {"new"} \union InFlight \union Answered,
                    version : Versions \union {None}, score : Scores]
        BY DEF NodeInv, NodeTypeOK, InFlight
      <3> QED BY <3>1 DEF WorkerDies, NodeInv, NodeTypeOK
    <2> QED BY <1>1, <2>1 DEF NodeInv, NodeTypeOK, gateVars, metricVars
  <1>4. RollbackTarget'
    BY <1>1 DEF NodeInv, RollbackTarget, gateVars
  <1>5. QueueHoldsEachOnce'
    <2>1. 1..Len(queue') = {} BY <1>1
    <2> QED BY <1>2, <2>1 DEF QueueHoldsEachOnce
  <1>6. ServedWasReleased' /\ BlankUntilBegun'
    BY <1>1, <1>2 DEF NodeInv, ServedWasReleased, BlankUntilBegun, Live, Released, gateVars
  <1> QED BY <1>3, <1>4, <1>5, <1>6 DEF NodeInv

(* Handlers that touch none of the pool, the slots and the histories. *)
LEMMA QuietInv ==
  ASSUME NodeInv, UNCHANGED <<gateVars, disk, mode, poolVars, metricVars>>,
         threshold' \in Scores, window' \in BOOLEAN
  PROVE  NodeInv'
  BY DEF NodeInv, NodeTypeOK, RollbackTarget, QueueHoldsEachOnce, ServedWasReleased,
    BlankUntilBegun, Live, Released, gateVars, poolVars, metricVars

LEMMA StageInv ==
  ASSUME NodeInv, NEW v \in Versions, StageModel(v) \/ (v \in Bundled /\ StageBundle(v))
  PROVE  NodeInv'
  <1> USE EdgeAssumption, NoneAssumption
  <1>1. /\ loop = Idle /\ store' = [store EXCEPT !.staged = v] /\ disk' \subseteq Versions
        /\ UNCHANGED <<loop, accepted, unjudged, mode, threshold, window, poolVars, metricVars>>
    BY DEF StageModel, StageBundle, Stage, NodeInv, NodeTypeOK
  <1>2. NodeTypeOK'
    BY <1>1 DEF NodeInv, NodeTypeOK, Stores, poolVars, metricVars
  <1> QED BY <1>1, <1>2 DEF NodeInv, RollbackTarget, QueueHoldsEachOnce,
    ServedWasReleased, BlankUntilBegun, Live, Released, poolVars, Idle

LEMMA SwapInv == ASSUME NodeInv, ActivateSwap PROVE NodeInv'
  <1> USE EdgeAssumption, NoneAssumption
  <1>1. /\ loop = Idle /\ store.staged \in Versions /\ store.active \in Versions
        /\ loop' = [at |-> "gate", prior |-> store.active]
        /\ store' = [active |-> store.staged, previous |-> store.active, staged |-> None]
        /\ UNCHANGED <<accepted, unjudged, disk, mode, threshold, window, poolVars, metricVars>>
    BY DEF ActivateSwap, ActivateStaged, NodeInv, NodeTypeOK, Stores
  <1> QED BY <1>1 DEF NodeInv, NodeTypeOK, Stores, RollbackTarget, QueueHoldsEachOnce,
    ServedWasReleased, BlankUntilBegun, Live, Released, poolVars, metricVars, Idle

LEMMA GateInv == ASSUME NodeInv, Gate PROVE NodeInv'
  <1> USE EdgeAssumption, NoneAssumption
  <1>1. /\ loop.at = "gate" /\ loop' = Idle /\ store.active \in Versions
        /\ store.previous = loop.prior /\ loop.prior \in Versions
        /\ UNCHANGED <<disk, mode, threshold, window, poolVars, total_inspections, total_rejections>>
    BY DEF Gate, GateAccepts, GateRollsBack, GateRaises, NodeInv, NodeTypeOK, RollbackTarget,
      Stores, metricVars
  <1>2. CASE GateAccepts
    BY <1>1, <1>2 DEF GateAccepts, NodeInv, NodeTypeOK, RollbackTarget, QueueHoldsEachOnce,
      ServedWasReleased, BlankUntilBegun, Live, Released, poolVars, metricVars, Idle
  <1>3. CASE GateRollsBack
    <2>1. /\ store' = [store EXCEPT !.active = loop.prior, !.previous = store.active]
          /\ UNCHANGED <<accepted, unjudged>>
          /\ rollback_events' = rollback_events \union
               {[from_version |-> store.active, to_version |-> loop.prior]}
      BY <1>1, <1>3 DEF GateRollsBack, Rollback
    <2>2. NodeTypeOK'
      <3>1. store' \in Stores
        BY <1>1, <2>1 DEF NodeInv, NodeTypeOK, Stores
      <3>2. [from_version |-> store.active, to_version |-> loop.prior]
              \in [from_version : Versions, to_version : Versions]
        BY <1>1
      <3> QED BY <1>1, <2>1, <3>1, <3>2 DEF NodeInv, NodeTypeOK, poolVars, Idle
    <2> QED BY <1>1, <2>1, <2>2 DEF NodeInv, NodeTypeOK, Stores, RollbackTarget,
      QueueHoldsEachOnce, ServedWasReleased, BlankUntilBegun, Live, Released, poolVars, Idle
  <1>4. CASE GateRaises
    BY <1>1, <1>4 DEF GateRaises, NodeInv, NodeTypeOK, RollbackTarget, QueueHoldsEachOnce,
      ServedWasReleased, BlankUntilBegun, Live, Released, poolVars, metricVars, Idle
  <1> QED BY <1>2, <1>3, <1>4 DEF Gate

LEMMA NodeStepInv == ASSUME NodeInv, [Next]_vars PROVE NodeInv'
  <1> USE EdgeAssumption
  <1>1. ASSUME NEW r \in Requests, Submit(r) \/ InspectInline(r) \/ WorkerScore(r)
        PROVE  NodeInv'
    BY <1>1, SubmitInv, InlineInv, ScoreInv
  <1>2. ASSUME NEW r \in Requests, Reply(r) \/ ReplyError(r) PROVE NodeInv'
    BY <1>2, ReplyInv
  <1>3. CASE WorkerTake BY <1>3, TakeInv
  <1>4. CASE WorkerDies BY <1>4, DiesInv
  <1>5. ASSUME NEW t, PutThreshold(t) PROVE NodeInv'
    BY <1>5, QuietInv DEF PutThreshold, NodeInv, NodeTypeOK
  <1>6. ASSUME NEW v \in Versions, StageModel(v) PROVE NodeInv'
    BY <1>6, StageInv
  <1>7. ASSUME NEW v \in Bundled, StageBundle(v) PROVE NodeInv'
    BY <1>7, StageInv
  <1>8. ASSUME NEW id, OverrideReview(id) PROVE NodeInv'
    BY <1>8, QuietInv DEF OverrideReview, NodeInv, NodeTypeOK
  <1>9. CASE ActivateSwap BY <1>9, SwapInv
  <1>10. CASE Gate BY <1>10, GateInv
  <1>11. CASE WindowTurns
    BY <1>11, QuietInv DEF WindowTurns, NodeInv, NodeTypeOK
  <1>12. CASE Restart BY <1>12, RestartInv
  <1>13. CASE UNCHANGED vars
    BY <1>13, QuietInv DEF vars, NodeInv, NodeTypeOK
  <1> QED
    BY <1>1, <1>2, <1>3, <1>4, <1>5, <1>6, <1>7, <1>8, <1>9, <1>10, <1>11, <1>12, <1>13 DEF Next

THEOREM NodeInvariant == Spec => []NodeInv
  BY NodeInitInv, NodeStepInv, PTL DEF Spec

-------------------------------------------------------------------------------
(* The counters.  An inspection leaves the undecided states only through   *)
(* Decide, which counts it, so the two sets grow with the two counters.    *)

LEMMA DecideCounts ==
  ASSUME NodeInv, R!TypeOK, CountersAgree, NEW r \in Requests, NEW v, NEW s,
         r \notin Decided, Decide(r, v, s)
  PROVE  CountersAgree'
  <1>1. IsFiniteSet(Decided) /\ IsFiniteSet(Rejects) /\ r \notin Rejects
    BY EdgeAssumption, FS_Subset DEF Decided, Rejects
  <1>2. reqs' = [reqs EXCEPT ![r] = Pinned(Verdict(s), v)] /\ reqs'[r].at = Verdict(s)
    BY DEF Decide, Pinned, NodeInv, NodeTypeOK
  <1>3. \A q \in Requests : q # r => reqs'[q] = reqs[q]
    BY <1>2 DEF NodeInv, NodeTypeOK
  <1>4. Decided' = Decided \union {r}
    BY <1>2, <1>3 DEF Decided, Verdict
  <1>5. Cardinality(Decided') = Cardinality(Decided) + 1
    BY <1>1, <1>4, FS_AddElement
  <1>6. CASE Verdict(s) = "reject"
    <2>1. Rejects' = Rejects \union {r}
      BY <1>2, <1>3, <1>6 DEF Rejects
    <2>2. Cardinality(Rejects') = Cardinality(Rejects) + 1
      BY <1>1, <2>1, FS_AddElement
    <2> QED BY <1>5, <1>6, <2>2 DEF CountersAgree, Decide, R!RecordReject, R!TypeOK
  <1>7. CASE Verdict(s) # "reject"
    <2>1. Rejects' = Rejects
      BY <1>1, <1>2, <1>3, <1>7 DEF Rejects
    <2> QED BY <1>5, <1>7, <2>1 DEF CountersAgree, Decide, reviewVars
  <1> QED BY <1>6, <1>7

LEMMA UndecidedCounts ==
  ASSUME CountersAgree,
         \A q \in Requests : \/ reqs'[q].at = reqs[q].at
                             \/ {reqs[q].at, reqs'[q].at} \intersect {"pass", "reject"} = {},
         UNCHANGED <<total_inspections, total_rejections, next_id>>
  PROVE  CountersAgree'
  <1>1. Decided' = Decided /\ Rejects' = Rejects
    BY DEF Decided, Rejects
  <1> QED BY <1>1 DEF CountersAgree

LEMMA FailCounts ==
  ASSUME NodeInv, CountersAgree, NEW r \in Requests, NEW v, r \notin Decided, Fail(r, v),
         UNCHANGED <<total_inspections, total_rejections, next_id>>
  PROVE  CountersAgree'
  <1>1. \A q \in Requests : \/ reqs'[q].at = reqs[q].at
                            \/ {reqs[q].at, reqs'[q].at} \intersect {"pass", "reject"} = {}
    BY DEF Fail, Pinned, NodeInv, NodeTypeOK, Decided
  <1> QED BY <1>1, UndecidedCounts

LEMMA CountersStep ==
  ASSUME NodeInv, R!TypeOK, CountersAgree, [Next]_vars PROVE CountersAgree'
  <1> USE DEF metricVars, reviewVars, poolVars
  <1>1. ASSUME NEW r \in Requests, Submit(r) PROVE CountersAgree'
    <2>1. CASE pool # "up"
      BY <1>1, <2>1, FailCounts DEF Submit, Decided
    <2>2. CASE pool = "up"
      <3>1. reqs' = [reqs EXCEPT ![r] = Pinned("queued", store.active)] /\ reqs[r].at = "new"
            /\ UNCHANGED <<total_inspections, total_rejections, next_id>>
        BY <1>1, <2>2 DEF Submit
      <3>2. \A q \in Requests : \/ reqs'[q].at = reqs[q].at
                                \/ {reqs[q].at, reqs'[q].at} \intersect {"pass", "reject"} = {}
        BY <3>1 DEF Pinned, NodeInv, NodeTypeOK
      <3> QED BY <3>1, <3>2, UndecidedCounts
    <2> QED BY <2>1, <2>2
  <1>2. ASSUME NEW r \in Requests, InspectInline(r) PROVE CountersAgree'
    <2>1. r \notin Decided BY <1>2 DEF InspectInline, Decided
    <2>2. CASE CanScore(r, store.active)
      BY <1>2, <2>1, <2>2, DecideCounts DEF InspectInline
    <2>3. CASE ~CanScore(r, store.active)
      BY <1>2, <2>1, <2>3, FailCounts DEF InspectInline
    <2> QED BY <2>2, <2>3
  <1>3. ASSUME NEW r \in Requests, WorkerScore(r) PROVE CountersAgree'
    <2>1. reqs[r].at = "running" /\ UNCHANGED <<total_inspections, total_rejections, next_id>>
      BY <1>3 DEF WorkerScore
    <2>2. reqs'[r].at \in {"scored", "raised"} /\ \A q \in Requests : q # r => reqs'[q] = reqs[q]
      <3>1. CASE CanScore(r, reqs[r].version)
        <4>1. PICK s \in Scores :
                reqs' = [reqs EXCEPT ![r] = [reqs[r] EXCEPT !.at = "scored", !.score = s]]
          BY <1>3, <3>1 DEF WorkerScore
        <4> QED BY <4>1 DEF NodeInv, NodeTypeOK
      <3>2. CASE ~CanScore(r, reqs[r].version)
        <4>1. reqs' = [reqs EXCEPT ![r] = [reqs[r] EXCEPT !.at = "raised"]]
          BY <1>3, <3>2 DEF WorkerScore
        <4> QED BY <4>1 DEF NodeInv, NodeTypeOK
      <3> QED BY <3>1, <3>2
    <2>3. \A q \in Requests : \/ reqs'[q].at = reqs[q].at
                              \/ {reqs[q].at, reqs'[q].at} \intersect {"pass", "reject"} = {}
      BY <2>1, <2>2
    <2> QED BY <2>1, <2>3, UndecidedCounts
  <1>4. ASSUME NEW r \in Requests, Reply(r) PROVE CountersAgree'
    BY <1>4, DecideCounts DEF Reply, Decided
  <1>5. ASSUME NEW r \in Requests, ReplyError(r) PROVE CountersAgree'
    BY <1>5, FailCounts DEF ReplyError, Decided
  <1>6. CASE WorkerTake
    <2>1. Head(queue) \in Requests /\ reqs[Head(queue)].at = "queued"
      BY <1>6, HeadQueued
    <2>2. \A q \in Requests : \/ reqs'[q].at = reqs[q].at
                              \/ {reqs[q].at, reqs'[q].at} \intersect {"pass", "reject"} = {}
      BY <1>6, <2>1 DEF WorkerTake, NodeInv, NodeTypeOK
    <2> QED BY <1>6, <2>2, UndecidedCounts DEF WorkerTake
  <1>7. CASE WorkerDies
    <2>1. \A q \in Requests : \/ reqs'[q].at = reqs[q].at
                              \/ {reqs[q].at, reqs'[q].at} \intersect {"pass", "reject"} = {}
      BY <1>7 DEF WorkerDies, NodeInv, NodeTypeOK
    <2> QED BY <1>7, <2>1, UndecidedCounts DEF WorkerDies
  <1>8. ASSUME NEW id, OverrideReview(id) PROVE CountersAgree'
    BY <1>8, UndecidedCounts DEF OverrideReview, R!MarkOverridden
  <1>9. CASE Restart
    <2>1. Decided' = {} /\ Rejects' = {}
      BY <1>9 DEF Restart, Decided, Rejects, NewRequest
    <2> QED BY <1>9, <2>1, FS_EmptySet DEF Restart, R!Restart, CountersAgree
  <1>10. CASE \/ \E t \in -1..(MaxScore + 1) : PutThreshold(t)
              \/ \E v \in Versions : StageModel(v)
              \/ \E v \in Bundled : StageBundle(v)
              \/ ActivateSwap \/ Gate \/ WindowTurns \/ UNCHANGED vars
    <2>1. UNCHANGED <<reqs, total_inspections, total_rejections, next_id>>
      BY <1>10 DEF PutThreshold, StageModel, StageBundle, ActivateSwap, Gate, GateAccepts,
        GateRollsBack, GateRaises, WindowTurns, vars
    <2> QED BY <2>1, UndecidedCounts
  <1> QED
    BY <1>1, <1>2, <1>3, <1>4, <1>5, <1>6, <1>7, <1>8, <1>9, <1>10 DEF Next

LEMMA CountersInit == Init => CountersAgree
  <1> SUFFICES ASSUME Init PROVE CountersAgree OBVIOUS
  <1>1. Decided = {} /\ Rejects = {}
    BY DEF Init, Decided, Rejects, NewRequest
  <1> QED BY <1>1, FS_EmptySet DEF Init, R!Init, CountersAgree

-------------------------------------------------------------------------------
(* State keeps its kinds, the review queue included. *)
THEOREM NodeTypeCorrect == Spec => []TypeOK
  BY NodeInvariant, NodeReviewsInvariant, PTL DEF NodeInv, TypeOK

(* A rollback restores, and reports, the version seen before the swap. *)
THEOREM RollbackRestoresPrior == Spec => []RollbackTarget
  BY NodeInvariant, PTL DEF NodeInv

(* No task of the pool is lost or scored twice. *)
THEOREM PoolHoldsEachOnce == Spec => []QueueHoldsEachOnce
  BY NodeInvariant, PTL DEF NodeInv

(* No inspection runs on a model that the gate has not let through. *)
THEOREM OnlyReleasedServe == Spec => []ServedWasReleased
  BY NodeInvariant, PTL DEF NodeInv

(* Every verdict is counted once, and every reject counted and queued. *)
THEOREM CountersCorrect == Spec => []CountersAgree
  BY CountersInit, CountersStep, NodeInvariant, NodeReviewsInvariant, PTL DEF Spec

-------------------------------------------------------------------------------
(* The node implements HotSwap.  A swap, a gate that raises or accepts and *)
(* a rollback map to a stutter, a promotion and a discarded candidate.     *)

LEMMA GateFrame == ASSUME UNCHANGED gateVars PROVE UNCHANGED <<Live, Candidate>>
  BY DEF gateVars, Live, Candidate

(* The first step of an inspection begins a call on the model in service. *)
LEMMA BeginRefines ==
  ASSUME NodeInv, NEW r \in Requests, NEW at, reqs[r].at = "new", at # "new", loop = Idle,
         reqs' = [reqs EXCEPT ![r] = Pinned(at, store.active)], UNCHANGED gateVars
  PROVE  HS!Begin(r)
  <1>1. Calls[r] = HS!Fresh
    BY DEF Calls, CallStage, HS!Fresh, NodeInv, BlankUntilBegun
  <1>2. Live = store.active BY DEF Live, Idle
  <1>3. CallStage(at) \in {"open", "done"} BY DEF CallStage
  <1>4. Calls' = [Calls EXCEPT ![r] = [at |-> CallStage(at), version |-> Live]]
    BY <1>2 DEF Calls, Pinned, NodeInv, NodeTypeOK
  <1> QED BY <1>1, <1>3, <1>4, GateFrame DEF HS!Begin

(* The last step of an inspection ends its call, under the same version. *)
LEMMA EndRefines ==
  ASSUME NodeInv, NEW r \in Requests, NEW at \in Answered, reqs[r].at \in InFlight,
         reqs' = [reqs EXCEPT ![r] = Pinned(at, reqs[r].version)], UNCHANGED gateVars
  PROVE  HS!End(r)
  <1>1. Calls[r] = [at |-> "open", version |-> reqs[r].version]
    BY DEF Calls, CallStage, InFlight
  <1>2. Calls' = [Calls EXCEPT ![r].at = "done"]
    BY <1>1 DEF Calls, CallStage, Pinned, NodeInv, NodeTypeOK, InFlight, Answered
  <1> QED BY <1>1, <1>2, GateFrame DEF HS!End

LEMMA StepRefines == ASSUME NodeInv, NodeInv', [Next]_vars PROVE [HS!Next]_HS!swapVars
  <1> USE EdgeAssumption, NoneAssumption
  <1>1. ASSUME NEW r \in Requests, Submit(r) PROVE HS!Next
    <2>1. PICK at \in {"queued", "error"} : reqs' = [reqs EXCEPT ![r] = Pinned(at, store.active)]
      BY <1>1 DEF Submit, Fail
    <2> QED BY <1>1, <2>1, BeginRefines DEF Submit, HS!Next
  <1>2. ASSUME NEW r \in Requests, InspectInline(r) PROVE HS!Next
    <2>1. PICK at \in Answered : reqs' = [reqs EXCEPT ![r] = Pinned(at, store.active)]
      BY <1>2 DEF InspectInline, Decide, Fail, Verdict, Answered
    <2> QED BY <1>2, <2>1, BeginRefines DEF InspectInline, Answered, HS!Next
  <1>3. ASSUME NEW r \in Requests, Reply(r) \/ ReplyError(r) PROVE HS!Next
    <2>1. PICK at \in Answered : reqs' = [reqs EXCEPT ![r] = Pinned(at, reqs[r].version)]
      BY <1>3 DEF Reply, ReplyError, Decide, Fail, Verdict, Answered
    <2> QED BY <1>3, <2>1, EndRefines DEF Reply, ReplyError, InFlight, HS!Next
  <1>4. ASSUME NEW r \in Requests, WorkerScore(r) PROVE UNCHANGED HS!swapVars
    <2>1. PICK at \in {"scored", "raised"}, s \in Scores :
            reqs' = [reqs EXCEPT ![r] = [at |-> at, version |-> reqs[r].version, score |-> s]]
      BY <1>4 DEF WorkerScore, NodeInv, NodeTypeOK
    <2>2. Calls' = Calls
      BY <1>4, <2>1 DEF WorkerScore, Calls, CallStage, InFlight, NodeInv, NodeTypeOK
    <2> QED BY <1>4, <2>2, GateFrame DEF WorkerScore, HS!swapVars
  <1>5. CASE WorkerTake
    <2>1. Head(queue) \in Requests /\ reqs[Head(queue)].at = "queued"
      BY <1>5, HeadQueued
    <2>2. Calls' = Calls
      BY <1>5, <2>1 DEF WorkerTake, Calls, CallStage, InFlight, NodeInv, NodeTypeOK
    <2> QED BY <1>5, <2>2, GateFrame DEF WorkerTake, HS!swapVars
  <1>6. CASE WorkerDies
    <2>1. Calls' = Calls
      BY <1>6 DEF WorkerDies, Calls, CallStage, InFlight, NodeInv, NodeTypeOK
    <2> QED BY <1>6, <2>1, GateFrame DEF WorkerDies, HS!swapVars
  <1>7. ASSUME NEW v \in Versions, StageModel(v) \/ StageBundle(v) PROVE HS!Next
    <2>1. Live' = Live /\ Candidate' = v
      BY <1>7 DEF StageModel, StageBundle, Stage, Live, Candidate, Idle, NodeInv, NodeTypeOK, Stores
    <2>2. Calls' = Calls
      BY <1>7 DEF StageModel, StageBundle, poolVars, Calls
    <2> QED BY <2>1, <2>2 DEF HS!Next, HS!Propose
  <1>8. CASE ActivateSwap
    <2>1. UNCHANGED <<Live, Candidate>>
      BY <1>8 DEF ActivateSwap, ActivateStaged, Live, Candidate, Idle
    <2>2. Calls' = Calls
      BY <1>8 DEF ActivateSwap, poolVars, Calls
    <2> QED BY <2>1, <2>2 DEF HS!swapVars
  <1>9. CASE Gate
    <2>1. Calls' = Calls
      BY <1>9 DEF Gate, GateAccepts, GateRollsBack, GateRaises, poolVars, Calls
    <2>2. Candidate # None /\ Candidate = store.active
      BY <1>9 DEF Gate, GateAccepts, GateRollsBack, GateRaises, Candidate, NodeInv, NodeTypeOK,
        Stores
    <2>3. CASE GateAccepts \/ GateRaises
      <3>1. Live' = Candidate /\ Candidate' = None
        BY <2>2, <2>3 DEF GateAccepts, GateRaises, Live, Candidate, Idle, NodeInv, RollbackTarget
      <3> QED BY <2>1, <2>2, <3>1 DEF HS!Next, HS!Promote
    <2>4. CASE GateRollsBack
      <3>1. Live' = Live /\ Candidate' = None
        BY <2>4 DEF GateRollsBack, Rollback, Live, Candidate, Idle, NodeInv, NodeTypeOK, Stores,
          RollbackTarget
      <3> QED BY <2>1, <2>2, <3>1 DEF HS!Next, HS!Discard
    <2> QED BY <1>9, <2>3, <2>4 DEF Gate
  <1>10. CASE Restart
    <2>1. Live' = Initial /\ Candidate' = None
      BY <1>10 DEF Restart, NewStore, Live, Candidate, Idle
    <2>2. Calls' = [r \in Requests |-> HS!Fresh]
      BY <1>10 DEF Restart, NewRequest, Calls, CallStage, HS!Fresh
    <2> QED BY <2>1, <2>2 DEF HS!Next, HS!Restart, HS!Init
  <1>11. ASSUME \/ \E t \in -1..(MaxScore + 1) : PutThreshold(t)
                \/ \E id \in 1..next_id : OverrideReview(id)
                \/ WindowTurns \/ UNCHANGED vars
         PROVE  UNCHANGED HS!swapVars
    <2>1. UNCHANGED gateVars /\ Calls' = Calls
      BY <1>11 DEF PutThreshold, OverrideReview, WindowTurns, vars, poolVars, Calls
    <2> QED BY <2>1, GateFrame DEF HS!swapVars
  <1> QED
    BY <1>1, <1>2, <1>3, <1>4, <1>5, <1>6, <1>7, <1>8, <1>9, <1>10, <1>11 DEF Next

(* Clients cannot tell swap, judgement and rollback from one atomic step. *)
THEOREM SwapIsAtomic == Spec => SwapLooksAtomic
  <1>1. Init => HS!Init
    <2> SUFFICES ASSUME Init PROVE HS!Init OBVIOUS
    <2>1. Live = Initial /\ Candidate = None
      BY DEF Init, NewStore, Live, Candidate, Idle
    <2>2. Calls = [r \in Requests |-> HS!Fresh]
      BY DEF Init, NewRequest, Calls, CallStage, HS!Fresh
    <2> QED BY <2>1, <2>2 DEF HS!Init
  <1> QED BY <1>1, StepRefines, NodeInvariant, PTL DEF Spec, SwapLooksAtomic, HS!Spec
===============================================================================
