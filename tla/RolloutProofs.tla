----------------------------- MODULE RolloutProofs -----------------------------
(***************************************************************************)
(* Staged rollouts keep their promise for any devices, stages, number of   *)
(* rollouts, network and operators.  The inductive invariant says how far  *)
(* a waiting coroutine is: every device before the one it asks, in an      *)
(* earlier stage, is healthy; its flag ok is true exactly if those before  *)
(* it in the same stage are; and no later device is.  So a stage that ends *)
(* with ok has all its devices healthy, and one that ends without it never *)
(* will, which is what "complete" and "halted" stand for in RolloutGate.   *)
(***************************************************************************)
EXTENDS Rollout, TLAPS, WellFoundedInduction

InStage(r, p) == {q \in RG!Positions(r) : q[1] = p[1] /\ q[2] < p[2]}

Before(q, p) == q[1] < p[1] \/ (q[1] = p[1] /\ q[2] < p[2])

WaitsWell(r) ==
  LET p == task[r].at
  IN  /\ p \in asked[r]
      /\ RG!Earlier(r, p) \subseteq healthy[r]
      /\ task[r].ok <=> InStage(r, p) \subseteq healthy[r]
      /\ \A q \in healthy[r] : Before(q, p)

RolloutOK(r) ==
  /\ asked[r] \subseteq RG!Positions(r) /\ healthy[r] \subseteq asked[r]
  /\ status[r] = "none" <=> task[r].state = "none"
  /\ task[r].state \in {"queued", "waiting"} => status[r] = "in_progress"
  /\ task[r].state \in {"none", "queued"} => asked[r] = {}
  /\ task[r].state = "waiting" => WaitsWell(r)

Kinds ==
  /\ status \in [Rollouts -> {"none", "in_progress", "complete", "halted"}]
  /\ task \in [Rollouts -> Tasks]
  /\ DOMAIN asked = Rollouts /\ asked = [r \in Rollouts |-> asked[r]]
  /\ DOMAIN healthy = Rollouts /\ healthy = [r \in Rollouts |-> healthy[r]]
  /\ put = [r \in Rollouts |-> put[r]] /\ \A r \in Rollouts : put[r] \subseteq RG!Positions(r)
  /\ known \subseteq Devices /\ touched \subseteq Devices
  /\ net \subseteq Requests
  /\ live \in [Devices -> Versions] /\ candidate \in [Devices -> Versions \union {None}]

IInv == Kinds /\ \A r \in Rollouts : RolloutOK(r)

-------------------------------------------------------------------------------
(* Every non-empty set of numbers has the smallest element CHOOSE is to    *)
(* find.                                                                   *)
LEMMA SmallestExists ==
  ASSUME NEW T \in SUBSET Nat, T # {}
  PROVE  Smallest(T) \in T /\ \A m \in T : Smallest(T) <= m
  <1> DEFINE R == OpToRel(<, Nat)
  <1>1. IsWellFoundedOn(R, Nat) BY NatLessThanWellFounded
  <1>2. \A x, y \in Nat : y < x => <<y, x>> \in R BY DEF OpToRel
  <1> HIDE DEF R
  <1>3. PICK x \in T : \A y \in T : ~(<<y, x>> \in R) BY <1>1, WFMin
  <1>4. \A y \in T : ~(y < x) BY <1>2, <1>3
  <1>5. \E n \in T : \A m \in T : n <= m BY <1>3, <1>4
  <1> QED BY <1>5 DEF Smallest

LEMMA PositionShape ==
  ASSUME NEW r \in Rollouts
  PROVE  /\ Len(Stages[r]) \in Nat
         /\ \A i \in 1..Len(Stages[r]) :
              /\ Len(Stages[r][i]) \in Nat /\ Stages[r][i] \in Seq(Devices)
              /\ Stages[r][i] # <<>> <=> Len(Stages[r][i]) > 0
              /\ \A k \in 1..Len(Stages[r][i]) : <<i, k>> \in RG!Positions(r)
         /\ \A q \in RG!Positions(r) :
              /\ q = <<q[1], q[2]>> /\ q \in Nat \X Nat
              /\ q[1] \in 1..Len(Stages[r]) /\ q[2] \in 1..Len(Stages[r][q[1]])
              /\ DeviceAt(r, q) \in Devices
  <1>1. Stages[r] \in Seq(Seq(Devices)) BY RolloutAssumption
  <1>2. \A i \in 1..Len(Stages[r]) : Stages[r][i] \in Seq(Devices) BY <1>1
  <1>3. \A i \in 1..Len(Stages[r]) : Len(Stages[r][i]) \in Nat BY <1>2
  <1>4. \A i \in 1..Len(Stages[r]) : Stages[r][i] # <<>> <=> Len(Stages[r][i]) > 0
    BY <1>2
  <1>5. \A q \in RG!Positions(r) :
          \E i \in 1..Len(Stages[r]) : \E k \in 1..Len(Stages[r][i]) : q = <<i, k>>
    BY DEF RG!Positions
  <1>6. \A i \in 1..Len(Stages[r]) : \A k \in 1..Len(Stages[r][i]) : <<i, k>> \in RG!Positions(r)
    BY DEF RG!Positions
  <1>7. \A i \in 1..Len(Stages[r]) : \A k \in 1..Len(Stages[r][i]) : Stages[r][i][k] \in Devices
    BY <1>2
  <1> QED BY <1>1, <1>2, <1>3, <1>4, <1>5, <1>6, <1>7 DEF DeviceAt

LEMMA RequestShape ==
  /\ \A r \in Rollouts : \A p, kind :
       p \in RG!Positions(r) /\ kind \in {"stage", "activate"} => Request(r, p, kind) \in Requests
  /\ \A m \in Requests :
       m.rollout \in Rollouts /\ m.at \in RG!Positions(m.rollout) /\ DeviceAt(m.rollout, m.at) \in Devices
  <1>1. \A m \in Requests : m.rollout \in Rollouts /\ m.at \in RG!Positions(m.rollout)
    BY DEF Requests
  <1>2. \A r \in Rollouts : \A p, kind :
       p \in RG!Positions(r) /\ kind \in {"stage", "activate"} => Request(r, p, kind) \in Requests
    BY DEF Requests, Request
  <1> QED BY <1>1, <1>2, PositionShape

-------------------------------------------------------------------------------
(* What the coroutine of r may do between two awaits, and leaves in order. *)
Moves(r) ==
  /\ RG!Settle(r) \/ \E p \in RG!Positions(r) : RG!Ask(r, p)
  /\ status' \in [Rollouts -> {"none", "in_progress", "complete", "halted"}]
  /\ task' \in [Rollouts -> Tasks]
  /\ DOMAIN asked' = Rollouts /\ asked' = [s \in Rollouts |-> asked'[s]]
  /\ net' \subseteq Requests
  /\ RolloutOK(r)'
  /\ \A s \in Rollouts \ {r} :
       task'[s] = task[s] /\ status'[s] = status[s] /\ asked'[s] = asked[s]

LEMMA SendStep ==
  ASSUME Kinds, NEW r \in Rollouts, RolloutOK(r), status[r] = "in_progress",
         healthy'[r] \subseteq asked[r],
         NEW p \in RG!Positions(r), NEW kind \in {"stage", "activate"}, NEW ok \in BOOLEAN,
         Send(r, p, kind, ok),
         RG!Earlier(r, p) \subseteq healthy'[r],
         ok <=> InStage(r, p) \subseteq healthy'[r],
         \A q \in healthy'[r] : Before(q, p)
  PROVE  Moves(r)
  <1> DEFINE t == [state |-> "waiting", at |-> p, kind |-> kind, answer |-> "none", ok |-> ok]
  <1>1. RG!Ask(r, p)
    BY DEF Send, RG!Ask
  <1>2. p \in Nat \X Nat
    BY PositionShape
  <1>3. t \in Tasks
    BY <1>2 DEF Tasks
  <1>4. task' = [task EXCEPT ![r] = t] /\ UNCHANGED status
    BY DEF Send
  <1> HIDE DEF t
  <1>5. task' \in [Rollouts -> Tasks] /\ task'[r] = t
    BY <1>3, <1>4 DEF Kinds
  <1>6. asked' = [asked EXCEPT ![r] = asked[r] \union {p}]
    BY DEF Send
  <1>7. asked'[r] = asked[r] \union {p} /\ DOMAIN asked' = Rollouts
    BY <1>6 DEF Kinds
  <1>8. asked' = [s \in Rollouts |-> asked'[s]]
    BY <1>6 DEF Kinds
  <1>9. net' \subseteq Requests
    BY RequestShape DEF Send, Kinds
  <1>10. t.state = "waiting" /\ t.at = p /\ t.ok = ok
    BY DEF t
  <1>11. WaitsWell(r)'
    BY <1>5, <1>7, <1>10 DEF WaitsWell, RG!Earlier, InStage, RG!Positions
  <1>12. RolloutOK(r)'
    BY <1>4, <1>5, <1>7, <1>10, <1>11 DEF RolloutOK, RG!Positions
  <1>13. \A s \in Rollouts \ {r} :
       task'[s] = task[s] /\ status'[s] = status[s] /\ asked'[s] = asked[s]
    BY <1>4, <1>6 DEF Kinds
  <1> QED BY <1>1, <1>4, <1>5, <1>7, <1>8, <1>9, <1>12, <1>13 DEF Moves, Kinds

LEMMA EndStep ==
  ASSUME Kinds, NEW r \in Rollouts, RolloutOK(r), status[r] = "in_progress",
         healthy'[r] \subseteq asked[r],
         NEW outcome,
         outcome = IF RG!Positions(r) \subseteq healthy'[r] THEN "complete" ELSE "halted",
         End(r, outcome)
  PROVE  Moves(r)
  <1>1. RG!Settle(r)
    BY DEF End, RG!Settle
  <1>2. task' = [task EXCEPT ![r] = [task[r] EXCEPT !.state = "ended", !.answer = "none"]]
    BY DEF End, Kinds, Tasks
  <1>3. task[r] \in Tasks
    BY DEF Kinds
  <1>4. [task[r] EXCEPT !.state = "ended", !.answer = "none"] \in Tasks
    BY <1>3 DEF Tasks
  <1>5. task' \in [Rollouts -> Tasks] /\ task'[r].state = "ended"
    BY <1>2, <1>3, <1>4 DEF Kinds, Tasks
  <1>6. outcome \in {"complete", "halted"}
    OBVIOUS
  <1>7. status' \in [Rollouts -> {"none", "in_progress", "complete", "halted"}] /\ status'[r] = outcome
    BY <1>6 DEF End, Kinds
  <1>8. UNCHANGED <<net, asked>>
    BY DEF End
  <1>9. RolloutOK(r)'
    BY <1>5, <1>6, <1>7, <1>8 DEF RolloutOK, RG!Positions
  <1>10. \A s \in Rollouts \ {r} :
       task'[s] = task[s] /\ status'[s] = status[s] /\ asked'[s] = asked[s]
    BY <1>2, <1>8 DEF End, Kinds
  <1> QED BY <1>1, <1>5, <1>7, <1>8, <1>9, <1>10 DEF Moves, Kinds

(* All devices of the stages up to i are healthy, and no other has been    *)
(* asked with success.                                                     *)
LEMMA EnterStageStep ==
  ASSUME Kinds, NEW r \in Rollouts, RolloutOK(r), status[r] = "in_progress",
         healthy'[r] \subseteq asked[r],
         NEW i \in 0..Len(Stages[r]),
         \A q \in RG!Positions(r) : q[1] <= i <=> q \in healthy'[r],
         EnterStage(r, i)
  PROVE  Moves(r)
  <1>0. healthy'[r] \subseteq RG!Positions(r)
    BY DEF RolloutOK
  <1>1. CASE LaterStages(r, i) = {}
    <2>1. \A q \in RG!Positions(r) : q[1] <= i
      <3> SUFFICES ASSUME NEW q \in RG!Positions(r), ~(q[1] <= i) PROVE FALSE
        OBVIOUS
      <3>1. q[1] \in (i + 1)..Len(Stages[r]) /\ Stages[r][q[1]] # <<>>
        BY PositionShape
      <3> QED BY <1>1, <3>1 DEF LaterStages
    <2>2. RG!Positions(r) \subseteq healthy'[r]
      BY <2>1
    <2>3. End(r, "complete")
      BY <1>1 DEF EnterStage
    <2> QED BY <2>2, <2>3, EndStep
  <1>2. CASE LaterStages(r, i) # {}
    <2> DEFINE n == Smallest(LaterStages(r, i))
               K == Reachable(r, n, 0)
    <2>1. LaterStages(r, i) \in SUBSET Nat
      BY PositionShape DEF LaterStages
    <2>2. n \in LaterStages(r, i) /\ \A m \in LaterStages(r, i) : n <= m
      BY <1>2, <2>1, SmallestExists
    <2>3. n \in (i + 1)..Len(Stages[r]) /\ Len(Stages[r][n]) > 0 /\ Len(Stages[r][n]) \in Nat
      BY <2>2, PositionShape DEF LaterStages
    <2>4. \A q \in RG!Positions(r) : q[1] < n => q[1] <= i
      <3> SUFFICES ASSUME NEW q \in RG!Positions(r), q[1] < n, ~(q[1] <= i) PROVE FALSE
        OBVIOUS
      <3>1. q[1] \in (i + 1)..Len(Stages[r]) /\ Stages[r][q[1]] # <<>>
        BY PositionShape
      <3>2. q[1] \in LaterStages(r, i)
        BY <3>1 DEF LaterStages
      <3>3. n <= q[1] /\ n \in Nat /\ q[1] \in Nat
        BY <2>1, <2>2, <3>2
      <3> HIDE DEF n
      <3> QED BY <3>3
    <2>5. <<n, 1>> \in RG!Positions(r) /\ <<n, 1>> \notin healthy'[r]
      <3>1. <<n, 1>> \in RG!Positions(r)
        BY <2>3, PositionShape
      <3> QED BY <2>3, <3>1
    <2>6. CASE K = {}
      <3>1. End(r, "halted")
        BY <1>2, <2>6 DEF EnterStage
      <3> QED BY <2>5, <3>1, EndStep
    <2>7. CASE K # {}
      <3> DEFINE k == Smallest(K)
                 p == <<n, k>>
      <3>1. K \in SUBSET (1..Len(Stages[r][n]))
        BY <2>3 DEF Reachable
      <3>2. k \in K
        BY <2>3, <2>7, <3>1, SmallestExists
      <3>3. p \in RG!Positions(r) /\ k \in 1..Len(Stages[r][n])
        BY <2>3, <3>1, <3>2, PositionShape
      <3>4. Send(r, p, "stage", k = 1)
        BY <1>2, <2>7 DEF EnterStage
      <3>5. RG!Earlier(r, p) \subseteq healthy'[r]
        BY <2>4 DEF RG!Earlier
      <3>6. \A q \in healthy'[r] : Before(q, p)
        BY <1>0, <2>3, PositionShape DEF Before
      <3>7. (k = 1) <=> InStage(r, p) \subseteq healthy'[r]
        <4>1. CASE k = 1
          BY <4>1, PositionShape DEF InStage
        <4>2. CASE k # 1
          <5>1. <<n, 1>> \in InStage(r, p)
            BY <2>3, <2>5, <3>3, <4>2 DEF InStage
          <5> QED BY <2>5, <4>2, <5>1
        <4> QED BY <4>1, <4>2
      <3> HIDE DEF p, k, K, n
      <3> QED BY <3>3, <3>4, <3>5, <3>6, <3>7, SendStep
    <2> QED BY <2>6, <2>7
  <1> QED BY <1>1, <1>2

LEMMA AfterDeviceStep ==
  ASSUME Kinds, NEW r \in Rollouts, RolloutOK(r), status[r] = "in_progress",
         healthy'[r] \subseteq asked[r],
         NEW p \in RG!Positions(r), NEW ok \in BOOLEAN,
         RG!Earlier(r, p) \subseteq healthy'[r],
         ok <=> InStage(r, p) \union {p} \subseteq healthy'[r],
         \A q \in healthy'[r] : Before(q, p) \/ q = p,
         AfterDevice(r, p, ok)
  PROVE  Moves(r)
  <1> DEFINE i == p[1]
             n == Len(Stages[r][i])
             K == Reachable(r, i, p[2])
  <1>0. healthy'[r] \subseteq RG!Positions(r)
    BY DEF RolloutOK
  <1>1. /\ i \in 1..Len(Stages[r]) /\ n \in Nat /\ p[2] \in 1..n /\ p = <<i, p[2]>>
        /\ Len(Stages[r]) \in Nat
    BY PositionShape
  <1>2. CASE K # {}
    <2> DEFINE k == Smallest(K)
               s == <<i, k>>
               w == ok /\ k = p[2] + 1
    <2>1. K \in SUBSET ((p[2] + 1)..n)
      BY <1>1 DEF Reachable
    <2>2. K \in SUBSET Nat
      BY <1>1, <2>1
    <2>3. k \in (p[2] + 1)..n
      BY <1>2, <2>1, <2>2, SmallestExists
    <2>4. s \in RG!Positions(r)
      BY <1>1, <2>3, PositionShape
    <2>5. Send(r, s, "stage", w)
      BY <1>2 DEF AfterDevice
    <2>6. RG!Earlier(r, s) \subseteq healthy'[r]
      BY DEF RG!Earlier
    <2>7. \A q \in healthy'[r] : Before(q, s)
      <3> SUFFICES ASSUME NEW q \in healthy'[r] PROVE Before(q, s)
        OBVIOUS
      <3>1. q[1] \in Nat /\ q[2] \in Nat
        BY <1>0, PositionShape
      <3> QED BY <1>1, <2>3, <3>1 DEF Before
    <2>8. w <=> InStage(r, s) \subseteq healthy'[r]
      <3>1. CASE k = p[2] + 1
        <4>1. \A q \in RG!Positions(r) : q \in InStage(r, s) <=> q \in InStage(r, p) \/ q = p
          <5> SUFFICES ASSUME NEW q \in RG!Positions(r)
                       PROVE  q \in InStage(r, s) <=> q \in InStage(r, p) \/ q = p
            OBVIOUS
          <5>1. q = <<q[1], q[2]>> /\ q[1] \in Nat /\ q[2] \in Nat
            BY PositionShape
          <5>2. q = p <=> q[1] = i /\ q[2] = p[2]
            BY <1>1, <5>1
          <5>3. q[2] < k <=> q[2] < p[2] \/ q[2] = p[2]
            BY <1>1, <3>1, <5>1
          <5> QED BY <5>2, <5>3 DEF InStage
        <4> QED BY <3>1, <4>1 DEF InStage
      <3>2. CASE k # p[2] + 1
        <4> DEFINE q == <<i, p[2] + 1>>
        <4>1. q \in RG!Positions(r)
          BY <1>1, <2>3, PositionShape
        <4>2. q \in InStage(r, s)
          BY <1>1, <2>3, <3>2, <4>1 DEF InStage
        <4>3. q \notin healthy'[r]
          BY <1>1 DEF Before
        <4> QED BY <3>2, <4>2, <4>3
      <3> QED BY <3>1, <3>2
    <2>9. w \in BOOLEAN
      OBVIOUS
    <2> HIDE DEF w, s, k
    <2> QED BY <2>4, <2>5, <2>6, <2>7, <2>8, <2>9, SendStep
  <1>3. CASE K = {} /\ ok /\ p[2] = n
    <2>1. EnterStage(r, i)
      BY <1>3 DEF AfterDevice
    <2>2. \A q \in RG!Positions(r) : q[1] <= i <=> q \in healthy'[r]
      <3> SUFFICES ASSUME NEW q \in RG!Positions(r) PROVE q[1] <= i <=> q \in healthy'[r]
        OBVIOUS
      <3>1. q = <<q[1], q[2]>> /\ q[1] \in Nat /\ q[2] \in 1..Len(Stages[r][q[1]])
        BY PositionShape
      <3>2. CASE q[1] < i
        BY <1>1, <3>1, <3>2 DEF RG!Earlier
      <3>3. CASE q[1] = i
        <4>1. q \in InStage(r, p) \/ q = p
          BY <1>1, <1>3, <3>1, <3>3 DEF InStage
        <4> QED BY <1>1, <1>3, <3>3, <4>1
      <3>4. CASE q[1] > i
        BY <1>1, <3>1, <3>4 DEF Before
      <3> QED BY <1>1, <3>1, <3>2, <3>3, <3>4
    <2>3. i \in 0..Len(Stages[r])
      BY <1>1
    <2> HIDE DEF i
    <2> QED BY <2>1, <2>2, <2>3, EnterStageStep
  <1>4. CASE K = {} /\ ~(ok /\ p[2] = n)
    <2>1. End(r, "halted")
      BY <1>4 DEF AfterDevice
    <2>2. ~(RG!Positions(r) \subseteq healthy'[r])
      <3>1. CASE ~ok
        BY <3>1 DEF InStage
      <3>2. CASE p[2] # n
        <4> DEFINE q == <<i, n>>
        <4>1. q \in RG!Positions(r)
          BY <1>1, PositionShape
        <4>2. q \notin healthy'[r]
          BY <1>1, <3>2 DEF Before
        <4> QED BY <4>1, <4>2
      <3> QED BY <1>4, <3>1, <3>2
    <2> QED BY <2>1, <2>2, EndStep
  <1> QED BY <1>2, <1>3, <1>4

-------------------------------------------------------------------------------
(* The steps of coroutines. *)

LEMMA OthersKeep ==
  ASSUME NEW s \in Rollouts, RolloutOK(s),
         task'[s].state = task[s].state, task'[s].at = task[s].at, task'[s].ok = task[s].ok,
         status'[s] = status[s], asked'[s] = asked[s], healthy'[s] = healthy[s]
  PROVE  RolloutOK(s)'
  BY DEF RolloutOK, WaitsWell, RG!Earlier, InStage, RG!Positions

LEMMA MovesAll ==
  ASSUME IInv, NEW r \in Rollouts, status[r] = "in_progress", Moves(r),
         NEW P \in SUBSET asked[r], healthy' = [healthy EXCEPT ![r] = @ \union P],
         UNCHANGED <<known, deviceVars>>
  PROVE  IInv' /\ RG!Proceed(r)
  <1>1. RG!Proceed(r)
    BY DEF Moves, RG!Proceed, RG!Hear
  <1>2. DOMAIN healthy' = Rollouts /\ healthy' = [s \in Rollouts |-> healthy'[s]]
    BY DEF IInv, Kinds
  <1>3. \A s \in Rollouts \ {r} : healthy'[s] = healthy[s]
    BY DEF IInv, Kinds
  <1>4. Kinds'
    BY <1>2 DEF Moves, IInv, Kinds, deviceVars, RG!Positions
  <1>5. ASSUME NEW s \in Rollouts \ {r} PROVE RolloutOK(s)'
    BY <1>3, <1>5, OthersKeep DEF Moves, IInv
  <1>6. RolloutOK(r)'
    BY DEF Moves
  <1> QED BY <1>1, <1>4, <1>5, <1>6 DEF IInv

LEMMA Keeps ==
  ASSUME IInv, NEW r \in Rollouts, UNCHANGED healthy
  PROVE  {} \in SUBSET asked[r] /\ healthy' = [healthy EXCEPT ![r] = @ \union {}]
  BY DEF IInv, Kinds

LEMMA ResumeStep ==
  ASSUME IInv, NEW r \in Rollouts, Resume(r)
  PROVE  IInv' /\ RG!Proceed(r)
  <1>0. Kinds /\ RolloutOK(r) /\ task[r] \in Tasks /\ asked[r] \subseteq RG!Positions(r)
    BY DEF IInv, Kinds, RolloutOK
  <1>1. CASE RunTask(r)
    <2>1. status[r] = "in_progress" /\ healthy[r] = {} /\ UNCHANGED <<healthy, known, deviceVars>>
      BY <1>0, <1>1 DEF RunTask, RolloutOK
    <2>2. \A q \in RG!Positions(r) : q[1] <= 0 <=> q \in healthy'[r]
      BY <2>1, PositionShape
    <2>3. Moves(r)
      BY <1>0, <1>1, <2>1, <2>2, PositionShape, EnterStageStep DEF RunTask
    <2> QED BY <2>1, <2>3, Keeps, MovesAll
  <1> DEFINE p == task[r].at
  <1>2. ASSUME task[r].state = "waiting"
        PROVE  /\ status[r] = "in_progress" /\ WaitsWell(r)
               /\ p \in asked[r] /\ p \in RG!Positions(r) /\ p \notin healthy[r]
               /\ InStage(r, p) \subseteq RG!Positions(r)
    <2>1. status[r] = "in_progress" /\ WaitsWell(r) /\ p \in asked[r] /\ p \in RG!Positions(r)
      BY <1>0, <1>2 DEF RolloutOK, WaitsWell
    <2>2. p[1] \in Nat /\ p[2] \in Nat
      BY <2>1, PositionShape
    <2> QED BY <2>1, <2>2 DEF WaitsWell, Before, InStage
  <1>3. CASE StagingAnswered(r)
    <2>1. /\ task[r].state = "waiting" /\ Send(r, p, "activate", task[r].ok)
          /\ UNCHANGED <<healthy, known, deviceVars>>
      BY <1>3 DEF StagingAnswered
    <2>2. task[r].ok \in BOOLEAN
      BY <1>0 DEF Tasks
    <2>3. Moves(r)
      BY <1>0, <1>2, <2>1, <2>2, SendStep DEF WaitsWell, RolloutOK
    <2> QED BY <1>2, <2>1, <2>3, Keeps, MovesAll
  <1>4. CASE RequestFails(r)
    <2>1. /\ task[r].state = "waiting" /\ AfterDevice(r, p, FALSE)
          /\ UNCHANGED <<healthy, known, deviceVars>>
      BY <1>4 DEF RequestFails
    <2>2. Moves(r)
      BY <1>0, <1>2, <2>1, AfterDeviceStep DEF WaitsWell, RolloutOK
    <2> QED BY <1>2, <2>1, <2>2, Keeps, MovesAll
  <1>5. CASE ActivationAnswered(r)
    <2> DEFINE fine == task[r].answer = "healthy"
               P == IF fine THEN {p} ELSE {}
               ok == task[r].ok /\ fine
    <2>1. /\ task[r].state = "waiting" /\ AfterDevice(r, p, ok)
          /\ healthy' = [healthy EXCEPT ![r] = @ \union P]
          /\ UNCHANGED <<known, deviceVars>>
      BY <1>5 DEF ActivationAnswered
    <2>2. healthy'[r] = healthy[r] \union P
      BY <1>0, <2>1 DEF Kinds
    <2>3. ok <=> InStage(r, p) \union {p} \subseteq healthy'[r]
      <3>1. p \notin InStage(r, p)
        BY <1>2, <2>1, PositionShape DEF InStage
      <3>2. task[r].ok <=> InStage(r, p) \subseteq healthy[r]
        BY <1>2, <2>1 DEF WaitsWell
      <3> QED BY <1>2, <2>1, <2>2, <3>1, <3>2
    <2>4. /\ RG!Earlier(r, p) \subseteq healthy'[r]
          /\ \A q \in healthy'[r] : Before(q, p) \/ q = p
          /\ healthy'[r] \subseteq asked[r]
      BY <1>0, <1>2, <2>1, <2>2 DEF WaitsWell, RolloutOK
    <2>5. ok \in BOOLEAN
      BY <1>0 DEF Tasks
    <2>6. P \in SUBSET asked[r]
      BY <1>2, <2>1
    <2> HIDE DEF ok, P
    <2>7. Moves(r)
      BY <1>0, <1>2, <2>1, <2>3, <2>4, <2>5, AfterDeviceStep
    <2> QED BY <1>2, <2>1, <2>6, <2>7, MovesAll
  <1> QED BY <1>1, <1>3, <1>4, <1>5 DEF Resume

LEMMA StartStep ==
  ASSUME IInv, NEW r \in Rollouts, StartRollout(r)
  PROVE  IInv' /\ RG!Open(r)
  <1>1. RG!Open(r)
    BY DEF StartRollout, RG!Open
  <1>2. task[r] \in Tasks /\ task' = [task EXCEPT ![r] = [task[r] EXCEPT !.state = "queued"]]
    BY DEF StartRollout, IInv, Kinds, Tasks
  <1>3. [task[r] EXCEPT !.state = "queued"] \in Tasks
    BY <1>2 DEF Tasks
  <1>4. task' \in [Rollouts -> Tasks] /\ task'[r].state = "queued"
    BY <1>2, <1>3 DEF IInv, Kinds, Tasks
  <1>5. Kinds'
    BY <1>4 DEF StartRollout, IInv, Kinds, deviceVars, RG!Positions
  <1>6. ASSUME NEW s \in Rollouts \ {r} PROVE RolloutOK(s)'
    BY <1>6, OthersKeep DEF StartRollout, IInv, Kinds
  <1>7. RolloutOK(r)'
    BY <1>4 DEF StartRollout, IInv, Kinds, RolloutOK, RG!Positions
  <1> QED BY <1>1, <1>5, <1>6, <1>7 DEF IInv

-------------------------------------------------------------------------------
(* The steps of devices, network and fleet leave the promise alone. *)

LEMMA QuietStep ==
  ASSUME IInv, Kinds', UNCHANGED <<status, asked, healthy>>,
         \A r \in Rollouts :
           \/ task'[r].state = task[r].state /\ task'[r].at = task[r].at /\ task'[r].ok = task[r].ok
           \/ task[r].state \in {"queued", "waiting"} /\ task'[r].state = "lost"
  PROVE  IInv' /\ UNCHANGED RG!gateVars
  <1>1. ASSUME NEW r \in Rollouts PROVE RolloutOK(r)'
    <2>1. CASE task'[r].state = task[r].state /\ task'[r].at = task[r].at /\ task'[r].ok = task[r].ok
      BY <2>1, OthersKeep DEF IInv
    <2>2. CASE task[r].state \in {"queued", "waiting"} /\ task'[r].state = "lost"
      BY <2>2 DEF IInv, RolloutOK, RG!Positions
    <2> QED BY <2>1, <2>2
  <1> QED BY <1>1 DEF IInv, RG!gateVars

LEMMA AnswerStep ==
  ASSUME Kinds, NEW m \in Requests,
         NEW a \in {"staged", "healthy", "rolled_back", "error"}, Answer(m, a)
  PROVE  /\ task' \in [Rollouts -> Tasks]
         /\ \A r \in Rollouts :
              task'[r].state = task[r].state /\ task'[r].at = task[r].at /\ task'[r].ok = task[r].ok
  <1> DEFINE r == m.rollout
             t == [task[r] EXCEPT !.answer = a]
  <1>1. r \in Rollouts /\ task[r] \in Tasks
    BY RequestShape DEF Kinds
  <1>2. t \in Tasks /\ t.state = task[r].state /\ t.at = task[r].at /\ t.ok = task[r].ok
    BY <1>1 DEF Tasks
  <1>3. task' = task \/ task' = [task EXCEPT ![r] = t]
    BY DEF Answer
  <1> HIDE DEF t, r
  <1>4. CASE task' = task
    BY <1>4 DEF Kinds
  <1>5. CASE task' = [task EXCEPT ![r] = t]
    BY <1>1, <1>2, <1>5 DEF Kinds
  <1> QED BY <1>3, <1>4, <1>5

LEMMA StagingStep ==
  ASSUME IInv, NEW m \in net, DeliverStaging(m)
  PROVE  IInv' /\ UNCHANGED RG!gateVars
  <1>1. m \in Requests /\ Target[m.rollout] \in Versions
    BY RequestShape, RolloutAssumption DEF IInv, Kinds
  <1>2. /\ task' \in [Rollouts -> Tasks]
        /\ \A r \in Rollouts :
             task'[r].state = task[r].state /\ task'[r].at = task[r].at /\ task'[r].ok = task[r].ok
    BY <1>1, AnswerStep DEF DeliverStaging, IInv
  <1>3. candidate' \in [Devices -> Versions \union {None}]
    BY <1>1 DEF DeliverStaging, IInv, Kinds
  <1>4. Kinds'
    BY <1>2, <1>3 DEF DeliverStaging, IInv, Kinds, RG!Positions
  <1> QED BY <1>2, <1>4, QuietStep DEF DeliverStaging

LEMMA ActivationStep ==
  ASSUME IInv, NEW m \in net, DeliverActivation(m)
  PROVE  IInv' /\ UNCHANGED RG!gateVars
  <1> DEFINE d == DeviceAt(m.rollout, m.at)
             Q == IF candidate[d] = Target[m.rollout] /\ live'[d] = Target[m.rollout] /\ candidate'[d] = None
                    THEN put[m.rollout] \union {m.at} ELSE put[m.rollout]
  <1>1. m \in Requests /\ m.rollout \in Rollouts /\ m.at \in RG!Positions(m.rollout) /\ d \in Devices
    BY RequestShape DEF IInv, Kinds
  <1>2. \E a \in {"healthy", "rolled_back", "error"} : Answer(m, a)
    BY DEF DeliverActivation
  <1>3. /\ task' \in [Rollouts -> Tasks]
        /\ \A r \in Rollouts :
             task'[r].state = task[r].state /\ task'[r].at = task[r].at /\ task'[r].ok = task[r].ok
    BY <1>1, <1>2, AnswerStep DEF IInv
  <1>4. Promote(d) \/ Discard(d) \/ UNCHANGED <<live, candidate>>
    BY DEF DeliverActivation
  <1>5. live' \in [Devices -> Versions] /\ candidate' \in [Devices -> Versions \union {None}]
    BY <1>1, <1>4 DEF Promote, Discard, IInv, Kinds
  <1>6. put' = [put EXCEPT ![m.rollout] = Q]
    BY DEF DeliverActivation
  <1>7. Q \subseteq RG!Positions(m.rollout)
    BY <1>1 DEF IInv, Kinds
  <1> HIDE DEF Q, d
  <1>8. put' = [r \in Rollouts |-> put'[r]] /\ \A r \in Rollouts : put'[r] \subseteq RG!Positions(r)
    BY <1>1, <1>6, <1>7 DEF IInv, Kinds
  <1>9. Kinds'
    BY <1>3, <1>5, <1>8 DEF DeliverActivation, IInv, Kinds, RG!Positions
  <1> QED BY <1>3, <1>9, QuietStep DEF DeliverActivation

LEMMA FleetRestartStep ==
  ASSUME IInv, FleetRestarts
  PROVE  IInv' /\ UNCHANGED RG!gateVars
  <1> DEFINE t(r) == IF task[r].state \in {"queued", "waiting"}
                       THEN [task[r] EXCEPT !.state = "lost", !.answer = "none"] ELSE task[r]
  <1>1. \A r \in Rollouts : t(r) \in Tasks
    <2>1. ASSUME NEW x \in Tasks PROVE [x EXCEPT !.state = "lost", !.answer = "none"] \in Tasks
      BY DEF Tasks
    <2>2. task \in [Rollouts -> Tasks] BY DEF IInv, Kinds
    <2> QED BY <2>1, <2>2
  <1>2. \A r \in Rollouts :
           \/ t(r) = task[r]
           \/ task[r].state \in {"queued", "waiting"} /\ t(r).state = "lost"
    BY DEF IInv, Kinds, Tasks
  <1>3. task' = [r \in Rollouts |-> t(r)]
    BY DEF FleetRestarts
  <1> HIDE DEF t
  <1>4. Kinds'
    BY <1>1, <1>3 DEF FleetRestarts, IInv, Kinds, deviceVars, RG!Positions
  <1> QED BY <1>2, <1>3, <1>4, QuietStep DEF FleetRestarts

LEMMA OutsideStep ==
  ASSUME IInv,
         \/ \E m \in net : Lose(m)
         \/ \E d \in Devices : Register(d) \/ OperatorActivates(d) \/ DeviceRestarts(d)
         \/ \E d \in Devices, v \in OperatorVersions : OperatorStages(d, v)
         \/ UNCHANGED vars
  PROVE  IInv' /\ UNCHANGED RG!gateVars
  <1>1. CASE \E m \in net : Lose(m)
    BY <1>1, QuietStep DEF Lose, IInv, Kinds, rolloutVars, deviceVars, RG!Positions
  <1>2. ASSUME NEW d \in Devices, Register(d) PROVE IInv' /\ UNCHANGED RG!gateVars
    BY <1>2, QuietStep DEF Register, IInv, Kinds, rolloutVars, deviceVars, RG!Positions
  <1>3. ASSUME NEW d \in Devices, OperatorActivates(d) PROVE IInv' /\ UNCHANGED RG!gateVars
    <2>1. Kinds'
      BY <1>3 DEF OperatorActivates, Promote, Discard, IInv, Kinds, rolloutVars, RG!Positions
    <2> QED BY <1>3, <2>1, QuietStep DEF OperatorActivates, rolloutVars
  <1>4. ASSUME NEW d \in Devices, DeviceRestarts(d) PROVE IInv' /\ UNCHANGED RG!gateVars
    <2>1. Kinds'
      BY <1>4, RolloutAssumption DEF DeviceRestarts, IInv, Kinds, rolloutVars, RG!Positions
    <2> QED BY <1>4, <2>1, QuietStep DEF DeviceRestarts, rolloutVars
  <1>5. ASSUME NEW d \in Devices, NEW v \in OperatorVersions, OperatorStages(d, v)
        PROVE  IInv' /\ UNCHANGED RG!gateVars
    <2>1. Kinds'
      BY <1>5, RolloutAssumption DEF OperatorStages, IInv, Kinds, rolloutVars, RG!Positions
    <2> QED BY <1>5, <2>1, QuietStep DEF OperatorStages, rolloutVars
  <1>6. CASE UNCHANGED vars
    BY <1>6, QuietStep DEF vars, IInv, Kinds, rolloutVars, deviceVars, RG!Positions
  <1> QED BY <1>1, <1>2, <1>3, <1>4, <1>5, <1>6

-------------------------------------------------------------------------------
LEMMA Starts ==
  ASSUME Init
  PROVE  IInv /\ RG!Init
  <1>1. NewTask \in Tasks /\ NewTask.state = "none"
    BY DEF NewTask, Tasks
  <1>2. Kinds
    BY <1>1, RolloutAssumption DEF Init, Kinds, RG!Init
  <1>3. ASSUME NEW r \in Rollouts PROVE RolloutOK(r)
    BY <1>1 DEF Init, RG!Init, RolloutOK
  <1> QED BY <1>2, <1>3 DEF Init, IInv

LEMMA EveryStep ==
  ASSUME IInv, [Next]_vars
  PROVE  IInv' /\ [RG!Next]_(RG!gateVars)
  <1>1. ASSUME NEW r \in Rollouts, StartRollout(r) PROVE IInv' /\ RG!Next
    BY <1>1, StartStep DEF RG!Next
  <1>2. ASSUME NEW r \in Rollouts, Resume(r) PROVE IInv' /\ RG!Next
    BY <1>2, ResumeStep DEF RG!Next
  <1>3. ASSUME NEW m \in net, DeliverStaging(m) \/ DeliverActivation(m)
        PROVE  IInv' /\ UNCHANGED RG!gateVars
    BY <1>3, StagingStep, ActivationStep
  <1>4. CASE FleetRestarts
    BY <1>4, FleetRestartStep
  <1>5. CASE \/ \E m \in net : Lose(m)
             \/ \E d \in Devices : Register(d) \/ OperatorActivates(d) \/ DeviceRestarts(d)
             \/ \E d \in Devices, v \in OperatorVersions : OperatorStages(d, v)
             \/ UNCHANGED vars
    BY <1>5, OutsideStep
  <1> QED BY <1>1, <1>2, <1>3, <1>4, <1>5 DEF Next

(* The invariant holds at every moment of every history. *)
THEOREM RolloutInvariant == Spec => []IInv
  <1>1. Init => IInv
    BY Starts
  <1>2. IInv /\ [Next]_vars => IInv'
    BY EveryStep
  <1> QED BY <1>1, <1>2, PTL DEF Spec

(* Every variable holds its kind of value, a coroutine waits only under an *)
(* in_progress row, and for a device of its own plan that it has asked.    *)
THEOREM RolloutTypeCorrect == Spec => []TypeOK
  <1>1. IInv => TypeOK
    BY DEF IInv, Kinds, RolloutOK, WaitsWell, TypeOK
  <1> QED BY <1>1, RolloutInvariant, PTL

(* F11: however requests are lost, answered late or not at all, whatever   *)
(* devices and operators do and whenever the fleet restarts, a stage is    *)
(* begun only when every device of the earlier ones has reported healthy,  *)
(* "complete" stands only when all have, and "halted" when one has not.    *)
THEOREM RolloutsKeepTheGate == Spec => GateHolds
  <1>1. Init => RG!Init
    BY Starts
  <1>2. IInv /\ [Next]_vars => [RG!Next]_(RG!gateVars)
    BY EveryStep
  <1> QED BY <1>1, <1>2, RolloutInvariant, PTL DEF Spec, GateHolds, RG!Spec

-------------------------------------------------------------------------------
(***************************************************************************)
(* "Complete" means promoted, for a rollout that has its devices to itself.*)
(* The invariant says what that excludes: nothing but its own version ever *)
(* waits on its devices, so that an activation that answers "healthy" has  *)
(* put that version into service; the answer is remembered before the      *)
(* coroutine looks at it, and a rollout is complete when every position    *)
(* was healthy, by the invariant above.                                    *)
(***************************************************************************)
OwnOnly(r) ==
  /\ \A d \in DevicesOf(r) : candidate[d] \in {None, Target[r]}
  /\ task[r].answer = "healthy" => task[r].at \in put[r]
  /\ healthy[r] \subseteq put[r]

CompleteIsHealthy(r) == status[r] = "complete" => RG!Positions(r) \subseteq healthy[r]

(* The requests under way belong to rollouts that were started.            *)
SentByStarted == \A m \in net : status[m.rollout] # "none"

Promoting ==
  /\ IInv
  /\ SentByStarted
  /\ \A r \in Rollouts : CompleteIsHealthy(r) /\ (Alone(r) => OwnOnly(r))

-------------------------------------------------------------------------------
(* Whatever a coroutine does, it sends one request or ends.                *)
LEMMA SendsOrEnds ==
  ASSUME NEW r \in Rollouts, Resume(r)
  PROVE  \/ \E p, kind, ok : Send(r, p, kind, ok)
         \/ End(r, "complete") \/ End(r, "halted")
  <1>1. ASSUME NEW i, EnterStage(r, i)
        PROVE  \/ \E p, kind, ok : Send(r, p, kind, ok)
               \/ End(r, "complete") \/ End(r, "halted")
    BY <1>1 DEF EnterStage
  <1>2. ASSUME NEW p, NEW ok, AfterDevice(r, p, ok)
        PROVE  \/ \E q, kind, good : Send(r, q, kind, good)
               \/ End(r, "complete") \/ End(r, "halted")
    BY <1>1, <1>2 DEF AfterDevice
  <1>3. CASE RunTask(r)
    BY <1>1, <1>3 DEF RunTask
  <1>4. CASE StagingAnswered(r)
    BY <1>4 DEF StagingAnswered
  <1>5. CASE ActivationAnswered(r)
    BY <1>2, <1>5 DEF ActivationAnswered
  <1>6. CASE RequestFails(r)
    BY <1>2, <1>6 DEF RequestFails
  <1> QED BY <1>3, <1>4, <1>5, <1>6 DEF Resume

(* What a coroutine's step does to its answer, its row and the network.    *)
LEMMA ResumeEffect ==
  ASSUME IInv, NEW r \in Rollouts, Resume(r)
  PROVE  /\ task'[r].answer = "none"
         /\ \A s \in Rollouts \ {r} : task'[s] = task[s] /\ healthy'[s] = healthy[s] /\ status'[s] = status[s]
         /\ status[r] # "none" /\ status'[r] # "none"
         /\ \A m \in net' : m \in net \/ m.rollout = r
         /\ healthy'[r] \subseteq
              healthy[r] \union (IF task[r].answer = "healthy" THEN {task[r].at} ELSE {})
         /\ UNCHANGED deviceVars
  <1>0. task \in [Rollouts -> Tasks] /\ DOMAIN healthy = Rollouts /\ status[r] = "in_progress"
        /\ status \in [Rollouts -> {"none", "in_progress", "complete", "halted"}]
    BY DEF IInv, Kinds, RolloutOK, Resume, RunTask, StagingAnswered, ActivationAnswered, RequestFails
  <1>1. ASSUME NEW p, NEW kind, NEW ok, Send(r, p, kind, ok)
        PROVE  /\ task'[r].answer = "none"
               /\ \A s \in Rollouts \ {r} : task'[s] = task[s] /\ status'[s] = status[s]
               /\ status'[r] # "none"
               /\ \A m \in net' : m \in net \/ m.rollout = r
    BY <1>0, <1>1 DEF Send, Request
  <1>2. ASSUME NEW outcome \in {"complete", "halted"}, End(r, outcome)
        PROVE  /\ task'[r].answer = "none"
               /\ \A s \in Rollouts \ {r} : task'[s] = task[s] /\ status'[s] = status[s]
               /\ status'[r] # "none"
               /\ \A m \in net' : m \in net \/ m.rollout = r
    <2>1. task' = [task EXCEPT ![r] = [task[r] EXCEPT !.state = "ended", !.answer = "none"]]
      BY <1>0, <1>2 DEF End
    <2>2. task'[r].answer = "none"
      BY <1>0, <2>1 DEF Tasks
    <2> QED BY <1>0, <1>2, <2>1, <2>2 DEF End
  <1>3. /\ \A s \in Rollouts \ {r} : healthy'[s] = healthy[s]
        /\ healthy'[r] \subseteq
             healthy[r] \union (IF task[r].answer = "healthy" THEN {task[r].at} ELSE {})
        /\ UNCHANGED deviceVars
    BY <1>0 DEF Resume, RunTask, StagingAnswered, ActivationAnswered, RequestFails
  <1> QED BY <1>0, <1>1, <1>2, <1>3, SendsOrEnds

(* Rows and traces of operators stay: who is alone was alone before.       *)
LEMMA AloneBefore ==
  ASSUME NEW r \in Rollouts, Alone(r)', touched \subseteq touched',
         \A s \in Rollouts : status[s] # "none" => status'[s] # "none"
  PROVE  Alone(r)
  BY DEF Alone

LEMMA OwnKept ==
  ASSUME NEW r \in Rollouts, OwnOnly(r),
         \A d \in DevicesOf(r) : candidate'[d] \in {candidate[d], None, Target[r]},
         task'[r].answer = "healthy" => task'[r].at \in put'[r],
         put[r] \subseteq put'[r],
         healthy'[r] \subseteq put'[r]
  PROVE  OwnOnly(r)'
  BY DEF OwnOnly

(* A healthy position stays one, and "complete" is written when all are.   *)
LEMMA CompleteStep ==
  ASSUME IInv, [Next]_vars, NEW r \in Rollouts, CompleteIsHealthy(r)
  PROVE  CompleteIsHealthy(r)'
  <1>0. status \in [Rollouts -> {"none", "in_progress", "complete", "halted"}] /\ DOMAIN healthy = Rollouts
    BY DEF IInv, Kinds
  <1>1. [RG!Next]_(RG!gateVars)
    BY EveryStep
  <1>2. ASSUME NEW s \in Rollouts, RG!Open(s) PROVE CompleteIsHealthy(r)'
    BY <1>0, <1>2 DEF RG!Open, CompleteIsHealthy, RG!Positions
  <1>3. ASSUME NEW s \in Rollouts, RG!Proceed(s) PROVE CompleteIsHealthy(r)'
    <2>1. healthy[r] \subseteq healthy'[r]
      BY <1>0, <1>3 DEF RG!Proceed, RG!Hear
    <2>2. status'[r] = "complete" => status[r] = "complete" \/ RG!Positions(r) \subseteq healthy'[r]
      BY <1>0, <1>3 DEF RG!Proceed, RG!Settle, RG!Ask
    <2> QED BY <2>1, <2>2 DEF CompleteIsHealthy, RG!Positions
  <1>4. CASE UNCHANGED RG!gateVars
    BY <1>4 DEF RG!gateVars, CompleteIsHealthy, RG!Positions
  <1> QED BY <1>1, <1>2, <1>3, <1>4 DEF RG!Next

StaysOwn(r) ==
  /\ \A s \in Rollouts : status[s] # "none" => status'[s] # "none"
  /\ touched \subseteq touched'
  /\ SentByStarted'
  /\ Alone(r) /\ Alone(r)' /\ OwnOnly(r) => OwnOnly(r)'

LEMMA StartKeeps ==
  ASSUME IInv, SentByStarted, NEW s \in Rollouts, StartRollout(s), NEW r \in Rollouts
  PROVE  StaysOwn(r)
  <1>1. /\ task \in [Rollouts -> Tasks]
        /\ status \in [Rollouts -> {"none", "in_progress", "complete", "halted"}]
        /\ \A m \in net : m.rollout \in Rollouts
    BY RequestShape DEF IInv, Kinds
  <1>2. task' = [task EXCEPT ![s] = [task[s] EXCEPT !.state = "queued"]]
    BY <1>1 DEF StartRollout
  <1>3. task'[r].answer = task[r].answer /\ task'[r].at = task[r].at
    BY <1>1, <1>2 DEF Tasks
  <1>4. \A q \in Rollouts : status[q] # "none" => status'[q] # "none"
    BY <1>1 DEF StartRollout
  <1>5. UNCHANGED <<healthy, net, candidate, put, touched>>
    BY DEF StartRollout, deviceVars
  <1>6. OwnOnly(r) => OwnOnly(r)'
    BY <1>3, <1>5, OwnKept DEF OwnOnly
  <1> QED BY <1>1, <1>4, <1>5, <1>6 DEF StaysOwn, SentByStarted

LEMMA ResumeKeeps ==
  ASSUME IInv, SentByStarted, NEW s \in Rollouts, Resume(s), NEW r \in Rollouts
  PROVE  StaysOwn(r)
  <1>1. UNCHANGED <<candidate, put, touched>>
    BY ResumeEffect DEF deviceVars
  <1>2. \A q \in Rollouts : status[q] # "none" => status'[q] # "none"
    BY ResumeEffect
  <1>3. SentByStarted'
    BY <1>2, ResumeEffect, RequestShape DEF SentByStarted, IInv, Kinds
  <1>4. ASSUME OwnOnly(r) PROVE OwnOnly(r)'
    <2>1. CASE r = s
      <3>1. healthy'[r] \subseteq put[r] /\ task'[r].answer = "none"
        BY <1>4, <2>1, ResumeEffect DEF OwnOnly
      <3> QED BY <1>1, <1>4, <3>1, OwnKept
    <2>2. CASE r # s
      <3>1. healthy'[r] = healthy[r] /\ task'[r] = task[r]
        BY <2>2, ResumeEffect
      <3> QED BY <1>1, <1>4, <3>1, OwnKept DEF OwnOnly
    <2> QED BY <2>1, <2>2
  <1> QED BY <1>1, <1>2, <1>3, <1>4 DEF StaysOwn

(* An answer reaches only the coroutine it is for, and only at the request *)
(* it answers.                                                             *)
LEMMA AnswerReaches ==
  ASSUME IInv, NEW m \in net, NEW a, Answer(m, a), NEW r \in Rollouts
  PROVE  \/ task'[r] = task[r]
         \/ r = m.rollout /\ task'[r].answer = a /\ task'[r].at = m.at
  <1>1. m \in Requests /\ m.rollout \in Rollouts /\ task \in [Rollouts -> Tasks]
    BY RequestShape DEF IInv, Kinds
  <1> DEFINE s == m.rollout
  <1>2. CASE task' = task
    BY <1>2
  <1>3. CASE task[s].at = m.at /\ task' = [task EXCEPT ![s] = [task[s] EXCEPT !.answer = a]]
    <2>1. task'[s].answer = a /\ task'[s].at = task[s].at
      BY <1>1, <1>3 DEF Tasks
    <2>2. r # s => task'[r] = task[r]
      BY <1>1, <1>3
    <2> QED BY <1>3, <2>1, <2>2
  <1> QED BY <1>1, <1>2, <1>3 DEF Answer

(* A request to one of the devices of a rollout that is alone is its own.  *)
LEMMA OwnRequest ==
  ASSUME IInv, SentByStarted, NEW m \in net, NEW r \in Rollouts, Alone(r),
         DeviceAt(m.rollout, m.at) \in DevicesOf(r)
  PROVE  m.rollout = r
  <1>1. m.rollout \in Rollouts /\ m.at \in RG!Positions(m.rollout)
    BY RequestShape DEF IInv, Kinds
  <1>2. DeviceAt(m.rollout, m.at) \in DevicesOf(m.rollout)
    BY <1>1 DEF DevicesOf
  <1>3. status[m.rollout] # "none"
    BY DEF SentByStarted
  <1> QED BY <1>1, <1>2, <1>3 DEF Alone

LEMMA StagingKeeps ==
  ASSUME IInv, SentByStarted, NEW m \in net, DeliverStaging(m), NEW r \in Rollouts
  PROVE  StaysOwn(r)
  <1> DEFINE d == DeviceAt(m.rollout, m.at)
  <1>1. candidate' = [candidate EXCEPT ![d] = Target[m.rollout]] /\ Answer(m, "staged")
        /\ UNCHANGED <<status, healthy, put, touched>> /\ net' = net \ {m}
    BY DEF DeliverStaging
  <1>2. SentByStarted'
    BY <1>1 DEF SentByStarted
  <1>3. ASSUME Alone(r), OwnOnly(r) PROVE OwnOnly(r)'
    <2>1. d \in DevicesOf(r) => m.rollout = r
      BY <1>3, OwnRequest
    <2>2. candidate \in [Devices -> Versions \union {None}]
      BY DEF IInv, Kinds
    <2>3. \A e \in DevicesOf(r) : e \in Devices
      BY PositionShape, RolloutAssumption DEF DevicesOf
    <2> HIDE DEF d
    <2>4. \A e \in DevicesOf(r) : candidate'[e] \in {candidate[e], None, Target[r]}
      BY <1>1, <2>1, <2>2, <2>3
    <2>5. task'[r].answer = "healthy" => task'[r].at \in put'[r]
      BY <1>1, <1>3, AnswerReaches DEF OwnOnly
    <2> QED BY <1>1, <1>3, <2>4, <2>5, OwnKept DEF OwnOnly
  <1> QED BY <1>1, <1>2, <1>3 DEF StaysOwn

LEMMA ActivationKeeps ==
  ASSUME IInv, SentByStarted, NEW m \in net, DeliverActivation(m), NEW r \in Rollouts
  PROVE  StaysOwn(r)
  <1> DEFINE d == DeviceAt(m.rollout, m.at)
             own == candidate[d] = Target[m.rollout] /\ live'[d] = Target[m.rollout] /\ candidate'[d] = None
  <1>0. /\ m.rollout \in Rollouts /\ d \in Devices /\ put = [q \in Rollouts |-> put[q]]
        /\ live \in [Devices -> Versions] /\ candidate \in [Devices -> Versions \union {None}]
    BY RequestShape DEF IInv, Kinds
  <1>1. /\ UNCHANGED <<status, healthy, touched>> /\ net' = net \ {m}
        /\ put' = [put EXCEPT ![m.rollout] = IF own THEN @ \union {m.at} ELSE @]
        /\ \/ Promote(d) /\ (Answer(m, "healthy") \/ Answer(m, "error"))
           \/ Discard(d) /\ Answer(m, "rolled_back")
           \/ Answer(m, "error") /\ UNCHANGED <<live, candidate>>
    BY DEF DeliverActivation
  <1>2. SentByStarted'
    BY <1>1 DEF SentByStarted
  <1>3. ASSUME Alone(r), OwnOnly(r) PROVE OwnOnly(r)'
    <2>1. put[r] \subseteq put'[r]
      BY <1>0, <1>1
    <2>2. \A e \in DevicesOf(r) : candidate'[e] \in {candidate[e], None, Target[r]}
      <3>1. \A e \in DevicesOf(r) : e \in Devices
        BY PositionShape, RolloutAssumption DEF DevicesOf
      <3> HIDE DEF d
      <3> QED BY <1>0, <1>1, <3>1 DEF Promote, Discard
    <2>3. CASE Promote(d) /\ Answer(m, "healthy")
      <3>1. CASE r = m.rollout
        <4>1. d \in DevicesOf(r)
          BY <3>1, RequestShape DEF DevicesOf, IInv, Kinds
        <4>2. candidate[d] = Target[r] /\ live'[d] = Target[r] /\ candidate'[d] = None
          BY <1>0, <1>3, <2>3, <4>1 DEF Promote, OwnOnly
        <4>3. m.at \in put'[r]
          BY <1>0, <1>1, <3>1, <4>2
        <4>4. task'[r].answer = "healthy" => task'[r].at \in put'[r]
          BY <1>3, <2>1, <2>3, <4>3, AnswerReaches DEF OwnOnly
        <4> QED BY <1>1, <1>3, <2>1, <2>2, <4>4, OwnKept DEF OwnOnly
      <3>2. CASE r # m.rollout
        <4>1. task'[r].answer = "healthy" => task'[r].at \in put'[r]
          BY <1>3, <2>1, <2>3, <3>2, AnswerReaches DEF OwnOnly
        <4> QED BY <1>1, <1>3, <2>1, <2>2, <4>1, OwnKept DEF OwnOnly
      <3> QED BY <3>1, <3>2
    <2>4. CASE Answer(m, "error") \/ Answer(m, "rolled_back")
      <3>1. task'[r].answer = "healthy" => task'[r].at \in put'[r]
        BY <1>3, <2>1, <2>4, AnswerReaches DEF OwnOnly
      <3> QED BY <1>1, <1>3, <2>1, <2>2, <3>1, OwnKept DEF OwnOnly
    <2> QED BY <1>1, <2>3, <2>4
  <1> QED BY <1>1, <1>2, <1>3 DEF StaysOwn

(* An operator who touches a device of a rollout ends its being alone; the *)
(* other steps outside the coroutines only empty slots and lose messages.  *)
LEMMA OperatorKeeps ==
  ASSUME IInv, SentByStarted, NEW d \in Devices, NEW r \in Rollouts,
         OperatorActivates(d) \/ \E v \in OperatorVersions : OperatorStages(d, v)
  PROVE  StaysOwn(r)
  <1>1. /\ UNCHANGED <<status, healthy, task, net, put>> /\ touched' = touched \union {d}
        /\ \E x : candidate' = [candidate EXCEPT ![d] = x]
    BY DEF OperatorActivates, OperatorStages, Promote, Discard, rolloutVars
  <1>2. ASSUME Alone(r)', OwnOnly(r) PROVE OwnOnly(r)'
    <2>1. d \notin DevicesOf(r)
      BY <1>1, <1>2 DEF Alone
    <2>2. candidate \in [Devices -> Versions \union {None}] /\ \A e \in DevicesOf(r) : e \in Devices
      BY PositionShape, RolloutAssumption DEF DevicesOf, IInv, Kinds
    <2>3. \A e \in DevicesOf(r) : candidate'[e] = candidate[e]
      BY <1>1, <2>1, <2>2
    <2> QED BY <1>1, <1>2, <2>3, OwnKept DEF OwnOnly
  <1> QED BY <1>1, <1>2 DEF StaysOwn, SentByStarted

LEMMA RestartKeeps ==
  ASSUME IInv, SentByStarted, NEW d \in Devices, NEW r \in Rollouts, DeviceRestarts(d)
  PROVE  StaysOwn(r)
  <1>1. /\ UNCHANGED <<status, healthy, task, net, put, touched>>
        /\ candidate' = [candidate EXCEPT ![d] = None]
    BY DEF DeviceRestarts, rolloutVars
  <1>2. candidate \in [Devices -> Versions \union {None}] /\ \A e \in DevicesOf(r) : e \in Devices
    BY PositionShape, RolloutAssumption DEF DevicesOf, IInv, Kinds
  <1>3. \A e \in DevicesOf(r) : candidate'[e] \in {candidate[e], None}
    BY <1>1, <1>2
  <1>4. OwnOnly(r) => OwnOnly(r)'
    BY <1>1, <1>3, OwnKept DEF OwnOnly
  <1> QED BY <1>1, <1>4 DEF StaysOwn, SentByStarted

LEMMA FleetKeeps ==
  ASSUME IInv, SentByStarted, NEW r \in Rollouts,
         \/ \E m \in net : Lose(m)
         \/ \E d \in Devices : Register(d)
         \/ FleetRestarts
         \/ UNCHANGED vars
  PROVE  StaysOwn(r)
  <1>1. UNCHANGED <<status, healthy, candidate, put, touched>> /\ net' \subseteq net
    BY DEF Lose, Register, FleetRestarts, vars, rolloutVars, deviceVars
  <1>2. \/ task'[r] = task[r]
        \/ task'[r] = [task[r] EXCEPT !.state = "lost", !.answer = "none"]
    BY DEF Lose, Register, FleetRestarts, vars, rolloutVars
  <1>3. task[r] \in Tasks
    BY DEF IInv, Kinds
  <1>4. task'[r] = task[r] \/ task'[r].answer = "none"
    BY <1>2, <1>3 DEF Tasks
  <1>5. OwnOnly(r) => OwnOnly(r)'
    BY <1>1, <1>4, OwnKept DEF OwnOnly
  <1> QED BY <1>1, <1>5 DEF StaysOwn, SentByStarted

LEMMA EveryStepKeeps ==
  ASSUME IInv, SentByStarted, [Next]_vars, NEW r \in Rollouts
  PROVE  StaysOwn(r)
  <1>1. ASSUME NEW s \in Rollouts, StartRollout(s) \/ Resume(s) PROVE StaysOwn(r)
    BY <1>1, StartKeeps, ResumeKeeps
  <1>2. ASSUME NEW m \in net, DeliverStaging(m) \/ DeliverActivation(m) PROVE StaysOwn(r)
    BY <1>2, StagingKeeps, ActivationKeeps
  <1>3. ASSUME NEW d \in Devices, OperatorActivates(d) \/ DeviceRestarts(d) PROVE StaysOwn(r)
    BY <1>3, OperatorKeeps, RestartKeeps
  <1>4. ASSUME NEW d \in Devices, NEW v \in OperatorVersions, OperatorStages(d, v) PROVE StaysOwn(r)
    BY <1>4, OperatorKeeps
  <1>5. CASE \/ \E m \in net : Lose(m)
             \/ \E d \in Devices : Register(d)
             \/ FleetRestarts
             \/ UNCHANGED vars
    BY <1>5, FleetKeeps
  <1> QED BY <1>1, <1>2, <1>3, <1>4, <1>5 DEF Next

-------------------------------------------------------------------------------
LEMMA PromotingStep ==
  ASSUME Promoting, [Next]_vars
  PROVE  Promoting'
  <1>1. IInv /\ SentByStarted /\ IInv'
    BY EveryStep DEF Promoting
  <1>2. ASSUME NEW r \in Rollouts
        PROVE  SentByStarted' /\ CompleteIsHealthy(r)' /\ (Alone(r)' => OwnOnly(r)')
    <2>1. StaysOwn(r)
      BY <1>1, EveryStepKeeps
    <2>2. Alone(r)' => Alone(r)
      BY <2>1, AloneBefore DEF StaysOwn
    <2> QED BY <1>1, <2>1, <2>2, CompleteStep DEF Promoting, StaysOwn
  <1>3. SentByStarted'
    <2>1. CASE Rollouts = {}
      BY <1>1, <2>1, RequestShape DEF SentByStarted, IInv, Kinds
    <2> QED BY <1>2, <2>1
  <1> QED BY <1>1, <1>2, <1>3 DEF Promoting

(* Whatever is lost, late or restarted, and whatever other rollouts and    *)
(* operators do elsewhere: a rollout recorded as complete that had its     *)
(* devices to itself put its own version into service at each of them.     *)
THEOREM CompleteIsPromoted == Spec => []CompleteMeansPromoted
  <1>1. Init => Promoting
    <2> SUFFICES ASSUME Init PROVE Promoting OBVIOUS
    <2>1. IInv
      BY Starts
    <2>2. ASSUME NEW r \in Rollouts PROVE CompleteIsHealthy(r) /\ OwnOnly(r)
      <3>1. status[r] = "none" /\ healthy[r] = {} /\ task[r].answer = "none"
        BY DEF Init, RG!Init, NewTask
      <3>2. \A d \in DevicesOf(r) : candidate[d] = None
        BY PositionShape, RolloutAssumption DEF Init, DevicesOf
      <3> QED BY <3>1, <3>2 DEF CompleteIsHealthy, OwnOnly
    <2> QED BY <2>1, <2>2 DEF Promoting, SentByStarted, Init
  <1>2. Promoting /\ [Next]_vars => Promoting'
    BY PromotingStep
  <1>3. Promoting => CompleteMeansPromoted
    BY DEF Promoting, CompleteMeansPromoted, CompleteIsHealthy, OwnOnly
  <1> QED BY <1>1, <1>2, <1>3, PTL DEF Spec
===============================================================================
