--------------------------- MODULE ActivationProofs ----------------------------
(***************************************************************************)
(* What an activation on a node depends on besides the node itself: the    *)
(* holdout images it judges a model by, which a training run may be        *)
(* replacing (HoldoutRefresh), and the hours in which it is possible at    *)
(* all (MaintenanceWindow).  Each is proved alone, and then that the two   *)
(* together (Activation) are still what they were.                         *)
(***************************************************************************)
EXTENDS Activation, FiniteSetTheorems, TLAPS

-------------------------------------------------------------------------------
(***************************************************************************)
(* For any holdout set and ceiling: what an evaluation that no training    *)
(* run wrote into concludes.  A run that is copying has exactly the images *)
(* it has copied in the directory, so one that ends leaves the holdout set *)
(* there; an undisturbed evaluation finds the directory whole from its     *)
(* start to its end, and so has read what it no longer has to read.        *)
(***************************************************************************)
HoldoutSet == dir = [f \in Images |-> IF f \in Test THEN "whole" ELSE "absent"]

Whole(S) == {<<f, "whole">> : f \in S}

Copying ==
  /\ \A f \in Images : dir[f] = "absent" <=> f \notin copied
  /\ \A f, g \in Images : dir[f] = "partial" /\ dir[g] = "partial" => f = g

Quiet ==
  /\ HoldoutSet
  /\ refresh # "copying"
  /\ left \subseteq Test
  /\ gate = "listing" => read = {}
  /\ gate = "reading" => read = Whole(Test \ left)

IInv ==
  /\ TypeOK
  /\ refresh = "clearing" => copied = {}
  /\ refresh = "copying" => Copying
  /\ gate \in {"listing", "reading"} /\ ~disturbed => Quiet
  /\ QuietVerdictIsRight

-------------------------------------------------------------------------------
(* Tagging the images does not change how many there are.                  *)
LEMMA ReadIsTest == Cardinality(Whole(Test)) = Cardinality(Test)
  <1> DEFINE tag == [f \in Test |-> <<f, "whole">>]
  <1>1. tag \in Bijection(Test, Whole(Test))
    <2>1. tag \in [Test -> Whole(Test)]
      BY DEF Whole
    <2>2. \A f, g \in Test : tag[f] = tag[g] => f = g
      OBVIOUS
    <2>3. \A z \in Whole(Test) : \E f \in Test : tag[f] = z
      BY DEF Whole
    <2> HIDE DEF tag
    <2> QED BY <2>1, <2>2, <2>3 DEF Bijection, Injection, Surjection, IsInjective
  <1>2. ExistsBijection(Test, Whole(Test))
    BY <1>1 DEF ExistsBijection
  <1> QED BY <1>2, FS_Bijection, HoldoutAssumption

LEMMA Begins == ASSUME Init PROVE IInv
  BY HoldoutAssumption DEF Init, IInv, TypeOK, QuietVerdictIsRight

(* The training run. *)
LEMMA RefreshStep ==
  ASSUME IInv,
         \/ StartRefresh \/ Cleared \/ BreakOff
         \/ \E f \in Images : Unlink(f) \/ BeginCopy(f) \/ EndCopy(f)
  PROVE  IInv'
  <1> USE HoldoutAssumption
  <1>0. UNCHANGED <<gate, left, read, verdict, misjudged>>
    BY DEF StartRefresh, Cleared, BreakOff, Unlink, BeginCopy, EndCopy, Disturb, gateVars
  <1>1. CASE StartRefresh
    BY <1>0, <1>1 DEF StartRefresh, IInv, TypeOK, Quiet, HoldoutSet, QuietVerdictIsRight, TooHigh
  <1>2. CASE Cleared
    <2>1. \A f \in Images : dir[f] = "absent"
      BY <1>2 DEF Cleared, Present
    <2>2. ~(gate \in {"listing", "reading"} /\ ~disturbed)
      BY <2>1 DEF IInv, Quiet, HoldoutSet
    <2>3. Copying'
      BY <1>2, <2>1 DEF Cleared, IInv, Copying
    <2> QED BY <1>0, <1>2, <2>1, <2>2, <2>3 DEF Cleared, IInv, TypeOK, QuietVerdictIsRight, TooHigh
  <1>3. CASE BreakOff
    BY <1>0, <1>3 DEF BreakOff, IInv, TypeOK, Quiet, HoldoutSet, QuietVerdictIsRight, TooHigh
  <1>4. ASSUME NEW f \in Images, Unlink(f) PROVE IInv'
    BY <1>0, <1>4 DEF Unlink, Disturb, IInv, TypeOK, QuietVerdictIsRight, TooHigh
  <1>5. ASSUME NEW f \in Images, BeginCopy(f) PROVE IInv'
    BY <1>0, <1>5 DEF BeginCopy, Disturb, Copying, IInv, TypeOK, QuietVerdictIsRight, TooHigh
  <1>6. ASSUME NEW f \in Images, EndCopy(f) PROVE IInv'
    BY <1>0, <1>6 DEF EndCopy, AllCopied, Disturb, Copying, IInv, TypeOK, QuietVerdictIsRight, TooHigh
  <1> QED BY <1>1, <1>2, <1>3, <1>4, <1>5, <1>6

(* The evaluation. *)
LEMMA GateStep ==
  ASSUME IInv,
         Activate \/ Listing \/ Judge \/ \E f \in Images : ReadFile(f) \/ OpenRaises(f)
  PROVE  IInv'
  <1> USE HoldoutAssumption
  <1>0. UNCHANGED <<dir, refresh, copied, misjudged>>
    BY DEF Activate, Listing, Judge, ReadFile, OpenRaises, dirVars
  <1>1. CASE Activate
    BY <1>0, <1>1 DEF Activate, IInv, TypeOK, Copying, Quiet, HoldoutSet, QuietVerdictIsRight
  <1>2. CASE Listing
    <2>1. TypeOK' /\ QuietVerdictIsRight'
      BY <1>0, <1>2 DEF Listing, Present, IInv, TypeOK, QuietVerdictIsRight
    <2>2. ASSUME ~disturbed PROVE Quiet'
      <3>1. left' = Test
        BY <1>2, <2>2 DEF Listing, Present, IInv, Quiet, HoldoutSet
      <3> QED BY <1>0, <1>2, <2>2, <3>1 DEF Listing, IInv, Quiet, HoldoutSet, Whole
    <2> QED BY <1>0, <1>2, <2>1, <2>2 DEF Listing, IInv, Copying
  <1>3. ASSUME NEW f \in Images, ReadFile(f) PROVE IInv'
    <2>1. TypeOK' /\ QuietVerdictIsRight'
      <3>1. dir[f] # "absent" => <<f, dir[f]>> \in Images \X {"partial", "whole"}
        BY DEF IInv, TypeOK
      <3>2. read' \subseteq Images \X {"partial", "whole"} /\ left' \subseteq Images
        BY <1>3, <3>1 DEF ReadFile, IInv, TypeOK
      <3> QED BY <1>0, <1>3, <3>2 DEF ReadFile, IInv, TypeOK, QuietVerdictIsRight
    <2>2. ASSUME ~disturbed PROVE Quiet'
      <3>1. Quiet /\ f \in Test /\ dir[f] = "whole"
        BY <1>3, <2>2 DEF ReadFile, IInv, Quiet, HoldoutSet
      <3>2. read' = read \union {<<f, "whole">>} /\ left' = left \ {f}
        BY <1>3, <3>1 DEF ReadFile
      <3>3. read' = Whole(Test \ left')
        <4>1. Test \ left' = (Test \ left) \union {f}
          BY <3>1, <3>2
        <4>2. read = Whole(Test \ left)
          BY <1>3, <3>1 DEF ReadFile, Quiet
        <4> QED BY <3>2, <4>1, <4>2 DEF Whole
      <3> QED BY <1>0, <1>3, <3>1, <3>2, <3>3 DEF ReadFile, Quiet, HoldoutSet
    <2> QED BY <1>0, <1>3, <2>1, <2>2 DEF ReadFile, IInv, Copying
  <1>4. ASSUME NEW f \in Images, OpenRaises(f) PROVE IInv'
    <2>1. disturbed
      BY <1>4 DEF OpenRaises, IInv, Quiet, HoldoutSet
    <2> QED BY <1>0, <1>4, <2>1 DEF OpenRaises, IInv, TypeOK, Copying, QuietVerdictIsRight
  <1>5. CASE Judge
    <2>1. TypeOK'
      BY <1>0, <1>5 DEF Judge, IInv, TypeOK
    <2>2. ASSUME ~disturbed PROVE verdict' = IF TooHigh THEN "rolled back" ELSE "accepted"
      <3>1. read = Whole(Test) /\ misjudged \subseteq Test
        BY <1>5, <2>2 DEF Judge, IInv, Quiet, TypeOK, Whole
      <3>2. {f \in misjudged : <<f, "whole">> \in read} = misjudged
        BY <3>1 DEF Whole
      <3>3. ~ \E f \in Images : <<f, "partial">> \in read
        BY <3>1 DEF Whole
      <3> QED BY <1>5, <3>1, <3>2, <3>3, ReadIsTest DEF Judge, Exceeds, TooHigh
    <2>3. QuietVerdictIsRight'
      BY <1>0, <1>5, <2>2 DEF Judge, QuietVerdictIsRight, TooHigh
    <2> QED BY <1>0, <1>5, <2>1, <2>3 DEF Judge, IInv, Copying
  <1> QED BY <1>1, <1>2, <1>3, <1>4, <1>5

(* The invariant holds at every moment. *)
THEOREM HoldoutInvariant == Spec => []IInv
  <1>1. Init => IInv
    BY Begins
  <1>2. IInv /\ [Next]_vars => IInv'
    <2> SUFFICES ASSUME IInv, [Next]_vars PROVE IInv' OBVIOUS
    <2>1. CASE UNCHANGED vars
      BY <2>1 DEF vars, dirVars, gateVars, IInv, TypeOK, Copying, Quiet, HoldoutSet,
        QuietVerdictIsRight, TooHigh
    <2> QED BY <2>1, RefreshStep, GateStep DEF Next, TrainingStep, Evaluate
  <1> QED BY <1>1, <1>2, PTL DEF Spec

(* While no training run is at work or has been broken off, the directory  *)
(* is the holdout set, and an evaluation is over exactly when it has a     *)
(* verdict.                                                                *)
THEOREM HoldoutTypeCorrect == Spec => []TypeOK
  <1>1. IInv => TypeOK
    BY DEF IInv
  <1> QED BY <1>1, HoldoutInvariant, PTL

(* F8: an evaluation that no training run wrote into rolls a model back    *)
(* exactly when its share of misjudged images exceeds the ceiling.         *)
THEOREM QuietVerdictCorrect == Spec => []QuietVerdictIsRight
  <1>1. IInv => QuietVerdictIsRight
    BY DEF IInv
  <1> QED BY <1>1, HoldoutInvariant, PTL

-------------------------------------------------------------------------------
(***************************************************************************)
(* The maintenance window for a day of any length and a clock of any       *)
(* resolution.  All that is needed of them is that the start and the end   *)
(* of a window, in ticks, are times of the same day as the clock shows.    *)
(***************************************************************************)
ClockInv == window \in Windows /\ now \in 0..(Day - 1)

LEMMA Products ==
  ASSUME NEW a \in Nat, NEW b \in Nat, NEW c \in Nat \ {0}, a < b
  PROVE  a * c \in Nat /\ b * c \in Nat /\ a * c + c <= b * c
  <1>1. b = a + 1 + (b - a - 1) /\ b - a - 1 \in Nat
    OBVIOUS
  <1>2. b * c = a * c + c + (b - a - 1) * c
    BY <1>1
  <1>3. (b - a - 1) * c \in Nat
    BY <1>1
  <1> QED BY <1>2, <1>3

LEMMA DayType == Day \in Nat \ {0}
  BY ClockAssumption DEF Day

LEMMA TicksInDay == ASSUME NEW t \in TimesOfDay PROVE Ticks(t) \in 0..(Day - 1)
  <1> DEFINE H == HoursPerDay
             M == MinutesPerHour
             K == TicksPerMinute
             m == t.hour * M + t.minute
  <1>1. t.hour \in Nat /\ t.hour < H /\ t.minute \in Nat /\ t.minute < M
    BY ClockAssumption DEF TimesOfDay
  <1>2. t.hour * M \in Nat /\ H * M \in Nat /\ t.hour * M + M <= H * M
    BY <1>1, ClockAssumption, Products
  <1>3. m \in Nat /\ m < H * M
    BY <1>1, <1>2, ClockAssumption
  <1>4. m * K \in Nat /\ (H * M) * K \in Nat /\ m * K + K <= (H * M) * K
    BY <1>2, <1>3, ClockAssumption, Products
  <1>5. Ticks(t) = m * K /\ Day = (H * M) * K
    BY DEF Ticks, Day
  <1> HIDE DEF m
  <1> QED BY <1>4, <1>5, ClockAssumption

THEOREM ClockInvariant == WindowSpec => []ClockInv
  <1>1. WindowInit => ClockInv
    BY DEF WindowInit, ClockInv
  <1>2. ClockInv /\ [Tick]_windowVars => ClockInv'
    BY DayType DEF ClockInv, Tick, windowVars
  <1> QED BY <1>1, <1>2, PTL DEF WindowSpec

LEMMA StretchOfTimes ==
  ASSUME NEW s \in 0..(Day - 1), NEW e \in 0..(Day - 1), NEW t \in 0..(Day - 1)
  PROVE  Between(s, e, t) <=> Until(s, t) <= Until(s, e)
  BY DayType DEF Between, Until

(* F9: the window is open exactly from its start to the next occurrence of *)
(* its end, for any two times of day and wherever midnight lies.           *)
THEOREM WindowCorrect == WindowSpec => []WindowIsStretch
  <1>1. ASSUME ClockInv, window # Always PROVE WindowIsStretch
    <2>1. window.start \in TimesOfDay /\ window.end \in TimesOfDay
      BY <1>1 DEF ClockInv, Windows
    <2>2. Ticks(window.start) \in 0..(Day - 1) /\ Ticks(window.end) \in 0..(Day - 1) /\ now \in 0..(Day - 1)
      BY <1>1, <2>1, TicksInDay DEF ClockInv
    <2>3. Between(Ticks(window.start), Ticks(window.end), now)
          <=> Until(Ticks(window.start), now) <= Until(Ticks(window.start), Ticks(window.end))
      BY <2>2, StretchOfTimes
    <2> QED BY <1>1, <2>3 DEF WindowIsStretch, InMaintenanceWindow
  <1>2. ClockInv => WindowIsStretch
    BY <1>1 DEF WindowIsStretch
  <1> QED BY <1>2, ClockInvariant, PTL

LEMMA EdgesOfTimes ==
  ASSUME NEW s \in 0..(Day - 1), NEW e \in 0..(Day - 1), NEW t \in 0..(Day - 1),
         NEW u \in 0..(Day - 1), u = (t + 1) % Day
  PROVE  /\ ~Between(s, e, t) /\ Between(s, e, u) => u = s
         /\ Between(s, e, t) /\ ~Between(s, e, u) => t = e
  <1>1. CASE t + 1 < Day
    <2>1. u = t + 1
      BY <1>1, DayType
    <2> QED BY <2>1, DayType DEF Between
  <1>2. CASE t + 1 = Day
    <2>1. u = 0
      BY <1>2, DayType
    <2> QED BY <1>2, <2>1, DayType DEF Between
  <1> QED BY <1>1, <1>2, DayType

(* F9: from one tick to the next, activation becomes possible only at the  *)
(* start of the window, and impossible only after its end.                 *)
THEOREM WindowEdgesCorrect == WindowSpec => OpensAndCloses
  <1> DEFINE Edges == window # Always =>
               /\ ~InMaintenanceWindow /\ InMaintenanceWindow' => now' = Ticks(window.start)
               /\ InMaintenanceWindow /\ ~InMaintenanceWindow' => now = Ticks(window.end)
  <1>1. ASSUME ClockInv, ClockInv', Tick, window # Always PROVE Edges
    <2> DEFINE s == Ticks(window.start)
               e == Ticks(window.end)
    <2>1. s \in 0..(Day - 1) /\ e \in 0..(Day - 1)
      BY <1>1, TicksInDay DEF ClockInv, Windows
    <2>2. now \in 0..(Day - 1) /\ now' \in 0..(Day - 1) /\ now' = (now + 1) % Day /\ window' = window
      BY <1>1 DEF ClockInv, Tick
    <2>3. (InMaintenanceWindow <=> Between(s, e, now)) /\ (InMaintenanceWindow' <=> Between(s, e, now'))
      BY <1>1, <2>2 DEF InMaintenanceWindow, Ticks, Between
    <2> HIDE DEF s, e
    <2>4. /\ ~Between(s, e, now) /\ Between(s, e, now') => now' = s
          /\ Between(s, e, now) /\ ~Between(s, e, now') => now = e
      BY <2>1, <2>2, EdgesOfTimes
    <2> QED BY <2>3, <2>4 DEF s, e
  <1>2. ClockInv /\ ClockInv' /\ [Tick]_windowVars => [Edges]_windowVars
    BY <1>1
  <1> QED BY <1>2, ClockInvariant, PTL DEF WindowSpec, OpensAndCloses
-------------------------------------------------------------------------------
(* Together they are still what each is by itself: the window only holds   *)
(* activations back, and an evaluation leaves the clock alone.             *)
LEMMA ActivationSteps ==
  [ActivationNext]_allVars => [Next]_vars /\ [Tick]_windowVars
  <1>1. ASSUME ActivateInWindow PROVE Next /\ UNCHANGED windowVars
    BY <1>1 DEF ActivateInWindow, Next
  <1>2. ASSUME TrainingStep \/ Evaluate PROVE Next
    BY <1>2 DEF Next
  <1>3. ASSUME ClockTicks PROVE Tick /\ UNCHANGED vars
    BY <1>3 DEF ClockTicks
  <1> QED BY <1>1, <1>2, <1>3 DEF ActivationNext, allVars

(* An activation under any window, clock, holdout set and training runs    *)
(* that are broken off: both halves behave as they do alone, so that their *)
(* theorems are about activations.                                         *)
THEOREM ActivationIsBoth == ActivationSpec => Spec /\ WindowSpec
  <1>1. ActivationInit => Init /\ WindowInit
    BY DEF ActivationInit
  <1> QED BY <1>1, ActivationSteps, PTL DEF ActivationSpec, Spec, WindowSpec
===============================================================================
