----------------------------- MODULE ReviewsProofs -----------------------------
(***************************************************************************)
(* The review queue keeps its promises for every capacity and any number   *)
(* of rejects, clicks and restarts.  The three invariants are inductive    *)
(* only together: an override is counted once because a kept id occurs     *)
(* once (KeepsNewest), and a new id is unmarked because ids only grow      *)
(* (TypeOK).                                                               *)
(***************************************************************************)
EXTENDS Reviews, FiniteSetTheorems, TLAPS

IInv == TypeOK /\ KeepsNewest /\ CountedOnce

(* A push appends the review at the end of a queue that lost at most its   *)
(* oldest member: entry i of the new queue is entry i or i + 1 of the old. *)
LEMMA PushShape ==
  ASSUME TypeOK, NEW review \in Review
  PROVE  LET d == IF Len(recent) = MaxHistory THEN 1 ELSE 0 IN
         /\ Push(review) \in Seq(Review)
         /\ Len(Push(review)) = Len(recent) + 1 - d
         /\ Len(Push(review)) <= MaxHistory
         /\ Push(review)[Len(recent) + 1 - d] = review
         /\ \A i \in 1..(Len(recent) - d) : Push(review)[i] = recent[i + d]
  <1> USE MaxHistoryAssumption
  <1>1. CASE Len(recent) = MaxHistory
    BY <1>1 DEF Push, TypeOK
  <1>2. CASE Len(recent) # MaxHistory
    BY <1>2 DEF Push, TypeOK
  <1> QED BY <1>1, <1>2

(* The marked ids are finitely many, so Cardinality counts them. *)
LEMMA MarkedFinite == ASSUME TypeOK PROVE IsFiniteSet(marked)
  <1>1. IsFiniteSet(1..(next_id - 1))
    BY FS_Interval DEF TypeOK
  <1> QED BY <1>1, FS_Subset DEF TypeOK

LEMMA InitInv == Init => IInv
  BY MaxHistoryAssumption, FS_EmptySet DEF Init, IInv, TypeOK, KeepsNewest, CountedOnce

LEMMA RejectInv == ASSUME IInv, RecordReject PROVE IInv'
  <1> DEFINE new == [id |-> next_id, overridden |-> FALSE]
             d == IF Len(recent) = MaxHistory THEN 1 ELSE 0
  <1> USE MaxHistoryAssumption
  <1>1. new \in Review
    BY DEF IInv, TypeOK, Review
  <1>2. /\ recent' \in Seq(Review)
        /\ Len(recent') = Len(recent) + 1 - d
        /\ Len(recent') <= MaxHistory
        /\ recent'[Len(recent) + 1 - d] = new
        /\ \A i \in 1..(Len(recent) - d) : recent'[i] = recent[i + d]
    BY <1>1, PushShape DEF IInv, RecordReject
  <1>3. Len(recent) \in Nat /\ d \in {0, 1} /\ next_id \in Nat \ {0} /\ Len(recent) <= MaxHistory
    BY DEF IInv, TypeOK
  <1>4. TypeOK'
    BY <1>2 DEF IInv, TypeOK, RecordReject
  <1>5. \A i \in 1..Len(recent') : recent'[i].id = next_id' - 1 - Len(recent') + i
    <2> TAKE i \in 1..Len(recent')
    <2>1. CASE i = Len(recent')
      BY <2>1, <1>2, <1>3 DEF RecordReject
    <2>2. CASE i # Len(recent')
      <3>1. i \in 1..(Len(recent) - d) /\ i + d \in 1..Len(recent)
        BY <2>2, <1>2, <1>3
      <3>2. recent[i + d].id = next_id - 1 - Len(recent) + (i + d)
        BY <3>1 DEF IInv, KeepsNewest
      <3>3. recent'[i].id = next_id - 1 - Len(recent) + (i + d)
        BY <3>1, <3>2, <1>2
      <3>4. next_id' = next_id + 1 /\ Len(recent') = Len(recent) + 1 - d
        BY <1>2 DEF RecordReject
      <3> HIDE DEF d
      <3> QED BY <3>3, <3>4, <1>3
    <2> QED BY <2>1, <2>2
  <1>6. Len(recent') < MaxHistory => Len(recent') = next_id' - 1
    BY <1>2, <1>3 DEF IInv, KeepsNewest, RecordReject
  <1>7. \A i \in 1..Len(recent') : recent'[i].overridden <=> recent'[i].id \in marked'
    <2> TAKE i \in 1..Len(recent')
    <2>1. CASE i = Len(recent')
      <3>1. recent'[i].overridden = FALSE /\ recent'[i].id = next_id
        BY <2>1, <1>2
      <3>2. next_id \notin marked'
        BY <1>3 DEF IInv, TypeOK, RecordReject
      <3> QED BY <3>1, <3>2
    <2>2. CASE i # Len(recent')
      <3>1. i \in 1..(Len(recent) - d) /\ i + d \in 1..Len(recent)
        BY <2>2, <1>2, <1>3
      <3> QED BY <3>1, <1>2 DEF IInv, CountedOnce, RecordReject
    <2> QED BY <2>1, <2>2
  <1>8. KeepsNewest'
    BY <1>5, <1>6 DEF KeepsNewest
  <1>9. CountedOnce'
    BY <1>7 DEF IInv, CountedOnce, RecordReject
  <1> QED BY <1>4, <1>8, <1>9 DEF IInv

LEMMA OverrideInv == ASSUME IInv, NEW id, MarkOverridden(id) PROVE IInv'
  <1> USE MaxHistoryAssumption
  <1>1. PICK i \in 1..Len(recent) :
          /\ recent[i].id = id
          /\ ~recent[i].overridden
          /\ recent' = [recent EXCEPT ![i].overridden = TRUE]
          /\ total_overrides' = total_overrides + 1
          /\ marked' = marked \union {id}
          /\ UNCHANGED next_id
    BY DEF MarkOverridden
  <1>2. recent \in Seq(Review) /\ Len(recent) \in Nat /\ recent[i] \in Review
    BY DEF IInv, TypeOK
  <1>3. id \in 1..(next_id - 1)
    BY <1>1, <1>2 DEF IInv, TypeOK, KeepsNewest, Review
  <1>4. /\ recent' \in Seq(Review) /\ Len(recent') = Len(recent)
        /\ recent'[i] = [recent[i] EXCEPT !.overridden = TRUE]
        /\ \A j \in 1..Len(recent) : j # i => recent'[j] = recent[j]
    <2> DEFINE clicked == [recent[i] EXCEPT !.overridden = TRUE]
    <2>1. clicked \in Review
      BY <1>2 DEF Review
    <2>2. recent' = [recent EXCEPT ![i] = clicked]
      BY <1>1
    <2> HIDE DEF clicked
    <2>3. /\ recent' \in Seq(Review) /\ Len(recent') = Len(recent)
          /\ recent'[i] = clicked
          /\ \A j \in 1..Len(recent) : j # i => recent'[j] = recent[j]
      BY <2>1, <2>2, <1>2
    <2> QED BY <2>3 DEF clicked
  <1>5. \A j \in 1..Len(recent) : recent'[j].id = recent[j].id
    BY <1>2, <1>4 DEF Review
  <1>6. TypeOK'
    BY <1>1, <1>3, <1>4 DEF IInv, TypeOK
  <1>7. KeepsNewest'
    BY <1>1, <1>4, <1>5 DEF IInv, KeepsNewest
  <1>8. id \notin marked
    BY <1>1 DEF IInv, CountedOnce
  <1>9. Cardinality(marked') = Cardinality(marked) + 1
    BY <1>1, <1>8, MarkedFinite, FS_AddElement DEF IInv
  <1>10. \A j \in 1..Len(recent) : recent'[j].overridden <=> recent'[j].id \in marked'
    <2> TAKE j \in 1..Len(recent)
    <2>1. CASE j = i
      BY <2>1, <1>1, <1>2, <1>4 DEF Review
    <2>2. CASE j # i
      <3>1. recent[j].id # id
        BY <2>2, <1>1, <1>2 DEF IInv, TypeOK, KeepsNewest
      <3> QED BY <2>2, <3>1, <1>1, <1>4 DEF IInv, CountedOnce
    <2> QED BY <2>1, <2>2
  <1>11. CountedOnce'
    BY <1>1, <1>4, <1>9, <1>10 DEF IInv, CountedOnce
  <1> QED BY <1>6, <1>7, <1>11 DEF IInv

LEMMA RestartInv == ASSUME Restart PROVE IInv'
  BY MaxHistoryAssumption, FS_EmptySet DEF Restart, IInv, TypeOK, KeepsNewest, CountedOnce

(* The queue, its counters and its ids stay consistent in every behaviour. *)
THEOREM ReviewsInvariant == Spec => []IInv
  <1>1. ASSUME IInv, [Next]_reviewVars PROVE IInv'
    <2>1. CASE RecordReject BY <1>1, <2>1, RejectInv
    <2>2. ASSUME NEW id \in 1..next_id, MarkOverridden(id) PROVE IInv'
      BY <1>1, <2>2, OverrideInv
    <2>3. CASE Restart BY <2>3, RestartInv
    <2>4. CASE UNCHANGED reviewVars
      BY <1>1, <2>4 DEF reviewVars, IInv, TypeOK, KeepsNewest, CountedOnce
    <2> QED BY <1>1, <2>1, <2>2, <2>3, <2>4 DEF Next
  <1> QED BY InitInv, <1>1, PTL DEF Spec

(* The queue never outgrows its bound, and its counters and ids are of     *)
(* their kinds.                                                            *)
THEOREM ReviewsTypeCorrect == Spec => []TypeOK
  BY ReviewsInvariant, PTL DEF IInv

(* The queue is always the unbroken run of the newest rejects. *)
THEOREM QueueKeepsNewest == Spec => []KeepsNewest
  BY ReviewsInvariant, PTL DEF IInv

(* An override is counted once per part, through clicks and evictions. *)
THEOREM OverridesCountedOnce == Spec => []CountedOnce
  BY ReviewsInvariant, PTL DEF IInv
================================================================================
