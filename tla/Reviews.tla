-------------------------------- MODULE Reviews --------------------------------
(***************************************************************************)
(* The operator review queue of an edge node (reviews.py): the last        *)
(* MaxHistory rejected parts, and the count of those an operator marked as *)
(* wrongly rejected.  Every function holds the module's lock from its      *)
(* first read to its last write, so each is one action.  A review is its   *)
(* id and its overridden flag; score, version, time and thumbnail are      *)
(* carried along and decide nothing.                                       *)
(***************************************************************************)
EXTENDS Naturals, Sequences, FiniteSets

CONSTANT MaxHistory \* MAX_HISTORY, 200 in the code

ASSUME MaxHistoryAssumption == MaxHistory \in Nat \ {0}

VARIABLES
  recent,          \* the deque, oldest first
  next_id,         \* next value of _id_counter
  total_overrides, \* _total_overrides
  marked           \* history: every id whose override was accepted

reviewVars == <<recent, next_id, total_overrides, marked>>

Review == [id: Nat \ {0}, overridden: BOOLEAN]

Init ==
  /\ recent = <<>>
  /\ next_id = 1
  /\ total_overrides = 0
  /\ marked = {}

(* Mutant: the deque has no maxlen. *)
PushUnbounded(review) == Append(recent, review)

(* Mutant: the newest review gives way instead of the oldest. *)
PushOverNewest(review) ==
  LET kept == IF Len(recent) = MaxHistory THEN SubSeq(recent, 1, Len(recent) - 1) ELSE recent
  IN  Append(kept, review)

(* The oldest review falls out of a full deque. *)
Push(review) ==
  LET kept == IF Len(recent) = MaxHistory THEN Tail(recent) ELSE recent
  IN  Append(kept, review)

RecordReject ==
  /\ recent' = Push([id |-> next_id, overridden |-> FALSE])
  /\ next_id' = next_id + 1
  /\ UNCHANGED <<total_overrides, marked>>

(* Mutant: a second click counts again. *)
MarkTwice(id) ==
  \E i \in 1..Len(recent) :
    /\ recent[i].id = id
    /\ recent' = [recent EXCEPT ![i].overridden = TRUE]
    /\ total_overrides' = total_overrides + 1
    /\ marked' = marked \union {id}
    /\ UNCHANGED next_id

(* A click on a review that is no longer kept (404) or that is already    *)
(* overridden changes nothing: both are stuttering steps.                 *)
MarkOverridden(id) ==
  \E i \in 1..Len(recent) :
    /\ recent[i].id = id
    /\ ~recent[i].overridden
    /\ recent' = [recent EXCEPT ![i].overridden = TRUE]
    /\ total_overrides' = total_overrides + 1
    /\ marked' = marked \union {id}
    /\ UNCHANGED next_id

(* The process restarts: the queue and its counters live in memory. *)
Restart ==
  /\ recent' = <<>>
  /\ next_id' = 1
  /\ total_overrides' = 0
  /\ marked' = {}

Next ==
  \/ RecordReject
  \/ \E id \in 1..next_id : MarkOverridden(id)
  \/ Restart

Spec == Init /\ [][Next]_reviewVars

-------------------------------------------------------------------------------
(* Kinds of value, and the bound on the deque. *)
TypeOK ==
  /\ recent \in Seq(Review)
  /\ Len(recent) <= MaxHistory
  /\ next_id \in Nat \ {0}
  /\ total_overrides \in Nat
  /\ marked \subseteq 1..(next_id - 1)

(* The queue is the unbroken run of the newest rejects: no reject that was *)
(* recorded after the oldest one kept is missing, none is kept twice, and  *)
(* only a full deque has forgotten any.                                    *)
KeepsNewest ==
  /\ \A i \in 1..Len(recent) : recent[i].id = next_id - 1 - Len(recent) + i
  /\ Len(recent) < MaxHistory => Len(recent) = next_id - 1

(* An operator's override is counted once per rejected part, however often *)
(* the button is clicked and whatever has been evicted since, and a card   *)
(* shows "marked wrong" exactly when its override was counted.             *)
CountedOnce ==
  /\ total_overrides = Cardinality(marked)
  /\ \A i \in 1..Len(recent) : recent[i].overridden <=> recent[i].id \in marked
===============================================================================
