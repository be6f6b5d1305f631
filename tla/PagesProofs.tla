------------------------------ MODULE PagesProofs ------------------------------
(***************************************************************************)
(* The two pages a node serves to people.                                  *)
(*                                                                         *)
(* The review page, for any queue, any number of overlapping loads and     *)
(* clicks and any number of restarts: wherever a card is, on the page, in  *)
(* an answer on its way or under a click, it is truthful.  It comes from   *)
(* this run of the node or an earlier one, and if from this one, it stands *)
(* for a part that was rejected, and says "marked wrong" only if that was  *)
(* counted.  Time cannot make such a card wrong: ids and marks only grow   *)
(* within a run, and a restart turns every card into an old one.           *)
(*                                                                         *)
(* The demo page, for any images and number of picks: all requests but the *)
(* current one are over or aborted.                                        *)
(***************************************************************************)
EXTENDS MCReviews, DemoPage, TLAPS

RP == INSTANCE ReviewsProofs

Truthful(card, run, next, counted) ==
  /\ card.run \in Nat /\ card.run <= run
  /\ card.run = run => card.id \in 1..(next - 1) /\ (card.overridden => card.id \in counted)

AllTruthful(list, run, next, counted) ==
  \A i \in 1..Len(list) : Truthful(list[i], run, next, counted)

PageInv ==
  /\ restarts \in Nat
  /\ loads = [l \in Loads |-> loads[l]] /\ clicks = [c \in Clicks |-> clicks[c]]
  /\ AllTruthful(page, restarts, next_id, marked)
  /\ \A l \in Loads : loads[l].at = "answered" => AllTruthful(loads[l].items, restarts, next_id, marked)
  /\ \A c \in Clicks : clicks[c].at = "sent" => Truthful(clicks[c].card, restarts, next_id, marked)

QueueInv == TypeOK /\ KeepsNewest /\ CountedOnce

-------------------------------------------------------------------------------
(* What was true of a card stays true of it while the node runs. *)
LEMMA StaysTruthful ==
  ASSUME NEW card, NEW run, NEW next \in Nat, NEW later \in Nat, next <= later,
         NEW counted, NEW marks, counted \subseteq marks, Truthful(card, run, next, counted)
  PROVE  Truthful(card, run, later, marks)
  BY DEF Truthful

LEMMA OldCardsAreTruthful ==
  ASSUME NEW card, NEW run \in Nat, NEW next, NEW counted, Truthful(card, run, next, counted),
         NEW later, NEW marks
  PROVE  Truthful(card, run + 1, later, marks)
  BY DEF Truthful

(* A list the node answers shows the queue, the newest part first. *)
LEMMA ListShape ==
  ASSUME TypeOK
  PROVE  /\ Len(P!ListRecent) = Len(recent)
         /\ \A i \in 1..Len(recent) :
              P!ListRecent[i] = [id |-> recent[Len(recent) + 1 - i].id,
                                 overridden |-> recent[Len(recent) + 1 - i].overridden,
                                 run |-> restarts]
  <1> DEFINE n == Len(recent)
             rows == [i \in 1..n |-> [id |-> recent[i].id, overridden |-> recent[i].overridden, run |-> restarts]]
  <1>1. n \in Nat
    BY DEF TypeOK
  <1> HIDE DEF n
  <1>2. Len(rows) = n /\ \A i \in 1..n : rows[i] = [id |-> recent[i].id, overridden |-> recent[i].overridden, run |-> restarts]
    BY <1>1
  <1>3. P!ListRecent = [i \in 1..Len(rows) |-> rows[(Len(rows) - i) + 1]]
    BY DEF P!ListRecent, P!Reverse, n
  <1> HIDE DEF rows
  <1>4. Len(P!ListRecent) = n /\ \A i \in 1..n : P!ListRecent[i] = rows[(n - i) + 1]
    BY <1>1, <1>2, <1>3
  <1>5. \A i \in 1..n : (n - i) + 1 \in 1..n /\ (n - i) + 1 = n + 1 - i
    BY <1>1
  <1> QED BY <1>2, <1>4, <1>5 DEF n

LEMMA ListTruthful ==
  ASSUME QueueInv, restarts \in Nat
  PROVE  AllTruthful(P!ListRecent, restarts, next_id, marked)
  <1> SUFFICES ASSUME NEW i \in 1..Len(P!ListRecent)
               PROVE  Truthful(P!ListRecent[i], restarts, next_id, marked)
    BY DEF AllTruthful
  <1> DEFINE k == Len(recent) + 1 - i
  <1>1. k \in 1..Len(recent) /\ i \in 1..Len(recent) /\ Len(recent) \in Nat
    BY ListShape DEF QueueInv, TypeOK
  <1>2. recent[k].id \in 1..(next_id - 1)
    <2>1. recent[k] \in Review
      BY <1>1 DEF QueueInv, TypeOK
    <2>2. recent[k].id = next_id - 1 - Len(recent) + k /\ recent[k].id \in Nat \ {0} /\ next_id \in Nat
      BY <1>1, <2>1 DEF QueueInv, KeepsNewest, TypeOK, Review
    <2> HIDE DEF k
    <2> QED BY <1>1, <2>2
  <1>3. recent[k].overridden => recent[k].id \in marked
    BY <1>1 DEF QueueInv, CountedOnce
  <1>4. P!ListRecent[i] = [id |-> recent[k].id, overridden |-> recent[k].overridden, run |-> restarts]
    BY <1>1, ListShape DEF QueueInv
  <1> HIDE DEF k
  <1> QED BY <1>2, <1>3, <1>4 DEF Truthful

(* What the page makes of the queue are calls of its own operations. *)
LEMMA QueueSteps ==
  ASSUME QueueInv, [P!Next]_(P!vars)
  PROVE  [Next]_reviewVars
  <1>1. ASSUME NEW id, MarkOverridden(id) PROVE Next
    <2>1. PICK i \in 1..Len(recent) : recent[i].id = id
      BY <1>1 DEF MarkOverridden
    <2>2. recent[i] \in Review /\ Len(recent) \in Nat /\ next_id \in Nat \ {0}
      BY DEF QueueInv, TypeOK
    <2>3. recent[i].id = next_id - 1 - Len(recent) + i /\ recent[i].id \in Nat \ {0}
      BY <2>2 DEF QueueInv, KeepsNewest, Review
    <2>4. id \in 1..next_id
      BY <2>1, <2>2, <2>3
    <2> QED BY <1>1, <2>4 DEF Next
  <1>2. CASE \E l \in Loads : P!Interval(l) \/ P!ServeLoad(l) \/ P!ShowLoad(l)
    BY <1>2 DEF P!Interval, P!ServeLoad, P!ShowLoad, P!queueVars, reviewVars
  <1>3. ASSUME NEW c \in Clicks, P!ServeClick(c) PROVE [Next]_reviewVars
    <2>1. MarkOverridden(clicks[c].card.id) \/ UNCHANGED reviewVars
      BY <1>3 DEF P!ServeClick, P!Mark, P!R!MarkOverridden, MarkOverridden, P!queueVars, reviewVars
    <2> QED BY <1>1, <2>1
  <1>4. ASSUME NEW c \in Clicks, P!AfterClick(c) \/ \E i \in 1..Len(page) : P!Click(c, page[i])
        PROVE  [Next]_reviewVars
    BY <1>4 DEF P!AfterClick, P!Click, P!queueVars, reviewVars
  <1>5. CASE P!RecordReject
    BY <1>5 DEF P!RecordReject, P!R!RecordReject, P!R!Push, RecordReject, Push, Next
  <1>6. CASE P!NodeRestarts
    BY <1>6 DEF P!NodeRestarts, P!R!Restart, Restart, Next
  <1>7. CASE UNCHANGED P!vars
    BY <1>7 DEF P!vars, P!queueVars, reviewVars
  <1> QED BY <1>2, <1>3, <1>4, <1>5, <1>6, <1>7 DEF P!Next

LEMMA SameQueueInv == QueueInv <=> RP!IInv
  BY DEF QueueInv, RP!IInv, RP!TypeOK, RP!KeepsNewest, RP!CountedOnce, TypeOK, KeepsNewest, CountedOnce,
         RP!Review, Review, RP!Cardinality, Cardinality

LEMMA QueueInvKept ==
  ASSUME QueueInv, [Next]_reviewVars
  PROVE  QueueInv'
  <1>1. RP!IInv
    BY SameQueueInv
  <1>2. CASE RecordReject
    <2>1. RP!RecordReject
      BY <1>2 DEF RecordReject, RP!RecordReject, Push, RP!Push
    <2>2. RP!IInv'
      BY <1>1, <2>1, RP!RejectInv, MaxHistoryAssumption
    <2> QED BY <2>2, SameQueueInv, PTL
  <1>3. ASSUME NEW id, MarkOverridden(id) PROVE QueueInv'
    <2>1. RP!MarkOverridden(id)
      BY <1>3 DEF MarkOverridden, RP!MarkOverridden
    <2>2. RP!IInv'
      BY <1>1, <2>1, RP!OverrideInv, MaxHistoryAssumption
    <2> QED BY <2>2, SameQueueInv, PTL
  <1>4. CASE Restart
    <2>1. RP!Restart
      BY <1>4 DEF Restart, RP!Restart
    <2>2. RP!IInv'
      BY <2>1, RP!RestartInv, MaxHistoryAssumption
    <2> QED BY <2>2, SameQueueInv, PTL
  <1>5. CASE UNCHANGED reviewVars
    BY <1>5 DEF reviewVars, QueueInv, TypeOK, KeepsNewest, CountedOnce
  <1> QED BY <1>2, <1>3, <1>4, <1>5 DEF Next

(* Within a run of the node nothing makes a truthful card false: parts are *)
(* only added, and marks only taken.                                       *)
LEMMA QueueGrows ==
  ASSUME QueueInv, RecordReject \/ (\E id : MarkOverridden(id)) \/ UNCHANGED reviewVars
  PROVE  next_id \in Nat /\ next_id' \in Nat /\ next_id <= next_id' /\ marked \subseteq marked'
  BY DEF QueueInv, TypeOK, RecordReject, MarkOverridden, reviewVars

LEMMA ListStaysTruthful ==
  ASSUME NEW list, QueueInv,
         RecordReject \/ (\E id : MarkOverridden(id)) \/ UNCHANGED reviewVars,
         AllTruthful(list, restarts, next_id, marked)
  PROVE  AllTruthful(list, restarts, next_id', marked')
  BY QueueGrows, StaysTruthful DEF AllTruthful

LEMMA CardStaysTruthful ==
  ASSUME NEW card, QueueInv,
         RecordReject \/ (\E id : MarkOverridden(id)) \/ UNCHANGED reviewVars,
         Truthful(card, restarts, next_id, marked)
  PROVE  Truthful(card, restarts, next_id', marked')
  BY QueueGrows, StaysTruthful

-------------------------------------------------------------------------------
(* The queue moves on within a run: every card stays truthful where it is. *)
LEMMA PageInvWhileRunning ==
  ASSUME PageInv, QueueInv,
         RecordReject \/ (\E id : MarkOverridden(id)) \/ UNCHANGED reviewVars
  PROVE  /\ AllTruthful(page, restarts, next_id', marked')
         /\ \A l \in Loads : loads[l].at = "answered" => AllTruthful(loads[l].items, restarts, next_id', marked')
         /\ \A c \in Clicks : clicks[c].at = "sent" => Truthful(clicks[c].card, restarts, next_id', marked')
  <1>1. AllTruthful(page, restarts, next_id', marked')
    BY ListStaysTruthful DEF PageInv
  <1>2. ASSUME NEW l \in Loads, loads[l].at = "answered"
        PROVE  AllTruthful(loads[l].items, restarts, next_id', marked')
    BY <1>2, ListStaysTruthful DEF PageInv
  <1>3. ASSUME NEW c \in Clicks, clicks[c].at = "sent"
        PROVE  Truthful(clicks[c].card, restarts, next_id', marked')
    BY <1>3, CardStaysTruthful DEF PageInv
  <1> QED BY <1>1, <1>2, <1>3

LEMMA LoadInv ==
  ASSUME PageInv, QueueInv, NEW l \in Loads, P!Interval(l) \/ P!ServeLoad(l) \/ P!ShowLoad(l)
  PROVE  PageInv'
  <1>1. UNCHANGED <<next_id, marked, restarts, clicks>>
    BY DEF P!Interval, P!ServeLoad, P!ShowLoad, P!queueVars
  <1>2. CASE P!Interval(l)
    <2>1. loads' = [loads EXCEPT ![l] = [at |-> "sent"]] /\ page' = page
      BY <1>2 DEF P!Interval, P!Load
    <2> QED BY <1>1, <2>1 DEF PageInv
  <1>3. CASE P!ServeLoad(l)
    <2> DEFINE answer == [at |-> "answered", items |-> P!ListRecent]
    <2>1. loads' = [loads EXCEPT ![l] = answer] /\ page' = page
      BY <1>3 DEF P!ServeLoad
    <2>2. AllTruthful(answer.items, restarts, next_id, marked)
      BY ListTruthful DEF PageInv
    <2> HIDE DEF answer
    <2>3. \A k \in Loads : loads'[k] = IF k = l THEN answer ELSE loads[k]
      BY <2>1 DEF PageInv
    <2>4. loads' = [k \in Loads |-> loads'[k]]
      BY <2>1 DEF PageInv
    <2> QED BY <1>1, <2>1, <2>2, <2>3, <2>4 DEF PageInv
  <1>4. CASE P!ShowLoad(l)
    <2>1. page' = loads[l].items /\ loads[l].at = "answered" /\ loads' = [loads EXCEPT ![l] = [at |-> "free"]]
      BY <1>4 DEF P!ShowLoad, P!Grid, P!Free
    <2>2. AllTruthful(page', restarts, next_id, marked)
      BY <2>1 DEF PageInv
    <2> QED BY <1>1, <2>1, <2>2 DEF PageInv
  <1> QED BY <1>2, <1>3, <1>4

LEMMA ClickInv ==
  ASSUME PageInv, QueueInv, NEW c \in Clicks,
         P!ServeClick(c) \/ P!AfterClick(c) \/ \E i \in 1..Len(page) : P!Click(c, page[i])
  PROVE  PageInv'
  <1>1. CASE P!ServeClick(c)
    <2>1. /\ clicks' = [clicks EXCEPT ![c] = [at |-> "answered"]]
          /\ UNCHANGED <<restarts, page, loads>>
      BY <1>1 DEF P!ServeClick
    <2>2. (\E id : MarkOverridden(id)) \/ UNCHANGED reviewVars
      BY <1>1 DEF P!ServeClick, P!Mark, P!R!MarkOverridden, MarkOverridden, P!queueVars, reviewVars
    <2> QED BY <2>1, <2>2, PageInvWhileRunning DEF PageInv
  <1>2. CASE P!AfterClick(c)
    <2>1. PICK l \in Loads : loads' = [loads EXCEPT ![l] = [at |-> "sent"]]
      BY <1>2 DEF P!AfterClick, P!Load
    <2>2. clicks' = [clicks EXCEPT ![c] = [at |-> "free"]] /\ UNCHANGED <<next_id, marked, restarts, page>>
      BY <1>2 DEF P!AfterClick, P!Free, P!queueVars
    <2> QED BY <2>1, <2>2 DEF PageInv
  <1>3. ASSUME NEW i \in 1..Len(page), P!Click(c, page[i]) PROVE PageInv'
    <2> DEFINE click == [at |-> "sent", card |-> page[i]]
    <2>1. clicks' = [clicks EXCEPT ![c] = click] /\ UNCHANGED <<next_id, marked, restarts, page, loads>>
      BY <1>3 DEF P!Click, P!queueVars
    <2>2. Truthful(click.card, restarts, next_id, marked)
      BY DEF PageInv, AllTruthful
    <2> HIDE DEF click
    <2>3. \A d \in Clicks : clicks'[d] = IF d = c THEN click ELSE clicks[d]
      BY <2>1 DEF PageInv
    <2>4. clicks' = [d \in Clicks |-> clicks'[d]]
      BY <2>1 DEF PageInv
    <2> QED BY <2>1, <2>2, <2>3, <2>4 DEF PageInv
  <1> QED BY <1>1, <1>2, <1>3

LEMMA RejectKeepsPage ==
  ASSUME PageInv, QueueInv, P!RecordReject
  PROVE  PageInv'
  <1>1. RecordReject
    BY DEF P!RecordReject, P!R!RecordReject, P!R!Push, RecordReject, Push
  <1>2. UNCHANGED <<restarts, page, loads, clicks>>
    BY DEF P!RecordReject, P!pageVars
  <1> QED BY <1>1, <1>2, PageInvWhileRunning DEF PageInv

(* A restart turns the cards on the page into cards of an earlier run. *)
LEMMA RestartKeepsPage ==
  ASSUME PageInv, P!NodeRestarts
  PROVE  PageInv'
  <1>1. /\ page' = page /\ restarts' = restarts + 1 /\ restarts \in Nat
        /\ loads' = [l \in Loads |-> IF loads[l].at = "sent" THEN P!Free ELSE loads[l]]
        /\ clicks' = [c \in Clicks |-> IF clicks[c].at = "sent" THEN P!Free ELSE clicks[c]]
    BY DEF P!NodeRestarts, PageInv
  <1>2. ASSUME NEW list, AllTruthful(list, restarts, next_id, marked)
        PROVE  AllTruthful(list, restarts', next_id', marked')
    BY <1>1, <1>2, OldCardsAreTruthful DEF AllTruthful
  <1>3. AllTruthful(page', restarts', next_id', marked')
    BY <1>1, <1>2 DEF PageInv
  <1>4. ASSUME NEW l \in Loads, loads'[l].at = "answered"
        PROVE  AllTruthful(loads'[l].items, restarts', next_id', marked')
    <2>1. loads'[l] = loads[l]
      BY <1>1, <1>4 DEF P!Free
    <2> QED BY <1>2, <1>4, <2>1 DEF PageInv
  <1>5. ASSUME NEW c \in Clicks PROVE clicks'[c].at # "sent"
    BY <1>1 DEF P!Free
  <1>6. restarts' \in Nat /\ loads' = [l \in Loads |-> loads'[l]] /\ clicks' = [c \in Clicks |-> clicks'[c]]
    BY <1>1
  <1> QED BY <1>3, <1>4, <1>5, <1>6 DEF PageInv

(* The queue behind the page keeps its promises, and every card there is,  *)
(* wherever it is, is truthful.                                            *)
THEOREM ReviewPageInvariant == MCSpec => [](QueueInv /\ PageInv)
  <1>1. P!Init => QueueInv /\ PageInv
    <2> SUFFICES ASSUME P!Init PROVE QueueInv /\ PageInv
      OBVIOUS
    <2>1. Init
      BY DEF P!Init, P!R!Init, Init
    <2>2. RP!IInv
      BY <2>1, RP!InitInv, MaxHistoryAssumption DEF Init, RP!Init
    <2>3. PageInv
      BY DEF P!Init, P!Free, PageInv, AllTruthful
    <2> QED BY <2>2, <2>3, SameQueueInv
  <1>2. ASSUME QueueInv, PageInv, [P!Next]_(P!vars) PROVE QueueInv' /\ PageInv'
    <2>1. QueueInv'
      BY <1>2, QueueSteps, QueueInvKept
    <2>2. ASSUME NEW l \in Loads, P!Interval(l) \/ P!ServeLoad(l) \/ P!ShowLoad(l) PROVE PageInv'
      BY <1>2, <2>2, LoadInv
    <2>3. ASSUME NEW c \in Clicks,
                 P!ServeClick(c) \/ P!AfterClick(c) \/ \E i \in 1..Len(page) : P!Click(c, page[i])
          PROVE  PageInv'
      BY <1>2, <2>3, ClickInv
    <2>4. ASSUME P!RecordReject PROVE PageInv'
      BY <1>2, <2>4, RejectKeepsPage
    <2>5. ASSUME P!NodeRestarts PROVE PageInv'
      BY <1>2, <2>5, RestartKeepsPage
    <2>6. ASSUME UNCHANGED P!vars PROVE PageInv'
      BY <1>2, <2>6 DEF P!vars, P!queueVars, P!pageVars, PageInv
    <2>7. PageInv'
      BY <1>2, <2>2, <2>3, <2>4, <2>5, <2>6 DEF P!Next
    <2> QED BY <2>1, <2>7
  <1> QED BY <1>1, <1>2, PTL DEF MCSpec, P!Spec

(* A card says "marked wrong" only if the override was counted. *)
THEOREM DoneCardsCorrect == MCSpec => []DoneCardsAreCounted
  <1>1. PageInv => DoneCardsAreCounted
    BY DEF PageInv, AllTruthful, Truthful, DoneCardsAreCounted, P!DoneCardsAreCounted
  <1> QED BY <1>1, ReviewPageInvariant, PTL

(* The page can do nothing to the queue but what Reviews allows. *)
THEOREM PageUsesTheQueue == MCSpec => Spec
  <1>1. P!Init => Init
    BY DEF P!Init, P!R!Init, Init
  <1> QED BY <1>1, QueueSteps, ReviewPageInvariant, PTL DEF MCSpec, P!Spec, Spec

(* A click of this run, however late it arrives, names a part that was     *)
(* rejected in it: it never marks a part that does not exist yet.          *)
ClicksNameParts ==
  \A c \in Clicks :
    clicks[c].at = "sent" /\ clicks[c].card.run = restarts => clicks[c].card.id \in 1..(next_id - 1)

(* Every click the node has yet to serve is of a part it knows. *)
THEOREM ClicksNameTheirPart == MCSpec => []ClicksNameParts
  <1>1. PageInv => ClicksNameParts
    BY DEF PageInv, Truthful, ClicksNameParts
  <1> QED BY <1>1, ReviewPageInvariant, PTL

-------------------------------------------------------------------------------
Request == [file: Files \union {None}, at: {"new", "fetching", "reading", "over"}, aborted: BOOLEAN]

Running(r) == r.at \in {"fetching", "reading"} /\ ~r.aborted

(* Only the request the page waits for can still show anything: every      *)
(* other one was aborted, is over, or was never made.                      *)
OnlyNewestRuns == \A i \in 1..MaxPicks : Running(requests[i]) => i = current

DemoInv ==
  /\ requests \in [1..MaxPicks -> Request] /\ current \in 0..MaxPicks /\ spinner \in BOOLEAN
  /\ OnlyNewestRuns
  /\ current # 0 => Running(requests[current]) /\ requests[current].file = preview
  /\ ShowsTheNewest

LEMMA PickInv ==
  ASSUME DemoInv, NEW i \in 1..MaxPicks, NEW f \in Files, Pick(i, f)
  PROVE  DemoInv'
  <1> DEFINE new == [file |-> f, at |-> "fetching", aborted |-> FALSE]
             others == Supersede(current)
  <1>1. new \in Request /\ Running(new) /\ new.file = f
    BY DEF Request, Running
  <1>2. others \in [1..MaxPicks -> Request] /\ \A j \in 1..MaxPicks : ~Running(others[j])
    <2>1. CASE current = 0
      BY <2>1, DemoPageAssumption DEF DemoInv, OnlyNewestRuns, Supersede
    <2>2. CASE current # 0
      <3> DEFINE old == [requests[current] EXCEPT !.aborted = TRUE]
      <3>1. current \in 1..MaxPicks /\ requests[current] \in Request
        BY <2>2, DemoPageAssumption DEF DemoInv
      <3>2. old \in Request /\ ~Running(old)
        BY <3>1 DEF Request, Running
      <3>3. others = [requests EXCEPT ![current] = old]
        BY <2>2 DEF Supersede
      <3> HIDE DEF old, others
      <3> QED BY <3>1, <3>2, <3>3 DEF DemoInv, OnlyNewestRuns
    <2> QED BY <2>1, <2>2
  <1>3. requests' = [others EXCEPT ![i] = new] /\ current' = i /\ preview' = f /\ result' = None /\ spinner' = TRUE
    BY DEF Pick
  <1> HIDE DEF new, others
  <1>4. /\ requests' \in [1..MaxPicks -> Request] /\ requests'[i] = new
        /\ \A j \in 1..MaxPicks : j # i => requests'[j] = others[j]
    BY <1>1, <1>2, <1>3
  <1>5. OnlyNewestRuns'
    BY <1>2, <1>3, <1>4 DEF OnlyNewestRuns
  <1>6. ShowsTheNewest'
    BY <1>3, DemoPageAssumption DEF ShowsTheNewest
  <1> QED BY <1>1, <1>3, <1>4, <1>5, <1>6, DemoPageAssumption DEF DemoInv

(* A request other than the current one can only be aborted; the current   *)
(* one shows its result next to its own image.                             *)
LEMMA SettleInv ==
  ASSUME DemoInv, NEW i \in 1..MaxPicks, Settle(i)
  PROVE  DemoInv'
  <1> DEFINE done == [requests[i] EXCEPT !.at = "over"]
  <1>1. requests[i] \in Request
    BY DEF DemoInv
  <1>2. done \in Request /\ ~Running(done)
    BY <1>1 DEF Request, Running
  <1>3. requests' = [requests EXCEPT ![i] = done] /\ preview' = preview
    BY DEF Settle, BodyRead, Fails, AbortError, End
  <1> HIDE DEF done
  <1>4. /\ requests' \in [1..MaxPicks -> Request] /\ ~Running(requests'[i])
        /\ \A j \in 1..MaxPicks : j # i => requests'[j] = requests[j]
    BY <1>2, <1>3 DEF DemoInv
  <1>5. CASE ~requests[i].aborted
    <2>1. Running(requests[i]) /\ result' # None => result'.of = requests[i].file
      BY <1>5 DEF Settle, BodyRead, Fails, AbortError, Running, Show
    <2>2. Running(requests[i])
      BY <1>5 DEF Settle, BodyRead, Fails, AbortError, Running
    <2>3. i = current /\ i # 0 /\ requests[i].file = preview
      BY <2>2, DemoPageAssumption DEF DemoInv, OnlyNewestRuns
    <2>4. spinner' = FALSE /\ current' = 0
      BY <1>5, <2>3 DEF Settle, BodyRead, Fails, AbortError, Finally
    <2>5. OnlyNewestRuns'
      BY <1>4, <2>3 DEF DemoInv, OnlyNewestRuns
    <2>6. ShowsTheNewest'
      BY <1>3, <2>1, <2>2, <2>3, <2>4 DEF ShowsTheNewest
    <2>7. current' \in 0..MaxPicks
      BY <2>4, DemoPageAssumption
    <2>8. spinner' \in BOOLEAN
      BY <2>4
    <2> QED BY <1>4, <2>4, <2>5, <2>6, <2>7, <2>8 DEF DemoInv
  <1>6. CASE requests[i].aborted
    <2>1. AbortError(i)
      BY <1>6 DEF Settle, BodyRead, Fails
    <2>2. i # current
      BY <1>6, DemoPageAssumption DEF DemoInv, Running
    <2>3. UNCHANGED <<spinner, current, result>>
      BY <2>1, <2>2 DEF AbortError, Finally
    <2>4. OnlyNewestRuns'
      BY <1>4, <2>2, <2>3 DEF DemoInv, OnlyNewestRuns
    <2>5. ShowsTheNewest'
      BY <1>3, <2>3 DEF DemoInv, ShowsTheNewest
    <2>6. current # 0 => current \in 1..MaxPicks
      BY DemoPageAssumption DEF DemoInv
    <2>7. current # 0 => requests'[current] = requests[current]
      BY <1>4, <2>2, <2>6
    <2>8. current' # 0 => Running(requests'[current']) /\ requests'[current'].file = preview'
      BY <1>3, <2>3, <2>7 DEF DemoInv
    <2>9. requests' \in [1..MaxPicks -> Request] /\ current' \in 0..MaxPicks /\ spinner' \in BOOLEAN
      BY <1>4, <2>3 DEF DemoInv
    <2> QED BY <2>4, <2>5, <2>8, <2>9 DEF DemoInv
  <1> QED BY <1>5, <1>6

LEMMA RespondsInv ==
  ASSUME DemoInv, NEW i \in 1..MaxPicks, Responds(i)
  PROVE  DemoInv'
  <1> DEFINE reading == [requests[i] EXCEPT !.at = "reading"]
  <1>1. requests[i] \in Request /\ Running(requests[i])
    BY DEF DemoInv, Responds, Running
  <1>2. reading \in Request /\ Running(reading) /\ reading.file = requests[i].file
    BY <1>1 DEF Request, Running
  <1>3. requests' = [requests EXCEPT ![i] = reading] /\ UNCHANGED <<preview, result, spinner, current>>
    BY DEF Responds
  <1> HIDE DEF reading
  <1>4. /\ requests' \in [1..MaxPicks -> Request] /\ requests'[i] = reading
        /\ \A j \in 1..MaxPicks : j # i => requests'[j] = requests[j]
    BY <1>2, <1>3 DEF DemoInv
  <1>5. i = current /\ i # 0
    BY <1>1, DemoPageAssumption DEF DemoInv, OnlyNewestRuns
  <1>6. OnlyNewestRuns'
    BY <1>3, <1>4, <1>5 DEF DemoInv, OnlyNewestRuns
  <1>7. ShowsTheNewest'
    BY <1>3 DEF DemoInv, ShowsTheNewest
  <1> QED BY <1>2, <1>3, <1>4, <1>5, <1>6, <1>7 DEF DemoInv

(* In every behaviour of the demo page: what is shown belongs together,    *)
(* and all requests but the current one are over or aborted.               *)
THEOREM DemoPageInvariant == DemoSpec => []DemoInv
  <1>1. DemoInit => DemoInv
    <2> SUFFICES ASSUME DemoInit PROVE DemoInv
      OBVIOUS
    <2>1. NewRequest \in Request /\ ~Running(NewRequest)
      BY DEF NewRequest, Request, Running
    <2>2. requests = [i \in 1..MaxPicks |-> NewRequest] /\ current = 0 /\ spinner = FALSE /\ result = None
      BY DEF DemoInit
    <2>3. OnlyNewestRuns /\ ShowsTheNewest
      BY <2>1, <2>2 DEF OnlyNewestRuns, ShowsTheNewest
    <2>4. requests \in [1..MaxPicks -> Request] /\ current \in 0..MaxPicks
      BY <2>1, <2>2, DemoPageAssumption
    <2>5. spinner \in BOOLEAN
      BY <2>2
    <2> QED BY <2>2, <2>3, <2>4, <2>5 DEF DemoInv
  <1>2. ASSUME DemoInv, [DemoNext]_pageVars PROVE DemoInv'
    <2>1. ASSUME NEW i \in 1..MaxPicks, NEW f \in Files, Pick(i, f) PROVE DemoInv'
      BY <1>2, <2>1, PickInv
    <2>2. ASSUME NEW i \in 1..MaxPicks, Responds(i) PROVE DemoInv'
      BY <1>2, <2>2, RespondsInv
    <2>3. ASSUME NEW i \in 1..MaxPicks, Settle(i) PROVE DemoInv'
      BY <1>2, <2>3, SettleInv
    <2>4. ASSUME Again PROVE DemoInv'
      <3>1. current = 0 /\ current' = 0 /\ UNCHANGED <<spinner, requests>> /\ result' = None
        BY <1>2, <2>4 DEF Again, DemoInv, ShowsTheNewest
      <3> QED BY <1>2, <3>1 DEF DemoInv, OnlyNewestRuns, ShowsTheNewest
    <2>5. ASSUME UNCHANGED pageVars PROVE DemoInv'
      BY <1>2, <2>5 DEF pageVars, DemoInv, OnlyNewestRuns, ShowsTheNewest
    <2> QED BY <1>2, <2>1, <2>2, <2>3, <2>4, <2>5 DEF DemoNext
  <1> QED BY <1>1, <1>2, PTL DEF DemoSpec

(* A verdict shown is that of the image shown, and the spinner turns       *)
(* exactly while that image is being inspected.                            *)
THEOREM NewestShown == DemoSpec => []ShowsTheNewest
  BY DemoPageInvariant, PTL DEF DemoInv

(* An answer to a superseded request can no longer reach the page.         *)
THEOREM NewestRunsAlone == DemoSpec => []OnlyNewestRuns
  BY DemoPageInvariant, PTL DEF DemoInv
===============================================================================
