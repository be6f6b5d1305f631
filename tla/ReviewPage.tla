------------------------------ MODULE ReviewPage ------------------------------
(***************************************************************************)
(* The operator's review page (GET /review) and the queue it shows         *)
(* (Reviews): the page loads the list when it opens, every 8 s and after   *)
(* each click.  Several loads and clicks may be under way, the node        *)
(* answers them in any order and their answers arrive in any order, and    *)
(* the node may restart under an open page.                                *)
(***************************************************************************)
EXTENDS Naturals, Sequences, SequencesExt

CONSTANTS
  MaxHistory,
  Loads, Clicks,          \* bounds: requests under way at a time
  MaxRejects, MaxRestarts \* bounds: parts rejected per run of the node, and
                          \* restarts of the node

VARIABLES
  recent, next_id, total_overrides, marked, \* the queue, as in Reviews
  restarts, \* which run of the node this is
  page,     \* the cards shown
  loads,    \* GET /reviews/recent: free, sent, or the list answered
  clicks    \* POST .../override: free, or the card clicked and its fate

queueVars == <<recent, next_id, total_overrides, marked>>
pageVars  == <<page, loads, clicks>>
vars      == <<queueVars, restarts, pageVars>>

R == INSTANCE Reviews

Free == [at |-> "free"]

Init ==
  /\ R!Init
  /\ restarts = 0
  /\ page = <<>>
  /\ loads = [l \in Loads |-> Free]
  /\ clicks = [c \in Clicks |-> Free]

(* Mutant: the flags are those of the list before it is reversed. *)
ListWithSkewedFlags ==
  [i \in 1..Len(recent) |->
    [id |-> recent[Len(recent) + 1 - i].id, overridden |-> recent[i].overridden, run |-> restarts]]

(* Newest first.  run is not sent: it tells apart the parts that had the   *)
(* same id in different runs of the node.                                  *)
ListRecent ==
  Reverse([i \in 1..Len(recent) |->
    [id |-> recent[i].id, overridden |-> recent[i].overridden, run |-> restarts]])

Load(l) ==
  /\ loads[l] = Free
  /\ loads' = [loads EXCEPT ![l] = [at |-> "sent"]]

(* The timer, and the first load of the page. *)
Interval(l) ==
  /\ Load(l)
  /\ UNCHANGED <<queueVars, restarts, page, clicks>>

ServeLoad(l) ==
  /\ loads[l].at = "sent"
  /\ loads' = [loads EXCEPT ![l] = [at |-> "answered", items |-> ListRecent]]
  /\ UNCHANGED <<queueVars, restarts, page, clicks>>

(* Mutant: an empty list leaves the cards. *)
GridIgnoresEmpty(items) == IF items = <<>> THEN page ELSE items

(* The whole grid is replaced, whatever was loaded before. *)
Grid(items) == items

ShowLoad(l) ==
  /\ loads[l].at = "answered"
  /\ page' = Grid(loads[l].items)
  /\ loads' = [loads EXCEPT ![l] = Free]
  /\ UNCHANGED <<queueVars, restarts, clicks>>

(* The button of a card that does not say "marked wrong" yet. *)
Click(c, card) ==
  /\ clicks[c] = Free /\ ~card.overridden
  /\ clicks' = [clicks EXCEPT ![c] = [at |-> "sent", card |-> card]]
  /\ UNCHANGED <<queueVars, restarts, page, loads>>

(* 404 and "already marked" are answers as well. *)
Mark(id) ==
  \/ R!MarkOverridden(id)
  \/ /\ \A i \in 1..Len(recent) : recent[i].id = id => recent[i].overridden
     /\ UNCHANGED queueVars

ServeClick(c) ==
  /\ clicks[c].at = "sent"
  /\ Mark(clicks[c].card.id)
  /\ clicks' = [clicks EXCEPT ![c] = [at |-> "answered"]]
  /\ UNCHANGED <<restarts, page, loads>>

(* Whatever the status, the list is loaded again. *)
AfterClick(c) ==
  /\ clicks[c].at = "answered"
  /\ \E l \in Loads : Load(l)
  /\ clicks' = [clicks EXCEPT ![c] = Free]
  /\ UNCHANGED <<queueVars, restarts, page>>

RecordReject ==
  /\ next_id <= MaxRejects
  /\ R!RecordReject
  /\ UNCHANGED <<restarts, pageVars>>

(* Requests the node had not answered fail, and the page ignores that. *)
NodeRestarts ==
  /\ restarts < MaxRestarts
  /\ R!Restart
  /\ restarts' = restarts + 1
  /\ loads' = [l \in Loads |-> IF loads[l].at = "sent" THEN Free ELSE loads[l]]
  /\ clicks' = [c \in Clicks |-> IF clicks[c].at = "sent" THEN Free ELSE clicks[c]]
  /\ UNCHANGED page

Next ==
  \/ \E l \in Loads : Interval(l) \/ ServeLoad(l) \/ ShowLoad(l)
  \/ \E c \in Clicks : ServeClick(c) \/ AfterClick(c) \/ \E i \in 1..Len(page) : Click(c, page[i])
  \/ RecordReject
  \/ NodeRestarts

(* The timer goes on firing, and the node and the network answer; parts    *)
(* and operators owe nothing.                                              *)
Fairness ==
  \A l \in Loads : WF_vars(Interval(l)) /\ WF_vars(ServeLoad(l)) /\ WF_vars(ShowLoad(l))

Spec == Init /\ [][Next]_vars /\ Fairness

-------------------------------------------------------------------------------
(* A card says "marked wrong" only if the override was counted, however    *)
(* stale the page is.                                                      *)
DoneCardsAreCounted ==
  \A i \in 1..Len(page) :
    page[i].overridden /\ page[i].run = restarts => page[i].id \in marked

(* Once no more parts are rejected and nobody clicks, the page shows the   *)
(* queue, although an old list may arrive after a newer one.               *)
PageCatchesUp == <>[](page = ListRecent)
===============================================================================
