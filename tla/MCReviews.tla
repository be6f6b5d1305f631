------------------------------ MODULE MCReviews ------------------------------
(***************************************************************************)
(* The review queue behind the page that operators use it from: what       *)
(* Reviews says of the queue holds whatever the page makes of it.          *)
(***************************************************************************)
EXTENDS Reviews

CONSTANTS Loads, Clicks, MaxRejects, MaxRestarts

VARIABLES restarts, page, loads, clicks

P == INSTANCE ReviewPage

MCSpec == P!Spec

(* A card says "marked wrong" only if the override was counted.            *)
DoneCardsAreCounted == P!DoneCardsAreCounted

(* Once nothing moves any more, the page shows the queue.                  *)
PageCatchesUp == P!PageCatchesUp
===============================================================================
