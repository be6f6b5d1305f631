------------------------------ MODULE ModelStore ------------------------------
(***************************************************************************)
(* The three model slots of an edge node (model_store.py): the model that  *)
(* takes inspections, the one it replaced, and the one waiting to be       *)
(* activated.  The slots are a value; EdgeNode keeps one in a variable and *)
(* applies these operators inside its handlers.  A model is its version    *)
(* label: the optional artifact path of a ModelRecord is never read.       *)
(***************************************************************************)
CONSTANTS
  Versions, \* version labels of models
  None      \* an empty slot

ASSUME NoneAssumption == None \notin Versions

Stores ==
  [active: Versions, previous: Versions \union {None}, staged: Versions \union {None}]

NewStore(v) == [active |-> v, previous |-> None, staged |-> None]

Stage(s, v) == [s EXCEPT !.staged = v]

(* Mutant: the staged slot is cleared before it is read. *)
ActivateCleared(s) == [active |-> None, previous |-> s.active, staged |-> None]

(* Called with a staged model only; the code raises ValueError otherwise. *)
ActivateStaged(s) == [active |-> s.staged, previous |-> s.active, staged |-> None]

(* Called with a previous model only; the code raises ValueError otherwise. *)
Rollback(s) == [s EXCEPT !.active = s.previous, !.previous = s.active]
===============================================================================
