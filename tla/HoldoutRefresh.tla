---------------------------- MODULE HoldoutRefresh ----------------------------
(***************************************************************************)
(* The holdout directory is written by a training run (train_padim.py, for *)
(* the bottle category) while the nodes that mount it go on judging models *)
(* by it (holdout.py).  The run deletes every image and copies the new     *)
(* ones in, one by one; a node lists the directory, reads the files it     *)
(* found in the order of their names, and only then scores them.           *)
(***************************************************************************)
EXTENDS Naturals, FiniteSets

CONSTANTS
  Images,    \* file names, as numbers in their order
  Test,      \* the known-good images of the dataset, and so the holdout set
  CeilingNum, CeilingDen, \* rollback_fp_ceiling, as a quotient
  None

ASSUME HoldoutAssumption ==
  /\ Images \subseteq Nat /\ Test \subseteq Images /\ Test # {} /\ IsFiniteSet(Test)
  /\ CeilingNum \in Nat /\ CeilingDen \in Nat \ {0}
  /\ None \notin {"accepted", "rolled back", "raised"}

VARIABLES
  misjudged, \* the images the staged model scores above the threshold
  dir,       \* each file: absent, partial or whole
  refresh,   \* the training run: idle, clearing, copying or broken off
  copied,    \* the images it has copied
  gate,      \* an activation: idle, listing, reading, done
  left,      \* files listed and not yet read
  read,      \* files read, and whether they were whole
  verdict,   \* accepted, rolled back or raised
  disturbed  \* history: a training run wrote during this evaluation, or
             \* had not finished when it began

dirVars  == <<dir, refresh, copied>>
gateVars == <<gate, left, read, verdict>>
vars     == <<dirVars, gateVars, disturbed, misjudged>>

Init ==
  /\ misjudged \in SUBSET Test
  /\ dir = [f \in Images |-> IF f \in Test THEN "whole" ELSE "absent"]
  /\ refresh = "idle" /\ copied = {}
  /\ gate = "idle" /\ left = {} /\ read = {} /\ verdict = None
  /\ disturbed = FALSE

Present == {f \in Images : dir[f] # "absent"}

-------------------------------------------------------------------------------
(* The training run; every step of it disturbs an evaluation under way. *)

StartRefresh ==
  /\ refresh \in {"idle", "broken off"}
  /\ refresh' = "clearing" /\ copied' = {}
  /\ UNCHANGED <<dir, gateVars, disturbed, misjudged>>

Disturb == disturbed' = (disturbed \/ gate \in {"listing", "reading"}) /\ UNCHANGED <<gateVars, misjudged>>

Unlink(f) ==
  /\ refresh = "clearing" /\ f \in Present
  /\ dir' = [dir EXCEPT ![f] = "absent"]
  /\ UNCHANGED <<refresh, copied>>
  /\ Disturb

Cleared ==
  /\ refresh = "clearing" /\ Present = {}
  /\ refresh' = "copying"
  /\ UNCHANGED <<dir, copied, gateVars, disturbed, misjudged>>

(* shutil.copy: the file is there before its content is. *)
BeginCopy(f) ==
  /\ refresh = "copying" /\ f \in Test \ copied
  /\ \A g \in Images : dir[g] # "partial"
  /\ dir' = [dir EXCEPT ![f] = "partial"]
  /\ copied' = copied \union {f}
  /\ UNCHANGED refresh
  /\ Disturb

(* Mutant: images are copied up to the last but one. *)
EnoughCopied == Cardinality(Test \ copied) <= 1

AllCopied == copied = Test

EndCopy(f) ==
  /\ refresh = "copying" /\ dir[f] = "partial"
  /\ dir' = [dir EXCEPT ![f] = "whole"]
  /\ refresh' = IF AllCopied THEN "idle" ELSE "copying"
  /\ UNCHANGED copied
  /\ Disturb

BreakOff ==
  /\ refresh \in {"clearing", "copying"}
  /\ refresh' = "broken off"
  /\ UNCHANGED <<dir, copied, gateVars, disturbed, misjudged>>

-------------------------------------------------------------------------------
(* POST /model/activate, from the swap on: the staged model is in service. *)

Activate ==
  /\ gate \in {"idle", "done"}
  /\ gate' = "listing" /\ read' = {} /\ left' = {} /\ verdict' = None
  /\ disturbed' = (refresh # "idle")
  /\ UNCHANGED <<dirVars, misjudged>>

Listing ==
  /\ gate = "listing"
  /\ left' = Present
  /\ gate' = "reading"
  /\ UNCHANGED <<dirVars, read, verdict, disturbed, misjudged>>

(* A file that is gone is passed over; one that is half copied is read as  *)
(* it is.  If it goes just after it was looked for, open() raises.         *)
ReadFile(f) ==
  /\ gate = "reading" /\ f \in left /\ \A g \in left : f <= g
  /\ left' = left \ {f}
  /\ read' = IF dir[f] = "absent" THEN read ELSE read \union {<<f, dir[f]>>}
  /\ UNCHANGED <<dirVars, gate, verdict, disturbed, misjudged>>

OpenRaises(f) ==
  /\ gate = "reading" /\ f \in left /\ dir[f] = "absent"
  /\ gate' = "done" /\ verdict' = "raised"
  /\ UNCHANGED <<dirVars, left, read, disturbed, misjudged>>

(* Mutant: at the ceiling is too high already. *)
ExceedsOrMeets(wrong, all) == wrong * CeilingDen >= CeilingNum * all

Exceeds(wrong, all) == wrong * CeilingDen > CeilingNum * all

(* All files are read.  Scoring a partial image raises; without any image  *)
(* there is no rate, and the model stays.                                  *)
Judge ==
  /\ gate = "reading" /\ left = {}
  /\ verdict' =
       IF \E f \in Images : <<f, "partial">> \in read THEN "raised"
       ELSE IF Exceeds(Cardinality({f \in misjudged : <<f, "whole">> \in read}), Cardinality(read))
            THEN "rolled back" ELSE "accepted"
  /\ gate' = "done"
  /\ UNCHANGED <<dirVars, left, read, disturbed, misjudged>>

TrainingStep ==
  \/ StartRefresh \/ Cleared \/ BreakOff
  \/ \E f \in Images : Unlink(f) \/ BeginCopy(f) \/ EndCopy(f)

Evaluate == Listing \/ Judge \/ \E f \in Images : ReadFile(f) \/ OpenRaises(f)

Next == TrainingStep \/ Activate \/ Evaluate

Spec == Init /\ [][Next]_vars

-------------------------------------------------------------------------------
(* Kinds of value; while no training run is at work or has been broken     *)
(* off, the directory is the holdout set.                                  *)
TypeOK ==
  /\ misjudged \subseteq Test
  /\ dir \in [Images -> {"absent", "partial", "whole"}]
  /\ refresh \in {"idle", "clearing", "copying", "broken off"}
  /\ copied \subseteq Test
  /\ gate \in {"idle", "listing", "reading", "done"}
  /\ left \subseteq Images /\ read \subseteq Images \X {"partial", "whole"}
  /\ verdict \in {None, "accepted", "rolled back", "raised"}
  /\ verdict # None <=> gate = "done"
  /\ refresh = "idle" => \A f \in Images : dir[f] = IF f \in Test THEN "whole" ELSE "absent"

TooHigh == Cardinality(misjudged) * CeilingDen > CeilingNum * Cardinality(Test)

(* F8, on the directory's part: an evaluation that no training run wrote   *)
(* into judges the model by exactly the holdout set, however many training *)
(* runs were broken off and done again before.                             *)
QuietVerdictIsRight ==
  gate = "done" /\ ~disturbed => verdict = IF TooHigh THEN "rolled back" ELSE "accepted"
===============================================================================
