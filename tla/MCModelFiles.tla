----------------------------- MODULE MCModelFiles -----------------------------
(***************************************************************************)
(* Small model directories for TLC: the label the node is delivered with   *)
(* and a newer one, for which there are two builds.                        *)
(***************************************************************************)
EXTENDS ModelFiles, TLC

CONSTANTS v1, v2, b1, b2, b3, legacy, w1

(* The node comes with v1's files, and a model in the single-model layout  *)
(* that stands in for v2 until v2's own files arrive.                      *)
ShippedAndLegacy == (v1 :> b1) @@ (v2 :> Missing) @@ (legacy :> b3)

(* The node comes with files of its own for both labels.                   *)
ShippedBoth == (v1 :> b1) @@ (v2 :> b1) @@ (legacy :> Missing)

(* v2 is signed from one build and trained from another, over the same     *)
(* label, in either order, at the same time and again.                     *)
PackedOnce   == {<<v2, b1, b1>>}
TrainedAgain == {<<v2, b2>>}

(* A bundle of another build for a label that is there already.            *)
PackedAnew == {<<v2, b2, b2>>}
===============================================================================
