------------------------------ MODULE ModelFiles ------------------------------
(***************************************************************************)
(* The model files of an edge node and what becomes of them in memory:     *)
(* a signed bundle is verified and written (bundle.py), a training run may *)
(* write into the same directory (train_padim.py), and each process of the *)
(* node loads a version once and keeps the session (inference.py).         *)
(*                                                                         *)
(* A version is two files, written one after the other and read one after  *)
(* the other, by processes that share no lock.  The event loop (Main) does *)
(* one thing at a time, workers and the training run go on meanwhile.      *)
(* EdgeNode takes for granted that a version label names one model.  Here  *)
(* its files may be written again at any time, by another bundle or by     *)
(* training over the same label; this module says what still holds.        *)
(***************************************************************************)
EXTENDS Naturals, FiniteSets

CONSTANTS
  Labels,    \* version labels
  Builds,    \* outputs of training runs: a model and its calibration
  Workers, Main,
  Initial,   \* the label the node starts with
  Legacy,    \* model.onnx and calibration.json, the single-model layout
  Shipped,   \* the build in each label's files at the start, or Missing
  Missing, Torn, None,
  Packed,    \* <<label, model, calibration>> that make_bundle.py signed
  Named,     \* labels operators pass to POST /model
  Trainings  \* <<label, build>> that training runs produce in place

Processes == Workers \union {Main}
Places == Labels \union {Legacy}
File == Builds \union {Missing, Torn}

ASSUME ModelFilesAssumption ==
  /\ Initial \in Labels /\ Main \notin Workers /\ Legacy \notin Labels
  /\ None \notin Labels \union Builds \union {Legacy}
  /\ None \notin [model : Builds, calibration : Builds] \union (Labels \X Builds \X Builds)
  /\ Missing \notin Builds /\ Torn \notin Builds \union {Missing}
  /\ Shipped \in [Places -> Builds \union {Missing}]
  /\ Packed \subseteq Labels \X Builds \X Builds
  /\ Named \subseteq Labels /\ Trainings \subseteq Labels \X Builds

VARIABLES
  disk,                     \* the two files of each place
  writing,                  \* the bundle handler's and the training run's
                            \* writes under way, and the steps done of each
  active, previous, staged, \* labels, as in ModelStore
  main,                     \* what the event loop is busy with
  loading,                  \* each process's session being created
  sessions,                 \* each process's sessions
  judged,                   \* history: <<label, session>> the gate accepted in
                            \* this run of the node; <<label, None>> where it had
                            \* no verdict, as for the label the node starts with
  rewritten,                \* history: labels written, in this run of the node,
                            \* while a process had or was creating a session
  tangled                   \* history: labels last written by two at once, or by
                            \* a write that was broken off

storeVars   == <<active, previous, staged, judged>>
processVars == <<loading, sessions>>
writeVars   == <<rewritten, tangled>>
vars        == <<disk, writing, storeVars, main, processVars, writeVars>>

Session(m, c) == [model |-> m, calibration |-> c]

NoLoad == [label |-> None, from |-> None, model |-> None]
LoadOf(l) == [NoLoad EXCEPT !.label = l]

NoWrite == [label |-> None, model |-> None, calibration |-> None, done |-> 0]
WriteOf(l, m, c) == [label |-> l, model |-> m, calibration |-> c, done |-> 0]

Init ==
  /\ disk = [l \in Places |-> Session(Shipped[l], Shipped[l])]
  /\ writing = [w \in {"bundle", "training"} |-> NoWrite]
  /\ active = Initial /\ previous = None /\ staged = None
  /\ main = "idle"
  /\ loading = [p \in Processes |-> NoLoad]
  /\ sessions = [p \in Processes |-> [l \in Labels |-> None]]
  /\ judged = {<<Initial, None>>}
  /\ rewritten = {} /\ tangled = {}

Idle == main = "idle"

-------------------------------------------------------------------------------
(* Writing. *)

(* A bundle as it arrives: a signature is what it was computed over, or    *)
(* None for one that does not verify under the shared secret, and a hash   *)
(* is what it was computed of.                                             *)
Bundles ==
  [manifest : Labels \X Builds \X Builds, signature : Packed \union {None},
   model : Builds, calibration : Builds]

(* Mutant: the calibration's hash is not compared. *)
ModelHashOnly(b) ==
  /\ b.signature = b.manifest
  /\ b.model = b.manifest[2]

(* The signature covers the label; both files are compared. *)
Verified(b) ==
  /\ b.signature = b.manifest
  /\ b.model = b.manifest[2]
  /\ b.calibration = b.manifest[3]

BeginsBeside(other, l) ==
  tangled' = IF writing[other].label = l THEN tangled \union {l} ELSE tangled \ {l}

BreaksOff(w) == tangled' = tangled \union ({writing[w].label} \ {None})

(* POST /model/bundle; one that does not verify changes nothing. *)
ReceiveBundle(b) ==
  /\ Idle /\ Verified(b)
  /\ main' = "bundle"
  /\ writing' = [writing EXCEPT !.bundle = WriteOf(b.manifest[1], b.model, b.calibration)]
  /\ BeginsBeside("training", b.manifest[1])
  /\ UNCHANGED <<disk, storeVars, processVars, rewritten>>

Train(l, b) ==
  /\ writing.training = NoWrite
  /\ writing' = [writing EXCEPT !.training = WriteOf(l, b, b)]
  /\ BeginsBeside("bundle", l)
  /\ UNCHANGED <<disk, storeVars, main, processVars, rewritten>>

(* Mutant: a calibration that is already there is kept. *)
AfterStepKeeps(files, j) ==
  CASE j.done = 0 -> [files EXCEPT !.model = Torn]
    [] j.done = 1 -> [files EXCEPT !.model = j.model]
    [] j.done = 2 -> files
    [] j.done = 3 -> IF files.calibration = Missing
                       THEN [files EXCEPT !.calibration = j.calibration] ELSE files

(* Each file is truncated when it is opened, and whole when it is closed:  *)
(* the model first, then the calibration.                                  *)
AfterStep(files, j) ==
  CASE j.done = 0 -> [files EXCEPT !.model = Torn]
    [] j.done = 1 -> [files EXCEPT !.model = j.model]
    [] j.done = 2 -> [files EXCEPT !.calibration = Torn]
    [] j.done = 3 -> [files EXCEPT !.calibration = j.calibration]

(* A process has a session of the label, or has chosen the files for one.  *)
InUse(l) ==
  \E p \in Processes :
    sessions[p][l] # None \/ (loading[p].label = l /\ loading[p].from # None)

WriteStep(w) ==
  /\ writing[w] # NoWrite
  /\ disk' = [disk EXCEPT ![writing[w].label] = AfterStep(@, writing[w])]
  /\ IF writing[w].done < 3
       THEN /\ writing' = [writing EXCEPT ![w].done = @ + 1]
            /\ UNCHANGED <<staged, main>>
       ELSE /\ writing' = [writing EXCEPT ![w] = NoWrite]
            /\ staged' = IF w = "bundle" THEN writing[w].label ELSE staged
            /\ main' = IF w = "bundle" THEN "idle" ELSE main
  /\ rewritten' = IF InUse(writing[w].label) THEN rewritten \union {writing[w].label} ELSE rewritten
  /\ UNCHANGED <<active, previous, judged, processVars, tangled>>

TrainingStops ==
  /\ writing.training # NoWrite
  /\ writing' = [writing EXCEPT !.training = NoWrite]
  /\ BreaksOff("training")
  /\ UNCHANGED <<disk, storeVars, main, processVars, rewritten>>

-------------------------------------------------------------------------------
(* Loading: the paths are chosen, the model is read, the calibration is    *)
(* read; a file that is not whole raises, and nothing is kept.             *)

Home(l) == IF disk[l].model = Missing THEN Legacy ELSE l

Find(p) ==
  /\ loading[p].label # None /\ loading[p].from = None
  /\ loading' = [loading EXCEPT ![p].from = Home(loading[p].label)]
  /\ UNCHANGED <<disk, writing, storeVars, main, sessions, writeVars>>

(* Mutant: the error is swallowed, and the handler waits for a session. *)
RaiseUnseen(p) == loading' = [loading EXCEPT ![p] = NoLoad] /\ UNCHANGED <<main, judged>>

(* An activation that raises leaves the model it swapped in. *)
Raise(p) ==
  /\ loading' = [loading EXCEPT ![p] = NoLoad]
  /\ main' = IF p = Main THEN "idle" ELSE main
  /\ judged' = IF p = Main /\ main = "trial" THEN judged \union {<<active, None>>} ELSE judged

ReadModel(p) ==
  /\ loading[p].from # None /\ loading[p].model = None
  /\ LET m == disk[loading[p].from].model
     IN  IF m \in Builds
           THEN loading' = [loading EXCEPT ![p].model = m] /\ UNCHANGED <<main, judged>>
           ELSE Raise(p)
  /\ UNCHANGED <<disk, writing, active, previous, staged, sessions, writeVars>>

(* Mutant: the calibration is that of the version active at the moment. *)
CalibrationOfActive(p) == disk[active].calibration

CalibrationFound(p) == disk[loading[p].from].calibration

ReadCalibration(p) ==
  /\ loading[p].model # None
  /\ LET c == CalibrationFound(p)
     IN  IF c \in Builds
           THEN /\ sessions' = [sessions EXCEPT ![p][loading[p].label] = Session(loading[p].model, c)]
                /\ loading' = [loading EXCEPT ![p] = NoLoad]
                /\ main' = IF p = Main /\ main = "health" THEN "idle" ELSE main
                /\ UNCHANGED judged
           ELSE Raise(p) /\ UNCHANGED sessions
  /\ UNCHANGED <<disk, writing, active, previous, staged, writeVars>>

(* An inspection is handed to a worker that has no session for its label.  *)
Submit(w) ==
  /\ Idle /\ loading[w] = NoLoad /\ sessions[w][active] = None
  /\ loading' = [loading EXCEPT ![w] = LoadOf(active)]
  /\ UNCHANGED <<disk, writing, storeVars, main, sessions, writeVars>>

(* GET /health and its like, and an inspection in inline mode, score with  *)
(* the active model on the event loop.  With a session they change nothing.*)
Health ==
  /\ Idle /\ sessions[Main][active] = None
  /\ main' = "health"
  /\ loading' = [loading EXCEPT ![Main] = LoadOf(active)]
  /\ UNCHANGED <<disk, writing, storeVars, sessions, writeVars>>

-------------------------------------------------------------------------------
(* The slots. *)

(* POST /model looks at no file. *)
NameModel(l) ==
  /\ Idle
  /\ staged' = l
  /\ UNCHANGED <<disk, writing, active, previous, judged, main, processVars, writeVars>>

(* POST /model/activate: the swap comes first, then the evaluation. *)
Activate ==
  /\ Idle /\ staged # None
  /\ active' = staged /\ previous' = active /\ staged' = None
  /\ main' = "trial"
  /\ UNCHANGED <<disk, writing, judged, processVars, writeVars>>

(* The first holdout image is scored, and the model has to be loaded.      *)
TrialLoads ==
  /\ main = "trial" /\ loading[Main] = NoLoad /\ sessions[Main][active] = None
  /\ loading' = [loading EXCEPT ![Main] = LoadOf(active)]
  /\ UNCHANGED <<disk, writing, storeVars, main, sessions, writeVars>>

(* There is no holdout image, so that the model is accepted without being  *)
(* loaded; or the evaluation raises over the images, before the load or    *)
(* after it.  Either way the model stays.                                  *)
NoVerdict ==
  /\ main = "trial" /\ loading[Main] = NoLoad
  /\ main' = "idle"
  /\ judged' = judged \union {<<active, None>>}
  /\ UNCHANGED <<disk, writing, active, previous, staged, processVars, writeVars>>

Accept == judged' = judged \union {<<active, sessions[Main][active]>>} /\ UNCHANGED <<active, previous>>

(* Mutant: a rejected model stays where it is. *)
RejectKeeps == UNCHANGED <<active, previous, judged>>

Reject == active' = previous /\ previous' = active /\ UNCHANGED judged

(* The images are scored with the session this process has. *)
Judge ==
  /\ main = "trial" /\ loading[Main] = NoLoad /\ sessions[Main][active] # None
  /\ Accept \/ Reject
  /\ main' = "idle"
  /\ UNCHANGED <<disk, writing, staged, processVars, writeVars>>

(* The node's processes die, at any point, and start again. *)
Restart ==
  /\ writing' = [writing EXCEPT !.bundle = NoWrite]
  /\ active' = Initial /\ previous' = None /\ staged' = None
  /\ main' = "idle"
  /\ loading' = [p \in Processes |-> NoLoad]
  /\ sessions' = [p \in Processes |-> [l \in Labels |-> None]]
  /\ judged' = {<<Initial, None>>} /\ rewritten' = {}
  /\ BreaksOff("bundle")
  /\ UNCHANGED disk

Next ==
  \/ \E b \in Bundles : ReceiveBundle(b)
  \/ \E t \in Trainings : Train(t[1], t[2])
  \/ \E w \in DOMAIN writing : WriteStep(w)
  \/ \E p \in Processes : Find(p) \/ ReadModel(p) \/ ReadCalibration(p)
  \/ \E w \in Workers : Submit(w)
  \/ \E l \in Named : NameModel(l)
  \/ TrainingStops \/ Health \/ Activate \/ TrialLoads \/ NoVerdict \/ Judge \/ Restart

Spec == Init /\ [][Next]_vars

-------------------------------------------------------------------------------
Sessions == [model : Builds, calibration : Builds]
Loads ==
  [label : Labels \union {None}, from : Places \union {None}, model : Builds \union {None}]
Writes ==
  [label : Labels \union {None}, model : Builds \union {None},
   calibration : Builds \union {None}, done : 0..3]

(* Kinds of value, and who the event loop is busy for. *)
TypeOK ==
  /\ disk \in [Places -> [model : File, calibration : File]]
  /\ writing \in [{"bundle", "training"} -> Writes]
  /\ active \in Labels
  /\ previous \in Labels \union {None} /\ staged \in Labels \union {None}
  /\ main \in {"idle", "bundle", "health", "trial"}
  /\ loading \in [Processes -> Loads]
  /\ sessions \in [Processes -> [Labels -> Sessions \union {None}]]
  /\ writing.bundle # NoWrite <=> main = "bundle"
  /\ loading[Main].label # None => main \in {"health", "trial"}
  /\ main = "trial" => previous # None
  /\ main = "health" => loading[Main].label # None
  /\ judged \subseteq Labels \X (Sessions \union {None})
  /\ rewritten \subseteq Labels /\ tangled \subseteq Labels

(* A cached session is what its label's files are, in every process, as    *)
(* long as nobody wrote them after a process had begun to load them: the   *)
(* gate, in the main process, judges the very model the workers serve.     *)
SessionsCurrent ==
  \A p \in Processes, l \in Labels \ rewritten :
    sessions[p][l] # None => sessions[p][l] = disk[Home(l)]

BeingWritten == {writing[w].label : w \in DOMAIN writing}

(* "Calibration stats saved at training time, next to the model": only a   *)
(* load that overlaps a write, or finds the remains of two writes at once  *)
(* or of one broken off, pairs a model with the calibration of another.  A *)
(* later write of both files, by itself, makes the label good again.       *)
PairsMatch ==
  \A p \in Processes, l \in Labels \ (rewritten \union tangled \union BeingWritten) :
    sessions[p][l] # None => sessions[p][l].model = sessions[p][l].calibration

(* A process serves a label with its session: the workers any label they   *)
(* have been given work for, the event loop, in inline mode, the active    *)
(* one between two handlers.                                               *)
Serves(p, l) == sessions[p][l] # None /\ (p \in Workers \/ (Idle /\ l = active))

Gated(l, s) == judged \intersect {<<l, s>>, <<l, None>>} # {}

(* "A bundle landing on disk is not the same as it being live": what is    *)
(* served under a label, the one the node starts with apart, the gate      *)
(* accepted in this run of the node or had no verdict on.                  *)
LandingIsNotLive ==
  \A p \in Processes, l \in Labels : Serves(p, l) => Gated(l, sessions[p][l])

(* The same for labels whose files stay as they were first loaded.         *)
ServedWasGated ==
  \A p \in Processes, l \in Labels \ rewritten : Serves(p, l) => Gated(l, sessions[p][l])

(* "A corrupted or unsigned bundle must never reach the model directory":  *)
(* what is in a label's files was delivered, trained in place, or signed   *)
(* for that file of that label.                                            *)
OnlyVerified ==
  \A l \in Labels :
    LET Good(k) == {Shipped[l], Torn} \union {t[k] : t \in {u \in Packed : u[1] = l}}
                   \union {t[2] : t \in {u \in Trainings : u[1] = l}}
    IN  disk[l].model \in Good(2) /\ disk[l].calibration \in Good(3)
===============================================================================
