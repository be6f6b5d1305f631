--------------------------- MODULE ModelFilesProofs ---------------------------
(***************************************************************************)
(* What holds of the model files for any labels, builds, workers and       *)
(* bundles, however often a label is written.  FilesInv adds to the type   *)
(* invariant how far a load is, that a trial loads the active label, and   *)
(* that the writes under way are those of a signed bundle and of a         *)
(* training run.                                                           *)
(***************************************************************************)
EXTENDS ModelFiles, TLAPS

LoadsInOrder ==
  /\ \A p \in Processes :
       /\ loading[p].model # None => loading[p].from # None
       /\ loading[p].from # None => loading[p].label # None
       /\ loading[p].label = None => loading[p] = NoLoad
  /\ main = "trial" /\ loading[Main].label # None => loading[Main].label = active

WritesAllowed ==
  LET b == writing.bundle
      t == writing.training
  IN  /\ b # NoWrite => <<b.label, b.model, b.calibration>> \in Packed
      /\ t # NoWrite => t.model = t.calibration /\ <<t.label, t.model>> \in Trainings

FilesInv == TypeOK /\ LoadsInOrder /\ WritesAllowed /\ OnlyVerified

-------------------------------------------------------------------------------
LEMMA NoWriteType == NoWrite \in Writes /\ NoWrite.label = None
  BY DEF NoWrite, Writes

LEMMA NoLoadType == NoLoad \in Loads /\ NoLoad.label = None /\ NoLoad.from = None /\ NoLoad.model = None
  BY DEF NoLoad, Loads

LEMMA WriteOfType ==
  ASSUME NEW l \in Labels, NEW m \in Builds, NEW c \in Builds
  PROVE  /\ WriteOf(l, m, c) \in Writes /\ WriteOf(l, m, c) # NoWrite
         /\ WriteOf(l, m, c).label = l /\ WriteOf(l, m, c).model = m /\ WriteOf(l, m, c).calibration = c
  BY ModelFilesAssumption DEF WriteOf, Writes, NoWrite

LEMMA LoadOfType ==
  ASSUME NEW l \in Labels
  PROVE  /\ LoadOf(l) \in Loads /\ LoadOf(l) # NoLoad
         /\ LoadOf(l).label = l /\ LoadOf(l).from = None /\ LoadOf(l).model = None
  BY ModelFilesAssumption DEF LoadOf, Loads, NoLoad

LEMMA SessionType ==
  ASSUME NEW m \in Builds, NEW c \in Builds
  PROVE  Session(m, c) \in Sessions /\ Session(m, c) # None
  BY ModelFilesAssumption DEF Session, Sessions

LEMMA StartsWell == ASSUME Init PROVE FilesInv
  <1>1. disk \in [Places -> [model : File, calibration : File]]
    BY ModelFilesAssumption DEF Init, Session, File
  <1>2. writing \in [{"bundle", "training"} -> Writes]
        /\ writing.bundle = NoWrite /\ writing.training = NoWrite
    BY NoWriteType DEF Init
  <1>3. Main \in Processes /\ loading \in [Processes -> Loads] /\ \A p \in Processes : loading[p] = NoLoad
    BY NoLoadType DEF Init, Processes
  <1>4. judged \subseteq Labels \X {None} /\ rewritten = {} /\ tangled = {}
    BY ModelFilesAssumption DEF Init
  <1>5. TypeOK
    BY <1>1, <1>2, <1>3, <1>4, NoLoadType, ModelFilesAssumption DEF Init, TypeOK
  <1>6. LoadsInOrder
    BY <1>3, NoLoadType DEF Init, LoadsInOrder
  <1>7. WritesAllowed
    BY <1>2 DEF WritesAllowed
  <1>8. OnlyVerified
    BY ModelFilesAssumption DEF Init, OnlyVerified, Session, Places
  <1> QED BY <1>5, <1>6, <1>7, <1>8 DEF FilesInv

-------------------------------------------------------------------------------
LEMMA TangledType ==
  ASSUME FilesInv, NEW w \in {"bundle", "training"}, NEW l \in Labels, BeginsBeside(w, l) \/ BreaksOff(w)
  PROVE  tangled' \subseteq Labels
  <1>1. writing[w].label \in Labels \union {None} /\ tangled \subseteq Labels
    BY DEF FilesInv, TypeOK, Writes
  <1> QED BY <1>1 DEF BeginsBeside, BreaksOff

LEMMA ReceiveStep ==
  ASSUME FilesInv, NEW b \in Bundles, ReceiveBundle(b)
  PROVE  FilesInv'
  <1> DEFINE w == WriteOf(b.manifest[1], b.model, b.calibration)
  <1>1. b.manifest \in Labels \X Builds \X Builds /\ b.manifest \in Packed
    BY ModelFilesAssumption DEF Bundles, ReceiveBundle, Verified
  <1>2. /\ b.model = b.manifest[2] /\ b.calibration = b.manifest[3]
        /\ b.manifest[1] \in Labels /\ b.model \in Builds /\ b.calibration \in Builds
    BY <1>1 DEF ReceiveBundle, Verified
  <1>3. /\ w \in Writes /\ w # NoWrite
        /\ <<w.label, w.model, w.calibration>> \in Packed
    BY <1>1, <1>2, WriteOfType
  <1>4. writing' = [writing EXCEPT !.bundle = w] /\ main' = "bundle" /\ main = "idle"
        /\ UNCHANGED <<disk, storeVars, processVars, rewritten>> /\ tangled' \subseteq Labels
    BY <1>2, TangledType DEF ReceiveBundle, Idle
  <1> HIDE DEF w
  <1>5. /\ writing' \in [{"bundle", "training"} -> Writes]
        /\ writing'.bundle = w /\ writing'.training = writing.training
    BY <1>3, <1>4 DEF FilesInv, TypeOK
  <1>6. TypeOK'
    BY <1>3, <1>4, <1>5 DEF FilesInv, TypeOK, storeVars, processVars
  <1>7. LoadsInOrder' /\ OnlyVerified'
    BY <1>4 DEF FilesInv, LoadsInOrder, OnlyVerified, storeVars, processVars
  <1>8. WritesAllowed'
    BY <1>3, <1>5 DEF FilesInv, WritesAllowed
  <1> QED BY <1>6, <1>7, <1>8 DEF FilesInv

LEMMA TrainStep ==
  ASSUME FilesInv, NEW t \in Trainings, Train(t[1], t[2])
  PROVE  FilesInv'
  <1> DEFINE w == WriteOf(t[1], t[2], t[2])
  <1>1. t[1] \in Labels /\ t[2] \in Builds /\ t = <<t[1], t[2]>>
    BY ModelFilesAssumption
  <1>2. /\ w \in Writes /\ w # NoWrite
        /\ w.model = w.calibration /\ <<w.label, w.model>> \in Trainings
    BY <1>1, WriteOfType
  <1>3. writing' = [writing EXCEPT !.training = w] /\ tangled' \subseteq Labels
        /\ UNCHANGED <<disk, storeVars, main, processVars, rewritten>>
    BY <1>1, TangledType DEF Train
  <1> HIDE DEF w
  <1>4. /\ writing' \in [{"bundle", "training"} -> Writes]
        /\ writing'.training = w /\ writing'.bundle = writing.bundle
    BY <1>2, <1>3 DEF FilesInv, TypeOK
  <1>5. TypeOK'
    BY <1>3, <1>4 DEF FilesInv, TypeOK, storeVars, processVars
  <1>6. LoadsInOrder' /\ OnlyVerified'
    BY <1>3 DEF FilesInv, LoadsInOrder, OnlyVerified, storeVars, processVars
  <1>7. WritesAllowed'
    BY <1>2, <1>4 DEF FilesInv, WritesAllowed
  <1> QED BY <1>5, <1>6, <1>7 DEF FilesInv

(* The place written to belongs to the write, and so does what comes there.*)
LEMMA WriteTarget ==
  ASSUME FilesInv, NEW w \in {"bundle", "training"}, writing[w] # NoWrite
  PROVE  /\ writing[w].label \in Labels /\ writing[w].model \in Builds /\ writing[w].calibration \in Builds
         /\ writing[w].done \in 0..3
         /\ w = "bundle" => <<writing[w].label, writing[w].model, writing[w].calibration>> \in Packed
         /\ w = "training" => /\ writing[w].model = writing[w].calibration
                              /\ <<writing[w].label, writing[w].model>> \in Trainings
  <1>1. writing[w] \in Writes
    BY DEF FilesInv, TypeOK
  <1>2. \/ <<writing[w].label, writing[w].model, writing[w].calibration>> \in Packed /\ w = "bundle"
        \/ /\ w = "training" /\ writing[w].model = writing[w].calibration
           /\ <<writing[w].label, writing[w].model>> \in Trainings
    BY DEF FilesInv, WritesAllowed
  <1> QED BY <1>1, <1>2, ModelFilesAssumption DEF Writes

LEMMA FilesAfterStep ==
  ASSUME FilesInv, NEW w \in {"bundle", "training"}, writing[w] # NoWrite
  PROVE  LET f == disk[writing[w].label]
             g == AfterStep(f, writing[w])
         IN  /\ g \in [model : File, calibration : File]
             /\ g.model \in {f.model, Torn, writing[w].model}
             /\ g.calibration \in {f.calibration, Torn, writing[w].calibration}
  <1> DEFINE j == writing[w]
             f == disk[j.label]
  <1>1. j.label \in Labels /\ j.model \in Builds /\ j.calibration \in Builds /\ j.done \in 0..3
    BY WriteTarget
  <1>2. f \in [model : File, calibration : File]
    BY <1>1 DEF FilesInv, TypeOK, Places
  <1>3. j.model \in File /\ j.calibration \in File /\ Torn \in File
    BY <1>1 DEF File
  <1>4. j.done = 0 \/ j.done = 1 \/ j.done = 2 \/ j.done = 3
    BY <1>1
  <1> HIDE DEF j, f
  <1>5. LET g == AfterStep(f, j)
        IN  /\ g \in [model : File, calibration : File]
            /\ g.model \in {f.model, Torn, j.model}
            /\ g.calibration \in {f.calibration, Torn, j.calibration}
    <2>1. CASE j.done = 0 BY <1>2, <1>3, <2>1 DEF AfterStep
    <2>2. CASE j.done = 1 BY <1>2, <1>3, <2>2 DEF AfterStep
    <2>3. CASE j.done = 2 BY <1>2, <1>3, <2>3 DEF AfterStep
    <2>4. CASE j.done = 3 BY <1>2, <1>3, <2>4 DEF AfterStep
    <2> QED BY <1>4, <2>1, <2>2, <2>3, <2>4
  <1> QED BY <1>5 DEF j, f

LEMMA WriteStepStep ==
  ASSUME FilesInv, NEW w \in {"bundle", "training"}, WriteStep(w)
  PROVE  FilesInv'
  <1> DEFINE l == writing[w].label
             g == AfterStep(disk[l], writing[w])
             j == [writing[w] EXCEPT !.done = @ + 1]
  <1>1. writing[w] # NoWrite /\ writing[w] \in Writes
    BY DEF WriteStep, FilesInv, TypeOK
  <1>2. l \in Labels /\ writing[w].model \in Builds /\ writing[w].calibration \in Builds
        /\ writing[w].done \in 0..3
    BY <1>1, WriteTarget
  <1>3. /\ g \in [model : File, calibration : File]
        /\ g.model \in {disk[l].model, Torn, writing[w].model}
        /\ g.calibration \in {disk[l].calibration, Torn, writing[w].calibration}
    BY <1>1, FilesAfterStep
  <1>4. disk' = [disk EXCEPT ![l] = g] /\ UNCHANGED <<active, previous, judged, processVars, tangled>>
        /\ rewritten' \subseteq Labels
    BY <1>2 DEF WriteStep, FilesInv, TypeOK
  <1> HIDE DEF g
  <1>5. disk' \in [Places -> [model : File, calibration : File]] /\ disk'[l] = g
        /\ \A k \in Places : k # l => disk'[k] = disk[k]
    BY <1>2, <1>3, <1>4 DEF FilesInv, TypeOK, Places
  <1>6. OnlyVerified'
    <2> DEFINE GoodM(k) == {Shipped[k], Torn} \union {t[2] : t \in {u \in Packed : u[1] = k}}
                           \union {t[2] : t \in {u \in Trainings : u[1] = k}}
               GoodC(k) == {Shipped[k], Torn} \union {t[3] : t \in {u \in Packed : u[1] = k}}
                           \union {t[2] : t \in {u \in Trainings : u[1] = k}}
    <2>1. \A k \in Labels : disk[k].model \in GoodM(k) /\ disk[k].calibration \in GoodC(k)
      BY DEF FilesInv, OnlyVerified
    <2>2. writing[w].model \in GoodM(l) /\ writing[w].calibration \in GoodC(l)
      BY <1>1, WriteTarget
    <2>3. Torn \in GoodM(l) /\ Torn \in GoodC(l)
      OBVIOUS
    <2> HIDE DEF GoodM, GoodC
    <2>4. disk'[l].model \in GoodM(l) /\ disk'[l].calibration \in GoodC(l)
      BY <1>2, <1>3, <1>5, <2>1, <2>2, <2>3
    <2>5. \A k \in Labels : disk'[k].model \in GoodM(k) /\ disk'[k].calibration \in GoodC(k)
      BY <1>5, <2>1, <2>4 DEF Places
    <2> QED BY <2>5 DEF OnlyVerified, GoodM, GoodC
  <1>7. CASE writing[w].done < 3
    <2>1. j \in Writes /\ j # NoWrite /\ j.label = l
          /\ j.model = writing[w].model /\ j.calibration = writing[w].calibration
      BY <1>1, <1>2, <1>7, ModelFilesAssumption DEF Writes, NoWrite
    <2>2. writing' = [writing EXCEPT ![w] = j] /\ UNCHANGED <<staged, main>>
      BY <1>7 DEF WriteStep
    <2> HIDE DEF j
    <2>3. writing' \in [{"bundle", "training"} -> Writes] /\ writing'[w] = j
          /\ \A v \in {"bundle", "training"} : v # w => writing'[v] = writing[v]
      BY <2>1, <2>2 DEF FilesInv, TypeOK
    <2>4. TypeOK'
      BY <1>1, <1>4, <1>5, <2>1, <2>2, <2>3 DEF FilesInv, TypeOK, processVars
    <2>5. LoadsInOrder'
      BY <1>4, <2>2 DEF FilesInv, LoadsInOrder, processVars
    <2>6. WritesAllowed'
      BY <1>1, <2>1, <2>3, WriteTarget DEF FilesInv, WritesAllowed
    <2> QED BY <1>6, <2>4, <2>5, <2>6 DEF FilesInv
  <1>8. CASE ~(writing[w].done < 3)
    <2>1. /\ writing' = [writing EXCEPT ![w] = NoWrite]
          /\ staged' = IF w = "bundle" THEN l ELSE staged
          /\ main' = IF w = "bundle" THEN "idle" ELSE main
      BY <1>8 DEF WriteStep
    <2>2. writing' \in [{"bundle", "training"} -> Writes] /\ writing'[w] = NoWrite
          /\ \A v \in {"bundle", "training"} : v # w => writing'[v] = writing[v]
      BY <2>1, NoWriteType DEF FilesInv, TypeOK
    <2>3. main = "bundle" \/ w = "training"
      BY <1>1 DEF FilesInv, TypeOK
    <2>4. staged' \in Labels \union {None}
      BY <1>2, <2>1 DEF FilesInv, TypeOK
    <2>5. TypeOK'
      BY <1>4, <1>5, <2>1, <2>2, <2>3, <2>4 DEF FilesInv, TypeOK, processVars
    <2>6. LoadsInOrder'
      BY <1>4, <2>1 DEF FilesInv, LoadsInOrder, processVars
    <2>7. WritesAllowed'
      BY <2>2 DEF FilesInv, WritesAllowed
    <2> QED BY <1>6, <2>5, <2>6, <2>7 DEF FilesInv
  <1> QED BY <1>7, <1>8

LEMMA StopStep ==
  ASSUME FilesInv, TrainingStops
  PROVE  FilesInv'
  <1>1. writing' \in [{"bundle", "training"} -> Writes]
        /\ writing'.training = NoWrite /\ writing'.bundle = writing.bundle
    BY NoWriteType DEF TrainingStops, FilesInv, TypeOK
  <1>2. TypeOK'
    <2>1. Labels # {} /\ tangled' \subseteq Labels
      BY TangledType, ModelFilesAssumption DEF TrainingStops
    <2> QED BY <1>1, <2>1 DEF TrainingStops, FilesInv, TypeOK, storeVars, processVars
  <1> QED BY <1>1, <1>2 DEF TrainingStops, FilesInv, LoadsInOrder, WritesAllowed, OnlyVerified, storeVars, processVars

-------------------------------------------------------------------------------
(* Steps that leave the disk and the writes alone.                         *)

LEMMA DiskKept ==
  ASSUME FilesInv, UNCHANGED <<disk, writing>>, TypeOK', LoadsInOrder'
  PROVE  FilesInv'
  BY DEF FilesInv, WritesAllowed, OnlyVerified

(* The load of a process changes to x and nothing else does.               *)
LEMMA LoadChange ==
  ASSUME FilesInv, NEW p \in Processes, NEW x \in Loads,
         loading' = [loading EXCEPT ![p] = x],
         UNCHANGED <<disk, writing, storeVars, main, sessions, writeVars>>,
         x.label # None /\ x # NoLoad,
         x.model # None => x.from # None,
         p = Main => main \in {"health", "trial"} /\ (main = "trial" => x.label = active)
  PROVE  FilesInv'
  <1>1. Main \in Processes
    BY DEF Processes
  <1>2. loading' \in [Processes -> Loads] /\ loading'[p] = x
        /\ \A q \in Processes : q # p => loading'[q] = loading[q]
    BY DEF FilesInv, TypeOK
  <1>3. TypeOK'
    BY <1>1, <1>2 DEF FilesInv, TypeOK, storeVars, writeVars
  <1>4. LoadsInOrder'
    BY <1>1, <1>2 DEF FilesInv, LoadsInOrder, storeVars
  <1> QED BY <1>3, <1>4, DiskKept

LEMMA FindStep ==
  ASSUME FilesInv, NEW p \in Processes, Find(p)
  PROVE  FilesInv'
  <1> DEFINE x == [loading[p] EXCEPT !.from = Home(loading[p].label)]
  <1>1. loading[p] \in Loads /\ loading[p].label # None /\ loading[p].label \in Labels /\ loading[p].from = None
    BY DEF Find, FilesInv, TypeOK, Loads
  <1>2. x \in Loads /\ x.label = loading[p].label /\ x.label # None /\ x.from # None
    BY <1>1, ModelFilesAssumption DEF Loads, Places, Home
  <1>3. x # NoLoad
    BY <1>2, NoLoadType
  <1>4. loading' = [loading EXCEPT ![p] = x] /\ UNCHANGED <<disk, writing, storeVars, main, sessions, writeVars>>
    BY DEF Find
  <1>5. p = Main => main \in {"health", "trial"} /\ (main = "trial" => x.label = active)
    BY <1>1, <1>2 DEF FilesInv, TypeOK, LoadsInOrder
  <1> HIDE DEF x
  <1> QED BY <1>2, <1>3, <1>4, <1>5, LoadChange

(* A load that raises; on the event loop, so does what it was for.         *)
LEMMA RaiseStep ==
  ASSUME FilesInv, NEW p \in Processes, loading[p].label # None, Raise(p),
         UNCHANGED <<disk, writing, active, previous, staged, sessions, writeVars>>
  PROVE  FilesInv'
  <1>1. Main \in Processes
    BY DEF Processes
  <1>2. loading' \in [Processes -> Loads] /\ loading'[p] = NoLoad
        /\ \A q \in Processes : q # p => loading'[q] = loading[q]
    BY NoLoadType DEF Raise, FilesInv, TypeOK
  <1>3. p = Main => main \in {"health", "trial"}
    BY DEF FilesInv, TypeOK
  <1>4. judged' \subseteq Labels \X (Sessions \union {None})
    BY DEF Raise, FilesInv, TypeOK
  <1>5. TypeOK'
    BY <1>1, <1>2, <1>3, <1>4, NoLoadType DEF Raise, FilesInv, TypeOK, writeVars
  <1>6. LoadsInOrder'
    BY <1>1, <1>2, NoLoadType DEF Raise, FilesInv, LoadsInOrder
  <1> QED BY <1>5, <1>6, DiskKept

LEMMA ReadModelStep ==
  ASSUME FilesInv, NEW p \in Processes, ReadModel(p)
  PROVE  FilesInv'
  <1> DEFINE m == disk[loading[p].from].model
             x == [loading[p] EXCEPT !.model = m]
  <1>1. loading[p] \in Loads /\ loading[p].from # None /\ loading[p].label # None
    BY DEF ReadModel, FilesInv, TypeOK, LoadsInOrder
  <1>2. CASE m \in Builds
    <2>1. x \in Loads /\ x.label = loading[p].label /\ x.from = loading[p].from
      BY <1>1, <1>2 DEF Loads
    <2>2. x # NoLoad
      BY <1>1, <2>1, NoLoadType
    <2>3. loading' = [loading EXCEPT ![p] = x] /\ UNCHANGED <<disk, writing, storeVars, main, sessions, writeVars>>
      BY <1>2 DEF ReadModel, storeVars
    <2>4. p = Main => main \in {"health", "trial"} /\ (main = "trial" => x.label = active)
      BY <1>1, <2>1 DEF FilesInv, TypeOK, LoadsInOrder
    <2> HIDE DEF x
    <2> QED BY <1>1, <2>1, <2>2, <2>3, <2>4, LoadChange
  <1>3. CASE m \notin Builds
    BY <1>1, <1>3, RaiseStep DEF ReadModel
  <1> QED BY <1>2, <1>3

LEMMA ReadCalibrationStep ==
  ASSUME FilesInv, NEW p \in Processes, ReadCalibration(p)
  PROVE  FilesInv'
  <1> DEFINE c == CalibrationFound(p)
             l == loading[p].label
             v == Session(loading[p].model, c)
  <1>1. Main \in Processes /\ loading[p] \in Loads /\ loading[p].model \in Builds /\ l # None /\ l \in Labels
    BY DEF ReadCalibration, FilesInv, TypeOK, LoadsInOrder, Loads, Processes
  <1>2. CASE c \in Builds
    <2>1. v \in Sessions /\ v # None
      BY <1>1, <1>2, SessionType
    <2>2. /\ sessions' = [sessions EXCEPT ![p][l] = v]
          /\ loading' = [loading EXCEPT ![p] = NoLoad]
          /\ main' = IF p = Main /\ main = "health" THEN "idle" ELSE main
          /\ UNCHANGED <<disk, writing, storeVars, writeVars>>
      BY <1>2 DEF ReadCalibration, storeVars
    <2> HIDE DEF v
    <2>3. loading' \in [Processes -> Loads] /\ loading'[p] = NoLoad
          /\ \A q \in Processes : q # p => loading'[q] = loading[q]
      BY <2>2, NoLoadType DEF FilesInv, TypeOK
    <2>4. sessions' \in [Processes -> [Labels -> Sessions \union {None}]] /\ sessions'[p][l] = v
          /\ \A q \in Processes : q # p => sessions'[q] = sessions[q]
      BY <1>1, <2>1, <2>2 DEF FilesInv, TypeOK
    <2>5. p = Main => main \in {"health", "trial"} /\ (main = "trial" => l = active)
      BY <1>1 DEF FilesInv, TypeOK, LoadsInOrder
    <2>7. TypeOK'
      BY <1>1, <2>2, <2>3, <2>4, <2>5, NoLoadType DEF FilesInv, TypeOK, storeVars, writeVars
    <2>8. LoadsInOrder'
      BY <1>1, <2>2, <2>3, NoLoadType DEF FilesInv, LoadsInOrder, storeVars
    <2> QED BY <2>2, <2>7, <2>8, DiskKept
  <1>3. CASE c \notin Builds
    BY <1>1, <1>3, RaiseStep DEF ReadCalibration
  <1> QED BY <1>2, <1>3

LEMMA SubmitStep ==
  ASSUME FilesInv, NEW w \in Workers, Submit(w)
  PROVE  FilesInv'
  <1>1. active \in Labels /\ w \in Processes /\ w # Main
    BY ModelFilesAssumption DEF FilesInv, TypeOK, Processes
  <1> DEFINE x == LoadOf(active)
  <1>2. x \in Loads /\ x # NoLoad /\ x.label # None /\ x.model = None
    BY <1>1, LoadOfType, ModelFilesAssumption
  <1>3. loading' = [loading EXCEPT ![w] = x] /\ UNCHANGED <<disk, writing, storeVars, main, sessions, writeVars>>
    BY DEF Submit
  <1> HIDE DEF x
  <1> QED BY <1>1, <1>2, <1>3, LoadChange

LEMMA HealthStep ==
  ASSUME FilesInv, Health
  PROVE  FilesInv'
  <1>1. active \in Labels /\ Main \in Processes /\ main = "idle"
    BY DEF Health, Idle, FilesInv, TypeOK, Processes
  <1>2. loading' \in [Processes -> Loads] /\ loading'[Main] = LoadOf(active)
        /\ \A q \in Processes : q # Main => loading'[q] = loading[q]
    BY <1>1, LoadOfType DEF Health, FilesInv, TypeOK
  <1>3. TypeOK'
    BY <1>1, <1>2, LoadOfType, ModelFilesAssumption DEF Health, FilesInv, TypeOK, storeVars, writeVars
  <1>4. LoadsInOrder'
    BY <1>1, <1>2, LoadOfType, ModelFilesAssumption DEF Health, FilesInv, LoadsInOrder, storeVars
  <1> QED BY <1>3, <1>4, DiskKept DEF Health

LEMMA NameStep ==
  ASSUME FilesInv, NEW l \in Named, NameModel(l)
  PROVE  FilesInv'
  <1>1. TypeOK'
    BY ModelFilesAssumption DEF NameModel, FilesInv, TypeOK, processVars, writeVars
  <1>2. LoadsInOrder'
    BY DEF NameModel, FilesInv, LoadsInOrder, processVars
  <1> QED BY <1>1, <1>2, DiskKept DEF NameModel

LEMMA ActivateStep ==
  ASSUME FilesInv, Activate
  PROVE  FilesInv'
  <1>1. Main \in Processes /\ main = "idle" /\ staged \in Labels /\ active \in Labels /\ active # None
    BY ModelFilesAssumption DEF Activate, Idle, FilesInv, TypeOK, Processes
  <1>2. loading[Main].label = None
    BY <1>1 DEF FilesInv, TypeOK
  <1>3. TypeOK'
    BY <1>1, <1>2 DEF Activate, FilesInv, TypeOK, processVars, writeVars
  <1>4. LoadsInOrder'
    BY <1>2 DEF Activate, FilesInv, LoadsInOrder, processVars
  <1> QED BY <1>3, <1>4, DiskKept DEF Activate

LEMMA TrialLoadsStep ==
  ASSUME FilesInv, TrialLoads
  PROVE  FilesInv'
  <1> DEFINE x == LoadOf(active)
  <1>1. active \in Labels /\ Main \in Processes /\ main = "trial"
    BY DEF TrialLoads, FilesInv, TypeOK, Processes
  <1>2. x \in Loads /\ x # NoLoad /\ x.label # None /\ x.label = active /\ x.model = None
    BY <1>1, LoadOfType, ModelFilesAssumption
  <1>3. loading' = [loading EXCEPT ![Main] = x]
        /\ UNCHANGED <<disk, writing, storeVars, main, sessions, writeVars>>
    BY DEF TrialLoads
  <1> HIDE DEF x
  <1> QED BY <1>1, <1>2, <1>3, LoadChange

(* The trial ends, with a verdict or without one.                          *)
LEMMA TrialEndStep ==
  ASSUME FilesInv, NoVerdict \/ Judge
  PROVE  FilesInv'
  <1>1. /\ main = "trial" /\ loading[Main] = NoLoad /\ main' = "idle" /\ Main \in Processes
        /\ UNCHANGED <<disk, writing, staged, loading, sessions, writeVars>>
    BY DEF NoVerdict, Judge, processVars, Processes
  <1>2. sessions[Main][active] \in Sessions \union {None} /\ active \in Labels
    BY <1>1 DEF FilesInv, TypeOK
  <1>3. /\ active' \in Labels /\ previous' \in Labels \union {None}
        /\ judged' \subseteq Labels \X (Sessions \union {None})
    BY <1>1, <1>2 DEF NoVerdict, Judge, Accept, Reject, FilesInv, TypeOK
  <1>4. TypeOK'
    BY <1>1, <1>3, NoLoadType DEF FilesInv, TypeOK, writeVars
  <1>5. LoadsInOrder'
    BY <1>1 DEF FilesInv, LoadsInOrder
  <1> QED BY <1>1, <1>4, <1>5, DiskKept

LEMMA NodeRestartStep ==
  ASSUME FilesInv, Restart
  PROVE  FilesInv'
  <1>1. writing' \in [{"bundle", "training"} -> Writes]
        /\ writing'.bundle = NoWrite /\ writing'.training = writing.training
    BY NoWriteType DEF Restart, FilesInv, TypeOK
  <1>2. Main \in Processes /\ loading' \in [Processes -> Loads] /\ \A p \in Processes : loading'[p] = NoLoad
    BY NoLoadType DEF Restart, Processes
  <1>3. TypeOK'
    <2>1. tangled' \subseteq Labels /\ rewritten' = {}
      BY TangledType, ModelFilesAssumption DEF Restart
    <2>2. judged' \subseteq Labels \X {None}
      BY ModelFilesAssumption DEF Restart
    <2> QED BY <1>1, <1>2, <2>1, <2>2, NoLoadType, ModelFilesAssumption DEF Restart, FilesInv, TypeOK
  <1>4. LoadsInOrder'
    BY <1>2, NoLoadType DEF Restart, LoadsInOrder
  <1>5. WritesAllowed' /\ OnlyVerified'
    BY <1>1 DEF Restart, FilesInv, WritesAllowed, OnlyVerified
  <1> QED BY <1>3, <1>4, <1>5 DEF FilesInv

LEMMA FilesStep ==
  ASSUME FilesInv, [Next]_vars
  PROVE  FilesInv'
  <1>1. DOMAIN writing = {"bundle", "training"}
    BY DEF FilesInv, TypeOK
  <1>2. CASE UNCHANGED vars
    <2>1. TypeOK' /\ LoadsInOrder'
      BY <1>2 DEF vars, storeVars, processVars, writeVars, FilesInv, TypeOK, LoadsInOrder
    <2> QED BY <1>2, <2>1, DiskKept DEF vars
  <1>3. CASE Next
    BY <1>1, <1>3, ReceiveStep, TrainStep, WriteStepStep, FindStep, ReadModelStep, ReadCalibrationStep,
       SubmitStep, NameStep, StopStep, HealthStep, ActivateStep, TrialLoadsStep, TrialEndStep,
       NodeRestartStep DEF Next
  <1> QED BY <1>2, <1>3

THEOREM FilesInvariant == Spec => []FilesInv
  <1>1. Init => FilesInv
    BY StartsWell
  <1>2. FilesInv /\ [Next]_vars => FilesInv'
    BY FilesStep
  <1> QED BY <1>1, <1>2, PTL DEF Spec

(* Files, writes, loads and sessions are of their kinds; the event loop is *)
(* busy exactly with what it began, and never waits for a load that is     *)
(* over.                                                                   *)
THEOREM FilesTypeCorrect == Spec => []TypeOK
  BY FilesInvariant, PTL DEF FilesInv

(* F12: whatever bundles arrive, in any order, with crashes at any point   *)
(* and training runs alongside, a label's files hold nothing but what was  *)
(* delivered, trained in place, or signed for that file of that label.     *)
THEOREM NothingUnsignedLands == Spec => []OnlyVerified
  BY FilesInvariant, PTL DEF FilesInv

-------------------------------------------------------------------------------
(***************************************************************************)
(* A label that has been written only while nobody used it: every process  *)
(* that loads it, or has loaded it, has what its files are now.            *)
(***************************************************************************)
LoadCurrent(p) ==
  LET l == loading[p].label
  IN  loading[p].from # None /\ l \notin rewritten =>
        /\ loading[p].from = Home(l)
        /\ loading[p].model # None => loading[p].model = disk[Home(l)].model

CurrentInv == SessionsCurrent /\ \A p \in Processes : LoadCurrent(p)

LEMMA HomeIsPlace == ASSUME NEW l \in Labels PROVE Home(l) \in {l, Legacy} /\ Home(l) \in Places
  BY DEF Home, Places

(* Steps that write no file, and what they may do to loads and sessions.   *)
LEMMA CurrentKept ==
  ASSUME FilesInv, FilesInv', CurrentInv, UNCHANGED disk, rewritten' = rewritten \/ rewritten' = {},
         \A p \in Processes :
           /\ \/ loading'[p].from = None
              \/ UNCHANGED rewritten /\ (loading'[p] = loading[p] \/ LoadCurrent(p)')
           /\ \A l \in Labels :
                \/ sessions'[p][l] = None
                \/ UNCHANGED rewritten /\ (sessions'[p][l] = sessions[p][l]
                                          \/ l \in rewritten \/ sessions'[p][l] = disk[Home(l)])
  PROVE  CurrentInv'
  <1>1. \A l : Home(l)' = Home(l)
    BY DEF Home
  <1>2. SessionsCurrent'
    BY <1>1 DEF CurrentInv, SessionsCurrent
  <1>3. ASSUME NEW p \in Processes PROVE LoadCurrent(p)'
    BY <1>1 DEF CurrentInv, LoadCurrent
  <1> QED BY <1>2, <1>3 DEF CurrentInv

(* A step of a write leaves the files of other labels alone.               *)
LEMMA OtherLabelsKept ==
  ASSUME FilesInv, NEW w \in {"bundle", "training"}, WriteStep(w), NEW l \in Labels, l # writing[w].label
  PROVE  Home(l)' = Home(l) /\ disk'[Home(l)] = disk[Home(l)]
  <1> DEFINE k == writing[w].label
  <1>1. k \in Labels /\ k # Legacy
    BY WriteTarget, ModelFilesAssumption DEF WriteStep
  <1>2. \A m \in Places : m # k => disk'[m] = disk[m]
    BY <1>1 DEF WriteStep, FilesInv, TypeOK
  <1>3. l \in Places /\ Legacy \in Places
    BY DEF Places
  <1>4. disk'[l] = disk[l] /\ disk'[Legacy] = disk[Legacy]
    BY <1>1, <1>2, <1>3
  <1>5. Home(l)' = Home(l)
    BY <1>4 DEF Home
  <1>6. Home(l) = l \/ Home(l) = Legacy
    BY HomeIsPlace
  <1>7. disk'[Home(l)] = disk[Home(l)]
    BY <1>4, <1>6
  <1> QED BY <1>5, <1>7

LEMMA CurrentWrite ==
  ASSUME FilesInv, CurrentInv, NEW w \in {"bundle", "training"}, WriteStep(w)
  PROVE  CurrentInv'
  <1> DEFINE k == writing[w].label
  <1>2. /\ UNCHANGED <<loading, sessions>>
        /\ rewritten' = IF InUse(k) THEN rewritten \union {k} ELSE rewritten
    BY DEF WriteStep, processVars
  <1>3. ASSUME NEW l \in Labels, l # k
        PROVE  Home(l)' = Home(l) /\ disk'[Home(l)] = disk[Home(l)]
    BY <1>3, OtherLabelsKept
  <1>4. ASSUME NEW p \in Processes, NEW l \in Labels, l \notin rewritten', sessions'[p][l] # None
        PROVE  sessions'[p][l] = disk'[Home(l)']
    <2>1. l # k
      BY <1>2, <1>4 DEF InUse
    <2> QED BY <1>2, <1>3, <1>4, <2>1 DEF CurrentInv, SessionsCurrent
  <1>5. ASSUME NEW p \in Processes PROVE LoadCurrent(p)'
    <2>1. CASE loading[p].from = None \/ loading[p].label \in rewritten'
      BY <1>2, <2>1 DEF LoadCurrent
    <2>2. ASSUME NEW l \in Labels, loading[p].label = l, loading[p].from # None, l \notin rewritten'
          PROVE  LoadCurrent(p)'
      <3>1. l # k
        BY <1>2, <2>2 DEF InUse
      <3>2. Home(l)' = Home(l) /\ disk'[Home(l)] = disk[Home(l)]
        BY <1>3, <3>1
      <3>3. /\ loading[p].from = Home(l)
            /\ loading[p].model # None => loading[p].model = disk[Home(l)].model
        BY <1>2, <2>2 DEF CurrentInv, LoadCurrent
      <3> QED BY <1>2, <2>2, <3>2, <3>3 DEF LoadCurrent
    <2>3. loading[p].from # None => loading[p].label \in Labels
      BY DEF FilesInv, TypeOK, LoadsInOrder, Loads
    <2> QED BY <2>1, <2>2, <2>3
  <1> QED BY <1>4, <1>5 DEF CurrentInv, SessionsCurrent

LEMMA CurrentFind ==
  ASSUME FilesInv, FilesInv', CurrentInv, NEW p \in Processes, Find(p)
  PROVE  CurrentInv'
  <1>1. loading[p] \in Loads /\ loading[p].from = None /\ loading[p].model = None
    BY DEF Find, FilesInv, TypeOK, LoadsInOrder
  <1>2. /\ loading' = [loading EXCEPT ![p].from = Home(loading[p].label)]
        /\ UNCHANGED <<disk, sessions, rewritten>>
    BY DEF Find, writeVars
  <1>3. loading'[p].from = Home(loading[p].label) /\ loading'[p].label = loading[p].label
        /\ loading'[p].model = None /\ \A q \in Processes : q # p => loading'[q] = loading[q]
    BY <1>1, <1>2 DEF FilesInv, TypeOK, Loads
  <1>4. \A l : Home(l)' = Home(l)
    BY <1>2 DEF Home
  <1>5. LoadCurrent(p)'
    BY <1>3, <1>4 DEF LoadCurrent
  <1> QED BY <1>2, <1>3, <1>5, CurrentKept

LEMMA CurrentReadModel ==
  ASSUME FilesInv, FilesInv', CurrentInv, NEW p \in Processes, ReadModel(p)
  PROVE  CurrentInv'
  <1> DEFINE m == disk[loading[p].from].model
  <1>1. UNCHANGED <<disk, sessions, rewritten>> /\ loading[p].from # None
    BY DEF ReadModel, writeVars
  <1>2. CASE m \in Builds
    <2>1. loading' = [loading EXCEPT ![p].model = m]
      BY <1>2 DEF ReadModel
    <2>2. loading'[p].model = m /\ loading'[p].label = loading[p].label /\ loading'[p].from = loading[p].from
          /\ \A q \in Processes : q # p => loading'[q] = loading[q]
      BY <2>1 DEF FilesInv, TypeOK, Loads
    <2>3. \A l : Home(l)' = Home(l)
      BY <1>1 DEF Home
    <2>4. LoadCurrent(p)'
      BY <1>1, <2>2, <2>3 DEF LoadCurrent, CurrentInv
    <2> QED BY <1>1, <2>2, <2>4, CurrentKept
  <1>3. CASE m \notin Builds
    <2>1. loading' = [loading EXCEPT ![p] = NoLoad]
      BY <1>3 DEF ReadModel, Raise
    <2>2. \A q \in Processes : loading'[q] = loading[q] \/ loading'[q].from = None
      BY <2>1, NoLoadType DEF FilesInv, TypeOK
    <2> QED BY <1>1, <2>2, CurrentKept
  <1> QED BY <1>2, <1>3

LEMMA CurrentReadCalibration ==
  ASSUME FilesInv, FilesInv', CurrentInv, NEW p \in Processes, ReadCalibration(p)
  PROVE  CurrentInv'
  <1> DEFINE l == loading[p].label
             c == CalibrationFound(p)
             v == Session(loading[p].model, c)
  <1>1. UNCHANGED <<disk, rewritten>> /\ loading' = [loading EXCEPT ![p] = NoLoad]
    BY DEF ReadCalibration, Raise, writeVars
  <1>2. \A q \in Processes : loading'[q] = loading[q] \/ loading'[q].from = None
    BY <1>1, NoLoadType DEF FilesInv, TypeOK
  <1>3. loading[p].model # None /\ loading[p].from # None /\ l \in Labels
    BY DEF ReadCalibration, FilesInv, TypeOK, LoadsInOrder, Loads
  <1>4. l \in rewritten \/ v = disk[Home(l)]
    <2> SUFFICES ASSUME l \notin rewritten PROVE v = disk[Home(l)] OBVIOUS
    <2>1. loading[p].from = Home(l) /\ loading[p].model = disk[Home(l)].model
      BY <1>3 DEF CurrentInv, LoadCurrent
    <2>2. disk[Home(l)] \in [model : File, calibration : File]
      BY <1>3, HomeIsPlace DEF FilesInv, TypeOK
    <2> QED BY <2>1, <2>2 DEF CalibrationFound, Session
  <1>5. UNCHANGED sessions \/ sessions' = [sessions EXCEPT ![p][l] = v]
    BY DEF ReadCalibration
  <1> HIDE DEF v
  <1>6. \A q \in Processes, k \in Labels :
          sessions'[q][k] = sessions[q][k] \/ (k = l /\ sessions'[q][k] = v)
    BY <1>3, <1>5 DEF FilesInv, TypeOK
  <1> QED BY <1>1, <1>2, <1>4, <1>6, CurrentKept

LEMMA CurrentStep ==
  ASSUME FilesInv, FilesInv', CurrentInv, [Next]_vars
  PROVE  CurrentInv'
  <1>1. DOMAIN writing = {"bundle", "training"} /\ Main \in Processes /\ Workers \subseteq Processes
    BY DEF FilesInv, TypeOK, Processes
  <1>2. CASE \/ \E b \in Bundles : ReceiveBundle(b)
             \/ \E t \in Trainings : Train(t[1], t[2])
             \/ \E l \in Named : NameModel(l)
             \/ TrainingStops \/ Activate \/ NoVerdict \/ Judge \/ UNCHANGED vars
    <2>1. UNCHANGED <<disk, loading, sessions, rewritten>>
      BY <1>2 DEF ReceiveBundle, Train, NameModel, TrainingStops, Activate, NoVerdict, Judge, vars,
                  processVars, writeVars
    <2> QED BY <2>1, CurrentKept
  <1>3. CASE Health \/ TrialLoads \/ \E w \in Workers : Submit(w)
    <2>1. UNCHANGED <<disk, sessions, rewritten>>
      BY <1>3 DEF Health, TrialLoads, Submit, writeVars
    <2>2. \E p \in Processes : loading' = [loading EXCEPT ![p] = LoadOf(active)]
      BY <1>1, <1>3 DEF Health, TrialLoads, Submit
    <2>3. LoadOf(active).from = None
      BY LoadOfType DEF FilesInv, TypeOK
    <2>4. \A q \in Processes : loading'[q] = loading[q] \/ loading'[q].from = None
      BY <2>2, <2>3 DEF FilesInv, TypeOK
    <2> QED BY <2>1, <2>4, CurrentKept
  <1>4. CASE Restart
    <2>1. /\ UNCHANGED disk /\ rewritten' = {}
          /\ \A p \in Processes : loading'[p].from = None /\ \A l \in Labels : sessions'[p][l] = None
      BY <1>4, NoLoadType DEF Restart
    <2> QED BY <2>1, CurrentKept
  <1> QED
    BY <1>1, <1>2, <1>3, <1>4, CurrentWrite, CurrentFind, CurrentReadModel, CurrentReadCalibration DEF Next

LEMMA CurrentInvariant == Spec => []CurrentInv
  <1>1. Init => CurrentInv
    BY NoLoadType DEF Init, CurrentInv, SessionsCurrent, LoadCurrent
  <1>2. FilesInv /\ FilesInv' /\ CurrentInv /\ [Next]_vars => CurrentInv'
    BY CurrentStep
  <1> QED BY <1>1, <1>2, FilesInvariant, PTL DEF Spec

(* F8 on several processes: as long as no file of a label is written after *)
(* somebody has begun to load it, the gate and every worker have the same  *)
(* model of that label, the one on the disk, in any interleaving of        *)
(* deliveries, training, loads, swaps and crashes.                         *)
THEOREM SessionsAreCurrent == Spec => []SessionsCurrent
  BY CurrentInvariant, PTL DEF CurrentInv

-------------------------------------------------------------------------------
(***************************************************************************)
(* The two files of a label are of one build, unless it is being written   *)
(* or is tangled.  While one writer is at work on it, by itself, the model *)
(* is the writer's from the second step on; the calibration follows.       *)
(***************************************************************************)
PackedInPairs == \A t \in Packed : t[2] = t[3]

PairOnDisk(l) == disk[l].model = disk[l].calibration

WriterAlone(w, v) ==
  LET l == writing[w].label
  IN  writing[w] # NoWrite /\ l \notin tangled =>
        /\ writing[v].label # l
        /\ writing[w].model = writing[w].calibration
        /\ writing[w].done >= 2 => disk[l].model = writing[w].model

PairsInv ==
  /\ \A l \in Labels \ (tangled \union BeingWritten) : PairOnDisk(l)
  /\ PairOnDisk(Legacy)
  /\ WriterAlone("bundle", "training") /\ WriterAlone("training", "bundle")

Other(w) == IF w = "bundle" THEN "training" ELSE "bundle"

LEMMA TwoLabels ==
  ASSUME NEW f, DOMAIN f = {"bundle", "training"}, NEW w \in {"bundle", "training"}
  PROVE  {f[u].label : u \in DOMAIN f} = {f[w].label, f[Other(w)].label}
  BY DEF Other

LEMMA BeingWrittenTwo ==
  ASSUME FilesInv, FilesInv', NEW w \in {"bundle", "training"}
  PROVE  /\ BeingWritten = {writing[w].label, writing[Other(w)].label}
         /\ BeingWritten' = {writing'[w].label, writing'[Other(w)].label}
  <1>1. DOMAIN writing = {"bundle", "training"} /\ DOMAIN writing' = {"bundle", "training"}
    BY DEF FilesInv, TypeOK
  <1> QED BY <1>1, TwoLabels DEF BeingWritten

LEMMA LabelOfWrite ==
  ASSUME FilesInv, NEW w \in {"bundle", "training"}
  PROVE  writing[w].label # None <=> writing[w] # NoWrite
  BY WriteTarget, NoWriteType, ModelFilesAssumption

(* A write of a pair begins.                                               *)
LEMMA PairsBegin ==
  ASSUME FilesInv, FilesInv', PairsInv, NEW w \in {"bundle", "training"}, NEW l \in Labels, NEW b \in Builds,
         writing[w] = NoWrite, writing' = [writing EXCEPT ![w] = WriteOf(l, b, b)],
         BeginsBeside(Other(w), l), UNCHANGED disk
  PROVE  PairsInv'
  <1> DEFINE v == Other(w)
  <1>1. v \in {"bundle", "training"} /\ v # w /\ (w = "bundle" <=> v = "training")
    BY DEF Other
  <1>2. writing'[w] = WriteOf(l, b, b) /\ writing'[v] = writing[v]
    BY <1>1 DEF FilesInv, TypeOK
  <1>3. tangled' = IF writing[v].label = l THEN tangled \union {l} ELSE tangled \ {l}
    BY DEF BeginsBeside
  <1>4. writing[w].label = None /\ l # None
    BY NoWriteType, ModelFilesAssumption
  <1>5. BeingWritten = {writing[w].label, writing[v].label} /\ BeingWritten' = {l, writing[v].label}
    BY <1>2, BeingWrittenTwo, WriteOfType
  <1>6. ASSUME NEW k \in Labels, k \notin tangled', k \notin BeingWritten' PROVE PairOnDisk(k)'
    <2>1. k # l /\ k \notin tangled /\ k \notin BeingWritten
      BY <1>3, <1>4, <1>5, <1>6, ModelFilesAssumption
    <2> QED BY <2>1 DEF PairsInv, PairOnDisk
  <1>7. WriterAlone(w, v)'
    BY <1>2, <1>3, WriteOfType DEF WriterAlone, WriteOf
  <1>8. WriterAlone(v, w)'
    <2>1. WriterAlone(v, w)
      BY <1>1 DEF PairsInv
    <2>2. writing'[v] # NoWrite /\ writing'[v].label \notin tangled' => writing[v].label # l /\ writing[v].label \notin tangled
      BY <1>2, <1>3
    <2> QED BY <1>2, <2>1, <2>2, WriteOfType DEF WriterAlone
  <1> QED BY <1>1, <1>6, <1>7, <1>8 DEF PairsInv, PairOnDisk

(* A write is broken off.                                                  *)
LEMMA PairsBreak ==
  ASSUME FilesInv, FilesInv', PairsInv, NEW w \in {"bundle", "training"},
         writing' = [writing EXCEPT ![w] = NoWrite], BreaksOff(w), UNCHANGED disk
  PROVE  PairsInv'
  <1> DEFINE v == Other(w)
  <1>1. v \in {"bundle", "training"} /\ v # w /\ (w = "bundle" <=> v = "training")
    BY DEF Other
  <1>2. writing'[w] = NoWrite /\ writing'[v] = writing[v]
    BY <1>1 DEF FilesInv, TypeOK
  <1>3. tangled' = tangled \union ({writing[w].label} \ {None})
    BY DEF BreaksOff
  <1>4. BeingWritten \subseteq BeingWritten' \union {writing[w].label}
    BY <1>2, BeingWrittenTwo
  <1>5. \A k \in Labels \ (tangled' \union BeingWritten') : PairOnDisk(k)'
    BY <1>3, <1>4, ModelFilesAssumption DEF PairsInv, PairOnDisk
  <1>6. WriterAlone(w, v)'
    BY <1>2 DEF WriterAlone
  <1>7. WriterAlone(v, w)'
    <2>1. WriterAlone(v, w)
      BY <1>1 DEF PairsInv
    <2>2. writing'[v] # NoWrite => writing[v].label # None
      BY <1>1, <1>2, LabelOfWrite
    <2> QED BY <1>2, <1>3, <2>1, <2>2, NoWriteType DEF WriterAlone
  <1> QED BY <1>1, <1>5, <1>6, <1>7 DEF PairsInv, PairOnDisk

(* A step of a write.                                                      *)
LEMMA PairsWrite ==
  ASSUME FilesInv, FilesInv', PairsInv, NEW w \in {"bundle", "training"}, WriteStep(w)
  PROVE  PairsInv'
  <1> DEFINE v == Other(w)
             j == writing[w]
             k == writing[w].label
             g == AfterStep(disk[k], j)
  <1>1. v \in {"bundle", "training"} /\ v # w /\ (w = "bundle" <=> v = "training")
    BY DEF Other
  <1>2. k \in Labels /\ k # None /\ k # Legacy /\ k \in Places /\ j.done \in 0..3 /\ j # NoWrite
        /\ disk[k] \in [model : File, calibration : File]
    BY WriteTarget, ModelFilesAssumption DEF WriteStep, FilesInv, TypeOK, Places
  <1>3. disk'[k] = g /\ \A l \in Places : l # k => disk'[l] = disk[l]
    BY <1>2 DEF WriteStep, FilesInv, TypeOK
  <1>4. UNCHANGED tangled /\ writing'[v] = writing[v]
        /\ writing'[w] = IF j.done < 3 THEN [j EXCEPT !.done = @ + 1] ELSE NoWrite
    BY <1>1 DEF WriteStep, FilesInv, TypeOK
  <1>5. WriterAlone(w, v) /\ WriterAlone(v, w)
    BY <1>1 DEF PairsInv
  <1>6. k \notin tangled =>
          /\ j.done \in {1, 2} => g.model = j.model
          /\ j.done = 3 => g.model = g.calibration
    <2> SUFFICES ASSUME k \notin tangled PROVE (j.done \in {1, 2} => g.model = j.model)
                                             /\ (j.done = 3 => g.model = g.calibration)
      OBVIOUS
    <2>1. j.model = j.calibration /\ (j.done >= 2 => disk[k].model = j.model)
      BY <1>2, <1>5 DEF WriterAlone
    <2>2. CASE j.done = 1
      BY <1>2, <2>2 DEF AfterStep
    <2>3. CASE j.done = 2
      BY <1>2, <2>1, <2>3 DEF AfterStep
    <2>4. CASE j.done = 3
      BY <1>2, <2>1, <2>4 DEF AfterStep
    <2> QED BY <2>2, <2>3, <2>4
  <1>7. WriterAlone(w, v)'
    <2>1. CASE j.done < 3
      <3>1. /\ writing'[w].label = k /\ writing'[w].model = j.model /\ writing'[w].calibration = j.calibration
            /\ writing'[w].done = j.done + 1
        BY <1>4, <2>1 DEF WriteStep, FilesInv, TypeOK, Writes
      <3>2. writing'[w].done >= 2 /\ k \notin tangled => disk'[k].model = j.model
        BY <1>2, <1>3, <1>6, <2>1, <3>1
      <3> QED BY <1>2, <1>4, <1>5, <3>1, <3>2 DEF WriterAlone
    <2>2. CASE ~(j.done < 3)
      BY <1>4, <2>2 DEF WriterAlone
    <2> QED BY <2>1, <2>2
  <1>8. WriterAlone(v, w)'
    <2> SUFFICES ASSUME writing[v] # NoWrite, writing[v].label \notin tangled PROVE WriterAlone(v, w)'
      BY <1>4 DEF WriterAlone
    <2>1. k # writing[v].label /\ writing[v].label \in Labels
      BY <1>1, <1>5, WriteTarget DEF WriterAlone
    <2>2. disk'[writing[v].label] = disk[writing[v].label]
      BY <1>3, <2>1 DEF Places
    <2>3. writing'[w].label \in {k, None}
      BY <1>4, NoWriteType DEF WriteStep, FilesInv, TypeOK, Writes
    <2>4. writing'[w].label # writing[v].label
      BY <2>1, <2>3, ModelFilesAssumption
    <2> QED BY <1>4, <1>5, <2>2, <2>4 DEF WriterAlone
  <1>9. ASSUME NEW l \in Labels, l \notin tangled', l \notin BeingWritten' PROVE PairOnDisk(l)'
    <2>1. BeingWritten = {k, writing[v].label} /\ BeingWritten' = {writing'[w].label, writing'[v].label}
      BY BeingWrittenTwo
    <2>2. CASE l # k
      BY <1>3, <1>4, <1>9, <2>1, <2>2 DEF PairsInv, PairOnDisk, Places
    <2>3. CASE l = k
      <3>1. ~(j.done < 3)
        BY <1>4, <1>9, <2>1, <2>3 DEF WriteStep, FilesInv, TypeOK, Writes
      <3>2. j.done = 3
        BY <1>2, <3>1
      <3>3. disk'[l].model = disk'[l].calibration
        BY <1>3, <1>4, <1>6, <1>9, <2>3, <3>2
      <3> QED BY <3>3 DEF PairOnDisk
    <2> QED BY <2>2, <2>3
  <1>10. PairOnDisk(Legacy)'
    BY <1>2, <1>3 DEF PairsInv, PairOnDisk, Places
  <1> QED BY <1>1, <1>7, <1>8, <1>9, <1>10 DEF PairsInv

LEMMA PairsStep ==
  ASSUME PackedInPairs, FilesInv, FilesInv', PairsInv, [Next]_vars
  PROVE  PairsInv'
  <1>1. DOMAIN writing = {"bundle", "training"} /\ Other("bundle") = "training" /\ Other("training") = "bundle"
    BY DEF FilesInv, TypeOK, Other
  <1>2. ASSUME NEW b \in Bundles, ReceiveBundle(b) PROVE PairsInv'
    <2>1. b.manifest \in Labels \X Builds \X Builds /\ b.manifest \in Packed
          /\ b.model = b.manifest[2] /\ b.calibration = b.manifest[3]
      BY <1>2, ModelFilesAssumption DEF Bundles, ReceiveBundle, Verified
    <2>2. b.manifest[1] \in Labels /\ b.model \in Builds /\ b.calibration = b.model
      BY <2>1 DEF PackedInPairs
    <2>3. writing["bundle"] = NoWrite
      BY <1>2 DEF ReceiveBundle, Idle, FilesInv, TypeOK
    <2>4. writing' = [writing EXCEPT !["bundle"] = WriteOf(b.manifest[1], b.model, b.model)]
          /\ BeginsBeside("training", b.manifest[1]) /\ UNCHANGED disk
      BY <1>2, <2>2 DEF ReceiveBundle
    <2> QED BY <1>1, <2>2, <2>3, <2>4, PairsBegin
  <1>3. ASSUME NEW t \in Trainings, Train(t[1], t[2]) PROVE PairsInv'
    <2>1. t[1] \in Labels /\ t[2] \in Builds
      BY ModelFilesAssumption
    <2>2. writing["training"] = NoWrite
          /\ writing' = [writing EXCEPT !["training"] = WriteOf(t[1], t[2], t[2])]
          /\ BeginsBeside("bundle", t[1]) /\ UNCHANGED disk
      BY <1>3 DEF Train
    <2> QED BY <1>1, <2>1, <2>2, PairsBegin
  <1>4. CASE TrainingStops
    <2>1. writing' = [writing EXCEPT !["training"] = NoWrite] /\ BreaksOff("training") /\ UNCHANGED disk
      BY <1>4 DEF TrainingStops
    <2> QED BY <2>1, PairsBreak
  <1>5. CASE Restart
    <2>1. writing' = [writing EXCEPT !["bundle"] = NoWrite] /\ BreaksOff("bundle") /\ UNCHANGED disk
      BY <1>5 DEF Restart
    <2> QED BY <2>1, PairsBreak
  <1>6. CASE \/ \E p \in Processes : Find(p) \/ ReadModel(p) \/ ReadCalibration(p)
             \/ \E w \in Workers : Submit(w)
             \/ \E l \in Named : NameModel(l)
             \/ Health \/ Activate \/ TrialLoads \/ NoVerdict \/ Judge \/ UNCHANGED vars
    <2>1. UNCHANGED <<disk, writing, tangled>>
      BY <1>6 DEF Find, ReadModel, ReadCalibration, Submit, NameModel, Health, Activate, TrialLoads,
                  NoVerdict, Judge, vars, writeVars
    <2> QED BY <2>1 DEF PairsInv, PairOnDisk, WriterAlone, BeingWritten
  <1> QED BY <1>1, <1>2, <1>3, <1>4, <1>5, <1>6, PairsWrite DEF Next

(* If bundles are packed in pairs: however deliveries, training over a     *)
(* label, loads and crashes interleave, a process pairs a model with the   *)
(* calibration of another build only under a label whose files were        *)
(* written during or after a load, by two at once, or not to the end; and  *)
(* once somebody writes both files undisturbed, not under that one either. *)
THEOREM PairsStayTogether == PackedInPairs => (Spec => []PairsMatch)
  <1> SUFFICES ASSUME PackedInPairs PROVE Spec => []PairsMatch
    OBVIOUS
  <1>1. Init => PairsInv
    BY NoWriteType, ModelFilesAssumption DEF Init, PairsInv, PairOnDisk, WriterAlone, Session, Places
  <1>2. FilesInv /\ FilesInv' /\ PairsInv /\ [Next]_vars => PairsInv'
    BY PairsStep
  <1>3. CurrentInv /\ PairsInv => PairsMatch
    <2> SUFFICES ASSUME CurrentInv, PairsInv, NEW p \in Processes, NEW l \in Labels,
                        l \notin rewritten, l \notin tangled, l \notin BeingWritten, sessions[p][l] # None
                 PROVE  sessions[p][l].model = sessions[p][l].calibration
      BY DEF PairsMatch
    <2>1. sessions[p][l] = disk[Home(l)]
      BY DEF CurrentInv, SessionsCurrent
    <2>2. PairOnDisk(l) /\ PairOnDisk(Legacy)
      BY DEF PairsInv
    <2> QED BY <2>1, <2>2, HomeIsPlace DEF PairOnDisk
  <1> QED BY <1>1, <1>2, <1>3, FilesInvariant, CurrentInvariant, PTL DEF Spec

-------------------------------------------------------------------------------
(***************************************************************************)
(* What is served has been before the gate.  A label is cleared if it had  *)
(* no verdict, or was accepted with the session that is still what its     *)
(* files are, or if its files were rewritten, when nothing is claimed.     *)
(***************************************************************************)
Cleared(l) ==
  \/ l \in rewritten \/ <<l, None>> \in judged
  \/ <<l, disk[Home(l)]>> \in judged /\ sessions[Main][l] # None

ServedInv ==
  /\ Cleared(Initial)
  /\ main # "trial" => Cleared(active)
  /\ main = "trial" => Cleared(previous)
  /\ \A w \in Workers :
       /\ loading[w].label # None => Cleared(loading[w].label)
       /\ \A l \in Labels : sessions[w][l] # None => Cleared(l)

(* While the node runs a label stays cleared: if its files change, the     *)
(* gate's own session of it has made it a rewritten one.                   *)
LEMMA ClearedStays ==
  ASSUME FilesInv, [Next]_vars, ~Restart, NEW l \in Labels, Cleared(l)
  PROVE  Cleared(l)'
  <1>0. DOMAIN writing = {"bundle", "training"} /\ Main \in Processes
    BY DEF FilesInv, TypeOK, Processes
  <1>1. ASSUME NEW w \in {"bundle", "training"}, WriteStep(w) PROVE Cleared(l)'
    <2>1. UNCHANGED <<sessions, judged>> /\ rewritten \subseteq rewritten'
          /\ (InUse(writing[w].label) => writing[w].label \in rewritten')
      BY <1>1 DEF WriteStep, processVars
    <2>2. CASE l \in rewritten \/ <<l, None>> \in judged
      BY <2>1, <2>2 DEF Cleared
    <2>3. CASE <<l, disk[Home(l)]>> \in judged /\ sessions[Main][l] # None /\ l = writing[w].label
      BY <1>0, <2>1, <2>3 DEF Cleared, InUse
    <2>4. CASE <<l, disk[Home(l)]>> \in judged /\ sessions[Main][l] # None /\ l # writing[w].label
      <3>1. Home(l)' = Home(l) /\ disk'[Home(l)] = disk[Home(l)]
        BY <1>1, <2>4, OtherLabelsKept
      <3>2. <<l, disk'[Home(l)']>> \in judged'
        BY <2>1, <2>4, <3>1
      <3> QED BY <2>1, <2>4, <3>2 DEF Cleared
    <2> QED BY <2>2, <2>3, <2>4 DEF Cleared
  <1>2. ASSUME UNCHANGED <<disk, rewritten>>, judged \subseteq judged',
               sessions[Main][l] # None => sessions'[Main][l] # None
        PROVE  Cleared(l)'
    <2>1. Home(l)' = Home(l)
      BY <1>2 DEF Home
    <2> QED BY <1>2, <2>1 DEF Cleared
  <1>3. ASSUME NEW p \in Processes, ReadCalibration(p) PROVE Cleared(l)'
    <2> DEFINE s == Session(loading[p].model, CalibrationFound(p))
    <2>1. UNCHANGED <<disk, rewritten>> /\ judged \subseteq judged'
      BY <1>3 DEF ReadCalibration, Raise, writeVars
    <2>2. UNCHANGED sessions \/ (s # None /\ sessions' = [sessions EXCEPT ![p][loading[p].label] = s])
      <3>1. loading[p].model \in Builds
        BY <1>3 DEF ReadCalibration, FilesInv, TypeOK, Loads
      <3> QED BY <1>3, <3>1, SessionType DEF ReadCalibration
    <2> HIDE DEF s
    <2>3. sessions[Main][l] # None => sessions'[Main][l] # None
      BY <1>0, <2>2 DEF FilesInv, TypeOK
    <2> QED BY <1>2, <2>1, <2>3
  <1>4. CASE \/ \E b \in Bundles : ReceiveBundle(b)
             \/ \E t \in Trainings : Train(t[1], t[2])
             \/ \E p \in Processes : Find(p) \/ ReadModel(p)
             \/ \E w \in Workers : Submit(w)
             \/ \E k \in Named : NameModel(k)
             \/ TrainingStops \/ Health \/ Activate \/ TrialLoads \/ NoVerdict \/ Judge \/ UNCHANGED vars
    <2>1. UNCHANGED <<disk, rewritten, sessions>> /\ judged \subseteq judged'
      BY <1>4 DEF ReceiveBundle, Train, Find, ReadModel, Raise, Submit, NameModel, TrainingStops, Health,
                  Activate, TrialLoads, NoVerdict, Judge, Accept, Reject, vars, storeVars, processVars, writeVars
    <2> QED BY <1>2, <2>1
  <1> QED BY <1>0, <1>1, <1>3, <1>4 DEF Next

(* Most steps put nothing into service but what is active between trials.  *)
LEMMA ServedStays ==
  ASSUME FilesInv, ServedInv, \A l \in Labels : Cleared(l) => Cleared(l)',
         \/ UNCHANGED <<main, active, previous>>
         \/ main # "trial" /\ main' # "trial" /\ UNCHANGED active,
         \A w \in Workers :
           /\ \/ loading'[w].label \in {None, loading[w].label}
              \/ main # "trial" /\ loading'[w].label = active
           /\ \A l \in Labels :
                sessions'[w][l] = sessions[w][l] \/ (l = loading[w].label /\ l # None)
  PROVE  ServedInv'
  <1>1. Initial \in Labels /\ active \in Labels /\ (main = "trial" => previous \in Labels)
        /\ \A w \in Workers : loading[w].label \in Labels \union {None}
    BY ModelFilesAssumption DEF FilesInv, TypeOK, Processes, Loads
  <1>2. (main # "trial" => Cleared(active))' /\ (main = "trial" => Cleared(previous))'
    <2>1. CASE UNCHANGED <<main, active, previous>>
      <3>1. CASE main = "trial"
        <4>1. Cleared(previous)'
          BY <1>1, <3>1 DEF ServedInv
        <4> QED BY <2>1, <3>1, <4>1
      <3>2. CASE main # "trial"
        <4>1. Cleared(active)'
          BY <1>1, <3>2 DEF ServedInv
        <4> QED BY <2>1, <3>2, <4>1
      <3> QED BY <3>1, <3>2
    <2>2. CASE main # "trial" /\ main' # "trial" /\ UNCHANGED active
      BY <1>1, <2>2 DEF ServedInv
    <2> QED BY <2>1, <2>2
  <1>3. ASSUME NEW w \in Workers
        PROVE  /\ (loading[w].label # None => Cleared(loading[w].label))'
               /\ \A l \in Labels : (sessions[w][l] # None => Cleared(l))'
    BY <1>1 DEF ServedInv
  <1> QED BY <1>1, <1>2, <1>3 DEF ServedInv

(* The trial is over, or has failed to load: the model stays only if it    *)
(* was accepted, or there was no verdict on it.                            *)
LEMMA ServedTrialEnds ==
  ASSUME FilesInv, CurrentInv, ServedInv, \A l \in Labels : Cleared(l) => Cleared(l)',
         main = "trial", main' = "idle", UNCHANGED <<disk, sessions, rewritten>>,
         \A w \in Workers : loading'[w] = loading[w],
         \/ active' = active /\ <<active, None>> \in judged'
         \/ Accept /\ sessions[Main][active] # None
         \/ Reject
  PROVE  ServedInv'
  <1>1. /\ Initial \in Labels /\ active \in Labels /\ previous \in Labels
        /\ \A w \in Workers : loading[w].label \in Labels \union {None}
    BY ModelFilesAssumption DEF FilesInv, TypeOK, Processes, Loads
  <1>2. Cleared(active)'
    <2>1. CASE active' = active /\ <<active, None>> \in judged'
      BY <2>1 DEF Cleared
    <2>2. CASE Accept /\ sessions[Main][active] # None
      <3>1. active \in rewritten \/ sessions[Main][active] = disk[Home(active)]
        BY <1>1, <2>2 DEF CurrentInv, SessionsCurrent, Processes
      <3>2. active' = active /\ <<active, sessions[Main][active]>> \in judged'
        BY <2>2 DEF Accept
      <3>3. Home(active)' = Home(active)
        BY <3>2 DEF Home
      <3> QED BY <2>2, <3>1, <3>2, <3>3 DEF Cleared
    <2>3. CASE Reject
      <3>1. active' = previous
        BY <2>3 DEF Reject
      <3>2. UNCHANGED <<judged, disk, sessions, rewritten>> /\ Cleared(previous)
        BY <2>3 DEF Reject, ServedInv
      <3> QED BY <3>1, <3>2 DEF Cleared, Home
    <2> QED BY <2>1, <2>2, <2>3
  <1>3. ASSUME NEW w \in Workers
        PROVE  /\ (loading[w].label # None => Cleared(loading[w].label))'
               /\ \A l \in Labels : (sessions[w][l] # None => Cleared(l))'
    BY <1>1 DEF ServedInv
  <1>4. Cleared(Initial)'
    BY <1>1 DEF ServedInv
  <1> QED BY <1>2, <1>3, <1>4 DEF ServedInv

LEMMA ServedRaise ==
  ASSUME FilesInv, CurrentInv, ServedInv, \A l \in Labels : Cleared(l) => Cleared(l)',
         NEW p \in Processes, Raise(p), UNCHANGED <<disk, active, previous, sessions, rewritten>>
  PROVE  ServedInv'
  <1>1. loading' = [loading EXCEPT ![p] = NoLoad] /\ loading \in [Processes -> Loads]
        /\ Workers \subseteq Processes /\ Main \notin Workers
    BY ModelFilesAssumption DEF Raise, FilesInv, TypeOK, Processes
  <1>2. \A w \in Workers : loading'[w].label \in {None, loading[w].label}
    BY <1>1, NoLoadType
  <1>3. CASE p # Main
    <2>1. UNCHANGED main
      BY <1>3 DEF Raise
    <2> QED BY <1>2, <2>1, ServedStays
  <1>4. CASE p = Main /\ main # "trial"
    <2>1. main' = "idle"
      BY <1>4 DEF Raise
    <2> QED BY <1>2, <1>4, <2>1, ServedStays
  <1>5. CASE p = Main /\ main = "trial"
    <2>1. main' = "idle" /\ <<active, None>> \in judged' /\ \A w \in Workers : loading'[w] = loading[w]
      BY <1>1, <1>5 DEF Raise
    <2> QED BY <1>5, <2>1, ServedTrialEnds
  <1> QED BY <1>3, <1>4, <1>5

LEMMA ServedReadCalibration ==
  ASSUME FilesInv, CurrentInv, ServedInv, \A l \in Labels : Cleared(l) => Cleared(l)',
         NEW p \in Processes, ReadCalibration(p)
  PROVE  ServedInv'
  <1>1. CASE Raise(p) /\ UNCHANGED sessions
    BY <1>1, ServedRaise DEF ReadCalibration, writeVars
  <1>2. CASE CalibrationFound(p) \in Builds
    <2>1. /\ UNCHANGED <<active, previous>>
          /\ UNCHANGED main \/ (main # "trial" /\ main' # "trial")
      BY <1>2 DEF ReadCalibration
    <2>2. /\ sessions' = [sessions EXCEPT ![p][loading[p].label] =
                            Session(loading[p].model, CalibrationFound(p))]
          /\ loading' = [loading EXCEPT ![p] = NoLoad]
      BY <1>2 DEF ReadCalibration
    <2>3. loading \in [Processes -> Loads] /\ Workers \subseteq Processes
      BY DEF FilesInv, TypeOK, Processes
    <2>4. \A w \in Workers : loading'[w].label \in {None, loading[w].label}
      BY <2>2, <2>3, NoLoadType
    <2>5. loading[p].label \in Labels /\ loading[p].label # None
          /\ sessions \in [Processes -> [Labels -> Sessions \union {None}]]
      BY <2>3, ModelFilesAssumption DEF ReadCalibration, FilesInv, LoadsInOrder, TypeOK, Loads
    <2>6. \A w \in Workers, l \in Labels :
            sessions'[w][l] = sessions[w][l] \/ (l = loading[w].label /\ l # None)
      BY <2>2, <2>3, <2>5
    <2> QED BY <2>1, <2>4, <2>6, ServedStays
  <1> QED BY <1>1, <1>2 DEF ReadCalibration

LEMMA ServedStep ==
  ASSUME FilesInv, CurrentInv, ServedInv, [Next]_vars
  PROVE  ServedInv'
  <1>0. /\ loading \in [Processes -> Loads] /\ Workers \subseteq Processes /\ Main \in Processes
        /\ Main \notin Workers /\ DOMAIN writing = {"bundle", "training"} /\ active \in Labels
    BY ModelFilesAssumption DEF FilesInv, TypeOK, Processes
  <1>1. CASE Restart
    <2>1. /\ main' = "idle" /\ active' = Initial /\ <<Initial, None>> \in judged'
          /\ \A w \in Workers : loading'[w].label = None /\ \A l \in Labels : sessions'[w][l] = None
      BY <1>0, <1>1, NoLoadType DEF Restart
    <2> QED BY <2>1 DEF ServedInv, Cleared
  <1>2. SUFFICES ASSUME ~Restart PROVE ServedInv'
    BY <1>1
  <1>3. \A l \in Labels : Cleared(l) => Cleared(l)'
    BY <1>2, ClearedStays
  <1>4. CASE \/ \E b \in Bundles : ReceiveBundle(b)
             \/ \E t \in Trainings : Train(t[1], t[2])
             \/ \E l \in Named : NameModel(l)
             \/ TrainingStops \/ TrialLoads \/ UNCHANGED vars
    <2>1. \/ UNCHANGED <<main, active, previous>>
          \/ main # "trial" /\ main' # "trial" /\ UNCHANGED active
      BY <1>4 DEF ReceiveBundle, Train, NameModel, TrainingStops, TrialLoads, Idle, vars, storeVars
    <2>2. UNCHANGED sessions /\ \A w \in Workers : loading'[w] = loading[w]
      BY <1>0, <1>4 DEF ReceiveBundle, Train, NameModel, TrainingStops, TrialLoads, vars, processVars
    <2> QED BY <1>3, <2>1, <2>2, ServedStays
  <1>5. ASSUME NEW w \in {"bundle", "training"}, WriteStep(w) PROVE ServedInv'
    <2>1. UNCHANGED <<active, previous, loading, sessions>>
      BY <1>5 DEF WriteStep, processVars
    <2>2. w = "bundle" => main # "trial"
      BY <1>5, NoWriteType DEF WriteStep, FilesInv, TypeOK
    <2>3. UNCHANGED main \/ (main # "trial" /\ main' # "trial")
      BY <1>5, <2>2 DEF WriteStep
    <2> QED BY <1>3, <2>1, <2>3, ServedStays
  <1>6. ASSUME NEW p \in Processes, Find(p) PROVE ServedInv'
    <2>1. UNCHANGED <<main, active, previous, sessions>>
      BY <1>6 DEF Find, storeVars
    <2>2. \A w \in Workers : loading'[w].label = loading[w].label
      BY <1>0, <1>6 DEF Find, Loads
    <2> QED BY <1>3, <2>1, <2>2, ServedStays
  <1>7. ASSUME NEW p \in Processes, ReadModel(p) PROVE ServedInv'
    <2>1. CASE Raise(p)
      BY <1>3, <1>7, <2>1, ServedRaise DEF ReadModel, writeVars
    <2>2. CASE UNCHANGED main /\ loading' = [loading EXCEPT ![p].model = disk[loading[p].from].model]
      <3>1. UNCHANGED <<active, previous, sessions>>
        BY <1>7 DEF ReadModel
      <3>2. \A w \in Workers : loading'[w].label = loading[w].label
        BY <1>0, <2>2 DEF Loads
      <3> QED BY <1>3, <2>2, <3>1, <3>2, ServedStays
    <2> QED BY <1>7, <2>1, <2>2 DEF ReadModel
  <1>8. ASSUME NEW p \in Processes, ReadCalibration(p) PROVE ServedInv'
    BY <1>3, <1>8, ServedReadCalibration
  <1>9. ASSUME NEW w \in Workers, Submit(w) PROVE ServedInv'
    <2>1. main # "trial" /\ UNCHANGED <<main, active, previous, sessions>>
      BY <1>9 DEF Submit, Idle, storeVars
    <2>2. \A v \in Workers : loading'[v].label \in {active, loading[v].label}
      BY <1>0, <1>9, LoadOfType DEF Submit
    <2> QED BY <1>3, <2>1, <2>2, ServedStays
  <1>10. CASE Health
    <2>1. /\ main # "trial" /\ main' # "trial" /\ UNCHANGED <<active, previous, sessions>>
          /\ \A w \in Workers : loading'[w] = loading[w]
      BY <1>0, <1>10 DEF Health, Idle, storeVars
    <2> QED BY <1>3, <2>1, ServedStays
  <1>11. CASE Activate
    <2>1. /\ main # "trial" /\ main' = "trial" /\ previous' = active
          /\ UNCHANGED <<disk, judged, rewritten, loading, sessions>>
      BY <1>11 DEF Activate, Idle, processVars, writeVars
    <2>2. \A l \in Labels : Cleared(l)' <=> Cleared(l)
      BY <2>1 DEF Cleared, Home
    <2>3. Cleared(active) /\ Cleared(Initial)'
      BY <2>1, <2>2, ModelFilesAssumption DEF ServedInv
    <2>4. Cleared(previous)'
      BY <2>1, <2>3 DEF Cleared, Home
    <2>5. ASSUME NEW w \in Workers
          PROVE  /\ (loading[w].label # None => Cleared(loading[w].label))'
                 /\ \A l \in Labels : (sessions[w][l] # None => Cleared(l))'
      BY <2>1 DEF ServedInv, Cleared, Home
    <2> QED BY <2>1, <2>3, <2>4, <2>5 DEF ServedInv
  <1>12. CASE NoVerdict \/ Judge
    <2>1. /\ main = "trial" /\ main' = "idle" /\ UNCHANGED <<disk, sessions, rewritten, loading>>
          /\ \/ active' = active /\ <<active, None>> \in judged'
             \/ Accept /\ sessions[Main][active] # None
             \/ Reject
      BY <1>12 DEF NoVerdict, Judge, processVars, writeVars
    <2> QED BY <1>3, <2>1, ServedTrialEnds
  <1> QED
    BY <1>0, <1>2, <1>4, <1>5, <1>6, <1>7, <1>8, <1>9, <1>10, <1>11, <1>12 DEF Next

(* F8 and F13: whatever is written, loaded, swapped, crashes or cannot be  *)
(* evaluated, in any order: under a label whose files nobody wrote after   *)
(* they were loaded, no process serves anything the gate has not accepted, *)
(* or been unable to judge, in this run of the node.                       *)
THEOREM ServedIsGated == Spec => []ServedWasGated
  <1>1. Init => ServedInv
    BY NoLoadType, ModelFilesAssumption DEF Init, ServedInv, Cleared, Processes
  <1>2. FilesInv /\ CurrentInv /\ ServedInv /\ [Next]_vars => ServedInv'
    BY ServedStep
  <1>3. CurrentInv /\ ServedInv => ServedWasGated
    <2> SUFFICES ASSUME CurrentInv, ServedInv, NEW p \in Processes, NEW l \in Labels, l \notin rewritten,
                        Serves(p, l)
                 PROVE  Gated(l, sessions[p][l])
      BY DEF ServedWasGated
    <2>1. Cleared(l)
      BY DEF Serves, Idle, ServedInv
    <2>2. sessions[p][l] = disk[Home(l)]
      BY DEF Serves, CurrentInv, SessionsCurrent
    <2> QED BY <2>1, <2>2 DEF Cleared, Gated
  <1> QED BY <1>1, <1>2, <1>3, FilesInvariant, CurrentInvariant, PTL DEF Spec
================================================================================
