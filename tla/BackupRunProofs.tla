---------------------------- MODULE BackupRunProofs ----------------------------
(***************************************************************************)
(* Proofs about BackupRun, for any triggers, models, stages and locks: on  *)
(* every path the outcome, the notice, what is uploaded and the locks      *)
(* agree.                                                                  *)
(* What is proved of the registry holds of the pipeline, which calls it.   *)
(***************************************************************************)
EXTENDS BackupRun, FiniteSetTheorems, TLAPS

\* From the locks to their release.
Holding == {"locked", "started", "stages", "unwinding", "cleaned", "notified", "recorded"}

Shape ==
    /\ holders \in [Job -> {Registry!NotHeld} \cup
                           [model : Model, resources : SUBSET Resources, runID : {None} \cup Job]]
    /\ phase \in [Job -> {"new", "granted", "refused", "released"}]
    /\ pc \in [Job -> Pc]
    /\ model \in [Job -> Model \cup {None}]
    /\ todo \in [Job -> SUBSET Stage]
    /\ err \in [Job -> {"nil", "error"}]
    /\ panicking \in [Job -> BOOLEAN]
    /\ artifact \in [Job -> SUBSET Making]
    /\ uploaded \in [Job -> {None} \cup SUBSET Making]
    /\ record \in [Job -> {None, "running", "success", "failure"}]
    /\ temp \in [Job -> BOOLEAN]
    /\ notice \in [Job -> SUBSET {"success", "failure"}]

\* A backup that holds its locks is registered with what its model asks for.
Holds(j) ==
    pc[j] \in Holding =>
        /\ model[j] \in Model
        /\ holders[j] # Registry!NotHeld
        /\ holders[j].resources = Request[model[j]].resources

\* Nothing has been done yet.
Fresh(j) ==
    /\ err[j] = "nil" /\ ~ panicking[j]
    /\ artifact[j] = {} /\ uploaded[j] = None
    /\ notice[j] = {}

\* The archive has the work of the stages completed so far, and the upload is the
\* last stage, with the work of them all.
DataFollows(j) ==
    /\ model[j] \in Model
    /\ todo[j] \subseteq StagesOf(model[j])
    /\ artifact[j] = Effective(model[j]) \ todo[j]
    /\ IF "upload" \in todo[j] THEN uploaded[j] = None
       ELSE todo[j] = {} /\ uploaded[j] = Effective(model[j])

\* Where a backup is, and what it has done when it is there.
Waits(j) == /\ Fresh(j) /\ ~ temp[j] /\ record[j] = None

Begins(j) == /\ Fresh(j) /\ ~ temp[j] /\ record[j] \in {None, "running"}
             /\ model[j] \in Model /\ todo[j] = StagesOf(model[j])

Works(j) == /\ DataFollows(j)
            /\ err[j] = "nil" /\ ~ panicking[j]
            /\ notice[j] = {} /\ record[j] \in {None, "running"}

Unwinds(j) == /\ DataFollows(j)
              /\ todo[j] = {} <=> err[j] = "nil" /\ ~ panicking[j]
              /\ notice[j] = {} /\ record[j] \in {None, "running"}

Ends(j) == /\ DataFollows(j)
           /\ todo[j] = {} <=> err[j] = "nil"
           /\ ~ temp[j]
           /\ notice[j] = IF pc[j] = "cleaned" THEN {} ELSE {Result(err[j])}
           /\ record[j] \in IF pc[j] \in {"recorded", "done"} THEN {None, Result(err[j])}
                            ELSE {None, "running"}

Follows(j) ==
    CASE pc[j] \in {"idle", "skipped"} -> Waits(j)
      [] pc[j] = "locked"              -> Begins(j) /\ record[j] = None
      [] pc[j] = "started"             -> Begins(j)
      [] pc[j] = "stages"              -> Works(j)
      [] pc[j] = "unwinding"           -> Unwinds(j)
      [] OTHER                         -> Ends(j)

\* Backups that hold their locks at the same time ask for nothing that conflicts.
Apart ==
    \A j, k \in Job : j # k /\ pc[j] \in Holding /\ pc[k] \in Holding =>
        \A a \in Request[model[j]].resources, b \in Request[model[k]].resources :
            ~ Registry!conflicts(a, b)

IInv == Shape /\ (\A j \in Job : Holds(j) /\ Follows(j)) /\ Apart

-------------------------------------------------------------------------------

\* What the stages of a model do is done by stages.
LEMMA EffectiveMakes ==
    ASSUME NEW m \in Model
    PROVE  Effective(m) \subseteq Making /\ Effective(m) # None
BY RunAssumption DEF Effective

\* Nobody has begun.
LEMMA InitIInv == Init => IInv
<1>. SUFFICES ASSUME Init PROVE IInv
    OBVIOUS
<1>1. Shape
    <2>1. /\ holders = [j \in Job |-> Registry!NotHeld]
          /\ phase = [j \in Job |-> "new"]
        BY DEF Init, Registry!Init
    <2>2. holders \in [Job -> {Registry!NotHeld} \cup
              [model : Model, resources : SUBSET Resources, runID : {None} \cup Job]]
        BY <2>1
    <2>3. phase \in [Job -> {"new", "granted", "refused", "released"}]
        BY <2>1
    <2>4. /\ pc \in [Job -> Pc]
          /\ model \in [Job -> Model \cup {None}]
          /\ todo \in [Job -> SUBSET Stage]
          /\ err \in [Job -> {"nil", "error"}]
          /\ panicking \in [Job -> BOOLEAN]
          /\ artifact \in [Job -> SUBSET Making]
          /\ uploaded \in [Job -> {None} \cup SUBSET Making]
        BY DEF Init, Pc
    <2>5. /\ record \in [Job -> {None, "running", "success", "failure"}]
          /\ temp \in [Job -> BOOLEAN]
                /\ notice \in [Job -> SUBSET {"success", "failure"}]
        BY DEF Init
    <2>. QED
        BY <2>2, <2>3, <2>4, <2>5 DEF Shape
<1>2. ASSUME NEW j \in Job PROVE Holds(j) /\ Follows(j)
    BY DEF Init, Holds, Holding, Follows, Waits, Fresh
<1>3. Apart
    BY DEF Init, Apart, Holding
<1>. QED
    BY <1>1, <1>2, <1>3 DEF IInv

\* The other backups of a step: their parts of the state stay as they are.
SameFor(k) ==
    /\ holders'[k] = holders[k] /\ pc'[k] = pc[k] /\ model'[k] = model[k]
    /\ todo'[k] = todo[k] /\ err'[k] = err[k] /\ panicking'[k] = panicking[k]
    /\ artifact'[k] = artifact[k] /\ uploaded'[k] = uploaded[k] /\ record'[k] = record[k]
    /\ temp'[k] = temp[k] /\ notice'[k] = notice[k]

\* A job no variable of which changes keeps what holds of it.
LEMMA SameForKeeps ==
    ASSUME NEW k \in Job, SameFor(k), Holds(k), Follows(k)
    PROVE  Holds(k)' /\ Follows(k)'
BY DEF SameFor, Holds, Follows, Waits, Begins, Works, Unwinds, Ends, Fresh, DataFollows,
       Registry!NotHeld

\* A step of one backup that gets no new locks keeps the invariant if it does so
\* for that backup.
LEMMA OneJob ==
    ASSUME IInv, NEW j \in Job, Shape', \A k \in Job \ {j} : SameFor(k),
           model'[j] = model[j], pc'[j] \in Holding => pc[j] \in Holding,
           Holds(j)', Follows(j)'
    PROVE  IInv'
<1>1. \A k \in Job : Holds(k)' /\ Follows(k)'
    BY SameForKeeps DEF IInv
<1>2. \A k \in Job : model'[k] = model[k] /\ (pc'[k] \in Holding => pc[k] \in Holding)
    BY DEF SameFor
<1>3. Apart'
    BY <1>2 DEF IInv, Apart, Registry!conflicts
<1>. QED
    BY <1>1, <1>3 DEF IInv

\* The conflict test does not depend on who came first.
LEMMA ConflictsSymmetric ==
    ASSUME NEW a, NEW b PROVE Registry!conflicts(a, b) <=> Registry!conflicts(b, a)
BY DEF Registry!conflicts

\* Start takes the locks only if they conflict with nobody's.
LEMMA LockIInv ==
    ASSUME IInv, NEW j \in Job, NEW m \in Model, Lock(j, m)
    PROVE  IInv'
<1>. DEFINE held == [model |-> Request[m].model, resources |-> Request[m].resources, runID |-> None]
<1>1. /\ pc[j] = "idle" /\ ~ Registry!Conflicting(Request[m].resources)
      /\ holders' = [holders EXCEPT ![j] = held]
      /\ phase' = [phase EXCEPT ![j] = "granted"]
      /\ pc' = [pc EXCEPT ![j] = "locked"]
      /\ model' = [model EXCEPT ![j] = m]
      /\ todo' = [todo EXCEPT ![j] = StagesOf(m)]
      /\ UNCHANGED <<err, panicking, artifact, uploaded, record, temp, notice>>
    BY DEF Lock, Goto, Registry!Acquire
<1>2. held \in [model : Model, resources : SUBSET Resources, runID : {None} \cup Job]
    BY RunAssumption DEF Resources
<1>3. StagesOf(m) \subseteq Stage
    BY RunAssumption DEF StagesOf, Making, Stage, StageOrder
<1>4. Shape'
    BY <1>1, <1>2, <1>3 DEF IInv, Shape, Pc
<1>5. /\ holders'[j] = held /\ pc'[j] = "locked" /\ model'[j] = m /\ todo'[j] = StagesOf(m)
      /\ \A k \in Job \ {j} : SameFor(k)
    BY <1>1 DEF IInv, Shape, SameFor
<1>6. held # Registry!NotHeld
    BY RunAssumption DEF Registry!NotHeld
<1>7. Holds(j)'
    BY <1>5, <1>6 DEF Holds, Registry!NotHeld
<1>8. Follows(j)'
    BY <1>1, <1>5 DEF IInv, Follows, Waits, Begins, Fresh
<1>9. ASSUME NEW k \in Job, pc[k] \in Holding,
             NEW a \in Request[m].resources, NEW b \in Request[model[k]].resources
      PROVE  ~ Registry!conflicts(a, b)
    BY <1>1, <1>9 DEF IInv, Holds, Registry!Conflicting, Registry!Registered
<1>10. Apart'
    <2>. SUFFICES ASSUME NEW k \in Job, NEW l \in Job, k # l, pc'[k] \in Holding, pc'[l] \in Holding,
                         NEW a \in Request[model'[k]].resources,
                         NEW b \in Request[model'[l]].resources
                  PROVE  ~ Registry!conflicts(a, b)
        BY DEF Apart, Registry!conflicts
    <2>1. CASE k = j
        BY <1>5, <1>9, <2>1 DEF SameFor
    <2>2. CASE l = j
        BY <1>5, <1>9, <2>2, ConflictsSymmetric DEF SameFor
    <2>3. CASE k # j /\ l # j
        BY <1>5, <2>3 DEF SameFor, IInv, Apart
    <2>. QED
        BY <2>1, <2>2, <2>3
<1>. QED
    BY <1>4, <1>5, <1>7, <1>8, <1>10, SameForKeeps DEF IInv

\* A stage that returns is one fewer to do; the upload is the last.
LEMMA StageReturnsIInv ==
    ASSUME IInv, NEW j \in Job, StageReturns(j)
    PROVE  IInv'
<1>1. PICK s \in Stage :
          /\ InStage(j, s)
          /\ todo' = [todo EXCEPT ![j] = @ \ {s}]
          /\ artifact' = [artifact EXCEPT ![j] = @ \cup ({s} \cap Effective(model[j]))]
          /\ uploaded' = IF s = "upload" THEN [uploaded EXCEPT ![j] = artifact[j]] ELSE uploaded
    BY DEF StageReturns
<1>2. /\ pc[j] = "stages"
      /\ UNCHANGED <<holders, phase, pc, model, err, panicking, record, temp, notice>>
    BY DEF StageReturns
<1>3. Shape'
    <2>1. Effective(model[j]) \subseteq Making
        BY <1>2, EffectiveMakes DEF IInv, Follows, Works, DataFollows
    <2>2. /\ artifact' \in [Job -> SUBSET Making]
          /\ uploaded' \in [Job -> {None} \cup SUBSET Making]
        BY <1>1, <2>1 DEF IInv, Shape
    <2>3. todo' \in [Job -> SUBSET Stage]
        BY <1>1 DEF IInv, Shape
    <2>. QED
        BY <1>2, <2>2, <2>3 DEF IInv, Shape
<1>4. \A k \in Job \ {j} : SameFor(k)
    BY <1>1, <1>2 DEF IInv, Shape, SameFor
<1>5. /\ todo'[j] = todo[j] \ {s} /\ artifact'[j] = artifact[j] \cup ({s} \cap Effective(model[j]))
      /\ uploaded'[j] = IF s = "upload" THEN artifact[j] ELSE uploaded[j]
    BY <1>1 DEF IInv, Shape
<1>6. Works(j) /\ todo[j] \subseteq Stage
    BY <1>2 DEF IInv, Follows, Shape
<1>7. s \in todo[j] /\ \A u \in todo[j] : StageOrder[s] <= StageOrder[u]
    BY <1>1 DEF InStage
<1>8. "upload" \in todo[j]
    BY <1>6, <1>7 DEF Works, DataFollows
<1>9. s = "upload" => todo[j] = {"upload"}
    <2>. SUFFICES ASSUME s = "upload", NEW u \in todo[j], u # "upload" PROVE FALSE
        BY <1>8
    <2>1. u \in {"dump", "archive", "compress", "encrypt", "split"}
        BY <1>6 DEF Stage, StageOrder
    <2>2. StageOrder[u] < StageOrder["upload"]
        BY <2>1 DEF StageOrder
    <2>3. StageOrder["upload"] <= StageOrder[u] /\ StageOrder[u] \in Nat /\ StageOrder["upload"] \in Nat
        BY <1>7, <2>1 DEF StageOrder
    <2>. QED
        BY <2>2, <2>3
<1>10. DataFollows(j)'
    <2>1. model'[j] \in Model /\ todo'[j] \subseteq StagesOf(model'[j])
        BY <1>2, <1>5, <1>6 DEF Works, DataFollows
    <2>3. artifact'[j] = Effective(model[j]) \ todo'[j]
        BY <1>2, <1>5, <1>6, <1>7 DEF Works, DataFollows
    <2>4. CASE s = "upload"
        <3>1. todo'[j] = {} /\ "upload" \notin Effective(model[j])
            BY <1>5, <1>6, <1>9, <2>4, EffectiveMakes DEF Works, DataFollows, Making
        <3>2. uploaded'[j] = artifact'[j]
            BY <1>5, <2>4, <3>1
        <3>. QED
            BY <1>2, <2>1, <2>3, <3>1, <3>2 DEF DataFollows
    <2>5. CASE s # "upload"
        <3>1. "upload" \in todo'[j] /\ uploaded'[j] = None
            BY <1>5, <1>6, <1>8, <2>5 DEF Works, DataFollows
        <3>. QED
            BY <1>2, <2>1, <2>3, <3>1 DEF DataFollows
    <2>. QED
        BY <2>4, <2>5
<1>11. Follows(j)'
    BY <1>2, <1>6, <1>10 DEF Follows, Works
<1>12. Holds(j)'
    BY <1>2 DEF IInv, Holds, Registry!NotHeld
<1>. QED
    BY <1>2, <1>3, <1>4, <1>11, <1>12, OneJob

\* Every step keeps the invariant.
LEMMA NextIInv == IInv /\ [Next]_vars => IInv'
<1>. SUFFICES ASSUME IInv, [Next]_vars PROVE IInv'
    OBVIOUS
<1>. USE DEF Goto
<1>1. ASSUME NEW j \in Job, NEW m \in Model, Lock(j, m) PROVE IInv'
    BY <1>1, LockIInv
<1>2. ASSUME NEW j \in Job, NEW m \in Model, Skip(j, m) PROVE IInv'
    <2>1. /\ pc[j] = "idle" /\ pc' = [pc EXCEPT ![j] = "skipped"]
          /\ phase' = [phase EXCEPT ![j] = "refused"]
          /\ UNCHANGED <<holders, model, todo, err, panicking, artifact, uploaded, record, temp, notice>>
        BY <1>2 DEF Skip, Registry!Refuse
    <2>2. Shape' /\ \A k \in Job \ {j} : SameFor(k)
        BY <2>1 DEF IInv, Shape, Pc, SameFor
    <2>3. Holds(j)' /\ Follows(j)' /\ pc'[j] \notin Holding /\ model'[j] = model[j]
        BY <2>1 DEF IInv, Shape, Holds, Holding, Follows, Waits, Fresh
    <2>. QED
        BY <2>2, <2>3, OneJob
<1>3. ASSUME NEW j \in Job, BeginRecord(j) PROVE IInv'
    <2>1. /\ pc[j] = "locked" /\ pc' = [pc EXCEPT ![j] = "started"]
          /\ record' = [record EXCEPT ![j] = "running"]
          /\ holders' = IF j \in Registry!Registered THEN [holders EXCEPT ![j].runID = j] ELSE holders
          /\ UNCHANGED <<phase, model, todo, err, panicking, artifact, uploaded, temp, notice>>
        BY <1>3 DEF BeginRecord, Registry!BindRunID
    <2>2. /\ Holds(j) /\ Follows(j) /\ pc[j] \in Holding
          /\ holders[j] \in [model : Model, resources : SUBSET Resources, runID : {None} \cup Job]
        BY <2>1 DEF IInv, Shape, Holds, Holding
    <2>3. holders' = [holders EXCEPT ![j] = [holders[j] EXCEPT !.runID = j]]
        BY <2>1, <2>2 DEF Registry!Registered, Holds
    <2>4. /\ [holders[j] EXCEPT !.runID = j]
                \in [model : Model, resources : SUBSET Resources, runID : {None} \cup Job]
          /\ [holders[j] EXCEPT !.runID = j].resources = holders[j].resources
          /\ [holders[j] EXCEPT !.runID = j].model \in Model
        BY <2>2
    <2>5. Shape' /\ \A k \in Job \ {j} : SameFor(k)
        BY <2>1, <2>3, <2>4 DEF IInv, Shape, Pc, SameFor
    <2>6. /\ holders'[j].resources = holders[j].resources /\ holders'[j].model \in Model
          /\ pc'[j] = "started" /\ record'[j] = "running" /\ model'[j] = model[j]
        BY <2>1, <2>3, <2>4 DEF IInv, Shape
    <2>7. holders'[j] # Registry!NotHeld
        BY <2>6, RunAssumption DEF Registry!NotHeld
    <2>8. Holds(j)'
        BY <2>2, <2>6, <2>7 DEF Holds, Registry!NotHeld
    <2>9. Follows(j)'
        BY <2>1, <2>2, <2>6 DEF Follows, Begins, Fresh
    <2>. QED
        BY <2>2, <2>5, <2>6, <2>8, <2>9, OneJob
<1>4. ASSUME NEW j \in Job, BeginWithoutRecord(j) PROVE IInv'
    <2>1. /\ pc[j] = "locked" /\ pc' = [pc EXCEPT ![j] = "started"]
          /\ UNCHANGED <<holders, phase, model, todo, err, panicking, artifact, uploaded, record,
                         temp, notice>>
        BY <1>4 DEF BeginWithoutRecord
    <2>2. Shape' /\ \A k \in Job \ {j} : SameFor(k)
        BY <2>1 DEF IInv, Shape, Pc, SameFor
    <2>3. pc'[j] = "started" /\ model'[j] = model[j] /\ pc[j] \in Holding
        BY <2>1 DEF IInv, Shape, Holding
    <2>4. Holds(j)' /\ Follows(j)'
        BY <2>1, <2>3 DEF IInv, Holds, Follows, Begins, Fresh, Registry!NotHeld
    <2>. QED
        BY <2>2, <2>3, <2>4, OneJob
<1>5. ASSUME NEW j \in Job, EnterRun(j) PROVE IInv'
    <2>1. /\ pc[j] = "started" /\ pc' = [pc EXCEPT ![j] = "stages"]
          /\ temp' = [temp EXCEPT ![j] = TRUE]
          /\ UNCHANGED <<holders, phase, model, todo, err, panicking, artifact, uploaded, record, notice>>
        BY <1>5 DEF EnterRun
    <2>2. Shape' /\ \A k \in Job \ {j} : SameFor(k)
        BY <2>1 DEF IInv, Shape, Pc, SameFor
    <2>3. pc'[j] = "stages" /\ model'[j] = model[j] /\ pc[j] \in Holding
        BY <2>1 DEF IInv, Shape, Holding
    <2>4. Begins(j)
        BY <2>1 DEF IInv, Follows
    <2>5. Effective(model[j]) \ StagesOf(model[j]) = {} /\ "upload" \in StagesOf(model[j])
        BY DEF StagesOf, Effective
    <2>6. Works(j)'
        BY <2>1, <2>4, <2>5 DEF Begins, Works, DataFollows, Fresh
    <2>7. Holds(j)' /\ Follows(j)'
        BY <2>1, <2>3, <2>6 DEF IInv, Holds, Follows, Registry!NotHeld
    <2>. QED
        BY <2>2, <2>3, <2>7, OneJob
<1>6. ASSUME NEW j \in Job, StageReturns(j) PROVE IInv'
    BY <1>6, StageReturnsIInv
<1>7. ASSUME NEW j \in Job, StageFails(j) \/ StagePanics(j) \/ RunReturns(j) PROVE IInv'
    <2>1. /\ pc[j] = "stages" /\ pc' = [pc EXCEPT ![j] = "unwinding"]
          /\ UNCHANGED <<holders, phase, model, todo, artifact, uploaded, record, temp, notice>>
          /\ \/ todo[j] # {} /\ err' = [err EXCEPT ![j] = "error"] /\ panicking' = panicking
             \/ todo[j] # {} /\ panicking' = [panicking EXCEPT ![j] = TRUE] /\ err' = err
             \/ todo[j] = {} /\ err' = err /\ panicking' = panicking
        BY <1>7 DEF StageFails, StagePanics, RunReturns
    <2>2. Shape' /\ \A k \in Job \ {j} : SameFor(k)
        <3>1. /\ pc' \in [Job -> Pc] /\ err' \in [Job -> {"nil", "error"}]
              /\ panicking' \in [Job -> BOOLEAN]
            BY <2>1 DEF IInv, Shape, Pc
        <3>2. Shape'
            BY <2>1, <3>1 DEF IInv, Shape
        <3>3. \A k \in Job \ {j} : SameFor(k)
            BY <2>1 DEF IInv, Shape, SameFor
        <3>. QED
            BY <3>2, <3>3
    <2>3. pc'[j] = "unwinding" /\ model'[j] = model[j] /\ pc[j] \in Holding
        BY <2>1 DEF IInv, Shape, Holding
    <2>4. Works(j)
        BY <2>1 DEF IInv, Follows
    <2>5. todo[j] = {} <=> err'[j] = "nil" /\ ~ panicking'[j]
        BY <2>1, <2>4 DEF Works, IInv, Shape
    <2>6. Unwinds(j)'
        BY <2>1, <2>4, <2>5 DEF Works, Unwinds, DataFollows
    <2>7. Holds(j)' /\ Follows(j)'
        BY <2>1, <2>3, <2>6 DEF IInv, Holds, Follows, Registry!NotHeld
    <2>. QED
        BY <2>2, <2>3, <2>7, OneJob
<1>8. ASSUME NEW j \in Job, RecoverAndClean(j) PROVE IInv'
    <2>1. /\ pc[j] = "unwinding" /\ pc' = [pc EXCEPT ![j] = "cleaned"]
          /\ err' = [err EXCEPT ![j] = IF panicking[j] THEN "error" ELSE err[j]]
          /\ panicking' = [panicking EXCEPT ![j] = FALSE]
          /\ temp' = [temp EXCEPT ![j] = FALSE]
          /\ UNCHANGED <<holders, phase, model, todo, artifact, uploaded, record, notice>>
        BY <1>8 DEF RecoverAndClean, IInv, Shape
    <2>2. Shape' /\ \A k \in Job \ {j} : SameFor(k)
        BY <2>1 DEF IInv, Shape, Pc, SameFor
    <2>3. pc'[j] = "cleaned" /\ model'[j] = model[j] /\ pc[j] \in Holding
        BY <2>1 DEF IInv, Shape, Holding
    <2>4. Unwinds(j)
        BY <2>1 DEF IInv, Follows
    <2>5. /\ todo[j] = {} <=> err'[j] = "nil"
          /\ ~ temp'[j]
        BY <2>1, <2>4 DEF Unwinds, IInv, Shape
    <2>6. Ends(j)'
        BY <2>1, <2>3, <2>4, <2>5 DEF Unwinds, Ends, DataFollows
    <2>7. Holds(j)' /\ Follows(j)'
        BY <2>1, <2>3, <2>6 DEF IInv, Holds, Follows, Registry!NotHeld
    <2>. QED
        BY <2>2, <2>3, <2>7, OneJob
<1>9. ASSUME NEW j \in Job, Notify(j) PROVE IInv'
    <2>1. /\ pc[j] = "cleaned" /\ pc' = [pc EXCEPT ![j] = "notified"]
          /\ notice' = [notice EXCEPT ![j] = notice[j] \cup {Result(err[j])}]
          /\ UNCHANGED <<holders, phase, model, todo, err, panicking, artifact, uploaded, record,
                         temp>>
        BY <1>9 DEF Notify, IInv, Shape
    <2>2. Shape' /\ \A k \in Job \ {j} : SameFor(k)
        BY <2>1 DEF IInv, Shape, Pc, SameFor, Result
    <2>3. pc'[j] = "notified" /\ model'[j] = model[j] /\ pc[j] \in Holding
        BY <2>1 DEF IInv, Shape, Holding
    <2>4. Ends(j)
        BY <2>1 DEF IInv, Follows
    <2>5. notice'[j] = {Result(err[j])}
        BY <2>1, <2>4 DEF Ends, IInv, Shape
    <2>6. Ends(j)'
        BY <2>1, <2>3, <2>4, <2>5 DEF Ends, DataFollows, Result
    <2>7. Holds(j)' /\ Follows(j)'
        BY <2>1, <2>3, <2>6 DEF IInv, Holds, Follows, Registry!NotHeld
    <2>. QED
        BY <2>2, <2>3, <2>7, OneJob
<1>10. ASSUME NEW j \in Job, EndRecord(j) PROVE IInv'
    <2>1. /\ pc[j] = "notified" /\ pc' = [pc EXCEPT ![j] = "recorded"]
          /\ record' = [record EXCEPT ![j] = IF record[j] = None THEN None ELSE Result(err[j])]
          /\ UNCHANGED <<holders, phase, model, todo, err, panicking, artifact, uploaded, temp, notice>>
        BY <1>10 DEF EndRecord, IInv, Shape
    <2>2. Shape' /\ \A k \in Job \ {j} : SameFor(k)
        BY <2>1 DEF IInv, Shape, Pc, SameFor, Result
    <2>3. pc'[j] = "recorded" /\ model'[j] = model[j] /\ pc[j] \in Holding
        BY <2>1 DEF IInv, Shape, Holding
    <2>4. Ends(j)
        BY <2>1 DEF IInv, Follows
    <2>5. record'[j] \in {None, Result(err[j])}
        BY <2>1 DEF IInv, Shape
    <2>6. Ends(j)'
        BY <2>1, <2>3, <2>4, <2>5 DEF Ends, DataFollows, Result
    <2>7. Holds(j)' /\ Follows(j)'
        BY <2>1, <2>3, <2>6 DEF IInv, Holds, Follows, Registry!NotHeld
    <2>. QED
        BY <2>2, <2>3, <2>7, OneJob
<1>11. ASSUME NEW j \in Job, Release(j) PROVE IInv'
    <2>1. /\ pc[j] = "recorded" /\ pc' = [pc EXCEPT ![j] = "done"]
          /\ holders' = [holders EXCEPT ![j] = Registry!NotHeld]
          /\ phase' = [phase EXCEPT ![j] = "released"]
          /\ UNCHANGED <<model, todo, err, panicking, artifact, uploaded, record, temp, notice>>
        BY <1>11 DEF Release, Registry!Release
    <2>2. Shape' /\ \A k \in Job \ {j} : SameFor(k)
        BY <2>1 DEF IInv, Shape, Pc, SameFor
    <2>3. pc'[j] = "done" /\ model'[j] = model[j] /\ pc'[j] \notin Holding
        BY <2>1 DEF IInv, Shape, Holding
    <2>4. Ends(j)
        BY <2>1 DEF IInv, Follows
    <2>5. Ends(j)'
        BY <2>1, <2>3, <2>4 DEF Ends, DataFollows, Result
    <2>6. Holds(j)' /\ Follows(j)'
        BY <2>3, <2>5 DEF Holds, Follows
    <2>. QED
        BY <2>2, <2>3, <2>6, OneJob
<1>12. CASE UNCHANGED vars
    <2>1. Shape' /\ \A k \in Job : SameFor(k)
        BY <1>12 DEF vars, local, IInv, Shape, SameFor
    <2>2. Apart'
        BY <1>12 DEF vars, local, IInv, Apart, Registry!conflicts
    <2>. QED
        BY <2>1, <2>2, SameForKeeps DEF IInv
<1>. QED
    BY <1>1, <1>2, <1>3, <1>4, <1>5, <1>6, <1>7, <1>8, <1>9, <1>10, <1>11, <1>12
    DEF Next, Progress

\* The invariant holds of every behaviour.
LEMMA SpecIInv == Spec => []IInv
BY InitIInv, NextIInv, PTL DEF Spec

-------------------------------------------------------------------------------

(***************************************************************************)
(* A record says success exactly when the backup was uploaded with the     *)
(* work of all stages configured in types the program knows, for any       *)
(* stages and types, whatever fails or panics (model.go, Run).             *)
(***************************************************************************)
THEOREM OutcomesAreTrue == Spec => []OutcomeIsTrue
<1>1. IInv => OutcomeIsTrue
    <2>. SUFFICES ASSUME IInv, NEW j \in Job, record[j] \in {"success", "failure"}
                  PROVE  record[j] = "success" <=>
                            /\ todo[j] = {}
                            /\ uploaded[j] # None
                            /\ uploaded[j] = Effective(model[j])
        BY DEF OutcomeIsTrue
    <2>1. record[j] \notin {None, "running"} /\ pc[j] \in Pc
        BY RunAssumption DEF IInv, Shape
    <2>2. Ends(j) /\ pc[j] \in {"recorded", "done"}
        BY <2>1 DEF IInv, Follows, Waits, Begins, Works, Unwinds, Ends, Pc
    <2>3. record[j] = Result(err[j])
        BY <2>1, <2>2 DEF Ends
    <2>4. record[j] = "success" <=> todo[j] = {}
        BY <2>2, <2>3 DEF Ends, Result
    <2>5. todo[j] = {} => uploaded[j] = Effective(model[j])
        BY <2>2 DEF Ends, DataFollows
    <2>6. Effective(model[j]) # None
        BY <2>2, EffectiveMakes DEF Ends, DataFollows
    <2>. QED
        BY <2>4, <2>5, <2>6
<1>. QED
    BY <1>1, SpecIInv, PTL

(***************************************************************************)
(* A backup that is over has sent one kind of notice, the one its record   *)
(* states (model.go, Run).                                                 *)
(***************************************************************************)
THEOREM NoticesMatch == Spec => []NoticeMatchesRecord
<1>1. IInv => NoticeMatchesRecord
    <2>. SUFFICES ASSUME IInv, NEW j \in Job, pc[j] \in {"recorded", "done"}
                  PROVE  /\ notice[j] = {Result(err[j])}
                         /\ record[j] # None => notice[j] = {record[j]}
                         /\ uploaded[j] = None => notice[j] = {"failure"}
        BY DEF NoticeMatchesRecord
    <2>1. Ends(j)
        BY DEF IInv, Follows
    <2>2. notice[j] = {Result(err[j])} /\ (record[j] # None => record[j] = Result(err[j]))
        BY <2>1 DEF Ends
    <2>3. Effective(model[j]) # None
        BY <2>1, EffectiveMakes DEF Ends, DataFollows
    <2>4. uploaded[j] = None => err[j] # "nil"
        BY <2>1, <2>3 DEF Ends, DataFollows
    <2>. QED
        BY <2>2, <2>4 DEF Result
<1>. QED
    BY <1>1, SpecIInv, PTL

(***************************************************************************)
(* Two backups whose requests exclude each other never both use their      *)
(* temporary directory or have a running record (model.go, Start, Release).*)
(***************************************************************************)
THEOREM LocksCover == Spec => []LocksCoverTheRun
<1>1. IInv => LocksCoverTheRun
    <2>1. ASSUME IInv, NEW j \in Job, temp[j] \/ record[j] = "running"
          PROVE  pc[j] \in Holding
        <3>1. pc[j] \in Pc /\ "running" # None
            BY <2>1, RunAssumption DEF IInv, Shape
        <3>2. pc[j] \notin {"idle", "skipped", "done"}
            BY <2>1, <3>1 DEF IInv, Follows, Waits, Ends, Result
        <3>. QED
            BY <3>1, <3>2 DEF Pc, Holding
    <2>. QED
        BY <2>1 DEF IInv, Apart, LocksCoverTheRun
<1>. QED
    BY <1>1, SpecIInv, PTL

-------------------------------------------------------------------------------
(* The pipeline and the registry.                                          *)

\* The registry with what is proved of it.
TR == INSTANCE TaskRegistryProofs
    WITH Task     <- Job,
         Instance <- {r.instance : r \in Resources} \ {None},
         Target   <- {r.target : r \in Resources} \ {None},
         Request  <- {Request[m] : m \in Model}

\* Each step of a backup is one call of the registry, or none.
LEMMA StepsAreCalls == [Next]_vars => [TR!Next]_(TR!vars)
<1>. SUFFICES ASSUME [Next]_vars PROVE [TR!Next]_(TR!vars)
    OBVIOUS
<1>1. ASSUME NEW j \in Job, NEW m \in Model, Lock(j, m) \/ Skip(j, m) PROVE TR!Next
    <2>1. TR!Acquire(j, Request[m]) \/ TR!Refuse(j, Request[m])
        BY <1>1 DEF Lock, Skip, Registry!Acquire, TR!Acquire, Registry!Refuse, TR!Refuse,
           Registry!Conflicting, TR!Conflicting, Registry!Registered, TR!Registered,
           Registry!NotHeld, TR!NotHeld, Registry!conflicts, TR!conflicts
    <2>. QED
        BY <2>1 DEF TR!Next
<1>2. ASSUME NEW j \in Job, BeginRecord(j) PROVE TR!Next
    <2>1. TR!BindRunID(j)
        BY <1>2 DEF BeginRecord, Registry!BindRunID, TR!BindRunID,
           Registry!Registered, TR!Registered, Registry!NotHeld, TR!NotHeld
    <2>. QED
        BY <2>1 DEF TR!Next
<1>3. ASSUME NEW j \in Job, Release(j) PROVE TR!Next
    <2>1. TR!Release(j)
        BY <1>3 DEF Release, Registry!Release, TR!Release, Registry!NotHeld, TR!NotHeld
    <2>. QED
        BY <2>1 DEF TR!Next
<1>4. ASSUME NEW j \in Job, Progress(j), ~ BeginRecord(j), ~ Release(j)
      PROVE  UNCHANGED TR!vars
    BY <1>4 DEF Progress, BeginWithoutRecord, EnterRun, StageReturns, StageFails, StagePanics,
       RunReturns, RecoverAndClean, Notify, EndRecord, TR!vars
<1>5. CASE UNCHANGED vars
    BY <1>5 DEF vars, TR!vars
<1>. QED
    BY <1>1, <1>2, <1>3, <1>4, <1>5 DEF Next

(***************************************************************************)
(* On every path of returns, errors and panics a backup calls the registry *)
(* as the registry is specified (Start, Release and bindRun of model.go).  *)
(***************************************************************************)
THEOREM PipelineUsesTheRegistry == Spec => TR!Spec
<1>1. Init => TR!Init
    BY DEF Init, Registry!Init, TR!Init, Registry!NotHeld, TR!NotHeld
<1>. QED
    BY <1>1, StepsAreCalls, PTL DEF Spec, TR!Spec

\* What is assumed of the requests is what the registry assumes.
LEMMA RegistryAssumption == TR!RequestAssumption
BY RequestsAssumption
DEF Registry!RequestAssumption, TR!RequestAssumption, Registry!Resource, TR!Resource,
    Registry!Kind, TR!Kind, Registry!KindModel, TR!KindModel, Registry!KindDatabase,
    TR!KindDatabase, Registry!AllResources, TR!AllResources

(***************************************************************************)
(* So the pipeline owns what it touches: each point has one owner at most, *)
(* taken with all the others of its backup and given back with them,       *)
(* whatever stage fails or panics.                                         *)
(***************************************************************************)
THEOREM PipelineOwnsExclusively == Spec => TR!ImplementsOwnership
<1>1. TR!Spec => TR!ImplementsOwnership
    BY RegistryAssumption, TR!Refinement DEF TR!RequestAssumption
<1>. QED
    BY <1>1, PipelineUsesTheRegistry, PTL

(***************************************************************************)
(* A backup is registered from its lock to its release and at no other     *)
(* time, with the late BindRunID of a run's record as well.                *)
(***************************************************************************)
THEOREM PipelineLosesNoLock == Spec => []Registry!RegisteredIffGranted
<1>1. TR!Spec => []TR!RegisteredIffGranted
    BY RegistryAssumption, TR!NoLockLostOrLeaked DEF TR!RequestAssumption
<1>2. TR!RegisteredIffGranted => Registry!RegisteredIffGranted
    BY DEF TR!RegisteredIffGranted, Registry!RegisteredIffGranted, TR!Registered,
       Registry!Registered, TR!NotHeld, Registry!NotHeld
<1>. QED
    BY <1>1, <1>2, PipelineUsesTheRegistry, PTL

-------------------------------------------------------------------------------
(* The pipeline and the backups it promises.                               *)

\* Only a backup between its locks and their release is registered.
Held == \A j \in Job : holders[j] # Registry!NotHeld => pc[j] \in Holding

\* With IInv: what is registered are the backups that are running.
RunInv == IInv /\ Held

\* A step of a backup between its locks and their release leaves it there, with the
\* same model, and registers nobody.
LEMMA InsideSteps ==
    ASSUME RunInv, NEW j \in Job, Progress(j), ~ Release(j)
    PROVE  /\ pc[j] \in Holding /\ pc'[j] \in Holding
           /\ model' = model
           /\ \A k \in Job \ {j} : pc'[k] = pc[k] /\ err'[k] = err[k]
           /\ \A k \in Job : holders'[k] # Registry!NotHeld => holders[k] # Registry!NotHeld
<1>1. pc \in [Job -> Pc] /\ err \in [Job -> {"nil", "error"}]
    BY DEF RunInv, IInv, Shape
<1>2. CASE BeginRecord(j)
    <2>1. /\ pc[j] = "locked" /\ pc' = [pc EXCEPT ![j] = "started"]
          /\ holders' = IF j \in Registry!Registered THEN [holders EXCEPT ![j].runID = j] ELSE holders
          /\ UNCHANGED <<model, err>>
        BY <1>2 DEF BeginRecord, Registry!BindRunID, Goto
    <2>2. \A k \in Job : holders'[k] # Registry!NotHeld => holders[k] # Registry!NotHeld
        BY <2>1 DEF Registry!Registered, RunInv, IInv, Shape
    <2>. QED
        BY <1>1, <2>1, <2>2 DEF Holding
<1>3. CASE ~ BeginRecord(j)
    <2>1. UNCHANGED <<holders, model>>
        BY <1>3 DEF Progress, BeginWithoutRecord, EnterRun, StageReturns, StageFails, StagePanics,
           RunReturns, RecoverAndClean, Notify, EndRecord
    <2>2. /\ pc[j] \in Holding /\ pc'[j] \in Holding
          /\ \A k \in Job \ {j} : pc'[k] = pc[k] /\ err'[k] = err[k]
        BY <1>1, <1>3 DEF Progress, BeginWithoutRecord, EnterRun, StageReturns, StageFails,
           StagePanics, RunReturns, RecoverAndClean, Notify, EndRecord, Goto, Holding
    <2>. QED
        BY <2>1, <2>2, RunAssumption DEF Registry!NotHeld
<1>. QED
    BY <1>2, <1>3

LEMMA RunInvHolds == Spec => []RunInv
<1>1. Init => RunInv
    BY InitIInv DEF RunInv, Held, Init, Registry!Init
<1>2. ASSUME RunInv, [Next]_vars PROVE RunInv'
    <2>1. IInv' /\ Shape /\ Held
        BY <1>2, NextIInv DEF RunInv, IInv
    <2>. SUFFICES Held'
        BY <2>1 DEF RunInv
    <2>2. ASSUME NEW j \in Job, NEW m \in Model, Lock(j, m) PROVE Held'
        <3>1. pc' = [pc EXCEPT ![j] = "locked"] /\ \A k \in Job \ {j} : holders'[k] = holders[k]
            BY <2>1, <2>2 DEF Lock, Goto, Registry!Acquire, Shape
        <3>. QED
            BY <2>1, <3>1 DEF Held, Holding, Shape, Registry!NotHeld
    <2>3. ASSUME NEW j \in Job, NEW m \in Model, Skip(j, m) PROVE Held'
        BY <2>1, <2>3 DEF Skip, Goto, Registry!Refuse, Held, Holding, Shape, Registry!NotHeld
    <2>4. ASSUME NEW j \in Job, Release(j) PROVE Held'
        <3>1. /\ holders'[j] = Registry!NotHeld
              /\ \A k \in Job \ {j} : holders'[k] = holders[k] /\ pc'[k] = pc[k]
            BY <2>1, <2>4 DEF Release, Goto, Registry!Release, Shape
        <3>. QED
            BY <2>1, <3>1 DEF Held, Registry!NotHeld
    <2>5. ASSUME NEW j \in Job, Progress(j), ~ Release(j) PROVE Held'
        BY <1>2, <2>1, <2>5, InsideSteps DEF Held, Registry!NotHeld
    <2>6. CASE UNCHANGED vars
        BY <2>1, <2>6 DEF Held, vars, local, Registry!NotHeld
    <2>. QED
        BY <1>2, <2>2, <2>3, <2>4, <2>5, <2>6 DEF Next
<1>. QED
    BY <1>1, <1>2, PTL DEF Spec

Seeing == [j \in Job |-> Seen(j)]

\* A backup's state outside is running exactly between its locks and their release.
LEMMA SeenRunning ==
    ASSUME RunInv, NEW j \in Job
    PROVE  /\ pc[j] \in Holding => Seeing[j] = Promised!Running(model[j])
           /\ pc[j] \notin Holding => Seeing[j].is # "running"
<1>1. pc[j] \in Pc
    BY DEF RunInv, IInv, Shape
<1>2. CASE pc[j] \in Holding
    BY <1>2 DEF Seeing, Seen, Holding, Promised!Running
<1>3. CASE pc[j] \notin Holding
    <2>1. pc[j] \in {"idle", "skipped", "done"}
        BY <1>1, <1>3 DEF Pc, Holding
    <2>. QED
        BY <1>3, <2>1 DEF Seeing, Seen
<1>. QED
    BY <1>2, <1>3

\* The registry finds a conflict exactly if a backup in the way is running.
LEMMA ConflictIsInTheWay ==
    ASSUME RunInv, NEW m \in Model
    PROVE  Registry!Conflicting(Request[m].resources) <=> Promised!InTheWay(m) # {}
<1>1. \A k \in Job : k \in Registry!Registered <=> pc[k] \in Holding
    BY DEF RunInv, Held, IInv, Holds, Registry!Registered
<1>2. \A k \in Registry!Registered : holders[k].resources = Request[model[k]].resources
    BY <1>1 DEF RunInv, IInv, Holds, Registry!Registered
<1>3. \A k \in Job : k \in Promised!InTheWay(m) <=>
          k \in Registry!Registered /\ Excludes(m, model[k])
    BY <1>1, SeenRunning DEF Promised!InTheWay, Seeing, Promised!Running
<1>4. Promised!InTheWay(m) \subseteq Job /\ Registry!Registered \subseteq Job
    BY DEF Promised!InTheWay, Registry!Registered
<1>5. Registry!Conflicting(Request[m].resources) <=>
          \E k \in Registry!Registered : Excludes(m, model[k])
    BY <1>2 DEF Registry!Conflicting, Excludes
<1>. QED
    BY <1>3, <1>4, <1>5

\* A step that changes what is seen of one backup.
LEMMA OneSeen ==
    ASSUME NEW j \in Job, \A k \in Job \ {j} : pc'[k] = pc[k] /\ model'[k] = model[k] /\ err'[k] = err[k]
    PROVE  Seeing' = [Seeing EXCEPT ![j] = Seeing'[j]]
<1>1. \A k \in Job \ {j} : Seen(k)' = Seen(k)
    BY DEF Seen, Result
<1>. QED
    BY <1>1 DEF Seeing

\* Every step of the pipeline is a step that Backups allows, or none to be seen.
LEMMA StepIsPromised ==
    ASSUME RunInv, RunInv', [Next]_vars
    PROVE  [Promised!Next]_Seeing
<1>1. /\ pc \in [Job -> Pc] /\ model \in [Job -> Model \cup {None}]
      /\ err \in [Job -> {"nil", "error"}]
    BY DEF RunInv, IInv, Shape
<1>2. ASSUME NEW j \in Job, NEW m \in Model, Lock(j, m) PROVE Promised!Next
    <2>1. /\ pc[j] = "idle" /\ ~ Registry!Conflicting(Request[m].resources)
          /\ pc' = [pc EXCEPT ![j] = "locked"] /\ model' = [model EXCEPT ![j] = m]
          /\ err' = err
        BY <1>2 DEF Lock, Goto, Registry!Acquire
    <2>2. Seeing[j] = Promised!Waiting
        BY <2>1 DEF Seeing, Seen, Promised!Waiting
    <2>3. Seeing'[j] = Promised!Running(m)
        BY <1>1, <2>1 DEF Seeing, Seen, Promised!Running
    <2>4. Seeing' = [Seeing EXCEPT ![j] = Promised!Running(m)]
        BY <1>1, <2>1, <2>3, OneSeen
    <2>5. Promised!InTheWay(m) = {}
        BY <2>1, ConflictIsInTheWay
    <2>6. Promised!Start(j, m)
        BY <2>2, <2>4, <2>5 DEF Promised!Start, Seeing
    <2>. QED
        BY <2>6 DEF Promised!Next
<1>3. ASSUME NEW j \in Job, NEW m \in Model, Skip(j, m) PROVE Promised!Next
    <2>1. /\ pc[j] = "idle" /\ Registry!Conflicting(Request[m].resources)
          /\ pc' = [pc EXCEPT ![j] = "skipped"] /\ UNCHANGED <<model, err>>
        BY <1>3 DEF Skip, Goto, Registry!Refuse
    <2>2. Seeing[j] = Promised!Waiting
        BY <2>1 DEF Seeing, Seen, Promised!Waiting
    <2>3. Seeing'[j] = Promised!Refused
        BY <1>1, <2>1 DEF Seeing, Seen, Promised!Refused
    <2>4. Seeing' = [Seeing EXCEPT ![j] = Promised!Refused]
        BY <1>1, <2>1, <2>3, OneSeen
    <2>5. Promised!InTheWay(m) # {}
        BY <2>1, ConflictIsInTheWay
    <2>6. Promised!Refuse(j, m)
        BY <2>2, <2>4, <2>5 DEF Promised!Refuse, Seeing
    <2>. QED
        BY <2>6 DEF Promised!Next
<1>4. ASSUME NEW j \in Job, Release(j) PROVE Promised!Next
    <2>1. /\ pc[j] = "recorded" /\ pc' = [pc EXCEPT ![j] = "done"] /\ UNCHANGED <<model, err>>
        BY <1>4 DEF Release, Goto
    <2>2. Seeing[j] = Promised!Running(model[j])
        BY <2>1, SeenRunning DEF Holding
    <2>3. Seeing[j].is = "running" /\ Seeing[j].model = model[j]
        BY <2>2 DEF Promised!Running
    <2>4. Seeing'[j] = Promised!Ended(model[j], Result(err[j]))
        BY <1>1, <2>1 DEF Seeing, Seen, Promised!Ended, Result
    <2>5. Seeing' = [Seeing EXCEPT ![j] = Promised!Ended(Seeing[j].model, Result(err[j]))]
        BY <1>1, <2>1, <2>3, <2>4, OneSeen
    <2>6. Result(err[j]) \in {"success", "failure"}
        BY DEF Result
    <2>7. Promised!End(j)
        BY <2>3, <2>5, <2>6 DEF Promised!End, Seeing
    <2>. QED
        BY <2>7 DEF Promised!Next
<1>5. ASSUME NEW j \in Job, Progress(j), ~ Release(j) PROVE UNCHANGED Seeing
    <2>1. /\ pc[j] \in Holding /\ pc'[j] \in Holding /\ model' = model
          /\ \A k \in Job \ {j} : pc'[k] = pc[k] /\ err'[k] = err[k]
        BY <1>5, InsideSteps
    <2>2. Seen(j)' = Seen(j)
        BY <2>1 DEF Seen, Holding
    <2>3. \A k \in Job \ {j} : Seen(k)' = Seen(k)
        BY <2>1 DEF Seen, Result
    <2>. QED
        BY <2>2, <2>3 DEF Seeing
<1>6. CASE UNCHANGED vars
    BY <1>6 DEF vars, local, Seeing, Seen, Result
<1>. QED
    BY <1>2, <1>3, <1>4, <1>5, <1>6 DEF Next

(***************************************************************************)
(* For any triggers, models and locks, and whatever fails or panics on the *)
(* way: a trigger is refused exactly while a backup that excludes its own  *)
(* is running, and a backup that was started runs alone among those it     *)
(* excludes and ends once (model.go, Start and Run).                       *)
(***************************************************************************)
THEOREM PipelineImplementsBackups == Spec => ImplementsBackups
<1>1. Init => Promised!Init
    BY DEF Init, Promised!Init, Seen, Promised!Waiting
<1>2. RunInv /\ RunInv' /\ [Next]_vars => [Promised!Next]_Seeing
    BY StepIsPromised
<1>. QED
    BY <1>1, <1>2, RunInvHolds, PTL DEF Spec, ImplementsBackups, Promised!Spec, Seeing

-------------------------------------------------------------------------------
(* How far a backup still has to go.                                       *)

\* The places a backup comes to after this one, and its stages not completed yet.
After == [idle |-> 0, skipped |-> 0, locked |-> 7, started |-> 6, stages |-> 5,
          unwinding |-> 4, cleaned |-> 3, notified |-> 2, recorded |-> 1, done |-> 0]
Left(j) == After[pc[j]] + IF pc[j] \in {"locked", "started", "stages"}
                          THEN Cardinality(todo[j]) ELSE 0

\* Every step of a backup is one of the few it has left, and no step of another
\* gives it more of them, but for the one that begins it.
StepsAreUsedUp ==
    [][\A j \in Job :
          /\ Progress(j) => Left(j)' < Left(j)
          /\ pc[j] # "idle" => Left(j)' <= Left(j)]_vars

\* A backup that runs has a step to take: its locks are there to be released, what
\* has been begun has been completed.
NeverStuck ==
    \A j \in Job : pc[j] \in Holding =>
        /\ Left(j) \in 1..13
        /\ phase[j] = "granted"
        /\ pc[j] = "stages" /\ todo[j] # {} => \E s \in Stage : InStage(j, s)

LEMMA StagesAreSix == IsFiniteSet(Stage) /\ Cardinality(Stage) = 6
<1>. DEFINE S2 == {"dump", "archive"}  S3 == S2 \cup {"compress"}  S4 == S3 \cup {"encrypt"}
            S5 == S4 \cup {"split"}
<1>1. IsFiniteSet({"dump"}) /\ Cardinality({"dump"}) = 1
    BY FS_Singleton
<1>2. IsFiniteSet({"dump"} \cup {"archive"}) /\ Cardinality({"dump"} \cup {"archive"}) = 2
    BY <1>1, FS_AddElement
<1>3. {"dump"} \cup {"archive"} = S2
    OBVIOUS
<1>4. IsFiniteSet(S2) /\ Cardinality(S2) = 2
    BY <1>2, <1>3
<1>. HIDE DEF S2
<1>5. IsFiniteSet(S3) /\ Cardinality(S3) = 3
    BY <1>4, FS_AddElement DEF S2
<1>. HIDE DEF S3
<1>6. IsFiniteSet(S4) /\ Cardinality(S4) = 4
    BY <1>5, FS_AddElement DEF S3, S2
<1>. HIDE DEF S4
<1>7. IsFiniteSet(S5) /\ Cardinality(S5) = 5
    BY <1>6, FS_AddElement DEF S4, S3, S2
<1>. HIDE DEF S5
<1>8. IsFiniteSet(S5 \cup {"upload"}) /\ Cardinality(S5 \cup {"upload"}) = 6
    BY <1>7, FS_AddElement DEF S5, S4, S3, S2
<1>9. Stage = S5 \cup {"upload"}
    BY DEF Stage, StageOrder, S5, S4, S3, S2
<1>. QED
    BY <1>8, <1>9

LEMMA SomeAreTodo ==
    ASSUME NEW T \in SUBSET Stage
    PROVE  IsFiniteSet(T) /\ Cardinality(T) \in 0..6
<1>1. IsFiniteSet(T) /\ Cardinality(T) <= 6
    BY StagesAreSix, FS_Subset
<1>2. Cardinality(T) \in Nat
    BY <1>1, FS_CardinalityType
<1>. QED
    BY <1>1, <1>2

\* Each step is one place further, or one stage fewer.
LEMMA ProgressUsesAStep ==
    ASSUME RunInv, NEW j \in Job, Progress(j)
    PROVE  Left(j)' < Left(j) /\ \A k \in Job \ {j} : Left(k)' = Left(k)
<1>1. pc \in [Job -> Pc] /\ todo \in [Job -> SUBSET Stage]
    BY DEF RunInv, IInv, Shape
<1>2. IsFiniteSet(todo[j]) /\ Cardinality(todo[j]) \in 0..6
    BY <1>1, SomeAreTodo
<1>3. CASE StageReturns(j)
    <2>1. PICK s \in todo[j] : todo' = [todo EXCEPT ![j] = todo[j] \ {s}]
        BY <1>1, <1>3 DEF StageReturns, InStage
    <2>2. pc[j] = "stages" /\ pc' = pc
        BY <1>3 DEF StageReturns
    <2>3. Cardinality(todo[j] \ {s}) = Cardinality(todo[j]) - 1
        BY <1>2, <2>1, FS_RemoveElement
    <2>4. Left(j)' = 5 + Cardinality(todo[j] \ {s}) /\ Left(j) = 5 + Cardinality(todo[j])
        BY <1>1, <2>1, <2>2 DEF Left, After
    <2>5. \A k \in Job \ {j} : Left(k)' = Left(k)
        BY <1>1, <2>1, <2>2 DEF Left
    <2>. QED
        BY <1>2, <2>3, <2>4, <2>5
<1>4. CASE ~ StageReturns(j)
    <2>1. /\ todo' = todo
          /\ \A k \in Job \ {j} : pc'[k] = pc[k]
          /\ \/ pc[j] = "locked" /\ pc'[j] = "started"
             \/ pc[j] = "started" /\ pc'[j] = "stages"
             \/ pc[j] = "stages" /\ pc'[j] = "unwinding"
             \/ pc[j] = "unwinding" /\ pc'[j] = "cleaned"
             \/ pc[j] = "cleaned" /\ pc'[j] = "notified"
             \/ pc[j] = "notified" /\ pc'[j] = "recorded"
             \/ pc[j] = "recorded" /\ pc'[j] = "done"
        BY <1>1, <1>4 DEF Progress, BeginRecord, BeginWithoutRecord, EnterRun, StageFails,
           StagePanics, RunReturns, RecoverAndClean, Notify, EndRecord, Release, Goto
    <2>2. Left(j)' < Left(j)
        BY <1>2, <2>1 DEF Left, After
    <2>3. \A k \in Job \ {j} : Left(k)' = Left(k)
        BY <2>1 DEF Left
    <2>. QED
        BY <2>2, <2>3
<1>. QED
    BY <1>3, <1>4

\* The first stage to be done is the one with the smallest number.
LEMMA FirstStage ==
    ASSUME NEW j \in Job, todo[j] \in SUBSET Stage, todo[j] # {}
    PROVE  \E s \in Stage : InStage(j, s)
BY DEF InStage, Stage, StageOrder

(***************************************************************************)
(* The half of LocksAreReleased that is safety: a backup that holds its    *)
(* locks always has a step to take, which nobody else can take from it,    *)
(* and at most thirteen of them, whatever fails or panics (model.go, Run). *)
(***************************************************************************)
THEOREM BackupsRunOut == Spec => []NeverStuck /\ StepsAreUsedUp
<1>1. RunInv /\ Registry!RegisteredIffGranted => NeverStuck
    <2>. SUFFICES ASSUME RunInv, Registry!RegisteredIffGranted, NEW j \in Job, pc[j] \in Holding
                  PROVE  /\ Left(j) \in 1..13
                         /\ phase[j] = "granted"
                         /\ pc[j] = "stages" /\ todo[j] # {} => \E s \in Stage : InStage(j, s)
        BY DEF NeverStuck
    <2>1. todo[j] \in SUBSET Stage
        BY DEF RunInv, IInv, Shape
    <2>2. Left(j) \in 1..13
        BY <2>1, SomeAreTodo DEF Left, After, Holding
    <2>3. phase[j] = "granted"
        BY DEF RunInv, IInv, Holds, Registry!RegisteredIffGranted, Registry!Registered
    <2>. QED
        BY <2>1, <2>2, <2>3, FirstStage
<1>2. ASSUME RunInv, [Next]_vars, NEW j \in Job
      PROVE  /\ Progress(j) => Left(j)' < Left(j)
             /\ pc[j] # "idle" => Left(j)' <= Left(j)
    <2>1. pc \in [Job -> Pc] /\ todo \in [Job -> SUBSET Stage]
        BY <1>2 DEF RunInv, IInv, Shape
    <2>2. Left(j) \in Nat
        BY <2>1, SomeAreTodo DEF Left, After, Pc
    <2>3. ASSUME NEW k \in Job, NEW m \in Model, Lock(k, m) \/ Skip(k, m), pc[j] # "idle"
          PROVE  Left(j)' = Left(j)
        BY <2>1, <2>3 DEF Lock, Skip, Goto, Left
    <2>4. ASSUME NEW k \in Job, Progress(k), k # j
          PROVE  Left(j)' = Left(j)
        BY <1>2, <2>4, ProgressUsesAStep
    <2>5. Progress(j) => Left(j)' < Left(j) /\ Left(j)' \in Nat
        <3>. SUFFICES ASSUME Progress(j) PROVE Left(j)' < Left(j) /\ Left(j)' \in Nat
            OBVIOUS
        <3>1. pc'[j] \in Pc /\ todo'[j] \in SUBSET Stage
            BY <1>2, NextIInv DEF RunInv, IInv, Shape
        <3>2. Left(j)' \in Nat
            BY <3>1, SomeAreTodo DEF Left, After, Pc
        <3>. QED
            BY <1>2, <3>2, ProgressUsesAStep
    <2>6. ASSUME UNCHANGED vars PROVE Left(j)' = Left(j)
        BY <2>6 DEF vars, local, Left
    <2>. QED
        BY <1>2, <2>2, <2>3, <2>4, <2>5, <2>6 DEF Next
<1>3. RunInv /\ [Next]_vars =>
      [\A j \in Job : /\ Progress(j) => Left(j)' < Left(j)
                      /\ pc[j] # "idle" => Left(j)' <= Left(j)]_vars
    BY <1>2
<1>. QED
    BY <1>1, <1>3, RunInvHolds, PipelineLosesNoLock, PTL DEF Spec, StepsAreUsedUp
===============================================================================
