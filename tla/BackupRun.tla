-------------------------------- MODULE BackupRun --------------------------------
(***************************************************************************)
(* One backup from trigger to release (model/model.go): Start takes the    *)
(* locks and begins the run record, Run goes through the stages and then   *)
(* through its deferred functions, last registered first.  Any number of   *)
(* triggers (schedule, web, CLI) do this at the same time; the registry of *)
(* TaskRegistry is what they share.                                        *)
(*                                                                         *)
(* A stage returns, returns an error or panics; what it does to the data   *)
(* is left to other modules.  A run is abstracted to its record's status;  *)
(* how that gets to disk is RunLog.                                        *)
(***************************************************************************)
EXTENDS Naturals, FiniteSets

CONSTANTS Job,         \* triggers, each of which tries to run one backup
          Configured,  \* the optional stages of each model: [Model -> SUBSET Stage]
          Unknown,     \* of these, the ones of a type the program does not know
                       \* and passes over: [Model -> SUBSET Stage]
          Request,     \* what each model locks: [Model -> request of TaskRegistry]
          None

Model == DOMAIN Configured

\* The stages in the order of Run, and those that make or change the archive.
StageOrder == [dump |-> 1, archive |-> 2, compress |-> 3, encrypt |-> 4, split |-> 5,
               upload |-> 6]
Stage      == DOMAIN StageOrder
Making     == Stage \ {"upload"}

ASSUME RunAssumption ==
    /\ Configured \in [Model -> SUBSET Making]
    /\ Unknown \in [Model -> SUBSET {"dump", "encrypt"}]
    /\ \A m \in Model : Request[m].model = m
    /\ None \notin Model \cup Job
    /\ \A made \in SUBSET Making : made # None
    /\ None \notin {"running", "success", "failure"}

\* The stages a backup of m goes through; the upload is not optional.
StagesOf(m) == Configured[m] \cup {"upload"}

\* Those that do their work: a database or an encrypt_with of a type that is not
\* known is passed over with nil, a compress_with of one is an error.
Effective(m) == Configured[m] \ Unknown[m]

Resources == UNION {Request[m].resources : m \in Model}

VARIABLES holders, phase,  \* the registry, see TaskRegistry
          pc,              \* where each job's goroutine is
          model,           \* the model it backs up
          todo,            \* the stages it has not completed
          err,             \* Run's named result: nil or an error
          panicking,       \* whether a panic is unwinding its stack
          artifact,        \* the stages whose work is in what archivePath names
          uploaded,        \* the artifact storage.Run finished with, if it did
          record,          \* its run record's status; None without a record
          temp,            \* whether it uses its temporary directory
          notice           \* the notifications sent about it

local == <<pc, model, todo, err, panicking, artifact, uploaded, record, temp, notice>>
vars  == <<holders, phase, local>>

Registry == INSTANCE TaskRegistry
    WITH Task     <- Job,
         Instance <- {r.instance : r \in Resources} \ {None},
         Target   <- {r.target : r \in Resources} \ {None},
         Request  <- {Request[m] : m \in Model}

\* What task.go relies on: a target names its instance.
ASSUME RequestsAssumption == Registry!RequestAssumption

Pc == {"idle", "locked", "started", "stages", "unwinding", "cleaned",
       "notified", "recorded", "done", "skipped"}

TypeOK ==
    /\ Registry!TypeOK
    /\ pc \in [Job -> Pc]
    /\ model \in [Job -> Model \cup {None}]
    /\ todo \in [Job -> SUBSET Stage]
    /\ err \in [Job -> {"nil", "error"}]
    /\ panicking \in [Job -> BOOLEAN]
    /\ artifact \in [Job -> SUBSET Making]
    /\ uploaded \in [Job -> {None} \cup SUBSET Making]
    /\ record \in [Job -> {None, "running", "success", "failure"}]
    /\ temp \in [Job -> BOOLEAN]
    /\ notice \in [Job -> SUBSET {"success", "failure"}]

Init ==
    /\ Registry!Init
    /\ pc = [j \in Job |-> "idle"]
    /\ model = [j \in Job |-> None]
    /\ todo = [j \in Job |-> {}]
    /\ err = [j \in Job |-> "nil"]
    /\ panicking = [j \in Job |-> FALSE]
    /\ artifact = [j \in Job |-> {}]
    /\ uploaded = [j \in Job |-> None]
    /\ record = [j \in Job |-> None]
    /\ temp = [j \in Job |-> FALSE]
    /\ notice = [j \in Job |-> {}]

Goto(j, label) == pc' = [pc EXCEPT ![j] = label]

-------------------------------------------------------------------------------

\* Start: acquireRunLock.
Lock(j, m) ==
    /\ pc[j] = "idle"
    /\ Registry!Acquire(j, Request[m])
    /\ Goto(j, "locked")
    /\ model' = [model EXCEPT ![j] = m]
    /\ todo' = [todo EXCEPT ![j] = StagesOf(m)]
    /\ UNCHANGED <<err, panicking, artifact, uploaded, record, temp, notice>>

\* Start: a conflict; no record, no notification, the job is over.
Skip(j, m) ==
    /\ pc[j] = "idle"
    /\ Registry!Refuse(j, Request[m])
    /\ Goto(j, "skipped")
    /\ UNCHANGED <<model, todo, err, panicking, artifact, uploaded, record, temp, notice>>

\* Start: runlog.Begin and bindRun.
BeginRecord(j) ==
    /\ pc[j] = "locked"
    /\ record' = [record EXCEPT ![j] = "running"]
    /\ Registry!BindRunID(j)
    /\ Goto(j, "started")
    /\ UNCHANGED <<model, todo, err, panicking, artifact, uploaded, temp, notice>>

\* Start: runlog.Begin fails; the backup goes on without a record.
BeginWithoutRecord(j) ==
    /\ pc[j] = "locked"
    /\ Goto(j, "started")
    /\ UNCHANGED <<holders, phase, model, todo, err, panicking, artifact, uploaded,
                   record, temp, notice>>

\* Run, possibly in another goroutine: before() and the first use of TempPath.
EnterRun(j) ==
    /\ pc[j] = "started"
    /\ Goto(j, "stages")
    /\ temp' = [temp EXCEPT ![j] = TRUE]
    /\ UNCHANGED <<holders, phase, model, todo, err, panicking, artifact, uploaded,
                   record, notice>>

\* The stage that job j is in: the first it has not completed.
InStage(j, s) == s \in todo[j] /\ \A u \in todo[j] : StageOrder[s] <= StageOrder[u]

\* A stage returns nil, when it did its work or has been passed over; what it made
\* becomes the archivePath.
StageReturns(j) ==
    /\ pc[j] = "stages"
    /\ \E s \in Stage :
          /\ InStage(j, s)
          /\ todo' = [todo EXCEPT ![j] = @ \ {s}]
          /\ artifact' = [artifact EXCEPT ![j] = @ \cup ({s} \cap Effective(model[j]))]
          /\ uploaded' = IF s = "upload" THEN [uploaded EXCEPT ![j] = artifact[j]]
                                         ELSE uploaded
    /\ UNCHANGED <<holders, phase, pc, model, err, panicking, record, temp, notice>>

\* A stage returns an error, and so does Run.
StageFails(j) ==
    /\ pc[j] = "stages" /\ todo[j] # {}
    /\ err' = [err EXCEPT ![j] = "error"]
    /\ Goto(j, "unwinding")
    /\ UNCHANGED <<holders, phase, model, todo, panicking, artifact, uploaded, record,
                   temp, notice>>

\* A stage panics: err is still nil when the deferred functions begin.
StagePanics(j) ==
    /\ pc[j] = "stages" /\ todo[j] # {}
    /\ panicking' = [panicking EXCEPT ![j] = TRUE]
    /\ Goto(j, "unwinding")
    /\ UNCHANGED <<holders, phase, model, todo, err, artifact, uploaded, record, temp, notice>>

\* Run returns nil after the last stage.
RunReturns(j) ==
    /\ pc[j] = "stages" /\ todo[j] = {}
    /\ Goto(j, "unwinding")
    /\ UNCHANGED <<holders, phase, model, todo, err, panicking, artifact, uploaded,
                   record, temp, notice>>

\* Mutant of RecoverAndClean: the panic is logged and forgotten.
RecoverQuietly(j) ==
    /\ pc[j] = "unwinding"
    /\ panicking' = [panicking EXCEPT ![j] = FALSE]
    /\ temp' = [temp EXCEPT ![j] = FALSE]
    /\ Goto(j, "cleaned")
    /\ UNCHANGED <<holders, phase, model, todo, err, artifact, uploaded, record, notice>>

\* Third deferred function: recover, make the panic an error, then after(): the
\* temporary directory is removed or, if that fails, left behind under its name,
\* which no other backup has.
RecoverAndClean(j) ==
    /\ pc[j] = "unwinding"
    /\ err' = [err EXCEPT ![j] = IF panicking[j] THEN "error" ELSE @]
    /\ panicking' = [panicking EXCEPT ![j] = FALSE]
    /\ temp' = [temp EXCEPT ![j] = FALSE]
    /\ Goto(j, "cleaned")
    /\ UNCHANGED <<holders, phase, model, todo, artifact, uploaded, record, notice>>

\* What a named result means to notifier and to runlog.End.
Result(e) == IF e = "nil" THEN "success" ELSE "failure"

\* Mutant of Notify: success is reported for every backup that was uploaded.
NotifyUploaded(j) ==
    /\ pc[j] = "cleaned"
    /\ notice' = [notice EXCEPT ![j] =
                     @ \cup {IF artifact[j] # {} THEN "success" ELSE "failure"}]
    /\ Goto(j, "notified")
    /\ UNCHANGED <<holders, phase, model, todo, err, panicking, artifact, uploaded,
                   record, temp>>

\* Second deferred function: metrics and notifications.
Notify(j) ==
    /\ pc[j] = "cleaned"
    /\ notice' = [notice EXCEPT ![j] = @ \cup {Result(err[j])}]
    /\ Goto(j, "notified")
    /\ UNCHANGED <<holders, phase, model, todo, err, panicking, artifact, uploaded,
                   record, temp>>

\* Mutant of EndRecord: the locks are released before the record is ended.
ReleaseBeforeEnd(j) ==
    /\ pc[j] = "notified"
    /\ Registry!Release(j)
    /\ Goto(j, "recorded")
    /\ UNCHANGED <<model, todo, err, panicking, artifact, uploaded, record, temp, notice>>

\* First deferred function: runlog.End, a no-op without a record.
EndRecord(j) ==
    /\ pc[j] = "notified"
    /\ record' = [record EXCEPT ![j] = IF @ = None THEN None ELSE Result(err[j])]
    /\ Goto(j, "recorded")
    /\ UNCHANGED <<holders, phase, model, todo, err, panicking, artifact, uploaded,
                   temp, notice>>

\* Mutant of Release: nothing is released for a backup without a record.
ReleaseRecorded(j) ==
    /\ pc[j] = "recorded"
    /\ IF record[j] # None THEN Registry!Release(j) ELSE UNCHANGED <<holders, phase>>
    /\ Goto(j, "done")
    /\ UNCHANGED <<model, todo, err, panicking, artifact, uploaded, record, temp, notice>>

\* h.Release.
Release(j) ==
    /\ pc[j] = "recorded"
    /\ Registry!Release(j)
    /\ Goto(j, "done")
    /\ UNCHANGED <<model, todo, err, panicking, artifact, uploaded, record, temp, notice>>

\* What the goroutine of a job does once it holds its locks.
Progress(j) ==
    \/ BeginRecord(j) \/ BeginWithoutRecord(j)
    \/ EnterRun(j)
    \/ StageReturns(j) \/ StageFails(j) \/ StagePanics(j)
    \/ RunReturns(j)
    \/ RecoverAndClean(j)
    \/ Notify(j)
    \/ EndRecord(j)
    \/ Release(j)

Next ==
    \E j \in Job :
        \/ \E m \in Model : Lock(j, m) \/ Skip(j, m)
        \/ Progress(j)

Spec == Init /\ [][Next]_vars

(***************************************************************************)
(* A goroutine runs, and the commands and transfers of a stage come to an  *)
(* end one way or the other.                                               *)
(***************************************************************************)
FairSpec == Spec /\ \A j \in Job : WF_vars(Progress(j))

-------------------------------------------------------------------------------

(***************************************************************************)
(* A record says success only when the backup was uploaded with the work   *)
(* of every stage the model has configured in a type the program knows,    *)
(* encryption above all, and failure only when it was not: in particular a *)
(* panic in any stage is a failure (Run, comment of the recovering defer). *)
(* What is configured in a type that is not known is passed over.          *)
(***************************************************************************)
OutcomeIsTrue ==
    \A j \in Job :
        record[j] \in {"success", "failure"} =>
            (record[j] = "success" <=>
                /\ todo[j] = {}
                /\ uploaded[j] # None
                /\ uploaded[j] = Effective(model[j]))

(***************************************************************************)
(* A backup that is over has sent exactly one kind of notice, and it is    *)
(* the one its record states (where it has a record).                      *)
(***************************************************************************)
NoticeMatchesRecord ==
    \A j \in Job : pc[j] \in {"recorded", "done"} =>
        /\ notice[j] = {Result(err[j])}
        /\ record[j] # None => notice[j] = {record[j]}
        /\ uploaded[j] = None => notice[j] = {"failure"}

(***************************************************************************)
(* The locks cover all that a backup does to shared things, until its      *)
(* record is ended: two backups whose requests exclude each other never    *)
(* both use their temporary directory or have a running record.            *)
(***************************************************************************)
LocksCoverTheRun ==
    \A j, k \in Job :
        /\ j # k
        /\ temp[j] \/ record[j] = "running"
        /\ temp[k] \/ record[k] = "running"
        => \A a \in Request[model[j]].resources, b \in Request[model[k]].resources :
               ~ Registry!conflicts(a, b)

(***************************************************************************)
(* Whoever gets the locks gives them back, with or without a record and    *)
(* whatever fails on the way.                                              *)
(***************************************************************************)
LocksAreReleased ==
    \A j \in Job : j \in Registry!Registered ~> j \notin Registry!Registered

(***************************************************************************)
(* Seen from outside, a job is a backup of Backups: it runs from its locks *)
(* to their release.                                                       *)
(***************************************************************************)
Excludes(m, n) ==
    \E a \in Request[m].resources, b \in Request[n].resources : Registry!conflicts(a, b)

Seen(j) ==
    CASE pc[j] = "idle"    -> [is |-> "waiting"]
      [] pc[j] = "skipped" -> [is |-> "refused"]
      [] pc[j] = "done"    -> [is |-> "ended", model |-> model[j], outcome |-> Result(err[j])]
      [] OTHER             -> [is |-> "running", model |-> model[j]]

Promised == INSTANCE Backups WITH state <- [j \in Job |-> Seen(j)]

(***************************************************************************)
(* A trigger is refused only while a backup that excludes its own is       *)
(* running, and started only when none is, whatever panics and failures    *)
(* there were before; a backup that was started ends once (Start and Run,  *)
(* model.go).                                                              *)
(***************************************************************************)
ImplementsBackups == Promised!Spec
===============================================================================
