--------------------------------- MODULE RunLog ---------------------------------
(***************************************************************************)
(* Package runlog (runlog.go, live.go, progress.go): one record (.json)    *)
(* and one log file per backup run on disk, the Run objects in memory, and *)
(* the map of live runs.                                                   *)
(*                                                                         *)
(* mu guards every write of a record.  os.WriteFile truncates the file and *)
(* then writes it, so a write is two steps with "torn" between them: Get   *)
(* reads without mu, and the process may stop there.  A write may fail, to *)
(* open the file or after truncating it; no caller looks at the error.     *)
(* The process may stop anywhere, and loses what is in memory.             *)
(*                                                                         *)
(* Run ids are numbers ordered as the file names are.  A name starts with  *)
(* the local time to the second and ends in a random suffix, so runs may   *)
(* begin in another order: within one second, or when the clock goes back. *)
(***************************************************************************)
EXTENDS Naturals, FiniteSets, FiniteSetsExt

CONSTANTS Run,          \* the runs, numbered by their ids
          Reader,       \* concurrent requests for records (GET /api/runs/:id)
          MaxRuns,      \* how many records pruneLocked keeps
          MaxCrashes,   \* bound: how often the process stops and starts again
          Stragglers,   \* runs a reporting goroutine of which outlives them
          Fallible,     \* bound: runs whose records may fail to be written
          None

Status == {"running", "success", "failure"}
Phase  == {"none", "stage", "completed", "failed"}
Record == [status : Status, phase : Phase]

ASSUME RunLogAssumption ==
    /\ Run \subseteq Nat
    /\ MaxRuns \in Nat \ {0}
    /\ MaxCrashes \in Nat
    /\ Stragglers \subseteq Run
    /\ Fallible \subseteq Run
    /\ None \notin {"as_read", "interrupted", "error"}
    /\ None \notin [id : Run, content : Record]

VARIABLES meta,      \* by run: the .json file
          log,       \* by run: the .log file
          run,       \* by run: the object in memory and how far its goroutine is
          live,      \* live.runs
          writer,    \* who holds mu between truncating and writing, and what
          reader,    \* by reader: the request it is serving
          removed,   \* history: when a run's record was last removed
          spoiled,   \* history: runs over, the last write of whose record failed
          crashes

vars == <<meta, log, run, live, writer, reader, removed, spoiled, crashes>>

\* What else a .json file can be: not there, or cut off by a truncation.
Absent == [status |-> "absent", phase |-> "none"]
Torn   == [status |-> "torn", phase |-> "none"]

(***************************************************************************)
(* The steps of a run's goroutine: Begin opens the log ("logged"), writes  *)
(* the record ("recording"), prunes ("recorded") and registers ("active"); *)
(* End writes the footer ("closed"), then the record ("finishing",         *)
(* "finished"), and unregisters ("ended").  "gone": the process stopped.   *)
(***************************************************************************)
Pc == {"new", "logged", "recording", "recorded", "active",
       "closed", "finishing", "finished", "ended", "gone"}

TypeOK ==
    /\ meta \in [Run -> Record \cup {Absent, Torn}]
    /\ log \in [Run -> {"none", "growing", "complete"}]
    /\ run \in [Run -> [pc : Pc, status : Status, phase : Phase]]
    /\ live \subseteq Run
    /\ writer \in [id : Run, content : Record] \cup {None}
    /\ reader \in [Reader -> [id : Run \cup {None},
                              copy : Record \cup {Absent, Torn},
                              reply : {None, "as_read", "interrupted", "error"}]]
    /\ removed \in [Run -> {"no", "busy", "settled"}]
    /\ spoiled \subseteq Run
    /\ crashes \in 0..MaxCrashes

Stored == {r \in Run : meta[r] # Absent}

\* IsActive.
IsActive(r) == r \in live

Idle == [id |-> None, copy |-> Absent, reply |-> None]

-------------------------------------------------------------------------------

Init ==
    /\ meta = [r \in Run |-> Absent]
    /\ log = [r \in Run |-> "none"]
    /\ run = [r \in Run |-> [pc |-> "new", status |-> "running", phase |-> "none"]]
    /\ live = {}
    /\ writer = None
    /\ reader = [x \in Reader |-> Idle]
    /\ removed = [r \in Run |-> "no"]
    /\ spoiled = {}
    /\ crashes = 0

\* What json.Marshal makes of a run object.
Content(r) == [status |-> run[r].status, phase |-> run[r].phase]

At(r, pc) == run[r].pc = pc

Goto(r, pc) == run' = [run EXCEPT ![r].pc = pc]

\* writeMetaLocked, first half: the file is opened and truncated, or it cannot
\* be opened and stays as it is; mu stays held.
Truncate(r, content) ==
    /\ writer = None
    /\ writer' = [id |-> r, content |-> content]
    /\ \/ meta' = [meta EXCEPT ![r] = Torn]
       \/ r \in Fallible /\ meta' = meta

\* What the second half may leave of the record: it is complete on disk, or the
\* write fails and the file stays as the first half left it.
Written(r) ==
    (IF meta[r] = Torn THEN {writer.content} ELSE {meta[r]}) \cup
    (IF r \in Fallible THEN {meta[r]} ELSE {})

\* The error of the write is dropped.  The history keeps it once End writes, for
\* End makes good what failed before.
Spoil(r, file) ==
    spoiled' = IF file # writer.content /\ run[r].pc \in {"finishing", "finished", "ended"}
               THEN spoiled \cup {r} ELSE spoiled \ {r}

\* Begin creates the log file and writes the header.
BeginLog(r) ==
    /\ At(r, "new")
    /\ log' = [log EXCEPT ![r] = "growing"]
    /\ Goto(r, "logged")
    /\ UNCHANGED <<meta, live, writer, reader, removed, spoiled, crashes>>

BeginTruncate(r) ==
    /\ At(r, "logged")
    /\ Truncate(r, Content(r))
    /\ Goto(r, "recording")
    /\ UNCHANGED <<log, live, reader, removed, spoiled, crashes>>

\* What removing a record now is: of a run that may still write it, or not.
Removal(r) ==
    IF run[r].pc \in {"gone"} \cup IF r \in Stragglers THEN {} ELSE {"ended"}
    THEN "settled" ELSE "busy"

\* The records pruneLocked removes: all but the MaxRuns greatest ids.
Surplus(stored) ==
    IF Cardinality(stored) <= MaxRuns THEN {}
    ELSE CHOOSE old \in kSubset(Cardinality(stored) - MaxRuns, stored) :
            \A r \in old, s \in stored \ old : r < s

\* The record is written or not, older ones are pruned, mu is unlocked.
BeginPrune(r) ==
    /\ At(r, "recording")
    /\ LET pruned == Surplus(Stored)
       IN  /\ \E file \in Written(r) :
                 /\ meta' = [s \in Run |-> IF s \in pruned THEN Absent
                                           ELSE IF s = r THEN file
                                           ELSE meta[s]]
                 /\ Spoil(r, file)
           /\ log' = [s \in Run |-> IF s \in pruned THEN "none" ELSE log[s]]
    /\ removed' = [s \in Run |-> IF s \in Surplus(Stored) THEN Removal(s) ELSE removed[s]]
    /\ writer' = None
    /\ Goto(r, "recorded")
    /\ UNCHANGED <<live, reader, crashes>>

\* registerLive, after mu was unlocked.
RegisterLive(r) ==
    /\ At(r, "recorded")
    /\ live' = live \cup {r}
    /\ Goto(r, "active")
    /\ UNCHANGED <<meta, log, writer, reader, removed, spoiled, crashes>>

\* Where a run may be when progress is reported for it.
Reporting(r) == {"active"} \cup
                IF r \in Stragglers THEN {"closed", "finished", "ended"} ELSE {}

\* Mutant of Report: a report brings the run back to "running".
ReportRunning(r) ==
    /\ run[r].pc \in Reporting(r)
    /\ writer = None
    /\ run' = [run EXCEPT ![r].phase = "stage", ![r].status = "running"]
    /\ Truncate(r, [status |-> "running", phase |-> "stage"])
    /\ UNCHANGED <<log, live, reader, removed, spoiled, crashes>>

\* Mutant of Report: any goroutine that still holds the run may report.
ReportAlways(r) ==
    /\ run[r].pc \in {"active", "closed", "finished", "ended"}
    /\ run' = [run EXCEPT ![r].phase = "stage"]
    /\ Truncate(r, [status |-> run[r].status, phase |-> "stage"])
    /\ UNCHANGED <<log, live, reader, removed, spoiled, crashes>>

(***************************************************************************)
(* Report: the progress in memory is replaced; the record is written when  *)
(* the phase changed, and otherwise when the last write was a second ago.  *)
(***************************************************************************)
Report(r) ==
    /\ run[r].pc \in Reporting(r)
    /\ writer = None
    /\ run' = [run EXCEPT ![r].phase = "stage"]
    /\ \/ Truncate(r, [status |-> run[r].status, phase |-> "stage"])
       \/ run[r].phase = "stage" /\ UNCHANGED <<meta, writer>>
    /\ UNCHANGED <<log, live, reader, removed, spoiled, crashes>>

\* Mutant of ReportWrite: mu is not unlocked.
ReportWriteHolding ==
    /\ writer # None
    /\ run[writer.id].pc \notin {"recording", "finishing"}
    /\ meta' = [meta EXCEPT ![writer.id] = writer.content]
    /\ UNCHANGED <<log, run, live, writer, reader, removed, spoiled, crashes>>

\* A report's record is written or not, mu is unlocked.
ReportWrite ==
    /\ writer # None
    /\ run[writer.id].pc \notin {"recording", "finishing"}
    /\ \E file \in Written(writer.id) : /\ meta' = [meta EXCEPT ![writer.id] = file]
                                        /\ Spoil(writer.id, file)
    /\ writer' = None
    /\ UNCHANGED <<log, run, live, reader, removed, crashes>>

\* Mutant of EndLog: the run is unregistered before its record is written.
EndLogUnregistering(r, outcome) ==
    /\ At(r, "active")
    /\ log' = [log EXCEPT ![r] = IF @ = "none" THEN "none" ELSE "complete"]
    /\ run' = [run EXCEPT ![r].pc = "closed", ![r].status = outcome]
    /\ live' = live \ {r}
    /\ UNCHANGED <<meta, writer, reader, removed, spoiled, crashes>>

\* End: the footer is written, the log closed, the outcome set (no mu held).
EndLog(r, outcome) ==
    /\ At(r, "active")
    /\ log' = [log EXCEPT ![r] = IF @ = "none" THEN "none" ELSE "complete"]
    /\ run' = [run EXCEPT ![r].pc = "closed", ![r].status = outcome]
    /\ UNCHANGED <<meta, live, writer, reader, removed, spoiled, crashes>>

\* finishProgress: the phase shown when the run is over.
FinalPhase(status) == IF status = "failure" THEN "failed" ELSE "completed"

\* Mutant of EndTruncate: the record is made before finishProgress.
EndTruncateEarly(r) ==
    /\ At(r, "closed")
    /\ run' = [run EXCEPT ![r].pc = "finishing",
                          ![r].phase = FinalPhase(run[r].status)]
    /\ Truncate(r, Content(r))
    /\ UNCHANGED <<log, live, reader, removed, spoiled, crashes>>

\* End takes mu, sets the final progress and truncates the record.
EndTruncate(r) ==
    /\ At(r, "closed")
    /\ run' = [run EXCEPT ![r].pc = "finishing",
                          ![r].phase = FinalPhase(run[r].status)]
    /\ Truncate(r, [status |-> run[r].status,
                    phase  |-> FinalPhase(run[r].status)])
    /\ UNCHANGED <<log, live, reader, removed, spoiled, crashes>>

\* The record is written or not: End goes on all the same.
EndWrite(r) ==
    /\ At(r, "finishing")
    /\ \E file \in Written(r) : meta' = [meta EXCEPT ![r] = file] /\ Spoil(r, file)
    /\ writer' = None
    /\ Goto(r, "finished")
    /\ UNCHANGED <<log, live, reader, removed, crashes>>

\* unregisterLive.
Unregister(r) ==
    /\ At(r, "finished")
    /\ live' = live \ {r}
    /\ Goto(r, "ended")
    /\ UNCHANGED <<meta, log, writer, reader, removed, spoiled, crashes>>

-------------------------------------------------------------------------------
(* Requests from the web interface.                                        *)

\* Delete removes both files under mu, whatever the run is doing.
Delete(r) ==
    /\ writer = None
    /\ meta[r] # Absent
    /\ meta' = [meta EXCEPT ![r] = Absent]
    /\ log' = [log EXCEPT ![r] = "none"]
    /\ removed' = [removed EXCEPT ![r] = Removal(r)]
    /\ UNCHANGED <<run, live, writer, reader, spoiled, crashes>>

\* Get reads the file, without mu.
GetRead(x, r) ==
    /\ reader[x].copy = Absent
    /\ meta[r] # Absent
    /\ reader' = [reader EXCEPT ![x] = [id |-> r, copy |-> meta[r], reply |-> None]]
    /\ UNCHANGED <<meta, log, run, live, writer, removed, spoiled, crashes>>

\* Mutant of Verdict: the record is believed.
VerdictAsRead(r, copy) == IF copy = Torn THEN "error" ELSE "as_read"

\* json.Unmarshal and normalizeInterrupted, which asks the map of live runs.
Verdict(r, copy) ==
    IF copy = Torn THEN "error"
    ELSE IF copy.status = "running" /\ ~ IsActive(r) THEN "interrupted"
    ELSE "as_read"

GetReply(x) ==
    /\ reader[x].copy # Absent /\ reader[x].reply = None
    /\ reader' = [reader EXCEPT ![x].reply = Verdict(reader[x].id, reader[x].copy)]
    /\ UNCHANGED <<meta, log, run, live, writer, removed, spoiled, crashes>>

\* The answer was sent.
GetDone(x) ==
    /\ reader[x].reply # None
    /\ reader' = [reader EXCEPT ![x] = Idle]
    /\ UNCHANGED <<meta, log, run, live, writer, removed, spoiled, crashes>>

\* The process stops (killed, or stopped while runs go on) and starts again.
Crash ==
    /\ crashes < MaxCrashes
    /\ crashes' = crashes + 1
    /\ run' = [r \in Run |-> IF At(r, "new") THEN run[r]
                             ELSE [run[r] EXCEPT !.pc = "gone"]]
    /\ live' = {}
    /\ writer' = None
    /\ reader' = [x \in Reader |-> Idle]
    /\ UNCHANGED <<meta, log, removed, spoiled>>

-------------------------------------------------------------------------------

\* The steps of Begin and of End, once they are called.
Step(r) ==
    \/ BeginTruncate(r)
    \/ BeginPrune(r)
    \/ RegisterLive(r)
    \/ EndTruncate(r)
    \/ EndWrite(r)
    \/ Unregister(r)

Next ==
    \/ \E r \in Run :
          \/ BeginLog(r)
          \/ \E outcome \in Status \ {"running"} : EndLog(r, outcome)
          \/ Step(r)
          \/ Report(r)
          \/ Delete(r)
    \/ ReportWrite
    \/ \E x \in Reader : \/ \E r \in Run : GetRead(x, r)
                         \/ GetReply(x)
                         \/ GetDone(x)
    \/ Crash

Spec == Init /\ [][Next]_vars

(***************************************************************************)
(* Goroutines run: Begin and End get on with it, and sync.Mutex lets a     *)
(* goroutine that waits for mu have it (it is starvation-free).  Nothing   *)
(* is assumed of the backup between the two: its commands may never end.   *)
(***************************************************************************)
Fairness ==
    /\ \A r \in Run : SF_vars(Step(r))
    /\ WF_vars(ReportWrite)

FairSpec == Spec /\ Fairness

-------------------------------------------------------------------------------

Settled(r) == run[r].pc \in {"finished", "ended"}

\* A straggling report has truncated the record, or is about to write it.
Rewritten(r) == writer # None /\ writer.id = r

(***************************************************************************)
(* A run that has gone through End has, on disk, the outcome of the backup *)
(* and the matching final phase, or nothing if it was removed: no report   *)
(* of a stage, other run's pruning or half-written file is left over it,   *)
(* and earlier writes that failed are made good.  A straggler may have put *)
(* its stage over the phase.  Only a last write that fails leaves less (a  *)
(* record as "running", or cut off), and no write leaves a wrong outcome.  *)
(***************************************************************************)
RecordMatchesOutcome ==
    \A r \in Run : Settled(r) =>
        \/ meta[r] = Absent
        \/ meta[r] = Torn /\ (r \in spoiled \/ Rewritten(r))
        \/ r \in spoiled /\ meta[r].status \in {"running", run[r].status}
        \/ /\ meta[r].status = run[r].status
           /\ r \in Stragglers \/ meta[r].phase = FinalPhase(run[r].status)

(***************************************************************************)
(* When IsActive turns false without a crash, the log is closed and the    *)
(* record has its outcome: the log stream stops following a run on it, and *)
(* normalizeInterrupted calls a run dead on it.  The exception is a record *)
(* the last write of which failed.                                         *)
(***************************************************************************)
InactiveMeansSettled ==
    [][\A r \in live \ live' :
          \/ crashes' # crashes
          \/ /\ log[r] # "growing"
             /\ meta[r].status = "running" => r \in spoiled]_vars

(***************************************************************************)
(* A record with an outcome never goes back to running, also when late     *)
(* reports rewrite it.                                                     *)
(***************************************************************************)
OutcomeIsFinal ==
    [][\A r \in Run :
          meta[r] \in Record /\ meta[r].status # "running" =>
              \/ meta'[r] = Absent
              \/ meta'[r] = Torn /\ writer'.content.status = meta[r].status
              \/ meta'[r] \in Record /\ meta'[r].status = meta[r].status]_vars

(***************************************************************************)
(* No request is told that a run left over by a stopped process is still   *)
(* running (normalizeInterrupted, runlog.go).                              *)
(***************************************************************************)
NoGhostRuns ==
    \A x \in Reader :
        reader[x].reply = "as_read" /\ reader[x].copy.status = "running"
            => run[reader[x].id].pc # "gone"

(***************************************************************************)
(* A record removed when no one could report for its run any more stays    *)
(* removed, by Delete or by pruning.                                       *)
(***************************************************************************)
DeletedStaysDeleted == \A r \in Run : removed[r] = "settled" => meta[r] = Absent

(***************************************************************************)
(* Begin and End return, or the process stops, whoever else is writing     *)
(* records: a backup is never held up by its own bookkeeping.              *)
(***************************************************************************)
BookkeepingReturns ==
    \A r \in Run :
        run[r].pc \notin {"new", "active", "ended", "gone"}
            ~> run[r].pc \in {"active", "ended", "gone"}
===============================================================================
