--------------------------- MODULE DurableStateProofs ---------------------------
(***************************************************************************)
(* Proofs about the components that keep state over a restart.             *)
(* RunLog: for any runs, readers, stragglers, number of records kept and   *)
(* number of restarts, what a record on disk says of its run, and what a   *)
(* reader is told.  Cycler: for every `keep', number of uploads and set of *)
(* faults, which backups are on the storage.  ConfigSaving: for any pages,  *)
(* configs and edits, what a save leaves of gobackup.yml.                   *)
(***************************************************************************)
EXTENDS RunLog, Cycler, ConfigSaving, FiniteSetTheorems, TLAPS

-------------------------------------------------------------------------------
(* RunLog: the inductive invariant.                                        *)

\* Where the writer of a record may be: in Begin, in End, or in a report that
\* began where one may be made.
MayWrite(r) == {"recording", "finishing", "active", "closed"} \cup
               IF r \in Stragglers THEN {"finished", "ended"} ELSE {}

\* One writer at a time; what it writes is its run's, and no step back from the
\* outcome that stays on disk if the file could not be opened.
WriterIsAtWork ==
    /\ writer # None =>
          /\ run[writer.id].pc \in MayWrite(writer.id)
          /\ meta[writer.id] \in Record /\ meta[writer.id].status # "running" =>
                writer.content.status = run[writer.id].status
    /\ \A r \in Run : At(r, "recording") \/ At(r, "finishing") =>
          writer # None /\ writer.id = r

\* A record with an outcome has the run's, and so has what is being written.
OutcomeIsOwn ==
    /\ \A r \in Run : meta[r] \in Record /\ meta[r].status # "running" =>
          meta[r].status = run[r].status
    /\ writer # None /\ writer.content.status # "running" =>
          writer.content.status = run[writer.id].status

\* How far a run is, and what is on disk and in the log then.
Progressed(r) ==
    /\ run[r].pc \in {"new", "logged"} => meta[r] = Absent
    /\ run[r].pc \in {"new", "logged", "recording", "recorded", "active"} =>
          run[r].status = "running"
    /\ run[r].pc \in {"closed", "finishing", "finished", "ended"} =>
          run[r].status # "running" /\ log[r] # "growing"
    /\ At(r, "finishing") =>
          writer.content = [status |-> run[r].status, phase |-> FinalPhase(run[r].status)]
    /\ Settled(r) /\ Rewritten(r) =>
          r \in Stragglers /\ writer.content.status = run[r].status
    /\ r \in live => run[r].pc \in {"active", "closed", "finishing", "finished"}
    /\ removed[r] = "settled" => At(r, "gone") \/ (At(r, "ended") /\ r \notin Stragglers)

ReadersAreRight ==
    \A x \in Reader :
        /\ reader[x].copy # Absent => reader[x].id \in Run
        /\ reader[x].reply = "as_read" /\ reader[x].copy.status = "running"
              => reader[x].id \in Run /\ ~ At(reader[x].id, "gone")

Progress == \A r \in Run : Progressed(r)

RecordsInv ==
    /\ TypeOK
    /\ WriterIsAtWork
    /\ OutcomeIsOwn
    /\ Progress
    /\ RecordMatchesOutcome
    /\ DeletedStaysDeleted
    /\ ReadersAreRight

-------------------------------------------------------------------------------

\* A file that is missing or cut off is no record.
LEMMA NoRecord ==
    /\ Absent \notin Record /\ Torn \notin Record /\ Absent # Torn
    /\ Absent.status = "absent" /\ Torn.status = "torn"
BY DEF Absent, Torn, Record, Status

\* What Goto changes, run by run.
LEMMA GotoMoves ==
    ASSUME TypeOK, NEW r \in Run, NEW place \in Pc, Goto(r, place)
    PROVE  /\ run' \in [Run -> [pc : Pc, status : Status, phase : Phase]]
           /\ \A s \in Run : /\ run'[s].pc = IF s = r THEN place ELSE run[s].pc
                             /\ run'[s].status = run[s].status
                             /\ run'[s].phase = run[s].phase
BY DEF TypeOK, Goto

\* What truncating leaves: the file of that run cut off, or as it was.
LEMMA TruncateLeaves ==
    ASSUME TypeOK, NEW r \in Run, NEW content \in Record, Truncate(r, content)
    PROVE  /\ writer = None /\ writer' \in [id : Run, content : Record] /\ writer' # None
           /\ writer'.id = r /\ writer'.content = content
           /\ meta' \in [Run -> Record \cup {Absent, Torn}]
           /\ meta'[r] = Torn \/ meta'[r] = meta[r]
           /\ \A s \in Run \ {r} : meta'[s] = meta[s]
BY RunLogAssumption DEF Truncate, TypeOK

\* What a write leaves: the new record, or the file as it was and, once End
\* writes, its run among the spoiled.
LEMMA WriteLeaves ==
    ASSUME TypeOK, NEW r \in Run, writer # None, writer.id = r,
           NEW onDisk \in Written(r), Spoil(r, onDisk)
    PROVE  /\ onDisk \in Record \cup {Absent, Torn} /\ writer.content \in Record
           /\ onDisk = writer.content \/ onDisk = meta[r]
           /\ spoiled' \subseteq Run
           /\ run[r].pc \in {"finishing", "finished", "ended"} =>
                 onDisk = writer.content \/ r \in spoiled'
           /\ \A s \in Run \ {r} : s \in spoiled' <=> s \in spoiled
<1>1. writer \in [id : Run, content : Record] /\ meta[r] \in Record \cup {Absent, Torn}
  BY DEF TypeOK
<1>2. onDisk = writer.content \/ onDisk = meta[r]
  BY DEF Written
<1>3. \/ spoiled' = spoiled \cup {r}
      \/ /\ spoiled' = spoiled \ {r}
         /\ run[r].pc \in {"finishing", "finished", "ended"} => onDisk = writer.content
  BY DEF Spoil
<1>4. spoiled \subseteq Run
  BY DEF TypeOK
<1> QED BY <1>1, <1>2, <1>3, <1>4

\* No run has begun, no record exists: nothing to contradict.
LEMMA InitRecordsInv == Init => RecordsInv
<1> SUFFICES ASSUME Init PROVE RecordsInv
  OBVIOUS
<1>1. TypeOK
  BY RunLogAssumption DEF Init, TypeOK, Pc, Status, Phase, Idle
<1>2. WriterIsAtWork /\ OutcomeIsOwn /\ Progress
  BY NoRecord DEF Init, WriterIsAtWork, OutcomeIsOwn, Progress, Progressed, At, Settled, Rewritten
<1>3. RecordMatchesOutcome /\ DeletedStaysDeleted
  BY DEF Init, RecordMatchesOutcome, DeletedStaysDeleted, Settled, Rewritten
<1>4. ReadersAreRight
  BY RunLogAssumption DEF Init, ReadersAreRight, Idle
<1> QED BY <1>1, <1>2, <1>3, <1>4 DEF RecordsInv

-------------------------------------------------------------------------------
(* Begin.                                                                  *)

\* Begin opens the log of a run; its record is not there yet.
LEMMA BeginLogStep == ASSUME RecordsInv, NEW r \in Run, BeginLog(r) PROVE RecordsInv'
<1>1. /\ At(r, "new") /\ log' = [log EXCEPT ![r] = "growing"] /\ Goto(r, "logged")
      /\ UNCHANGED <<meta, live, writer, reader, removed, spoiled, crashes>>
  BY DEF BeginLog
<1>2. TypeOK /\ "logged" \in Pc
  BY DEF RecordsInv, Pc
<1>3. TypeOK'
  BY <1>1, <1>2, GotoMoves DEF TypeOK
<1>4. WriterIsAtWork' /\ OutcomeIsOwn'
  BY <1>1, <1>2, GotoMoves DEF RecordsInv, TypeOK, WriterIsAtWork, OutcomeIsOwn, MayWrite, At
<1>5. Progress'
  BY <1>1, <1>2, GotoMoves DEF RecordsInv, TypeOK, Progress, Progressed, At, Settled, Rewritten
<1>6. RecordMatchesOutcome' /\ DeletedStaysDeleted'
  BY <1>1, <1>2, GotoMoves DEF RecordsInv, RecordMatchesOutcome, DeletedStaysDeleted, Settled, Rewritten
<1>7. ReadersAreRight'
  BY <1>1, <1>2, GotoMoves DEF RecordsInv, ReadersAreRight, At
<1> QED BY <1>3, <1>4, <1>5, <1>6, <1>7 DEF RecordsInv

\* Begin truncates the record of a run nobody else writes.
LEMMA BeginTruncateStep == ASSUME RecordsInv, NEW r \in Run, BeginTruncate(r) PROVE RecordsInv'
<1>1. /\ At(r, "logged") /\ Goto(r, "recording") /\ Truncate(r, Content(r))
      /\ UNCHANGED <<log, live, reader, removed, spoiled, crashes>>
  BY DEF BeginTruncate
<1>2. TypeOK /\ "recording" \in Pc
  BY DEF RecordsInv, Pc
<1>3. Content(r) \in Record /\ Content(r).status = "running" /\ meta[r] = Absent
  BY <1>1 DEF Content, RecordsInv, TypeOK, Record, Progress, Progressed, At
<1>4. /\ writer = None /\ writer' \in [id : Run, content : Record] /\ writer' # None
      /\ writer'.id = r /\ writer'.content.status = "running"
      /\ meta' \in [Run -> Record \cup {Absent, Torn}]
      /\ meta'[r] = Torn \/ meta'[r] = Absent
      /\ \A s \in Run \ {r} : meta'[s] = meta[s]
  BY <1>1, <1>2, <1>3, TruncateLeaves
<1>5. TypeOK'
  BY <1>1, <1>2, <1>4, GotoMoves DEF TypeOK
<1>6. WriterIsAtWork' /\ OutcomeIsOwn'
  BY <1>1, <1>2, <1>4, GotoMoves, NoRecord
     DEF RecordsInv, TypeOK, WriterIsAtWork, OutcomeIsOwn, MayWrite, At
<1>7. Progress'
  <2> SUFFICES ASSUME NEW s \in Run PROVE Progressed(s)'
    BY DEF Progress
  <2>1. Progressed(s) /\ (At(s, "finishing") => writer # None)
    BY DEF RecordsInv, Progress, WriterIsAtWork
  <2> QED BY <1>1, <1>2, <1>4, <2>1, GotoMoves DEF Progressed, At, Settled, Rewritten
<1>8. RecordMatchesOutcome' /\ DeletedStaysDeleted'
  <2>1. RecordMatchesOutcome'
    BY <1>1, <1>2, <1>4, GotoMoves DEF RecordsInv, RecordMatchesOutcome, Settled, Rewritten, At
  <2>2. removed[r] # "settled"
    BY <1>1 DEF RecordsInv, Progress, Progressed, At
  <2>3. DeletedStaysDeleted'
    BY <1>1, <1>4, <2>2 DEF RecordsInv, DeletedStaysDeleted
  <2> QED BY <2>1, <2>3
<1>9. ReadersAreRight'
  BY <1>1, <1>2, GotoMoves DEF RecordsInv, ReadersAreRight, At
<1> QED BY <1>5, <1>6, <1>7, <1>8, <1>9 DEF RecordsInv

\* Begin writes the record as running and prunes older ones.
LEMMA BeginPruneStep == ASSUME RecordsInv, NEW r \in Run, BeginPrune(r) PROVE RecordsInv'
<1> DEFINE pruned == Surplus(Stored)
<1>1. PICK onDisk \in Written(r) :
         /\ meta' = [s \in Run |-> IF s \in pruned THEN Absent
                                   ELSE IF s = r THEN onDisk ELSE meta[s]]
         /\ Spoil(r, onDisk)
  BY DEF BeginPrune
<1>2. /\ At(r, "recording") /\ Goto(r, "recorded") /\ writer' = None
      /\ log' = [s \in Run |-> IF s \in pruned THEN "none" ELSE log[s]]
      /\ removed' = [s \in Run |-> IF s \in pruned THEN Removal(s) ELSE removed[s]]
      /\ UNCHANGED <<live, reader, crashes>>
  BY DEF BeginPrune
<1> HIDE DEF pruned
<1>3. TypeOK /\ "recorded" \in Pc
  BY DEF RecordsInv, Pc
<1>4. writer # None /\ writer.id = r
  BY <1>2 DEF RecordsInv, WriterIsAtWork
<1>5. /\ onDisk \in Record \cup {Absent, Torn}
      /\ onDisk \in Record /\ onDisk.status # "running" => onDisk.status = run[r].status
      /\ spoiled' \subseteq Run
      /\ \A s \in Run \ {r} : s \in spoiled' <=> s \in spoiled
  BY <1>1, <1>3, <1>4, WriteLeaves DEF RecordsInv, OutcomeIsOwn
<1>6. \A s \in Run : /\ Removal(s) \in {"busy", "settled"}
                     /\ Removal(s) = "settled" =>
                           At(s, "gone") \/ (At(s, "ended") /\ s \notin Stragglers)
  BY DEF Removal, At
<1>7. TypeOK'
  BY <1>1, <1>2, <1>3, <1>5, <1>6, GotoMoves DEF TypeOK
<1>8. WriterIsAtWork' /\ OutcomeIsOwn'
  BY <1>1, <1>2, <1>3, <1>4, <1>5, GotoMoves, NoRecord
     DEF RecordsInv, TypeOK, WriterIsAtWork, OutcomeIsOwn, MayWrite, At
<1>9. Progress'
  <2> SUFFICES ASSUME NEW s \in Run PROVE Progressed(s)'
    BY DEF Progress
  <2>1. Progressed(s) /\ (At(s, "finishing") => s = r)
    BY <1>4 DEF RecordsInv, Progress, WriterIsAtWork
  <2> QED BY <1>1, <1>2, <1>3, <1>6, <2>1, GotoMoves, NoRecord
          DEF RecordsInv, TypeOK, Progressed, At, Settled, Rewritten
<1>10. RecordMatchesOutcome' /\ DeletedStaysDeleted'
  <2>1. \A s \in Run : meta'[s] = Absent \/ s = r \/ (meta'[s] = meta[s] /\ s \notin pruned)
    BY <1>1
  <2>2. ~ Settled(r) /\ ~ At(r, "gone")
    BY <1>2 DEF Settled, Rewritten, At
  <2>3. RecordMatchesOutcome'
    BY <1>2, <1>3, <1>4, <1>5, <2>1, <2>2, GotoMoves
       DEF RecordsInv, RecordMatchesOutcome, Settled, Rewritten
  <2>4. removed[r] # "settled"
    BY <1>2 DEF RecordsInv, Progress, Progressed, At
  <2>5. DeletedStaysDeleted'
    BY <1>1, <1>2, <2>1, <2>4 DEF RecordsInv, DeletedStaysDeleted
  <2> QED BY <2>3, <2>5
<1>11. ReadersAreRight'
  BY <1>2, <1>3, GotoMoves DEF RecordsInv, ReadersAreRight, At
<1> QED BY <1>7, <1>8, <1>9, <1>10, <1>11 DEF RecordsInv

\* A run joins the live map once its record was written.
LEMMA RegisterLiveStep == ASSUME RecordsInv, NEW r \in Run, RegisterLive(r) PROVE RecordsInv'
<1>1. /\ At(r, "recorded") /\ live' = live \cup {r} /\ Goto(r, "active")
      /\ UNCHANGED <<meta, log, writer, reader, removed, spoiled, crashes>>
  BY DEF RegisterLive
<1>2. TypeOK /\ "active" \in Pc
  BY DEF RecordsInv, Pc
<1>3. TypeOK'
  BY <1>1, <1>2, GotoMoves DEF TypeOK
<1>4. WriterIsAtWork' /\ OutcomeIsOwn'
  <2>1. \A s \in Run : run'[s].pc = (IF s = r THEN "active" ELSE run[s].pc) /\ run'[s].status = run[s].status
    BY <1>1, <1>2, GotoMoves
  <2>2. WriterIsAtWork'
    BY <1>1, <2>1 DEF RecordsInv, TypeOK, WriterIsAtWork, MayWrite, At
  <2>3. OutcomeIsOwn'
    BY <1>1, <2>1 DEF RecordsInv, TypeOK, OutcomeIsOwn
  <2> QED BY <2>2, <2>3
<1>5. Progress'
  BY <1>1, <1>2, GotoMoves DEF RecordsInv, TypeOK, Progress, Progressed, At, Settled, Rewritten
<1>6. RecordMatchesOutcome' /\ DeletedStaysDeleted'
  BY <1>1, <1>2, GotoMoves DEF RecordsInv, RecordMatchesOutcome, DeletedStaysDeleted, Settled, Rewritten
<1>7. ReadersAreRight'
  BY <1>1, <1>2, GotoMoves DEF RecordsInv, ReadersAreRight, At
<1> QED BY <1>3, <1>4, <1>5, <1>6, <1>7 DEF RecordsInv

-------------------------------------------------------------------------------
(* Reports.                                                                *)

\* A report moves no run on: it shows a stage, and may begin to write it.
LEMMA ReportStep == ASSUME RecordsInv, NEW r \in Run, Report(r) PROVE RecordsInv'
<1> DEFINE content == [status |-> run[r].status, phase |-> "stage"]
<1>1. /\ run[r].pc \in Reporting(r) /\ writer = None
      /\ run' = [run EXCEPT ![r].phase = "stage"]
      /\ UNCHANGED <<log, live, reader, removed, spoiled, crashes>>
  BY DEF Report
<1>2. /\ run' \in [Run -> [pc : Pc, status : Status, phase : Phase]]
      /\ \A s \in Run : /\ run'[s].pc = run[s].pc /\ run'[s].status = run[s].status
                        /\ s # r => run'[s].phase = run[s].phase
  BY <1>1 DEF RecordsInv, TypeOK, Phase
<1>3. run[r].pc \in MayWrite(r) \ {"recording", "finishing"}
  BY <1>1 DEF Reporting, MayWrite
<1>4. content \in Record /\ (Settled(r) => r \in Stragglers)
  BY <1>1 DEF RecordsInv, TypeOK, Record, Phase, Settled, Rewritten, Reporting
<1>5. Truncate(r, content) \/ (meta' = meta /\ writer' = writer)
  BY DEF Report
<1>6. /\ \/ /\ writer' \in [id : Run, content : Record] /\ writer' # None
            /\ writer'.id = r /\ writer'.content.status = run[r].status
            /\ meta'[r] = Torn \/ meta'[r] = meta[r]
         \/ writer' = None /\ meta'[r] = meta[r]
      /\ \A s \in Run \ {r} : meta'[s] = meta[s]
      /\ meta' \in [Run -> Record \cup {Absent, Torn}]
  <2>1. CASE Truncate(r, content)
    BY <1>4, <2>1, TruncateLeaves DEF RecordsInv
  <2>2. CASE meta' = meta /\ writer' = writer
    BY <1>1, <2>2 DEF RecordsInv, TypeOK
  <2> QED BY <1>5, <2>1, <2>2
<1> HIDE DEF content
<1>7. TypeOK'
  BY <1>1, <1>2, <1>6 DEF RecordsInv, TypeOK
<1>8. WriterIsAtWork'
  BY <1>1, <1>2, <1>3, <1>6 DEF RecordsInv, WriterIsAtWork, MayWrite, At
<1>9. OutcomeIsOwn'
  BY <1>2, <1>6, NoRecord DEF RecordsInv, OutcomeIsOwn
<1>10. Progress'
  <2> SUFFICES ASSUME NEW s \in Run PROVE Progressed(s)'
    BY DEF Progress
  <2>1. Progressed(s) /\ (At(s, "finishing") => writer # None)
    BY DEF RecordsInv, Progress, WriterIsAtWork
  <2> QED BY <1>1, <1>2, <1>3, <1>4, <1>6, <2>1, NoRecord
          DEF Progressed, At, Settled, Rewritten, MayWrite
<1>11. RecordMatchesOutcome'
  BY <1>1, <1>2, <1>4, <1>6 DEF RecordsInv, RecordMatchesOutcome, Settled, Rewritten
<1>12. DeletedStaysDeleted'
  BY <1>1, <1>3, <1>6 DEF RecordsInv, DeletedStaysDeleted, Progress, Progressed, At, MayWrite
<1>13. ReadersAreRight'
  BY <1>1, <1>2 DEF RecordsInv, ReadersAreRight, At
<1> QED BY <1>7, <1>8, <1>9, <1>10, <1>11, <1>12, <1>13 DEF RecordsInv

\* The record is written: by a run that is not in End, or by a straggler.
LEMMA ReportWriteStep == RecordsInv /\ ReportWrite => RecordsInv'
<1> SUFFICES ASSUME RecordsInv, ReportWrite PROVE RecordsInv'
  OBVIOUS
<1> DEFINE r == writer.id
<1>1. PICK onDisk \in Written(r) : meta' = [meta EXCEPT ![r] = onDisk] /\ Spoil(r, onDisk)
  BY DEF ReportWrite
<1>2. /\ writer # None /\ run[r].pc \notin {"recording", "finishing"} /\ writer' = None
      /\ UNCHANGED <<log, run, live, reader, removed, crashes>>
  BY DEF ReportWrite
<1>3. r \in Run /\ run[r].pc \in MayWrite(r)
  BY <1>2 DEF RecordsInv, TypeOK, WriterIsAtWork
<1>4. /\ onDisk \in Record \cup {Absent, Torn} /\ writer.content \in Record
      /\ onDisk = writer.content \/ onDisk = meta[r]
      /\ spoiled' \subseteq Run
      /\ run[r].pc \in {"finishing", "finished", "ended"} =>
            onDisk = writer.content \/ r \in spoiled'
      /\ \A s \in Run \ {r} : s \in spoiled' <=> s \in spoiled
  BY <1>1, <1>2, <1>3, WriteLeaves DEF RecordsInv
<1>5. /\ meta' \in [Run -> Record \cup {Absent, Torn}]
      /\ \A s \in Run : meta'[s] = IF s = r THEN onDisk ELSE meta[s]
  BY <1>1, <1>3, <1>4 DEF RecordsInv, TypeOK
<1> HIDE DEF r
<1>6. TypeOK'
  BY <1>2, <1>4, <1>5 DEF RecordsInv, TypeOK
<1>7. WriterIsAtWork' /\ OutcomeIsOwn'
  BY <1>2, <1>3, <1>4, <1>5 DEF RecordsInv, WriterIsAtWork, OutcomeIsOwn, At, r
<1>8. Progress'
  <2> SUFFICES ASSUME NEW s \in Run PROVE Progressed(s)'
    BY DEF Progress
  <2>1. Progressed(s) /\ (At(s, "finishing") => s = r)
    BY DEF RecordsInv, Progress, WriterIsAtWork, r
  <2> QED BY <1>2, <1>3, <1>5, <2>1 DEF Progressed, At, Settled, Rewritten, MayWrite
<1>9. RecordMatchesOutcome'
  <2> SUFFICES ASSUME NEW s \in Run, Settled(s)'
               PROVE  \/ meta'[s] = Absent
                      \/ s \in spoiled' /\ meta'[s] = Torn
                      \/ s \in spoiled' /\ meta'[s].status \in {"running", run'[s].status}
                      \/ /\ meta'[s].status = run'[s].status
                         /\ s \in Stragglers \/ meta'[s].phase = FinalPhase(run'[s].status)
    BY DEF RecordMatchesOutcome
  <2>1. CASE s # r
    <3>1. ~ Rewritten(s)
      BY <2>1 DEF Rewritten, r
    <3> QED BY <1>2, <1>4, <1>5, <2>1, <3>1 DEF RecordsInv, RecordMatchesOutcome, Settled, Rewritten
  <2>2. CASE s = r
    <3>1. /\ r \in Stragglers /\ run[r].pc \in {"finished", "ended"}
          /\ writer.content.status = run[r].status
      BY <1>2, <1>3, <2>2 DEF RecordsInv, Progress, Progressed, Settled, Rewritten, r
    <3>2. CASE onDisk = writer.content
      BY <1>2, <1>3, <1>5, <2>2, <3>1, <3>2
    <3>3. CASE r \in spoiled' /\ onDisk = meta[r]
      BY <1>2, <1>3, <1>4, <1>5, <2>2, <3>1, <3>3 DEF RecordsInv, RecordMatchesOutcome, Settled, Rewritten
    <3> QED BY <1>4, <3>1, <3>2, <3>3
  <2> QED BY <2>1, <2>2
<1>10. DeletedStaysDeleted'
  BY <1>2, <1>3, <1>5 DEF RecordsInv, DeletedStaysDeleted, Progress, Progressed, At, MayWrite
<1>11. ReadersAreRight'
  BY <1>2 DEF RecordsInv, ReadersAreRight, At
<1> QED BY <1>6, <1>7, <1>8, <1>9, <1>10, <1>11 DEF RecordsInv

-------------------------------------------------------------------------------
(* End.                                                                    *)

\* End closes the log and settles on an outcome.
LEMMA EndLogStep ==
    ASSUME RecordsInv, NEW r \in Run, NEW outcome \in Status \ {"running"}, EndLog(r, outcome)
    PROVE  RecordsInv'
<1>1. /\ At(r, "active") /\ log' = [log EXCEPT ![r] = IF @ = "none" THEN "none" ELSE "complete"]
      /\ run' = [run EXCEPT ![r].pc = "closed", ![r].status = outcome]
      /\ UNCHANGED <<meta, live, writer, reader, removed, spoiled, crashes>>
  BY DEF EndLog
<1>2. /\ run' \in [Run -> [pc : Pc, status : Status, phase : Phase]]
      /\ \A s \in Run : s # r => run'[s] = run[s]
      /\ run'[r].pc = "closed" /\ run'[r].status = outcome
  <2> DEFINE f == [run EXCEPT ![r].pc = "closed"]
  <2>1. run \in [Run -> [pc : Pc, status : Status, phase : Phase]] /\ "closed" \in Pc
    BY DEF RecordsInv, TypeOK, Pc
  <2>2. /\ f \in [Run -> [pc : Pc, status : Status, phase : Phase]]
        /\ f[r].pc = "closed" /\ \A s \in Run : s # r => f[s] = run[s]
    BY <2>1
  <2>3. run' = [f EXCEPT ![r].status = outcome]
    BY <1>1, <2>1
  <2> HIDE DEF f
  <2> QED BY <2>2, <2>3
<1>3. /\ log' \in [Run -> {"none", "growing", "complete"}]
      /\ \A s \in Run : s # r => log'[s] = log[s]
      /\ log'[r] # "growing"
  BY <1>1 DEF RecordsInv, TypeOK
<1>4. /\ meta[r] \in Record => meta[r].status = "running"
      /\ writer # None /\ writer.id = r => writer.content.status = "running"
      /\ removed[r] # "settled"
  BY <1>1 DEF RecordsInv, OutcomeIsOwn, Progress, Progressed, At
<1>5. TypeOK'
  BY <1>1, <1>2, <1>3 DEF RecordsInv, TypeOK
<1>6. WriterIsAtWork'
  BY <1>1, <1>2 DEF RecordsInv, TypeOK, WriterIsAtWork, MayWrite, At
<1>7. OutcomeIsOwn'
  BY <1>1, <1>2, <1>4 DEF RecordsInv, TypeOK, OutcomeIsOwn
<1>8. Progress'
  <2> SUFFICES ASSUME NEW s \in Run PROVE Progressed(s)'
    BY DEF Progress
  <2>1. Progressed(s)
    BY DEF RecordsInv, Progress
  <2>2. CASE s = r
    BY <1>1, <1>2, <1>3, <1>4, <2>1, <2>2 DEF Progressed, At, Settled, Rewritten
  <2>3. CASE s # r
    BY <1>1, <1>2, <1>3, <2>1, <2>3 DEF Progressed, At, Settled, Rewritten
  <2> QED BY <2>2, <2>3
<1>9. RecordMatchesOutcome' /\ DeletedStaysDeleted'
  BY <1>1, <1>2 DEF RecordsInv, RecordMatchesOutcome, DeletedStaysDeleted, Settled, Rewritten
<1>10. ReadersAreRight'
  BY <1>1, <1>2 DEF RecordsInv, ReadersAreRight, At
<1> QED BY <1>5, <1>6, <1>7, <1>8, <1>9, <1>10 DEF RecordsInv

\* End truncates the record it is about to write.
LEMMA EndTruncateStep == ASSUME RecordsInv, NEW r \in Run, EndTruncate(r) PROVE RecordsInv'
<1> DEFINE content == [status |-> run[r].status, phase |-> FinalPhase(run[r].status)]
<1>1. /\ At(r, "closed") /\ Truncate(r, content)
      /\ run' = [run EXCEPT ![r].pc = "finishing", ![r].phase = FinalPhase(run[r].status)]
      /\ UNCHANGED <<log, live, reader, removed, spoiled, crashes>>
  BY DEF EndTruncate
<1>2. run[r].status \in Status /\ FinalPhase(run[r].status) \in Phase
  BY DEF RecordsInv, TypeOK, FinalPhase, Phase
<1>3. /\ run' \in [Run -> [pc : Pc, status : Status, phase : Phase]]
      /\ \A s \in Run : /\ run'[s].pc = IF s = r THEN "finishing" ELSE run[s].pc
                        /\ run'[s].status = run[s].status
                        /\ s # r => run'[s].phase = run[s].phase
  <2> DEFINE f == [run EXCEPT ![r].pc = "finishing"]
  <2>1. run \in [Run -> [pc : Pc, status : Status, phase : Phase]] /\ "finishing" \in Pc
    BY DEF RecordsInv, TypeOK, Pc
  <2>2. /\ f \in [Run -> [pc : Pc, status : Status, phase : Phase]]
        /\ f[r].pc = "finishing" /\ f[r].status = run[r].status
        /\ \A s \in Run : s # r => f[s] = run[s]
    BY <2>1
  <2>3. run' = [f EXCEPT ![r].phase = FinalPhase(run[r].status)]
    BY <1>1, <2>1
  <2> HIDE DEF f
  <2> QED BY <1>2, <2>2, <2>3
<1>4. content \in Record
  BY <1>2 DEF Record
<1>5. /\ writer = None /\ writer' \in [id : Run, content : Record] /\ writer' # None
      /\ writer'.id = r /\ writer'.content = content
  BY <1>1, <1>4, TruncateLeaves DEF RecordsInv
<1>6. /\ meta' \in [Run -> Record \cup {Absent, Torn}]
      /\ meta'[r] = Torn \/ meta'[r] = meta[r]
      /\ \A s \in Run \ {r} : meta'[s] = meta[s]
  BY <1>1, <1>4, TruncateLeaves DEF RecordsInv
<1>7. TypeOK'
  BY <1>1, <1>3, <1>5, <1>6 DEF RecordsInv, TypeOK
<1>8. WriterIsAtWork'
  BY <1>1, <1>3, <1>5, <1>6 DEF RecordsInv, WriterIsAtWork, MayWrite, At
<1>9. OutcomeIsOwn'
  BY <1>3, <1>5, <1>6, NoRecord DEF RecordsInv, OutcomeIsOwn
<1>10. Progress'
  <2> SUFFICES ASSUME NEW s \in Run PROVE Progressed(s)'
    BY DEF Progress
  <2>1. Progressed(s) /\ (At(s, "finishing") => writer # None)
    BY DEF RecordsInv, Progress, WriterIsAtWork
  <2>2. writer'.content.status = run[r].status
    BY <1>5
  <2>3. CASE s = r
    BY <1>1, <1>3, <1>5, <1>6, <2>1, <2>3, NoRecord DEF Progressed, At, Settled, Rewritten
  <2>4. CASE s # r
    BY <1>1, <1>3, <1>5, <1>6, <2>1, <2>4 DEF Progressed, At, Settled, Rewritten
  <2> QED BY <2>3, <2>4
<1>11. RecordMatchesOutcome'
  BY <1>1, <1>3, <1>5, <1>6 DEF RecordsInv, RecordMatchesOutcome, Settled, Rewritten
<1>12. DeletedStaysDeleted'
  BY <1>1, <1>6 DEF RecordsInv, DeletedStaysDeleted, Progress, Progressed, At
<1>13. ReadersAreRight'
  BY <1>1, <1>3 DEF RecordsInv, ReadersAreRight, At
<1> QED BY <1>7, <1>8, <1>9, <1>10, <1>11, <1>12, <1>13 DEF RecordsInv

\* End writes the outcome and lets the mutex go.
LEMMA EndWriteStep == ASSUME RecordsInv, NEW r \in Run, EndWrite(r) PROVE RecordsInv'
<1>1. PICK onDisk \in Written(r) : meta' = [meta EXCEPT ![r] = onDisk] /\ Spoil(r, onDisk)
  BY DEF EndWrite
<1>2. /\ At(r, "finishing") /\ Goto(r, "finished") /\ writer' = None
      /\ UNCHANGED <<log, live, reader, removed, crashes>>
  BY DEF EndWrite
<1>3. TypeOK /\ "finished" \in Pc
  BY DEF RecordsInv, Pc
<1>4. /\ writer # None /\ writer.id = r
      /\ writer.content = [status |-> run[r].status, phase |-> FinalPhase(run[r].status)]
  BY <1>2 DEF RecordsInv, WriterIsAtWork, Progress, Progressed
<1>5. /\ onDisk \in Record \cup {Absent, Torn} /\ writer.content \in Record
      /\ onDisk = writer.content \/ onDisk = meta[r]
      /\ spoiled' \subseteq Run
      /\ onDisk = writer.content \/ r \in spoiled'
      /\ \A s \in Run \ {r} : s \in spoiled' <=> s \in spoiled
  BY <1>1, <1>2, <1>3, <1>4, WriteLeaves DEF At
<1>6. /\ meta' \in [Run -> Record \cup {Absent, Torn}]
      /\ \A s \in Run : meta'[s] = IF s = r THEN onDisk ELSE meta[s]
  BY <1>1, <1>5 DEF RecordsInv, TypeOK
<1>7. onDisk \in Record /\ onDisk.status # "running" => onDisk.status = run[r].status
  BY <1>4, <1>5 DEF RecordsInv, OutcomeIsOwn
<1>8. TypeOK'
  BY <1>2, <1>3, <1>5, <1>6, GotoMoves DEF TypeOK
<1>9. WriterIsAtWork'
  BY <1>2, <1>3, <1>4, GotoMoves DEF RecordsInv, WriterIsAtWork, At
<1>10. OutcomeIsOwn'
  BY <1>2, <1>3, <1>6, <1>7, GotoMoves DEF RecordsInv, OutcomeIsOwn
<1>11. Progress'
  <2> SUFFICES ASSUME NEW s \in Run PROVE Progressed(s)'
    BY DEF Progress
  <2>1. Progressed(s) /\ (At(s, "finishing") => s = r)
    BY <1>4 DEF RecordsInv, Progress, WriterIsAtWork
  <2> QED BY <1>2, <1>3, <1>6, <2>1, GotoMoves DEF Progressed, At, Settled, Rewritten
<1>12. RecordMatchesOutcome'
  <2> SUFFICES ASSUME NEW s \in Run, Settled(s)'
               PROVE  \/ meta'[s] = Absent
                      \/ s \in spoiled' /\ meta'[s] = Torn
                      \/ s \in spoiled' /\ meta'[s].status \in {"running", run'[s].status}
                      \/ /\ meta'[s].status = run'[s].status
                         /\ s \in Stragglers \/ meta'[s].phase = FinalPhase(run'[s].status)
    BY DEF RecordMatchesOutcome
  <2>1. CASE s # r
    BY <1>2, <1>3, <1>4, <1>5, <1>6, <2>1, GotoMoves
       DEF RecordsInv, RecordMatchesOutcome, Settled, Rewritten
  <2>2. CASE s = r /\ onDisk = writer.content
    BY <1>3, <1>2, <1>4, <1>6, <2>2, GotoMoves
  <2>3. CASE s = r /\ r \in spoiled'
    BY <1>2, <1>3, <1>5, <1>6, <1>7, <2>3, GotoMoves
  <2> QED BY <1>5, <2>1, <2>2, <2>3
<1>13. DeletedStaysDeleted'
  BY <1>2, <1>6 DEF RecordsInv, DeletedStaysDeleted, Progress, Progressed, At
<1>14. ReadersAreRight'
  BY <1>2, <1>3, GotoMoves DEF RecordsInv, ReadersAreRight, At
<1> QED BY <1>8, <1>9, <1>10, <1>11, <1>12, <1>13, <1>14 DEF RecordsInv

\* A finished run leaves the live map.
LEMMA UnregisterStep == ASSUME RecordsInv, NEW r \in Run, Unregister(r) PROVE RecordsInv'
<1>1. /\ At(r, "finished") /\ live' = live \ {r} /\ Goto(r, "ended")
      /\ UNCHANGED <<meta, log, writer, reader, removed, spoiled, crashes>>
  BY DEF Unregister
<1>2. TypeOK /\ "ended" \in Pc
  BY DEF RecordsInv, Pc
<1>3. TypeOK'
  BY <1>1, <1>2, GotoMoves DEF TypeOK
<1>4. WriterIsAtWork' /\ OutcomeIsOwn'
  BY <1>1, <1>2, GotoMoves DEF RecordsInv, TypeOK, WriterIsAtWork, OutcomeIsOwn, MayWrite, At
<1>5. Progress'
  BY <1>1, <1>2, GotoMoves DEF RecordsInv, TypeOK, Progress, Progressed, At, Settled, Rewritten
<1>6. RecordMatchesOutcome' /\ DeletedStaysDeleted'
  BY <1>1, <1>2, GotoMoves DEF RecordsInv, RecordMatchesOutcome, DeletedStaysDeleted, Settled, Rewritten, At
<1>7. ReadersAreRight'
  BY <1>1, <1>2, GotoMoves DEF RecordsInv, ReadersAreRight, At
<1> QED BY <1>3, <1>4, <1>5, <1>6, <1>7 DEF RecordsInv

-------------------------------------------------------------------------------
(* Requests, and crashes.                                                  *)

\* No record is removed while one is being written.
LEMMA DeleteStep == ASSUME RecordsInv, NEW r \in Run, Delete(r) PROVE RecordsInv'
<1>1. /\ writer = None /\ meta' = [meta EXCEPT ![r] = Absent]
      /\ log' = [log EXCEPT ![r] = "none"] /\ removed' = [removed EXCEPT ![r] = Removal(r)]
      /\ UNCHANGED <<run, live, writer, reader, spoiled, crashes>>
  BY DEF Delete
<1>2. /\ Removal(r) \in {"busy", "settled"}
      /\ Removal(r) = "settled" => At(r, "gone") \/ (At(r, "ended") /\ r \notin Stragglers)
  BY DEF Removal, At
<1>3. \A s \in Run : /\ meta'[s] = IF s = r THEN Absent ELSE meta[s]
                     /\ log'[s] = IF s = r THEN "none" ELSE log[s]
                     /\ removed'[s] = IF s = r THEN Removal(r) ELSE removed[s]
  BY <1>1 DEF RecordsInv, TypeOK
<1>4. TypeOK'
  BY <1>1, <1>2 DEF RecordsInv, TypeOK
<1>5. WriterIsAtWork' /\ OutcomeIsOwn'
  BY <1>1, <1>3, NoRecord DEF RecordsInv, WriterIsAtWork, OutcomeIsOwn, At
<1>6. Progress'
  BY <1>1, <1>2, <1>3, NoRecord DEF RecordsInv, Progress, Progressed, At, Settled, Rewritten
<1>7. RecordMatchesOutcome' /\ DeletedStaysDeleted'
  BY <1>1, <1>3 DEF RecordsInv, RecordMatchesOutcome, DeletedStaysDeleted, Settled, Rewritten
<1>8. ReadersAreRight'
  BY <1>1 DEF RecordsInv, ReadersAreRight, At
<1> QED BY <1>4, <1>5, <1>6, <1>7, <1>8 DEF RecordsInv

\* A request changes what its reader knows, and nothing else.
LEMMA ReaderStep ==
    ASSUME RecordsInv, UNCHANGED <<meta, log, run, live, writer, removed, spoiled, crashes>>,
           reader' \in [Reader -> [id : Run \cup {None},
                                   copy : Record \cup {Absent, Torn},
                                   reply : {None, "as_read", "interrupted", "error"}]],
           ReadersAreRight'
    PROVE  RecordsInv'
BY DEF RecordsInv, TypeOK, WriterIsAtWork, OutcomeIsOwn, Progress, Progressed,
       RecordMatchesOutcome, DeletedStaysDeleted, At, Settled, Rewritten

\* A reader reads a record without the mutex.
LEMMA GetReadStep == ASSUME RecordsInv, NEW x \in Reader, NEW r \in Run, GetRead(x, r) PROVE RecordsInv'
<1>1. reader' \in [Reader -> [id : Run \cup {None},
                              copy : Record \cup {Absent, Torn},
                              reply : {None, "as_read", "interrupted", "error"}]]
  BY DEF GetRead, RecordsInv, TypeOK
<1>2. ReadersAreRight'
  BY RunLogAssumption DEF GetRead, RecordsInv, TypeOK, ReadersAreRight, At
<1> QED BY <1>1, <1>2, ReaderStep DEF GetRead

\* A reader is told what it read, made interrupted if no process has the run.
LEMMA GetReplyStep == ASSUME RecordsInv, NEW x \in Reader, GetReply(x) PROVE RecordsInv'
<1> DEFINE verdict == Verdict(reader[x].id, reader[x].copy)
<1>1. /\ reader[x].copy # Absent /\ reader' = [reader EXCEPT ![x].reply = verdict]
      /\ UNCHANGED <<meta, log, run, live, writer, removed, spoiled, crashes>>
  BY DEF GetReply
<1>2. verdict \in {"as_read", "interrupted", "error"}
  BY DEF Verdict
<1>3. reader[x].id \in Run
  BY <1>1 DEF RecordsInv, ReadersAreRight
<1>4. verdict = "as_read" /\ reader[x].copy.status = "running" => ~ At(reader[x].id, "gone")
  BY <1>3 DEF Verdict, IsActive, RecordsInv, Progress, Progressed, At
<1> HIDE DEF verdict
<1>5. reader' \in [Reader -> [id : Run \cup {None},
                              copy : Record \cup {Absent, Torn},
                              reply : {None, "as_read", "interrupted", "error"}]]
  BY <1>1, <1>2 DEF RecordsInv, TypeOK
<1>6. \A y \in Reader : /\ reader'[y].id = reader[y].id /\ reader'[y].copy = reader[y].copy
                        /\ reader'[y].reply = IF y = x THEN verdict ELSE reader[y].reply
  BY <1>1 DEF RecordsInv, TypeOK
<1>7. ReadersAreRight'
  BY <1>1, <1>3, <1>4, <1>6 DEF RecordsInv, ReadersAreRight, At
<1> QED BY <1>1, <1>5, <1>7, ReaderStep

\* A reader is through and forgets what it read.
LEMMA GetDoneStep == ASSUME RecordsInv, NEW x \in Reader, GetDone(x) PROVE RecordsInv'
<1>1. reader' \in [Reader -> [id : Run \cup {None},
                              copy : Record \cup {Absent, Torn},
                              reply : {None, "as_read", "interrupted", "error"}]]
  BY DEF GetDone, RecordsInv, TypeOK, Idle
<1>2. ReadersAreRight'
  BY RunLogAssumption DEF GetDone, RecordsInv, TypeOK, ReadersAreRight, Idle, At
<1> QED BY <1>1, <1>2, ReaderStep DEF GetDone

\* What is on disk stays, and no run that had begun goes on.
LEMMA CrashStep == RecordsInv /\ Crash => RecordsInv'
<1> SUFFICES ASSUME RecordsInv, Crash PROVE RecordsInv'
  OBVIOUS
<1>1. /\ crashes < MaxCrashes /\ crashes' = crashes + 1
      /\ run' = [r \in Run |-> IF At(r, "new") THEN run[r] ELSE [run[r] EXCEPT !.pc = "gone"]]
      /\ live' = {} /\ writer' = None /\ reader' = [x \in Reader |-> Idle]
      /\ UNCHANGED <<meta, log, removed, spoiled>>
  BY DEF Crash
<1>2. /\ run' \in [Run -> [pc : Pc, status : Status, phase : Phase]]
      /\ \A r \in Run : /\ run'[r].pc = IF At(r, "new") THEN "new" ELSE "gone"
                        /\ run'[r].status = run[r].status
  <2>1. "gone" \in Pc
    BY DEF Pc
  <2>2. run \in [Run -> [pc : Pc, status : Status, phase : Phase]]
    BY DEF RecordsInv, TypeOK
  <2>3. ASSUME NEW r \in Run
        PROVE  /\ run'[r] \in [pc : Pc, status : Status, phase : Phase]
               /\ run'[r].pc = IF At(r, "new") THEN "new" ELSE "gone"
               /\ run'[r].status = run[r].status
    <3>1. CASE At(r, "new")
      BY <1>1, <2>2, <3>1 DEF At
    <3>2. CASE ~ At(r, "new")
      BY <1>1, <2>1, <2>2, <3>2
    <3> QED BY <3>1, <3>2
  <2> QED BY <1>1, <2>3
<1>3. TypeOK'
  BY <1>1, <1>2, RunLogAssumption DEF RecordsInv, TypeOK, Idle
<1>4. WriterIsAtWork' /\ OutcomeIsOwn'
  BY <1>1, <1>2 DEF RecordsInv, WriterIsAtWork, OutcomeIsOwn, At
<1>5. Progress'
  BY <1>1, <1>2 DEF RecordsInv, Progress, Progressed, At, Settled, Rewritten
<1>6. RecordMatchesOutcome' /\ DeletedStaysDeleted'
  BY <1>1, <1>2 DEF RecordsInv, RecordMatchesOutcome, DeletedStaysDeleted, Settled, Rewritten
<1>7. ReadersAreRight'
  BY <1>1, RunLogAssumption DEF ReadersAreRight, Idle
<1> QED BY <1>3, <1>4, <1>5, <1>6, <1>7 DEF RecordsInv

-------------------------------------------------------------------------------

\* Every step of the run records keeps the invariant.
LEMMA NextRecordsInv == RecordsInv /\ [Next]_vars => RecordsInv'
<1> SUFFICES ASSUME RecordsInv, [Next]_vars PROVE RecordsInv'
  OBVIOUS
<1>1. CASE \E r \in Run : \/ BeginLog(r)
                          \/ \E outcome \in Status \ {"running"} : EndLog(r, outcome)
                          \/ Step(r) \/ Report(r) \/ Delete(r)
  BY <1>1, BeginLogStep, EndLogStep, BeginTruncateStep, BeginPruneStep, RegisterLiveStep,
     EndTruncateStep, EndWriteStep, UnregisterStep, ReportStep, DeleteStep DEF Step
<1>2. CASE \E x \in Reader : (\E r \in Run : GetRead(x, r)) \/ GetReply(x) \/ GetDone(x)
  BY <1>2, GetReadStep, GetReplyStep, GetDoneStep
<1>3. CASE ReportWrite \/ Crash
  BY <1>3, ReportWriteStep, CrashStep
<1>4. CASE UNCHANGED vars
  BY <1>4 DEF vars, RecordsInv, TypeOK, WriterIsAtWork, OutcomeIsOwn, Progress, Progressed,
              RecordMatchesOutcome, DeletedStaysDeleted, ReadersAreRight, At, Settled, Rewritten
<1> QED BY <1>1, <1>2, <1>3, <1>4 DEF Next

\* So it always holds.
LEMMA RecordsInvariance == Spec => []RecordsInv
BY InitRecordsInv, NextRecordsInv, PTL DEF Spec

-------------------------------------------------------------------------------

\* What runlog.go keeps after End: the record of a run that has ended says how
\* it ended, with the final phase unless a report straggles, whatever the other
\* runs, the readers and the deletions did meanwhile and whichever writes failed.
\* A last write that failed, of which writeMetaLocked's callers drop the error,
\* leaves it as "running" or cut off, never with another outcome.
THEOREM EndedRecordsAreRight == Spec => []RecordMatchesOutcome
BY RecordsInvariance, PTL DEF RecordsInv

\* normalizeInterrupted: no reader is told that a run of a process that stopped
\* is still running.
THEOREM ReadersSeeNoGhosts == Spec => []NoGhostRuns
<1>1. RecordsInv => NoGhostRuns
  BY DEF RecordsInv, ReadersAreRight, NoGhostRuns, At
<1> QED BY <1>1, RecordsInvariance, PTL

\* A record deleted or pruned once its run is over does not come back.
THEOREM DeletionIsFinal == Spec => []DeletedStaysDeleted
BY RecordsInvariance, PTL DEF RecordsInv

\* unregisterLive comes last in End: a run that leaves the live map, the process
\* going on, has closed its log, and its record no longer says "running" unless
\* the last write of it failed.
THEOREM UnregisteredIsSettled == Spec => InactiveMeansSettled
<1> DEFINE A == \A r \in live \ live' :
                   \/ crashes' # crashes
                   \/ /\ log[r] # "growing"
                      /\ meta[r].status = "running" => r \in spoiled
<1>1. RecordsInv /\ [Next]_vars => A
  <2> SUFFICES ASSUME RecordsInv, [Next]_vars, NEW r \in live, r \notin live', crashes' = crashes
               PROVE  log[r] # "growing" /\ (meta[r].status = "running" => r \in spoiled)
    OBVIOUS
  <2>1. Unregister(r) \/ live \subseteq live' \/ Crash
    <3>1. ASSUME NEW s \in Run, Step(s) PROVE Unregister(s) \/ live \subseteq live'
      BY <3>1 DEF Step, BeginTruncate, BeginPrune, RegisterLive, EndTruncate, EndWrite
    <3>2. ASSUME NEW s \in Run, Unregister(s) PROVE s = r
      BY <3>2 DEF Unregister
    <3> QED BY <3>1, <3>2 DEF Next, vars, BeginLog, Report, ReportWrite, EndLog, Delete,
                              GetRead, GetReply, GetDone
  <2>2. ~ Crash
    BY DEF Crash, RecordsInv, TypeOK
  <2>3. At(r, "finished") /\ r \in Run
    BY <2>1, <2>2 DEF Unregister, RecordsInv, TypeOK
  <2>4. log[r] # "growing" /\ run[r].status # "running" /\ Settled(r)
    BY <2>3 DEF RecordsInv, Progress, Progressed, Settled, At
  <2> QED BY <2>3, <2>4, NoRecord DEF RecordsInv, RecordMatchesOutcome
<1> QED BY <1>1, RecordsInvariance, PTL DEF Spec, InactiveMeansSettled

\* A record with an outcome keeps it: whoever writes the file next, a late
\* report or End, writes that outcome again, unless the record is removed.
THEOREM OutcomesAreFinal == Spec => OutcomeIsFinal
<1> DEFINE A == \A r \in Run :
                   meta[r] \in Record /\ meta[r].status # "running" =>
                       \/ meta'[r] = Absent
                       \/ meta'[r] = Torn /\ writer'.content.status = meta[r].status
                       \/ meta'[r] \in Record /\ meta'[r].status = meta[r].status
<1>1. RecordsInv /\ [Next]_vars => A
  <2> SUFFICES ASSUME RecordsInv, [Next]_vars, NEW r \in Run,
                      meta[r] \in Record, meta[r].status # "running"
               PROVE  \/ meta'[r] = Absent \/ meta'[r] = meta[r]
                      \/ meta'[r] = Torn /\ writer'.content.status = meta[r].status
                      \/ meta'[r] \in Record /\ meta'[r].status = meta[r].status
    OBVIOUS
  <2>1. /\ meta[r].status = run[r].status
        /\ writer # None /\ writer.id = r => writer.content.status = meta[r].status
    BY DEF RecordsInv, OutcomeIsOwn, WriterIsAtWork
  <2>2. ASSUME NEW s \in Run, BeginTruncate(s) PROVE meta'[r] = meta[r]
    <3>1. s # r
      BY <2>2, NoRecord DEF RecordsInv, Progress, Progressed, BeginTruncate, At
    <3> QED BY <2>2, <3>1 DEF RecordsInv, TypeOK, BeginTruncate, Truncate
  <2>3. ASSUME NEW s \in Run, writer # None, writer.id = s, NEW onDisk \in Written(s),
               meta' = [meta EXCEPT ![s] = onDisk]
        PROVE  \/ meta'[r] = meta[r]
               \/ meta'[r] \in Record /\ meta'[r].status = meta[r].status
    <3>1. writer.content \in Record /\ (onDisk = writer.content \/ onDisk = meta[s])
      BY <2>3 DEF RecordsInv, TypeOK, Written
    <3>2. meta'[r] = IF s = r THEN onDisk ELSE meta[r]
      BY <2>3 DEF RecordsInv, TypeOK
    <3> QED BY <2>1, <2>3, <3>1, <3>2
  <2>4. ASSUME NEW s \in Run, BeginPrune(s) \/ EndWrite(s)
        PROVE  \/ meta'[r] = Absent \/ meta'[r] = meta[r]
               \/ meta'[r] \in Record /\ meta'[r].status = meta[r].status
    <3>1. writer # None /\ writer.id = s
      BY <2>4 DEF BeginPrune, EndWrite, RecordsInv, WriterIsAtWork
    <3>2. CASE EndWrite(s)
      BY <2>3, <3>1, <3>2 DEF EndWrite
    <3>3. CASE BeginPrune(s)
      <4>1. s # r
        BY <2>1, <3>3 DEF BeginPrune, RecordsInv, Progress, Progressed, At
      <4> QED BY <3>3, <4>1 DEF BeginPrune
    <3> QED BY <2>4, <3>2, <3>3
  <2>5. ASSUME NEW s \in Run, EndTruncate(s) \/ Report(s)
        PROVE  meta'[r] = meta[r] \/ (meta'[r] = Torn /\ writer'.content.status = meta[r].status)
    BY <2>1, <2>5 DEF EndTruncate, Report, Truncate, RecordsInv, TypeOK
  <2>6. ASSUME NEW s \in Run, Delete(s) PROVE meta'[r] = Absent \/ meta'[r] = meta[r]
    BY <2>6 DEF Delete, RecordsInv, TypeOK
  <2>7. ASSUME ReportWrite
        PROVE  \/ meta'[r] = meta[r]
               \/ meta'[r] \in Record /\ meta'[r].status = meta[r].status
    <3>1. writer # None /\ writer.id \in Run
      BY <2>7 DEF ReportWrite, RecordsInv, TypeOK
    <3> QED BY <2>3, <2>7, <3>1 DEF ReportWrite
  <2> QED BY <2>2, <2>3, <2>4, <2>5, <2>6, <2>7
          DEF Next, Step, vars, BeginLog, RegisterLive, EndLog, Unregister,
              GetRead, GetReply, GetDone, Crash
<1> QED BY <1>1, RecordsInvariance, PTL DEF Spec, OutcomeIsFinal

-------------------------------------------------------------------------------
(* Cycler: lemmas about ascending lists.                                   *)

(***************************************************************************)
(* The names are positive integers, and so are the entries of a list.      *)
(***************************************************************************)
LEMMA NamesAreNumbers ==
    /\ \A n \in Name : n \in Int /\ n > 0 /\ n <= MaxUploads
    /\ \A s \in Seq(Name) : \A i \in DOMAIN s : s[i] \in Name /\ s[i] \in Int
<1>1. \A n \in Name : n \in Int /\ n > 0 /\ n <= MaxUploads
    BY CyclerAssumption DEF Name
<1>2. \A s \in Seq(Name) : \A i \in DOMAIN s : s[i] \in Name
    OBVIOUS
<1> QED
    BY <1>1, <1>2

(***************************************************************************)
(* Appending what is beyond the whole list keeps it ascending.             *)
(***************************************************************************)
LEMMA AppendAscends ==
    ASSUME NEW s \in Seq(Name), NEW k \in Name, Ascending(s), Below(s, k - 1)
    PROVE  Ascending(Append(s, k)) /\ Below(Append(s, k), k)
<1> DEFINE t == Append(s, k)
<1>1. Len(t) = Len(s) + 1 /\ DOMAIN t = 1..Len(s) + 1 /\ DOMAIN s = 1..Len(s) /\ Len(s) \in Nat
    OBVIOUS
<1>2. \A i \in DOMAIN s : t[i] = s[i] /\ s[i] \in Int
  <2>1. \A i \in DOMAIN s : t[i] = s[i]
      BY <1>1
  <2> QED
      BY <2>1, NamesAreNumbers
<1>3. t[Len(s) + 1] = k /\ k \in Int
    BY <1>1, NamesAreNumbers
<1>4. ASSUME NEW i \in DOMAIN t, NEW j \in DOMAIN t, i <= j
      PROVE  t[j] - t[i] >= j - i
  <2>1. CASE j \in DOMAIN s
      BY <1>1, <1>2, <1>4, <2>1 DEF Ascending
  <2>2. CASE j = Len(s) + 1 /\ i = j
      BY <1>1, <1>3, <2>2
  <2>3. CASE j = Len(s) + 1 /\ i \in DOMAIN s
    <3>1. Len(s) \in DOMAIN s /\ i <= Len(s)
        BY <1>1, <2>3
    <3>2. s[Len(s)] - s[i] >= Len(s) - i
        BY <3>1, <2>3 DEF Ascending
    <3>3. s[Len(s)] <= k - 1
        BY <3>1 DEF Below
    <3>4. s[Len(s)] \in Int /\ s[i] \in Int /\ t[i] = s[i] /\ i \in Int /\ Len(s) \in Int
        BY <1>1, <1>2, <2>3, <3>1
    <3>5. k - s[i] >= Len(s) + 1 - i
        BY <1>3, <3>2, <3>3, <3>4
    <3> QED
        BY <1>3, <2>3, <3>4, <3>5
  <2> QED
      BY <1>1, <1>4, <2>1, <2>2, <2>3
<1>5. ASSUME NEW i \in DOMAIN t PROVE t[i] <= k
  <2>1. CASE i \in DOMAIN s
      BY <1>2, <1>3, <2>1 DEF Below
  <2>2. CASE i = Len(s) + 1
      BY <1>3, <2>2
  <2> QED
      BY <1>1, <2>1, <2>2
<1> QED
    BY <1>4, <1>5 DEF Ascending, Below

(***************************************************************************)
(* What follows the first entry of an ascending list is ascending.         *)
(***************************************************************************)
LEMMA TailAscends ==
    ASSUME NEW s \in Seq(Name), s # <<>>, NEW k \in Nat, Ascending(s), Below(s, k)
    PROVE  Tail(s) \in Seq(Name) /\ Ascending(Tail(s)) /\ Below(Tail(s), k)
<1>1. /\ Tail(s) \in Seq(Name) /\ Len(s) \in Nat /\ Len(s) > 0
      /\ DOMAIN s = 1..Len(s) /\ DOMAIN Tail(s) = 1..Len(s) - 1
    OBVIOUS
<1>2. \A i \in DOMAIN Tail(s) : Tail(s)[i] = s[i + 1] /\ i + 1 \in DOMAIN s /\ i \in Int
    BY <1>1
<1>3. ASSUME NEW i \in DOMAIN Tail(s), NEW j \in DOMAIN Tail(s), i <= j
      PROVE  Tail(s)[j] - Tail(s)[i] >= j - i
  <2>1. i + 1 \in DOMAIN s /\ j + 1 \in DOMAIN s /\ i + 1 <= j + 1 /\ i \in Int /\ j \in Int
      BY <1>2, <1>3
  <2>2. s[j + 1] - s[i + 1] >= (j + 1) - (i + 1)
      BY <2>1 DEF Ascending
  <2>3. s[i + 1] \in Int /\ s[j + 1] \in Int
      BY <2>1, NamesAreNumbers
  <2> QED
      BY <1>2, <2>1, <2>2, <2>3
<1> QED
    BY <1>1, <1>2, <1>3 DEF Ascending, Below

(***************************************************************************)
(* The first of more than m ascending entries is m below the bound.        *)
(***************************************************************************)
LEMMA HeadIsOld ==
    ASSUME NEW s \in Seq(Name), NEW m \in Nat, NEW k \in Nat,
           Len(s) > m, Ascending(s), Below(s, k)
    PROVE  Head(s) \in Name /\ Head(s) <= k - m
<1>1. Len(s) \in Nat /\ DOMAIN s = 1..Len(s) /\ 1 \in DOMAIN s /\ Len(s) \in DOMAIN s
    OBVIOUS
<1>2. Head(s) = s[1] /\ s[1] \in Name /\ s[Len(s)] \in Name
    BY <1>1
<1>3. s[Len(s)] - s[1] >= Len(s) - 1 /\ s[Len(s)] <= k
    BY <1>1 DEF Ascending, Below
<1> QED
    BY <1>1, <1>2, <1>3, NamesAreNumbers

-------------------------------------------------------------------------------
(* The inductive invariant.                                                *)

-------------------------------------------------------------------------------
(* Cycler: types, whether names repeat or not.                             *)

\* A list is not one of the two values for a file without one.
LEMMA ListsAreLists == \A list \in Seq(Name) : list \notin {Missing, CutOff}
<1> SUFFICES ASSUME NEW list \in Seq(Name) PROVE list \notin {Missing, CutOff}
    OBVIOUS
<1>0. Name \subseteq Nat
    BY DEF Name
<1>1. Len(list) \in Nat /\ list \in [1..Len(list) -> Name]
    OBVIOUS
<1>2. list \in [1..Len(list) -> Nat]
    BY <1>0, <1>1
<1>3. list \in Seq(Nat)
    BY <1>1, <1>2
<1> QED
    BY <1>3, CyclerAssumption

(***************************************************************************)
(* Only faults the constant names ever happen.                             *)
(***************************************************************************)
LEMMA FaultsAreKnown == CyclerTypeOK /\ [CyclerNext]_cyclerVars => failed' \subseteq Faults
<1> SUFFICES ASSUME CyclerTypeOK, [CyclerNext]_cyclerVars PROVE failed' \subseteq Faults
    OBVIOUS
<1>1. failed \subseteq Faults
    BY DEF CyclerTypeOK
<1>2. ASSUME NEW what, Fault(what) PROVE failed' \subseteq Faults
    BY <1>1, <1>2 DEF Fault
<1>3. NoFault => failed' \subseteq Faults
    BY <1>1 DEF NoFault
<1>4. ASSUME NEW list, WriteLocal(list) PROVE failed' \subseteq Faults
    BY <1>2, <1>3, <1>4 DEF WriteLocal
<1>5. CASE UNCHANGED cyclerVars
    BY <1>1, <1>5 DEF cyclerVars
<1>6. CASE Begin \/ Upload \/ Pruned
    BY <1>1, <1>6 DEF Begin, Upload, Pruned
<1>7. CASE UploadFails \/ LoadNothing \/ Kill \/ Wipe
    BY <1>2, <1>7 DEF UploadFails, LoadNothing, Kill, Wipe
<1>8. CASE LoadRemote \/ Save
    BY <1>4, <1>8 DEF LoadRemote, Save
<1>9. CASE LoadLocal
    BY <1>2, <1>3, <1>9 DEF LoadLocal, FallBack
<1>10. CASE Prune \/ SaveRemote
    BY <1>2, <1>3, <1>10 DEF Prune, SaveRemote
<1> QED
    BY <1>5, <1>6, <1>7, <1>8, <1>9, <1>10 DEF CyclerNext

(***************************************************************************)
(* Writing the local state leaves the new list, the old one or a torn one. *)
(***************************************************************************)
LEMMA LocalAfterWrite ==
    ASSUME NEW list, WriteLocal(list) PROVE local' \in {list, local, CutOff}
BY DEF WriteLocal

\* The backup being stored has a name, and may still be counted.
Named ==
    /\ pc \in {"upload", "load"} => fileKey \in Name
    /\ pc = "upload" => uploads < MaxUploads

\* Every step of the retention keeps the types.
LEMMA NextTypes ==
    CyclerTypeOK /\ Named /\ [CyclerNext]_cyclerVars => CyclerTypeOK' /\ Named'
<1> SUFFICES ASSUME CyclerTypeOK, Named, [CyclerNext]_cyclerVars
             PROVE  CyclerTypeOK' /\ Named'
    OBVIOUS
<1> USE CyclerAssumption
<1>f. failed' \subseteq Faults
    BY FaultsAreKnown
<1>s. /\ <<>> \in Seq(Name)
      /\ \A loaded \in Seq(Name) : pc = "load" /\ Add(loaded) => packages' \in Seq(Name)
    BY DEF Add, Named
<1>1. CASE Begin
  <2>1. fileKey' \in 1..uploads + 1 /\ uploads < MaxUploads /\ uploads \in Nat
      BY <1>1 DEF Begin, CyclerTypeOK
  <2>2. fileKey' \in Name /\ fileKey' \in 0..MaxUploads
      BY <2>1 DEF Name
  <2> QED
      BY <1>1, <1>f, <1>s, <2>2 DEF Begin, CyclerTypeOK, Named, files, states
<1>2. CASE Upload
  <2>1. uploads + 1 \in 0..MaxUploads /\ stored' \in [Name -> 0..MaxUploads]
    <3>1. uploads < MaxUploads /\ uploads + 1 \in 0..MaxUploads
        BY <1>2 DEF Upload, Named, CyclerTypeOK
    <3>2. stored' = [stored EXCEPT ![fileKey] = uploads + 1]
        BY <1>2 DEF Upload
    <3> QED
        BY <3>1, <3>2 DEF CyclerTypeOK
  <2> QED
      BY <1>2, <1>f, <2>1 DEF Upload, CyclerTypeOK, Named, states, cycler
<1>3. CASE UploadFails
    BY <1>3, <1>f DEF UploadFails, CyclerTypeOK, Named, states, cycler
<1>4. CASE LoadRemote
  <2>1. remote \in Seq(Name) /\ local' \in {remote, local, CutOff} /\ packages' \in Seq(Name)
      BY <1>4, <1>s, LocalAfterWrite DEF LoadRemote, CyclerTypeOK
  <2> QED
      BY <1>4, <1>f, <2>1 DEF LoadRemote, CyclerTypeOK, Named, files
<1>5. CASE LoadLocal
  <2>1. packages' \in Seq(Name)
      BY <1>5, <1>s DEF LoadLocal, CyclerTypeOK
  <2> QED
      BY <1>5, <1>f, <1>s, <2>1 DEF LoadLocal, CyclerTypeOK, Named, files
<1>6. CASE LoadNothing
    BY <1>6, <1>f, <1>s DEF LoadNothing, CyclerTypeOK, Named, files, states
<1>7. CASE Prune
  <2>1. packages' \in Seq(Name) /\ stored' \in [Name -> 0..MaxUploads]
      BY <1>7 DEF Prune, CyclerTypeOK
  <2> QED
      BY <1>7, <1>f, <2>1 DEF Prune, CyclerTypeOK, Named, states
<1>8. CASE Pruned
    BY <1>8, <1>f DEF Pruned, CyclerTypeOK, Named, files, states, cycler
<1>9. CASE SaveRemote
    BY <1>9, <1>f DEF SaveRemote, CyclerTypeOK, Named, files, cycler
<1>10. CASE Save
  <2>1. local' \in {packages, local, CutOff}
      BY <1>10, LocalAfterWrite DEF Save
  <2> QED
      BY <1>10, <1>f, <2>1 DEF Save, CyclerTypeOK, Named, files, cycler
<1>11. CASE Kill \/ Wipe
    BY <1>11, <1>f DEF Kill, Wipe, CyclerTypeOK, Named, files, cycler
<1>12. CASE UNCHANGED cyclerVars
    BY <1>12 DEF cyclerVars, files, states, cycler, CyclerTypeOK, Named
<1> QED
    BY <1>1, <1>2, <1>3, <1>4, <1>5, <1>6, <1>7, <1>8, <1>9, <1>10, <1>11, <1>12 DEF CyclerNext

-------------------------------------------------------------------------------
(* Cycler: the newest backups, when no name is given twice.                *)

(***************************************************************************)
(* The invariant holds at the start.                                       *)
(***************************************************************************)
LEMMA InitCyclerInv == CyclerInit => CyclerInv
<1> SUFFICES ASSUME CyclerInit PROVE CyclerInv
    OBVIOUS
<1>1. CyclerTypeOK
  <2>1. stored \in [Name -> 0..MaxUploads]
      BY CyclerAssumption DEF CyclerInit
  <2>2. <<>> \in Seq(Name) /\ 0 \in 0..MaxUploads
      BY CyclerAssumption
  <2> QED
      BY <2>1, <2>2 DEF CyclerInit, CyclerTypeOK
<1>2. Ascending(<<>>) /\ Below(<<>>, uploads)
    BY DEF Ascending, Below
<1>3. StoredUnderOwnName
    BY DEF CyclerInit, StoredUnderOwnName
<1> QED
    BY <1>1, <1>2, <1>3 DEF CyclerInit, CyclerInv, ListsInOrder, IsList, PackagesInOrder, FileKeyIsNext

(***************************************************************************)
(* A state file that is in order stays so when the bound grows.            *)
(***************************************************************************)
LEMMA IsListGrows ==
    ASSUME NEW s \in Seq(Name) \cup {Missing, CutOff}, NEW k \in Int, NEW m \in Int,
           k <= m, IsList(s, k)
    PROVE  IsList(s, m)
<1> SUFFICES ASSUME s \notin {Missing, CutOff} PROVE Below(s, m)
    BY DEF IsList
<1>1. s \in Seq(Name) /\ Below(s, k)
    BY DEF IsList
<1>2. \A i \in DOMAIN s : s[i] \in Int
    BY <1>1, NamesAreNumbers
<1> QED
    BY <1>1, <1>2 DEF Below

(***************************************************************************)
(* Every step preserves it, as long as no name is given twice.             *)
(***************************************************************************)
LEMMA NextCyclerInv == ~ Repeats /\ CyclerInv /\ [CyclerNext]_cyclerVars => CyclerInv'
<1> SUFFICES ASSUME ~ Repeats, CyclerInv, [CyclerNext]_cyclerVars PROVE CyclerInv'
    OBVIOUS
<1> USE CyclerAssumption
<1>0. /\ CyclerTypeOK /\ ListsInOrder /\ PackagesInOrder /\ FileKeyIsNext /\ StoredUnderOwnName
      /\ uploads \in Int
    BY DEF CyclerInv, CyclerTypeOK
<1>t. CyclerTypeOK'
  <2>1. Named
      BY <1>0 DEF CyclerTypeOK, FileKeyIsNext, Named, Name
  <2> QED
      BY <1>0, <2>1, NextTypes
<1> DEFINE Lists == pc # "load" => IsList(remote, uploads) /\ IsList(local, uploads)
<1>a. Lists /\ (pc = "load" => IsList(remote, uploads - 1) /\ IsList(local, uploads - 1))
    BY <1>0 DEF ListsInOrder, Older
<1>b. IsList(remote, uploads) /\ IsList(local, uploads)
  <2>1. CASE pc = "load"
      BY <1>0, <1>a, <2>1, IsListGrows DEF CyclerTypeOK
  <2> QED
      BY <1>a, <2>1
<1>1. CASE Begin
  <2>1. fileKey' = uploads + 1 /\ uploads + 1 \in 0..MaxUploads
      BY <1>0, <1>1 DEF Begin, CyclerTypeOK
  <2>2. Ascending(<<>>) /\ Below(<<>>, uploads)
      BY DEF Ascending, Below
  <2>4. ListsInOrder'
      BY <1>1, <1>b DEF Begin, files, states, ListsInOrder, Older
  <2>5. PackagesInOrder' /\ FileKeyIsNext'
      BY <1>1, <2>1, <2>2 DEF Begin, files, states, PackagesInOrder, FileKeyIsNext
  <2>6. StoredUnderOwnName'
      BY <1>0, <1>1 DEF Begin, files, StoredUnderOwnName
  <2> QED
      BY <1>t, <2>4, <2>5, <2>6 DEF CyclerInv
<1>2. CASE Upload
  <2>1. fileKey = uploads + 1 /\ pc' = "load" /\ uploads' = uploads + 1 /\ fileKey' = fileKey
      BY <1>0, <1>2 DEF Upload, FileKeyIsNext
  <2>2. uploads' \in 0..MaxUploads /\ fileKey \in Name
      BY <1>0, <2>1 DEF CyclerTypeOK, Name
  <2>4. IsList(remote, uploads' - 1) /\ IsList(local, uploads' - 1)
      BY <1>0, <1>b, <2>1
  <2>5. ListsInOrder'
      BY <1>2, <2>1, <2>4 DEF Upload, states, ListsInOrder, Older
  <2>6. PackagesInOrder' /\ FileKeyIsNext'
    <3>1. packages' = <<>> /\ pc' = "load" /\ uploads' > 0
        BY <1>0, <1>2, <2>1 DEF Upload, cycler, PackagesInOrder, CyclerTypeOK
    <3>2. Ascending(<<>>) /\ Below(<<>>, uploads')
        BY DEF Ascending, Below
    <3> QED
        BY <2>1, <3>1, <3>2 DEF PackagesInOrder, FileKeyIsNext
  <2>7. StoredUnderOwnName'
    <3> SUFFICES ASSUME NEW k \in 1..uploads', Keep = 0 \/ k > uploads' - Keep
                 PROVE  stored'[k] = k
        BY DEF StoredUnderOwnName
    <3>1. CASE k = uploads + 1
        BY <1>0, <1>2, <2>1, <2>2, <3>1 DEF Upload, CyclerTypeOK
    <3>2. CASE k # uploads + 1
      <4>1. k \in 1..uploads /\ (Keep = 0 \/ k > uploads - Keep)
          BY <1>0, <2>1, <3>2
      <4>2. stored[k] = k /\ k \in Name
          BY <1>0, <4>1 DEF StoredUnderOwnName, CyclerTypeOK, Name
      <4> QED
          BY <1>0, <1>2, <2>1, <3>2, <4>2 DEF Upload, CyclerTypeOK
    <3> QED
        BY <3>1, <3>2
  <2> QED
      BY <1>t, <2>5, <2>6, <2>7 DEF CyclerInv
<1>3. CASE UploadFails
  <2>1. fileKey = uploads + 1
      BY <1>0, <1>3 DEF UploadFails, FileKeyIsNext
  <2>3. ListsInOrder'
      BY <1>3, <1>b DEF UploadFails, states, ListsInOrder, Older
  <2>4. PackagesInOrder' /\ FileKeyIsNext'
      BY <1>0, <1>3 DEF UploadFails, cycler, PackagesInOrder, FileKeyIsNext
  <2>5. StoredUnderOwnName'
    <3> SUFFICES ASSUME NEW k \in 1..uploads, Keep = 0 \/ k > uploads - Keep
                 PROVE  stored'[k] = k
        BY <1>3 DEF UploadFails, StoredUnderOwnName
    <3>1. stored[k] = k /\ k \in Name /\ k # fileKey
        BY <1>0, <2>1 DEF StoredUnderOwnName, CyclerTypeOK, Name
    <3> QED
        BY <1>0, <1>3, <3>1 DEF UploadFails, CyclerTypeOK
  <2> QED
      BY <1>t, <2>3, <2>4, <2>5 DEF CyclerInv
<1>c. ASSUME NEW loaded \in Seq(Name), pc = "load", Add(loaded), IsList(loaded, uploads - 1)
      PROVE  packages' \in Seq(Name) /\ Ascending(packages') /\ Below(packages', uploads)
  <2>1. fileKey = uploads /\ uploads \in Name
      BY <1>0, <1>c DEF FileKeyIsNext, CyclerTypeOK, Name
  <2>2. loaded \notin {Missing, CutOff}
      BY ListsAreLists
  <2>3. Ascending(loaded) /\ Below(loaded, uploads - 1)
      BY <1>c, <2>2 DEF IsList
  <2>4. packages' = Append(loaded, uploads)
      BY <1>c, <2>1 DEF Add
  <2> QED
      BY <2>1, <2>3, <2>4, AppendAscends
<1>d. <<>> \in Seq(Name) /\ IsList(<<>>, uploads - 1) /\ IsList(<<>>, uploads)
    BY DEF IsList, Ascending, Below
<1>f. IsList(CutOff, uploads) /\ IsList(Missing, uploads)
    BY DEF IsList
<1>4. CASE LoadRemote
  <2>1. remote \in Seq(Name) /\ IsList(remote, uploads - 1) /\ Add(remote) /\ pc = "load"
      BY <1>0, <1>4, <1>a DEF LoadRemote, CyclerTypeOK
  <2>2. packages' \in Seq(Name) /\ Ascending(packages') /\ Below(packages', uploads)
      BY <1>c, <2>1
  <2>0. local' \in {remote, local, CutOff}
      BY <1>4, LocalAfterWrite DEF LoadRemote
  <2>4. ListsInOrder'
      BY <1>4, <2>0, <1>b, <1>f DEF LoadRemote, files, ListsInOrder, Older
  <2>5. PackagesInOrder' /\ FileKeyIsNext'
      BY <1>4, <2>2 DEF LoadRemote, files, PackagesInOrder, FileKeyIsNext
  <2>6. StoredUnderOwnName'
      BY <1>0, <1>4 DEF LoadRemote, files, StoredUnderOwnName
  <2> QED
      BY <1>t, <2>4, <2>5, <2>6 DEF CyclerInv
<1>5. CASE LoadLocal
  <2> DEFINE loaded == IF local \in {Missing, CutOff} THEN <<>> ELSE local
  <2>1. loaded \in Seq(Name) /\ IsList(loaded, uploads - 1) /\ Add(loaded) /\ pc = "load"
      BY <1>0, <1>5, <1>a, <1>d DEF LoadLocal, CyclerTypeOK
  <2>2. packages' \in Seq(Name) /\ Ascending(packages') /\ Below(packages', uploads)
      BY <1>c, <2>1
  <2>4. ListsInOrder'
      BY <1>5, <1>b, <1>d DEF LoadLocal, files, ListsInOrder, Older
  <2>5. PackagesInOrder' /\ FileKeyIsNext'
      BY <1>5, <2>2 DEF LoadLocal, files, PackagesInOrder, FileKeyIsNext
  <2>6. StoredUnderOwnName'
      BY <1>0, <1>5 DEF LoadLocal, files, StoredUnderOwnName
  <2> QED
      BY <1>t, <2>4, <2>5, <2>6 DEF CyclerInv
<1>6. CASE LoadNothing
  <2>1. packages' \in Seq(Name) /\ Ascending(packages') /\ Below(packages', uploads)
      BY <1>6, <1>c, <1>d DEF LoadNothing
  <2>3. ListsInOrder'
      BY <1>6, <1>b DEF LoadNothing, files, states, ListsInOrder, Older
  <2>4. PackagesInOrder' /\ FileKeyIsNext'
      BY <1>6, <2>1 DEF LoadNothing, files, PackagesInOrder, FileKeyIsNext
  <2>5. StoredUnderOwnName'
      BY <1>0, <1>6 DEF LoadNothing, files, StoredUnderOwnName
  <2> QED
      BY <1>t, <2>3, <2>4, <2>5 DEF CyclerInv
<1>7. CASE Prune
  <2>1. /\ packages \in Seq(Name) /\ uploads \in Nat /\ Keep \in Nat /\ Len(packages) > Keep
        /\ packages # <<>> /\ Ascending(packages) /\ Below(packages, uploads)
      BY <1>0, <1>7 DEF Prune, shiftByKeep, CyclerTypeOK, PackagesInOrder
  <2>2. Head(packages) \in Name /\ Head(packages) <= uploads - Keep
      BY <2>1, HeadIsOld
  <2>3. packages' \in Seq(Name) /\ Ascending(packages') /\ Below(packages', uploads)
      BY <1>7, <2>1, TailAscends DEF Prune
  <2>5. ListsInOrder'
      BY <1>7, <1>b DEF Prune, states, ListsInOrder, Older
  <2>6. PackagesInOrder' /\ FileKeyIsNext'
      BY <1>7, <2>3 DEF Prune, PackagesInOrder, FileKeyIsNext
  <2>7. StoredUnderOwnName'
    <3> SUFFICES ASSUME NEW k \in 1..uploads, k > uploads - Keep
                 PROVE  stored'[k] = k
        BY <1>7 DEF Prune, StoredUnderOwnName
    <3>1. stored[k] = k /\ k \in Name
        BY <1>0 DEF StoredUnderOwnName, CyclerTypeOK, Name
    <3>2. k # Head(packages)
        BY <2>1, <2>2 DEF Name
    <3> QED
        BY <1>0, <1>7, <3>1, <3>2 DEF Prune, CyclerTypeOK
  <2> QED
      BY <1>t, <2>5, <2>6, <2>7 DEF CyclerInv
<1>8. CASE Pruned
  <2>2. ListsInOrder'
      BY <1>8, <1>b DEF Pruned, files, states, ListsInOrder, Older
  <2>3. PackagesInOrder' /\ FileKeyIsNext' /\ StoredUnderOwnName'
      BY <1>0, <1>8 DEF Pruned, files, cycler, PackagesInOrder, FileKeyIsNext, StoredUnderOwnName
  <2> QED
      BY <1>t, <2>2, <2>3 DEF CyclerInv
<1>e. IsList(packages, uploads)
    BY <1>0 DEF IsList, PackagesInOrder
<1>9. CASE SaveRemote
  <2>2. ListsInOrder'
      BY <1>9, <1>b, <1>e DEF SaveRemote, files, ListsInOrder, Older
  <2>3. PackagesInOrder' /\ FileKeyIsNext' /\ StoredUnderOwnName'
      BY <1>0, <1>9 DEF SaveRemote, files, cycler, PackagesInOrder, FileKeyIsNext, StoredUnderOwnName
  <2> QED
      BY <1>t, <2>2, <2>3 DEF CyclerInv
<1>10. CASE Save
  <2>0. local' \in {packages, local, CutOff}
      BY <1>10, LocalAfterWrite DEF Save
  <2>2. ListsInOrder'
      BY <1>10, <2>0, <1>b, <1>e, <1>f DEF Save, files, ListsInOrder, Older
  <2>3. PackagesInOrder' /\ FileKeyIsNext' /\ StoredUnderOwnName'
      BY <1>0, <1>10 DEF Save, files, cycler, PackagesInOrder, FileKeyIsNext, StoredUnderOwnName
  <2> QED
      BY <1>t, <2>2, <2>3 DEF CyclerInv
<1>11. CASE Kill
  <2>0. local' \in {local, CutOff}
      BY <1>11 DEF Kill
  <2>2. ListsInOrder'
      BY <1>11, <2>0, <1>b, <1>f DEF Kill, files, ListsInOrder, Older
  <2>3. PackagesInOrder' /\ FileKeyIsNext' /\ StoredUnderOwnName'
      BY <1>0, <1>11 DEF Kill, files, cycler, PackagesInOrder, FileKeyIsNext, StoredUnderOwnName
  <2> QED
      BY <1>t, <2>2, <2>3 DEF CyclerInv
<1>12. CASE Wipe
  <2>2. ListsInOrder'
      BY <1>12, <1>b, <1>f DEF Wipe, files, ListsInOrder, Older
  <2>3. PackagesInOrder' /\ FileKeyIsNext' /\ StoredUnderOwnName'
      BY <1>0, <1>12 DEF Wipe, files, cycler, PackagesInOrder, FileKeyIsNext, StoredUnderOwnName
  <2> QED
      BY <1>t, <2>2, <2>3 DEF CyclerInv
<1>13. CASE UNCHANGED cyclerVars
    BY <1>0, <1>13 DEF cyclerVars, files, states, cycler, CyclerInv, CyclerTypeOK, ListsInOrder, Older,
       PackagesInOrder, FileKeyIsNext, StoredUnderOwnName
<1> QED
    BY <1>1, <1>2, <1>3, <1>4, <1>5, <1>6, <1>7, <1>8, <1>9, <1>10, <1>11, <1>12, <1>13 DEF CyclerNext

(***************************************************************************)
(* The lists stay in order and every recent backup under its own name.     *)
(***************************************************************************)
THEOREM CyclerInvariance == ~ Repeats => (CyclerSpec => []CyclerInv)
<1> SUFFICES ASSUME ~ Repeats PROVE CyclerSpec => []CyclerInv
    OBVIOUS
<1>1. CyclerInit => CyclerInv
    BY InitCyclerInv
<1>2. CyclerInv /\ [CyclerNext]_cyclerVars => CyclerInv'
    BY NextCyclerInv
<1> QED
    BY <1>1, <1>2, PTL DEF CyclerSpec

(***************************************************************************)
(* Whatever fails, the newest `keep' backups are on the storage            *)
(* (Cycler.run, shiftByKeep), unless filename_format repeats a name.       *)
(***************************************************************************)
THEOREM NewestSurvive == ~ Repeats => (CyclerSpec => []NewestKept)
<1> SUFFICES ASSUME ~ Repeats PROVE CyclerSpec => []NewestKept
    OBVIOUS
<1>1. CyclerInv => NewestKept
  <2> SUFFICES ASSUME CyclerInv, NEW k \in 1..uploads, Keep = 0 \/ k > uploads - Keep
               PROVE  \E n \in Name : stored[n] = k
      BY DEF NewestKept
  <2>1. stored[k] = k /\ k \in Name
      BY CyclerAssumption DEF CyclerInv, StoredUnderOwnName, CyclerTypeOK, Name
  <2> QED
      BY <2>1
<1>2. CyclerSpec => []CyclerInv
    BY CyclerInvariance
<1> QED
    BY <1>1, <1>2, PTL

-------------------------------------------------------------------------------
(* Cycler: the expired backups, whether names repeat or not.               *)

\* A list has every package on the storage, but those of new, and is no longer
\* than asked for.
Holds(list, new) ==
    /\ OnStorage \subseteq new \cup IF list = Missing THEN {} ELSE Range(list)
    /\ list # Missing /\ Keep # 0 => Len(list) <= Keep

\* What is on the storage is on the list that is loaded next, or, once one is
\* loaded, on the Cycler's own.
Listed ==
    LET new == IF pc = "load" THEN {fileKey} ELSE {}
    IN  /\ local # CutOff
        /\ pc \in {"idle", "upload", "load"} =>
              /\ HasUrl => Holds(remote, new)
              /\ "wipe" \notin failed => Holds(local, new)
        /\ pc \in {"prune", "saveRemote", "save"} =>
              isLoaded /\ OnStorage \subseteq Range(packages)
        /\ pc \in {"saveRemote", "save"} /\ Keep # 0 => Len(packages) <= Keep
        /\ pc = "save" => remote = packages

RetentionInv == CyclerTypeOK /\ Named /\ (ListIsSafe => Listed)

\* Appending to a list, and taking its first entry off.
LEMMA AppendRange ==
    ASSUME NEW S, NEW s \in Seq(S), NEW x \in S
    PROVE  Range(s) \cup {x} \subseteq Range(Append(s, x))
<1> DEFINE t == Append(s, x)
<1>1. /\ DOMAIN s = 1..Len(s) /\ DOMAIN t = 1..Len(s) + 1 /\ Len(s) \in Nat
      /\ t[Len(s) + 1] = x /\ \A i \in 1..Len(s) : t[i] = s[i]
    OBVIOUS
<1> HIDE DEF t
<1> QED
    BY <1>1 DEF Range, t

\* The tail of a list holds nothing the list does not.
LEMMA TailRange ==
    ASSUME NEW S, NEW s \in Seq(S), s # <<>>
    PROVE  Range(s) \subseteq {Head(s)} \cup Range(Tail(s))
<1> DEFINE t == Tail(s)
<1>1. /\ DOMAIN s = 1..Len(s) /\ DOMAIN t = 1..Len(s) - 1 /\ Len(s) \in Nat /\ Len(s) > 0
      /\ Head(s) = s[1] /\ \A i \in 1..Len(s) - 1 : t[i] = s[i + 1]
    OBVIOUS
<1> HIDE DEF t
<1>2. ASSUME NEW i \in 1..Len(s), i # 1 PROVE s[i] \in Range(t)
  <2>1. i - 1 \in 1..Len(s) - 1 /\ t[i - 1] = s[i]
      BY <1>1, <1>2
  <2> QED
      BY <1>1, <2>1 DEF Range
<1> QED
    BY <1>1, <1>2 DEF Range, t

\* A list of n packages names n of them at most.
LEMMA ListBounds ==
    ASSUME NEW S, NEW s \in Seq(S), NEW T, T \subseteq Range(s)
    PROVE  IsFiniteSet(T) /\ Cardinality(T) \in Nat /\ Cardinality(T) <= Len(s)
<1> DEFINE n == Len(s)
<1>1. n \in Nat /\ s \in [1..n -> S] /\ DOMAIN s = 1..n
    OBVIOUS
<1>2. s \in Surjection(1..n, Range(s))
    BY <1>1 DEF Surjection, Range
<1>3. n \in Int /\ 1 \in Int
    BY <1>1
<1>4. IsFiniteSet(1..n) /\ Cardinality(1..n) = IF 1 > n THEN 0 ELSE n - 1 + 1
    BY <1>3, FS_Interval
<1>5. Cardinality(1..n) = n
    BY <1>1, <1>4
<1> HIDE DEF n
<1>6. IsFiniteSet(Range(s)) /\ Cardinality(Range(s)) <= Cardinality(1..n)
    BY <1>2, <1>4, FS_Surjection
<1>7. IsFiniteSet(T) /\ Cardinality(T) <= Cardinality(Range(s))
    BY <1>6, FS_Subset
<1>8. Cardinality(T) \in Nat /\ Cardinality(Range(s)) \in Nat
    BY <1>6, <1>7, FS_CardinalityType
<1>9. Cardinality(T) <= n
    BY <1>1, <1>5, <1>6, <1>7, <1>8
<1> QED
    BY <1>7, <1>8, <1>9 DEF n

\* What has failed remains failed, so that a list that is safe has always been.
LEMMA SafeBefore == [CyclerNext]_cyclerVars /\ ListIsSafe' => ListIsSafe
<1> SUFFICES ASSUME [CyclerNext]_cyclerVars PROVE failed \subseteq failed'
    BY DEF ListIsSafe
<1>1. \A what : Fault(what) => failed \subseteq failed'
    BY DEF Fault
<1>2. NoFault => failed \subseteq failed'
    BY DEF NoFault
<1>3. \A list : WriteLocal(list) => failed \subseteq failed'
    BY <1>1, <1>2 DEF WriteLocal
<1>4. CASE UNCHANGED cyclerVars \/ Begin \/ Upload \/ Pruned
    BY <1>4 DEF cyclerVars, Begin, Upload, Pruned
<1>5. CASE UploadFails \/ LoadNothing \/ Kill \/ Wipe
    BY <1>1, <1>5 DEF UploadFails, LoadNothing, Kill, Wipe
<1>6. CASE LoadRemote \/ LoadLocal \/ Save
    BY <1>1, <1>2, <1>3, <1>6 DEF LoadRemote, LoadLocal, FallBack, Save
<1>7. CASE Prune \/ SaveRemote
    BY <1>1, <1>2, <1>7 DEF Prune, SaveRemote
<1> QED
    BY <1>4, <1>5, <1>6, <1>7 DEF CyclerNext

\* A safe list has seen no failing disk: what is written is written.
LEMMA SafeWrite ==
    ASSUME NEW list, WriteLocal(list), ListIsSafe'
    PROVE  local' = list /\ failed' = failed
BY DEF WriteLocal, Fault, NoFault, ListIsSafe

\* The new package goes on the list that has the others.
LEMMA AddLists ==
    ASSUME CyclerTypeOK, Named, pc = "load", NEW list \in Seq(Name),
           OnStorage \subseteq {fileKey} \cup Range(list), Add(list)
    PROVE  OnStorage \subseteq Range(packages')
BY AppendRange DEF Add, Named

\* Nothing is stored and nothing listed at first.
LEMMA InitRetention == CyclerInit => RetentionInv
<1> SUFFICES ASSUME CyclerInit PROVE RetentionInv
    OBVIOUS
<1>1. CyclerTypeOK
  <2>1. <<>> \in Seq(Name) /\ 0 \in 0..MaxUploads
      BY CyclerAssumption
  <2> QED
      BY <2>1 DEF CyclerInit, CyclerTypeOK
<1>2. OnStorage = {} /\ local # CutOff
    BY CyclerAssumption DEF CyclerInit, OnStorage
<1> QED
    BY <1>1, <1>2 DEF CyclerInit, RetentionInv, Named, Listed, Holds

\* Every step of the retention keeps what is stored listed, while the list is safe.
LEMMA NextRetention == RetentionInv /\ [CyclerNext]_cyclerVars => RetentionInv'
<1> SUFFICES ASSUME RetentionInv, [CyclerNext]_cyclerVars, ListIsSafe' PROVE Listed'
    BY NextTypes DEF RetentionInv
<1>0. CyclerTypeOK /\ Named /\ ListIsSafe /\ Listed
    BY SafeBefore DEF RetentionInv
<1>s. /\ stored \in [Name -> 0..MaxUploads] /\ remote \in Seq(Name) \cup {Missing}
      /\ local \in Seq(Name) \cup {Missing} /\ packages \in Seq(Name)
    BY <1>0 DEF CyclerTypeOK, Listed
<1>1. CASE Begin
    BY <1>0, <1>1 DEF Begin, Listed, Holds, OnStorage, files, states
<1>2. CASE Upload
  <2>1. OnStorage' \subseteq OnStorage \cup {fileKey}
      BY <1>s, <1>2 DEF Upload, OnStorage
  <2> QED
      BY <1>0, <1>2, <2>1 DEF Upload, Listed, Holds, states
<1>3. CASE UploadFails
  <2>1. OnStorage' \subseteq OnStorage
      BY <1>s, <1>3 DEF UploadFails, OnStorage
  <2>2. "wipe" \notin failed' => "wipe" \notin failed
      BY <1>3 DEF UploadFails, Fault
  <2> QED
      BY <1>0, <1>3, <2>1, <2>2 DEF UploadFails, Listed, Holds, states
<1>4. CASE LoadRemote
  <2>1. /\ remote \in Seq(Name) /\ OnStorage \subseteq {fileKey} \cup Range(remote)
        /\ Add(remote) /\ pc = "load"
      BY <1>0, <1>s, <1>4 DEF LoadRemote, Listed, Holds
  <2>2. local' = remote /\ local' # CutOff
    <3>1. local' = remote
        BY <1>4, SafeWrite DEF LoadRemote
    <3> QED
        BY <2>1, <3>1, ListsAreLists
  <2>3. OnStorage' = OnStorage /\ OnStorage \subseteq Range(packages')
      BY <1>0, <1>4, <2>1, AddLists DEF LoadRemote, OnStorage, files
  <2> QED
      BY <1>4, <2>2, <2>3 DEF LoadRemote, Listed
<1>5. CASE LoadLocal
  <2> DEFINE list == IF local \in {Missing, CutOff} THEN <<>> ELSE local
  <2>1. /\ list \in Seq(Name) /\ Add(list) /\ pc = "load" /\ OnStorage' = OnStorage
        /\ local' # CutOff
    <3>1. <<>> \in Seq(Name)
        OBVIOUS
    <3>2. <<>> # CutOff
        BY <3>1, ListsAreLists
    <3> QED
        BY <1>0, <1>s, <1>5, <3>1, <3>2 DEF LoadLocal, OnStorage, files, Listed
  <2>2. OnStorage \subseteq {fileKey} \cup Range(list)
    <3>1. CASE "wipe" \notin failed
        BY <1>0, <1>5, <3>1 DEF LoadLocal, Listed, Holds
    <3>2. CASE "wipe" \in failed
      \* The state on the storage was asked for: there is none.
      <4>1. HasUrl /\ remote = Missing
          BY <1>5, <3>2 DEF LoadLocal, FallBack, Fault, NoFault, ListIsSafe
      <4> QED
          BY <1>0, <1>5, <4>1 DEF LoadLocal, Listed, Holds
    <3> QED
        BY <3>1, <3>2
  <2>3. OnStorage \subseteq Range(packages')
      BY <1>0, <2>1, <2>2, AddLists
  <2> QED
      BY <1>5, <2>1, <2>3 DEF LoadLocal, Listed
<1>6. CASE LoadNothing \/ Kill
    BY <1>6 DEF LoadNothing, Kill, Fault, ListIsSafe
<1>7. CASE Prune
  <2>1. /\ packages' = Tail(packages) /\ stored' = [stored EXCEPT ![Head(packages)] = 0]
        /\ packages # <<>> /\ failed' = failed
      BY <1>7 DEF Prune, Fault, NoFault, ListIsSafe
  <2>2. Range(packages) \subseteq {Head(packages)} \cup Range(packages')
      BY <1>s, <2>1, TailRange
  <2>3. OnStorage' \subseteq OnStorage \ {Head(packages)}
      BY <1>s, <2>1 DEF OnStorage
  <2> QED
      BY <1>0, <1>7, <2>2, <2>3 DEF Prune, Listed, states
<1>8. CASE Pruned
  <2>1. Keep # 0 => Len(packages) <= Keep
    <3>1. Len(packages) \in Nat /\ Keep \in Nat /\ (packages = <<>> => Len(packages) = 0)
        BY <1>s, CyclerAssumption
    <3> QED
        BY <1>8, <3>1 DEF Pruned, shiftByKeep
  <2> QED
      BY <1>0, <1>8, <2>1 DEF Pruned, Listed, OnStorage, files, states, cycler
<1>9. CASE SaveRemote
  <2>1. remote' = packages
      BY <1>9 DEF SaveRemote, Fault, ListIsSafe
  <2> QED
      BY <1>0, <1>9, <2>1 DEF SaveRemote, Listed, OnStorage, files, cycler
<1>10. CASE Save
  <2>1. local' = packages /\ packages \notin {Missing, CutOff}
      BY <1>s, <1>10, SafeWrite, ListsAreLists DEF Save
  <2> QED
      BY <1>0, <1>10, <2>1 DEF Save, Listed, Holds, OnStorage, files, cycler
<1>11. CASE Wipe
  <2>1. HasUrl /\ "wipe" \in failed' /\ local' = Missing /\ Missing # CutOff
      BY <1>11, CyclerAssumption DEF Wipe, Fault, ListIsSafe
  <2> QED
      BY <1>0, <1>11, <2>1 DEF Wipe, Listed, Holds, OnStorage, files
<1>12. CASE UNCHANGED cyclerVars
    BY <1>0, <1>12 DEF cyclerVars, files, states, cycler, Listed, Holds, OnStorage
<1> QED
    BY <1>1, <1>2, <1>3, <1>4, <1>5, <1>6, <1>7, <1>8, <1>9, <1>10, <1>11, <1>12 DEF CyclerNext

\* So it always holds.
LEMMA RetentionInvariance == CyclerSpec => []RetentionInv
BY InitRetention, NextRetention, PTL DEF CyclerSpec

\* Cycler.run: uploads that fail, a storage that does not answer and a
\* container that loses its files leave no expired backup behind, for every
\* `keep' and number of uploads, and also when names repeat.
THEOREM ExpiredAreRemoved == CyclerSpec => []RetentionBound
<1>1. RetentionInv => RetentionBound
  <2> SUFFICES ASSUME RetentionInv, ListIsSafe, pc = "idle", Keep # 0
               PROVE  Cardinality(OnStorage) <= Keep
      BY DEF RetentionBound, ExpiredRemoved
  <2> DEFINE list == IF HasUrl THEN remote ELSE local
  <2>1. /\ OnStorage \subseteq IF list = Missing THEN {} ELSE Range(list)
        /\ list # Missing => Len(list) <= Keep
        /\ list \in Seq(Name) \cup {Missing}
      BY DEF RetentionInv, Listed, Holds, ListIsSafe, CyclerTypeOK
  <2>2. CASE list = Missing
    <3>1. OnStorage = {} /\ Cardinality({}) = 0
        BY <2>1, <2>2, FS_EmptySet
    <3> QED
        BY <3>1, CyclerAssumption
  <2>3. CASE list # Missing
    <3>1. Cardinality(OnStorage) \in Nat /\ Cardinality(OnStorage) <= Len(list)
        BY <2>1, <2>3, ListBounds
    <3>2. Len(list) \in Nat /\ Len(list) <= Keep /\ Keep \in Nat
        BY <2>1, <2>3, CyclerAssumption
    <3> QED
        BY <3>1, <3>2
  <2> QED
      BY <2>2, <2>3
<1> QED
    BY <1>1, RetentionInvariance, PTL

\* Every variable of the retention keeps its type.
THEOREM RetentionTypeCorrect == CyclerSpec => []CyclerTypeOK
BY RetentionInvariance, PTL DEF RetentionInv

-------------------------------------------------------------------------------
(* ConfigSaving: one save at a time.                                       *)

\* While a save is being written, it replaces the config that its page has read,
\* which is the last one saved and loaded unless a rejected file has stayed; and it
\* is over when the file is what it was.
SaveInv ==
    /\ DOMAIN call = Pages
    /\ writing # NoConfig =>
          /\ writing \in Pages
          /\ call[writing].stage \in {"patch", "restore", "reload"}
          /\ call[writing].version = previous
          /\ ~ astray => previous = committed
          /\ call[writing].stage = "restore" => running \in Loaded
          /\ call[writing].stage = "reload" => file = previous
    /\ FileIsRunning

LEMMA SaveInvInit == EditorInit => SaveInv
  BY EditorAssumption DEF EditorInit, SaveInv, FileIsRunning, Loaded

\* A page's step does not reach a save that is being written: the page waits for
\* its answer.
LEMMA SaveInvPage ==
    ASSUME SaveInv, NEW p \in Pages, PageStep(p)
    PROVE  SaveInv'
  <1>1. UNCHANGED server
    BY DEF PageStep, Fetch, ReloadLatest, Asks, ReceiveFetch, ReceiveReload, Answer, Edit,
           DiscardChanges, SaveChanges, ReceiveSaved, Remount
  <1>2. CASE UNCHANGED call
    BY <1>1, <1>2 DEF SaveInv, FileIsRunning, Loaded, server
  <1>3. CASE SaveChanges(p)
    <2>1. DOMAIN call' = Pages /\ \A q \in Pages : q # p => call'[q] = call[q]
      BY <1>3 DEF SaveChanges, SaveInv
    <2>2. p # writing
      BY <1>3, EditorAssumption DEF SaveChanges, SaveInv, NoSave
    <2> QED  BY <1>1, <2>1, <2>2 DEF SaveInv, FileIsRunning, Loaded, server
  <1>4. CASE ReceiveSaved(p)
    <2>1. DOMAIN call' = Pages /\ \A q \in Pages : q # p => call'[q] = call[q]
      BY <1>4 DEF ReceiveSaved, SaveInv
    <2>2. p # writing
      BY <1>4, EditorAssumption DEF ReceiveSaved, SaveInv
    <2> QED  BY <1>1, <2>1, <2>2 DEF SaveInv, FileIsRunning, Loaded, server
  <1> QED
    BY <1>2, <1>3, <1>4 DEF PageStep, Fetch, ReloadLatest, Asks, ReceiveFetch, ReceiveReload,
       Answer, Edit, DiscardChanges, Remount

LEMMA SaveInvServer ==
    ASSUME SaveInv, NEW p \in Pages, ServerStep(p)
    PROVE  SaveInv'
  <1>1. CASE ServerValidate(p)
    <2>1. DOMAIN call' = Pages
      BY <1>1 DEF ServerValidate, Refuse, SaveInv
    <2>2. writing = NoConfig /\ UNCHANGED server
      BY <1>1 DEF ServerValidate, Requests, Refuse
    <2> QED  BY <2>1, <2>2 DEF SaveInv, FileIsRunning, Loaded, server
  <1>2. CASE ServerPatch(p)
    <2>1. writing = NoConfig /\ call[p].stage = "patch"
      BY <1>2 DEF ServerPatch, Requests
    <2>2. CASE Refuse(p)
      <3>1. DOMAIN call' = Pages /\ UNCHANGED server
        BY <2>2 DEF Refuse, SaveInv
      <3> QED  BY <2>1, <3>1 DEF SaveInv, FileIsRunning, Loaded, server
    <2>3. CASE /\ ~ Conflict(p)
               /\ writing' = p /\ previous' = file
               /\ UNCHANGED <<running, committed, astray, call>>
      <3>1. p # NoConfig
        BY EditorAssumption
      <3> QED  BY <2>1, <2>3, <3>1 DEF SaveInv, FileIsRunning, Conflict
    <2> QED  BY <1>2, <2>2, <2>3 DEF ServerPatch
  <1>3. CASE LoadSucceeds(p)
    BY <1>3 DEF LoadSucceeds, SaveInv, FileIsRunning, Loaded
  <1>4. CASE LoadFails(p) \/ Restore(p)
    <2>1. writing = p /\ p # NoConfig /\ UNCHANGED <<writing, previous, committed, astray>>
      BY <1>4, EditorAssumption DEF LoadFails, Restore, Writes
    <2>2. /\ DOMAIN call' = Pages /\ call'[p].version = call[p].version
          /\ \/ call'[p].stage = "restore" /\ running' = Unloaded
             \/ call'[p].stage = "reload" /\ file' = previous
      <3>1. CASE LoadFails(p)
        BY <3>1 DEF LoadFails, SaveInv
      <3>2. CASE Restore(p)
        BY <3>2 DEF Restore, SaveInv
      <3> QED  BY <1>4, <3>1, <3>2
    <2> QED  BY <2>1, <2>2 DEF SaveInv, FileIsRunning, Loaded
  <1>5. CASE RestoreFails(p) \/ ReloadRestored(p)
    <2>1. writing = p /\ p # NoConfig /\ writing' = NoConfig /\ UNCHANGED <<file, committed>>
      BY <1>5, EditorAssumption DEF RestoreFails, ReloadRestored, Writes, Fail
    <2>2. DOMAIN call' = Pages
      BY <1>5 DEF RestoreFails, ReloadRestored, Fail, SaveInv
    <2>3. running' \in Loaded' /\ (~ astray' => file = committed)
      BY <1>5, <2>1 DEF RestoreFails, ReloadRestored, Writes, SaveInv, Loaded
    <2> QED  BY <2>1, <2>2, <2>3 DEF SaveInv, FileIsRunning
  <1> QED  BY <1>1, <1>2, <1>3, <1>4, <1>5 DEF ServerStep

LEMMA SaveInvStep == SaveInv /\ [EditorNext]_editorVars => SaveInv'
  <1> SUFFICES ASSUME SaveInv, [EditorNext]_editorVars PROVE SaveInv'
    OBVIOUS
  <1>1. CASE UNCHANGED editorVars
    BY <1>1 DEF SaveInv, FileIsRunning, Loaded, editorVars, server
  <1>2. ASSUME NEW p \in Pages, PageStep(p) PROVE SaveInv'
    BY <1>2, SaveInvPage
  <1>3. ASSUME NEW p \in Pages, ServerStep(p) PROVE SaveInv'
    BY <1>3, SaveInvServer
  <1>4. CASE Reload
    BY <1>4 DEF Reload, SaveInv, FileIsRunning, Loaded
  <1> QED  BY <1>1, <1>2, <1>3, <1>4 DEF EditorNext

LEMMA SaveInvHolds == EditorSpec => []SaveInv
  BY SaveInvInit, SaveInvStep, PTL DEF EditorSpec

\* Whatever is edited, whatever the server makes of it and whatever fails: when no
\* save is being written gobackup.yml is the last config that was saved and loaded,
\* unless a rejected one could not be put back, and the daemon runs what it says,
\* unless its last load failed (patchConfigEditor puts the previous bytes back and
\* loads them; both may fail).
THEOREM FileIsWhatRuns == EditorSpec => []FileIsRunning
  <1>1. SaveInv => FileIsRunning
    BY DEF SaveInv
  <1> QED  BY <1>1, SaveInvHolds, PTL

\* However the saves of the pages interleave with their validations and reads, and
\* however the way back of others failed before: the config a save replaces is the
\* one its page's edits were made for (patchConfigEditor compares the versions again,
\* under the mutex).
THEOREM SavesAreNotLost == EditorSpec => NoLostUpdate
  <1>1. SaveInv /\ [EditorNext]_editorVars =>
          [\A p \in Pages : writing = p /\ committed' # committed /\ ~ astray
                               => call[p].version = committed]_editorVars
    BY EditorAssumption DEF SaveInv
  <1> QED  BY <1>1, SaveInvHolds, PTL DEF EditorSpec, NoLostUpdate

-------------------------------------------------------------------------------
(* ConfigSaving: what a page holds, whatever set the configs come from.    *)

\* Configs of C and lists of operations of L are all that the offered edits and
\* the server make.
Closed(C, L) ==
    /\ NoConfig \notin C /\ InitialConfigs \subseteq C /\ <<>> \in L
    /\ \A c \in C : \A o \in Offers(c) : Shown(c, o) \in C /\ \A l \in L : Noted(l, o) \in L
    /\ \A c \in C, l \in L : Result(c, l) \in C \cup {Rejected}

PageFunctions ==
    /\ DOMAIN cached = Pages /\ DOMAIN reading = Pages /\ DOMAIN draft = Pages
    /\ DOMAIN version = Pages /\ DOMAIN operations = Pages /\ DOMAIN call = Pages
    /\ topic \in Topics /\ DOMAIN edits = Pages /\ DOMAIN reads = Pages

\* A page that has a draft has read a config before.
PageHolds(p, C, L) ==
    /\ cached[p] \in C \cup {NoConfig} /\ draft[p] \in C \cup {NoConfig}
    /\ version[p] \in C \cup {NoConfig} /\ operations[p] \in L
    /\ draft[p] = NoConfig <=> version[p] = NoConfig
    /\ draft[p] = NoConfig => operations[p] = <<>>
    /\ draft[p] # NoConfig => cached[p] # NoConfig

\* What is under way to a page or from it.
PageExpects(p, C, L) ==
    /\ reading[p] # NoConfig => reading[p].config \in C
    /\ reading[p] # NoConfig /\ reading[p].for = "reload" => cached[p] # NoConfig
    /\ call[p].stage \in Stages
    /\ call[p].stage # "idle" => call[p].operations \in L /\ cached[p] # NoConfig
    /\ call[p].stage = "answered" => call[p].config \in C

PageIsBounded(p) ==
    edits[p] \in 0..topic[p].edits /\ reads[p] \in 0..topic[p].reads

PageTyped(p, C, L) == PageHolds(p, C, L) /\ PageExpects(p, C, L) /\ PageIsBounded(p)

ServerTyped(C) == file \in C /\ (writing # NoConfig => previous \in C)

EditorInv(C, L) ==
    /\ PageFunctions
    /\ ServerTyped(C)
    /\ \A p \in Pages : PageTyped(p, C, L)

pageVars(p) == <<cached[p], reading[p], draft[p], version[p], operations[p], call[p],
                 topic[p], edits[p], reads[p]>>

LEMMA EditorInvInit ==
    ASSUME NEW C, NEW L, Closed(C, L), EditorInit
    PROVE  EditorInv(C, L)
  <1>1. PageFunctions /\ ServerTyped(C)
    BY DEF EditorInit, PageFunctions, ServerTyped, Closed
  <1>2. ASSUME NEW p \in Pages PROVE PageTyped(p, C, L)
    <2>1. PageHolds(p, C, L) /\ PageExpects(p, C, L)
      BY DEF EditorInit, PageHolds, PageExpects, Closed, NoSave, Stages
    <2>2. topic \in Topics /\ edits[p] = 0 /\ reads[p] = 0
      BY DEF EditorInit
    <2>3. PageIsBounded(p)
      BY <2>2, EditorAssumption DEF PageIsBounded
    <2> QED  BY <2>1, <2>3 DEF PageTyped
  <1> QED  BY <1>1, <1>2 DEF EditorInv

\* A step of one page leaves the others as they are.
LEMMA OthersAreTyped ==
    ASSUME NEW C, NEW L, EditorInv(C, L), NEW p \in Pages,
           PageFunctions', ServerTyped(C)', PageTyped(p, C, L)',
           \A q \in Pages \ {p} : UNCHANGED pageVars(q)
    PROVE  EditorInv(C, L)'
  <1>1. ASSUME NEW q \in Pages, q # p PROVE PageTyped(q, C, L)'
    BY <1>1 DEF EditorInv, PageTyped, PageHolds, PageExpects, PageIsBounded, pageVars
  <1> QED  BY <1>1 DEF EditorInv

\* Reads: the answer under way is gobackup.yml as it is.
LEMMA AsksTyped ==
    ASSUME NEW C, NEW L, EditorInv(C, L), NEW p \in Pages, NEW for, Asks(p, for),
           for = "reload" => draft[p] # NoConfig
    PROVE  EditorInv(C, L)'
  <1> USE DEF Asks
  <1>1. PageTyped(p, C, L) /\ PageFunctions /\ ServerTyped(C)
    BY DEF EditorInv
  <1>2. PageFunctions' /\ ServerTyped(C)'
    BY <1>1 DEF PageFunctions, ServerTyped, server, editor
  <1>3. /\ reading'[p] = [for |-> for, config |-> file]
        /\ UNCHANGED <<cached, draft, version, operations, call, topic, edits>>
    BY <1>1 DEF PageFunctions, editor
  <1>4. PageHolds(p, C, L)' /\ PageExpects(p, C, L)'
    BY <1>1, <1>3 DEF PageTyped, PageHolds, PageExpects, ServerTyped
  <1>5. PageIsBounded(p)'
    <2>1. reads'[p] = reads[p] + 1 /\ reads[p] < topic[p].reads
      BY <1>1 DEF PageFunctions
    <2>2. topic[p].reads \in Nat
      BY <1>1, EditorAssumption DEF PageFunctions
    <2> QED  BY <1>1, <1>3, <2>1, <2>2 DEF PageTyped, PageIsBounded
  <1>6. \A q \in Pages \ {p} : UNCHANGED pageVars(q)
    BY <1>1 DEF PageFunctions, pageVars, editor
  <1> QED  BY <1>2, <1>4, <1>5, <1>6, OthersAreTyped DEF PageTyped

\* What Takes leaves of a page, taken a config and a version.
LEMMA TakesTyped ==
    ASSUME NEW C, NEW L, Closed(C, L), EditorInv(C, L), NEW p \in Pages,
           NEW config \in C, NEW at \in C, Takes(p, config, at)
    PROVE  /\ DOMAIN draft' = Pages /\ DOMAIN version' = Pages /\ DOMAIN operations' = Pages
           /\ draft'[p] = config /\ version'[p] = at /\ operations'[p] = <<>>
           /\ \A q \in Pages \ {p} : UNCHANGED <<draft[q], version[q], operations[q]>>
           /\ config # NoConfig /\ at # NoConfig /\ <<>> \in L
  BY DEF Takes, EditorInv, PageFunctions, Closed

LEMMA AnswerTyped ==
    ASSUME NEW C, NEW L, Closed(C, L), EditorInv(C, L), NEW p \in Pages,
           ReceiveFetch(p) \/ ReceiveReload(p)
    PROVE  EditorInv(C, L)'
  <1>1. PageTyped(p, C, L) /\ PageFunctions /\ ServerTyped(C)
    BY DEF EditorInv
  <1> DEFINE config == reading[p].config
  <1>2. /\ reading[p] # NoConfig /\ config \in C /\ config # NoConfig
        /\ DOMAIN reading' = Pages /\ reading'[p] = NoConfig
        /\ \A q \in Pages \ {p} : UNCHANGED reading[q]
        /\ UNCHANGED <<server, call, edits, bounds>>
    BY <1>1 DEF ReceiveFetch, ReceiveReload, Answer, PageTyped, PageExpects, PageFunctions, Closed
  <1>3. /\ DOMAIN cached' = Pages
        /\ cached'[p] \in {cached[p], config} /\ cached'[p] # NoConfig
        /\ \A q \in Pages \ {p} : UNCHANGED cached[q]
    <2>1. CASE ReceiveFetch(p)
      BY <1>1, <1>2, <2>1 DEF ReceiveFetch, PageFunctions
    <2>2. CASE ReceiveReload(p)
      BY <1>1, <2>2 DEF ReceiveReload, Answer, PageTyped, PageExpects, PageFunctions
    <2> QED  BY <2>1, <2>2
  <1>4. Takes(p, config, config) \/ UNCHANGED editor
    BY DEF ReceiveFetch, ReceiveReload
  <1>5. /\ DOMAIN draft' = Pages /\ DOMAIN version' = Pages /\ DOMAIN operations' = Pages
        /\ \/ /\ draft'[p] = config /\ version'[p] = config /\ operations'[p] = <<>>
              /\ <<>> \in L
           \/ UNCHANGED <<draft[p], version[p], operations[p]>>
        /\ \A q \in Pages \ {p} : UNCHANGED <<draft[q], version[q], operations[q]>>
    <2>1. CASE Takes(p, config, config)
      BY <1>2, <2>1, TakesTyped
    <2>2. CASE UNCHANGED editor
      BY <1>1, <2>2 DEF editor, PageFunctions
    <2> QED  BY <1>4, <2>1, <2>2
  <1> HIDE DEF config
  <1>6. PageFunctions' /\ ServerTyped(C)'
    BY <1>1, <1>2, <1>3, <1>5 DEF PageFunctions, ServerTyped, server, bounds
  <1>7. PageHolds(p, C, L)'
    BY <1>1, <1>2, <1>3, <1>5 DEF PageTyped, PageHolds
  <1>8. PageExpects(p, C, L)' /\ PageIsBounded(p)'
    BY <1>1, <1>2, <1>3 DEF PageTyped, PageExpects, PageIsBounded, bounds
  <1>9. \A q \in Pages \ {p} : UNCHANGED pageVars(q)
    BY <1>2, <1>3, <1>5 DEF pageVars, bounds
  <1> QED  BY <1>6, <1>7, <1>8, <1>9, OthersAreTyped DEF PageTyped

LEMMA EditTyped ==
    ASSUME NEW C, NEW L, Closed(C, L), EditorInv(C, L), NEW p \in Pages, Edit(p)
    PROVE  EditorInv(C, L)'
  <1> USE DEF Edit
  <1>1. PageTyped(p, C, L) /\ PageFunctions /\ ServerTyped(C)
    BY DEF EditorInv
  <1>2. draft[p] \in C /\ operations[p] \in L
    BY <1>1 DEF PageTyped, PageHolds
  <1>3. PICK operation \in Offers(draft[p]) :
           /\ draft' = [draft EXCEPT ![p] = Shown(@, operation)]
           /\ operations' = [operations EXCEPT ![p] = Noted(@, operation)]
    OBVIOUS
  <1>4. /\ DOMAIN draft' = Pages /\ DOMAIN operations' = Pages
        /\ draft'[p] \in C /\ operations'[p] \in L
        /\ \A q \in Pages \ {p} : UNCHANGED <<draft[q], operations[q]>>
    <2>1. Shown(draft[p], operation) \in C /\ Noted(operations[p], operation) \in L
      BY <1>2, <1>3 DEF Closed
    <2> QED  BY <1>1, <1>3, <2>1 DEF PageFunctions
  <1>5. PageFunctions' /\ ServerTyped(C)'
    BY <1>1, <1>4 DEF PageFunctions, ServerTyped, server, bounds
  <1>6. PageHolds(p, C, L)' /\ PageExpects(p, C, L)'
    BY <1>1, <1>4 DEF PageTyped, PageHolds, PageExpects, Closed
  <1>7. PageIsBounded(p)'
    <2>1. edits'[p] = edits[p] + 1 /\ edits[p] < topic[p].edits
      BY <1>1 DEF PageFunctions
    <2>2. topic[p].edits \in Nat
      BY <1>1, EditorAssumption DEF PageFunctions
    <2> QED  BY <1>1, <2>1, <2>2 DEF PageTyped, PageIsBounded, bounds
  <1>8. \A q \in Pages \ {p} : UNCHANGED pageVars(q)
    BY <1>1, <1>4 DEF pageVars, bounds, PageFunctions
  <1> QED  BY <1>5, <1>6, <1>7, <1>8, OthersAreTyped DEF PageTyped

\* The steps that give a page its draft anew.
LEMMA RestartTyped ==
    ASSUME NEW C, NEW L, Closed(C, L), EditorInv(C, L), NEW p \in Pages,
           DiscardChanges(p) \/ ReceiveSaved(p) \/ Remount(p)
    PROVE  EditorInv(C, L)'
  <1>1. PageTyped(p, C, L) /\ PageFunctions /\ ServerTyped(C)
    BY DEF EditorInv
  <1>2. PICK config \in C, at \in C : Takes(p, config, at)
    <2>1. CASE DiscardChanges(p)
      <3>1. draft[p] # NoConfig
        BY <1>1, <2>1 DEF DiscardChanges, PageTyped, PageHolds
      <3>2. cached[p] \in C /\ version[p] \in C
        BY <1>1, <3>1 DEF PageTyped, PageHolds
      <3> QED  BY <2>1, <3>2 DEF DiscardChanges
    <2>2. CASE ReceiveSaved(p)
      <3>1. call[p].config \in C
        BY <1>1, <2>2 DEF ReceiveSaved, PageTyped, PageExpects
      <3> QED  BY <2>2, <3>1 DEF ReceiveSaved
    <2>3. CASE Remount(p)
      <3>1. cached[p] \in C
        BY <1>1, <2>3 DEF Remount, PageTyped, PageHolds
      <3> QED  BY <2>3, <3>1 DEF Remount
    <2> QED  BY <2>1, <2>2, <2>3
  <1>3. /\ DOMAIN draft' = Pages /\ DOMAIN version' = Pages /\ DOMAIN operations' = Pages
        /\ draft'[p] = config /\ version'[p] = at /\ operations'[p] = <<>>
        /\ \A q \in Pages \ {p} : UNCHANGED <<draft[q], version[q], operations[q]>>
        /\ config # NoConfig /\ at # NoConfig /\ <<>> \in L
    BY <1>2, TakesTyped
  <1>4. /\ DOMAIN call' = Pages /\ call'[p] \in {call[p], NoSave}
        /\ \A q \in Pages \ {p} : UNCHANGED call[q]
        /\ UNCHANGED <<server, cached, reading, edits, bounds>>
    BY <1>1 DEF DiscardChanges, ReceiveSaved, Remount, PageFunctions
  <1>5. cached[p] # NoConfig
    BY <1>1 DEF DiscardChanges, ReceiveSaved, Remount, PageTyped, PageHolds, PageExpects
  <1>6. PageFunctions' /\ ServerTyped(C)'
    BY <1>1, <1>3, <1>4 DEF PageFunctions, ServerTyped, server, bounds
  <1>7. PageHolds(p, C, L)'
    BY <1>1, <1>3, <1>4, <1>5 DEF PageTyped, PageHolds
  <1>8. PageExpects(p, C, L)' /\ PageIsBounded(p)'
    BY <1>1, <1>4 DEF PageTyped, PageExpects, PageIsBounded, bounds, NoSave, Stages
  <1>9. \A q \in Pages \ {p} : UNCHANGED pageVars(q)
    BY <1>3, <1>4 DEF pageVars, bounds
  <1> QED  BY <1>6, <1>7, <1>8, <1>9, OthersAreTyped DEF PageTyped

\* A save goes on: the config of its answer is one of the server's.
LEMMA CallTyped ==
    ASSUME NEW C, NEW L, EditorInv(C, L), NEW p \in Pages,
           DOMAIN call' = Pages, \A q \in Pages \ {p} : UNCHANGED call[q],
           \/ call'[p] = NoSave
           \/ /\ call'[p].stage \in Stages /\ call'[p].operations \in L
              /\ call'[p].stage = "answered" => call'[p].config \in C
              /\ cached[p] # NoConfig,
           ServerTyped(C)', UNCHANGED <<editor, cached, reading, edits, bounds>>
    PROVE  EditorInv(C, L)'
  <1>1. PageTyped(p, C, L) /\ PageFunctions
    BY DEF EditorInv
  <1>2. PageFunctions'
    BY <1>1 DEF PageFunctions, editor, bounds
  <1>3. PageTyped(p, C, L)'
    BY <1>1 DEF PageTyped, PageHolds, PageExpects, PageIsBounded, editor, bounds, NoSave, Stages
  <1>4. \A q \in Pages \ {p} : UNCHANGED pageVars(q)
    BY DEF pageVars, editor, bounds
  <1> QED  BY <1>2, <1>3, <1>4, OthersAreTyped

LEMMA SaveTyped ==
    ASSUME NEW C, NEW L, EditorInv(C, L), NEW p \in Pages,
           SaveChanges(p) \/ ServerValidate(p)
    PROVE  EditorInv(C, L)'
  <1>1. PageTyped(p, C, L) /\ PageFunctions /\ ServerTyped(C)
    BY DEF EditorInv
  <1>2. DOMAIN call' = Pages /\ \A q \in Pages \ {p} : UNCHANGED call[q]
    BY <1>1 DEF SaveChanges, ServerValidate, Refuse, PageFunctions
  <1>3. ServerTyped(C)' /\ UNCHANGED <<editor, cached, reading, edits, bounds>>
    BY <1>1 DEF SaveChanges, ServerValidate, Refuse, ServerTyped, server
  <1>4. \/ call'[p] = NoSave
        \/ /\ call'[p].stage \in {"validate", "patch"} /\ call'[p].operations \in L
           /\ cached[p] # NoConfig
    <2>1. CASE SaveChanges(p)
      BY <1>1, <2>1 DEF SaveChanges, PageFunctions, PageTyped, PageHolds
    <2>2. CASE ServerValidate(p)
      BY <1>1, <2>2 DEF ServerValidate, Requests, Refuse, PageFunctions, PageTyped, PageExpects
    <2> QED  BY <2>1, <2>2
  <1> QED  BY <1>2, <1>3, <1>4, CallTyped DEF Stages

LEMMA PatchTyped ==
    ASSUME NEW C, NEW L, Closed(C, L), EditorInv(C, L), NEW p \in Pages, ServerPatch(p)
    PROVE  EditorInv(C, L)'
  <1>1. PageTyped(p, C, L) /\ PageFunctions /\ ServerTyped(C)
    BY DEF EditorInv
  <1>2. call[p].stage = "patch" /\ UNCHANGED <<editor, cached, reading, edits, bounds>>
    BY DEF ServerPatch, Requests
  <1>3. call[p].operations \in L /\ cached[p] # NoConfig
    BY <1>1, <1>2 DEF PageTyped, PageExpects
  <1>4. CASE Refuse(p)
    <2>1. /\ DOMAIN call' = Pages /\ call'[p] = NoSave
          /\ \A q \in Pages \ {p} : UNCHANGED call[q]
          /\ ServerTyped(C)'
      BY <1>1, <1>4 DEF Refuse, PageFunctions, ServerTyped, server
    <2> QED  BY <1>2, <2>1, CallTyped
  <1>5. CASE /\ Updated(p) # Rejected
             /\ file' = Updated(p) /\ previous' = file /\ UNCHANGED call
    <2>1. Updated(p) \in C
      BY <1>1, <1>3, <1>5 DEF Updated, Closed, ServerTyped
    <2>2. ServerTyped(C)'
      BY <1>1, <1>5, <2>1 DEF ServerTyped
    <2> QED  BY <1>1, <1>2, <1>3, <1>5, <2>2, CallTyped DEF PageFunctions, Stages
  <1> QED  BY <1>4, <1>5 DEF ServerPatch

LEMMA LoadTyped ==
    ASSUME NEW C, NEW L, EditorInv(C, L), SaveInv, NEW p \in Pages,
           \/ LoadSucceeds(p) \/ LoadFails(p) \/ Restore(p)
           \/ RestoreFails(p) \/ ReloadRestored(p)
    PROVE  EditorInv(C, L)'
  <1> USE DEF LoadSucceeds, LoadFails, Restore, RestoreFails, ReloadRestored, Fail
  <1>1. PageTyped(p, C, L) /\ PageFunctions /\ ServerTyped(C)
    BY DEF EditorInv
  <1>2. /\ writing = p /\ writing # NoConfig
        /\ UNCHANGED <<editor, cached, reading, edits, bounds>>
    BY EditorAssumption DEF Writes
  <1>3. call[p].operations \in L /\ cached[p] # NoConfig
    BY <1>1, <1>2 DEF SaveInv, PageTyped, PageExpects
  <1>4. file \in C /\ previous \in C
    BY <1>1, <1>2 DEF ServerTyped
  <1>5. DOMAIN call' = Pages /\ \A q \in Pages \ {p} : UNCHANGED call[q]
    BY <1>1 DEF PageFunctions
  <1>6. ServerTyped(C)'
    BY <1>4 DEF ServerTyped
  <1>7. \/ call'[p] = NoSave
        \/ /\ call'[p].stage \in {"restore", "reload"} /\ call'[p].operations \in L
        \/ /\ call'[p].stage = "answered" /\ call'[p].operations \in L
           /\ call'[p].config \in C
    <2>1. CASE LoadSucceeds(p)
      BY <1>1, <1>3, <1>4, <2>1 DEF PageFunctions
    <2>2. CASE LoadFails(p)
      BY <1>1, <1>3, <2>2 DEF PageFunctions
    <2>3. CASE Restore(p)
      BY <1>1, <1>3, <2>3 DEF PageFunctions
    <2>4. CASE RestoreFails(p) \/ ReloadRestored(p)
      BY <1>1, <2>4 DEF PageFunctions
    <2> QED  BY <2>1, <2>2, <2>3, <2>4
  <1> QED  BY <1>2, <1>3, <1>5, <1>6, <1>7, CallTyped DEF Stages

LEMMA EditorInvStep ==
    ASSUME NEW C, NEW L, Closed(C, L), EditorInv(C, L), SaveInv, [EditorNext]_editorVars
    PROVE  EditorInv(C, L)'
  <1>1. CASE UNCHANGED editorVars
    BY <1>1 DEF EditorInv, PageFunctions, ServerTyped, PageTyped, PageHolds, PageExpects,
                PageIsBounded, editorVars, server, editor, bounds
  <1>2. ASSUME NEW p \in Pages, PageStep(p) PROVE EditorInv(C, L)'
    <2>1. CASE Fetch(p) \/ ReloadLatest(p)
      BY <2>1, AsksTyped DEF Fetch, ReloadLatest
    <2>2. CASE ReceiveFetch(p) \/ ReceiveReload(p)
      BY <2>2, AnswerTyped
    <2>3. CASE Edit(p)
      BY <2>3, EditTyped
    <2>4. CASE SaveChanges(p)
      BY <2>4, SaveTyped
    <2>5. CASE DiscardChanges(p) \/ ReceiveSaved(p) \/ Remount(p)
      BY <2>5, RestartTyped
    <2> QED  BY <1>2, <2>1, <2>2, <2>3, <2>4, <2>5 DEF PageStep
  <1>3. ASSUME NEW p \in Pages, ServerStep(p) PROVE EditorInv(C, L)'
    BY <1>3, SaveTyped, PatchTyped, LoadTyped DEF ServerStep
  <1>4. CASE Reload
    BY <1>4 DEF Reload, EditorInv, PageFunctions, ServerTyped, PageTyped, PageHolds, PageExpects,
                PageIsBounded, editor, bounds
  <1> QED  BY <1>1, <1>2, <1>3, <1>4 DEF EditorNext

\* Whatever set the configs come from, and whatever the edits do to them: a page
\* has a draft exactly when it has the version it would be saved against, it has
\* no operations without a draft, and the page whose save holds the mutex is one
\* that waits for its patch (config-editor-page.tsx, config_editor.go).
THEOREM EditorTypeCorrect ==
    ASSUME NEW C, NEW L, Closed(C, L)
    PROVE  EditorSpec => []EditorTypeOK
  <1>1. EditorInit => EditorInv(C, L)
    BY EditorInvInit
  <1>2. EditorInv(C, L) /\ SaveInv /\ [EditorNext]_editorVars => EditorInv(C, L)'
    BY EditorInvStep
  <1>3. EditorInv(C, L) /\ SaveInv => EditorTypeOK
    BY DEF EditorInv, SaveInv, EditorTypeOK, PageFunctions, PageTyped, PageHolds, PageExpects,
           PageIsBounded
  <1> QED  BY <1>1, <1>2, <1>3, SaveInvHolds, PTL DEF EditorSpec

-------------------------------------------------------------------------------
(* ConfigSaving: what would be saved is what is shown.                     *)

\* R relates a config, operations and a draft: what edits of an unedited config
\* lead to stays in R, up to the first edit of those that page and server do not agree
\* on (Overtakes: one that replaces what others build on, or goes below something
\* that is neither map nor list), and in R the server's result is accepted and shows
\* as the draft.  A statement about the operators alone.
Agreeing(C, L, R) ==
    /\ \A c \in C : <<c, <<>>, c>> \in R
    /\ \A c \in C, l \in L, d \in C : <<c, l, d>> \in R =>
          /\ Result(c, l) # Rejected /\ Same(Result(c, l), d)
          /\ \A o \in Offers(d) :
                Overtakes(l, o, d) \/ <<c, Noted(l, o), Shown(d, o)>> \in R

\* The operations of a page lead from the config its draft was taken from to the
\* draft, whatever else was read, saved or discarded since.
PageAgrees(p, C, R) ==
    draft[p] # NoConfig =>
        /\ origin[p] \in C
        /\ ~ clobbered[p] => <<origin[p], operations[p], draft[p]>> \in R

DraftInv(C, R) ==
    /\ DOMAIN origin = Pages /\ DOMAIN clobbered = Pages
    /\ \A p \in Pages : PageAgrees(p, C, R)

LEMMA DraftInvTakes ==
    ASSUME NEW C, NEW L, NEW R, Agreeing(C, L, R), EditorInv(C, L), DraftInv(C, R),
           NEW p \in Pages, NEW config \in C, NEW at, Takes(p, config, at)
    PROVE  DraftInv(C, R)'
  <1>1. /\ DOMAIN origin' = Pages /\ DOMAIN clobbered' = Pages
        /\ draft'[p] = config /\ operations'[p] = <<>> /\ origin'[p] = config
        /\ \A q \in Pages \ {p} : UNCHANGED <<draft[q], operations[q], origin[q], clobbered[q]>>
    BY DEF Takes, EditorInv, PageFunctions, DraftInv
  <1>2. PageAgrees(p, C, R)'
    BY <1>1 DEF PageAgrees, Agreeing
  <1>3. ASSUME NEW q \in Pages \ {p} PROVE PageAgrees(q, C, R)'
    BY <1>1 DEF PageAgrees, DraftInv
  <1> QED  BY <1>1, <1>2, <1>3 DEF DraftInv

LEMMA DraftInvEdit ==
    ASSUME NEW C, NEW L, NEW R, Agreeing(C, L, R), EditorInv(C, L), DraftInv(C, R),
           NEW p \in Pages, Edit(p)
    PROVE  DraftInv(C, R)'
  <1>1. PageHolds(p, C, L) /\ PageFunctions
    BY DEF EditorInv, PageTyped
  <1>2. PICK o \in Offers(draft[p]) :
           /\ draft' = [draft EXCEPT ![p] = Shown(@, o)]
           /\ operations' = [operations EXCEPT ![p] = Noted(@, o)]
           /\ clobbered' = [clobbered EXCEPT ![p] = @ \/ Overtakes(operations[p], o, draft[p])]
    BY DEF Edit
  <1>3. draft[p] # NoConfig /\ UNCHANGED origin
    BY DEF Edit
  <1>4. /\ draft'[p] = Shown(draft[p], o) /\ operations'[p] = Noted(operations[p], o)
        /\ \A q \in Pages \ {p} : UNCHANGED <<draft[q], operations[q]>>
    BY <1>1, <1>2 DEF PageFunctions
  <1>5. /\ DOMAIN clobbered' = Pages
        /\ clobbered'[p] = (clobbered[p] \/ Overtakes(operations[p], o, draft[p]))
        /\ \A q \in Pages \ {p} : clobbered'[q] = clobbered[q]
    BY <1>2, Zenon DEF DraftInv
  <1>6. PageAgrees(p, C, R)'
    <2>1. origin[p] \in C /\ draft[p] \in C /\ operations[p] \in L
      BY <1>1, <1>3 DEF DraftInv, PageAgrees, PageHolds
    <2>2. ASSUME ~ clobbered'[p] PROVE <<origin[p], operations'[p], draft'[p]>> \in R
      <3>1. ~ clobbered[p] /\ ~ Overtakes(operations[p], o, draft[p])
        BY <1>5, <2>2, Zenon
      <3>2. <<origin[p], operations[p], draft[p]>> \in R
        BY <1>3, <3>1 DEF DraftInv, PageAgrees
      <3> QED  BY <1>2, <1>4, <2>1, <3>1, <3>2 DEF Agreeing
    <2> QED  BY <1>3, <2>1, <2>2 DEF PageAgrees
  <1>7. ASSUME NEW q \in Pages \ {p} PROVE PageAgrees(q, C, R)'
    BY <1>3, <1>4, <1>5 DEF PageAgrees, DraftInv
  <1> QED  BY <1>3, <1>5, <1>6, <1>7 DEF DraftInv

LEMMA DraftInvStep ==
    ASSUME NEW C, NEW L, NEW R, Closed(C, L), Agreeing(C, L, R), EditorInv(C, L),
           DraftInv(C, R), [EditorNext]_editorVars
    PROVE  DraftInv(C, R)'
  <1>1. CASE UNCHANGED editor
    BY <1>1 DEF DraftInv, PageAgrees, editor
  <1>2. ASSUME NEW p \in Pages, PageStep(p) PROVE DraftInv(C, R)'
    <2>1. PageTyped(p, C, L)
      BY DEF EditorInv
    <2>2. CASE Fetch(p) \/ ReloadLatest(p) \/ SaveChanges(p)
      BY <1>1, <2>2 DEF Fetch, ReloadLatest, Asks, SaveChanges
    <2>3. CASE ReceiveFetch(p) \/ ReceiveReload(p)
      <3>1. reading[p].config \in C
        BY <2>1, <2>3 DEF ReceiveFetch, ReceiveReload, Answer, PageTyped, PageExpects
      <3> QED  BY <1>1, <2>3, <3>1, DraftInvTakes DEF ReceiveFetch, ReceiveReload
    <2>4. CASE Edit(p)
      BY <2>4, DraftInvEdit
    <2>5. CASE DiscardChanges(p)
      <3>1. cached[p] \in C
        BY <2>1, <2>5 DEF DiscardChanges, PageTyped, PageHolds
      <3> QED  BY <2>5, <3>1, DraftInvTakes DEF DiscardChanges
    <2>6. CASE ReceiveSaved(p)
      <3>1. call[p].config \in C
        BY <2>1, <2>6 DEF ReceiveSaved, PageTyped, PageExpects
      <3> QED  BY <2>6, <3>1, DraftInvTakes DEF ReceiveSaved
    <2>7. CASE Remount(p)
      <3>1. cached[p] \in C
        BY <2>1, <2>7 DEF Remount, PageTyped, PageHolds
      <3> QED  BY <2>7, <3>1, DraftInvTakes DEF Remount
    <2> QED  BY <1>2, <2>2, <2>3, <2>4, <2>5, <2>6, <2>7 DEF PageStep
  <1>3. ASSUME NEW p \in Pages, ServerStep(p) PROVE DraftInv(C, R)'
    BY <1>1, <1>3 DEF ServerStep, ServerValidate, ServerPatch, LoadSucceeds, LoadFails,
                      Restore, RestoreFails, ReloadRestored
  <1>4. CASE Reload
    BY <1>1, <1>4 DEF Reload
  <1> QED  BY <1>1, <1>2, <1>3, <1>4 DEF EditorNext, editorVars

\* What the server would make of a page's operations is what the page shows,
\* however its reads, saves, discards and reopenings interleave with those of other
\* pages (config-editor-page.tsx: setDraft never comes without setOperations): what
\* remains to be seen of the editor is Agreeing, of the tree operators alone, with the
\* edits that page and server do not agree on set apart in Overtakes.
THEOREM DraftsSaveAsShown ==
    ASSUME NEW C, NEW L, NEW R, Closed(C, L), Agreeing(C, L, R)
    PROVE  EditorSpec => []SavedIsShown
  <1>1. EditorInit => EditorInv(C, L) /\ DraftInv(C, R)
    BY EditorInvInit DEF EditorInit, DraftInv, PageAgrees
  <1>2. EditorInv(C, L) /\ SaveInv /\ [EditorNext]_editorVars => EditorInv(C, L)'
    BY EditorInvStep
  <1>3. EditorInv(C, L) /\ DraftInv(C, R) /\ [EditorNext]_editorVars => DraftInv(C, R)'
    BY DraftInvStep
  <1>4. EditorInv(C, L) /\ DraftInv(C, R) => SavedIsShown
    <2> SUFFICES ASSUME EditorInv(C, L), DraftInv(C, R), NEW p \in Pages,
                        draft[p] # NoConfig, ~ clobbered[p]
                 PROVE  /\ Result(origin[p], operations[p]) # Rejected
                        /\ Same(Result(origin[p], operations[p]), draft[p])
      BY DEF SavedIsShown
    <2>1. draft[p] \in C /\ operations[p] \in L
      BY DEF EditorInv, PageTyped, PageHolds
    <2>2. origin[p] \in C /\ <<origin[p], operations[p], draft[p]>> \in R
      BY DEF DraftInv, PageAgrees
    <2> QED  BY <2>1, <2>2 DEF Agreeing
  <1> QED  BY <1>1, <1>2, <1>3, <1>4, SaveInvHolds, PTL DEF EditorSpec

-------------------------------------------------------------------------------
(* ConfigSaving implements SavedConfig: a save is one step.                *)

\* What a save has put in the file, until it is undone, is what its page has asked
\* for, done to the config it has replaced.
AtomicInv ==
    /\ SaveInv
    /\ writing # NoConfig /\ call[writing].stage # "reload" =>
          /\ file = Result(previous, call[writing].operations)
          /\ file # Rejected

LEMMA AtomicInvInit == EditorInit => AtomicInv
  BY SaveInvInit, EditorAssumption DEF EditorInit, AtomicInv

LEMMA AtomicInvStep == AtomicInv /\ [EditorNext]_editorVars => AtomicInv'
  <1> SUFFICES ASSUME AtomicInv, [EditorNext]_editorVars PROVE AtomicInv'
    OBVIOUS
  <1>1. SaveInv /\ SaveInv'
    BY SaveInvStep DEF AtomicInv
  <1>2. CASE UNCHANGED <<file, writing, previous, call>>
    BY <1>1, <1>2 DEF AtomicInv
  <1>3. ASSUME NEW p \in Pages, PageStep(p) PROVE AtomicInv'
    <2>1. UNCHANGED server
      BY <1>3 DEF PageStep, Fetch, ReloadLatest, Asks, ReceiveFetch, ReceiveReload, Answer, Edit,
             DiscardChanges, SaveChanges, ReceiveSaved, Remount
    <2>2. CASE UNCHANGED call
      BY <1>2, <2>1, <2>2 DEF server
    <2>3. CASE SaveChanges(p) \/ ReceiveSaved(p)
      <3>1. \A q \in Pages : q # p => call'[q] = call[q]
        BY <1>1, <2>3 DEF SaveChanges, ReceiveSaved, SaveInv
      <3>2. writing # NoConfig => writing \in Pages /\ writing # p
        BY <1>1, <2>3 DEF SaveChanges, ReceiveSaved, SaveInv, NoSave
      <3> QED  BY <1>1, <2>1, <3>1, <3>2 DEF AtomicInv, server
    <2> QED
      BY <1>3, <2>2, <2>3 DEF PageStep, Fetch, ReloadLatest, Asks, ReceiveFetch, ReceiveReload,
         Answer, Edit, DiscardChanges, Remount
  <1>4. ASSUME NEW p \in Pages, ServerStep(p) PROVE AtomicInv'
    <2>1. CASE ServerValidate(p) \/ (ServerPatch(p) /\ Refuse(p))
      <3>1. writing = NoConfig /\ UNCHANGED server
        BY <2>1 DEF ServerValidate, ServerPatch, Requests, Refuse
      <3> QED  BY <1>1, <3>1 DEF AtomicInv, server
    <2>2. CASE ServerPatch(p) /\ ~ Refuse(p)
      <3>1. /\ writing' = p /\ previous' = file
            /\ file' = Updated(p) /\ Updated(p) # Rejected
            /\ UNCHANGED call
        BY <2>2 DEF ServerPatch
      <3> QED  BY <1>1, <3>1 DEF AtomicInv, Updated
    <2>3. CASE LoadSucceeds(p) \/ RestoreFails(p) \/ ReloadRestored(p)
      BY <1>1, <2>3 DEF LoadSucceeds, RestoreFails, ReloadRestored, Fail, AtomicInv
    <2>4. CASE LoadFails(p)
      <3>1. /\ writing = p /\ writing # NoConfig /\ call[p].stage = "patch"
            /\ call'[p].operations = call[p].operations
        BY <1>1, <2>4, EditorAssumption DEF LoadFails, Writes, SaveInv
      <3> QED  BY <1>1, <2>4, <3>1 DEF LoadFails, AtomicInv
    <2>5. CASE Restore(p)
      <3>1. writing' = p /\ call'[p].stage = "reload"
        BY <1>1, <2>5 DEF Restore, Writes, SaveInv
      <3> QED  BY <1>1, <3>1 DEF AtomicInv
    <2> QED  BY <1>4, <2>1, <2>2, <2>3, <2>4, <2>5 DEF ServerStep
  <1>5. CASE Reload
    BY <1>2, <1>5 DEF Reload
  <1> QED
    BY <1>2, <1>3, <1>4, <1>5 DEF EditorNext, editorVars, server

LEMMA AtomicInvHolds == EditorSpec => []AtomicInv
  BY AtomicInvInit, AtomicInvStep, PTL DEF EditorSpec

\* The requests of the pages, as SavedConfig sees them.
Asking == [p \in Pages |-> AsRequest(call[p])]

LEMMA OneRequest ==
    ASSUME NEW p \in Pages, NEW c, DOMAIN call = Pages, call' = [call EXCEPT ![p] = c]
    PROVE  Asking' = [Asking EXCEPT ![p] = AsRequest(c)]
  BY DEF Asking, AsRequest

LEMMA RequestKinds ==
    ASSUME NEW c
    PROVE  /\ c.stage = "idle" => AsRequest(c) = Promised!Nothing
           /\ c.stage = "answered" => AsRequest(c) = Promised!Answered(c.config)
           /\ c.stage \notin {"idle", "answered"} =>
                 AsRequest(c) = Promised!Asked(c.version, c.operations)
  BY DEF AsRequest, Promised!Nothing, Promised!Answered, Promised!Asked

LEMMA NoRequest == AsRequest(NoSave) = Promised!Nothing
  BY DEF AsRequest, NoSave, Promised!Nothing

\* A request that is refused or given up was never more than asked for.
LEMMA Denied ==
    ASSUME SaveInv, NEW p \in Pages, call[p].stage \in {"validate", "patch", "reload"},
           call' = [call EXCEPT ![p] = NoSave], UNCHANGED InForce
    PROVE  Promised!Deny(p)
  <1>1. Asking' = [Asking EXCEPT ![p] = Promised!Nothing]
    BY OneRequest, NoRequest DEF SaveInv
  <1>2. Asking[p].stage = "asked"
    BY RequestKinds DEF Asking, Promised!Asked
  <1> QED  BY <1>1, <1>2 DEF Promised!Deny, Asking

\* What was asked for is done: the save that holds the mutex lets go of it with its
\* file in place.
LEMMA IsDone ==
    ASSUME AtomicInv, NEW p \in Pages, writing = p, call[p].stage \in {"patch", "restore"},
           writing' = NoConfig, UNCHANGED file
    PROVE  /\ Asking[p] = Promised!Asked(call[p].version, call[p].operations)
           /\ Asking[p].stage = "asked" /\ Asking[p].version = InForce
           /\ InForce' = Result(InForce, Asking[p].operations) /\ InForce' # Rejected
           /\ InForce' = file
  <1>1. /\ writing # NoConfig /\ call[p].version = previous
        /\ file = Result(previous, call[p].operations) /\ file # Rejected
    BY EditorAssumption DEF AtomicInv, SaveInv
  <1>2. Asking[p] = Promised!Asked(call[p].version, call[p].operations)
    BY RequestKinds DEF Asking
  <1>3. /\ Asking[p].stage = "asked" /\ Asking[p].version = call[p].version
        /\ Asking[p].operations = call[p].operations
    BY <1>2 DEF Promised!Asked
  <1> QED  BY <1>1, <1>2, <1>3 DEF InForce

LEMMA SaveStepIsPromised ==
    ASSUME AtomicInv, [EditorNext]_editorVars
    PROVE  [Promised!Next]_<<InForce, Asking>>
  <1>1. SaveInv
    BY DEF AtomicInv
  <1>2. CASE UNCHANGED <<InForce, call>>
    BY <1>2 DEF Asking
  <1>3. ASSUME NEW p \in Pages, PageStep(p) PROVE [Promised!Next]_<<InForce, Asking>>
    <2>1. UNCHANGED InForce
      BY <1>3 DEF PageStep, Fetch, ReloadLatest, Asks, ReceiveFetch, ReceiveReload, Answer, Edit,
             DiscardChanges, SaveChanges, ReceiveSaved, Remount, server, InForce
    <2>2. CASE UNCHANGED call
      BY <1>2, <2>1, <2>2
    <2>3. CASE SaveChanges(p)
      <3> DEFINE c == [stage |-> "validate", version |-> version[p],
                       operations |-> operations[p]]
      <3>1. call[p] = NoSave /\ call' = [call EXCEPT ![p] = c]
        BY <2>3 DEF SaveChanges
      <3>2. AsRequest(c) = Promised!Asked(version[p], operations[p])
        BY RequestKinds
      <3> HIDE DEF c
      <3>3. /\ Asking[p] = Promised!Nothing
            /\ Asking' = [Asking EXCEPT ![p] = Promised!Asked(version[p], operations[p])]
        BY <1>1, <3>1, <3>2, OneRequest, NoRequest DEF SaveInv, Asking
      <3>4. Asking'[p] = Promised!Asked(version[p], operations[p])
        BY <3>3 DEF Asking
      <3>5. /\ Asking'[p].stage = "asked"
            /\ Asking'[p].version = version[p] /\ Asking'[p].operations = operations[p]
        BY <3>4 DEF Promised!Asked
      <3>6. Asking' = [Asking EXCEPT ![p] = Promised!Asked(Asking'[p].version,
                                                         Asking'[p].operations)]
        BY <3>3, <3>5
      <3>7. Promised!Ask(p)
        BY <2>1, <3>3, <3>5, <3>6 DEF Promised!Ask, Asking
      <3> QED  BY <3>7 DEF Promised!Next
    <2>4. CASE ReceiveSaved(p)
      <3>1. /\ Asking[p].stage = "answered"
            /\ Asking' = [Asking EXCEPT ![p] = Promised!Nothing]
        <4>1. call[p].stage = "answered" /\ call' = [call EXCEPT ![p] = NoSave]
          BY <2>4 DEF ReceiveSaved
        <4>2. Asking[p].stage = "answered"
          BY <4>1, RequestKinds DEF Asking, Promised!Answered
        <4> QED  BY <1>1, <4>1, <4>2, OneRequest, NoRequest DEF SaveInv
      <3> QED  BY <2>1, <3>1 DEF Promised!Next, Promised!Close, Asking
    <2> QED
      BY <1>3, <2>2, <2>3, <2>4 DEF PageStep, Fetch, ReloadLatest, Asks, ReceiveFetch,
         ReceiveReload, Answer, Edit, DiscardChanges, Remount
  <1>4. ASSUME NEW p \in Pages, ServerStep(p) PROVE [Promised!Next]_<<InForce, Asking>>
    <2>1. CASE (ServerValidate(p) \/ ServerPatch(p)) /\ Refuse(p)
      <3>1. Promised!Deny(p)
        BY <1>1, <2>1, Denied DEF ServerValidate, ServerPatch, Requests, Refuse, server, InForce
      <3> QED  BY <3>1 DEF Promised!Next
    <2>2. CASE ServerValidate(p) /\ ~ Refuse(p)
      <3> DEFINE c == [stage |-> "patch", version |-> call[p].version,
                       operations |-> call[p].operations]
      <3>1. /\ call[p].stage = "validate" /\ call' = [call EXCEPT ![p] = c]
            /\ UNCHANGED InForce
        BY <2>2 DEF ServerValidate, Requests, server, InForce
      <3>2. AsRequest(c) = Asking[p]
        BY <3>1, RequestKinds DEF Asking
      <3>3. Asking' = [Asking EXCEPT ![p] = Asking[p]]
        BY <1>1, <3>1, <3>2, OneRequest DEF SaveInv
      <3> QED  BY <3>1, <3>3 DEF Asking
    <2>3. CASE ServerPatch(p) /\ ~ Refuse(p)
      BY <1>2, <2>3, EditorAssumption DEF ServerPatch, Requests, InForce
    <2>4. CASE LoadSucceeds(p)
      <3> DEFINE c == [stage |-> "answered", version |-> call[p].version,
                       operations |-> call[p].operations, config |-> file]
      <3>1. /\ writing = p /\ call[p].stage = "patch" /\ writing' = NoConfig
            /\ call' = [call EXCEPT ![p] = c] /\ UNCHANGED file
        BY <2>4 DEF LoadSucceeds, Writes
      <3>2. AsRequest(c) = Promised!Answered(file)
        BY RequestKinds
      <3> HIDE DEF c
      <3>3. Asking' = [Asking EXCEPT ![p] = Promised!Answered(file)]
        BY <1>1, <3>1, <3>2, OneRequest DEF SaveInv
      <3>4. /\ Asking[p].stage = "asked" /\ Asking[p].version = InForce
            /\ InForce' = Result(InForce, Asking[p].operations) /\ InForce' # Rejected
            /\ InForce' = file
        BY <3>1, IsDone
      <3>5. Promised!Grant(p)
        BY <3>3, <3>4 DEF Promised!Grant, Promised!Done, Asking
      <3> QED  BY <3>5 DEF Promised!Next
    <2>5. CASE LoadFails(p) \/ Restore(p)
      <3> DEFINE stage == IF LoadFails(p) THEN "restore" ELSE "reload"
      <3>0. stage \in {"restore", "reload"}
        OBVIOUS
      <3>1. /\ writing = p /\ writing # NoConfig /\ UNCHANGED <<writing, previous>>
            /\ call[p].stage \in {"patch", "restore"}
            /\ call' = [call EXCEPT ![p].stage = stage]
        BY <2>5, EditorAssumption DEF LoadFails, Restore, Writes
      <3> HIDE DEF stage
      <3>2. UNCHANGED InForce
        BY <3>1 DEF InForce
      <3>3. /\ call'[p].stage = stage /\ call'[p].version = call[p].version
            /\ call'[p].operations = call[p].operations
            /\ \A q \in Pages : q # p => call'[q] = call[q]
        BY <1>1, <3>1 DEF SaveInv
      <3>4. AsRequest(call'[p]) = AsRequest(call[p])
        <4>1. AsRequest(call[p]) = Promised!Asked(call[p].version, call[p].operations)
          BY <3>1, RequestKinds
        <4>2. AsRequest(call'[p]) = Promised!Asked(call'[p].version, call'[p].operations)
          BY <3>0, <3>3, RequestKinds
        <4> QED  BY <3>3, <4>1, <4>2
      <3> QED  BY <3>2, <3>3, <3>4 DEF Asking
    <2>6. CASE RestoreFails(p)
      <3>1. /\ writing = p /\ call[p].stage = "restore" /\ writing' = NoConfig
            /\ call' = [call EXCEPT ![p] = NoSave] /\ UNCHANGED file
        BY <2>6 DEF RestoreFails, Writes, Fail
      <3>2. Asking' = [Asking EXCEPT ![p] = Promised!Nothing]
        BY <1>1, <3>1, OneRequest, NoRequest DEF SaveInv
      <3>3. /\ Asking[p].stage = "asked" /\ Asking[p].version = InForce
            /\ InForce' = Result(InForce, Asking[p].operations) /\ InForce' # Rejected
        BY <3>1, IsDone
      <3>4. Promised!Strand(p)
        BY <3>2, <3>3 DEF Promised!Strand, Promised!Done, Asking
      <3> QED  BY <3>4 DEF Promised!Next
    <2>7. CASE ReloadRestored(p)
      <3>1. /\ writing = p /\ writing # NoConfig /\ call[p].stage = "reload"
            /\ writing' = NoConfig /\ call' = [call EXCEPT ![p] = NoSave] /\ UNCHANGED file
        BY <2>7, EditorAssumption DEF ReloadRestored, Writes, Fail
      <3>2. UNCHANGED InForce
        BY <1>1, <3>1 DEF SaveInv, InForce
      <3>3. Promised!Deny(p)
        BY <1>1, <3>1, <3>2, Denied
      <3> QED  BY <3>3 DEF Promised!Next
    <2> QED  BY <1>4, <2>1, <2>2, <2>3, <2>4, <2>5, <2>6, <2>7 DEF ServerStep
  <1>5. CASE Reload
    BY <1>2, <1>5 DEF Reload, InForce
  <1> QED
    BY <1>2, <1>3, <1>4, <1>5 DEF EditorNext, editorVars, server, InForce

\* Whatever is edited, whatever fails and whatever else is under way, a save of a
\* page is one step: its operations are done to the version it has sent, which is
\* the config in force at that moment, and the answer is the result; or nothing has
\* happened to that config; or, when a rejected file could not be put back, they are
\* done and the answer is an error (patchConfigEditor, config_editor.go:115-215).
THEOREM SavesAreAtomic == EditorSpec => ImplementsSavedConfig
  <1>1. EditorInit => Promised!Init
    BY DEF EditorInit, NoSave, AsRequest, InForce, Promised!Init, Promised!Nothing
  <1>2. AtomicInv /\ [EditorNext]_editorVars => [Promised!Next]_<<InForce, Asking>>
    BY SaveStepIsPromised
  <1> QED
    BY <1>1, <1>2, AtomicInvHolds, PTL DEF EditorSpec, ImplementsSavedConfig, Promised!Spec, Asking
===============================================================================
