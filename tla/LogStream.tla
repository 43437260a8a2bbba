-------------------------------- MODULE LogStream --------------------------------
(***************************************************************************)
(* streamFile (web/logstream.go): one connection that follows a log file   *)
(* which grows meanwhile.  With a Done function it follows the log of one  *)
(* run (web/runs.go) and stops some time after the run is over; without    *)
(* one it follows the log of the service, which may be rotated.            *)
(*                                                                         *)
(* A file is the sequence of the pieces written to it, numbered in order,  *)
(* so that what the client has got can be told apart.  The path names one  *)
(* file at a time; a handle keeps the file it opened.                      *)
(***************************************************************************)
EXTENDS Naturals, Sequences, FiniteSets

CONSTANTS Kind,          \* which logs are followed: {"run", "service"} or less
          MaxPieces,     \* bound on what is written
          MaxFiles,      \* bound on the files the path names in turn
          MaxReadErrors, \* bound on failing reads
          None

ASSUME StreamAssumption ==
    /\ Kind \subseteq {"run", "service"}
    /\ MaxPieces \in Nat /\ MaxFiles \in Nat \ {0} /\ MaxReadErrors \in Nat

File == 1..MaxFiles

VARIABLES ofRun,     \* whether the connection was given a Done function
          content,   \* by file: what was written to it
          path,      \* the file the path names, None when it names none
          writing,   \* the file the writer has open
          active,    \* runlog.IsActive
          pc,        \* where the connection is in its loop
          handle,    \* the file it has open, or None
          offset,    \* its position in that file
          sent,      \* history: the pieces of a run's log it has sent
          begun,     \* history: the position it began at
          errors

file   == <<ofRun, content, path, writing, active>>
stream == <<pc, handle, offset, sent, begun, errors>>
vars   == <<file, stream>>

Written == Cardinality(UNION {{<<f, i>> : i \in DOMAIN content[f]} : f \in File})

TypeOK ==
    /\ ofRun \in BOOLEAN
    /\ \A f \in File : content[f] \in Seq(1..MaxPieces + 2)
    /\ path \in File \cup {None}
    /\ writing \in File
    /\ active \in BOOLEAN
    /\ pc \in {"loop", "eof", "done", "gone"}
    /\ handle \in File \cup {None}
    /\ offset \in Nat
    /\ ofRun /\ handle # None => offset <= Len(content[handle])
    /\ sent \in Seq(1..MaxPieces + 2)
    /\ begun \in Nat
    /\ errors \in 0..MaxReadErrors

\* The first piece is the header; the client asks for an offset of its own.
Init ==
    /\ ofRun \in {kind = "run" : kind \in Kind}
    /\ content = [f \in File |-> IF f = 1 THEN <<1>> ELSE <<>>]
    /\ path = 1
    /\ writing = 1
    /\ active = TRUE
    /\ pc = "loop"
    /\ handle = None
    /\ offset \in 0..2
    /\ sent = <<>>
    /\ begun = offset
    /\ errors = 0

-------------------------------------------------------------------------------
(* The file changes.                                                       *)

Put == content' = [content EXCEPT ![writing] = Append(@, Written + 1)]

Grow ==
    /\ active
    /\ Written <= MaxPieces
    /\ Put
    /\ UNCHANGED <<ofRun, path, writing, active, stream>>

\* runlog.End: the footer, and later unregisterLive.
WriteFooter ==
    /\ ofRun /\ active
    /\ Written = MaxPieces + 1
    /\ Put
    /\ UNCHANGED <<ofRun, path, writing, active, stream>>

Unregister ==
    /\ ofRun /\ active
    /\ Written = MaxPieces + 2
    /\ active' = FALSE
    /\ UNCHANGED <<ofRun, content, path, writing, stream>>

\* runlog.Delete or pruneLocked: the open files live on without a name.
Remove ==
    /\ ofRun
    /\ path # None
    /\ path' = None
    /\ UNCHANGED <<ofRun, content, writing, active, stream>>

\* The log of the service is rotated: the path names a new, empty file.
Rotate ==
    /\ ~ ofRun
    /\ writing < MaxFiles
    /\ writing' = writing + 1
    /\ path' = writing + 1
    /\ UNCHANGED <<ofRun, content, active, stream>>

\* Or it is emptied in place; the writer appends, so it goes on at the start.
Truncate ==
    /\ ~ ofRun
    /\ content' = [content EXCEPT ![writing] = <<>>]
    /\ UNCHANGED <<ofRun, path, writing, active, stream>>

-------------------------------------------------------------------------------
(* The connection.                                                         *)

\* Mutant of OpenAt: every open begins at the start of the file.
OpenAtStart(position) ==
    /\ path # None
    /\ handle' = path
    /\ offset' = 0

\* open(false), open(true): an offset beyond the end falls back to the start.
OpenAt(position) ==
    /\ path # None
    /\ handle' = path
    /\ offset' = IF position > Len(content[path]) THEN 0 ELSE position

\* No file is open: try again; nothing else is looked at on this way round.
Open ==
    /\ pc = "loop" /\ handle = None
    /\ OpenAt(offset)
    /\ begun' = IF sent = <<>> THEN offset' ELSE begun
    /\ UNCHANGED <<file, pc, sent, errors>>

\* Mutant of Stat: a rotated file is taken to be the same.
StatBySize ==
    /\ pc = "loop" /\ handle # None /\ path # None
    /\ Len(content[path]) < offset
    /\ offset' = 0
    /\ UNCHANGED <<file, pc, handle, sent, begun, errors>>

\* Once a second: the path names another file now, or the file has shrunk.
Stat ==
    /\ pc = "loop" /\ handle # None /\ path # None
    /\ \/ path # handle /\ OpenAt(0)
       \/ path = handle /\ Len(content[path]) < offset /\ offset' = 0 /\ handle' = handle
    /\ UNCHANGED <<file, pc, sent, begun, errors>>

\* Read returns something: it is written out and flushed.
Read ==
    /\ pc = "loop" /\ handle # None
    /\ offset < Len(content[handle])
    /\ sent' = IF ofRun THEN Append(sent, content[handle][offset + 1]) ELSE sent
    /\ offset' = offset + 1
    /\ UNCHANGED <<file, pc, handle, begun, errors>>

\* Read returns io.EOF.
ReadEnd ==
    /\ pc = "loop" /\ handle # None
    /\ offset >= Len(content[handle])
    /\ pc' = "eof"
    /\ UNCHANGED <<file, handle, offset, sent, begun, errors>>

\* Read fails otherwise: the file is closed, to be opened again.
ReadFails ==
    /\ pc = "loop" /\ handle # None
    /\ errors < MaxReadErrors
    /\ errors' = errors + 1
    /\ handle' = None
    /\ UNCHANGED <<file, pc, offset, sent, begun>>

\* Mutant of AfterEnd: Done is not asked, as for the log of the service.
NeverDone ==
    /\ pc = "eof"
    /\ pc' = "loop"
    /\ UNCHANGED <<file, handle, offset, sent, begun, errors>>

\* At the end of the file: Done is asked only now.
AfterEnd ==
    /\ pc = "eof"
    /\ pc' = IF ofRun /\ ~ active THEN "done" ELSE "loop"
    /\ UNCHANGED <<file, handle, offset, sent, begun, errors>>

\* The client goes away.
Disconnect ==
    /\ pc \in {"loop", "eof"}
    /\ pc' = "gone"
    /\ UNCHANGED <<file, handle, offset, sent, begun, errors>>

Serve == Open \/ Stat \/ Read \/ ReadEnd \/ AfterEnd

Next ==
    \/ Grow \/ WriteFooter \/ Unregister \/ Remove \/ Rotate \/ Truncate
    \/ Serve \/ ReadFails
    \/ Disconnect

Spec == Init /\ [][Next]_vars

(***************************************************************************)
(* The loop goes round, and looks at the path again every second; a run    *)
(* that is over is unregistered.                                           *)
(***************************************************************************)
Fairness == WF_vars(Serve) /\ SF_vars(Stat) /\ WF_vars(Unregister)

FairSpec == Spec /\ Fairness

-------------------------------------------------------------------------------

(***************************************************************************)
(* From where it begins, the client gets every piece of a run's log once   *)
(* and in order, also when a read fails and the file is opened again.      *)
(***************************************************************************)
NoGapNoRepeat ==
    ofRun =>
        /\ sent # <<>> => begun + Len(sent) <= Len(content[1])
        /\ sent = SubSeq(content[1], begun + 1, begun + Len(sent))

(***************************************************************************)
(* A connection that is not cut ends once the run is over, instead of      *)
(* hanging in the browser (streamRunLog, comment of Done), also when the   *)
(* record is deleted or a read fails meanwhile; not when both happen, for  *)
(* a log that cannot be opened is tried again without asking Done.         *)
(***************************************************************************)
StreamEnds ==
    ofRun /\ [](handle # None \/ path # None) =>
        (~ active ~> pc \in {"done", "gone"})

(***************************************************************************)
(* However often the log of the service is rotated or emptied, once it     *)
(* stays as it is, a client that stays ends up at the end of the file the  *)
(* path names, and no longer follows one that has been renamed away.       *)
(***************************************************************************)
CaughtUp == path # None /\ handle = path /\ offset = Len(content[path])

CatchesUp == ~ ofRun /\ <>[][FALSE]_file => <>[](pc = "gone" \/ CaughtUp)
===============================================================================
