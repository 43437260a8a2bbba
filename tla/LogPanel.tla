------------------------------ MODULE LogPanel ------------------------------
(***************************************************************************)
(* The two panels that follow a log in the browser: the log of a run       *)
(* (pages/tasks/task-log-panel.tsx) and the daemon's (pages/logs/          *)
(* live-log-panel.tsx).  Both decode a stream of bytes into lines, and ask *)
(* for the rest, from an offset they keep, when the stream is cut.         *)
(*                                                                         *)
(* A log is lines of one character each.  A character is two bytes, for    *)
(* the three that one of most of its text takes in UTF-8: of every three   *)
(* bytes the first begins a character, numbered by its line, the second    *)
(* completes it and the third is a newline.  A line on the screen is the   *)
(* sequence of characters it is made of.  What the server does with a log  *)
(* that is rotated or removed is in LogStream.                             *)
(***************************************************************************)
EXTENDS Naturals, Sequences, FiniteSets

CONSTANTS
  MaxBytes,   \* bound on the log
  TailLines,  \* the lines of a first connection
  MaxCuts,    \* bound on the streams cut or failed and on the button pressed
  MaxBeats    \* bound on the heartbeats

ASSUME BoundsAssumption == MaxBytes \in Nat /\ TailLines \in Nat /\ MaxCuts \in Nat /\ MaxBeats \in Nat

VARIABLES
  kind,       \* "task" or "live"
  written,    \* the bytes of the log
  running,    \* the run goes on (always so for the daemon's log)
  activeRef,  \* the panel takes it to go on
  at,         \* where the panel is
  position,   \* the server's next byte is the one after this
  pending,    \* the decoder holds the first byte of a character
  remainder,  \* the line begun
  lines,      \* the lines shown
  offsetRef,  \* where to go on in the log
  received,   \* receivedBytes, of the live panel
  retries,    \* the reconnections of the task panel
  exact,      \* history: the offset can be right so far, see ResumesExactly
  torn,       \* history: the lines whose character a cut went through
  cuts, beats
serverVars == <<written, running>>
shownVars == <<pending, remainder, lines, torn>>
panelVars == <<activeRef, at, position, shownVars, offsetRef, received, retries, exact>>
logPanelVars == <<kind, serverVars, panelVars, cuts, beats>>

Stage == {"connecting", "streaming", "retrying", "ended", "error", "closed"}

PanelTypeOK ==
  /\ kind \in {"task", "live"} /\ written \in 0 .. MaxBytes /\ running \in BOOLEAN
  /\ activeRef \in BOOLEAN /\ at \in Stage /\ position \in 0 .. MaxBytes
  /\ pending \in BOOLEAN /\ torn \in SUBSET (Nat \ {0})
  /\ remainder \in Seq(Nat) /\ lines \in Seq(Seq(Nat))
  /\ offsetRef \in Nat /\ received \in Nat /\ retries \in 0 .. 3 /\ exact \in BOOLEAN
  /\ cuts \in 0 .. MaxCuts /\ beats \in 0 .. MaxBeats

PanelInit ==
  /\ kind \in {"task", "live"}
  /\ written \in 0 .. MaxBytes
  /\ running \in BOOLEAN /\ (kind = "live" => running)
  /\ activeRef = running /\ at = "connecting"
  /\ position = 0 /\ pending = FALSE /\ remainder = <<>> /\ lines = <<>> /\ torn = {}
  /\ offsetRef = 0 /\ received = 0 /\ retries = 0 /\ exact = TRUE
  /\ cuts = 0 /\ beats = 0

Begins(b) == b % 3 = 1
Newline(b) == b % 3 = 0
LineOf(b) == (b + 2) \div 3

(* U+FFFD, what a decoder makes of a byte that is no character *)
Garbled == 0
-----------------------------------------------------------------------------
(* The writer *)
Write ==
  /\ running /\ written < MaxBytes
  /\ written' = written + 1
  /\ UNCHANGED <<kind, running, panelVars, cuts, beats>>

End ==
  /\ kind = "task" /\ running
  /\ running' = FALSE
  /\ UNCHANGED <<kind, written, panelVars, cuts, beats>>

(* The task list is polled: the prop of the panel. *)
ListPolled ==
  /\ activeRef /\ ~running /\ at # "closed"
  /\ activeRef' = FALSE
  /\ UNCHANGED <<kind, serverVars, at, position, shownVars, offsetRef, received, retries, exact, cuts, beats>>

(* The start of the last n lines *)
tailStartOffset(n) == IF written \div 3 > n THEN 3 * (written \div 3 - n) ELSE 0

(* streamFile opens the log where it is told, at the beginning if that is past
   its end. *)
StartAt ==
  IF offsetRef = 0 THEN tailStartOffset(TailLines) ELSE IF offsetRef > written THEN 0 ELSE offsetRef

(* The response has come: X-Run-Running tells the task panel if it is over.
   The decoder is a new one, what the last one held is lost. *)
Connected ==
  /\ at = "connecting" /\ at' = "streaming"
  /\ position' = StartAt
  /\ exact' = (exact /\ StartAt = offsetRef)
  /\ activeRef' = (activeRef /\ running)
  /\ pending' = FALSE
  /\ torn' = IF pending THEN torn \cup {Len(lines) + 1} ELSE torn
  /\ UNCHANGED <<kind, serverVars, remainder, lines, offsetRef, received, retries, cuts, beats>>

(* The line begun, with what becomes of a first byte that nothing completes *)
Flushed == IF pending THEN Append(remainder, Garbled) ELSE remainder

(* A newline reaches the panel; an empty line is dropped. *)
LineEnds ==
  /\ pending' = FALSE /\ remainder' = <<>>
  /\ lines' = IF Flushed = <<>> THEN lines ELSE Append(lines, Flushed)
  /\ UNCHANGED torn

(* The first byte of a character, and the one that completes it if the decoder
   has the first *)
CharacterBegins ==
  /\ pending' = TRUE /\ remainder' = Flushed
  /\ UNCHANGED <<lines, torn>>

CharacterEnds(character) ==
  /\ pending' = FALSE
  /\ remainder' = Append(remainder, IF pending THEN character ELSE Garbled)
  /\ UNCHANGED <<lines, torn>>

Decode(b) ==
  IF Begins(b) THEN CharacterBegins ELSE IF Newline(b) THEN LineEnds ELSE CharacterEnds(LineOf(b))

(* A plausible slip: what is counted is the last chunk. *)
CountLast == IF kind = "task" THEN offsetRef' = 1 /\ UNCHANGED received
                              ELSE received' = 1 /\ UNCHANGED offsetRef

(* The task panel counts in its offset, the live panel beside it. *)
Count == IF kind = "task" THEN offsetRef' = offsetRef + 1 /\ UNCHANGED received
                          ELSE received' = received + 1 /\ UNCHANGED offsetRef

Receive ==
  /\ at = "streaming" /\ position < written
  /\ position' = position + 1
  /\ Decode(position + 1)
  /\ Count
  /\ UNCHANGED <<kind, serverVars, activeRef, at, retries, exact, cuts, beats>>

(* A newline that is not in the file, while nothing is written *)
Heartbeat ==
  /\ at = "streaming" /\ position = written /\ running
  /\ beats < MaxBeats /\ beats' = beats + 1
  /\ LineEnds
  /\ Count
  /\ exact' = FALSE
  /\ UNCHANGED <<kind, serverVars, activeRef, at, position, retries, cuts>>
-----------------------------------------------------------------------------
(* The stream ends without an error.  The task panel asks for the rest up to
   three times if it takes the run to go on; the live panel always, from the
   start of the line begun. *)
TaskStreamEnds ==
  /\ at' = IF ~activeRef THEN "ended" ELSE IF retries = 3 THEN "error" ELSE "retrying"
  /\ retries' = IF activeRef /\ retries < 3 THEN retries + 1 ELSE retries
  /\ UNCHANGED <<offsetRef, exact>>

(* new TextEncoder().encode(remainder).length; U+FFFD is three bytes *)
Encoded == 2 * Len(remainder) + Cardinality({i \in DOMAIN remainder : remainder[i] = Garbled})

LiveStreamEnds ==
  /\ at' = "retrying"
  /\ offsetRef' = IF received > Encoded THEN received - Encoded ELSE 0
  /\ exact' = (exact /\ remainder = <<>>)
  /\ UNCHANGED retries

StreamOver ==
  /\ IF kind = "task" THEN TaskStreamEnds ELSE LiveStreamEnds
  /\ UNCHANGED <<kind, serverVars, activeRef, position, shownVars, received, beats>>

(* Everything is sent and the run is over. *)
Done ==
  /\ kind = "task" /\ at = "streaming" /\ position = written /\ ~running
  /\ StreamOver
  /\ UNCHANGED cuts

(* A proxy ends the stream, as if the server had. *)
Cut ==
  /\ at = "streaming" /\ cuts < MaxCuts /\ cuts' = cuts + 1
  /\ StreamOver

(* A plausible slip: nothing is tried again after an error. *)
AfterErrorNothing == at' = "error"

(* scheduleRetry in a finally, in the live panel; the task panel stops. *)
AfterError == at' = IF kind = "task" THEN "error" ELSE "retrying"

(* The connection is refused, or breaks; the live panel keeps the offset of the
   last stream that ended without an error. *)
Fail ==
  /\ at \in {"connecting", "streaming"} /\ cuts < MaxCuts /\ cuts' = cuts + 1
  /\ AfterError
  /\ exact' = (exact /\ (kind = "live" => offsetRef = received))
  /\ UNCHANGED <<kind, serverVars, activeRef, position, shownVars, offsetRef, received, retries, beats>>

(* The timer of the retry *)
Retry ==
  /\ at = "retrying" /\ at' = "connecting"
  /\ UNCHANGED <<kind, serverVars, activeRef, position, shownVars, offsetRef, received, retries, exact, cuts, beats>>

(* The button.  The task panel begins again; the live panel keeps its lines and
   its offset, and counts from zero. *)
Reconnect ==
  /\ at # "closed" /\ at' = "connecting"
  /\ cuts < MaxCuts /\ cuts' = cuts + 1
  /\ pending' = FALSE /\ remainder' = <<>> /\ torn' = {}
  /\ received' = 0 /\ retries' = 0
  /\ IF kind = "task" THEN lines' = <<>> /\ offsetRef' = 0 /\ exact' = TRUE
                      ELSE exact' = (lines = <<>> /\ offsetRef = 0) /\ UNCHANGED <<lines, offsetRef>>
  /\ UNCHANGED <<kind, serverVars, activeRef, position, beats>>

Close ==
  /\ at # "closed" /\ at' = "closed"
  /\ UNCHANGED <<kind, serverVars, activeRef, position, shownVars, offsetRef, received, retries, exact, cuts, beats>>

PanelNext ==
  \/ Write \/ End \/ ListPolled
  \/ Connected \/ Receive \/ Heartbeat \/ Done \/ Cut \/ Fail
  \/ Retry \/ Reconnect \/ Close

PanelSpec == PanelInit /\ [][PanelNext]_logPanelVars

(* The server answers and sends what there is, and timers fire. *)
PanelFairSpec == PanelSpec /\ WF_logPanelVars(Connected \/ Receive \/ Done \/ Retry) /\ WF_logPanelVars(ListPolled)
-----------------------------------------------------------------------------
(* What the panel has after any number of cuts is the log from its first line:
   each line once and in order, the line begun as far as it was received, and
   whole unless a cut went through its character, which is then garbled
   (task-log-panel.tsx:177-188, live-log-panel.tsx:220-244).  The offset can
   only be right (exact) if the first connection began at the start of the log,
   which is then no longer than the tail, and no heartbeat came; for the live
   panel, if its streams also ended without an error and between two lines. *)
Line(i) == IF i \in torn THEN <<Garbled>> ELSE <<i>>

ResumesExactly ==
  exact =>
    /\ \A i \in DOMAIN lines : lines[i] = Line(i)
    /\ remainder \in {<<>>, Line(Len(lines) + 1)}

(* The panel of a run that is over comes to an end, with the log or with an
   error and a button, unless it is closed; the live panel always connects
   again (task-log-panel.tsx:138, live-log-panel.tsx:167). *)
PanelSettles ==
  /\ kind = "task" /\ ~running ~> at \in {"ended", "error", "closed"}
  /\ kind = "live" ~> at \in {"streaming", "closed"}
=============================================================================
