-------------------------- MODULE LogFollowingProofs --------------------------
(***************************************************************************)
(* Proofs about the two ends of a log that is followed: the connection of  *)
(* the server (LogStream), whatever the writer, the reader of the file and *)
(* a deletion do, and the panel in the browser (LogPanel), whatever cuts,  *)
(* retries and presses of the button there are; for a log of any length.   *)
(***************************************************************************)
EXTENDS LogStream, LogPanel, FiniteSetTheorems, SequenceTheorems, TLAPS

-------------------------------------------------------------------------------
(* The connection of the server.                                           *)

\* The log of a run is one file, which is written at its end only.
OneFile ==
    /\ content \in [File -> Seq(Nat)]
    /\ \A f \in File \ {1} : content[f] = <<>>
    /\ writing = 1 /\ path \in {1, None} /\ handle \in {1, None}

\* The offset is right after what was sent, also while no file is open, and
\* within the log, so that opening it again does not fall back to the start.
OffsetIsNext ==
    /\ begun \in Nat /\ sent \in Seq(Nat)
    /\ offset = begun + Len(sent)
    /\ handle # None \/ sent # <<>> => offset <= Len(content[1])

SentIsContent == \A i \in 1..Len(sent) : sent[i] = content[1][begun + i]

StreamInv == ofRun => OneFile /\ OffsetIsNext /\ SentIsContent

\* The first file is one of the files.
LEMMA FirstFile == 1 \in File
BY StreamAssumption DEF File

\* What was written is counted by a number.
LEMMA WrittenIsNatural == OneFile => Written \in Nat
<1> SUFFICES ASSUME OneFile PROVE Written \in Nat
  OBVIOUS
<1> DEFINE pieces == UNION {{<<f, i>> : i \in DOMAIN content[f]} : f \in File}
           range == {1} \X (1..Len(content[1]))
<1>1. content[1] \in Seq(Nat) /\ \A f \in File \ {1} : DOMAIN content[f] = {}
  BY FirstFile DEF OneFile
<1>2. IsFiniteSet({1}) /\ IsFiniteSet(1..Len(content[1]))
  <2>1. IsFiniteSet({1})
    BY FS_Singleton
  <2>2. Len(content[1]) \in Int /\ 1 \in Int
    BY <1>1
  <2>3. IsFiniteSet(1..Len(content[1]))
    BY <2>2, FS_Interval
  <2> QED BY <2>1, <2>3
<1>3. IsFiniteSet(range)
  BY <1>2, FS_Product
<1>4. pieces \subseteq range
  BY <1>1
<1> HIDE DEF pieces, range
<1>5. IsFiniteSet(pieces)
  BY <1>3, <1>4, FS_Subset
<1>6. Cardinality(pieces) \in Nat
  BY <1>5, FS_CardinalityType
<1> QED BY <1>6 DEF Written, pieces

\* The connection begins somewhere, with nothing sent.
LEMMA InitStreamInv == Init => StreamInv
<1> SUFFICES ASSUME Init PROVE StreamInv
  OBVIOUS
<1>1. OneFile
  BY FirstFile DEF Init, OneFile
<1>2. sent = <<>> /\ offset \in Nat /\ begun = offset /\ handle = None
  BY DEF Init
<1>3. OffsetIsNext /\ SentIsContent
  BY <1>2 DEF OffsetIsNext, SentIsContent
<1> QED BY <1>1, <1>3 DEF StreamInv

\* Writing at the end changes nothing that was sent.
LEMMA PutKeeps ==
    ASSUME ofRun, StreamInv, Put, UNCHANGED <<ofRun, path, writing, stream>>
    PROVE  StreamInv'
<1> DEFINE c == content[1]
<1>1. OneFile /\ OffsetIsNext /\ SentIsContent /\ c \in Seq(Nat)
  BY FirstFile DEF StreamInv, OneFile
<1>2. content' = [content EXCEPT ![1] = Append(c, Written + 1)]
  BY <1>1 DEF Put, OneFile
<1>3. /\ content'[1] = Append(c, Written + 1) /\ content'[1] \in Seq(Nat)
      /\ \A f \in File \ {1} : content'[f] = content[f]
      /\ content' \in [File -> Seq(Nat)]
  BY <1>1, <1>2, FirstFile, WrittenIsNatural DEF OneFile
<1>4. Len(content'[1]) = Len(c) + 1 /\ \A i \in 1..Len(c) : content'[1][i] = c[i]
  BY <1>1, <1>3
<1>5. OneFile'
  BY <1>1, <1>3 DEF OneFile, stream
<1>6. OffsetIsNext'
  BY <1>1, <1>4 DEF OffsetIsNext, stream
<1>7. SentIsContent'
  <2>1. \A i \in 1..Len(sent) : begun + i \in 1..Len(c)
    BY <1>1 DEF OffsetIsNext
  <2> QED BY <1>1, <1>4, <2>1 DEF SentIsContent, stream
<1> QED BY <1>5, <1>6, <1>7 DEF StreamInv

\* A step that moves neither the log nor the offset, and opens nothing.
LEMMA OffsetKept ==
    ASSUME ofRun, StreamInv, UNCHANGED <<content, writing, offset, sent, begun>>,
           handle' \in {handle, None}, path' \in {path, None}
    PROVE  StreamInv'
BY DEF StreamInv, OneFile, OffsetIsNext, SentIsContent

\* Every step of a stream keeps its invariant.
LEMMA NextStreamInv == StreamInv /\ [Next]_vars => StreamInv'
<1> SUFFICES ASSUME StreamInv, [Next]_vars, ofRun' PROVE StreamInv'
  BY DEF StreamInv
<1>0. ofRun' = ofRun
  BY DEF Next, Grow, WriteFooter, Unregister, Remove, Rotate, Truncate, Serve, Open, Stat,
         Read, ReadEnd, AfterEnd, ReadFails, Disconnect, vars, file
<1>a. ofRun /\ OneFile /\ OffsetIsNext /\ SentIsContent
  BY <1>0 DEF StreamInv
<1>1. CASE Grow \/ WriteFooter
  BY <1>a, <1>1, PutKeeps DEF Grow, WriteFooter
<1>2. CASE Unregister \/ Remove \/ ReadEnd \/ AfterEnd \/ ReadFails \/ Disconnect
  BY <1>a, <1>2, OffsetKept DEF Unregister, Remove, ReadEnd, AfterEnd, ReadFails, Disconnect,
                                file, stream
<1>3. CASE Rotate \/ Truncate
  BY <1>a, <1>3 DEF Rotate, Truncate
<1>4. CASE Open
  <2>1. path = 1 /\ handle' = 1 /\ offset' = IF offset > Len(content[1]) THEN 0 ELSE offset
    BY <1>a, <1>4 DEF Open, OpenAt, OneFile
  <2>2. /\ begun' = IF sent = <<>> THEN offset' ELSE begun
        /\ UNCHANGED <<content, writing, path, sent>>
    BY <1>4 DEF Open, file
  <2>3. Len(content[1]) \in Nat
    BY <1>a, FirstFile DEF OneFile
  <2>4. OneFile'
    BY <1>a, <2>1, <2>2 DEF OneFile
  <2>5. CASE sent = <<>>
    BY <1>a, <2>1, <2>2, <2>3, <2>4, <2>5 DEF StreamInv, OffsetIsNext, SentIsContent
  <2>6. CASE sent # <<>>
    <3>1. offset' = offset /\ begun' = begun
      BY <1>a, <2>1, <2>2, <2>3, <2>6 DEF OffsetIsNext
    <3> QED BY <1>a, <2>2, <2>4, <2>6, <3>1 DEF StreamInv, OffsetIsNext, SentIsContent
  <2> QED BY <2>5, <2>6
<1>5. CASE Stat
  \* The path names the one file, and the log has not shrunk.
  <2>1. path = handle /\ handle = 1 /\ Len(content[1]) < offset
    BY <1>a, <1>5 DEF Stat, OneFile
  <2>2. Len(content[1]) \in Nat
    BY <1>a, FirstFile DEF OneFile
  <2> QED BY <1>a, <1>5, <2>1, <2>2 DEF Stat, OffsetIsNext
<1>6. CASE Read
  <2> DEFINE piece == content[1][offset + 1]
  <2>1. /\ handle = 1 /\ handle # None /\ offset < Len(content[1]) /\ offset' = offset + 1
        /\ sent' = Append(sent, piece)
        /\ UNCHANGED <<content, writing, path, handle, begun>>
    BY <1>a, <1>6 DEF Read, OneFile, file
  <2>2. content[1] \in Seq(Nat) /\ sent \in Seq(Nat) /\ begun \in Nat /\ offset = begun + Len(sent)
    BY <1>a, FirstFile DEF OneFile, OffsetIsNext
  <2>3. offset + 1 \in 1..Len(content[1]) /\ piece \in Nat
    BY <2>1, <2>2
  <2>4. /\ sent' \in Seq(Nat) /\ Len(sent') = Len(sent) + 1
        /\ \A i \in 1..Len(sent) : sent'[i] = sent[i]
        /\ sent'[Len(sent) + 1] = content[1][begun + (Len(sent) + 1)]
    BY <2>1, <2>2, <2>3
  <2>5. OneFile' /\ OffsetIsNext'
    BY <1>a, <2>1, <2>2, <2>3, <2>4 DEF OneFile, OffsetIsNext
  <2>6. SentIsContent'
    <3>1. ASSUME NEW i \in 1..Len(sent') PROVE sent'[i] = content[1][begun + i]
      <4>1. CASE i \in 1..Len(sent)
        BY <1>a, <2>4, <4>1 DEF SentIsContent
      <4>2. CASE i = Len(sent) + 1
        BY <2>4, <4>2
      <4> QED BY <2>2, <2>4, <4>1, <4>2
    <3> QED BY <2>1, <3>1 DEF SentIsContent
  <2> QED BY <2>5, <2>6 DEF StreamInv
<1>7. CASE UNCHANGED vars
  BY <1>a, <1>7, OffsetKept DEF vars, file, stream
<1> QED BY <1>1, <1>2, <1>3, <1>4, <1>5, <1>6, <1>7 DEF Next, Serve

\* streamFile: the client of a run's log, one file that is written at its end and
\* neither rotated nor truncated, gets every piece of it once and in order, from
\* where it began: for a log of any length, and however often reading fails and
\* the file is opened again, while it grows and also when it is deleted.
THEOREM StreamIsComplete == Spec => []NoGapNoRepeat
<1>1. StreamInv => NoGapNoRepeat
  <2> SUFFICES ASSUME StreamInv, ofRun
               PROVE  /\ sent # <<>> => begun + Len(sent) <= Len(content[1])
                      /\ sent = SubSeq(content[1], begun + 1, begun + Len(sent))
    BY DEF NoGapNoRepeat
  <2> DEFINE part == SubSeq(content[1], begun + 1, begun + Len(sent))
  <2>1. /\ content[1] \in Seq(Nat) /\ sent \in Seq(Nat) /\ begun \in Nat
        /\ sent # <<>> => begun + Len(sent) <= Len(content[1])
        /\ \A i \in 1..Len(sent) : sent[i] = content[1][begun + i]
    BY FirstFile DEF StreamInv, OneFile, OffsetIsNext, SentIsContent
  <2>2. CASE sent = <<>>
    <3>1. Len(sent) = 0 /\ begun + Len(sent) = begun
      BY <2>1, <2>2
    <3>2. part = <<>>
      BY <2>1, <3>1, SubSeqProperties
    <3> QED BY <2>2, <3>2
  <2>3. CASE sent # <<>>
    <3> DEFINE m == begun + 1
               n == begun + Len(sent)
    <3>1. /\ Len(sent) \in Nat /\ Len(sent) > 0 /\ m \in Int /\ n \in Int
          /\ m <= n /\ m >= 1 /\ n <= Len(content[1]) /\ n - m + 1 = Len(sent)
      BY <2>1, <2>3
    <3>2. /\ part \in Seq(Nat) /\ Len(part) = n - m + 1
          /\ \A i \in 1..n - m + 1 : part[i] = content[1][m + i - 1]
      <4> HIDE DEF m, n
      <4>1. \A i \in m..n : content[1][i] \in Nat
        <5>1. \A i \in m..n : i \in 1..Len(content[1])
          BY <3>1
        <5> QED BY <2>1, <5>1
      <4>2. /\ SubSeq(content[1], m, n) \in Seq(Nat) /\ Len(SubSeq(content[1], m, n)) = n - m + 1
            /\ \A i \in 1..n - m + 1 : SubSeq(content[1], m, n)[i] = content[1][m + i - 1]
        BY <3>1, <4>1, SubSeqProperties
      <4> QED BY <4>2 DEF m, n
    <3>3. \A i \in 1..Len(sent) : m + i - 1 = begun + i
      BY <2>1
    <3>4. \A i \in 1..Len(sent) : part[i] = sent[i]
      BY <2>1, <3>1, <3>2, <3>3
    <3>5. part = sent
      BY <2>1, <3>1, <3>2, <3>4, SeqEqual
    <3> QED BY <2>1, <2>3, <3>5
  <2> QED BY <2>2, <2>3
<1> QED BY <1>1, InitStreamInv, NextStreamInv, PTL DEF Spec

-------------------------------------------------------------------------------
(* The panel in the browser.                                               *)

\* The bytes of the log that the panel has taken.
Taken == IF kind = "task" THEN offsetRef ELSE received

\* Where that is in the log: between two lines, inside the character of a line,
\* which the decoder holds unless a cut went through it, or before a newline.
BetweenLines ==
  /\ Taken = 3 * Len(lines) /\ remainder = <<>>
  /\ ~pending /\ Len(lines) + 1 \notin torn

InCharacter ==
  /\ Taken = 3 * Len(lines) + 1 /\ remainder = <<>>
  /\ pending <=> Len(lines) + 1 \notin torn

BeforeNewline ==
  /\ Taken = 3 * Len(lines) + 2 /\ remainder = Line(Len(lines) + 1)
  /\ ~pending

\* The screen: each line in its place, the last as far as it was taken.
LinesInPlace ==
  /\ lines \in Seq(Seq(Nat)) /\ torn \in SUBSET (1 .. Len(lines) + 1)
  /\ \A i \in DOMAIN lines : lines[i] = Line(i)
  /\ BetweenLines \/ InCharacter \/ BeforeNewline

\* Where the server goes on, and what the live panel asks for, follows what was
\* taken.
OffsetFollows ==
  /\ at = "streaming" => position = Taken
  /\ kind = "live" /\ at \in {"connecting", "retrying"} => offsetRef = Taken

PanelInv ==
  /\ kind \in {"task", "live"} /\ pending \in BOOLEAN
  /\ exact => LinesInPlace /\ OffsetFollows

-------------------------------------------------------------------------------

\* An empty screen, at the start of the log.
LEMMA EmptyScreen ==
  ASSUME lines = <<>>, remainder = <<>>, torn = {}, ~pending, Taken = 0
  PROVE  LinesInPlace
BY DEF LinesInPlace, BetweenLines

\* Which of the three bytes of a line comes next.
LEMMA NextByte ==
  ASSUME NEW n \in Nat
  PROVE  /\ Begins(3 * n + 1)
         /\ ~Begins(3 * n + 2) /\ ~Newline(3 * n + 2) /\ LineOf(3 * n + 2) = n + 1
         /\ ~Begins(3 * n + 3) /\ Newline(3 * n + 3)
<1>1. (3 * n + 1) % 3 = 1 /\ (3 * n + 2) % 3 = 2 /\ (3 * n + 3) % 3 = 0
  OBVIOUS
<1>2. (3 * n + 2 + 2) \div 3 = n + 1
  OBVIOUS
<1> QED BY <1>1, <1>2 DEF Begins, Newline, LineOf

\* The next byte of the log extends what is shown by exactly itself, but for the
\* second byte of a character that a cut went through (the decoder and
\* splitLogChunk of log-utils.ts).
LEMMA NextByteExtends ==
  ASSUME LinesInPlace, Decode(Taken + 1), Taken' = Taken + 1
  PROVE  LinesInPlace' /\ pending' \in BOOLEAN
<1> DEFINE n == Len(lines)
<1>1. n \in Nat
  BY DEF LinesInPlace
<1>2. CASE BetweenLines
  <2>1. Taken + 1 = 3 * n + 1
    BY <1>1, <1>2 DEF BetweenLines
  <2>2. CharacterBegins
    BY <1>1, <2>1, NextByte DEF Decode
  <2>3. pending' = TRUE /\ remainder' = <<>> /\ UNCHANGED <<lines, torn>>
    BY <1>2, <2>2 DEF CharacterBegins, Flushed, BetweenLines
  <2>4. InCharacter'
    BY <1>2, <2>1, <2>3 DEF InCharacter, BetweenLines
  <2> QED BY <2>3, <2>4 DEF LinesInPlace, Line
<1>3. CASE InCharacter
  <2>1. Taken + 1 = 3 * n + 2
    BY <1>1, <1>3 DEF InCharacter
  <2>2. CharacterEnds(n + 1)
    BY <1>1, <2>1, NextByte DEF Decode
  <2>3. pending' = FALSE /\ remainder' = Line(n + 1) /\ UNCHANGED <<lines, torn>>
    BY <1>3, <2>2 DEF CharacterEnds, InCharacter, Line
  <2>4. BeforeNewline'
    BY <1>3, <2>1, <2>3 DEF BeforeNewline, InCharacter, Line
  <2> QED BY <2>3, <2>4 DEF LinesInPlace, Line
<1>4. CASE BeforeNewline
  <2>1. Taken + 1 = 3 * n + 3
    BY <1>1, <1>4 DEF BeforeNewline
  <2>2. LineEnds
    BY <1>1, <2>1, NextByte DEF Decode
  <2>3. remainder # <<>> /\ remainder = Line(n + 1) /\ remainder \in Seq(Nat)
    BY <1>1, <1>4 DEF BeforeNewline, Line, Garbled
  <2>4. pending' = FALSE /\ remainder' = <<>> /\ lines' = Append(lines, Line(n + 1)) /\ torn' = torn
    BY <1>4, <2>2, <2>3 DEF LineEnds, Flushed, BeforeNewline
  <2>5. /\ Len(lines') = n + 1 /\ lines' \in Seq(Seq(Nat))
        /\ \A i \in DOMAIN lines' : lines'[i] = Line(i)
    <3>1. Line(n + 1) \in Seq(Nat) /\ lines \in Seq(Seq(Nat))
      BY <2>3 DEF LinesInPlace
    <3>2. /\ lines' \in Seq(Seq(Nat)) /\ Len(lines') = n + 1
          /\ \A i \in 1 .. n : lines'[i] = lines[i]
          /\ lines'[n + 1] = Line(n + 1)
      BY <2>4, <3>1, AppendProperties
    <3>3. \A i \in 1 .. n : lines[i] = Line(i)
      BY <3>1 DEF LinesInPlace
    <3>4. ASSUME NEW i \in 1 .. n + 1 PROVE lines'[i] = Line(i)
      <4>1. CASE i = n + 1
        BY <3>2, <4>1
      <4>2. CASE i \in 1 .. n
        BY <3>2, <3>3, <4>2
      <4> QED BY <1>1, <4>1, <4>2
    <3> QED BY <3>2, <3>4
  <2>6. torn' \in SUBSET (1 .. n + 1) /\ n + 2 \notin torn'
    BY <1>1, <2>4 DEF LinesInPlace
  <2>7. BetweenLines'
    BY <1>1, <2>1, <2>4, <2>5, <2>6 DEF BetweenLines
  <2>8. torn' \in SUBSET (1 .. Len(lines') + 1)
    BY <1>1, <2>5, <2>6
  <2>9. \A i \in DOMAIN lines' : lines'[i] = Line(i)'
    <3>1. \A i \in DOMAIN lines' : Line(i)' = Line(i)
      BY <2>4 DEF Line
    <3> QED BY <2>5, <3>1
  <2> QED BY <2>4, <2>5, <2>7, <2>8, <2>9 DEF LinesInPlace, Line
<1> QED BY <1>2, <1>3, <1>4 DEF LinesInPlace

\* A new decoder: the first byte that the last one held is lost, and its line torn.
LEMMA NewDecoder ==
  ASSUME LinesInPlace, pending \in BOOLEAN,
         pending' = FALSE, torn' = (IF pending THEN torn \cup {Len(lines) + 1} ELSE torn),
         UNCHANGED <<lines, remainder>>, Taken' = Taken
  PROVE  LinesInPlace'
<1> DEFINE n == Len(lines)
<1>1. n \in Nat /\ n + 1 \in 1 .. n + 1 /\ DOMAIN lines = 1 .. n /\ n + 1 \notin 1 .. n
  BY DEF LinesInPlace
<1>2. torn' \in SUBSET (1 .. n + 1) /\ \A i \in 1 .. n : i \in torn' <=> i \in torn
  BY <1>1 DEF LinesInPlace
<1>3. \A i \in DOMAIN lines' : lines'[i] = Line(i)'
  BY <1>1, <1>2 DEF LinesInPlace, Line
<1>4. CASE pending
  <2>1. InCharacter
    BY <1>4 DEF LinesInPlace, BetweenLines, BeforeNewline
  <2>2. InCharacter'
    BY <1>1, <1>4, <2>1 DEF InCharacter
  <2> QED BY <1>2, <1>3, <2>2 DEF LinesInPlace
<1>5. CASE ~pending
  <2>1. UNCHANGED <<pending, lines, remainder, torn>>
    BY <1>5
  <2>2. (BetweenLines \/ InCharacter \/ BeforeNewline)'
    BY <2>1 DEF LinesInPlace, BetweenLines, InCharacter, BeforeNewline, Line
  <2> QED BY <1>2, <1>3, <2>2 DEF LinesInPlace
<1> QED BY <1>4, <1>5

\* The panel is opened.
LEMMA InitPanelInv == PanelInit => PanelInv
BY EmptyScreen DEF PanelInit, PanelInv, OffsetFollows, Taken

\* A step that leaves the screen and what was taken alone only has to ask where
\* the panel now is.
LEMMA ScreenKept ==
  ASSUME LinesInPlace, UNCHANGED shownVars, Taken' = Taken
  PROVE  LinesInPlace'
<1>1. UNCHANGED <<pending, lines, remainder, torn>>
  BY DEF shownVars
<1> QED BY <1>1 DEF LinesInPlace, BetweenLines, InCharacter, BeforeNewline, Line

\* Every step keeps the invariant.
LEMMA NextPanelInv == PanelInv /\ [PanelNext]_logPanelVars => PanelInv'
<1> SUFFICES ASSUME PanelInv, [PanelNext]_logPanelVars PROVE PanelInv'
  OBVIOUS
<1>1. CASE Write \/ End \/ ListPolled \/ UNCHANGED logPanelVars
  <2>1. UNCHANGED <<kind, at, position, shownVars, offsetRef, received, exact>> /\ UNCHANGED pending
    BY <1>1 DEF Write, End, ListPolled, logPanelVars, panelVars, shownVars
  <2>2. Taken' = Taken
    BY <2>1 DEF Taken
  <2> QED BY <2>1, <2>2, ScreenKept DEF PanelInv, OffsetFollows
<1>2. CASE Connected
  <2>1. /\ at = "connecting" /\ position' = StartAt
        /\ pending' = FALSE /\ torn' = IF pending THEN torn \cup {Len(lines) + 1} ELSE torn
        /\ UNCHANGED <<kind, remainder, lines, offsetRef, received>>
    BY <1>2 DEF Connected
  <2>2. exact' => exact /\ StartAt = offsetRef
    BY <1>2 DEF Connected
  <2>3. Taken' = Taken
    BY <2>1 DEF Taken
  <2>4. exact' => LinesInPlace'
    BY <2>1, <2>2, <2>3, NewDecoder DEF PanelInv
  <2>5. exact' => OffsetFollows'
    BY <2>1, <2>2, <2>3 DEF PanelInv, OffsetFollows, Taken
  <2> QED BY <2>1, <2>4, <2>5 DEF PanelInv
<1>3. CASE Receive
  <2>1. /\ at = "streaming" /\ position' = position + 1
        /\ Decode(position + 1) /\ Count /\ UNCHANGED <<kind, at, exact>>
    BY <1>3 DEF Receive
  <2>2. Taken' = Taken + 1
    BY <2>1 DEF Count, Taken, PanelInv
  <2>3. pending' \in BOOLEAN
    BY <2>1 DEF Decode, CharacterBegins, CharacterEnds, LineEnds
  <2>4. exact => LinesInPlace'
    BY <2>1, <2>2, NextByteExtends DEF PanelInv, OffsetFollows
  <2>5. exact => OffsetFollows'
    BY <2>1, <2>2 DEF PanelInv, OffsetFollows
  <2> QED BY <2>1, <2>3, <2>4, <2>5 DEF PanelInv
<1>4. CASE Heartbeat
  BY <1>4 DEF Heartbeat, LineEnds, PanelInv
<1>5. CASE Done \/ Cut
  <2>1. at = "streaming" /\ StreamOver /\ UNCHANGED <<kind, shownVars, received>> /\ UNCHANGED pending
    BY <1>5 DEF Done, Cut, StreamOver, shownVars
  <2>2. CASE kind = "task"
    <3>1. TaskStreamEnds
      BY <2>1, <2>2 DEF StreamOver
    <3>2. UNCHANGED <<offsetRef, exact>> /\ at' # "streaming"
      BY <3>1 DEF TaskStreamEnds
    <3>3. Taken' = Taken
      BY <2>1, <3>2 DEF Taken
    <3> QED BY <2>1, <2>2, <3>2, <3>3, ScreenKept DEF PanelInv, OffsetFollows
  <2>3. CASE kind = "live"
    <3>1. LiveStreamEnds
      BY <2>1, <2>3 DEF StreamOver
    <3>2. Taken' = Taken /\ Taken = received
      BY <2>1, <2>3 DEF Taken
    <3>3. exact' => exact /\ remainder = <<>>
      BY <3>1 DEF LiveStreamEnds
    <3>4. remainder = <<>> => Encoded = 0
      <4>1. remainder = <<>> => {i \in DOMAIN remainder : remainder[i] = Garbled} = {}
        OBVIOUS
      <4> QED BY <4>1, FS_EmptySet DEF Encoded
    <3>5. LinesInPlace => Taken \in Nat
      BY DEF LinesInPlace, BetweenLines, InCharacter, BeforeNewline
    <3>6. exact' => offsetRef' = Taken
      BY <3>1, <3>2, <3>3, <3>4, <3>5 DEF LiveStreamEnds, PanelInv
    <3>7. at' = "retrying"
      BY <3>1 DEF LiveStreamEnds
    <3> QED BY <2>1, <3>2, <3>3, <3>6, <3>7, ScreenKept DEF PanelInv, OffsetFollows
  <2> QED BY <2>2, <2>3 DEF PanelInv
<1>6. CASE Fail
  <2>1. /\ exact' => exact /\ (kind = "live" => offsetRef = received)
        /\ at' \in {"error", "retrying"}
        /\ UNCHANGED <<kind, shownVars, offsetRef, received>> /\ UNCHANGED pending
    BY <1>6 DEF Fail, AfterError, shownVars
  <2>2. Taken' = Taken /\ (kind = "live" => Taken = received)
    BY <2>1 DEF Taken
  <2> QED BY <2>1, <2>2, ScreenKept DEF PanelInv, OffsetFollows
<1>7. CASE Retry \/ Close
  <2>1. /\ at' # "streaming"
        /\ at' \in {"connecting", "retrying"} => at \in {"connecting", "retrying"}
        /\ UNCHANGED <<kind, shownVars, offsetRef, received, exact>> /\ UNCHANGED pending
    BY <1>7 DEF Retry, Close, shownVars
  <2>2. Taken' = Taken
    BY <2>1 DEF Taken
  <2> QED BY <2>1, <2>2, ScreenKept DEF PanelInv, OffsetFollows
<1>8. CASE Reconnect
  <2>1. /\ at' = "connecting" /\ kind' = kind
        /\ pending' = FALSE /\ remainder' = <<>> /\ torn' = {} /\ received' = 0
        /\ exact' => lines' = <<>> /\ offsetRef' = 0
    BY <1>8 DEF Reconnect
  <2>2. exact' => Taken' = 0
    BY <2>1 DEF Taken
  <2>3. exact' => LinesInPlace'
    BY <2>1, <2>2 DEF LinesInPlace, BetweenLines
  <2> QED BY <2>1, <2>2, <2>3 DEF PanelInv, OffsetFollows
<1> QED BY <1>1, <1>2, <1>3, <1>4, <1>5, <1>6, <1>7, <1>8 DEF PanelNext

(***************************************************************************)
(* After any number of cuts the panel has each line of the log once and in *)
(* order, garbled where a cut went through a character and whole otherwise *)
(* (task-log-panel.tsx:177-188, live-log-panel.tsx:220-244): for a log of  *)
(* any length, as long as its first connection began at the start of it.   *)
(***************************************************************************)
THEOREM PanelResumesExactly == PanelSpec => []ResumesExactly
<1>1. PanelInv => ResumesExactly
  BY DEF PanelInv, LinesInPlace, BetweenLines, InCharacter, BeforeNewline, ResumesExactly
<1> QED BY <1>1, InitPanelInv, NextPanelInv, PTL DEF PanelSpec
===============================================================================
