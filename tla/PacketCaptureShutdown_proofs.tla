--------------------- MODULE PacketCaptureShutdown_proofs ---------------------
(***************************************************************************)
(* Proofs about PacketCaptureShutdown, for any number of packets and of    *)
(* key log lines: a stop that returned and an announced end find every     *)
(* packet on disk and in its place, although the deferred flush takes no   *)
(* lock against the key log's watcher, and the secrets blocks hold the key *)
(* log in order.                                                           *)
(***************************************************************************)
EXTENDS PacketCaptureShutdown, SequenceTheorems, TLAPS

-----------------------------------------------------------------------------
(* The inductive invariant.                                                 *)

\* The correlation buffer holds whole packets.
HeldWhole == \E n \in Nat : held = n * Block

\* The file could not be opened, or is not open yet: nobody can wait for it.
NeverOpened ==
  /\ collector \in {"open", "announce", "closeDone", "returned"}
  /\ ~completed /\ ~writer /\ ~stop /\ ~captureEnded /\ watcher = "off"
  /\ main \notin {"waiting", "stopped"} /\ handler \notin {"waiting", "stopped"}
  /\ held = 0 /\ buffered = 0 /\ start = 0 /\ disk = 0 /\ received = 0 /\ secrets = <<>>
  /\ stray = FALSE /\ failed = FALSE

\* What was given to NgWriter, and what of it belongs to a block not complete yet.
InFile == buffered + start

Given == IF Locked THEN Block - left ELSE 0

BeforeFlush == {"setWriter", "setStop", "embed", "listen", "receive", "closeBuffer",
                "clearWriter", "flush"}

Flushing == {"writeOut", "reset"}

AfterFlush == {"closeFile", "announce", "deleteDaemonSet", "closeDone", "returned"}

AfterClose == {"clearWriter", "flush"} \cup Flushing \cup AfterFlush

\* Nothing is lost between the channel and bufio.
Balanced == held + InFile = (1 + received + Len(secrets)) * Block + Given

\* Up to the deferred Flush ngwMu does serialize the writes: the file is what was given
\* without what is buffered, which a flush has written out before it resets the buffer.
InOrder ==
  /\ disk = IF watcher = "reset" THEN InFile ELSE start
  /\ watcher \in {"flush", "reset"} => taken = buffered
  /\ stray = FALSE /\ failed = FALSE

\* Neither flush has written, and whichever comes first writes all there was.
Ahead ==
  /\ collector = "writeOut" /\ stray = FALSE /\ disk = start
  /\ 0 < out /\ out <= buffered /\ start + out >= Captured
  /\ watcher # "reset" /\ (watcher = "flush" => taken >= out)

\* The flush met no other write.
Alone ==
  /\ stray = FALSE /\ buffered = out /\ start + out = Captured
  /\ disk = IF collector = "reset" THEN Captured ELSE start

Overlapping ==
  /\ held = 0 /\ flushed <= Len(secrets)
  /\ disk >= Captured \/ Ahead
  /\ Undisturbed => Alone

FilesInv ==
  /\ collector = "open" => NeverOpened
  /\ collector \in BeforeFlush => Balanced /\ InOrder
  /\ collector \in {"clearWriter", "flush"} => held = 0
  /\ collector \in Flushing => Overlapping
  /\ collector \in AfterFlush => NeverOpened \/ (FileComplete /\ flushed <= Len(secrets))

\* Who has announced or waited for what.
SignalsInv ==
  /\ stop => collector \in {"embed", "listen", "receive", "closeBuffer", "clearWriter"}
  /\ writer => collector \in {"setStop", "embed", "listen", "receive", "closeBuffer", "clearWriter"}
  /\ completed => collector \in AfterClose \cup {"closeBuffer"}
  /\ captureEnded => collector \in {"deleteDaemonSet", "closeDone", "returned"}
  /\ doneClosed => collector = "returned"
  /\ watcher = "cut" => collector \in AfterFlush \ {"closeFile"}
  /\ main = "stopped" \/ handler = "stopped" => doneClosed

BeforeEmbed == {"open", "setWriter", "setStop", "embed"}

\* The watcher goes on after the last line that is in a block.
SecretsInv ==
  /\ SecretsInOrder
  /\ keylogOffset = LastLine(Len(secrets))
  /\ keylogOffset + Len(unwritten) <= logged
  /\ \A i \in DOMAIN unwritten : unwritten[i] = keylogOffset + i
  /\ collector \in BeforeEmbed => secrets = <<>> /\ unwritten = <<>> /\ watcher = "off"
  /\ Locked => unwritten # <<>>

ShutdownInv == TypeOK /\ HeldWhole /\ FilesInv /\ SignalsInv /\ SecretsInv

-----------------------------------------------------------------------------
(* What the file's writer does.                                             *)

LEMMA NgWriteMoves ==
  ASSUME buffered \in Nat, start \in Nat, disk = start, NEW halves \in Nat, NgWrite(halves)
  PROVE  /\ buffered' \in Nat /\ start' \in Nat /\ disk' = start'
         /\ InFile' = InFile + halves
<1>1. PICK kept \in 0..halves \cup {buffered + halves} :
        /\ buffered' = kept
        /\ start' = start + (buffered + halves - kept)
        /\ disk' = disk + (buffered + halves - kept)
  BY DEF NgWrite
<1>2. kept \in Nat /\ kept <= buffered + halves
  BY <1>1
<1> QED
  BY <1>1, <1>2 DEF InFile

LEMMA NgFlushMoves ==
  ASSUME buffered \in Nat, start \in Nat, disk = start, NgFlush
  PROVE  /\ buffered' = 0 /\ start' \in Nat /\ disk' = start'
         /\ InFile' = InFile
BY DEF NgFlush, InFile

\* What a write to the file does: in its place, it goes on with what follows there.
LEMMA ToFileMoves ==
  ASSUME start \in Nat, disk \in Nat, stray \in BOOLEAN,
         NEW halves \in Nat, NEW inOrder \in Nat, ToFile(halves, inOrder)
  PROVE  /\ disk' \in Nat /\ disk' >= disk /\ stray' \in BOOLEAN
         /\ stray = FALSE /\ disk = start =>
               /\ disk' = disk + inOrder
               /\ halves <= inOrder => stray' = FALSE
<1>1. CASE stray \/ start # disk
  <2>1. stray' = TRUE /\ disk' = disk
    BY <1>1 DEF ToFile
  <2>2. ~(stray = FALSE /\ disk = start)
    BY <1>1
  <2>3. disk' \in Nat /\ disk' >= disk /\ stray' \in BOOLEAN
    BY <2>1
  <2> QED
    BY <2>2, <2>3
<1>2. CASE ~(stray \/ start # disk)
  <2>1. disk' = disk + inOrder /\ stray' = (halves > inOrder)
    BY <1>2 DEF ToFile
  <2> QED
    BY <2>1
<1> QED
  BY <1>1, <1>2

LEMMA WriteOutMoves ==
  ASSUME buffered \in Nat, start \in Nat, disk \in Nat, stray \in BOOLEAN,
         NEW n \in Nat, WriteOut(n)
  PROVE  /\ disk' \in Nat /\ disk' >= disk /\ stray' \in BOOLEAN
         /\ stray = FALSE /\ disk = start =>
               /\ n <= buffered => disk' = disk + n /\ stray' = FALSE
               /\ buffered <= n => disk' = disk + buffered
<1> DEFINE k == IF n <= buffered THEN n ELSE buffered
<1>1. k \in Nat /\ ToFile(n, k)
  BY DEF WriteOut
<1>2. (n <= buffered => k = n) /\ (buffered <= n => k = buffered)
  OBVIOUS
<1> HIDE DEF k
<1>3. /\ disk' \in Nat /\ disk' >= disk /\ stray' \in BOOLEAN
      /\ stray = FALSE /\ disk = start => disk' = disk + k /\ (n <= k => stray' = FALSE)
  BY <1>1, ToFileMoves
<1> QED
  BY <1>1, <1>2, <1>3

\* The lines from one offset of the key log to another.
LEMMA LinesType ==
  ASSUME NEW m \in Nat, NEW n \in Nat, m + n <= MaxSecrets
  PROVE  LET lines == [i \in 1..n |-> m + i]
         IN  /\ lines \in Seq(1..MaxSecrets) /\ Len(lines) = n /\ DOMAIN lines = 1..n
             /\ lines = <<>> <=> n = 0
<1> DEFINE lines == [i \in 1..n |-> m + i]
<1>1. \A i \in 1..n : lines[i] \in 1..MaxSecrets
  BY ShutdownAssumption
<1>2. lines \in Seq(1..MaxSecrets) /\ DOMAIN lines = 1..n
  BY <1>1
<1>3. Len(lines) = n
  BY <1>2, LenProperties
<1> HIDE DEF lines
<1>4. lines = <<>> <=> n = 0
  BY <1>2, <1>3, EmptySeq
<1> QED
  BY <1>2, <1>3, <1>4 DEF lines

-----------------------------------------------------------------------------
(* Types.                                                                   *)

ControlTypes ==
  /\ process \in {"alive", "sigterm", "main"}
  /\ main \in {"boot", "created", "ui", "left", "waiting", "stopped", "unstopped"}
  /\ handler \in {"idle", "signalled", "waiting", "stopped", "flushing", "flushed"}
  /\ collector \in {"open", "setWriter", "setStop", "embed", "listen", "receive",
                    "closeBuffer", "clearWriter", "flush", "writeOut", "reset", "closeFile",
                    "announce", "deleteDaemonSet", "closeDone", "returned"}
  /\ watcher \in {"off", "idle", "write", "flush", "reset", "cut"}
  /\ {isBackground, correlate, completed, writer, stop, ctxDone, doneClosed, captureEnded,
      daemonSet, keylog} \subseteq BOOLEAN

CountTypes ==
  /\ received \in Nat /\ held \in Nat /\ buffered \in Nat /\ start \in Nat /\ disk \in Nat
  /\ out \in Nat /\ taken \in Nat /\ left \in 0..Block
  /\ stray \in BOOLEAN /\ failed \in BOOLEAN

LogTypes ==
  /\ {logged, keylogOffset} \subseteq 0..MaxSecrets
  /\ flushed \in Nat /\ unwritten \in Seq(1..MaxSecrets) /\ secrets \in Seq(Seq(1..MaxSecrets))

LEMMA TypeParts == TypeOK <=> ControlTypes /\ CountTypes /\ LogTypes
BY DEF TypeOK, ControlTypes, CountTypes, LogTypes

LEMMA ControlStep ==
  ASSUME ControlTypes, [Next]_vars
  PROVE  ControlTypes'
<1> USE DEF ControlTypes, Continue, At, flags, tls, apart, registry, signals, goroutines
<1>1. CASE CollectorOwn
  <2>1. CASE OpenOutput \/ OpenFails \/ SetActivePacketWriter \/ SetActivePacketStop
    BY <2>1 DEF OpenOutput, OpenFails, SetActivePacketWriter, SetActivePacketStop
  <2>2. CASE EmbedTLSKeylog \/ StartCollector \/ DeadlineReached \/ ContextDone
    BY <2>2 DEF EmbedTLSKeylog, StartCollector, DeadlineReached, ContextDone
  <2>3. CASE CloseBuffer \/ ClearActivePacketWriter \/ CloseFile
    BY <2>3 DEF CloseBuffer, ClearActivePacketWriter, CloseFile
  <2>0. CASE FlushFile \/ FlushWriteOut \/ FlushReset
    BY <2>0 DEF FlushFile, FlushWriteOut, FlushReset
  <2>4. CASE Announce \/ DeleteDaemonSet \/ CloseDone
    BY <2>4 DEF Announce, DeleteDaemonSet, CloseDone
  <2> QED
    BY <1>1, <2>0, <2>1, <2>2, <2>3, <2>4 DEF CollectorOwn
<1>2. CASE ReceivePacket \/ FlushExpired
  BY <1>2 DEF ReceivePacket, FlushExpired
<1>3. CASE MainNext
  BY <1>3 DEF MainNext, MainStep, CreateFlowDisplay, RunApplication, PressCtrlC, StopFromUI,
              StopFromUIReturns, MainReturns
<1>4. CASE HandlerNext
  BY <1>4 DEF HandlerNext, HandlerStep, Sigterm, StopFromHandler, StopFromHandlerReturns,
              FlushActivePacketWriter, Exit
<1>5. CASE Keylog
  BY <1>5 DEF Keylog, WriteBlock, LogSecret, WatcherStep, ReadSecrets, BeginBlock, GiveHalf,
              FillAndFlush, WatcherWriteOut, WatcherReset, WriteSecrets, GiveUp
<1>6. CASE UNCHANGED vars
  BY <1>6 DEF vars
<1> QED
  BY <1>1, <1>2, <1>3, <1>4, <1>5, <1>6 DEF Next

-----------------------------------------------------------------------------
(* Who stops, announces and waits.                                          *)

LEMMA SignalsStep ==
  ASSUME ControlTypes, SignalsInv, [Next]_vars
  PROVE  SignalsInv'
<1> USE DEF SignalsInv, AfterClose, AfterFlush, Flushing, Continue, At, flags, tls, apart, registry, signals, goroutines
<1>1. CASE CollectorOwn
  <2>1. CASE OpenOutput \/ OpenFails \/ SetActivePacketWriter \/ SetActivePacketStop
    BY <2>1 DEF OpenOutput, OpenFails, SetActivePacketWriter, SetActivePacketStop
  <2>2. CASE EmbedTLSKeylog \/ StartCollector \/ DeadlineReached \/ ContextDone
    BY <2>2 DEF EmbedTLSKeylog, StartCollector, DeadlineReached, ContextDone
  <2>3. CASE CloseBuffer \/ ClearActivePacketWriter \/ CloseFile
    BY <2>3 DEF CloseBuffer, ClearActivePacketWriter, CloseFile
  <2>0. CASE FlushFile \/ FlushWriteOut \/ FlushReset
    BY <2>0 DEF FlushFile, FlushWriteOut, FlushReset
  <2>4. CASE Announce
    <3>1. CASE completed
      BY <2>4, <3>1 DEF Announce
    <3>2. CASE ~completed
      BY <2>4, <3>2 DEF Announce
    <3> QED
      BY <3>1, <3>2
  <2>5. CASE DeleteDaemonSet
    BY <2>5 DEF DeleteDaemonSet
  <2>6. CASE CloseDone
    BY <2>6 DEF CloseDone
  <2> QED
    BY <1>1, <2>0, <2>1, <2>2, <2>3, <2>4, <2>5, <2>6 DEF CollectorOwn
<1>2. CASE ReceivePacket \/ FlushExpired
  BY <1>2 DEF ReceivePacket, FlushExpired
<1>3. CASE MainNext
  BY <1>3 DEF MainNext, MainStep, CreateFlowDisplay, RunApplication, PressCtrlC, StopFromUI,
              StopFromUIReturns, MainReturns
<1>4. CASE HandlerNext
  BY <1>4 DEF HandlerNext, HandlerStep, Sigterm, StopFromHandler, StopFromHandlerReturns,
              FlushActivePacketWriter, Exit
<1>5. CASE Keylog
  BY <1>5 DEF Keylog, WriteBlock, LogSecret, WatcherStep, ReadSecrets, BeginBlock, GiveHalf,
              FillAndFlush, WatcherWriteOut, WatcherReset, WriteSecrets, GiveUp
<1>6. CASE UNCHANGED vars
  BY <1>6 DEF vars
<1> QED
  BY <1>1, <1>2, <1>3, <1>4, <1>5, <1>6 DEF Next

-----------------------------------------------------------------------------
(* The key log.                                                             *)

LEMMA LogFacts ==
  ASSUME LogTypes, SecretsInv
  PROVE  /\ logged \in Nat /\ keylogOffset \in Nat /\ logged <= MaxSecrets /\ MaxSecrets \in Nat
         /\ secrets \in Seq(Seq(1..MaxSecrets)) /\ Len(secrets) \in Nat
         /\ DOMAIN secrets = 1..Len(secrets)
         /\ unwritten \in Seq(1..MaxSecrets) /\ Len(unwritten) \in Nat
         /\ DOMAIN unwritten = 1..Len(unwritten)
         /\ unwritten = <<>> <=> Len(unwritten) = 0
         /\ keylogOffset + Len(unwritten) <= logged
BY ShutdownAssumption, LenProperties, EmptySeq DEF LogTypes, SecretsInv

\* A block with the lines that follow the last one embedded.
LEMMA BlockAppended ==
  ASSUME LogTypes, SecretsInOrder, keylogOffset = LastLine(Len(secrets)),
         NEW lines \in Seq(1..MaxSecrets), lines # <<>>,
         \A i \in DOMAIN lines : lines[i] = keylogOffset + i,
         keylogOffset + Len(lines) <= logged,
         secrets' = Append(secrets, lines), logged' = logged
  PROVE  /\ SecretsInOrder' /\ secrets' \in Seq(Seq(1..MaxSecrets))
         /\ (LastLine(Len(secrets)))' = keylogOffset + Len(lines)
<1> DEFINE n == Len(secrets)
           t == Append(secrets, lines)
           last(s, b) == IF b = 0 THEN 0 ELSE s[b][Len(s[b])]
<1>1. /\ n \in Nat /\ DOMAIN secrets = 1..n
      /\ t \in Seq(Seq(1..MaxSecrets)) /\ Len(t) = n + 1 /\ DOMAIN t = 1..(n + 1)
      /\ \A b \in 1..n : t[b] = secrets[b]
      /\ t[n + 1] = lines
  BY LenProperties, AppendProperties DEF LogTypes
<1>2. Len(lines) \in Nat /\ Len(lines) # 0 /\ DOMAIN lines = 1..Len(lines)
  BY LenProperties, EmptySeq
<1>3. lines[Len(lines)] = keylogOffset + Len(lines)
  BY <1>2
<1>4. \A b : LastLine(b) = last(secrets, b)
  BY DEF LastLine
<1> HIDE DEF n, t
<1>5. \A b \in 0..n : last(t, b) = last(secrets, b)
  BY <1>1
<1> HIDE DEF last
<1>6. last(t, n + 1) = keylogOffset + Len(lines)
  BY <1>1, <1>3 DEF last
<1>7. last(secrets, n) = keylogOffset
  BY <1>4 DEF n
<1>8. ASSUME NEW b \in 1..(n + 1)
      PROVE  /\ t[b] # <<>>
             /\ \A i \in DOMAIN t[b] : t[b][i] = last(t, b - 1) + i
             /\ last(t, b) <= logged
  <2>1. CASE b \in 1..n
    <3>1. b - 1 \in 0..n /\ b \in 0..n
      BY <1>1, <2>1
    <3>2. t[b] = secrets[b] /\ last(t, b) = last(secrets, b) /\ last(t, b - 1) = last(secrets, b - 1)
      BY <1>1, <1>5, <2>1, <3>1
    <3>3. /\ secrets[b] # <<>>
          /\ \A i \in DOMAIN secrets[b] : secrets[b][i] = last(secrets, b - 1) + i
          /\ last(secrets, b) <= logged
      BY <1>1, <1>4, <2>1 DEF SecretsInOrder
    <3> QED
      BY <3>2, <3>3
  <2>2. CASE b = n + 1
    <3>1. b - 1 = n /\ n \in 0..n
      BY <1>1, <2>2
    <3>2. last(t, b - 1) = keylogOffset
      BY <1>5, <1>7, <3>1
    <3> QED
      BY <1>1, <1>6, <2>2, <3>2
  <2> QED
    BY <1>1, <2>1, <2>2
<1>9. secrets' = t
  BY DEF t
<1>10. \A b : (LastLine(b))' = last(t, b)
  BY <1>9 DEF LastLine, last
<1>11. SecretsInOrder'
  BY <1>1, <1>8, <1>9, <1>10 DEF SecretsInOrder
<1>12. (LastLine(Len(secrets)))' = keylogOffset + Len(lines)
  BY <1>1, <1>6, <1>9 DEF LastLine, last
<1> QED
  BY <1>1, <1>9, <1>11, <1>12

LEMMA LastLineType ==
  ASSUME LogTypes, SecretsInOrder, NEW b \in DOMAIN secrets
  PROVE  LastLine(b) \in Nat
<1>1. secrets \in Seq(Seq(1..MaxSecrets)) /\ b \in 1..Len(secrets) /\ Len(secrets) \in Nat
  BY LenProperties DEF LogTypes
<1>2. secrets[b] \in Seq(1..MaxSecrets) /\ secrets[b] # <<>>
  BY <1>1, ElementOfSeq DEF SecretsInOrder
<1>3. Len(secrets[b]) \in 1..Len(secrets[b])
  BY <1>2, LenProperties, EmptySeq
<1>4. secrets[b][Len(secrets[b])] \in 1..MaxSecrets
  BY <1>2, <1>3, ElementOfSeq
<1> QED
  BY <1>1, <1>4 DEF LastLine

\* The steps of everything but the key log, its first embedding and its watcher.
LEMMA SecretsKept ==
  ASSUME LogTypes, SecretsInv,
         UNCHANGED <<logged, keylogOffset, unwritten, secrets>>, flushed' \in Nat,
         collector' \in BeforeEmbed => collector \in BeforeEmbed, watcher = "off" => watcher' = "off",
         Locked' => Locked \/ unwritten # <<>>
  PROVE  LogTypes' /\ SecretsInv'
<1>1. LogTypes'
  BY DEF LogTypes
<1>2. SecretsInOrder' /\ (LastLine(Len(secrets)))' = LastLine(Len(secrets))
  BY DEF SecretsInOrder, LastLine, SecretsInv
<1> QED
  BY <1>1, <1>2 DEF SecretsInv

LEMMA SecretsStep ==
  ASSUME TypeOK, SecretsInv, [Next]_vars
  PROVE  LogTypes' /\ SecretsInv'
<1> USE TypeParts, LogFacts
<1> DEFINE Kept == /\ UNCHANGED <<logged, keylogOffset, unwritten, secrets>> /\ flushed' \in Nat
                   /\ collector' \in BeforeEmbed => collector \in BeforeEmbed
                   /\ watcher = "off" => watcher' = "off"
                   /\ Locked' => Locked \/ unwritten # <<>>
<1>1. LogTypes /\ flushed \in Nat /\ Len(secrets) \in Nat
  BY DEF LogTypes
<1>2. ASSUME Kept PROVE LogTypes' /\ SecretsInv'
  BY <1>1, <1>2, SecretsKept
<1>3. CASE CollectorOwn /\ ~EmbedTLSKeylog
  <2> USE <1>1 DEF BeforeEmbed, Continue, At, flags, tls, apart, registry, signals, goroutines
  <2>1. CASE OpenOutput \/ OpenFails \/ SetActivePacketWriter \/ SetActivePacketStop
    <3>1. Kept
      BY <2>1 DEF OpenOutput, OpenFails, SetActivePacketWriter, SetActivePacketStop, Locked
    <3> QED
      BY <1>2, <3>1
  <2>2. CASE StartCollector \/ DeadlineReached \/ ContextDone
    <3>1. Kept
      BY <2>2 DEF StartCollector, DeadlineReached, ContextDone, Locked
    <3> QED
      BY <1>2, <3>1
  <2>3. CASE CloseBuffer \/ ClearActivePacketWriter \/ CloseFile
    <3>1. Kept
      BY <2>3 DEF CloseBuffer, ClearActivePacketWriter, CloseFile, Locked
    <3> QED
      BY <1>2, <3>1
  <2>5. CASE FlushFile \/ FlushWriteOut \/ FlushReset
    <3>1. Kept
      BY <2>5 DEF FlushFile, FlushWriteOut, FlushReset, Locked
    <3> QED
      BY <1>2, <3>1
  <2>4. CASE Announce \/ DeleteDaemonSet \/ CloseDone
    <3>1. collector \notin BeforeEmbed /\ collector' \notin BeforeEmbed
      BY <2>4 DEF Announce, DeleteDaemonSet, CloseDone
    <3>2. UNCHANGED tls
      BY <2>4 DEF Announce, DeleteDaemonSet, CloseDone
    <3>3. Kept
      BY <3>1, <3>2 DEF Locked
    <3> QED
      BY <1>2, <3>3
  <2> QED
    BY <1>3, <2>1, <2>2, <2>3, <2>4, <2>5 DEF CollectorOwn
<1>4. CASE ReceivePacket \/ FlushExpired
  <2>1. UNCHANGED tls
    BY <1>4 DEF ReceivePacket, FlushExpired, apart
  <2>2. collector' \notin BeforeEmbed
    BY <1>4 DEF ReceivePacket, FlushExpired, Continue, BeforeEmbed, goroutines
  <2>3. Kept
    BY <1>1, <2>1, <2>2 DEF tls, Locked
  <2> QED
    BY <1>2, <2>3
<1>5. CASE MainNext
  <2>1. Kept
    BY <1>1, <1>5 DEF MainNext, MainStep, CreateFlowDisplay, RunApplication, PressCtrlC,
       StopFromUI, StopFromUIReturns, MainReturns, apart, flags, tls, goroutines, Locked
  <2> QED
    BY <1>2, <2>1
<1>6. CASE HandlerNext
  <2>1. Kept
    BY <1>1, <1>6 DEF HandlerNext, HandlerStep, Sigterm, StopFromHandler,
       StopFromHandlerReturns, FlushActivePacketWriter, Exit, apart, flags, tls, goroutines,
       Locked
  <2> QED
    BY <1>2, <2>1
<1>7. CASE UNCHANGED vars
  <2>1. Kept
    BY <1>1, <1>7 DEF vars, tls, goroutines, Locked
  <2> QED
    BY <1>2, <2>1
<1>13. CASE BeginBlock \/ GiveHalf \/ FillAndFlush \/ WatcherWriteOut \/ WatcherReset
  <2>1. Kept
    BY <1>1, <1>13 DEF BeginBlock, GiveHalf, FillAndFlush, WatcherWriteOut, WatcherReset,
       WatcherStep, goroutines, Locked
  <2> QED
    BY <1>2, <2>1
<1> HIDE DEF Kept
<1>8. ASSUME NEW lines \in Seq(1..MaxSecrets),
             secrets' = IF lines = <<>> THEN secrets ELSE Append(secrets, lines),
             \A i \in DOMAIN lines : lines[i] = keylogOffset + i,
             keylogOffset + Len(lines) <= logged, UNCHANGED <<logged, flushed>>,
             keylogOffset' = keylogOffset + Len(lines), unwritten' = <<>>,
             collector' \notin BeforeEmbed, ~Locked'
      PROVE  LogTypes' /\ SecretsInv'
  <2>1. Len(lines) \in Nat /\ (lines = <<>> <=> Len(lines) = 0)
    BY LenProperties, EmptySeq
  <2>2. unwritten' \in Seq(1..MaxSecrets) /\ Len(unwritten') = 0 /\ DOMAIN unwritten' = {}
    BY <1>8, EmptySeq
  <2>3. SecretsInOrder /\ keylogOffset = LastLine(Len(secrets))
    BY DEF SecretsInv
  <2>4. /\ secrets' \in Seq(Seq(1..MaxSecrets)) /\ SecretsInOrder'
        /\ keylogOffset' = (LastLine(Len(secrets)))'
    <3>1. CASE lines = <<>>
      <4>1. UNCHANGED <<secrets, logged, keylogOffset>>
        BY <1>1, <1>8, <2>1, <3>1
      <4> QED
        BY <1>1, <2>3, <4>1 DEF SecretsInOrder, LastLine
    <3>2. CASE lines # <<>>
      <4>1. secrets' = Append(secrets, lines)
        BY <1>8, <3>2
      <4> QED
        BY <1>1, <1>8, <2>3, <3>2, <4>1, BlockAppended
    <3> QED
      BY <3>1, <3>2
  <2>5. keylogOffset' \in 0..MaxSecrets /\ keylogOffset' + Len(unwritten') <= logged'
    BY <1>1, <1>8, <2>1, <2>2
  <2>6. LogTypes'
    BY <1>8, <2>2, <2>4, <2>5 DEF LogTypes
  <2> QED
    BY <1>8, <2>2, <2>4, <2>5, <2>6 DEF SecretsInv
<1>9. CASE EmbedTLSKeylog
  <2>1. PICK there \in BOOLEAN :
          LET lines == IF there THEN [i \in 1..logged |-> i] ELSE <<>>
          IN  /\ keylogOffset' = Len(lines)
              /\ secrets' = IF lines = <<>> THEN secrets ELSE Append(secrets, lines)
    BY <1>9 DEF EmbedTLSKeylog
  <2> DEFINE lines == IF there THEN [i \in 1..logged |-> i] ELSE <<>>
  <2>2. /\ collector = "embed" /\ collector' = "listen"
        /\ UNCHANGED <<logged, unwritten, flushed>> /\ ~Locked'
    BY <1>9 DEF EmbedTLSKeylog, At, Continue, Locked
  <2>3. secrets = <<>> /\ unwritten = <<>>
    BY <2>2 DEF SecretsInv, BeforeEmbed
  <2>4. keylogOffset = 0
    <3>1. Len(secrets) = 0
      BY <2>3
    <3> QED
      BY <3>1 DEF SecretsInv, LastLine
  <2>5. /\ lines \in Seq(1..MaxSecrets) /\ Len(lines) <= logged /\ Len(lines) \in Nat
        /\ \A i \in DOMAIN lines : lines[i] = i /\ i \in Nat
    <3>1. CASE there
      <4>1. \A i \in 1..logged : i \in 1..MaxSecrets
        BY <1>1
      <4>2. lines = [i \in 1..logged |-> i] /\ logged \in Nat
        BY <1>1, <3>1
      <4>3. lines \in Seq(1..MaxSecrets)
        BY <4>1, <4>2
      <4>4. Len(lines) = logged
        BY <4>2, <4>3, LenProperties
      <4> QED
        BY <4>2, <4>3, <4>4
    <3>2. CASE ~there
      BY <1>1, <3>2, EmptySeq
    <3> QED
      BY <3>1, <3>2
  <2>6. /\ keylogOffset' = Len(lines)
        /\ secrets' = IF lines = <<>> THEN secrets ELSE Append(secrets, lines)
    BY <2>1
  <2> HIDE DEF lines
  <2>7. \A i \in DOMAIN lines : lines[i] = keylogOffset + i
    BY <2>4, <2>5
  <2>8. keylogOffset + Len(lines) <= logged /\ keylogOffset' = keylogOffset + Len(lines)
    BY <2>4, <2>5, <2>6
  <2> QED
    BY <1>8, <2>2, <2>3, <2>5, <2>6, <2>7, <2>8 DEF BeforeEmbed
<1>10. CASE WriteSecrets
  <2>1. /\ watcher = "write" /\ secrets' = Append(secrets, unwritten)
        /\ keylogOffset' = keylogOffset + Len(unwritten)
        /\ unwritten' = <<>> /\ UNCHANGED <<logged, flushed, collector>> /\ ~Locked'
    BY <1>10 DEF WriteSecrets, WatcherStep, goroutines, Locked
  <2>2. collector \notin BeforeEmbed /\ unwritten # <<>>
    BY <2>1 DEF SecretsInv, Locked
  <2>3. \A i \in DOMAIN unwritten : unwritten[i] = keylogOffset + i
    BY DEF SecretsInv
  <2> QED
    BY <1>1, <1>8, <2>1, <2>2, <2>3
<1>14. CASE GiveUp
  <2>1. /\ watcher = "write" /\ unwritten' = <<>> /\ ~Locked'
        /\ UNCHANGED <<logged, keylogOffset, secrets, flushed, collector>>
    BY <1>14 DEF GiveUp, WatcherStep, goroutines, Locked
  <2>2. collector' \notin BeforeEmbed
    BY <2>1 DEF SecretsInv
  <2>3. unwritten' \in Seq(1..MaxSecrets) /\ Len(unwritten') = 0 /\ DOMAIN unwritten' = {}
    BY <2>1, EmptySeq
  <2>4. LogTypes'
    BY <1>1, <2>1, <2>3 DEF LogTypes
  <2>5. SecretsInOrder' /\ keylogOffset' = (LastLine(Len(secrets)))'
    BY <2>1 DEF SecretsInv, SecretsInOrder, LastLine
  <2>6. keylogOffset' + Len(unwritten') <= logged'
    BY <1>1, <2>1, <2>3
  <2> QED
    BY <2>1, <2>2, <2>3, <2>4, <2>5, <2>6 DEF SecretsInv
<1>11. CASE ReadSecrets
  <2> DEFINE lines == [i \in 1..(logged - keylogOffset) |-> keylogOffset + i]
  <2>1. /\ watcher = "idle" /\ unwritten' = lines /\ keylogOffset < logged
        /\ UNCHANGED <<logged, keylogOffset, secrets, flushed, watcher, collector>>
    BY <1>11 DEF ReadSecrets, WatcherStep, goroutines
  <2>2. logged - keylogOffset \in Nat /\ keylogOffset + (logged - keylogOffset) <= MaxSecrets
    BY <1>1, <2>1
  <2>3. lines \in Seq(1..MaxSecrets) /\ Len(lines) = logged - keylogOffset
    BY <1>1, <2>2, LinesType
  <2>4. \A i \in DOMAIN lines : lines[i] = keylogOffset + i
    OBVIOUS
  <2> HIDE DEF lines
  <2>5. LogTypes'
    BY <1>1, <2>1, <2>3 DEF LogTypes
  <2>6. SecretsInOrder' /\ keylogOffset' = (LastLine(Len(secrets)))'
    BY <2>1 DEF SecretsInv, SecretsInOrder, LastLine
  <2>7. keylogOffset' + Len(unwritten') <= logged'
    BY <1>1, <2>1, <2>3
  <2>8. \A i \in DOMAIN unwritten' : unwritten'[i] = keylogOffset' + i
    BY <2>1, <2>4
  <2>9. collector' \notin BeforeEmbed
    BY <2>1 DEF SecretsInv
  <2> QED
    BY <2>1, <2>5, <2>6, <2>7, <2>8, <2>9 DEF SecretsInv, Locked
<1>12. CASE LogSecret
  <2>1. /\ logged < MaxSecrets /\ logged' = logged + 1
        /\ UNCHANGED <<keylogOffset, unwritten, secrets, flushed, watcher, collector>>
    BY <1>12 DEF LogSecret, goroutines
  <2>2. LogTypes'
    BY <1>1, <2>1 DEF LogTypes
  <2>3. \A b : (LastLine(b))' = LastLine(b)
    BY <2>1 DEF LastLine
  <2>4. \A b \in DOMAIN secrets : LastLine(b) <= logged'
    <3>1. ASSUME NEW b \in DOMAIN secrets PROVE LastLine(b) <= logged'
      <4>1. LastLine(b) \in Nat /\ LastLine(b) <= logged
        BY <1>1, LastLineType DEF SecretsInv, SecretsInOrder
      <4> QED
        BY <1>1, <2>1, <4>1
    <3> QED
      BY <3>1
  <2>5. SecretsInOrder'
    BY <2>1, <2>3, <2>4 DEF SecretsInv, SecretsInOrder
  <2>6. keylogOffset' = (LastLine(Len(secrets)))'
    BY <2>1, <2>3 DEF SecretsInv
  <2>7. keylogOffset' + Len(unwritten') <= logged'
    BY <1>1, <2>1
  <2> QED
    BY <2>1, <2>2, <2>5, <2>6, <2>7 DEF SecretsInv, Locked
<1> QED
  BY <1>3, <1>4, <1>5, <1>6, <1>7, <1>9, <1>10, <1>11, <1>12, <1>13, <1>14
     DEF Next, Keylog, WriteBlock, CollectorOwn

-----------------------------------------------------------------------------
(* The file.                                                                *)

FileVars == <<files, received, secrets, flushed, watcher, left, taken>>

FileStepOK == CountTypes' /\ HeldWhole' /\ FilesInv'

\* A step that leaves the file and what is on its way to it alone.
KeepsFiles ==
  /\ UNCHANGED FileVars
  /\ NeverOpened => NeverOpened'
  /\ collector' = "open" => collector = "open"
  /\ collector' \in BeforeFlush => collector \in BeforeFlush
  /\ collector' \in {"clearWriter", "flush"} => held = 0
  /\ collector' \in Flushing => collector' = collector
  /\ collector' \in AfterFlush => collector \in AfterFlush \/ NeverOpened

\* One block more, of a packet or of secrets.
LEMMA OneMoreBlock ==
  /\ Block \in Nat /\ Block = 2
  /\ \A r, l \in Nat : /\ (1 + (r + 1) + l) * Block = (1 + r + l) * Block + Block
                       /\ (1 + r + (l + 1)) * Block = (1 + r + l) * Block + Block
                       /\ (1 + r + l) * Block \in Nat
BY DEF Block

LEMMA FilesKept ==
  ASSUME CountTypes, HeldWhole, FilesInv, KeepsFiles
  PROVE  FileStepOK
<1> USE DEF KeepsFiles, FileVars, files, buffer, overlap
<1>1. CountTypes' /\ HeldWhole'
  BY DEF CountTypes, HeldWhole
<1>2. Balanced => Balanced'
  BY DEF Balanced, InFile, Given, Locked
<1>3. InOrder => InOrder'
  BY DEF InOrder, InFile
<1>4. Captured' = Captured /\ Undisturbed' = Undisturbed
  BY DEF Captured, Undisturbed
<1>5. FileComplete => FileComplete'
  BY <1>4 DEF FileComplete
<1>6. collector' = collector /\ Overlapping => Overlapping'
  <2>1. collector' = collector => Ahead' = Ahead /\ Alone' = Alone
    BY <1>4 DEF Ahead, Alone
  <2> QED
    BY <1>4, <2>1 DEF Overlapping
<1>7. collector' = "open" => NeverOpened'
  BY DEF FilesInv
<1>8. collector' \in BeforeFlush => Balanced' /\ InOrder'
  BY <1>2, <1>3 DEF FilesInv
<1>9. collector' \in Flushing => Overlapping'
  BY <1>6 DEF FilesInv
<1>10. collector' \in AfterFlush => NeverOpened' \/ (FileComplete' /\ flushed' <= Len(secrets'))
  BY <1>5 DEF FilesInv
<1>11. collector' \in {"clearWriter", "flush"} => held' = 0
  OBVIOUS
<1> QED
  BY <1>1, <1>7, <1>8, <1>9, <1>10, <1>11 DEF FileStepOK, FilesInv

\* Up to the deferred Flush, it is enough that the balance and the order are kept.
LEMMA FilesOrderly ==
  ASSUME CountTypes', HeldWhole', collector' \in BeforeFlush, Balanced', InOrder',
         collector' \in {"clearWriter", "flush"} => held' = 0
  PROVE  FileStepOK
BY DEF FileStepOK, FilesInv, BeforeFlush, Flushing, AfterFlush

\* A write of a packet or a block, whole, by one who has ngwMu.
LEMMA WriteOrderly ==
  ASSUME CountTypes, InOrder, ~Locked, ~Locked', NEW halves \in Nat, NgWrite(halves),
         UNCHANGED overlap
  PROVE  /\ buffered' \in Nat /\ start' \in Nat /\ disk' \in Nat
         /\ InFile \in Nat /\ InFile' = InFile + halves /\ Given = 0 /\ Given' = 0
         /\ InOrder'
<1>1. disk = start /\ buffered \in Nat /\ start \in Nat
  BY DEF InOrder, Locked, CountTypes
<1>2. buffered' \in Nat /\ start' \in Nat /\ disk' = start' /\ InFile' = InFile + halves
  BY <1>1, NgWriteMoves
<1>3. InOrder'
  BY <1>2 DEF InOrder, Locked, overlap
<1>4. InFile \in Nat /\ Given = 0 /\ Given' = 0
  BY <1>1 DEF Given, InFile
<1> QED
  BY <1>2, <1>3, <1>4

-----------------------------------------------------------------------------
(* The watcher's write, in each phase of the collector.                     *)

LEMMA WatcherFrame ==
  ASSUME BeginBlock \/ WriteBlock
  PROVE  /\ UNCHANGED <<received, held, out, failed, flushed, collector>>
         /\ watcher \in {"idle", "write", "flush", "reset"}
BY DEF BeginBlock, WriteBlock, GiveHalf, FillAndFlush, WatcherWriteOut, WatcherReset,
   WriteSecrets, GiveUp, WatcherStep, goroutines

LEMMA WatcherTypes ==
  ASSUME CountTypes, BeginBlock \/ WriteBlock
  PROVE  CountTypes' /\ disk' >= disk
<1> USE DEF CountTypes
<1>1. UNCHANGED <<received, held, out, failed>>
  BY WatcherFrame
<1>2. Block \in Nat /\ Block = 2 /\ left \in Nat
  BY OneMoreBlock
<1>3. CASE BeginBlock \/ FillAndFlush \/ WatcherReset \/ WriteSecrets \/ GiveUp
  BY <1>1, <1>2, <1>3 DEF BeginBlock, FillAndFlush, WatcherReset, WriteSecrets, GiveUp, buffer
<1>4. CASE GiveHalf
  <2>1. left' \in 0..Block /\ taken' = taken
    BY <1>2, <1>4 DEF GiveHalf
  <2>2. CASE buffered' = buffered + 1 /\ UNCHANGED <<start, disk, stray>>
    BY <1>1, <2>1, <2>2
  <2>3. CASE ToFile(1, 1) /\ start' = start + 1 /\ UNCHANGED buffered
    <3>1. disk' \in Nat /\ disk' >= disk /\ stray' \in BOOLEAN
      BY <2>3, ToFileMoves
    <3> QED
      BY <1>1, <2>1, <2>3, <3>1
  <2> QED
    BY <1>4, <2>2, <2>3 DEF GiveHalf
<1>5. CASE WatcherWriteOut
  <2>1. WriteOut(taken) /\ UNCHANGED <<buffered, start, left, taken>>
    BY <1>5 DEF WatcherWriteOut
  <2>2. disk' \in Nat /\ disk' >= disk /\ stray' \in BOOLEAN
    BY <2>1, WriteOutMoves
  <2> QED
    BY <1>1, <2>1, <2>2
<1> QED
  BY <1>3, <1>4, <1>5 DEF WriteBlock

LEMMA WatcherOrderly ==
  ASSUME CountTypes, LogTypes, Balanced, InOrder, BeginBlock \/ WriteBlock
  PROVE  Balanced' /\ InOrder'
<1>1. /\ held \in Nat /\ buffered \in Nat /\ start \in Nat /\ disk \in Nat /\ received \in Nat
      /\ left \in 0..Block /\ taken \in Nat /\ stray \in BOOLEAN
      /\ Block = 2 /\ Len(secrets) \in Nat /\ secrets \in Seq(Seq(1..MaxSecrets))
      /\ unwritten \in Seq(1..MaxSecrets)
  BY OneMoreBlock, LenProperties DEF CountTypes, LogTypes
<1>2. UNCHANGED <<received, held, failed>> /\ stray = FALSE /\ failed = FALSE
  BY WatcherFrame DEF InOrder
<1>3. ASSUME InFile' = InFile, Given' = Given, secrets' = secrets PROVE Balanced'
  BY <1>2, <1>3 DEF Balanced
<1>4. CASE BeginBlock
  <2>1. /\ watcher = "idle" /\ watcher' = "write" /\ left' = Block
        /\ UNCHANGED <<buffered, start, disk, stray, secrets>>
    BY <1>4 DEF BeginBlock, WatcherStep, buffer
  <2>2. Given' = Given /\ InFile' = InFile
    BY <1>1, <2>1 DEF Given, Locked, InFile
  <2>3. InOrder'
    BY <1>2, <2>1 DEF InOrder
  <2> QED
    BY <1>3, <2>1, <2>2, <2>3
<1>5. CASE GiveHalf
  <2>1. /\ watcher = "write" /\ watcher' = "write" /\ left' = left - 1 /\ left > 0
        /\ secrets' = secrets /\ disk = start
    BY <1>5 DEF GiveHalf, WatcherStep, InOrder
  <2>2. InFile' = InFile + 1 /\ disk' = start' /\ stray' = FALSE
    <3>1. CASE buffered' = buffered + 1 /\ UNCHANGED <<start, disk, stray>>
      BY <1>1, <1>2, <2>1, <3>1 DEF InFile
    <3>2. CASE ToFile(1, 1) /\ start' = start + 1 /\ UNCHANGED buffered
      <4>0. stray = FALSE /\ disk = start => disk' = disk + 1 /\ (1 <= 1 => stray' = FALSE)
        BY <1>1, <3>2, ToFileMoves
      <4>1. disk' = disk + 1 /\ stray' = FALSE
        BY <1>2, <2>1, <4>0
      <4> QED
        BY <1>1, <2>1, <3>2, <4>1 DEF InFile
    <3> QED
      BY <1>5, <3>1, <3>2 DEF GiveHalf
  <2>3. Given' = Given + 1 /\ Given \in Nat /\ InFile \in Nat
    BY <1>1, <2>1 DEF Given, Locked, InFile
  <2>4. (1 + received' + Len(secrets')) * Block = (1 + received + Len(secrets)) * Block
    BY <1>2, <2>1
  <2>5. (1 + received + Len(secrets)) * Block \in Nat
    BY <1>1, OneMoreBlock
  <2>6. Balanced'
    BY <1>1, <1>2, <2>2, <2>3, <2>4, <2>5 DEF Balanced
  <2>7. InOrder'
    BY <1>2, <2>1, <2>2 DEF InOrder
  <2> QED
    BY <2>6, <2>7
<1>6. CASE FillAndFlush
  <2>1. /\ watcher = "write" /\ watcher' = "flush" /\ taken' = buffered
        /\ UNCHANGED <<buffered, start, disk, stray, left, secrets>>
    BY <1>6 DEF FillAndFlush, WatcherStep, buffer
  <2>2. Given' = Given /\ InFile' = InFile
    BY <2>1 DEF Given, Locked, InFile
  <2>3. InOrder'
    BY <1>2, <2>1 DEF InOrder
  <2> QED
    BY <1>3, <2>1, <2>2, <2>3
<1>7. CASE WatcherWriteOut
  <2>1. /\ watcher = "flush" /\ watcher' = "reset" /\ WriteOut(taken)
        /\ UNCHANGED <<buffered, start, left, taken, secrets>>
    BY <1>7 DEF WatcherWriteOut, WatcherStep
  <2>2. taken = buffered /\ disk = start
    BY <2>1 DEF InOrder
  <2>0. stray = FALSE /\ disk = start /\ taken <= buffered => disk' = disk + taken /\ stray' = FALSE
    BY <1>1, <2>1, WriteOutMoves
  <2>3. disk' = disk + taken /\ stray' = FALSE
    BY <1>1, <1>2, <2>0, <2>2
  <2>4. Given' = Given /\ InFile' = InFile /\ disk' = InFile'
    BY <1>1, <2>1, <2>2, <2>3 DEF Given, Locked, InFile
  <2>5. InOrder'
    BY <1>2, <2>1, <2>2, <2>3, <2>4 DEF InOrder
  <2> QED
    BY <1>3, <2>1, <2>4, <2>5
<1>8. CASE WatcherReset
  <2>1. /\ watcher = "reset" /\ watcher' = "write" /\ buffered' = 0 /\ start' = start + buffered
        /\ UNCHANGED <<disk, stray, left, secrets>>
    BY <1>8 DEF WatcherReset, WatcherStep
  <2>2. Given' = Given /\ InFile' = InFile /\ disk' = start'
    BY <1>1, <2>1 DEF Given, Locked, InFile, InOrder
  <2>3. InOrder'
    BY <1>2, <2>1, <2>2 DEF InOrder
  <2> QED
    BY <1>3, <2>1, <2>2, <2>3
<1>9. CASE WriteSecrets
  <2>1. /\ watcher = "write" /\ watcher' = "idle" /\ left = 0
        /\ secrets' = Append(secrets, unwritten)
        /\ UNCHANGED <<buffered, start, disk, stray>>
    BY <1>9 DEF WriteSecrets, WatcherStep, buffer
  <2>2. Given = Block /\ Given' = 0 /\ InFile' = InFile /\ InFile \in Nat
    BY <1>1, <2>1 DEF Given, Locked, InFile
  <2>3. Len(secrets') = Len(secrets) + 1
    BY <1>1, <2>1, AppendProperties
  <2>4. (1 + received' + Len(secrets')) * Block = (1 + received + Len(secrets)) * Block + Block
    BY <1>1, <1>2, <2>3, OneMoreBlock
  <2>5. (1 + received + Len(secrets)) * Block \in Nat
    BY <1>1, OneMoreBlock
  <2>6. Balanced'
    BY <1>1, <1>2, <2>2, <2>4, <2>5 DEF Balanced
  <2>7. InOrder'
    BY <1>2, <2>1 DEF InOrder
  <2> QED
    BY <2>6, <2>7
<1>10. ~GiveUp
  BY <1>2 DEF GiveUp
<1> QED
  BY <1>4, <1>5, <1>6, <1>7, <1>8, <1>9, <1>10 DEF WriteBlock

\* Whatever the watcher does after the deferred Flush has begun shows.
LEMMA WatcherDisturbs ==
  ASSUME LogTypes, flushed <= Len(secrets), BeginBlock \/ WriteBlock
  PROVE  ~Undisturbed' /\ flushed' <= Len(secrets') /\ Captured' = Captured
<1>1. UNCHANGED <<received, flushed, failed>>
  BY WatcherFrame
<1>2. flushed \in Nat /\ Len(secrets) \in Nat
  BY LenProperties DEF LogTypes
<1>3. CASE BeginBlock \/ GiveHalf \/ FillAndFlush \/ WatcherWriteOut \/ WatcherReset
  <2>1. watcher' \in {"write", "flush", "reset"} /\ secrets' = secrets
    BY <1>3 DEF BeginBlock, GiveHalf, FillAndFlush, WatcherWriteOut, WatcherReset, WatcherStep
  <2> QED
    BY <1>1, <2>1 DEF Undisturbed, Captured
<1>4. CASE WriteSecrets
  <2>1. Len(secrets') = Len(secrets) + 1
    BY <1>4, AppendProperties DEF WriteSecrets, LogTypes
  <2> QED
    BY <1>1, <1>2, <2>1 DEF Undisturbed, Captured
<1>5. CASE GiveUp
  <2>1. failed' /\ secrets' = secrets
    BY <1>1, <1>5 DEF GiveUp
  <2> QED
    BY <1>1, <2>1 DEF Undisturbed, Captured
<1> QED
  BY <1>3, <1>4, <1>5 DEF WriteBlock

LEMMA WatcherOverlaps ==
  ASSUME CountTypes, LogTypes, Overlapping, BeginBlock \/ WriteBlock
  PROVE  Overlapping'
<1>1. UNCHANGED <<held, out, collector>>
  BY WatcherFrame
<1>2. ~Undisturbed' /\ flushed' <= Len(secrets') /\ Captured' = Captured
  BY WatcherDisturbs DEF Overlapping
<1>3. /\ buffered \in Nat /\ start \in Nat /\ disk \in Nat /\ disk' \in Nat /\ disk' >= disk
      /\ stray \in BOOLEAN /\ out \in Nat /\ taken \in Nat
  BY WatcherTypes DEF CountTypes
<1>4. Captured \in Nat
  <2>1. received \in Nat /\ flushed \in Nat
    BY DEF CountTypes, LogTypes
  <2> QED
    BY <2>1, OneMoreBlock DEF Captured
<1>5. disk >= Captured => disk' >= Captured'
  BY <1>2, <1>3, <1>4
<1>6. ASSUME Ahead PROVE disk' >= Captured' \/ Ahead'
  <2>1. /\ collector' = "writeOut" /\ stray = FALSE /\ disk = start
        /\ 0 < out /\ out' = out /\ out <= buffered /\ start + out >= Captured
        /\ watcher # "reset" /\ (watcher = "flush" => taken >= out)
    BY <1>1, <1>6 DEF Ahead
  <2>2. CASE BeginBlock \/ WriteSecrets \/ GiveUp
    <3>1. watcher' \in {"write", "idle"} /\ UNCHANGED <<buffered, start, disk, stray>>
      BY <2>2 DEF BeginBlock, WriteSecrets, GiveUp, WatcherStep, buffer
    <3> QED
      BY <1>2, <2>1, <3>1 DEF Ahead
  <2>3. CASE GiveHalf
    <3>1. buffered' = buffered + 1 /\ watcher' = "write" /\ UNCHANGED <<start, disk, stray>>
      BY <1>3, <2>1, <2>3 DEF GiveHalf, WatcherStep
    <3> QED
      BY <1>2, <1>3, <2>1, <3>1 DEF Ahead
  <2>4. CASE FillAndFlush
    <3>1. taken' = buffered /\ UNCHANGED <<buffered, start, disk, stray>> /\ watcher' = "flush"
      BY <2>4 DEF FillAndFlush, WatcherStep, buffer
    <3> QED
      BY <1>2, <1>3, <2>1, <3>1 DEF Ahead
  <2>5. CASE WatcherWriteOut
    <3>1. WriteOut(taken) /\ taken >= out
      BY <2>1, <2>5 DEF WatcherWriteOut, WatcherStep
    <3>0. stray = FALSE /\ disk = start =>
            /\ taken <= buffered => disk' = disk + taken /\ stray' = FALSE
            /\ buffered <= taken => disk' = disk + buffered
      BY <1>3, <3>1, WriteOutMoves
    <3>2. disk' >= start + out
      <4>1. /\ taken <= buffered => disk' = disk + taken
            /\ buffered <= taken => disk' = disk + buffered
        <5>1. stray = FALSE /\ disk = start
          BY <2>1
        <5> QED
          BY <3>0, <5>1, Zenon
      <4>2. disk = start /\ out <= buffered /\ out <= taken
        BY <1>3, <2>1, <3>1
      <4> QED
        BY <1>3, <4>1, <4>2
    <3> QED
      BY <1>2, <1>3, <1>4, <2>1, <3>2
  <2>6. ~WatcherReset
    BY <2>1 DEF WatcherReset, WatcherStep
  <2> QED
    BY <2>2, <2>3, <2>4, <2>5, <2>6 DEF WriteBlock
<1> QED
  BY <1>1, <1>2, <1>5, <1>6 DEF Overlapping

LEMMA WatcherStepOK ==
  ASSUME TypeOK, HeldWhole, FilesInv, BeginBlock \/ WriteBlock
  PROVE  FileStepOK
<1>1. CountTypes /\ LogTypes
  BY TypeParts
<1>2. CountTypes' /\ disk' >= disk
  BY <1>1, WatcherTypes
<1>3. UNCHANGED <<held, collector>> /\ watcher # "off"
  BY WatcherFrame
<1>4. HeldWhole'
  BY <1>3 DEF HeldWhole
<1>5. collector # "open" /\ ~NeverOpened
  BY <1>3 DEF FilesInv, NeverOpened
<1>6. collector \in BeforeFlush => Balanced' /\ InOrder'
  BY <1>1, WatcherOrderly DEF FilesInv
<1>7. collector \in Flushing => Overlapping'
  BY <1>1, WatcherOverlaps DEF FilesInv
<1>8. ASSUME collector \in AfterFlush PROVE FileComplete' /\ flushed' <= Len(secrets')
  <2>1. FileComplete /\ flushed <= Len(secrets)
    BY <1>5, <1>8 DEF FilesInv
  <2>2. ~Undisturbed' /\ flushed' <= Len(secrets') /\ Captured' = Captured
    BY <1>1, <2>1, WatcherDisturbs
  <2>3. Captured \in Nat /\ disk \in Nat /\ disk' \in Nat
    BY <1>1, <1>2, OneMoreBlock DEF Captured, CountTypes, LogTypes
  <2>4. disk' >= Captured'
    BY <1>2, <2>1, <2>2, <2>3 DEF FileComplete
  <2> QED
    BY <1>3, <2>1, <2>2, <2>4 DEF FileComplete
<1> QED
  BY <1>2, <1>3, <1>4, <1>5, <1>6, <1>7, <1>8 DEF FileStepOK, FilesInv

-----------------------------------------------------------------------------
(* The deferred Flush.                                                      *)

LEMMA FlushFileOK ==
  ASSUME TypeOK, HeldWhole, FilesInv, FlushFile
  PROVE  FileStepOK
<1>1. /\ held \in Nat /\ buffered \in Nat /\ start \in Nat /\ disk \in Nat /\ received \in Nat
      /\ left \in 0..Block /\ taken \in Nat /\ stray \in BOOLEAN /\ failed \in BOOLEAN
      /\ Block = 2 /\ Len(secrets) \in Nat
  BY TypeParts, OneMoreBlock, LenProperties DEF CountTypes, LogTypes
<1>2. /\ collector = "flush" /\ flushed' = Len(secrets) /\ out' = buffered
      /\ collector' = IF buffered = 0 THEN "closeFile" ELSE "writeOut"
      /\ UNCHANGED <<received, held, buffered, start, disk, stray, failed>>
      /\ UNCHANGED <<watcher, left, taken, secrets>>
  BY DEF FlushFile, At, Continue, buffer
<1>3. held = 0 /\ Balanced /\ InOrder
  BY <1>2 DEF FilesInv, BeforeFlush
<1>4. CountTypes' /\ HeldWhole'
  BY <1>1, <1>2, TypeParts DEF CountTypes, HeldWhole
<1>5. /\ Captured' = (1 + received + Len(secrets)) * Block /\ Captured' \in Nat
      /\ Given \in Nat /\ (watcher \in {"idle", "off"} => Given = 0)
  BY <1>1, <1>2, OneMoreBlock DEF Captured, Given, Locked
<1>6. start + buffered = Captured' + Given
  BY <1>1, <1>3, <1>5 DEF Balanced, InFile
<1>7. /\ watcher = "reset" => disk = start + buffered
      /\ watcher # "reset" => disk = start
      /\ watcher = "flush" => taken = buffered
      /\ stray = FALSE /\ failed = FALSE
  <2>1. InFile = start + buffered
    BY <1>1 DEF InFile
  <2> QED
    BY <1>3, <2>1 DEF InOrder
<1>8. Undisturbed' => start + buffered = Captured' /\ disk = start
  BY <1>1, <1>2, <1>5, <1>6, <1>7 DEF Undisturbed
<1>9. CASE buffered = 0
  <2>1. disk' >= Captured' /\ (Undisturbed' => disk' = Captured')
    BY <1>1, <1>2, <1>5, <1>6, <1>7, <1>8, <1>9
  <2>2. FileComplete' /\ flushed' <= Len(secrets') /\ collector' = "closeFile"
    BY <1>1, <1>2, <1>3, <1>7, <1>9, <2>1 DEF FileComplete
  <2> QED
    BY <1>4, <2>2 DEF FileStepOK, FilesInv, BeforeFlush, Flushing
<1>10. CASE buffered > 0
  <2>1. collector' = "writeOut"
    BY <1>2, <1>10
  <2>2. disk' >= Captured' \/ Ahead'
    <3>1. CASE watcher = "reset"
      <4>2. disk = start + buffered
        BY <1>7, <3>1
      <4> QED
        BY <1>1, <1>2, <1>5, <1>6, <4>2
    <3>2. CASE watcher # "reset"
      <4>1. start' + out' >= Captured'
        BY <1>1, <1>2, <1>5, <1>6
      <4> QED
        BY <1>1, <1>2, <1>7, <1>10, <2>1, <3>2, <4>1 DEF Ahead
    <3> QED
      BY <3>1, <3>2
  <2>3. Undisturbed' => Alone'
    BY <1>2, <1>7, <1>8, <2>1 DEF Alone
  <2>4. Overlapping'
    BY <1>1, <1>2, <1>3, <2>2, <2>3 DEF Overlapping
  <2> QED
    BY <1>4, <2>1, <2>4 DEF FileStepOK, FilesInv, BeforeFlush, AfterFlush
<1> QED
  BY <1>1, <1>9, <1>10

LEMMA FlushWriteOutOK ==
  ASSUME TypeOK, HeldWhole, FilesInv, FlushWriteOut
  PROVE  FileStepOK
<1>1. /\ buffered \in Nat /\ start \in Nat /\ disk \in Nat /\ out \in Nat /\ stray \in BOOLEAN
      /\ Captured \in Nat
  BY TypeParts, OneMoreBlock DEF CountTypes, LogTypes, Captured
<1>2. /\ collector = "writeOut" /\ collector' = "reset" /\ WriteOut(out)
      /\ UNCHANGED <<received, held, buffered, start, out, failed>>
      /\ UNCHANGED <<watcher, left, taken, secrets, flushed>>
  BY DEF FlushWriteOut, At, Continue, apart, tls
<1>3. /\ disk' \in Nat /\ disk' >= disk /\ stray' \in BOOLEAN
      /\ stray = FALSE /\ disk = start /\ out <= buffered => disk' = disk + out /\ stray' = FALSE
  BY <1>1, <1>2, WriteOutMoves
<1>4. CountTypes' /\ HeldWhole'
  BY <1>2, <1>3, TypeParts DEF CountTypes, HeldWhole
<1>5. Overlapping
  BY <1>2 DEF FilesInv, Flushing
<1>6. Captured' = Captured /\ Undisturbed' = Undisturbed
  BY <1>2 DEF Captured, Undisturbed
<1>7. disk' >= Captured'
  <2>1. CASE disk >= Captured
    BY <1>1, <1>3, <1>6, <2>1
  <2>2. CASE Ahead
    BY <1>1, <1>3, <1>6, <2>2 DEF Ahead
  <2> QED
    BY <1>5, <2>1, <2>2 DEF Overlapping
<1>8. Undisturbed' => Alone'
  <2>1. SUFFICES ASSUME Undisturbed PROVE Alone'
    BY <1>6
  <2>2. stray = FALSE /\ buffered = out /\ start + out = Captured /\ disk = start
    BY <1>2, <1>5, <2>1 DEF Overlapping, Alone
  <2>3. disk' = Captured' /\ stray' = FALSE
    BY <1>1, <1>3, <1>6, <2>2
  <2> QED
    BY <1>2, <1>6, <2>2, <2>3 DEF Alone
<1>9. Overlapping'
  BY <1>2, <1>5, <1>7, <1>8 DEF Overlapping
<1> QED
  BY <1>2, <1>4, <1>9 DEF FileStepOK, FilesInv, BeforeFlush, AfterFlush

LEMMA FlushResetOK ==
  ASSUME TypeOK, HeldWhole, FilesInv, FlushReset
  PROVE  FileStepOK
<1>1. /\ buffered \in Nat /\ start \in Nat /\ disk \in Nat /\ out \in Nat
      /\ failed \in BOOLEAN
  BY TypeParts DEF CountTypes
<1>2. /\ collector = "reset" /\ collector' = "closeFile" /\ out' = 0
      /\ UNCHANGED <<received, held, disk, stray, watcher, left, taken, secrets, flushed>>
      /\ \/ buffered' = 0 /\ start' = start + buffered /\ UNCHANGED failed
         \/ /\ buffered > out /\ failed' = TRUE
            /\ buffered' = buffered - out /\ start' = start + out
         \/ watcher = "write" /\ left > 0 /\ UNCHANGED <<buffered, start, failed>>
  BY DEF FlushReset, At, Continue, apart, tls
<1>3. buffered' \in Nat /\ start' \in Nat /\ failed' \in BOOLEAN
  <2>1. failed' = failed \/ failed' = TRUE
    BY <1>2
  <2>2. buffered' \in Nat /\ start' \in Nat
    BY <1>1, <1>2
  <2> QED
    BY <1>1, <2>1, <2>2
<1>4. CountTypes' /\ HeldWhole'
  BY <1>2, <1>3, TypeParts DEF CountTypes, HeldWhole
<1>5. Overlapping /\ ~Ahead
  BY <1>2 DEF FilesInv, Flushing, Ahead
<1>6. Captured' = Captured /\ disk' >= Captured'
  BY <1>2, <1>5 DEF Captured, Overlapping
<1>7. ASSUME Undisturbed' PROVE buffered' = 0 /\ disk' = Captured' /\ ~stray'
  <2>1. failed' # TRUE /\ watcher \in {"idle", "off"}
    BY <1>2, <1>7 DEF Undisturbed
  <2>2. buffered' = 0 /\ failed' = failed
    BY <1>2, <2>1
  <2>3. Undisturbed
    BY <1>2, <1>7, <2>2 DEF Undisturbed
  <2>4. disk = Captured /\ stray = FALSE
    BY <1>2, <1>5, <2>3 DEF Overlapping, Alone
  <2> QED
    BY <1>2, <1>6, <2>2, <2>4
<1>8. FileComplete' /\ flushed' <= Len(secrets')
  BY <1>2, <1>5, <1>6, <1>7 DEF FileComplete, Overlapping
<1> QED
  BY <1>2, <1>4, <1>8 DEF FileStepOK, FilesInv, BeforeFlush, Flushing

LEMMA CloseFileOK ==
  ASSUME TypeOK, HeldWhole, FilesInv, SignalsInv, CloseFile
  PROVE  FileStepOK
<1>1. /\ collector = "closeFile" /\ collector' = "announce"
      /\ watcher' = IF Locked THEN "cut" ELSE "off"
      /\ left' = 0 /\ taken' = 0
      /\ UNCHANGED <<received, held, buffered, start, disk, stray, out, failed>>
      /\ UNCHANGED <<secrets, flushed>>
  BY DEF CloseFile, At, Continue, files, buffer, overlap
<1>2. CountTypes' /\ HeldWhole'
  BY <1>1, TypeParts, OneMoreBlock DEF CountTypes, HeldWhole
<1>3. FileComplete /\ flushed <= Len(secrets)
  BY <1>1 DEF FilesInv, AfterFlush, NeverOpened
<1>4. Captured' = Captured
  BY <1>1 DEF Captured
<1>5. Undisturbed' => Undisturbed
  <2>1. watcher \in {"off", "idle", "write", "flush", "reset"}
    BY <1>1, TypeParts DEF SignalsInv, ControlTypes
  <2> QED
    BY <1>1, <2>1 DEF Undisturbed, Locked
<1>6. FileComplete' /\ flushed' <= Len(secrets')
  BY <1>1, <1>3, <1>4, <1>5 DEF FileComplete
<1> QED
  BY <1>1, <1>2, <1>6 DEF FileStepOK, FilesInv, BeforeFlush, Flushing

-----------------------------------------------------------------------------
(* Every step.                                                              *)

LEMMA FilesStep ==
  ASSUME TypeOK, HeldWhole, FilesInv, SignalsInv, SecretsInv, [Next]_vars
  PROVE  FileStepOK
<1>1. /\ held \in Nat /\ buffered \in Nat /\ start \in Nat /\ disk \in Nat /\ received \in Nat
      /\ Len(secrets) \in Nat /\ flushed \in Nat
      /\ secrets \in Seq(Seq(1..MaxSecrets)) /\ unwritten \in Seq(1..MaxSecrets)
  BY TypeParts, LenProperties DEF CountTypes, LogTypes
<1>2. ASSUME KeepsFiles PROVE FileStepOK
  BY <1>2, TypeParts, FilesKept
<1>3. /\ NeverOpened => collector \in {"open", "announce", "closeDone", "returned"}
      /\ collector \in {"clearWriter", "flush"} => held = 0
      /\ collector \in BeforeFlush => Balanced /\ InOrder
  BY DEF NeverOpened, FilesInv
<1>4. CASE OpenFails
  <2>1. /\ collector = "open" /\ collector' = "announce" /\ NeverOpened
        /\ UNCHANGED <<FileVars, completed, registry, captureEnded, main, handler>>
    BY <1>4 DEF OpenFails, FilesInv, FileVars, apart, tls, signals, Continue, At
  <2>2. KeepsFiles
    BY <2>1 DEF KeepsFiles, NeverOpened, FileVars, files, buffer, overlap, registry,
       BeforeFlush, Flushing
  <2> QED
    BY <1>2, <2>2
<1>5. CASE SetActivePacketWriter \/ SetActivePacketStop \/ StartCollector \/ DeadlineReached
           \/ ContextDone \/ ClearActivePacketWriter
  <2>1. /\ collector \in BeforeFlush /\ collector' \in BeforeFlush /\ UNCHANGED FileVars
        /\ collector' = "flush" => collector = "clearWriter"
        /\ collector' # "clearWriter"
    BY <1>5 DEF SetActivePacketWriter, SetActivePacketStop, StartCollector, DeadlineReached,
       ContextDone, ClearActivePacketWriter, BeforeFlush, FileVars, apart, tls, Continue, At
  <2>2. KeepsFiles
    BY <1>3, <2>1 DEF KeepsFiles, BeforeFlush, Flushing, AfterFlush
  <2> QED
    BY <1>2, <2>2
<1>6. CASE Announce
  <2>1. UNCHANGED <<FileVars, completed, registry, handler>>
    BY <1>6 DEF Announce, FileVars, apart, tls
  <2>2. /\ collector = "announce" /\ collector' \in {"deleteDaemonSet", "closeDone"}
        /\ ~completed => collector' = "closeDone" /\ UNCHANGED <<captureEnded, main>>
    BY <1>6 DEF Announce, At
  <2>3. NeverOpened => NeverOpened'
    BY <2>1, <2>2 DEF NeverOpened, FileVars, files, buffer, overlap, registry
  <2>4. KeepsFiles
    BY <2>1, <2>2, <2>3 DEF KeepsFiles, BeforeFlush, Flushing, AfterFlush
  <2> QED
    BY <1>2, <2>4
<1>7. CASE DeleteDaemonSet \/ CloseDone
  <2>1. /\ collector \in {"deleteDaemonSet", "closeDone"} /\ collector' \in {"closeDone", "returned"}
        /\ UNCHANGED <<FileVars, completed, registry, captureEnded, main, handler>>
    BY <1>7 DEF DeleteDaemonSet, CloseDone, FileVars, apart, tls, Continue, At
  <2>2. NeverOpened => NeverOpened'
    BY <2>1 DEF NeverOpened, FileVars, files, buffer, overlap, registry
  <2>3. KeepsFiles
    BY <2>1, <2>2 DEF KeepsFiles, BeforeFlush, Flushing, AfterFlush
  <2> QED
    BY <1>2, <2>3
<1>8. ASSUME UNCHANGED <<FileVars, collector>>, NeverOpened => NeverOpened' PROVE FileStepOK
  <2>1. KeepsFiles
    BY <1>3, <1>8 DEF KeepsFiles
  <2> QED
    BY <1>2, <2>1
<1>9. CASE MainNext
  <2>1. UNCHANGED <<FileVars, completed, registry, captureEnded, handler, collector>>
    BY <1>9 DEF MainNext, MainStep, CreateFlowDisplay, RunApplication, PressCtrlC, StopFromUI,
       StopFromUIReturns, MainReturns, FileVars, apart, tls, goroutines, signals
  <2>2. ~stop /\ main \notin {"waiting", "stopped"} => main' \notin {"waiting", "stopped"}
    BY <1>9 DEF MainNext, MainStep, CreateFlowDisplay, RunApplication, PressCtrlC, StopFromUI,
       StopFromUIReturns, MainReturns, goroutines
  <2>3. NeverOpened => NeverOpened'
    BY <2>1, <2>2 DEF NeverOpened, FileVars, files, buffer, overlap, registry
  <2> QED
    BY <1>8, <2>1, <2>3
<1>10. CASE HandlerNext /\ ~FlushActivePacketWriter
  <2>1. UNCHANGED <<FileVars, completed, registry, captureEnded, main, collector>>
    BY <1>10 DEF HandlerNext, HandlerStep, Sigterm, StopFromHandler, StopFromHandlerReturns,
       Exit, FileVars, apart, tls, goroutines, signals
  <2>2. ~stop /\ handler \notin {"waiting", "stopped"} => handler' \notin {"waiting", "stopped"}
    BY <1>10 DEF HandlerNext, HandlerStep, Sigterm, StopFromHandler, StopFromHandlerReturns,
       Exit, goroutines
  <2>3. NeverOpened => NeverOpened'
    BY <2>1, <2>2 DEF NeverOpened, FileVars, files, buffer, overlap, registry
  <2> QED
    BY <1>8, <2>1, <2>3
<1>11. CASE LogSecret \/ ReadSecrets \/ UNCHANGED vars
  <2>1. UNCHANGED <<FileVars, completed, registry, captureEnded, main, handler, collector>>
    BY <1>11 DEF LogSecret, ReadSecrets, WatcherStep, vars, FileVars, files, overlap, tls,
       goroutines, signals
  <2>2. NeverOpened => NeverOpened'
    BY <2>1 DEF NeverOpened, FileVars, files, buffer, overlap, registry
  <2> QED
    BY <1>8, <2>1, <2>2
<1>12. CASE OpenOutput
  <2>1. collector = "open" /\ NeverOpened
    BY <1>12 DEF OpenOutput, At, FilesInv
  <2>2. /\ collector' = "setWriter" /\ buffered' = Block
        /\ UNCHANGED <<held, start, disk, received, secrets, stray, out, failed>>
        /\ UNCHANGED <<watcher, left, taken>>
    BY <1>12 DEF OpenOutput, Continue, apart, tls, overlap
  <2>3. /\ held' = 0 /\ start' = 0 /\ disk' = 0 /\ received' = 0 /\ Len(secrets') = 0
        /\ watcher' = "off" /\ stray' = FALSE /\ failed' = FALSE
    BY <2>1, <2>2 DEF NeverOpened
  <2>4. CountTypes' /\ HeldWhole'
    BY <2>2, <2>3, TypeParts, OneMoreBlock DEF CountTypes, HeldWhole
  <2>5. InFile' = Block /\ Given' = 0
    BY <2>2, <2>3 DEF InFile, Given, Locked, Block
  <2>6. Balanced' /\ InOrder'
    BY <2>3, <2>5 DEF Balanced, InOrder, Block
  <2> QED
    BY <2>2, <2>4, <2>6, FilesOrderly DEF BeforeFlush
<1>13. CASE ReceivePacket
  <2>1. /\ collector = "receive" /\ collector' \in {"receive", "closeBuffer"}
        /\ received' = received + 1 /\ UNCHANGED <<secrets, watcher, left, taken>>
        /\ UNCHANGED <<stray, out, failed>> /\ UNCHANGED overlap
    BY <1>13 DEF ReceivePacket, At, Continue, apart, tls, overlap
  <2>2. Balanced /\ InOrder
    BY <1>3, <2>1 DEF BeforeFlush
  <2>3. (1 + received' + Len(secrets')) * Block = (1 + received + Len(secrets)) * Block + Block
    BY <1>1, <2>1, OneMoreBlock
  <2>4. (1 + received + Len(secrets)) * Block \in Nat /\ Block \in Nat
    BY <1>1, OneMoreBlock
  <2>5. CASE held' = held + Block /\ UNCHANGED buffer
    <3>1. PICK n \in Nat : held = n * Block
      BY DEF HeldWhole
    <3>2. held' = (n + 1) * Block
      BY <3>1, <2>5 DEF Block
    <3>3. HeldWhole' /\ CountTypes'
      BY <1>1, <2>1, <2>5, <3>2, TypeParts DEF HeldWhole, Block, CountTypes, buffer
    <3>4. /\ Given' = Given /\ InFile' = InFile /\ InFile \in Nat
      BY <1>1, <2>1, <2>5 DEF Given, Locked, InFile, buffer
    <3>5. Given \in Int
      BY TypeParts, OneMoreBlock DEF Given, CountTypes
    <3>6. Balanced'
      <4>1. PICK k \in Nat : k = (1 + received + Len(secrets)) * Block
        BY <2>4
      <4>2. held + InFile = k + Given /\ held' = held + Block
        BY <2>2, <2>5, <4>1 DEF Balanced
      <4>3. (1 + received' + Len(secrets')) * Block = k + Block
        BY <2>3, <4>1
      <4>4. PICK b \in Nat : b = Block
        BY <2>4
      <4>5. held' + InFile' = k + b + Given'
        BY <1>1, <3>4, <3>5, <4>1, <4>2, <4>4
      <4> QED
        BY <4>3, <4>4, <4>5 DEF Balanced
    <3>7. InOrder'
      BY <2>1, <2>2, <2>5, <3>4 DEF InOrder, buffer
    <3> QED
      BY <2>1, <3>3, <3>6, <3>7, FilesOrderly DEF BeforeFlush
  <2>6. CASE held' = held /\ ~Locked /\ NgWrite(Block)
    <3>1. ~Locked'
      BY <2>1, <2>6 DEF Locked
    <3>2. /\ buffered' \in Nat /\ start' \in Nat /\ disk' \in Nat
          /\ InFile \in Nat /\ InFile' = InFile + Block /\ Given = 0 /\ Given' = 0
          /\ InOrder'
      BY <2>1, <2>2, <2>4, <2>6, <3>1, TypeParts, WriteOrderly
    <3>3. HeldWhole' /\ CountTypes'
      BY <1>1, <2>1, <2>6, <3>2, TypeParts DEF HeldWhole, CountTypes
    <3>4. Balanced'
      <4>1. PICK k \in Nat : k = (1 + received + Len(secrets)) * Block
        BY <2>4
      <4>2. held + InFile = k + Given /\ held' = held
        BY <2>2, <2>6, <4>1 DEF Balanced
      <4>3. (1 + received' + Len(secrets')) * Block = k + Block
        BY <2>3, <4>1
      <4>4. PICK b \in Nat : b = Block
        BY <2>4
      <4>6. InFile' = InFile + Block /\ InFile \in Nat /\ Given = 0 /\ Given' = 0
        BY <3>2
      <4>5. held' + InFile' = k + b + Given'
        BY <1>1, <4>2, <4>4, <4>6
      <4> QED
        BY <4>3, <4>4, <4>5 DEF Balanced
    <3> QED
      BY <2>1, <3>2, <3>3, <3>4, FilesOrderly DEF BeforeFlush
  <2> QED
    BY <1>13, <2>5, <2>6 DEF ReceivePacket
<1>14. CASE FlushExpired
  <2>1. /\ collector \in {"receive", "closeBuffer"} /\ held > 0 /\ ~Locked
        /\ NgWrite(Block) /\ held' = held - Block
        /\ UNCHANGED <<collector, received, secrets, watcher, left, taken>>
        /\ UNCHANGED <<stray, out, failed>> /\ UNCHANGED overlap
    BY <1>14 DEF FlushExpired, apart, tls, goroutines, overlap
  <2>2. Balanced /\ InOrder /\ ~Locked' /\ Block \in Nat
    BY <1>3, <2>1, OneMoreBlock DEF BeforeFlush, Locked
  <2>3. /\ buffered' \in Nat /\ start' \in Nat /\ disk' \in Nat
        /\ InFile \in Nat /\ InFile' = InFile + Block /\ Given = 0 /\ Given' = 0
        /\ InOrder'
    BY <2>1, <2>2, TypeParts, WriteOrderly
  <2>4. held' \in Nat /\ HeldWhole'
    <3>1. PICK n \in Nat : held = n * Block
      BY DEF HeldWhole
    <3>2. n - 1 \in Nat /\ held' = (n - 1) * Block
      BY <1>1, <2>1, <3>1 DEF Block
    <3> QED
      BY <3>2 DEF HeldWhole, Block
  <2>5. CountTypes'
    BY <2>1, <2>3, <2>4, TypeParts DEF CountTypes
  <2>6. Balanced'
    <3>1. (1 + received + Len(secrets)) * Block \in Nat
      BY <1>1, OneMoreBlock
    <3>2. (1 + received' + Len(secrets')) * Block = (1 + received + Len(secrets)) * Block
      BY <2>1
    <3> QED
      <4>1. held + InFile = (1 + received + Len(secrets)) * Block + Given /\ held' = held - Block
        BY <2>1, <2>2 DEF Balanced
      <4>2. held' + InFile' = (1 + received' + Len(secrets')) * Block + Given'
        BY <1>1, <2>2, <2>3, <3>1, <3>2, <4>1
      <4> QED
        BY <4>2 DEF Balanced
  <2> QED
    BY <2>1, <2>3, <2>4, <2>5, <2>6, FilesOrderly DEF BeforeFlush
<1>15. CASE CloseBuffer
  <2>1. /\ collector = "closeBuffer" /\ collector' = "clearWriter" /\ held' = 0
        /\ UNCHANGED <<received, secrets, watcher, left, taken>>
        /\ UNCHANGED <<stray, out, failed>> /\ UNCHANGED overlap
    BY <1>15 DEF CloseBuffer, At, Continue, apart, tls, overlap
  <2>2. Balanced /\ InOrder
    BY <1>3, <2>1 DEF BeforeFlush
  <2>3. HeldWhole'
    BY <2>1 DEF HeldWhole, Block
  <2>4. /\ (1 + received' + Len(secrets')) * Block = (1 + received + Len(secrets)) * Block
        /\ (1 + received + Len(secrets)) * Block \in Nat
    BY <1>1, <2>1, OneMoreBlock
  <2>5. CASE held = 0 /\ UNCHANGED buffer
    <3>1. /\ Given' = Given /\ InFile' = InFile
      BY <2>1, <2>5 DEF Given, Locked, InFile, buffer
    <3>2. Balanced'
      BY <2>1, <2>2, <2>4, <2>5, <3>1 DEF Balanced
    <3>3. InOrder' /\ CountTypes'
      BY <2>1, <2>2, <2>5, <3>1, TypeParts DEF InOrder, CountTypes, buffer
    <3> QED
      BY <2>1, <2>3, <3>2, <3>3, FilesOrderly DEF BeforeFlush
  <2>6. CASE ~Locked /\ NgWrite(held)
    <3>1. ~Locked'
      BY <2>1, <2>6 DEF Locked
    <3>2. /\ buffered' \in Nat /\ start' \in Nat /\ disk' \in Nat
          /\ InFile \in Nat /\ InFile' = InFile + held /\ Given = 0 /\ Given' = 0
          /\ InOrder'
      BY <1>1, <2>1, <2>2, <2>6, <3>1, TypeParts, WriteOrderly
    <3>3. Balanced'
      BY <1>1, <2>1, <2>2, <2>4, <3>2 DEF Balanced
    <3>4. CountTypes'
      BY <2>1, <3>2, TypeParts DEF CountTypes
    <3> QED
      BY <2>1, <2>3, <3>2, <3>3, <3>4, FilesOrderly DEF BeforeFlush
  <2> QED
    BY <1>15, <2>5, <2>6 DEF CloseBuffer
<1>16. CASE FlushActivePacketWriter
  <2>1. /\ UNCHANGED <<collector, main, received, held, secrets, flushed, completed, registry>>
        /\ UNCHANGED <<watcher, left, taken, stray, out, failed, captureEnded>>
        /\ UNCHANGED overlap
        /\ handler' \notin {"waiting", "stopped"} /\ ~Locked
    BY <1>16 DEF FlushActivePacketWriter, HandlerStep, apart, tls, signals, overlap
  <2>2. CASE ~writer
    <3>1. UNCHANGED <<FileVars, collector>>
      BY <1>16, <2>1, <2>2 DEF FlushActivePacketWriter, FileVars, files
    <3>2. NeverOpened => NeverOpened'
      BY <2>1, <3>1 DEF NeverOpened, FileVars, files, buffer, overlap, registry
    <3> QED
      BY <1>8, <3>1, <3>2
  <2>3. CASE writer
    <3>1. NgFlush
      BY <1>16, <2>3 DEF FlushActivePacketWriter
    <3>2. collector \in BeforeFlush
      BY <2>3 DEF SignalsInv, BeforeFlush
    <3>3. Balanced /\ InOrder
      BY <1>3, <3>2
    <3>4. disk = start
      BY <2>1, <3>3 DEF InOrder, Locked
    <3>5. /\ buffered' = 0 /\ start' \in Nat /\ disk' = start' /\ InFile' = InFile
      BY <1>1, <3>1, <3>4, NgFlushMoves
    <3>6. CountTypes' /\ HeldWhole'
      BY <2>1, <3>5, TypeParts DEF CountTypes, HeldWhole
    <3>7. Balanced'
      <4>1. Given' = Given
        BY <2>1 DEF Given, Locked
      <4> QED
        BY <2>1, <3>3, <3>5, <4>1 DEF Balanced
    <3>8. InOrder'
      BY <2>1, <3>3, <3>5 DEF InOrder, Locked
    <3>9. collector' \in {"clearWriter", "flush"} => held' = 0
      BY <1>3, <2>1
    <3> QED
      BY <2>1, <3>2, <3>6, <3>7, <3>8, <3>9, FilesOrderly
  <2> QED
    BY <2>2, <2>3
<1>17. CASE EmbedTLSKeylog
  <2>1. /\ collector = "embed" /\ collector' = "listen" /\ watcher' = "idle"
        /\ UNCHANGED <<held, received, left, taken>>
        /\ UNCHANGED <<stray, out, failed>> /\ UNCHANGED overlap
    BY <1>17 DEF EmbedTLSKeylog, At, Continue, overlap
  <2>2. Balanced /\ InOrder /\ ~Locked /\ ~Locked' /\ Block \in Nat
    BY <1>3, <2>1, OneMoreBlock DEF BeforeFlush, Locked, SecretsInv, BeforeEmbed
  <2>3. HeldWhole'
    BY <2>1 DEF HeldWhole
  <2>4. (1 + received + Len(secrets)) * Block \in Nat
    BY <1>1, OneMoreBlock
  <2>5. CASE UNCHANGED <<buffer, secrets>>
    <3>1. Given = 0 /\ Given' = 0 /\ InFile' = InFile
      BY <2>2, <2>5 DEF Given, InFile, buffer
    <3>2. Balanced'
      BY <2>1, <2>2, <2>5, <3>1 DEF Balanced
    <3>3. InOrder' /\ CountTypes'
      BY <2>1, <2>2, <2>5, TypeParts DEF InOrder, CountTypes, buffer, Locked
    <3> QED
      BY <2>1, <2>3, <3>2, <3>3, FilesOrderly DEF BeforeFlush
  <2>6. CASE NgWrite(Block) /\ \E lines : secrets' = Append(secrets, lines)
    <3>1. /\ buffered' \in Nat /\ start' \in Nat /\ disk' \in Nat
          /\ InFile \in Nat /\ InFile' = InFile + Block /\ Given = 0 /\ Given' = 0
          /\ InOrder'
      BY <2>1, <2>2, <2>6, TypeParts, WriteOrderly
    <3>2. Len(secrets') = Len(secrets) + 1
      <4>1. PICK lines : secrets' = Append(secrets, lines)
        BY <2>6
      <4> QED
        BY <1>1, <4>1
    <3>3. (1 + received' + Len(secrets')) * Block = (1 + received + Len(secrets)) * Block + Block
      BY <1>1, <2>1, <3>2, OneMoreBlock
    <3>4. Balanced'
      BY <1>1, <2>1, <2>2, <2>4, <3>1, <3>3 DEF Balanced
    <3>5. CountTypes'
      BY <2>1, <3>1, TypeParts DEF CountTypes
    <3> QED
      BY <2>1, <2>3, <3>1, <3>4, <3>5, FilesOrderly DEF BeforeFlush
  <2> QED
    BY <1>17, <2>5, <2>6 DEF EmbedTLSKeylog
<1>18. CASE FlushFile \/ FlushWriteOut \/ FlushReset \/ CloseFile
  BY <1>18, FlushFileOK, FlushWriteOutOK, FlushResetOK, CloseFileOK
<1>19. CASE BeginBlock \/ WriteBlock
  BY <1>19, WatcherStepOK
<1> QED
  BY <1>4, <1>5, <1>6, <1>7, <1>9, <1>10, <1>11, <1>12, <1>13, <1>14, <1>15, <1>16, <1>17,
     <1>18, <1>19 DEF Next, CollectorOwn, Keylog

-----------------------------------------------------------------------------
(* The invariant, and what follows from it.                                 *)

LEMMA ShutdownInit == Init => ShutdownInv
<1> SUFFICES ASSUME Init PROVE ShutdownInv
  OBVIOUS
<1>1. LogTypes /\ logged \in Nat
  BY ShutdownAssumption, EmptySeq DEF Init, LogTypes
<1>2. ControlTypes /\ CountTypes
  <2>1. ControlTypes
    BY DEF Init, ControlTypes
  <2>2. received = 0 /\ held = 0 /\ buffered = 0 /\ start = 0 /\ disk = 0 /\ out = 0 /\ taken = 0
        /\ left = 0 /\ stray = FALSE /\ failed = FALSE
    BY DEF Init
  <2>4. left \in 0..Block
    BY <2>2 DEF Block
  <2>5. stray \in BOOLEAN /\ failed \in BOOLEAN
    BY <2>2
  <2>3. CountTypes
    BY <2>2, <2>4, <2>5 DEF CountTypes
  <2> QED
    BY <2>1, <2>3
<1>3. HeldWhole
  <2>1. held = 0 * Block
    BY DEF Init, Block
  <2> QED
    BY <2>1 DEF HeldWhole
<1>4. NeverOpened
  BY DEF Init, NeverOpened
<1>5. FilesInv
  BY <1>4 DEF FilesInv, Init, BeforeFlush, Flushing, AfterFlush
<1>6. SignalsInv
  BY DEF Init, SignalsInv
<1>7. /\ secrets = <<>> /\ unwritten = <<>> /\ keylogOffset = 0 /\ watcher = "off"
      /\ Len(secrets) = 0 /\ Len(unwritten) = 0
      /\ DOMAIN secrets = {} /\ DOMAIN unwritten = {}
  BY EmptySeq DEF Init
<1>8. SecretsInv
  BY <1>1, <1>7 DEF SecretsInv, SecretsInOrder, LastLine, Locked
<1> QED
  BY <1>1, <1>2, <1>3, <1>5, <1>6, <1>8, TypeParts DEF ShutdownInv

LEMMA ShutdownStep == ShutdownInv /\ [Next]_vars => ShutdownInv'
<1> SUFFICES ASSUME ShutdownInv, [Next]_vars PROVE ShutdownInv'
  OBVIOUS
<1>1. TypeOK /\ HeldWhole /\ FilesInv /\ SignalsInv /\ SecretsInv
  BY DEF ShutdownInv
<1>2. ControlTypes'
  BY <1>1, TypeParts, ControlStep
<1>3. SignalsInv'
  BY <1>1, TypeParts, SignalsStep
<1>4. LogTypes' /\ SecretsInv'
  BY <1>1, SecretsStep
<1>5. CountTypes' /\ HeldWhole' /\ FilesInv'
  BY <1>1, FilesStep DEF FileStepOK
<1>6. TypeOK'
  BY <1>2, <1>4, <1>5 DEF TypeOK, ControlTypes, CountTypes, LogTypes
<1> QED
  BY <1>3, <1>4, <1>5, <1>6 DEF ShutdownInv

LEMMA ShutdownInvariance == Spec => []ShutdownInv
BY ShutdownInit, ShutdownStep, PTL DEF Spec

\* When the collector has flushed and its file was ever opened, all is on disk.
LEMMA OnDisk ==
  ASSUME ShutdownInv, collector \in AfterFlush,
         captureEnded \/ main = "stopped" \/ handler = "stopped"
  PROVE  FileComplete
<1>1. ~NeverOpened
  BY DEF NeverOpened
<1> QED
  BY <1>1 DEF ShutdownInv, FilesInv

\* Every variable of the shutdown keeps its type, for any number of packets and lines.
THEOREM ShutdownTypes == Spec => []TypeOK
<1>1. ShutdownInv => TypeOK
  BY DEF ShutdownInv
<1> QED
  BY <1>1, ShutdownInvariance, PTL

\* Whoever stopActivePacketCapture returned true to, in the UI's goroutine or the
\* SIGTERM handler, finds every packet taken from the channel in the file, in its place.
THEOREM StopInvariance == Spec => []StopIsComplete
<1>1. ASSUME ShutdownInv PROVE StopIsComplete
  <2>1. SUFFICES ASSUME main = "stopped" \/ handler = "stopped" PROVE FileComplete
    BY DEF StopIsComplete
  <2>2. collector \in AfterFlush
    BY <1>1, <2>1 DEF ShutdownInv, SignalsInv, AfterFlush, AfterClose
  <2> QED
    BY <1>1, <2>1, <2>2, OnDisk
<1> QED
  BY <1>1, ShutdownInvariance, PTL

\* onLimitReached runs only when every packet is in the file.
THEOREM AnnouncementInvariance == Spec => []AnnouncedWhenOnDisk
<1>1. ASSUME ShutdownInv PROVE AnnouncedWhenOnDisk
  <2>1. SUFFICES ASSUME captureEnded PROVE FileComplete
    BY DEF AnnouncedWhenOnDisk
  <2>2. collector \in AfterFlush
    BY <1>1, <2>1 DEF ShutdownInv, SignalsInv, AfterFlush, AfterClose
  <2> QED
    BY <1>1, <2>1, <2>2, OnDisk
<1> QED
  BY <1>1, ShutdownInvariance, PTL

\* embedTLSKeylog and its watcher write each line of the key log once and in order.
THEOREM SecretsInvariance == Spec => []SecretsInOrder
<1>1. ShutdownInv => SecretsInOrder
  BY DEF ShutdownInv, SecretsInv
<1> QED
  BY <1>1, ShutdownInvariance, PTL
=============================================================================
