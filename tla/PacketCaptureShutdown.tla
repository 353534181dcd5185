------------------------ MODULE PacketCaptureShutdown ------------------------
(***************************************************************************)
(* How a packet capture ends: the deferred clean-up of                     *)
(* startPacketCollector (cmd/packet_capture.go), the SIGTERM handler and   *)
(* onLimitReached (cmd/root.go), and the main goroutine that runs the      *)
(* terminal UI (cmd/flow_display.go), and the goroutine that embeds the    *)
(* TLS key log.  The question is what has reached the pcapng file when the *)
(* process is gone.                                                        *)
(*                                                                         *)
(* Captured data moves  held -> buffered -> disk : the correlation buffer, *)
(* the bufio.Writer inside NgWriter, the file.  They are counted in half   *)
(* blocks, because bufio writes out whatever is full: a file cut between   *)
(* two halves ends in a truncated block.                                   *)
(*                                                                         *)
(* Whoever writes holds ngwMu, and a write under that lock is one step,    *)
(* except those of the key log's watcher: the collector's deferred Flush   *)
(* takes no lock, so the two are interleaved read by read and write by     *)
(* write of the buffer's length b.n.                                       *)
(***************************************************************************)
EXTENDS Integers, Sequences

CONSTANTS
  MaxReceived,   \* bound: packets received
  MaxSecrets     \* bound: lines of the TLS key log

ASSUME ShutdownAssumption == MaxReceived \in Nat /\ MaxSecrets \in Nat

Block == 2   \* half blocks in a pcapng block

VARIABLES
  isBackground,   \* the options: no UI, the collector runs in the main goroutine
  correlate,      \* plaintextCaptureEnabled(): packets go through the wire buffer
  process,     \* "alive", or which goroutine ended it: "sigterm", "main"
  main,        \* the main goroutine: up to its UI, and how it stopped the capture after
  handler,     \* the SIGTERM goroutine, likewise
  collector,   \* the collector goroutine's next statement
  completed,   \* its local variable of the same name
  received,    \* packets taken from the flowPackets channel
  held, buffered,   \* half blocks in the correlation buffer and in bufio, where they are b.n
  start,       \* how many came before those in the buffer
  disk,        \* the file begins with that many halves, in order and each once
  stray,       \* and then with something twice, out of order or from a reset buffer
  out,         \* the b.n that the deferred Flush has read
  failed,      \* bufio's err, which makes every later write and flush fail
  writer,      \* activeNgw and activePcapFile are set
  stop,        \* activePacketStop is set
  ctxDone,     \* cancel() was called
  doneClosed,  \* the done channel is closed
  captureEnded,
  daemonSet,   \* the agents' DaemonSet exists
  keylog,        \* tlsKeylogPath is set; the lines of that file are 1..logged
  logged,
  keylogOffset,  \* its lines that are in secrets blocks, as the goroutine counts them
  watcher,       \* watchTLSKeylog: not running, between two ticks, or where in its write
  left, taken,   \* half blocks it has still to give to bufio, and the b.n that its flush read
  unwritten,     \* the lines it has read and not written yet
  secrets,       \* the secrets blocks given to bufio, in order, each with the lines in it
  flushed        \* how many of them there were when the deferred Flush began

flags == <<isBackground, correlate, keylog>>
buffer == <<buffered, start, disk>>
overlap == <<stray, out, failed>>
files == <<held, buffer, overlap>>
registry == <<writer, stop>>
goroutines == <<main, handler, collector>>
signals == <<ctxDone, doneClosed, captureEnded, daemonSet>>
tls == <<logged, keylogOffset, watcher, left, taken, unwritten, secrets, flushed>>
apart == <<flags, tls>>
vars == <<flags, process, goroutines, completed, received, files, registry, signals, tls>>

Init ==
  /\ isBackground \in BOOLEAN /\ correlate \in BOOLEAN
  /\ process = "alive"
  /\ main = "boot" /\ handler = "idle" /\ collector = "open"
  /\ completed = FALSE /\ received = 0
  /\ held = 0 /\ buffered = 0 /\ start = 0 /\ disk = 0 /\ out = 0
  /\ stray = FALSE /\ failed = FALSE
  /\ writer = FALSE /\ stop = FALSE
  /\ ctxDone = FALSE /\ doneClosed = FALSE /\ captureEnded = FALSE
  /\ daemonSet = TRUE
  /\ keylog \in BOOLEAN /\ logged \in 0..MaxSecrets /\ (keylog \/ logged = 0)
  /\ keylogOffset = 0 /\ watcher = "off" /\ left = 0 /\ taken = 0
  /\ unwritten = <<>> /\ secrets = <<>> /\ flushed = 0

Alive == process = "alive"

\* ngwMu: the other holders take and release it within one step.
Locked == watcher \in {"write", "flush", "reset"}

\* A write under ngwMu: bufio keeps it, or writes out what it has and keeps an end of it.
NgWrite(halves) ==
  \E kept \in 0..halves \cup {buffered + halves} :
    /\ buffered' = kept
    /\ start' = start + (buffered + halves - kept)
    /\ disk' = disk + (buffered + halves - kept)

\* A flush under ngwMu.
NgFlush == buffered' = 0 /\ start' = start + buffered /\ disk' = disk + buffered

\* A write to the file itself, the first halves of it those that follow in order.
ToFile(halves, inOrder) ==
  IF stray \/ start # disk
  THEN stray' = TRUE /\ UNCHANGED disk
  ELSE disk' = disk + inOrder /\ stray' = (halves > inOrder)

\* b.wr.Write(b.buf[0:n]): behind b.n the buffer has what was flushed before.
WriteOut(n) == ToFile(n, IF n <= buffered THEN n ELSE buffered)

-----------------------------------------------------------------------------
(* The collector goroutine, statement by statement.                         *)

At(s) == Alive /\ collector = s

Continue(s) == collector' = s /\ UNCHANGED <<process, main, handler>>

\* createOutputFile and NewNgWriter, which buffers the section header.
OpenOutput ==
  /\ At("open")
  /\ buffered' = Block
  /\ Continue("setWriter")
  /\ UNCHANGED <<apart, completed, received, held, start, disk, overlap, registry, signals>>

\* Either of them failing ends the collector, not the capture.
OpenFails ==
  /\ At("open")
  /\ Continue("announce")
  /\ UNCHANGED <<apart, completed, received, files, registry, signals>>

SetActivePacketWriter ==
  /\ At("setWriter") /\ ~Locked
  /\ writer' = TRUE
  /\ Continue("setStop")
  /\ UNCHANGED <<apart, completed, received, files, stop, signals>>

SetActivePacketStop ==
  /\ At("setStop") /\ ~Locked
  /\ stop' = TRUE
  /\ Continue(IF keylog THEN "embed" ELSE "listen")
  /\ UNCHANGED <<apart, completed, received, files, writer, signals>>

\* embedTLSKeylog; a file that is not there yet is left to the watcher.
EmbedTLSKeylog ==
  /\ At("embed")
  /\ \E there \in BOOLEAN :
       LET lines == IF there THEN [i \in 1..logged |-> i] ELSE <<>>
       IN  /\ keylogOffset' = Len(lines)
           /\ IF lines = <<>>
              THEN UNCHANGED <<buffer, secrets>>
              ELSE NgWrite(Block) /\ secrets' = Append(secrets, lines)
  /\ watcher' = "idle"
  /\ Continue("listen")
  /\ UNCHANGED <<flags, completed, received, held, overlap, registry, signals>>
  /\ UNCHANGED <<logged, left, taken, unwritten, flushed>>

StartCollector ==
  /\ At("listen")
  /\ \/ Continue("receive")
     \/ Continue("closeBuffer")   \* the port is taken
  /\ UNCHANGED <<apart, completed, received, files, registry, signals>>

\* One turn of the loop; reaching maxBytes ends it after the packet is handled.
ReceivePacket ==
  /\ At("receive") /\ received < MaxReceived
  /\ received' = received + 1
  /\ IF correlate
     THEN held' = held + Block /\ UNCHANGED buffer
     ELSE ~Locked /\ NgWrite(Block) /\ UNCHANGED held
  /\ \/ Continue("receive") /\ UNCHANGED completed
     \/ Continue("closeBuffer") /\ completed' = TRUE
  /\ UNCHANGED <<apart, overlap, registry, signals>>

\* A mistake to catch: a flush that does not look whether there is a packet.
FlushUnchecked ==
  /\ Alive /\ collector \in {"receive", "closeBuffer"} /\ ~Locked
  /\ NgWrite(Block) /\ held' = held - Block
  /\ UNCHANGED <<apart, process, goroutines, completed, received, overlap, registry, signals>>

\* flushLoop of the correlation buffer writes what the window has passed.
FlushExpired ==
  /\ Alive /\ collector \in {"receive", "closeBuffer"} /\ held > 0 /\ ~Locked
  /\ NgWrite(Block) /\ held' = held - Block
  /\ UNCHANGED <<apart, process, goroutines, completed, received, overlap, registry, signals>>

\* A mistake to catch: the time is only looked at once packets arrive.
DeadlineOnTraffic ==
  /\ At("receive") /\ received > 0
  /\ completed' = TRUE
  /\ Continue("closeBuffer")
  /\ UNCHANGED <<apart, received, files, registry, signals>>

DeadlineReached ==
  /\ At("receive")
  /\ completed' = TRUE
  /\ Continue("closeBuffer")
  /\ UNCHANGED <<apart, received, files, registry, signals>>

ContextDone ==
  /\ At("receive") /\ ctxDone
  /\ completed' = TRUE
  /\ Continue("closeBuffer")
  /\ UNCHANGED <<apart, received, files, registry, signals>>

\* Deferred calls, last registered first.  collector.Close and wireBuf.Close, which
\* needs ngwMu for each packet that is left:
CloseBuffer ==
  /\ At("closeBuffer")
  /\ IF held = 0 THEN UNCHANGED buffer ELSE ~Locked /\ NgWrite(held)
  /\ held' = 0
  /\ Continue("clearWriter")
  /\ UNCHANGED <<apart, completed, received, overlap, registry, signals>>

ClearActivePacketWriter ==
  /\ At("clearWriter") /\ ~Locked
  /\ writer' = FALSE /\ stop' = FALSE
  /\ Continue("flush")
  /\ UNCHANGED <<apart, completed, received, files, signals>>

\* A mistake to catch: the file is closed without NgWriter's Flush.
FlushNothing ==
  /\ At("flush")
  /\ Continue("closeFile")
  /\ UNCHANGED <<apart, completed, received, files, registry, signals>>

\* The deferred ngw.Flush, without ngwMu: b.n is read, ...
FlushFile ==
  /\ At("flush")
  /\ flushed' = Len(secrets) /\ out' = buffered
  /\ Continue(IF buffered = 0 THEN "closeFile" ELSE "writeOut")
  /\ UNCHANGED <<flags, completed, received, held, buffer, stray, failed, registry, signals>>
  /\ UNCHANGED <<logged, keylogOffset, watcher, left, taken, unwritten, secrets>>

\* ... that much of the buffer goes to the file, ...
FlushWriteOut ==
  /\ At("writeOut")
  /\ WriteOut(out)
  /\ Continue("reset")
  /\ UNCHANGED <<apart, completed, received, held, buffered, start, out, failed, registry, signals>>

\* ... and b.n is set to 0; or it is found to be more than what was written, which is
\* ErrShortWrite; or the watcher, which is adding to it, sets it back.
FlushReset ==
  /\ At("reset")
  /\ \/ buffered' = 0 /\ start' = start + buffered /\ UNCHANGED failed
     \/ /\ buffered > out /\ failed' = TRUE
        /\ buffered' = buffered - out /\ start' = start + out
     \/ watcher = "write" /\ left > 0 /\ UNCHANGED <<buffered, start, failed>>
  /\ out' = 0
  /\ Continue("closeFile")
  /\ UNCHANGED <<apart, completed, received, held, disk, stray, registry, signals>>

\* From here on the watcher's writes come to nothing: it is left out.  A block that
\* it was writing stays as it is.
CloseFile ==
  /\ At("closeFile")
  /\ watcher' = IF Locked THEN "cut" ELSE "off"
  /\ left' = 0 /\ taken' = 0
  /\ Continue("announce")
  /\ UNCHANGED <<flags, completed, received, files, registry, signals>>
  /\ UNCHANGED <<logged, keylogOffset, unwritten, secrets, flushed>>

\* onLimitReached, if the capture completed.  app.Stop has an effect only on
\* an application whose Run has a screen.
Announce ==
  /\ At("announce")
  /\ IF completed
     THEN /\ captureEnded' = TRUE
          /\ main' = IF main = "ui" THEN "left" ELSE main
          /\ collector' = IF isBackground THEN "deleteDaemonSet" ELSE "closeDone"
     ELSE /\ collector' = "closeDone"
          /\ UNCHANGED <<captureEnded, main>>
  /\ UNCHANGED <<apart, process, handler, completed, received, files, registry>>
  /\ UNCHANGED <<ctxDone, doneClosed, daemonSet>>

\* The API call may fail: the error is logged.
DeleteDaemonSet ==
  /\ At("deleteDaemonSet")
  /\ daemonSet' \in {daemonSet, FALSE}
  /\ Continue("closeDone")
  /\ UNCHANGED <<apart, completed, received, files, registry, ctxDone, doneClosed, captureEnded>>

\* A mistake to catch: done stays open.
CancelOnly ==
  /\ At("closeDone")
  /\ ctxDone' = TRUE
  /\ Continue("returned")
  /\ UNCHANGED <<apart, completed, received, files, registry, doneClosed, captureEnded, daemonSet>>

\* close(done), and after it the first deferred call, cancel.
CloseDone ==
  /\ At("closeDone")
  /\ doneClosed' = TRUE /\ ctxDone' = TRUE
  /\ Continue("returned")
  /\ UNCHANGED <<apart, completed, received, files, registry, captureEnded, daemonSet>>

-----------------------------------------------------------------------------
(* The key log, written by the traced programs, and its watcher.            *)

LogSecret ==
  /\ Alive /\ keylog /\ logged < MaxSecrets
  /\ logged' = logged + 1
  /\ UNCHANGED <<flags, process, goroutines, completed, received, files, registry, signals>>
  /\ UNCHANGED <<keylogOffset, watcher, left, taken, unwritten, secrets, flushed>>

WatcherStep(from, to) ==
  /\ Alive /\ watcher = from /\ watcher' = to
  /\ UNCHANGED <<flags, process, goroutines, completed, received, held, out, failed>>
  /\ UNCHANGED <<registry, signals, logged, flushed>>

\* A tick: what the file holds after the offset; a SIGTERM ends the goroutine.
ReadSecrets ==
  /\ unwritten = <<>> /\ handler = "idle" /\ keylogOffset < logged
  /\ unwritten' = [i \in 1..(logged - keylogOffset) |-> keylogOffset + i]
  /\ WatcherStep("idle", "idle")
  /\ UNCHANGED <<buffer, stray, keylogOffset, left, taken, secrets>>

\* WriteDecryptionSecretsBlock under ngwMu, a chain of writes to bufio.
BeginBlock ==
  /\ unwritten # <<>>
  /\ left' = Block
  /\ WatcherStep("idle", "write")
  /\ UNCHANGED <<buffer, stray, keylogOffset, taken, unwritten, secrets>>

\* bufio keeps it or, with nothing buffered, passes it on.
GiveHalf ==
  /\ left > 0 /\ ~failed
  /\ left' = left - 1
  /\ \/ buffered' = buffered + 1 /\ UNCHANGED <<start, disk, stray>>
     \/ buffered = 0 /\ ToFile(1, 1) /\ start' = start + 1 /\ UNCHANGED buffered
  /\ WatcherStep("write", "write")
  /\ UNCHANGED <<keylogOffset, taken, unwritten, secrets>>

\* The buffer is full: bufio flushes it first, in the same steps as the collector.
FillAndFlush ==
  /\ left > 0 /\ ~failed /\ buffered > 0
  /\ taken' = buffered
  /\ WatcherStep("write", "flush")
  /\ UNCHANGED <<buffer, stray, keylogOffset, left, unwritten, secrets>>

WatcherWriteOut ==
  /\ WriteOut(taken)
  /\ WatcherStep("flush", "reset")
  /\ UNCHANGED <<buffered, start, keylogOffset, left, taken, unwritten, secrets>>

WatcherReset ==
  /\ buffered' = 0 /\ start' = start + buffered /\ taken' = 0
  /\ WatcherStep("reset", "write")
  /\ UNCHANGED <<disk, stray, keylogOffset, left, unwritten, secrets>>

\* A mistake to catch: the offset is that of the last block.
WriteSecretsLast ==
  /\ left = 0
  /\ secrets' = Append(secrets, unwritten) /\ keylogOffset' = Len(unwritten)
  /\ unwritten' = <<>>
  /\ WatcherStep("write", "idle")
  /\ UNCHANGED <<buffer, stray, left, taken>>

\* All of the block is given, and ngwMu released.
WriteSecrets ==
  /\ left = 0
  /\ secrets' = Append(secrets, unwritten) /\ keylogOffset' = keylogOffset + Len(unwritten)
  /\ unwritten' = <<>>
  /\ WatcherStep("write", "idle")
  /\ UNCHANGED <<buffer, stray, left, taken>>

\* A write after bufio's error: the offset stays, and the lines are read again.
GiveUp ==
  /\ left > 0 /\ failed
  /\ left' = 0 /\ unwritten' = <<>>
  /\ WatcherStep("write", "idle")
  /\ UNCHANGED <<buffer, stray, keylogOffset, taken, secrets>>

-----------------------------------------------------------------------------
(* The main goroutine.                                                      *)

MainStep(from, to) ==
  /\ Alive /\ main = from /\ main' = to
  /\ UNCHANGED <<apart, process, handler, collector, completed, received, files, registry>>

CreateFlowDisplay ==
  /\ ~isBackground
  /\ MainStep("boot", "created")
  /\ UNCHANGED signals

\* app.Run, which fails at once without a terminal.
RunApplication ==
  /\ \/ MainStep("created", "ui")
     \/ MainStep("created", "left")
  /\ UNCHANGED signals

PressCtrlC ==
  /\ MainStep("ui", "left")
  /\ UNCHANGED signals

\* stopActivePacketCapture after the UI: cancel and wait, if there is a stop.
StopFromUI ==
  /\ ~Locked
  /\ IF stop
     THEN MainStep("left", "waiting") /\ ctxDone' = TRUE
     ELSE MainStep("left", "unstopped") /\ UNCHANGED ctxDone
  /\ UNCHANGED <<doneClosed, captureEnded, daemonSet>>

\* A mistake to catch: cancelling without waiting for done.
StopFromUIAtOnce ==
  /\ MainStep("waiting", "stopped")
  /\ UNCHANGED signals

StopFromUIReturns ==
  /\ doneClosed
  /\ MainStep("waiting", "stopped")
  /\ UNCHANGED signals

\* main.main returns, and every other goroutine dies with it.
MainReturns ==
  /\ Alive
  /\ IF isBackground THEN collector = "returned" ELSE main \in {"stopped", "unstopped"}
  /\ process' = "main"
  /\ UNCHANGED <<apart, goroutines, completed, received, files, registry, signals>>

-----------------------------------------------------------------------------
(* The SIGTERM goroutine.                                                   *)

HandlerStep(from, to) ==
  /\ Alive /\ handler = from /\ handler' = to
  /\ UNCHANGED <<apart, process, main, collector, completed, received, registry>>

Sigterm ==
  /\ HandlerStep("idle", "signalled")
  /\ UNCHANGED <<files, signals>>

StopFromHandler ==
  /\ ~Locked
  /\ IF stop
     THEN HandlerStep("signalled", "waiting") /\ ctxDone' = TRUE
     ELSE HandlerStep("signalled", "flushing") /\ UNCHANGED ctxDone
  /\ UNCHANGED <<files, doneClosed, captureEnded, daemonSet>>

StopFromHandlerReturns ==
  /\ doneClosed
  /\ HandlerStep("waiting", "stopped")
  /\ UNCHANGED <<files, signals>>

FlushActivePacketWriter ==
  /\ HandlerStep("flushing", "flushed") /\ ~Locked
  /\ IF writer THEN NgFlush ELSE UNCHANGED buffer
  /\ UNCHANGED <<held, overlap, signals>>

\* os.Exit skips the deferred calls of every goroutine.
Exit ==
  /\ Alive /\ handler \in {"stopped", "flushed"}
  /\ process' = "sigterm"
  /\ UNCHANGED <<apart, goroutines, completed, received, files, registry, signals>>

-----------------------------------------------------------------------------

CollectorOwn ==
  \/ OpenOutput \/ OpenFails \/ SetActivePacketWriter \/ SetActivePacketStop
  \/ EmbedTLSKeylog \/ StartCollector \/ DeadlineReached \/ ContextDone
  \/ CloseBuffer \/ ClearActivePacketWriter \/ FlushFile \/ FlushWriteOut \/ FlushReset
  \/ CloseFile \/ Announce \/ DeleteDaemonSet \/ CloseDone

MainNext ==
  \/ CreateFlowDisplay \/ RunApplication \/ PressCtrlC
  \/ StopFromUI \/ StopFromUIReturns \/ MainReturns

HandlerNext ==
  Sigterm \/ StopFromHandler \/ StopFromHandlerReturns \/ FlushActivePacketWriter \/ Exit

\* The watcher with ngwMu in its hands.
WriteBlock ==
  GiveHalf \/ FillAndFlush \/ WatcherWriteOut \/ WatcherReset \/ WriteSecrets \/ GiveUp

Keylog == LogSecret \/ ReadSecrets \/ BeginBlock \/ WriteBlock

Next == CollectorOwn \/ ReceivePacket \/ FlushExpired \/ MainNext \/ HandlerNext \/ Keylog

\* Goroutines that can run do run, and a deadline that was set is reached; who has
\* ngwMu goes on until it is released.  No packet and no key log line has to arrive,
\* and neither the user nor the kubelet has to intervene.
Fairness ==
  /\ WF_vars(CollectorOwn) /\ WF_vars(WriteBlock)
  /\ WF_vars(CreateFlowDisplay \/ RunApplication \/ StopFromUI \/ StopFromUIReturns
               \/ MainReturns)
  /\ WF_vars(StopFromHandler \/ StopFromHandlerReturns \/ FlushActivePacketWriter \/ Exit)

Spec == Init /\ [][Next]_vars

FairSpec == Spec /\ Fairness

-----------------------------------------------------------------------------
(* Properties                                                               *)

TypeOK ==
  /\ process \in {"alive", "sigterm", "main"}
  /\ main \in {"boot", "created", "ui", "left", "waiting", "stopped", "unstopped"}
  /\ handler \in {"idle", "signalled", "waiting", "stopped", "flushing", "flushed"}
  /\ collector \in {"open", "setWriter", "setStop", "embed", "listen", "receive",
                    "closeBuffer", "clearWriter", "flush", "writeOut", "reset", "closeFile",
                    "announce", "deleteDaemonSet", "closeDone", "returned"}
  /\ watcher \in {"off", "idle", "write", "flush", "reset", "cut"}
  /\ {received, held, buffered, start, disk, out, taken, flushed} \subseteq Nat /\ left \in 0..Block
  /\ {isBackground, correlate, completed, writer, stop, ctxDone, doneClosed, captureEnded,
      daemonSet, keylog, stray, failed} \subseteq BOOLEAN
  /\ {logged, keylogOffset} \subseteq 0..MaxSecrets
  /\ unwritten \in Seq(1..MaxSecrets) /\ secrets \in Seq(Seq(1..MaxSecrets))

\* The section header, every packet taken from the channel and the secrets blocks that
\* were given to bufio before the deferred Flush.
Captured == (1 + received + flushed) * Block

\* The watcher wrote nothing from that Flush to the close of the file.
Undisturbed == Len(secrets) = flushed /\ ~failed /\ watcher \in {"idle", "off"}

\* The file begins with all of it, in order and each once.  Only what the watcher was
\* writing meanwhile can have left something behind it.
FileComplete ==
  /\ held = 0
  /\ disk >= Captured
  /\ Undisturbed => buffered = 0 /\ disk = Captured /\ ~stray

\* "stopActivePacketCapture waits for pending plaintext, PCAP and file flushes":
\* whoever it returned true to, the UI's goroutine or the SIGTERM handler, finds every
\* packet on disk, in its place, although the flush it waited for takes no lock against
\* the key log's watcher; what that watcher left behind the packets may be anything,
\* but if it wrote nothing there is nothing.
StopIsComplete ==
  main = "stopped" \/ handler = "stopped" => FileComplete

\* "Announce completion only after deferred buffer/file flushes have run": when
\* captureEnded is seen (by the display, the shell, or DeleteDaemonSet in the
\* background) the packets are on disk and in their places, whichever of the limits or
\* stops ended it and however the unlocked flush overlapped the watcher's.
AnnouncedWhenOnDisk ==
  captureEnded => FileComplete

\* The line of the key log that the first b secrets blocks end with.
LastLine(b) == IF b = 0 THEN 0 ELSE secrets[b][Len(secrets[b])]

\* The secrets blocks given to the NgWriter hold the lines of the key log, in order and
\* each once, however the key log grows between the first embedding, the watcher's reads
\* and its writes, and although a write that failed is tried again.
SecretsInOrder ==
  \A b \in DOMAIN secrets :
    /\ secrets[b] # <<>>
    /\ \A i \in DOMAIN secrets[b] : secrets[b][i] = LastLine(b - 1) + i
    /\ LastLine(b) <= logged

\* What "Register the writer so a SIGTERM can flush buffered packets before the
\* process exits" promises: a process that ended after the collector took its
\* writer back left no received packet in memory.
ExitLosesNoPacket ==
  process # "alive" /\ received > 0 /\ ~writer => held = 0 /\ buffered = 0

\* A SIGTERM ends the process: the handler, the collector it waits for and the
\* UI's goroutine, which may wait for it too, never block one another.
SigtermExits ==
  handler = "signalled" ~> process # "alive"

\* A capture that receives nothing still ends at its deadline, and with it the
\* process, when the UI it has to close is up.
DeadlineExits ==
  collector = "receive" /\ (isBackground \/ main = "ui") ~> process # "alive"
=============================================================================
