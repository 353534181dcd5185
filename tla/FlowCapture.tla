----------------------------- MODULE FlowCapture -----------------------------
(***************************************************************************)
(* A flow capture (cmd/flow_capture.go): the loop that receives flows,     *)
(* writes them to a database and to a text file, and looks at the limits;  *)
(* onLimitReached (cmd/root.go), which in the background asks the cluster  *)
(* to delete the agents; the main goroutine and the SIGTERM handler.       *)
(*                                                                         *)
(* The ExitChannel of flowlogs-pipeline is never set up by this program:   *)
(* the goroutine that waits for it, to close the channel, the collector    *)
(* and the database, waits forever and is not modelled.                    *)
(***************************************************************************)
EXTENDS Integers

CONSTANTS
  MaxSize,      \* bound: the largest flow, in bytes
  ByteLimits,   \* values of --maxbytes
  CountBytes,   \* bound: totalBytes is counted up to here; a capture with maxBytes
                \* above it is one that never gets that far
  MaxTime,      \* maxTime, in ticks
  QueueLength   \* capacity of the flowPackets channel

ASSUME CaptureAssumption ==
  /\ ByteLimits \subseteq Nat /\ CountBytes \in Nat /\ MaxTime \in Nat
  /\ MaxSize \in Nat \ {0} /\ QueueLength \in Nat \ {0}

VARIABLES
  isBackground,  \* the flags: no UI, the loop runs in the main goroutine
  maxBytes,
  process,       \* "alive", or what ended it: "sigterm", "main", "fatal", "panic"
  main,          \* the main goroutine, when it runs the UI: "boot", "ui", "left"
  loop,          \* the loop's next statement
  db,            \* "closed", "open" or "nil"
  queue,         \* flows in the channel, each of them acknowledged to its agent
  size,          \* size of the flow in the loop's hands
  totalBytes,    \* the size of the text file
  clock,         \* time since startupTime, up to the first tick after maxTime
  stopReceived,
  captureEnded,
  agents,        \* the DaemonSet exists
  deletions      \* times the cluster was asked to delete it, counted up to 2

flow == <<queue, size>>
flags == <<isBackground, maxBytes>>
limits == <<captureEnded, agents, deletions>>
vars == <<flags, process, main, loop, db, flow, totalBytes, clock, stopReceived, limits>>

Init ==
  /\ isBackground \in BOOLEAN /\ maxBytes \in ByteLimits
  /\ process = "alive" /\ main = "boot" /\ loop = "open" /\ db = "closed"
  /\ queue = 0 /\ size = 0 /\ totalBytes = 0 /\ clock = 0
  /\ stopReceived = FALSE /\ captureEnded = FALSE
  /\ agents = TRUE /\ deletions = 0

Alive == process = "alive"

-----------------------------------------------------------------------------
(* The loop, statement by statement.                                        *)

At(s) == Alive /\ loop = s

OutsideLoopUnchanged == UNCHANGED <<flags, process, main, clock, stopReceived>>

\* initFlowDB returns nil when the database cannot be set up.
OpenOutput ==
  /\ At("open")
  /\ db' \in {"open", "nil"} /\ loop' = "listen"
  /\ OutsideLoopUnchanged /\ UNCHANGED <<flow, totalBytes, limits>>

\* log.Fatalf, when one of the two files cannot be created.
OpenFails ==
  /\ At("open")
  /\ process' = "fatal"
  /\ UNCHANGED <<flags, main, loop, db, flow, totalBytes, clock, stopReceived, limits>>

StartCollector ==
  /\ At("listen")
  /\ loop' \in {"receive", "returned"}
  /\ OutsideLoopUnchanged /\ UNCHANGED <<db, flow, totalBytes, limits>>

ReceiveFlow ==
  /\ At("receive") /\ queue > 0
  /\ queue' = queue - 1
  /\ \/ stopReceived /\ loop' = "returned" /\ UNCHANGED size
     \/ ~stopReceived /\ loop' = "insert" /\ size' \in 1..MaxSize
  /\ OutsideLoopUnchanged /\ UNCHANGED <<db, totalBytes, limits>>

\* An error of the insertion is logged; a nil database panics.
InsertFlow ==
  /\ At("insert")
  /\ \/ db = "open" /\ loop' = "write" /\ UNCHANGED process
     \/ db = "nil" /\ process' = "panic" /\ UNCHANGED loop
  /\ UNCHANGED <<flags, main, db, flow, totalBytes, clock, stopReceived, limits>>

WriteFlow ==
  /\ At("write")
  /\ totalBytes' = IF totalBytes + size < CountBytes THEN totalBytes + size ELSE CountBytes
  /\ size' = 0 /\ loop' = "bytes"
  /\ OutsideLoopUnchanged /\ UNCHANGED <<db, queue, limits>>

WriteFails ==
  /\ At("write")
  /\ size' = 0 /\ loop' = "returned"
  /\ OutsideLoopUnchanged /\ UNCHANGED <<db, queue, totalBytes, limits>>

\* Mistakes to catch: the capture is ended again by every later flow; the caller
\* is never told to exit; the application is not stopped.
EndsAgain(next) ==
  /\ captureEnded' = TRUE
  /\ main' = IF main = "ui" THEN "left" ELSE main
  /\ loop' = IF isBackground THEN "delete" ELSE "returned"

NeverExits(next) ==
  /\ captureEnded' = TRUE
  /\ main' = IF main = "ui" THEN "left" ELSE main
  /\ loop' = IF isBackground /\ ~captureEnded THEN "delete" ELSE next

EndsUnseen(next) ==
  /\ captureEnded' = TRUE
  /\ UNCHANGED main
  /\ loop' = IF captureEnded THEN next ELSE IF isBackground THEN "delete" ELSE "returned"

\* onLimitReached acts once; it is TRUE, and the loop returns, only that time and
\* only with a UI.  app.Stop has an effect only on an application with a screen.
OnLimitReached(next) ==
  \/ captureEnded /\ loop' = next /\ UNCHANGED <<captureEnded, main>>
  \/ /\ ~captureEnded /\ captureEnded' = TRUE
     /\ main' = IF main = "ui" THEN "left" ELSE main
     /\ loop' = IF isBackground THEN "delete" ELSE "returned"

CheckBytes ==
  /\ At("bytes")
  /\ IF totalBytes > maxBytes
     THEN OnLimitReached("time")
     ELSE loop' = "time" /\ UNCHANGED <<captureEnded, main>>
  /\ UNCHANGED <<flags, process, db, flow, totalBytes, clock, stopReceived, agents, deletions>>

\* A mistake to catch: the time is not looked at.
SkipTime ==
  /\ At("time")
  /\ loop' = "receive"
  /\ UNCHANGED <<flags, process, main, db, flow, totalBytes, clock, stopReceived, limits>>

CheckTime ==
  /\ At("time")
  /\ IF clock > MaxTime
     THEN OnLimitReached("receive")
     ELSE loop' = "receive" /\ UNCHANGED <<captureEnded, main>>
  /\ UNCHANGED <<flags, process, db, flow, totalBytes, clock, stopReceived, agents, deletions>>

\* The call may fail: the error is logged.  After it the time is looked at, again
\* if that is where the limit was found, which then changes nothing.
DeleteDaemonSet ==
  /\ At("delete")
  /\ agents' \in {agents, FALSE}
  /\ deletions' = IF deletions < 2 THEN deletions + 1 ELSE 2
  /\ loop' = "time"
  /\ OutsideLoopUnchanged /\ UNCHANGED <<db, flow, totalBytes, captureEnded>>

-----------------------------------------------------------------------------
(* The agents, time, the UI and SIGTERM.                                    *)

OutsideUnchanged == UNCHANGED <<flags, loop, db, size, totalBytes, limits>>

\* A mistake to catch: a channel without a limit.
SendAlways ==
  /\ Alive /\ agents /\ loop \notin {"open", "listen"}
  /\ queue' = IF queue > QueueLength THEN queue ELSE queue + 1
  /\ UNCHANGED <<process, main, clock, stopReceived>> /\ OutsideUnchanged

\* gRPC: Send waits while the channel is full.
Send ==
  /\ Alive /\ agents /\ loop \notin {"open", "listen"}
  /\ queue < QueueLength
  /\ queue' = queue + 1
  /\ UNCHANGED <<process, main, clock, stopReceived>> /\ OutsideUnchanged

Tick ==
  /\ Alive /\ clock <= MaxTime
  /\ clock' = clock + 1
  /\ UNCHANGED <<process, main, queue, stopReceived>> /\ OutsideUnchanged

\* app.Run, which fails at once without a terminal.
RunApplication ==
  /\ Alive /\ ~isBackground /\ main = "boot"
  /\ main' \in {"ui", "left"}
  /\ UNCHANGED <<process, clock, queue, stopReceived>> /\ OutsideUnchanged

PressCtrlC ==
  /\ Alive /\ main = "ui"
  /\ main' = "left"
  /\ UNCHANGED <<process, clock, queue, stopReceived>> /\ OutsideUnchanged

MainReturns ==
  /\ Alive
  /\ IF isBackground THEN loop = "returned" ELSE main = "left"
  /\ process' = "main"
  /\ UNCHANGED <<main, clock, queue, stopReceived>> /\ OutsideUnchanged

Sigterm ==
  /\ Alive /\ ~stopReceived
  /\ stopReceived' = TRUE
  /\ UNCHANGED <<process, main, clock, queue>> /\ OutsideUnchanged

\* There is no packet writer to stop or to flush: os.Exit.
Exit ==
  /\ Alive /\ stopReceived
  /\ process' = "sigterm"
  /\ UNCHANGED <<main, clock, queue, stopReceived>> /\ OutsideUnchanged

-----------------------------------------------------------------------------

Loop ==
  \/ OpenOutput \/ OpenFails \/ StartCollector \/ ReceiveFlow \/ InsertFlow
  \/ WriteFlow \/ WriteFails \/ CheckBytes \/ CheckTime \/ DeleteDaemonSet

Next ==
  Loop \/ Send \/ Tick \/ RunApplication \/ PressCtrlC \/ MainReturns \/ Sigterm \/ Exit

Spec == Init /\ [][Next]_vars

\* Goroutines that can run do run, and time passes; nobody has to send a flow.
FairSpec == Spec /\ WF_vars(Loop) /\ WF_vars(Tick) /\ WF_vars(MainReturns) /\ WF_vars(Exit)

\* A cluster with traffic: while there are agents, they send flows.
TrafficSpec == FairSpec /\ WF_vars(Send)

-----------------------------------------------------------------------------
(* Properties                                                               *)

TypeOK ==
  /\ isBackground \in BOOLEAN /\ maxBytes \in ByteLimits
  /\ process \in {"alive", "sigterm", "main", "fatal", "panic"}
  /\ main \in {"boot", "ui", "left"}
  /\ loop \in {"open", "listen", "receive", "insert", "write", "bytes", "time", "delete",
               "returned"}
  /\ db \in {"closed", "open", "nil"}
  /\ queue \in 0..QueueLength /\ size \in 0..MaxSize
  /\ totalBytes \in 0..CountBytes /\ clock \in 0..(MaxTime + 1)
  /\ {stopReceived, captureEnded, agents} \subseteq BOOLEAN /\ deletions \in 0..2

\* "Capture ends automatically in $maxTime or reaching $maxBytes bytes": the flow
\* that exceeds maxBytes is the last one in the file, however many are waiting, when
\* there is a UI.
OneFlowOverLimit ==
  ~isBackground => totalBytes <= maxBytes + MaxSize

\* The cluster is asked to delete the agents once, although a background capture
\* goes on receiving and every further flow finds both limits exceeded.
DeletedOnce ==
  deletions <= 1

Ended == captureEnded \/ loop = "returned" \/ process # "alive"

\* "Capture ends automatically in $maxTime": once maxTime has passed the capture
\* ends, unless a failure or a signal ends it otherwise, even if it never gets to
\* maxBytes.
EndsInTime ==
  clock > MaxTime /\ loop = "receive" ~> Ended

\* With the UI up, a capture that reaches a limit ends the process: the loop, the
\* application and the main goroutine hand over to one another.
LimitExits ==
  loop \in {"bytes", "time"} /\ main = "ui" /\ (totalBytes > maxBytes \/ clock > MaxTime)
    ~> process # "alive"
=============================================================================
