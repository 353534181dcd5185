# A TLA+ model of the NetObserv CLI

The repository is a command-line tool that captures network flows, packets or metrics from
an OpenShift or Kubernetes cluster. A shell front end deploys eBPF agents (a DaemonSet) and
a *collector* pod; the collector, a Go program, receives records over gRPC, shows them in a
terminal UI and writes them to files.

This directory models the parts of that system whose correctness depends on the order in
which things happen. Paths below are relative to the repository.

## 1. Inventory

| Component | State | Operations | What is hard | What makes it correct |
|---|---|---|---|---|
| **Wire packet buffer** `cmd/packet_capture_wire_buffer.go` | `packets`, `pendingPlaintext`, the mutex, the ticker | `Enqueue`, `HandlePlaintext`, `flushLoop`, `Close` | two goroutines, timestamps taken before the lock, expiry, a full buffer, in-place filtering, matching that depends on what has already left | the pcapng keeps every packet once and in order; every plaintext is exported once; JSONL and pcapng agree on who is attached to whom; nothing is attributed by elimination |
| **Match scoring** same file, `packet_capture_filters.go`, `wire_payload.go` | none | `scorePlaintextWireMatch` and the tiers under it | partial tuples, reads in the opposite order, bonuses added to tiers, filter hints | a candidate never contradicts what is known; bonuses never cross tiers |
| **Packet capture life cycle** `cmd/packet_capture.go`, `cmd/root.go`, `cmd/flow_display.go` | `activeNgw`, `activePacketStop`, `done`, `captureEnded`, the files | start, receive loop, deferred clean-up, SIGTERM handler, `onLimitReached`, UI exit | deferred calls in reverse order, `os.Exit`, four ways to end at once | the file is whole when anybody is told so; the process ends |
| Packet dispatch `cmd/packet_capture.go:181-244` | packet id counter | `handlePlaintextRecord`, `handleWirePacket` | three sinks for one record | each record reaches the sinks its kind says |
| **TLS key log** `cmd/packet_capture.go:304-352` | `keylogOffset` | embed, poll | shares the NgWriter, is not stopped with the capture | the secrets blocks concatenate to a prefix of the key log; they never cost a packet |
| **Flow capture** `cmd/flow_capture.go` | `totalBytes`, `captureStarted`, file, database | receive loop, limits | limits looked at only when a flow arrives; background captures go on after the limit | the capture ends at its limits |
| **Flow table** `cmd/flow_display.go`, `cmd/display.go` | `lastFlows`, `lastWirePackets`, `lastPlaintextFlows`, `tableData`, selection, `paused` | `AppendFlow`, `getFlows`, select, pause | one goroutine per flow, heartbeat, UI callbacks | the newest of each kind are kept; a callback uses the row it checked |
| **Metric graphs** `cmd/metric_capture.go`, `cmd/metric_display.go` | `graphs`, panels, durations | tick, `queryGraph`, `updateGraphs`, `appendMetrics` | answers arrive late and out of order, the list is replaced meanwhile | a graph shows the answer to its own, latest query; series share one time axis |
| Options `cmd/options.go`, `cmd/root.go`, `cmd/packet_capture_filters.go` | cyclic lists, the options string | next/prev, `optionEnabled`, `parseCaptureFilters` | boundaries | an index stays in range |
| **Plaintext display** `cmd/plaintext_format.go` | none | peel wrappers, hide noise | traffic of the agent captured by the agent, nested | the application's text is shown, an agent's record never |
| **TLS profile** `internal/pkg/tlsresolver`, `cmd/collector_tls.go` | a ConfigMap | `Resolve`, `buildCollectorTLSConfig` | profiles that are partly unknown | what is known of the profile reaches the collector |
| **Session scripts** `commands/netobserv`, `scripts/functions.sh` | namespace, DaemonSet, pods, `skipCleanup`, `captureStarted` | setup, run, wait, copy, cleanup on EXIT | failure at every step, two sessions, the trap | a session removes what it created and nothing else |
| Flow log conversion `scripts/functions.sh:477-502` | local files | `copyOutput`, `buildJSON` | a truncated last line, a previous copy | the result is a JSON list of the complete flows |
| Map formatting, Prometheus client, SQL text, mocks, help, e2e | - | - | stateless or test support | not modelled |

How they interact: the shell starts the collector and waits for it; the agents call the
collector (gRPC channel of 100 records); the collector's goroutine hands each record to the
table (`go AppendFlow`) and to the files, for packets through the wire packet buffer;
`flushLoop` writes from its own goroutine; the UI's goroutine and the SIGTERM handler call
back into the collector to stop it; the collector calls the UI (`app.Stop`) and, in the
background, the cluster (`DeleteDaemonSet`) when a limit is reached; `captureEnded` tells
the display and the shell. With TLS the collector's init container writes the ConfigMap that
the agents wait for, so the shell deploys them after the collector. A metric capture has no
files: it asks Prometheus on every tick and on every change of the screen.

## 2. Modules

| Module | Models |
|---|---|
| `WireMatch` | scoring of one packet against one plaintext, as operators on records |
| `WirePacketBuffer` | the buffer, its two goroutines and its two output files; EXTENDS `WireMatch` |
| `PcapJournal` | abstract: what the two files promise, without buffer, window, scores or locks |
| `WirePacketBuffer_proofs`, `WirePacketRecords_proofs` | theorems about `WirePacketBuffer`: types and order; the two files, and `PcapJournal` |
| `Functions_proofs` | theorems about `WireMatch`, `TlsProfile`, `PlaintextDisplay` and `MetricAlign`, and what follows for `MCFunctions` |
| `FlowCapture` | the loop of a flow capture, its limits, and what ends the process |
| `FlowCapture_proofs` | theorems about `FlowCapture` |
| `FlowTable` | the table: the goroutines that append, the heartbeat, the UI's callbacks |
| `FlowTable_proofs`, `PacketCaptureShutdown_proofs`, `MetricGraphs_proofs`, `CliSession_proofs` | theorems about the module of that name |
| `PacketCaptureShutdown` | the collector's clean-up, the SIGTERM handler, the main goroutine, and where captured data is at each moment |
| `MetricGraphs` | the graphs of a metric capture, their queries, and the UI that replaces them |
| `MetricAlign` | `updateData`: the columns in which the series of a plot are drawn |
| `PlaintextDisplay` | what is displayed of a captured payload |
| `TlsProfile` | from the cluster's TLS profile to the collector's settings |
| `CliSession` | sessions of the shell front end against one cluster |
| `MCWireMatch`, `MCWirePacketBuffer`, `MCFlowTable`, `MCMetricGraphs`, `MCCliSession` | small inputs for TLC |
| `MCFunctions` | every small input of `WireMatch`, `MetricAlign`, `PlaintextDisplay` and `TlsProfile` |

### WireMatch

Records keep the fields that scoring reads. Addresses are opaque; `NoIP` stands for
everything `validIPString` rejects, `NoPort` for everything `mapPortFromGeneric` cannot read
(a port 0 is readable, and that difference is kept), `NoTime` for the zero `time.Time`,
`NotTCP` for a frame without a TCP layer. A network of the filters is the set of addresses
in it. Agent timestamps count seconds, the unit of the `Time` field and of the skew limits.
Each scoring function of the code is one operator; `EnrichFromFilters` has
`applyWorkloadPlaintextTuple` inlined.

### WirePacketBuffer

`packets`, `pending` are `b.packets`, `b.pendingPlaintext`; `pcap`, `jsonl` are what was
written, in order. The collector goroutine is in `collector`, `flushLoop` in `loop`;
`holder` is the operation that has `b.mu`. The code's loops over the two slices run one
iteration per step (`stage`, `cur`), so that TLC sees the slices between iterations and the
mistakes possible there; the mutex, and nothing else, keeps the other goroutine out.
`StartEnqueue` takes the timestamp, `LockEnqueue` gets the mutex: flushes, ticks and time
pass in between. `HandlePlaintext` takes its timestamp after it has the mutex, as in the
code. `ReceiveTick` and `LockFlush` are separate for the same reason. `StartClose` is
`close(b.stopCh)`, after which `flushLoop` returns or, if a tick is waiting, `select` may
choose the tick once more.

The receive clock counts periods of the ticker. `received` and `handled` number packets and
plaintexts; the plaintext's number is its PacketID, and a packet's `ann` is the PacketID in
its comment.

`HandlePlaintextRecord` is the dispatch in front of the buffer: only a plaintext whose tuple
the kernel verified enters it; any other is stripped of its endpoints and logged at once, by
the collector and without the mutex, while `flushLoop` may be logging too. So in production
the scoring of partial tuples, attribution by elimination and the filter hints are out of
use; the unit tests hand such plaintexts to the buffer directly. `TextInputs` are what
agents send, `TestInputs` what only tests hand over: runs whose properties are about the
program hold for either or name `TextInputs`; `pure_functions` and `AmbiguityIsFinal` check
the interface of the component.

### PcapJournal

Packets are accepted unclaimed, written in order, and may be claimed once, by a plaintext
not yet exported, while they are not yet written; a plaintext is exported once; one that
cannot claim a packet may be exported as it is handed over (`Log`). `KeepsPromise` says that
the buffer implements this under the mapping in `WirePacketBuffer` (`claims` is the
annotation of every packet in file and buffer, `written` the length of the file).

### PacketCaptureShutdown

Every deferred call of `startPacketCollector` is a step of the collector, in the order Go
runs them. Data moves `held` (correlation buffer), `buffered` (bufio.Writer in NgWriter),
`disk`, in half blocks, and `NgWrite` may leave any part of it in the bufio.Writer; `start`
is what came before those that are in it, so that `start # disk` is a bufio.Writer that has
written out what it still counts, or no longer counts what it has not.
`StopFromUI` and `StopFromHandler` are the two callers of `stopActivePacketCapture`;
`MainReturns` and `Exit` end the process and, with it, all goroutines wherever they are. The
options `isBackground`, `correlate` and `keylog` are chosen in `Init`. tview's `Stop` has no
effect on an application without a screen (external).

The key log is a file to which the traced programs append lines. `EmbedTLSKeylog` embeds
what is there at the start; a tick of `watchTLSKeylog` is `ReadSecrets`, `BeginBlock`, which
takes `ngwMu` (`Locked`), a block given in halves (`GiveHalf`), between which bufio may flush
a full buffer (`FillAndFlush`, `WatcherWriteOut`, `WatcherReset`), and `WriteSecrets`, which
releases it. The watcher ends when the SIGTERM handler has set `stopReceived`, never for the
end of a capture: it shares the NgWriter with the deferred clean-up, down to the close of the
file.

All other writes and flushes take `ngwMu` too and are one step each. The deferred `ngw.Flush`
takes no lock, so it is three: `FlushFile` reads `b.n`, `FlushWriteOut` writes that much of the
buffer to the file, `FlushReset` compares `b.n` with it and sets it to 0. They come between
any two steps of the watcher. Either of the two flushes may write what the other has written
(`stray`), set back a `b.n` that the other has added to, or, the collector's, find more than
it wrote and make up an `io.ErrShortWrite` (`failed`), after which bufio refuses everything.
That is the data race on `b.n` as interleaved reads and writes; what a reordering compiler or
processor adds to it is not modelled.

### FlowCapture

`isBackground` and `maxBytes` are flags, chosen in `Init`. `loop` is the next statement of
the receive loop, so that SIGTERM, Ctrl-C, time and the agents come between any two. A
flow's size is chosen when it is received. `OnLimitReached` is one step, up to the call to
the cluster, which is `DeleteDaemonSet`, as the loop waits for it. The database may be nil
(`initFlowDB` returns nil on an error), which panics on the first flow. The `ExitChannel` of
flowlogs-pipeline is never set up by this program; the goroutine that waits for it waits
forever and is left out. Flows are acknowledged to the agents when they are in the channel
(external, `Send`).

### FlowTable

`Receive` starts a record's goroutine, `AppendFlow` is what it does under the mutex. The
sort is `sort.Slice`, which is not stable: `AppendFlow` may leave any sorted permutation.
`TakeSnapshot` and `Refresh` are the heartbeat before and after it releases the mutex;
`SelectRow` and `ReadRow` or `Panic` are the callback's check and its read of the shared
slice. `capture` (flows or packets) is chosen in `Init`. A regex is the set of records it
matches. With plaintext capture (`capture = "TLS"`) packets and plaintexts have buffers of
their own (`BufferOf`), merged in the snapshot; a record that is neither is kept and never
shown. `Selection` is a loop that appends the elements it chooses: `Refresh` first selects the
rows that are not in the copy, then, if there are filters, the records that pass them. tview's
cursor, and the restoring of it by the heartbeat, are not modelled.

### MetricGraphs and MetricAlign

`graphs` is the slice of the same name: of each graph the query, the time range taken over
from the last answer, and the answer drawn. A callback of the UI is one step that changes
what is to be shown and queues its calls of `updateGraphs` (`rebuilds`): one, or two where
the code calls `updatePanels(true)` and then `updateScreen`. Each call is `EmptyGraphs` and
then `AppendGraphs`, and the goroutines of `queryGraph` run in between: `Ask` reads the slice
(and may find it too short, `IndexPanic`), `Answer` is the check that begins `appendMetrics`,
`WriteQuery` and `WriteData` are its two writes. `Fail` is an error of the client. The
appends of the code are one step; what a query could see between two of them, a slice that
is shorter, it can also see before them.

`MetricAlign` names a value by its time. A series is a sequence of times, a plot one
sequence of columns per series.

### PlaintextDisplay

A payload is the sequence of the wrappers around a text, outermost first: a record of the
agent (with one of the three markers the code searches for, or without), a binary prefix of
`PrefixBytes`, at most 8, a longer frame, an HTTP head, a JSON object with one text, a JSON
string. A search of the bytes sees through a prefix, a frame and a head, but not into a record
(base64) or a JSON value (escapes). `stripLeadingApplicationPrefix` drops any 1 to 8 bytes
before a marker (`{`, `HTTP/`, a method), so bytes are counted where it can bite: a prefix,
the quotes of strings around strings with their escapes (1, 3, 7 bytes), the `[` of an array,
the start of a `"marked text"` such as `a={`. What is left of a string, an array or a text is
a payload of its own (`Cuts`): no JSON any more, and displayed as it is. Every function of
the file that decides something is one operator, under its name. The loops always do all their rounds (`Repeat`); that the code's
`break` makes no difference in `unwrapPayloadLayers` is proved (`LoopMayStop`).

### TlsProfile

A version is a number, ciphers and groups are sequences; unknown names are dropped where the
code drops them. The ConfigMap is the record of the entries that are emitted. What the
collector does with them is `Apply` (external): below TLS 1.3 it takes the ciphers that can
be chosen, otherwise none.

### CliSession

Each session is a script: `todo` holds the calls it still has to make (`Plan`, and in the
trap `Deletions`), `phase` where it is. A call that fails ends the script if `errexit` is
set, and is passed over otherwise: the repository's scripts begin with `set -e`, which
`scripts/inject.sh` removes unless it builds the Krew plugin. `cluster` maps each object to
the session that created it; objects in the namespace go with it (`Purge`, which takes
time), roles and the dashboard do not. `fate` records why a session may not get to capture.
The pods are external, except that with TLS the agents wait for the ConfigMap which the
collector's init container creates or updates (`applyConfigMap`), and that a background
capture deletes the DaemonSet at its limit (`LimitReached`). Background captures, `stop` and
`cleanup` are modelled; the mode that only writes YAML, `copy` and `follow` change nothing
in the cluster and are not.

## 3. Runs

Sizes are those of TLC with the given configuration.

| Run | Checks | Size |
|---|---|---|
| `buffer_matching` | `PlaintextsExportedOnce`, `RecordsAgreeWithPcap`, `VerifiedEndpointsKept`, `CloseDrains`, `AmbiguityIsFinal` | 0.9 M states |
| `buffer_lifecycle` | `TypeOK`, `PacketsInOrder`, `KeepsPromise` (refinement), `EveryPacketWritten`, `EveryPlaintextExported` (liveness) | 41 k states |
| `pure_functions` | `CandidatesShareTier`, `NeverContradicts`, `PayloadOutranksTime`; `PlotsShareAxis`; `PayloadsTransparent`, `PayloadsShowText`; `ProfilesHonoured` | 0.86 M states |
| `shutdown` | `TypeOK`, `StopIsComplete`, `AnnouncedWhenOnDisk`, `SecretsInOrder`, `SigtermExits`, `DeadlineExits` (liveness), interactive and in the background, with and without the wire buffer and the key log | 1.3 M states |
| `shutdown_loses_packets` | `ExitLosesNoPacket`: **violated** | |
| `flow_limits` | `TypeOK`, `OneFlowOverLimit`, `DeletedOnce`, `LimitExits`, `EndsInTime`, interactive and in the background, with traffic | 17 k states |
| `flow_idle` | `EndsInTime`, without traffic: **violated** | |
| `table_rows` | `TypeOK`, `NewestKept`, `RowsOnce`, `RowsInOrder`, `NewestShown` (liveness), flows, packets, and packets with plaintexts | 0.34 M states |
| `table_panics` | `NoPanic`: **violated** | |
| `metric_graphs` | `TypeOK`, `GraphsAsBuilt`, `Settles` (liveness) | 0.38 M states |
| `session` | `TypeOK`, `CleanedUp`, `RefusedHarmless`, `GetsToCapture` (liveness) | 0.17 M states |
| `session_deletes_foreign` | `OthersKept`: **violated** | |

Deadlock checking is off: captures end, buffers are closed and processes exit.

**What holds.** Whatever the interleaving of the collector and `flushLoop`, each accepted
packet is in the pcapng or the buffer once and in arrival order, although it may leave by
expiry, by eviction or at Close and although expiry goes by timestamps taken outside the
lock. Each plaintext is exported once; a JSONL record is marked `PcapAnnotated` exactly when
one packet carries its PacketID, with that packet's endpoints; a kernel-verified tuple is
exported in network direction on both export paths; a partial plaintext for which two
connections competed is never attributed later. Every candidate a plaintext has is of the
tier its threshold belongs to, so bonuses decide only within a tier. Stopping from the UI or
a SIGTERM returns only when every packet, and every secrets block given before the deferred
flush, is in the file, in its place and once, and `captureEnded` is announced only then:
although that flush overlaps the key log's watcher, what can go wrong is behind the packets,
and if the watcher writes nothing meanwhile nothing is there. The blocks given to the NgWriter
hold every line of the key log once, in order.

An interactive flow capture writes one flow over `maxBytes` at most, and a limit ends the
process although the loop, the application and the main goroutine hand over to one another.
A background one deletes the DaemonSet once although it finds the limits exceeded again and
again. However late and in whatever order the goroutines append, the table's buffer holds
the newest records; no record has two rows, the rows are in order of time across filters and
resizing, and the newest record always gets its row. In plaintext capture each kind keeps its
newest records, whatever arrives of the other.

A late answer of Prometheus never turns up in the graph of another query, and a screen left
alone settles on the selected time range. Series without gaps are drawn on one time axis. A
record of the agent around captured traffic changes nothing of what is displayed, up to the
depth the code peels. A text behind an HTTP head, a JSON value and records is displayed
without them, and whole, except that one with a marker in its first bytes is displayed from
there, when it begins where the payload does or in a JSON string that does. Each known part
of a TLS profile reaches the collector. Whatever step of a set-up fails, a foreground session leaves nothing behind
but its roles if its clean-up meets no error; a session that was refused changes nothing; and
a session that nothing hinders gets to capture, with TLS too.

**What does not.**

- `shutdown_loses_packets`: `defer clearActivePacketWriter()` is registered after `defer
  ngw.Flush()` and runs before it. A SIGTERM in between finds no stop function and no
  writer, and `os.Exit` drops what the bufio.Writer still holds.
- `flow_idle`: `maxTime` is compared after a flow was received and written; a capture that
  receives none does not end. (A packet capture has a timer.)
- `table_panics`: the selection callback checks its row and reads the table again without a
  lock; a refresh with a shorter table in between is an index out of range.
- `session_deletes_foreign`: `cleanup`, run by the trap on EXIT, deletes whatever is in the
  namespace. A session that is interrupted, or fails its cluster checks, before it has looked
  for the namespace thereby removes the capture that is running there.

### Observations

What follows is what the code does. No run checks it, and most of it contradicts no document.

- Scores: `timeCorrelationBonus` scales the two sides of the skew window (-2 s, +5 s)
  separately, so that 1 s after the plaintext scores less than 2 s before it.
- Captures: in the background `onLimitReached` never tells the loop of a flow capture to
  return; the files grow beyond `maxBytes` until the pods are gone. A capture that ends before
  `app.Run` has a screen (`cmd/root.go:161`) calls `Stop` in vain and the UI stays up, so
  `DeadlineExits` is about a UI that is up.
- Key log: nothing stops the watcher before the deferred `ngw.Flush`
  (`cmd/packet_capture.go:104`), which does not take the `ngwMu` that "serializes all NgWriter
  writes" (`:246`). When the watcher adds to the buffer between the flush's write and its look
  at `b.n`, the flush makes up an `io.ErrShortWrite` and the block is lost; other orders write
  halves twice or tear a block. The model has all of these: with `~stray /\ ~failed` as an
  invariant of `shutdown`, TLC shows one in a second. `StopIsComplete` says that all this is
  behind the packets: it can cost secrets, and leave a reader a damaged end of the file. A key
  log that shrinks is skipped until it has grown again.
- Table: a selected row leaves the table with the buffer when the buffer alone fills the table
  (`cmd/flow_display.go:765` and `:805`).
- Graphs: `updatePanels(true)` followed by `updateScreen` replaces the slice right after `go
  queryGraphs`; that query may be lost until the next tick, or index out of range in
  `queryGraph` (`cmd/metric_capture.go:98`), which ends the process. A slice replaced between
  the check and the writes of `appendMetrics` keeps a query of the previous panel (the reason
  for `overtaken` in `GraphsAsBuilt`), and no later answer to the right query is accepted
  there, as it is asked for no more.
- Plots: the `break` at `cmd/metric_display.go:432`, commented "skip this series", leaves out
  all series after it as well; when the first series of an answer is shorter than another one,
  its own first time is column 0, the loop ends at once and the plot stays empty.
  Series of equal length and different times share columns; gaps
  shift the values behind them and cut the last ones.
- Plaintext: the comment of `stripLeadingApplicationPrefix` speaks of "a short binary prefix",
  the code removes any 1 to 8 bytes before a marker, readable or not: the text `a={` becomes
  `{`, the array `[{"a":1}]` becomes `{"a":1}]`, and the JSON string `"GET /x"` loses its
  opening quote, is no JSON any more and becomes `GET /x"`. `PayloadsShowText` says for the
  texts where this happens, and that it does not elsewhere; a text of several lines that begins like a method is cut to its first line; a second HTTP head
  is displayed as its first line; a record without marker inside a frame or an HTTP body is
  hidden, with what it carries; records nested deeper than twice `maxPlaintextUnwrapDepth` are
  not displayed.
- TLS: a custom profile with only TLS 1.3 ciphers at version 1.2 leaves the collector with
  Go's default suites; one whose ciphers are all unknown gets those of the base.
- Sessions: with errexit a failed copy or deletion ends the clean-up, and an exhausted
  `waitDaemonset` exits at `((retries--))`, before the diagnostics. A background session whose
  set-up fails never cleans up. 0 ready agents of 0 count as ready, and a failed lookup as an
  absent namespace. Roles, bindings and the SCC are never deleted, though
  `scripts/help.sh:296` speaks of removing "all the netobserv CLI components".
- Flow log: each flow is written with its line end (`cmd/flow_capture.go:99`), so the last line
  that `buildJSON` drops as incomplete is a complete flow; a second copy appends a second list
  to the same file.

### Bounds, and why they are enough

- `buffer_matching`: `Window` 2, arrivals at ticks 0 and 1, `MaxClock` 3: the window passes for
  what came first and not yet for what came next, then for both. Together with `MaxClock`
  this bounds the timestamps: two arrivals further apart than the window never meet in the
  buffer, because every operation first drains what is due; a run with `LastArrival` 2 (1.4 M
  states) found nothing else. `buffer_lifecycle`: `Window` 1, which keeps the same three cases
  with one tick less, `MaxClock` 2; a run of its safety properties with `Window` 2 and two
  plaintexts (0.48 M states) found nothing else.
- `MaxBuffered` 2 with three packets: the limit is reached and the evicted packet may be
  waiting, annotated or due. Two packets and two plaintexts suffice for ties, runners-up,
  competing connections and a packet wanted by two plaintexts.
- The inputs: two clients of one server (competing connections), a reply (direction), a
  verified write and read, an unverified write and a partial read, which the code treats
  differently.
- Scores: all combinations of known and missing fields over two addresses and two ports, and
  timestamps on both sides of the skew window.
- Payloads of up to 5 layers with a `MaxDepth` of 2 (6 in the code), so that there are payloads
  as deep as both rounds of peeling reach, and deeper. Up to 3 series over 4 times with 2
  colours: a longest, a shorter, one with a gap, one too many. A prefix of 4 bytes, which with
  a string and a marked text in it is within the 8 and with strings in it passes them. Custom profiles with up to two
  ciphers and a group, known, unknown or of TLS 1.3, and every version and an unknown one.
- `MaxReceived` 1: with the section header, one block in the file and one in memory; the same
  run with two packets (2.0 M states, four minutes) found nothing else. `MaxSecrets` 2: one line
  embedded at the start and one by the watcher, or two together, so that a block that the
  deferred flush disturbs may follow one that it did not. `shutdown_loses_packets` has two
  packets and no key log. A block is two halves: enough to be in the buffer, in the file, or
  torn.
- `FlowCapture`: flows of 1 or 2 bytes and `maxBytes` 3, so that the limit is met exactly or
  passed by either; bytes are counted up to 7, two flows beyond it, so that `maxBytes` 9
  stands for a capture that never gets there. A queue of 2 is full, partly full and empty.
- `FlowTable`: four records, two of the same time, through a buffer of two, shown in tables
  smaller and larger than the buffer; one regex, which matches the oldest and the newest
  record. The code's `MinShow` is 5 and `KeepCount` 100; only their order matters. In
  plaintext capture there are two plaintexts, a packet and a record that is neither, and
  buffers of one.
- `MetricGraphs`: a panel of two queries and a custom panel of one of them, so that the list
  shrinks, keeps its first index with another query, and grows; two ranges; two goroutines, so
  that an older and a newer query of one graph run side by side.
- `CliSession`: two sessions; one failure, slow call or interruption from outside, whose
  consequences (calls into a namespace that is gone, a DaemonSet deleted under the wait) come
  on top and are not bounded. Commands, `errexit` and TLS are combined as in `Pairs`.

### Fairness

`Tick`: time passes. `ReceiveTick`: a goroutine that can run runs. `LockFlush`,
`LockEnqueue` and `LockClose` are strongly fair, because a `sync.Mutex` hands itself to a
waiter that has waited for 1 ms, however often others take it. `CriticalSection` is weakly
fair: no loop under the mutex blocks. Neither arrivals nor Close are fair. In
`PacketCaptureShutdown` each goroutine is weakly fair, the deadline included; packets, the
user's Ctrl-C, the SIGTERM and the moment `flushLoop` writes are not; the receipt of a
packet is not fair either (`CollectorOwn` leaves it out). In `FlowCapture` the loop, time,
and the returns of main and of the handler are fair; `TrafficSpec` adds agents that keep
sending, an assumption about the cluster that `EndsInTime` needs and `flow_idle` shows to be
needed. In `FlowTable` only the heartbeat is fair; it waits for nothing but short critical
sections. The key log need not grow and its watcher need not look;
once it has `ngwMu` it goes on until it releases it (`WriteBlock`), as nothing in a write to
a local file waits for another goroutine.

In `MetricGraphs` the UI's callback, the ticker and the goroutines are weakly fair; that of
the queries which keep being asked for a graph not all fail (`SF` of `Answer` for an index) is
an assumption about Prometheus. The user is not fair: `Settles` is about a user who stops. In
`CliSession` a script goes on and the cluster does what it was asked for; giving up on a pod
that could still start is the cluster's slowness and counts as a failure from outside. Sessions
need not start and captures need not end.

## 4. Proofs

Each theorem holds for every value of the constants that the module's ASSUMEs admit: any
number of packets, records, sessions or goroutines, any sizes, any inputs of the right shape.
TLC checks the same properties, and evaluates the ASSUMEs, in the runs of section 3.

| Module | Theorems | Inductive invariant |
|---|---|---|
| `WirePacketBuffer_proofs` | `TypeInvariance` (`TypeOK`), `OrderInvariance` (`PacketsInOrder`) | `TypeOK /\ HolderOK /\ OrderInv` |
| `WirePacketRecords_proofs` | `ExportInvariance` (`PlaintextsExportedOnce`), `RecordsInvariance` (`RecordsAgreeWithPcap`), `EndpointsInvariance` (`VerifiedEndpointsKept`), `DrainInvariance` (`CloseDrains`), `AmbiguityInvariance` (`AmbiguityIsFinal`), `PromiseRefinement` (`KeepsPromise`) | `BufferInv`: the above `/\ RecordsInv` |
| `Functions_proofs` | about any packet, plaintext and filters: `TierOfPlaintext`, `FiltersComplete`, `KnownEndpointsRespected`, `TimeBonusBounded`, `CloserNotOutranked`, `PayloadDecides`; about any TLS profile: `ProfileCarried`; about any payload: `LoopMayStop`, `LayersAllPeeled`, `RecordsPeeled`, `TextDisplayed`; about any answer of Prometheus: `PlotsAligned`; about the inputs of `MCFunctions`: `TierInvariance` (`CandidatesShareTier`), `EndpointsInvariance` (`NeverContradicts`), `PayloadInvariance` (`PayloadOutranksTime`), `ProfileInvariance` (`ProfilesHonoured`), `TransparentInvariance` (`PayloadsTransparent`), `TextInvariance` (`PayloadsShowText`), `PlotsInvariance` (`PlotsShareAxis`) | `MatchTypes` |
| `PacketCaptureShutdown_proofs` | `ShutdownTypes` (`TypeOK`), `StopInvariance` (`StopIsComplete`), `AnnouncementInvariance` (`AnnouncedWhenOnDisk`), `SecretsInvariance` (`SecretsInOrder`) | `ShutdownInv` |
| `FlowCapture_proofs` | `CaptureTypes` (`TypeOK`), `DeletedOnceInvariance` (`DeletedOnce`), `LimitInvariance` (`OneFlowOverLimit`) | `DeletionInv`, `BytesInv` |
| `FlowTable_proofs` | `TrimKeepsNewest`, about any buffer; `TableTypes` (`TypeOK`), `BuffersInvariance` (`NewestKept`), `OnceInvariance` (`RowsOnce`), `OrderInvariance` (`RowsInOrder`) | `TableInv /\ RowsInv /\ UserTypes` |
| `MetricGraphs_proofs` | `MetricTypes` (`TypeOK`), `GraphsInvariance` (`GraphsAsBuilt`) | `MetricInv` |
| `CliSession_proofs` | `SessionTypeInvariance` (`TypeOK`), `CleanUpInvariance` (`CleanedUp`), `RefusalHarmless` (`RefusedHarmless`) | `SessionInv` |

No property is inductive by itself; this is what each needs besides.

- *Buffer, order.* The buffer exceeds `MaxBuffered` only in stage `evict`, and an operation
  could enter the critical section there, leaving the excess behind, were it not that
  `holder = "nobody"` implies `stage = "unlocked"` (`HolderOK`). `OrderInv` says that packets
  are numbered consecutively through file and buffer (`NumbersOK`), that buffered packets are
  sorted by timestamp and no later than the packet that waits for the mutex (`TimesOK`), and
  that what the expiry loop has passed over is not due (`PassedOK`). The loop may take a packet
  out of the middle of the buffer; by the last two it never does (`DueIsFirst`), which is why
  arrival order survives.
- *Buffer, records.* `RecordsInv` is: who is in the critical section, and whose argument it
  works on (`SectionOK`); every plaintext handed over is pending, being handled or in the
  JSONL, in one place (`PlacesOK`); a mark on a packet, in the file or in the buffer, is the
  number of one record of the JSONL that says so (`MarksOK`); what the endpoints of an
  exported record are (`EndsOK`); how far Close has got (`DrainOK`). `KeepsPromise` follows
  because a packet that is marked is in the buffer and has no mark yet, and a plaintext that
  is exported was not.
- *Functions.* `MCFunctions` enumerates inputs and takes no other step, so the work is in
  the theorems about all inputs: an endpoint that is compatible leaves the pod and the known
  peer on the packet's sides, whence the tier; the bonuses are bounded by cases on the clock
  and the side of the window; `EnrichFromFilters` keeps what is known; `ConfigToEnvMap` leaves
  out only what `Apply` fills in again (`SettingsCarried`).
- *Functions, loops.* A loop is a recursive function of the number of rounds. What holds of all
  of them follows from there being no least number without it (`LeastNumber`, and from it
  `EveryNumber`, with a set in the place of a predicate): `Rounds` exist, rounds after rounds
  are rounds (`RoundsAdd`), and a loop with a measure ends when it is used up (`RoundsSettle`).
- *Payloads.* The measure is the number of layers: a round leaves a payload alone, or takes
  layers off its front, or has cut something, which the next rounds leave alone (`UnwrapStep`).
  Hence the depth at which nothing is left to peel (`LayersAllPeeled`), and that the `break` of
  the code, which the model's fixed number of rounds does without, makes no difference
  (`LoopMayStop`). A record around a payload is what one more round takes off
  (`UnwrapRecord`, `UnwrapFramedRecord`), and the payload has settled a round earlier: hence
  `RecordsPeeled`. For `TextDisplayed`, a round leaves a payload of the same shape, of which
  the same is to be displayed, or has cut it as `TextOrCut` says (`TextKept`): a record may be
  taken off because what it holds begins where the payload does (`CutAfterRecord`), a prefix
  because no text is right behind it (`TextPrefix`), and a string loses its quote only before a
  marked text (`TextInString`). Where that has settled there is nothing to cut (`TextSettled`),
  and `Peel` opens what is left (`PeelText`).
- *Plots.* The loop that collects the times is the recursive function `Scan`; its invariant is
  that the times collected begin with those of the first series and are only these as long as
  no series is longer (`BeginsWithFirst`). If one is, the first series is shorter than the
  longest and starts at column 0, which ends the loop with nothing drawn; so whatever is drawn
  has its columns from the first series, and a series without gaps that starts there at the
  column of its first time has its other times where that one has them (`ShorterAligned`), and
  none elsewhere (`ShorterNowhereElse`).
- *Shutdown.* Nobody can be told of the end before the calls that make it true have run
  (`SignalsInv`), so what is to be shown is what `CloseFile` leaves (`FilesInv`). `HeldWhole`:
  the correlation buffer holds whole packets. `Balanced`: up to the deferred Flush, what was
  captured is held or was given to the bufio.Writer. `InOrder`: up to there only holders of
  `ngwMu` write, and the file is what was given without what is buffered, except that a flush
  has written this out before it resets the buffer. Then the collector is a second writer.
  Whichever of the two flushes writes first writes all that was captured before (`Ahead`), and
  from then on the file begins with it for good, whatever `b.n` says, as later writes only add
  behind (`Overlapping`). If the watcher gave no block meanwhile, the file is exactly what was
  captured (`Alone`). `SecretsInv`: the watcher goes on after the last line
  that is in a block, and a block that it has to give up is not counted.
- *Flow capture.* A second deletion would need a second visit of `delete`; `DeletionInv` says
  that whoever is there has ended the capture and that the cluster was not asked yet.
  `BytesInv`: only between a write and the check after it, or when the loop has returned, is
  the file over the limit. Without a UI that does not hold: in the background the loop goes on.
- *Table.* `TableInv`: a record that still arrives has no Index, one that was appended has one,
  and each buffer `Keeps` the newest of what was put in it: sorted, no longer than its
  capacity, complete below it, and with nothing left out that its first record precedes. That
  the order is one in which "precedes not" is transitive (`NotBefore`), and does not change for
  the records that have an Index when another gets one (`OrderStays`), makes sorting and
  cutting one at a time (`TrimKeepsNewest`) equal to sorting and cutting all. `RowsInv`: the
  table and the heartbeat's copy are sorted and repeat nothing, and a row that is not in the
  copy was cut from the buffer, so that nothing in the copy precedes it, although records are
  appended between the copy and the merge.
- *Graphs.* `AnswersInv`: the slice agrees with what it was built from, and a goroutine that
  has passed the check of `appendMetrics` is about the query that is in its place; it fails
  from the moment the slice is replaced under such a goroutine, which `overtaken` records.
- *Sessions.* `CleanOK`: whatever a session created and has not deleted, its clean-up still
  has a call for, from the first call of the set-up until the last one of the trap;
  `ObjectsInv` ties the objects to the namespace and to the pods, which other sessions delete
  too. `RefusalHarmless` needs no more than the calls that a refused session can still make.

Assumptions, each evaluated by TLC: the types of the constants; a window that is positive
(`WindowAssumption`; the code replaces any other); the tables' capacities and the lower limit
of the rows are positive (`TableAssumption`); MCWireMatch's timestamps are numbers
(`StampAssumption`); there is a panel (`MetricAssumption`); the default configuration has a
known version and a cipher suite that can be chosen (`TlsAssumption`; `crypto.DefaultCiphers`);
a prefix has 1 to 8 bytes (`PrefixAssumption`).

Only model-checked is liveness, which is out of the prover's reach: `EveryPacketWritten`,
`EveryPlaintextExported`, `SigtermExits`, `DeadlineExits`, `LimitExits`, `EndsInTime`,
`NewestShown`, `Settles`, `GetsToCapture`.

The theorems about payloads and answers are about the data as the model has them: what a
function does with the bytes of one layer is a definition, not a result.

Where a proof did not go through as the model stood, the model was at fault or stated more
than it should. `VerifiedEndpointsKept` spoke of `TextInputs` even when an input is in
`TestInputs` as well, for which both export paths are open; `PayloadOutranksTime` scored partly
the plaintext as it came and partly the completed one;
`SecretsInOrder` described the blocks by a flattened sequence, and now by where each block
goes on. In `FlowTable`, the heartbeat's copy is one of the set `packetCaptureFlowSnapshot`
and the two loops of `getFlows` are `Selection`, the one sequence of the elements chosen in
their order: the same states as with a chosen element and `SelectSeq`, of which nothing can
be proved. `ProfileReachesCollector` compares the collector's cipher suites with the profile's
also when none of those can be chosen. The loops of `PlaintextDisplay` and `MetricAlign` were
folds, of which nothing can be proved without induction over data. `unwrapPayloadLayer` tried
its three rules in a `CASE`, whose order is not one; it is the order of the code now.
`RecordsTransparent` made an exception for a payload that begins with a frame that the
proof did not need. `SharesAxis` said that a drawn value is that of its time; it says now also
that none is left out.

## 5. Plan

1. The modules of section 2 and their runs: done.
2. Proofs of every safety invariant and action property that a run checks, for every value of
   the constants, and of the refinement of `PcapJournal`: done.
3. What could follow: abstract specifications of the shutdown and of the table, of the kind
   `PcapJournal` is for the buffer, and that the modules implement them; the order of columns
   when the series of an answer have gaps, once the code says what it should be.

## Not modelled

- `cmd/map_format.go` and `cmd/wire_payload.go` beyond the payload length: one field to one
  text, a case per column, without state or a relation between fields.
- The parsing of the options string and of capture filters: one string to one record.
- `copyOutput` and `buildJSON`: pipelines of text tools on one file; what they do wrong is
  under Observations.
- The editing of the manifests by `edit_manifest` (yq expressions, a case per option) and the
  mode that only writes YAML.
- The background mode of a metric capture, which queries one graph after the other and logs;
  the legend, the drawing of plots, columns and suggestions of the table, tview's cursor.
- The Prometheus client (HTTP and decoding), the SQL text, mocks, end-to-end tests, help and
  release scripts.
- Vendored libraries, except where a definition is named external: `NgWriter`'s buffering,
  tview's `Stop`, the gRPC channel, `tlsprofile.Apply`, and what Kubernetes does with objects.
