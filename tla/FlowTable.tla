------------------------------ MODULE FlowTable ------------------------------
(***************************************************************************)
(* The table of flows or packets of cmd/flow_display.go.  Every record is  *)
(* appended to a buffer by a goroutine of its own (AppendFlow); the        *)
(* heartbeat of cmd/display.go copies the buffers into the table it shows; *)
(* the goroutine of the terminal UI pauses, selects, filters and resizes.  *)
(* A mutex protects the buffers; the table, the filters, the selection and *)
(* `paused` are shared without one.                                        *)
(***************************************************************************)
EXTENDS SequencesExt

CONSTANTS
  Flows,        \* the records that may be received
  Kind,         \* what a record holds in packet capture: "wire", "plaintext", "bare"
  Time,         \* TimeFlowEndMs of a flow, the time of a packet
  NoFlow,       \* selectedFlowIndex = -1
  KeepCount,    \* keepCount, and defaultWirePacketKeepCount and its like
  MinShow,      \* the "-" button's limit of showCount
  MaxShow,      \* bound: the largest showCount tried
  Regexes,      \* the regexes the user may type, each as the set it matches
  MaxRegexes    \* bound: regexes at a time

ASSUME TableAssumption ==
  /\ Time \in [Flows -> Nat] /\ NoFlow \notin Flows
  /\ Kind \in [Flows -> {"wire", "plaintext", "bare"}]
  /\ KeepCount \in [{"flows", "wire", "plaintext"} -> Nat \ {0}] /\ MaxRegexes \in Nat
  /\ MinShow \in Nat \ {0} /\ MaxShow \in Nat \ {0} /\ MinShow <= MaxShow
  /\ Regexes \subseteq SUBSET Flows

VARIABLES
  capture,     \* "Flow", "Packet", or "TLS": packets with plaintext capture
  arriving,    \* records whose goroutine has not got the mutex yet
  appended,    \* records that got an Index, in that order
  last,        \* the buffers: lastFlows, lastWirePackets, lastPlaintextFlows
  snapshot,    \* getFlows' copy of them, while the heartbeat refreshes
  heartbeat,   \* "waiting", "refreshing"
  flows,       \* tableData.flows
  showCount,
  regexes,     \* the filters
  paused,
  selected,    \* the record of selectedFlowIndex
  row,         \* the row a selection callback has checked, 0 if none
  panicked     \* index out of range

buffer   == <<appended, last>>
table    == <<snapshot, heartbeat, flows>>
controls == <<showCount, regexes>>
cursor   == <<paused, selected, row>>
vars == <<capture, arriving, buffer, table, controls, cursor, panicked>>

Init ==
  /\ capture \in {"Flow", "Packet", "TLS"}
  /\ arriving = {} /\ appended = <<>> /\ last = [b \in DOMAIN KeepCount |-> <<>>]
  /\ snapshot = <<>> /\ heartbeat = "waiting" /\ flows = <<>>
  /\ showCount \in MinShow..MaxShow /\ regexes = <<>>
  /\ paused = FALSE /\ selected = NoFlow /\ row = 0
  /\ panicked = FALSE

Running == ~panicked

IsPacket == capture # "Flow"

-----------------------------------------------------------------------------
(* The collector and the goroutines it starts.                              *)

Index(f, order) == CHOOSE i \in DOMAIN order : order[i] = f

\* The less function of the sort, when records have their Index from `order`.
Before(f, g, order) ==
  \/ Time[f] < Time[g]
  \/ IsPacket /\ Time[f] = Time[g] /\ Index(f, order) < Index(g, order)

InOrder(s, order) == \A i, j \in DOMAIN s : i < j => ~Before(s[j], s[i], order)

KeepLast(s, n) == SubSeq(s, Len(s) - n + 1, Len(s))

\* A mistake to catch: the wrong end is cut off.
TrimNewest(s, n) == IF Len(s) <= n THEN s ELSE SubSeq(s, 1, n)

Trim(s, n) == IF Len(s) <= n THEN s ELSE KeepLast(s, n)

\* Packets and plaintexts have buffers of their own in plaintext capture, so that
\* neither crowds out the other.
BufferOf(f) == IF capture = "TLS" /\ Kind[f] # "bare" THEN Kind[f] ELSE "flows"

Receive(f) ==
  /\ Running /\ f \notin arriving \cup ToSet(appended)
  /\ arriving' = arriving \cup {f}
  /\ UNCHANGED <<capture, buffer, table, controls, cursor, panicked>>

\* A mistake to catch: nothing is sorted.
AppendUnsorted(f) ==
  /\ Running /\ f \in arriving
  /\ arriving' = arriving \ {f}
  /\ IF paused
     THEN UNCHANGED buffer
     ELSE /\ appended' = Append(appended, f)
          /\ last' = [last EXCEPT ![BufferOf(f)] = Trim(Append(@, f), KeepCount[BufferOf(f)])]
  /\ UNCHANGED <<capture, table, controls, cursor, panicked>>

\* sort.Slice is not stable: flows of equal times may come in any order.
AppendFlow(f) ==
  /\ Running /\ f \in arriving
  /\ arriving' = arriving \ {f}
  /\ IF paused
     THEN UNCHANGED buffer
     ELSE /\ appended' = Append(appended, f)
          /\ LET b == BufferOf(f) IN
             \E s \in SetToSeqs(ToSet(last[b]) \cup {f}) :
               InOrder(s, appended') /\ last' = [last EXCEPT ![b] = Trim(s, KeepCount[b])]
  /\ UNCHANGED <<capture, table, controls, cursor, panicked>>

-----------------------------------------------------------------------------
(* The heartbeat.                                                           *)

\* The copy of the buffers that the heartbeat may get.  A record of plaintext capture
\* that is neither a packet nor a plaintext is kept, and never shown.
packetCaptureFlowSnapshot ==
  IF capture = "TLS"
  THEN { s \in SetToSeqs(ToSet(last["wire"]) \cup ToSet(last["plaintext"])) :
           InOrder(s, appended) }
  ELSE { last["flows"] }

TakeSnapshot ==
  /\ Running /\ heartbeat = "waiting"
  /\ heartbeat' = "refreshing" /\ snapshot' \in packetCaptureFlowSnapshot
  /\ UNCHANGED <<capture, arriving, buffer, flows, controls, cursor, panicked>>

Ascending(p) == \A i, j \in DOMAIN p : i < j => p[i] < p[j]

\* What a loop over s leaves that appends each element of T: the one sequence of
\* them, in their order.
Selection(s, T) ==
  { [i \in DOMAIN p |-> s[p[i]]] :
      p \in { q \in SetToSeqs({ i \in DOMAIN s : s[i] \in T }) : Ascending(q) } }

\* Mistakes to catch: rows that left the buffer come last; they come again.
MergedLast(missing) == snapshot \o missing

MergedAgain(missing) == flows \o snapshot

\* Flow capture only: rows that have left the buffer come first.
Merged(missing) == IF IsPacket THEN snapshot ELSE missing \o snapshot

PassesFilters(f) == \A i \in DOMAIN regexes : f \in regexes[i]

Filtered(merged) ==
  IF regexes = <<>> THEN {merged}
  ELSE Selection(merged, { f \in Flows : PassesFilters(f) })

\* A mistake to catch: the oldest rows are shown.
VisibleOldest(rows) == TrimNewest(rows, showCount)

Visible(rows) == Trim(rows, showCount)

Refresh ==
  /\ Running /\ heartbeat = "refreshing"
  /\ \E missing \in Selection(flows, Flows \ ToSet(snapshot)) :
     \E rows \in Filtered(Merged(missing)) : flows' = Visible(rows)
  /\ heartbeat' = "waiting" /\ snapshot' = <<>>
  /\ UNCHANGED <<capture, arriving, buffer, controls, cursor, panicked>>

-----------------------------------------------------------------------------
(* The goroutine of the UI: one callback at a time.                         *)

Free == Running /\ row = 0

Pause ==
  /\ Free
  /\ paused' = ~paused
  /\ UNCHANGED <<capture, arriving, buffer, table, controls, selected, row, panicked>>

ResetSelection ==
  /\ Free
  /\ selected' = NoFlow /\ paused' = FALSE
  /\ UNCHANGED <<capture, arriving, buffer, table, controls, row, panicked>>

\* The selection moves to row r: the index is checked against the table ...
SelectRow(r) ==
  /\ Free /\ r <= Len(flows)
  /\ row' = r
  /\ UNCHANGED <<capture, arriving, buffer, table, controls, paused, selected, panicked>>

\* ... and the table is then read, once; a payload is shown, which pauses.
ReadRow ==
  /\ Running /\ row \in 1..Len(flows)
  /\ selected' = flows[row]
  /\ paused' = (paused \/ (IsPacket /\ Kind[flows[row]] # "bare"))
  /\ row' = 0
  /\ UNCHANGED <<capture, arriving, buffer, table, controls, panicked>>

Panic ==
  /\ Running /\ row > Len(flows)
  /\ panicked' = TRUE
  /\ UNCHANGED <<capture, arriving, buffer, table, controls, cursor>>

AddRegex(r) ==
  /\ Free /\ Len(regexes) < MaxRegexes
  /\ regexes' = Append(regexes, r)
  /\ UNCHANGED <<capture, arriving, buffer, table, showCount, cursor, panicked>>

\* Backspace removes the last regex, a click any of them.
RemoveRegex(i) ==
  /\ Free
  /\ regexes' = RemoveAt(regexes, i)
  /\ UNCHANGED <<capture, arriving, buffer, table, showCount, cursor, panicked>>

\* A mistake to catch: one step below the limit.
ShowLessByOne ==
  /\ Free /\ showCount >= MinShow
  /\ showCount' = showCount - 1
  /\ UNCHANGED <<capture, arriving, buffer, table, regexes, cursor, panicked>>

ShowLess ==
  /\ Free /\ showCount > MinShow
  /\ showCount' = showCount - 1
  /\ UNCHANGED <<capture, arriving, buffer, table, regexes, cursor, panicked>>

ShowMore ==
  /\ Free /\ showCount < MaxShow
  /\ showCount' = showCount + 1
  /\ UNCHANGED <<capture, arriving, buffer, table, regexes, cursor, panicked>>

-----------------------------------------------------------------------------

Heartbeat == TakeSnapshot \/ Refresh

Collector == \E f \in Flows : Receive(f) \/ AppendFlow(f)

User ==
  \/ Pause \/ ResetSelection \/ ReadRow \/ Panic \/ ShowLess \/ ShowMore
  \/ \E r \in 1..MaxShow : SelectRow(r)
  \/ \E r \in Regexes : AddRegex(r)
  \/ \E i \in DOMAIN regexes : RemoveRegex(i)

Next == Collector \/ Heartbeat \/ User

Spec == Init /\ [][Next]_vars

\* The heartbeat never waits for anybody but the short critical sections.
FairSpec == Spec /\ WF_vars(Heartbeat)

-----------------------------------------------------------------------------
(* Properties                                                               *)

TypeOK ==
  /\ capture \in {"Flow", "Packet", "TLS"}
  /\ arriving \subseteq Flows /\ {paused, panicked} \subseteq BOOLEAN
  /\ \A s \in {appended, snapshot, flows} : s \in Seq(Flows)
  /\ \A b \in DOMAIN KeepCount : last[b] \in Seq({ f \in Flows : BufferOf(f) = b })
  /\ heartbeat \in {"waiting", "refreshing"}
  /\ showCount \in MinShow..MaxShow /\ Len(regexes) <= MaxRegexes
  /\ selected \in Flows \cup {NoFlow} /\ row \in 0..MaxShow

\* However late and in whatever order the goroutines get the mutex, each buffer
\* holds the newest of its records by time, and as many as it keeps once there are:
\* sorting and cutting one at a time never drops one that should have stayed, nor
\* do packets push out plaintexts.
NewestKept ==
  \A b \in DOMAIN KeepCount :
    LET put == { f \in ToSet(appended) : BufferOf(f) = b }
    IN  /\ Len(last[b]) = Min({Cardinality(put), KeepCount[b]})
        /\ \A f \in put \ ToSet(last[b]) : ~Before(last[b][1], f, appended)

\* No record has two rows, although rows that left the buffer are carried over
\* from the table and the buffer changes while the heartbeat merges them.
RowsOnce == IsInjective(flows)

\* The rows are sorted by time, those carried over included, across filters that
\* come and go, resizing, and records that arrive late.
RowsInOrder == InOrder(flows, appended)

Newest(f) ==
  \E s \in packetCaptureFlowSnapshot :
    \E i \in DOMAIN s :
      s[i] = f /\ PassesFilters(f) /\ \A j \in DOMAIN s : j > i => ~PassesFilters(s[j])

\* The newest record that passes the filters gets a row, unless a newer one
\* comes or the filters change: carried-over rows never crowd it out.
NewestShown ==
  \A f \in Flows :
    Newest(f) ~> f \in ToSet(flows) \/ ~Newest(f) \/ panicked

\* "index out of bounds due to concurrent update" is handled: a callback of the
\* UI that has checked its row never reads beyond the table.
NoPanic == ~panicked
=============================================================================
