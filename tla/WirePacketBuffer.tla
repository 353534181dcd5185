-------------------------- MODULE WirePacketBuffer --------------------------
(***************************************************************************)
(* wirePacketBuffer of cmd/packet_capture_wire_buffer.go: captured packets *)
(* are held back for a correlation window, so that a decrypted TLS record  *)
(* ("plaintext") arriving before or after can be attached to the packet    *)
(* that carried it.  Two goroutines share the buffer under its mutex: the  *)
(* collector (Enqueue, HandlePlaintext, Close) and flushLoop (a ticker).   *)
(*                                                                         *)
(* The loops the code runs with the mutex held are modelled one iteration  *)
(* per step: `holder` says which operation has the mutex, `stage` which of *)
(* its loops it is in, and `cur` the next index of that loop.  The in-place*)
(* filtering (remaining := b.packets[:0]) keeps the elements before `cur`  *)
(* and removes the one at `cur`.                                           *)
(***************************************************************************)
EXTENDS WireMatch, Sequences

CONSTANTS
  WireInputs,     \* the wire packets the agents may send, records of WireMatch
  TextInputs,     \* the plaintexts the agents may send
  TestInputs,     \* plaintexts that unit tests hand to the buffer, past the collector
  MaxBuffered,    \* maxBufferedWirePackets
  MaxClock,       \* bound: ticks of the receive clock, which saturates there
  LastArrival,    \* bound: nothing arrives after this tick
  MaxPackets,     \* bound: wire packets received
  MaxPlaintexts   \* bound: plaintexts received

ASSUME BufferAssumption ==
  /\ MaxBuffered \in Nat \ {0}
  /\ {MaxClock, LastArrival, MaxPackets, MaxPlaintexts} \subseteq Nat
  /\ WireInputs \subseteq WirePackets
  /\ TextInputs \subseteq Plaintexts /\ TestInputs \subseteq Plaintexts

VARIABLES
  clock,      \* time.Now(), in periods of the flushLoop ticker (window / 4)
  tickDue,    \* the ticker channel holds a tick
  loop,       \* flushLoop: "waiting", "ticked" (wants or has the mutex), "returned"
  collector,  \* the collector: "receiving", "enqueuing", "handling", "closing", "closed"
  holder,     \* the operation that holds b.mu, or "nobody"
  stage,      \* where that operation is
  cur,        \* the index its loop looks at next
  now,        \* the `now` that flushExpiredLocked was given
  arriving,   \* Enqueue's pkt until it is appended, at most one
  reading,    \* HandlePlaintext's pt until it is matched or appended, at most one
  packets,    \* b.packets
  pending,    \* b.pendingPlaintext
  pcap,       \* the packets written to the pcapng writer, in order
  jsonl,      \* the plaintext records passed to finalizePlaintext, in order
  received,   \* how many packets Enqueue has appended
  handled     \* how many plaintexts were handed over: the last PacketID

goroutines == <<clock, tickDue, loop, collector>>
section    == <<holder, stage, cur, now>>
arguments  == <<arriving, reading>>
outputs    == <<pcap, jsonl>>
vars == <<goroutines, section, arguments, packets, pending, outputs, received, handled>>

Init ==
  /\ clock = 0 /\ tickDue = FALSE /\ loop = "waiting" /\ collector = "receiving"
  /\ holder = "nobody" /\ stage = "unlocked" /\ cur = 1 /\ now = 0
  /\ arriving = <<>> /\ reading = <<>>
  /\ packets = <<>> /\ pending = <<>>
  /\ pcap = <<>> /\ jsonl = <<>>
  /\ received = 0 /\ handled = 0

-----------------------------------------------------------------------------
(* Records                                                                  *)

NoAnnotation == 0

NewPacket(w, recv) ==
  [seq |-> received + 1, recv |-> recv, wire |-> w, ann |-> NoAnnotation]

\* The PacketID comes from an atomic counter, before the buffer is called.
NewPending(p) ==
  [id |-> handled + 1, recv |-> clock, data |-> p, original |-> p, ambiguous |-> FALSE]

\* A mistake to catch: keeping the element at i and losing the next.
RemoveNext(s, i) == [j \in 1..(Len(s) - 1) |-> IF j <= i THEN s[j] ELSE s[j + 1]]

Remove(s, i) == [j \in 1..(Len(s) - 1) |-> IF j < i THEN s[j] ELSE s[j + 1]]

Export(pt, annotated, source, destination) ==
  [id |-> pt.id, annotated |-> annotated, from |-> source, to |-> destination,
   text |-> pt.original]

Nowhere == <<NoIP, NoPort>>

\* A mistake to catch: annotated, yet exported with the endpoints as guessed.
ExportAnnotatedAsGuessed(pt, pkt) ==
  Export(pt, TRUE, Source(pt.data), Destination(pt.data))

\* overlayCorrelatedWireToPlaintext: the packet's own tuple, when it has one.
ExportAnnotated(pt, pkt) ==
  IF HasTuple(pkt.wire)
  THEN Export(pt, TRUE, Source(pkt.wire), Destination(pkt.wire))
  ELSE Export(pt, TRUE, Source(pt.data), Destination(pt.data))

Verified(p) == p.kernel /\ HasTuple(p)

\* prepareUnmatchedPlaintext: endpoints that are not verified are removed, and a
\* verified read is turned from local-first to network order.
ExportPrepared(pt) ==
  LET p == pt.original
  IN  IF ~Verified(p) THEN Export(pt, FALSE, Nowhere, Nowhere)
      ELSE IF p.dir = "read" THEN Export(pt, FALSE, Destination(p), Source(p))
      ELSE Export(pt, FALSE, Source(p), Destination(p))

\* finalizeUnmatchedLocked: nothing that was inferred is exported.
ExportUnmatched(pt) ==
  IF pt.original.kernel
  THEN ExportPrepared(pt)
  ELSE Export(pt, FALSE, Source(pt.original), Destination(pt.original))

-----------------------------------------------------------------------------
(* Matching one plaintext against the buffered packets.                     *)

Enriched(pt) == [pt EXCEPT !.data = EnrichFromFilters(@)]

ScoreAt(i, pt) == Score(packets[i].wire, packets[i].recv, pt.data, pt.recv)

\* A mistake to catch: a packet that is already annotated is taken again.
FreeOrNot(i) == i \in DOMAIN packets

Free(i) == packets[i].ann = NoAnnotation

\* The first of the highest scores among the packets not yet annotated.
IsBest(i, pt) ==
  /\ Free(i) /\ ScoreAt(i, pt) >= 0
  /\ \A j \in DOMAIN packets :
       Free(j) => \/ ScoreAt(j, pt) < ScoreAt(i, pt)
                  \/ ScoreAt(j, pt) = ScoreAt(i, pt) /\ i <= j

HasRunnerUp(i, pt) ==
  \E j \in DOMAIN packets \ {i} :
    Free(j) /\ ScoreAt(j, pt) >= 0 /\ ScoreAt(i, pt) - ScoreAt(j, pt) <= AmbiguityMargin

\* An annotated packet still proves that another connection was there.
CompetingConnections(pt) ==
  \E i, j \in DOMAIN packets :
    /\ ScoreAt(i, pt) >= 0 /\ ScoreAt(j, pt) >= 0
    /\ HasTuple(packets[i].wire) /\ HasTuple(packets[j].wire)
    /\ ~SameConnection(Tuple(packets[i].wire), Tuple(packets[j].wire))

\* A mistake to catch: the ambiguity seen earlier is forgotten.
ExaminedAfresh(pt) ==
  LET e == Enriched(pt)
  IN  [e EXCEPT !.ambiguous = ~HasTuple(e.original) /\ CompetingConnections(e)]

\* What bestWireMatchWithAmbiguityLocked leaves in the plaintext.
Examined(pt) ==
  LET e == Enriched(pt)
  IN  [e EXCEPT !.ambiguous = @ \/ (~HasTuple(e.original) /\ CompetingConnections(e))]

\* Only the window, or the end of the capture, may complete a partial tuple.
MayInfer(i, pt) ==
  \/ holder = "Close"
  \/ HasTuple(pt.original)
  \/ clock - pt.recv >= Window
  \/ clock - packets[i].recv >= Window

\* tryAnnotateLocked returns true for packet i; pt is already examined.
Matches(i, pt) ==
  /\ IsBest(i, pt)
  /\ ~HasRunnerUp(i, pt) /\ ~pt.ambiguous
  /\ ScoreAt(i, pt) >= MinScore(pt.data)
  /\ MayInfer(i, pt)

Annotate(i, pt) ==
  /\ packets' = [packets EXCEPT ![i].ann = pt.id]
  /\ jsonl' = Append(jsonl, ExportAnnotated(pt, packets[i]))

-----------------------------------------------------------------------------
(* Entering and leaving the critical section.                               *)

Goto(s) == stage' = s /\ cur' = 1 /\ UNCHANGED <<holder, now>>

Advance == cur' = cur + 1 /\ UNCHANGED <<holder, stage, now>>

\* A mistake to catch: without a packet, the pending plaintexts are skipped too.
LockAndSkip(op, time) ==
  /\ holder = "nobody"
  /\ holder' = op /\ now' = time
  /\ stage' = IF packets = <<>> THEN "expire" ELSE "match"
  /\ cur' = IF packets = <<>> THEN Len(pending) + 1 ELSE 1

\* flushExpiredLocked starts by matching, unless there is no packet.
LockAndFlush(op, time) ==
  /\ holder = "nobody"
  /\ holder' = op /\ now' = time /\ cur' = 1
  /\ stage' = IF packets = <<>> THEN "expire" ELSE "match"

Unlock == holder' = "nobody" /\ stage' = "unlocked" /\ cur' = 1 /\ now' = 0

BufferUnchanged == UNCHANGED <<packets, pending, outputs, received>>

Receiving(count, bound) ==
  collector = "receiving" /\ clock <= LastArrival /\ count < bound

\* Enqueue takes its timestamp before it waits for the mutex.
StartEnqueue(w) ==
  /\ Receiving(received, MaxPackets)
  /\ collector' = "enqueuing"
  /\ arriving' = <<NewPacket(w, clock)>>
  /\ UNCHANGED <<clock, tickDue, loop, section, reading, handled>>
  /\ BufferUnchanged

LockEnqueue ==
  /\ collector = "enqueuing" /\ arriving # <<>>
  /\ LockAndFlush("Enqueue", arriving[1].recv)
  /\ UNCHANGED <<goroutines, arguments, handled>>
  /\ BufferUnchanged

HandlePlaintext(p) ==
  /\ Receiving(handled, MaxPlaintexts)
  /\ LockAndFlush("HandlePlaintext", clock)
  /\ collector' = "handling"
  /\ reading' = <<NewPending(p)>>
  /\ handled' = handled + 1
  /\ UNCHANGED <<clock, tickDue, loop, arriving>>
  /\ BufferUnchanged

\* What has no verified tuple never enters the buffer: it is logged at once, while
\* flushLoop may be writing to the same JSONL.
ExportAtOnce(p) ==
  /\ Receiving(handled, MaxPlaintexts)
  /\ jsonl' = Append(jsonl, ExportPrepared(NewPending(p)))
  /\ handled' = handled + 1
  /\ UNCHANGED <<goroutines, section, arguments, packets, pending, pcap, received>>

\* A mistake to catch: a tuple is enough, whoever supplied it.
DispatchByTuple(p) ==
  \/ HasTuple(p) /\ HandlePlaintext(p)
  \/ ~HasTuple(p) /\ ExportAtOnce(p)

HandlePlaintextRecord(p) ==
  \/ Verified(p) /\ HandlePlaintext(p)
  \/ ~Verified(p) /\ ExportAtOnce(p)

\* flushLoop: the tick is consumed before the wait for the mutex.
ReceiveTick ==
  /\ loop = "waiting" /\ tickDue
  /\ loop' = "ticked" /\ tickDue' = FALSE
  /\ UNCHANGED <<clock, collector, section, arguments, handled>>
  /\ BufferUnchanged

LockFlush ==
  /\ loop = "ticked"
  /\ LockAndFlush("flushLoop", clock)
  /\ UNCHANGED <<goroutines, arguments, handled>>
  /\ BufferUnchanged

\* Close: close(b.stopCh), after which flushLoop may return or tick again ...
StartClose ==
  /\ collector = "receiving"
  /\ collector' = "closing"
  /\ UNCHANGED <<clock, tickDue, loop, section, arguments, handled>>
  /\ BufferUnchanged

FlushLoopReturn ==
  /\ loop = "waiting"
  /\ collector \in {"closing", "closed"}
  /\ loop' = "returned" /\ tickDue' = FALSE
  /\ UNCHANGED <<clock, collector, section, arguments, handled>>
  /\ BufferUnchanged

\* ... then flushAll, whose final match runs even over an empty buffer.
LockClose ==
  /\ collector = "closing"
  /\ holder = "nobody"
  /\ holder' = "Close" /\ stage' = "match" /\ cur' = 1 /\ now' = clock
  /\ UNCHANGED <<goroutines, arguments, handled>>
  /\ BufferUnchanged

-----------------------------------------------------------------------------
(* The loops of the critical section, one iteration per step.               *)

\* A mistake to catch: flushAll keeps what the window has not passed.
DueByWindow(recv) == now - recv >= Window

\* flushAll drains everything, flushExpiredLocked what the window has passed.
Due(recv) == holder = "Close" \/ now - recv >= Window

\* matchPendingAgainstWireLocked, before ("match") and after ("rematch") the append.
MatchPending ==
  /\ stage \in {"match", "rematch"}
  /\ cur <= Len(pending)
  /\ LET pt == Examined(pending[cur])
     IN  \/ \E i \in DOMAIN packets :
              /\ Matches(i, pt)
              /\ Annotate(i, pt)
              /\ pending' = Remove(pending, cur)
              /\ UNCHANGED section
         \/ /\ \A i \in DOMAIN packets : ~Matches(i, pt)
            /\ pending' = [pending EXCEPT ![cur] = pt]
            /\ Advance
            /\ UNCHANGED <<packets, jsonl>>
  /\ UNCHANGED <<goroutines, arguments, pcap, received, handled>>

MatchDone ==
  /\ stage = "match" /\ cur > Len(pending)
  /\ Goto("write")
  /\ UNCHANGED <<goroutines, arguments, handled>>
  /\ BufferUnchanged

\* Mistakes to catch: the packets after i are dropped with it; the annotation is
\* not in the packet that is written.
WriteAndTruncate(i) == pcap' = Append(pcap, packets[i]) /\ packets' = SubSeq(packets, 1, i - 1)

WriteUnannotated(i) ==
  /\ pcap' = Append(pcap, [packets[i] EXCEPT !.ann = NoAnnotation])
  /\ packets' = Remove(packets, i)

\* writeBufferedWirePacket
WriteAt(i) == pcap' = Append(pcap, packets[i]) /\ packets' = Remove(packets, i)

WritePacket ==
  /\ stage = "write" /\ cur <= Len(packets)
  /\ IF Due(packets[cur].recv)
     THEN WriteAt(cur) /\ UNCHANGED section
     ELSE Advance /\ UNCHANGED <<pcap, packets>>
  /\ UNCHANGED <<goroutines, arguments, pending, jsonl, received, handled>>

WriteDone ==
  /\ stage = "write" /\ cur > Len(packets)
  /\ Goto("expire")
  /\ UNCHANGED <<goroutines, arguments, handled>>
  /\ BufferUnchanged

ExpirePending ==
  /\ stage = "expire" /\ cur <= Len(pending)
  /\ IF Due(pending[cur].recv)
     THEN /\ jsonl' = Append(jsonl, ExportUnmatched(pending[cur]))
          /\ pending' = Remove(pending, cur)
          /\ UNCHANGED section
     ELSE Advance /\ UNCHANGED <<jsonl, pending>>
  /\ UNCHANGED <<goroutines, arguments, packets, pcap, received, handled>>

\* The end of flushExpiredLocked, or of flushAll.
ExpireDone ==
  /\ stage = "expire" /\ cur > Len(pending)
  /\ \/ holder = "Enqueue" /\ Goto("append") /\ UNCHANGED <<loop, collector>>
     \/ holder = "HandlePlaintext" /\ Goto("annotate") /\ UNCHANGED <<loop, collector>>
     \/ holder = "flushLoop" /\ Unlock /\ loop' = "waiting" /\ UNCHANGED collector
     \/ holder = "Close" /\ Unlock /\ collector' = "closed" /\ UNCHANGED loop
  /\ UNCHANGED <<clock, tickDue, arguments, handled>>
  /\ BufferUnchanged

AppendPacket ==
  /\ stage = "append"
  /\ arriving # <<>>
  /\ packets' = Append(packets, arriving[1])
  /\ received' = received + 1
  /\ arriving' = <<>>
  /\ Goto("evict")
  /\ UNCHANGED <<goroutines, reading, pending, outputs, handled>>

\* A mistake to catch: an off-by-one at the limit.
FullLate == Len(packets) > MaxBuffered + 1

Full == Len(packets) > MaxBuffered

\* A full buffer writes its oldest packet, annotated or not.
Evict ==
  /\ stage = "evict"
  /\ IF Full
     THEN WriteAt(1)
     ELSE UNCHANGED <<pcap, packets>>
  /\ Goto("rematch")
  /\ UNCHANGED <<goroutines, arguments, pending, jsonl, received, handled>>

EnqueueReturn ==
  /\ stage = "rematch" /\ cur > Len(pending)
  /\ Unlock
  /\ collector' = "receiving"
  /\ UNCHANGED <<clock, tickDue, loop, arguments, handled>>
  /\ BufferUnchanged

\* The end of HandlePlaintext: annotate at once, or wait in the buffer.
AnnotateOrWait ==
  /\ stage = "annotate"
  /\ reading # <<>>
  /\ LET pt == Examined(reading[1])
     IN  \/ \E i \in DOMAIN packets :
              Matches(i, pt) /\ Annotate(i, pt) /\ UNCHANGED pending
         \/ /\ \A i \in DOMAIN packets : ~Matches(i, pt)
            /\ pending' = Append(pending, pt)
            /\ UNCHANGED <<packets, jsonl>>
  /\ reading' = <<>>
  /\ Unlock
  /\ collector' = "receiving"
  /\ UNCHANGED <<clock, tickDue, loop, arriving, pcap, received, handled>>

\* A mistake to catch: a timer instead of a ticker.
TickOnce ==
  /\ clock' = IF clock < MaxClock THEN clock + 1 ELSE clock
  /\ tickDue' = (loop # "returned" /\ clock = 0)
  /\ UNCHANGED <<loop, collector, section, arguments, handled>>
  /\ BufferUnchanged

\* Time never stops, but the model stops counting it at MaxClock.
Tick ==
  /\ clock' = IF clock < MaxClock THEN clock + 1 ELSE clock
  /\ tickDue' = (loop # "returned")
  /\ UNCHANGED <<loop, collector, section, arguments, handled>>
  /\ BufferUnchanged

-----------------------------------------------------------------------------

CriticalSection ==
  \/ MatchPending \/ MatchDone \/ WritePacket \/ WriteDone \/ ExpirePending
  \/ ExpireDone \/ AppendPacket \/ Evict \/ EnqueueReturn \/ AnnotateOrWait

Next ==
  \/ \E w \in WireInputs : StartEnqueue(w)
  \/ LockEnqueue
  \/ \E p \in TextInputs : HandlePlaintextRecord(p)
  \/ \E p \in TestInputs : HandlePlaintext(p)
  \/ StartClose \/ LockClose
  \/ ReceiveTick \/ LockFlush \/ FlushLoopReturn
  \/ CriticalSection
  \/ Tick

\* Time passes, a goroutine that waits for the mutex gets it once nobody holds it
\* any more (sync.Mutex is starvation-free), and the one that holds it goes on.
Fairness ==
  /\ WF_vars(Tick)
  /\ WF_vars(ReceiveTick)
  /\ SF_vars(LockFlush)
  /\ SF_vars(LockEnqueue)
  /\ SF_vars(LockClose)
  /\ WF_vars(CriticalSection)

Spec == Init /\ [][Next]_vars

FairSpec == Spec /\ Fairness

-----------------------------------------------------------------------------
(* Properties                                                               *)

BufferedPackets == [seq : Nat, recv : Nat, wire : WirePackets, ann : Nat]

PendingTexts ==
  [id : Nat, recv : Nat, data : Plaintexts, original : Plaintexts, ambiguous : BOOLEAN]

ExportedTexts ==
  [id : Nat, annotated : BOOLEAN, from : Endpoints, to : Endpoints, text : Plaintexts]

ControlTypes ==
  /\ clock \in Nat
  /\ loop \in {"waiting", "ticked", "returned"}
  /\ collector \in {"receiving", "enqueuing", "handling", "closing", "closed"}
  /\ holder \in {"nobody", "Enqueue", "HandlePlaintext", "flushLoop", "Close"}
  /\ stage \in {"unlocked", "match", "write", "expire", "append", "evict", "rematch",
                "annotate"}
  /\ cur \in Nat \ {0} /\ now \in Nat

DataTypes ==
  /\ arriving \in Seq(BufferedPackets) /\ Len(arriving) <= 1
  /\ reading \in Seq(PendingTexts) /\ Len(reading) <= 1
  /\ packets \in Seq(BufferedPackets) /\ pending \in Seq(PendingTexts)
  /\ pcap \in Seq(BufferedPackets) /\ jsonl \in Seq(ExportedTexts)
  /\ received \in Nat /\ handled \in Nat

WithinLimit == Len(packets) <= MaxBuffered + (IF stage = "evict" THEN 1 ELSE 0)

\* The shape of every variable, and the buffer's limit of maxBufferedWirePackets.
TypeOK == tickDue \in BOOLEAN /\ ControlTypes /\ DataTypes /\ WithinLimit

\* The capture so far: the packets in the file, then those still buffered.
Journal == pcap \o packets

\* Every packet that Enqueue accepted is in the file or in the buffer exactly
\* once and in arrival order, whether it leaves by expiry, by eviction from a
\* full buffer or at Close: the pcapng never loses, repeats or reorders one.
PacketsInOrder ==
  /\ Len(Journal) = received
  /\ \A i \in DOMAIN Journal : Journal[i].seq = i

Holds(s, id) == {i \in DOMAIN s : s[i].id = id}

\* Where plaintext id is: the JSONL, the buffer, or HandlePlaintext's hands.
Places(id) ==
  {"jsonl"} \X Holds(jsonl, id) \cup {"pending"} \X Holds(pending, id)
    \cup {"reading"} \X Holds(reading, id)

\* Every plaintext is exported to the JSONL exactly once, or still waits to be:
\* HandlePlaintext, the three matching loops and the two expiry loops never
\* drop one and never export one twice.
PlaintextsExportedOnce ==
  \A id \in 1..handled : IsSingleton(Places(id))

Annotated(id) == {i \in DOMAIN Journal : Journal[i].ann = id}

\* A JSONL record says PcapAnnotated if and only if exactly one packet of the
\* capture carries its PacketID, and its endpoints are then that packet's; no
\* packet carries the PacketID of a record that is not exported as annotated.
RecordsAgreeWithPcap ==
  /\ \A r \in DOMAIN jsonl :
       LET marked == Annotated(jsonl[r].id)
       IN  IF jsonl[r].annotated
           THEN \E i \in DOMAIN Journal :
                  /\ marked = {i}
                  /\ HasTuple(Journal[i].wire) =>
                       <<jsonl[r].from, jsonl[r].to>> = Tuple(Journal[i].wire)
           ELSE marked = {}
  /\ \A i \in DOMAIN Journal :
       Journal[i].ann # NoAnnotation => Holds(jsonl, Journal[i].ann) # {}

\* A tuple the kernel verified is exported unaltered and in network direction
\* (a read's local endpoint last), whichever of the two export paths it takes;
\* no other record the agents sent is exported with endpoints.
VerifiedEndpointsKept ==
  \A r \in DOMAIN jsonl :
    LET p == jsonl[r].text
        ends == <<jsonl[r].from, jsonl[r].to>>
    IN  p \in TextInputs \ TestInputs =>
          ends = IF ~Verified(p) THEN <<Nowhere, Nowhere>>
                 ELSE IF p.dir = "read" THEN <<Destination(p), Source(p)>>
                 ELSE Tuple(p)

\* After Close nothing is left behind: every packet is in the pcapng, every
\* plaintext in the JSONL, even when the flush loop still had a tick to serve.
CloseDrains ==
  collector = "closed" =>
    /\ packets = <<>> /\ pending = <<>> /\ arriving = <<>> /\ reading = <<>>
    /\ Len(pcap) = received /\ Len(jsonl) = handled

\* Once packets of two connections competed for a plaintext without its tuple,
\* the expiry of one of them never makes it attributable to the other.
AmbiguityIsFinal ==
  [][\A i \in DOMAIN pending :
       pending[i].ambiguous =>
         \A r \in DOMAIN jsonl' : jsonl'[r].id = pending[i].id => ~jsonl'[r].annotated]_vars

\* The files keep the promise of PcapJournal: in particular a packet is claimed
\* by one plaintext at most, never after it was written, and the claim is kept.
Promise ==
  INSTANCE PcapJournal WITH
    claims   <- [i \in DOMAIN Journal |-> Journal[i].ann],
    written  <- Len(pcap),
    handed   <- handled,
    exported <- {jsonl[r].id : r \in DOMAIN jsonl}

KeepsPromise == Promise!Spec

\* No capture needs to end for its packets to reach the file: the ticker writes
\* each packet once its window has passed, and exports each plaintext.
EveryPacketWritten ==
  \A n \in 1..MaxPackets : received >= n ~> Len(pcap) >= n

EveryPlaintextExported ==
  \A n \in 1..MaxPlaintexts : handled >= n ~> \E r \in DOMAIN jsonl : jsonl[r].id = n
=============================================================================
