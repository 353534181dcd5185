----------------------- MODULE WirePacketBuffer_proofs -----------------------
(***************************************************************************)
(* Proofs about WirePacketBuffer, for every set of inputs, window, buffer  *)
(* size and bound.                                                         *)
(***************************************************************************)
EXTENDS WirePacketBuffer, SequenceTheorems, TLAPS

-----------------------------------------------------------------------------
(* Sequences.                                                               *)

\* The in-place filtering of b.packets and b.pendingPlaintext: dropping the
\* element at i shifts the later ones down by one and keeps the type.
LEMMA RemoveProperties ==
  ASSUME NEW S, NEW s \in Seq(S), NEW i \in 1..Len(s)
  PROVE  /\ Remove(s, i) \in Seq(S)
         /\ Len(Remove(s, i)) = Len(s) - 1
         /\ DOMAIN Remove(s, i) = 1..(Len(s) - 1)
         /\ \A j \in 1..(Len(s) - 1) :
              Remove(s, i)[j] = IF j < i THEN s[j] ELSE s[j + 1]
<1> DEFINE n == Len(s) - 1
           f[j \in 1..n] == IF j < i THEN s[j] ELSE s[j + 1]
<1>1. n \in Nat
  BY LenProperties
<1>2. \A j \in 1..n : s[j] \in S /\ s[j + 1] \in S
  BY ElementOfSeq, LenProperties
<1>3. Remove(s, i) = [j \in 1..n |-> IF j < i THEN s[j] ELSE s[j + 1]]
  BY DEF Remove
<1>4. Remove(s, i) \in [1..n -> S]
  BY <1>2, <1>3
<1>5. Remove(s, i) \in Seq(S) /\ Len(Remove(s, i)) = n
  BY <1>1, <1>4, IsASeq, LenProperties
<1> QED
  BY <1>3, <1>5

-----------------------------------------------------------------------------
(* What the helpers return.                                                 *)

\* What HandlePlaintext may be given, by the collector or by a unit test.
AnyText == TextInputs \cup TestInputs

\* A plaintext enters the buffer or is logged at once.
LEMMA PlaintextArrives ==
  ASSUME \/ \E p \in TextInputs : HandlePlaintextRecord(p)
         \/ \E p \in TestInputs : HandlePlaintext(p)
  PROVE  \/ \E p \in AnyText : HandlePlaintext(p)
         \/ \E p \in AnyText : ExportAtOnce(p)
BY DEF AnyText, HandlePlaintextRecord

LEMMA ConstantTypes ==
  /\ Window \in Nat \ {0} /\ MaxBuffered \in Nat \ {0}
  /\ MaxClock \in Nat /\ LastArrival \in Nat /\ MaxPackets \in Nat /\ MaxPlaintexts \in Nat
  /\ \A w \in WireInputs : w \in WirePackets
  /\ \A p \in AnyText : p \in Plaintexts
BY WindowAssumption, BufferAssumption DEF AnyText

\* Completing a plaintext from the capture filters yields a plaintext.
LEMMA EnrichType ==
  ASSUME NEW p \in Plaintexts
  PROVE  EnrichFromFilters(p) \in Plaintexts
<1> DEFINE peer == SingleOrElse(Filters.peerIPs, NoIP)
           port == SingleOrElse(Filters.ports, 0)
<1>1. peer \in Hosts
  BY AddressAssumption DEF SingleOrElse, IsSingleton, Hosts
<1>2. port \in Ports
  <2>1. Filters.ports \subseteq 0..MaxPort
    BY AddressAssumption
  <2>2. \A S : SingleOrElse(S, 0) = 0 \/ SingleOrElse(S, 0) \in S
    BY DEF SingleOrElse, IsSingleton
  <2>3. 0..MaxPort \subseteq Ports /\ 0 \in Ports
    <3>1. NoPort \in Int /\ NoPort <= 0 /\ MaxPort \in Nat
      BY DEF NoPort, MaxPort
    <3> QED
      BY <3>1 DEF Ports
  <2> QED
    BY <2>1, <2>2, <2>3
<1> HIDE DEF peer, port
<1>3. ASSUME NEW q \in Plaintexts
      PROVE  CompletePort(q, port) \in Plaintexts
  <2>1. [q EXCEPT !.sport = port] \in Plaintexts
    BY <1>2 DEF Plaintexts
  <2> QED
    BY <2>1 DEF CompletePort
<1>4. [p EXCEPT !.src = peer] \in Plaintexts
  BY <1>1 DEF Plaintexts
<1>5. EnrichFromFilters(p) \in
        {p, CompletePort(p, port), CompletePort([p EXCEPT !.src = peer], port)}
  BY DEF EnrichFromFilters, peer, port
<1> QED
  BY <1>3, <1>4, <1>5

LEMMA EndpointTypes ==
  /\ \A p \in Plaintexts : Source(p) \in Endpoints /\ Destination(p) \in Endpoints
  /\ \A w \in WirePackets : Source(w) \in Endpoints /\ Destination(w) \in Endpoints
  /\ Nowhere \in Endpoints
<1>1. ASSUME NEW p \in Plaintexts
      PROVE  Source(p) \in Endpoints /\ Destination(p) \in Endpoints
  <2>1. p.src \in Hosts /\ p.dst \in Hosts /\ p.sport \in Ports /\ p.dport \in Ports
    BY DEF Plaintexts
  <2> QED
    BY <2>1 DEF Source, Destination, Endpoints
<1>2. ASSUME NEW w \in WirePackets
      PROVE  Source(w) \in Endpoints /\ Destination(w) \in Endpoints
  <2>1. w.src \in Hosts /\ w.dst \in Hosts /\ w.sport \in Ports /\ w.dport \in Ports
    BY DEF WirePackets
  <2> QED
    BY <2>1 DEF Source, Destination, Endpoints
<1>3. Nowhere \in Endpoints
  <2>1. NoIP \in Hosts /\ NoPort \in Ports
    BY DEF Hosts, Ports, NoPort, MaxPort
  <2> QED
    BY <2>1 DEF Nowhere, Endpoints
<1> QED
  BY <1>1, <1>2, <1>3

\* Looking for a match changes a plaintext's hints, never its identity.
LEMMA ExaminedProperties ==
  ASSUME NEW pt \in PendingTexts
  PROVE  /\ Examined(pt) \in PendingTexts
         /\ Examined(pt).id = pt.id /\ Examined(pt).recv = pt.recv
         /\ Examined(pt).original = pt.original
<1> DEFINE e == Enriched(pt)
           b == e.ambiguous \/ (~HasTuple(e.original) /\ CompetingConnections(e))
<1>1. /\ e \in PendingTexts
      /\ e.id = pt.id /\ e.recv = pt.recv /\ e.original = pt.original
  BY EnrichType DEF Enriched, PendingTexts
<1>2. b \in BOOLEAN
  OBVIOUS
<1>3. Examined(pt) = [e EXCEPT !.ambiguous = b]
  BY DEF Examined
<1> HIDE DEF e, b
<1> QED
  BY <1>1, <1>2, <1>3 DEF PendingTexts

\* Both ways of exporting keep the PacketID; only the first claims a packet.
LEMMA ExportProperties ==
  ASSUME NEW pt \in PendingTexts
  PROVE  /\ \A pkt \in BufferedPackets :
              /\ ExportAnnotated(pt, pkt) \in ExportedTexts
              /\ ExportAnnotated(pt, pkt).id = pt.id
              /\ ExportAnnotated(pt, pkt).annotated
         /\ \A e \in {ExportPrepared(pt), ExportUnmatched(pt)} :
              e \in ExportedTexts /\ e.id = pt.id /\ ~e.annotated
<1>1. pt.id \in Nat /\ pt.original \in Plaintexts /\ pt.data \in Plaintexts
  BY DEF PendingTexts
<1>2. ASSUME NEW a \in BOOLEAN, NEW from \in Endpoints, NEW to \in Endpoints
      PROVE  /\ Export(pt, a, from, to) \in ExportedTexts
             /\ Export(pt, a, from, to).id = pt.id
             /\ Export(pt, a, from, to).annotated = a
  BY <1>1 DEF Export, ExportedTexts
<1>3. \A pkt \in BufferedPackets : pkt.wire \in WirePackets
  BY DEF BufferedPackets
<1> DEFINE Exported(e) == e \in ExportedTexts /\ e.id = pt.id /\ ~e.annotated
<1>4. \A from, to \in Endpoints : Exported(Export(pt, FALSE, from, to))
  BY <1>2
<1>5. /\ Source(pt.original) \in Endpoints /\ Destination(pt.original) \in Endpoints
      /\ Nowhere \in Endpoints
  BY <1>1, EndpointTypes
<1>6. ASSUME NEW pkt \in BufferedPackets
      PROVE  /\ ExportAnnotated(pt, pkt) \in ExportedTexts
             /\ ExportAnnotated(pt, pkt).id = pt.id
             /\ ExportAnnotated(pt, pkt).annotated
  BY <1>1, <1>2, <1>3, EndpointTypes DEF ExportAnnotated
<1> HIDE DEF Exported
<1>7. Exported(ExportPrepared(pt))
  BY <1>4, <1>5 DEF ExportPrepared
<1>8. Exported(ExportUnmatched(pt))
  BY <1>4, <1>5, <1>7 DEF ExportUnmatched
<1> QED
  BY <1>6, <1>7, <1>8 DEF Exported

LEMMA NewRecords ==
  ASSUME TypeOK
  PROVE  /\ \A w \in WireInputs :
              /\ NewPacket(w, clock) \in BufferedPackets
              /\ NewPacket(w, clock).seq = received + 1 /\ NewPacket(w, clock).recv = clock
              /\ NewPacket(w, clock).ann = NoAnnotation
         /\ \A p \in AnyText :
              NewPending(p) \in PendingTexts /\ NewPending(p).id = handled + 1
BY ConstantTypes DEF TypeOK, ControlTypes, DataTypes, NewPacket, NewPending, BufferedPackets, PendingTexts, NoAnnotation

-----------------------------------------------------------------------------
(* Types.                                                                   *)

\* Annotating a packet changes its mark only, and exports one record.
LEMMA AnnotateProperties ==
  ASSUME TypeOK, NEW pt \in PendingTexts, NEW i \in DOMAIN packets, Annotate(i, pt)
  PROVE  /\ packets' \in Seq(BufferedPackets) /\ Len(packets') = Len(packets)
         /\ \A j \in 1..Len(packets) :
              packets'[j].seq = packets[j].seq /\ packets'[j].recv = packets[j].recv
         /\ jsonl' \in Seq(ExportedTexts)
<1>1. packets \in Seq(BufferedPackets) /\ jsonl \in Seq(ExportedTexts)
  BY DEF TypeOK, DataTypes
<1>2. DOMAIN packets = 1..Len(packets) /\ Len(packets) \in Nat
  BY <1>1, LenProperties
<1>3. \A j \in 1..Len(packets) : packets[j] \in BufferedPackets
  BY <1>1, ElementOfSeq
<1>4. pt.id \in Nat
  BY DEF PendingTexts
<1>5. packets' = [packets EXCEPT ![i] = [packets[i] EXCEPT !.ann = pt.id]]
  BY DEF Annotate
<1>6. [packets[i] EXCEPT !.ann = pt.id] \in BufferedPackets
  BY <1>2, <1>3, <1>4 DEF BufferedPackets
<1>7. packets' \in Seq(BufferedPackets) /\ Len(packets') = Len(packets)
  BY <1>1, <1>2, <1>5, <1>6, ExceptSeq
<1>8. ASSUME NEW j \in 1..Len(packets)
      PROVE  packets'[j].seq = packets[j].seq /\ packets'[j].recv = packets[j].recv
  BY <1>2, <1>3, <1>5 DEF BufferedPackets
<1>9. jsonl' \in Seq(ExportedTexts)
  BY <1>1, <1>2, <1>3, ExportProperties, AppendProperties DEF Annotate
<1> QED
  BY <1>7, <1>8, <1>9

\* The mutex and the code position agree: nobody is inside without holding it.
HolderOK == holder = "nobody" => stage = "unlocked"

LEMMA InitTypes == Init => TypeOK /\ HolderOK
<1>1. \A S : <<>> \in Seq(S)
  BY EmptySeq
<1>2. Len(<<>>) = 0
  OBVIOUS
<1>3. MaxBuffered \in Nat
  BY ConstantTypes
<1> SUFFICES ASSUME Init PROVE TypeOK /\ HolderOK
  OBVIOUS
<1>4. ControlTypes /\ HolderOK
  BY DEF Init, ControlTypes, HolderOK
<1>5. tickDue \in BOOLEAN
  BY DEF Init
<1>6. DataTypes
  BY <1>1, <1>2 DEF Init, DataTypes
<1>7. WithinLimit
  BY <1>2, <1>3 DEF Init, WithinLimit
<1> QED
  BY <1>4, <1>5, <1>6, <1>7 DEF TypeOK

\* Types of the goroutines' states and of the code position.
LEMMA LockAndFlushTypes ==
  ASSUME TypeOK, HolderOK,
         NEW op \in {"Enqueue", "HandlePlaintext", "flushLoop", "Close"},
         NEW time \in Nat, LockAndFlush(op, time)
  PROVE  /\ holder' \in {"Enqueue", "HandlePlaintext", "flushLoop", "Close"}
         /\ stage' \in {"match", "expire"} /\ cur' \in Nat \ {0} /\ now' \in Nat
         /\ stage = "unlocked"
BY DEF HolderOK, LockAndFlush

\* Every step keeps the goroutines' states and the code position well-formed.
LEMMA ControlStep ==
  ASSUME TypeOK, HolderOK, [Next]_vars
  PROVE  ControlTypes' /\ HolderOK'
<1> USE DEF TypeOK, ControlTypes, HolderOK, goroutines, section
<1>1. CASE \E w \in WireInputs : StartEnqueue(w)
  BY <1>1 DEF StartEnqueue
<1>2. CASE LockEnqueue
  <2>1. arriving[1] \in BufferedPackets
    BY <1>2, ElementOfSeq, EmptySeq DEF LockEnqueue, DataTypes
  <2>2. arriving[1].recv \in Nat
    BY <2>1 DEF BufferedPackets
  <2> QED
    BY <1>2, <2>2, LockAndFlushTypes DEF LockEnqueue
<1>3. CASE \E p \in AnyText : HandlePlaintext(p)
  BY <1>3, LockAndFlushTypes DEF HandlePlaintext
<1>4. CASE StartClose
  BY <1>4 DEF StartClose
<1>5. CASE LockClose
  BY <1>5 DEF LockClose
<1>6. CASE ReceiveTick
  BY <1>6 DEF ReceiveTick
<1>7. CASE LockFlush
  BY <1>7, LockAndFlushTypes DEF LockFlush
<1>8. CASE FlushLoopReturn
  BY <1>8 DEF FlushLoopReturn
<1>9. CASE MatchPending
  BY <1>9 DEF MatchPending, Advance
<1>10. CASE MatchDone
  BY <1>10 DEF MatchDone, Goto
<1>11. CASE WritePacket
  BY <1>11 DEF WritePacket, WriteAt, Advance
<1>12. CASE WriteDone
  BY <1>12 DEF WriteDone, Goto
<1>13. CASE ExpirePending
  BY <1>13 DEF ExpirePending, Advance
<1>14. CASE ExpireDone
  BY <1>14 DEF ExpireDone, Goto, Unlock
<1>15. CASE AppendPacket
  BY <1>15 DEF AppendPacket, Goto
<1>16. CASE Evict
  BY <1>16 DEF Evict, Full, WriteAt, Goto
<1>17. CASE EnqueueReturn
  BY <1>17 DEF EnqueueReturn, Unlock
<1>18. CASE AnnotateOrWait
  BY <1>18 DEF AnnotateOrWait, Unlock
<1>19. CASE Tick
  BY <1>19, ConstantTypes DEF Tick
<1>20. CASE \E p \in AnyText : ExportAtOnce(p)
  BY <1>20 DEF ExportAtOnce
<1>21. CASE UNCHANGED vars
  BY <1>21 DEF vars
<1> QED
  BY <1>1, <1>2, <1>3, <1>4, <1>5, <1>6, <1>7, <1>8, <1>9, <1>10, <1>11, <1>12, <1>13,
     <1>14, <1>15, <1>16, <1>17, <1>18, <1>19, <1>20, <1>21, PlaintextArrives
     DEF Next, CriticalSection

\* What the elements of the sequences are.
LEMMA ElementTypes ==
  ASSUME TypeOK
  PROVE  /\ DOMAIN packets = 1..Len(packets) /\ Len(packets) \in Nat
         /\ DOMAIN pcap = 1..Len(pcap) /\ Len(pcap) \in Nat
         /\ DOMAIN pending = 1..Len(pending) /\ Len(pending) \in Nat
         /\ \A i \in 1..Len(packets) : packets[i] \in BufferedPackets
         /\ \A i \in 1..Len(pcap) : pcap[i] \in BufferedPackets
         /\ \A i \in 1..Len(pending) : pending[i] \in PendingTexts
         /\ arriving # <<>> => Len(arriving) = 1 /\ arriving[1] \in BufferedPackets
         /\ reading # <<>> => Len(reading) = 1 /\ reading[1] \in PendingTexts
<1>1. \A S : \A s \in Seq(S) :
        /\ DOMAIN s = 1..Len(s) /\ Len(s) \in Nat
        /\ \A i \in 1..Len(s) : s[i] \in S
  BY LenProperties, ElementOfSeq
<1>2. ASSUME NEW S, NEW s \in Seq(S), s # <<>>, Len(s) <= 1
      PROVE  Len(s) = 1 /\ s[1] \in S
  <2>1. Len(s) \in Nat \ {0}
    BY <1>2, EmptySeq
  <2>2. Len(s) = 1
    BY <1>2, <2>1
  <2> QED
    BY <2>2, ElementOfSeq
<1> QED
  BY <1>1, <1>2 DEF TypeOK, DataTypes

\* A loop's match either annotates a packet or leaves the packets alone.
LEMMA MatchPendingTypes ==
  ASSUME TypeOK, MatchPending
  PROVE  /\ packets' \in Seq(BufferedPackets) /\ Len(packets') = Len(packets)
         /\ \A j \in 1..Len(packets) :
              packets'[j].seq = packets[j].seq /\ packets'[j].recv = packets[j].recv
         /\ pending' \in Seq(PendingTexts) /\ jsonl' \in Seq(ExportedTexts)
<1> DEFINE pt == Examined(pending[cur])
<1>1. cur \in 1..Len(pending)
  BY ElementTypes DEF MatchPending, TypeOK, ControlTypes
<1>2. pt \in PendingTexts
  BY <1>1, ElementTypes, ExaminedProperties
<1>3. /\ packets \in Seq(BufferedPackets) /\ pending \in Seq(PendingTexts)
      /\ jsonl \in Seq(ExportedTexts)
  BY DEF TypeOK, DataTypes
<1>4. \/ \E i \in DOMAIN packets : Annotate(i, pt) /\ pending' = Remove(pending, cur)
      \/ pending' = [pending EXCEPT ![cur] = pt] /\ UNCHANGED <<packets, jsonl>>
  BY DEF MatchPending
<1> HIDE DEF pt
<1>5. CASE \E i \in DOMAIN packets : Annotate(i, pt) /\ pending' = Remove(pending, cur)
  BY <1>1, <1>2, <1>3, <1>5, AnnotateProperties, RemoveProperties
<1>6. CASE pending' = [pending EXCEPT ![cur] = pt] /\ UNCHANGED <<packets, jsonl>>
  BY <1>1, <1>2, <1>3, <1>6, ExceptSeq
<1> QED
  BY <1>4, <1>5, <1>6

LEMMA AnnotateOrWaitTypes ==
  ASSUME TypeOK, AnnotateOrWait
  PROVE  /\ packets' \in Seq(BufferedPackets) /\ Len(packets') = Len(packets)
         /\ \A j \in 1..Len(packets) :
              packets'[j].seq = packets[j].seq /\ packets'[j].recv = packets[j].recv
         /\ pending' \in Seq(PendingTexts) /\ jsonl' \in Seq(ExportedTexts)
<1> DEFINE pt == Examined(reading[1])
<1>1. pt \in PendingTexts
  BY ElementTypes, ExaminedProperties DEF AnnotateOrWait
<1>2. /\ packets \in Seq(BufferedPackets) /\ pending \in Seq(PendingTexts)
      /\ jsonl \in Seq(ExportedTexts)
  BY DEF TypeOK, DataTypes
<1>3. \/ \E i \in DOMAIN packets : Annotate(i, pt) /\ UNCHANGED pending
      \/ pending' = Append(pending, pt) /\ UNCHANGED <<packets, jsonl>>
  BY DEF AnnotateOrWait
<1> HIDE DEF pt
<1>4. CASE \E i \in DOMAIN packets : Annotate(i, pt) /\ UNCHANGED pending
  BY <1>1, <1>2, <1>4, AnnotateProperties
<1>5. CASE pending' = Append(pending, pt) /\ UNCHANGED <<packets, jsonl>>
  BY <1>1, <1>2, <1>5, AppendProperties
<1> QED
  BY <1>3, <1>4, <1>5

\* Every step keeps the records well-formed and the buffer within its limit:
\* the append is the only step that may exceed it, and Evict comes next.
LEMMA DataStep ==
  ASSUME TypeOK, HolderOK, [Next]_vars
  PROVE  DataTypes' /\ WithinLimit'
<1> USE DEF TypeOK, goroutines, section, arguments, outputs, BufferUnchanged
<1> DEFINE Same == UNCHANGED <<packets, pending, pcap, jsonl, received>>
<1>0. Len(packets) \in Nat /\ MaxBuffered \in Nat \ {0}
  BY ElementTypes, ConstantTypes
<1>1. CASE \E w \in WireInputs : StartEnqueue(w)
  <2>1. PICK w \in WireInputs : StartEnqueue(w)
    BY <1>1
  <2>2. arriving' \in Seq(BufferedPackets) /\ Len(arriving') = 1
    BY <2>1, NewRecords DEF StartEnqueue
  <2> QED
    BY <2>1, <2>2 DEF StartEnqueue, DataTypes, WithinLimit
<1>2. CASE \E p \in AnyText : HandlePlaintext(p)
  <2>1. PICK p \in AnyText : HandlePlaintext(p)
    BY <1>2
  <2>2. reading' \in Seq(PendingTexts) /\ Len(reading') = 1
    BY <2>1, NewRecords DEF HandlePlaintext
  <2>3. stage = "unlocked" /\ stage' # "evict"
    BY <2>1, LockAndFlushTypes DEF HandlePlaintext, ControlTypes
  <2> QED
    BY <1>0, <2>1, <2>2, <2>3 DEF HandlePlaintext, DataTypes, WithinLimit
<1>3. ASSUME Same, UNCHANGED <<arguments, handled>>, stage = "evict" => stage' = "evict"
      PROVE  DataTypes' /\ WithinLimit'
  BY <1>0, <1>3 DEF DataTypes, WithinLimit
<1>4. CASE LockEnqueue \/ LockFlush \/ LockClose
  BY <1>3, <1>4 DEF LockEnqueue, LockFlush, LockClose, LockAndFlush, HolderOK
<1>5. CASE StartClose \/ ReceiveTick \/ FlushLoopReturn \/ Tick
  BY <1>3, <1>5 DEF StartClose, ReceiveTick, FlushLoopReturn, Tick
<1>6. CASE MatchDone \/ WriteDone \/ ExpireDone \/ EnqueueReturn
  BY <1>3, <1>6 DEF MatchDone, WriteDone, ExpireDone, EnqueueReturn
<1>7. CASE MatchPending
  BY <1>0, <1>7, MatchPendingTypes DEF MatchPending, Advance, DataTypes, WithinLimit
<1>8. CASE AnnotateOrWait
  <2>1. reading' \in Seq(PendingTexts) /\ Len(reading') <= 1
    BY <1>8, EmptySeq DEF AnnotateOrWait
  <2>2. WithinLimit'
    BY <1>0, <1>8, AnnotateOrWaitTypes DEF AnnotateOrWait, Unlock, WithinLimit
  <2> QED
    BY <1>8, <2>1, <2>2, AnnotateOrWaitTypes DEF AnnotateOrWait, DataTypes
<1>9. CASE WritePacket
  <2>1. CASE UNCHANGED <<packets, pcap>>
    BY <1>9, <2>1, <1>3 DEF WritePacket, WriteAt, Advance
  <2>2. CASE pcap' = Append(pcap, packets[cur]) /\ packets' = Remove(packets, cur)
    <3>1. cur \in 1..Len(packets)
      BY <1>0, <1>9 DEF WritePacket, ControlTypes
    <3>2. packets[cur] \in BufferedPackets
      BY <3>1, ElementTypes
    <3>3. pcap' \in Seq(BufferedPackets)
      BY <2>2, <3>2, AppendProperties DEF DataTypes
    <3>4. packets' \in Seq(BufferedPackets) /\ Len(packets') = Len(packets) - 1
      BY <2>2, <3>1, RemoveProperties DEF DataTypes
    <3> QED
      BY <1>0, <1>9, <3>3, <3>4 DEF WritePacket, WriteAt, Advance, DataTypes, WithinLimit
  <2> QED
    BY <1>9, <2>1, <2>2 DEF WritePacket, WriteAt
<1>10. CASE ExpirePending
  <2>1. CASE UNCHANGED <<pending, jsonl>>
    BY <1>10, <2>1, <1>3 DEF ExpirePending, Advance
  <2>2. CASE /\ jsonl' = Append(jsonl, ExportUnmatched(pending[cur]))
             /\ pending' = Remove(pending, cur)
    <3>1. cur \in 1..Len(pending)
      BY <1>10, ElementTypes DEF ExpirePending, ControlTypes
    <3>2. pending[cur] \in PendingTexts
      BY <3>1, ElementTypes
    <3>3. jsonl' \in Seq(ExportedTexts)
      BY <2>2, <3>2, AppendProperties, ExportProperties DEF DataTypes
    <3>4. pending' \in Seq(PendingTexts)
      BY <2>2, <3>1, RemoveProperties DEF DataTypes
    <3> QED
      BY <1>0, <1>10, <3>3, <3>4 DEF ExpirePending, Advance, DataTypes, WithinLimit
  <2> QED
    BY <1>10, <2>1, <2>2 DEF ExpirePending
<1>11. CASE AppendPacket
  <2>1. packets' \in Seq(BufferedPackets) /\ Len(packets') = Len(packets) + 1
    BY <1>11, ElementTypes, AppendProperties DEF AppendPacket, DataTypes
  <2>2. arriving' \in Seq(BufferedPackets) /\ Len(arriving') <= 1
    BY <1>11, EmptySeq DEF AppendPacket
  <2>3. stage = "append" /\ stage' = "evict"
    BY <1>11 DEF AppendPacket, Goto
  <2> QED
    BY <1>0, <1>11, <2>1, <2>2, <2>3 DEF AppendPacket, DataTypes, WithinLimit
<1>12. CASE Evict
  <2>1. stage = "evict" /\ stage' = "rematch"
    BY <1>12 DEF Evict, Full, WriteAt, Goto
  <2>2. CASE Len(packets) > MaxBuffered
    <3>1. 1 \in 1..Len(packets)
      BY <1>0, <2>2
    <3>2. packets[1] \in BufferedPackets
      BY <3>1, ElementTypes
    <3>3. pcap \in Seq(BufferedPackets) /\ pcap' = Append(pcap, packets[1])
      BY <1>12, <2>2 DEF Evict, Full, WriteAt, DataTypes
    <3>4. pcap' \in Seq(BufferedPackets)
      BY <3>2, <3>3, AppendProperties
    <3>5. packets \in Seq(BufferedPackets) /\ packets' = Remove(packets, 1)
      BY <1>12, <2>2 DEF Evict, Full, WriteAt, DataTypes
    <3>6. packets' \in Seq(BufferedPackets) /\ Len(packets') = Len(packets) - 1
      BY <3>1, <3>5, RemoveProperties
    <3> QED
      BY <1>0, <1>12, <2>1, <3>4, <3>6 DEF Evict, Full, WriteAt, DataTypes, WithinLimit
  <2>3. CASE ~(Len(packets) > MaxBuffered)
    BY <1>0, <1>12, <2>1, <2>3 DEF Evict, Full, WriteAt, DataTypes, WithinLimit
  <2> QED
    BY <2>2, <2>3
<1>13. CASE \E p \in AnyText : ExportAtOnce(p)
  <2>1. PICK p \in AnyText : ExportAtOnce(p)
    BY <1>13
  <2>2. ExportPrepared(NewPending(p)) \in ExportedTexts
    BY NewRecords, ExportProperties
  <2>3. jsonl' \in Seq(ExportedTexts)
    BY <2>1, <2>2, AppendProperties DEF ExportAtOnce, DataTypes
  <2> QED
    BY <1>0, <2>1, <2>3 DEF ExportAtOnce, DataTypes, WithinLimit
<1>14. CASE UNCHANGED vars
  BY <1>3, <1>14 DEF vars
<1> QED
  BY <1>1, <1>2, <1>4, <1>5, <1>6, <1>7, <1>8, <1>9, <1>10, <1>11, <1>12, <1>13, <1>14,
     PlaintextArrives DEF Next, CriticalSection

LEMMA TypeStep ==
  ASSUME TypeOK, HolderOK, [Next]_vars
  PROVE  TypeOK' /\ HolderOK'
<1>1. tickDue' \in BOOLEAN
  BY DEF TypeOK, Next, vars, CriticalSection, goroutines, StartEnqueue, LockEnqueue,
         HandlePlaintextRecord, HandlePlaintext, ExportAtOnce, StartClose, LockClose, ReceiveTick, LockFlush, FlushLoopReturn,
         MatchPending, MatchDone, WritePacket, WriteDone, ExpirePending, ExpireDone,
         AppendPacket, Evict, EnqueueReturn, AnnotateOrWait, Tick
<1> QED
  BY <1>1, ControlStep, DataStep DEF TypeOK

\* In every behaviour the variables keep their types, and b.packets never
\* holds more than maxBufferedWirePackets once Enqueue has evicted.
THEOREM TypeInvariance == Spec => []TypeOK
<1>1. Init => TypeOK /\ HolderOK
  BY InitTypes
<1>2. TypeOK /\ HolderOK /\ [Next]_vars => (TypeOK /\ HolderOK)'
  BY TypeStep
<1> QED
  BY <1>1, <1>2, PTL DEF Spec

-----------------------------------------------------------------------------
(* Order.  The expiry loop of flushExpiredLocked takes packets out of the   *)
(* middle of the buffer; that it never does so is why the pcapng stays in   *)
(* arrival order: a packet that is due has only due packets before it.      *)

\* Numbered in arrival order, through the file and then the buffer.
NumbersOK ==
  /\ received = Len(pcap) + Len(packets)
  /\ \A i \in 1..Len(pcap) : pcap[i].seq = i
  /\ \A i \in 1..Len(packets) : packets[i].seq = Len(pcap) + i
  /\ arriving # <<>> => arriving[1].seq = received + 1

\* Buffered in the order of their timestamps, although Enqueue takes one
\* before it waits for the mutex.
TimesOK ==
  /\ \A i, j \in 1..Len(packets) : i <= j => packets[i].recv <= packets[j].recv
  /\ \A i \in 1..Len(packets) : packets[i].recv <= clock
  /\ arriving # <<>> => /\ arriving[1].recv <= clock
                        /\ \A i \in 1..Len(packets) : packets[i].recv <= arriving[1].recv

\* What the expiry loop has passed over is not due.
PassedOK ==
  stage = "write" => \A i \in 1..Len(packets) : i < cur => ~Due(packets[i].recv)

OrderInv == NumbersOK /\ TimesOK /\ PassedOK

\* Most steps leave the sequence of packets alone, except for the marks.
LEMMA OrderKept ==
  ASSUME TypeOK, NumbersOK, TimesOK,
         Len(packets') = Len(packets),
         \A j \in 1..Len(packets) :
           packets'[j].seq = packets[j].seq /\ packets'[j].recv = packets[j].recv,
         UNCHANGED <<pcap, received, arriving>>,
         clock' \in Nat, clock <= clock'
  PROVE  NumbersOK' /\ TimesOK'
<1>1. NumbersOK'
  BY DEF NumbersOK
<1>2. clock \in Nat /\ \A i \in 1..Len(packets) : packets[i].recv \in Nat
  BY ElementTypes DEF TypeOK, ControlTypes, BufferedPackets
<1>3. arriving # <<>> => arriving[1].recv \in Nat
  BY ElementTypes DEF BufferedPackets
<1>4. TimesOK'
  BY <1>2, <1>3 DEF TimesOK
<1> QED
  BY <1>1, <1>4

\* Taking the first packet out and writing it keeps the order.
LEMMA OrderKeptByWrite ==
  ASSUME TypeOK, NumbersOK, TimesOK, Len(packets) > 0,
         pcap' = Append(pcap, packets[1]), packets' = Remove(packets, 1),
         UNCHANGED <<clock, received, arriving>>
  PROVE  NumbersOK' /\ TimesOK'
<1>1. 1 \in 1..Len(packets) /\ Len(packets) \in Nat /\ Len(pcap) \in Nat
  BY ElementTypes
<1>2. packets \in Seq(BufferedPackets) /\ pcap \in Seq(BufferedPackets)
  BY DEF TypeOK, DataTypes
<1>3. packets[1] \in BufferedPackets
  BY <1>1, ElementTypes
<1>4. /\ Len(pcap') = Len(pcap) + 1
      /\ \A i \in 1..Len(pcap) : pcap'[i] = pcap[i]
      /\ pcap'[Len(pcap) + 1] = packets[1]
  BY <1>2, <1>3, AppendProperties
<1>5. /\ Len(packets') = Len(packets) - 1
      /\ \A j \in 1..(Len(packets) - 1) : packets'[j] = packets[j + 1]
  <2>1. /\ Len(packets') = Len(packets) - 1
        /\ \A j \in 1..(Len(packets) - 1) :
             packets'[j] = IF j < 1 THEN packets[j] ELSE packets[j + 1]
    BY <1>1, <1>2, RemoveProperties
  <2> QED
    BY <1>1, <2>1
<1>6. NumbersOK'
  <2>1. received' = Len(pcap') + Len(packets')
    BY <1>1, <1>4, <1>5 DEF NumbersOK
  <2>2. ASSUME NEW i \in 1..Len(pcap') PROVE pcap'[i].seq = i
    <3>1. CASE i \in 1..Len(pcap)
      BY <1>4, <3>1 DEF NumbersOK
    <3>2. CASE i = Len(pcap) + 1
      BY <1>1, <1>4, <3>2 DEF NumbersOK
    <3> QED
      BY <1>1, <1>4, <3>1, <3>2
  <2>3. ASSUME NEW i \in 1..Len(packets') PROVE packets'[i].seq = Len(pcap') + i
    <3>1. i + 1 \in 1..Len(packets) /\ packets'[i] = packets[i + 1]
      BY <1>1, <1>5
    <3>2. packets[i + 1].seq = Len(pcap) + (i + 1)
      BY <3>1 DEF NumbersOK
    <3>3. i \in Nat
      BY <1>1, <1>5
    <3> QED
      BY <1>1, <1>4, <3>1, <3>2, <3>3
  <2> QED
    BY <2>1, <2>2, <2>3 DEF NumbersOK
<1>7. TimesOK'
  <2>1. \A i \in 1..Len(packets') :
          i \in Nat /\ i + 1 \in 1..Len(packets) /\ packets'[i] = packets[i + 1]
    BY <1>1, <1>5
  <2>2. ASSUME NEW i \in 1..Len(packets'), NEW j \in 1..Len(packets'), i <= j
        PROVE  packets'[i].recv <= packets'[j].recv
    <3>1. i + 1 <= j + 1
      BY <2>1, <2>2
    <3>2. packets[i + 1].recv <= packets[j + 1].recv
      BY <2>1, <3>1 DEF TimesOK
    <3> QED
      BY <2>1, <3>2
  <2>3. \A i \in 1..Len(packets') : packets'[i].recv <= clock'
    BY <2>1 DEF TimesOK
  <2>4. arriving' # <<>> =>
          /\ arriving'[1].recv <= clock'
          /\ \A i \in 1..Len(packets') : packets'[i].recv <= arriving'[1].recv
    BY <2>1 DEF TimesOK
  <2> QED
    BY <2>2, <2>3, <2>4 DEF TimesOK
<1> QED
  BY <1>6, <1>7

\* A due packet has only due packets before it, so the loop finds it first.
LEMMA DueIsFirst ==
  ASSUME TypeOK, TimesOK, PassedOK, stage = "write", cur <= Len(packets),
         Due(packets[cur].recv)
  PROVE  cur = 1
<1>1. cur \in Nat \ {0} /\ now \in Nat /\ Window \in Nat /\ Len(packets) \in Nat
  BY ElementTypes, ConstantTypes DEF TypeOK, ControlTypes
<1>2. \A i \in 1..Len(packets) : packets[i].recv \in Nat
  BY ElementTypes DEF BufferedPackets
<1> SUFFICES ASSUME cur # 1 PROVE FALSE
  OBVIOUS
<1>3. 1 \in 1..Len(packets) /\ cur \in 1..Len(packets) /\ 1 < cur
  BY <1>1
<1>4. packets[1].recv <= packets[cur].recv
  BY <1>1, <1>3 DEF TimesOK
<1>5. ~Due(packets[1].recv)
  BY <1>3 DEF PassedOK
<1> QED
  BY <1>1, <1>2, <1>3, <1>4, <1>5 DEF Due

LEMMA OrderStep ==
  ASSUME TypeOK, HolderOK, OrderInv, [Next]_vars
  PROVE  NumbersOK' /\ TimesOK'
<1> USE DEF OrderInv, goroutines, section, arguments, outputs, BufferUnchanged
<1>0. clock \in Nat /\ clock <= clock /\ Len(packets) \in Nat /\ Len(pcap) \in Nat
  BY ElementTypes DEF TypeOK, ControlTypes
<1>1. CASE \E w \in WireInputs : StartEnqueue(w)
  <2>1. PICK w \in WireInputs : StartEnqueue(w)
    BY <1>1
  <2>2. arriving'[1].seq = received + 1 /\ arriving'[1].recv = clock
    BY <2>1, NewRecords DEF StartEnqueue
  <2>3. UNCHANGED <<packets, pcap, received, clock>>
    BY <2>1 DEF StartEnqueue
  <2>4. NumbersOK'
    BY <2>2, <2>3 DEF NumbersOK
  <2>5. TimesOK'
    BY <1>0, <2>2, <2>3 DEF TimesOK
  <2> QED
    BY <2>4, <2>5
<1>2. ASSUME UNCHANGED <<packets, pcap, received, arriving>>,
             clock' \in Nat, clock <= clock'
      PROVE  NumbersOK' /\ TimesOK'
  BY <1>2, OrderKept
<1>3. CASE \E p \in AnyText : HandlePlaintext(p)
  BY <1>0, <1>2, <1>3 DEF HandlePlaintext
<1>4. CASE LockEnqueue \/ LockFlush \/ LockClose
  BY <1>0, <1>2, <1>4 DEF LockEnqueue, LockFlush, LockClose
<1>5. CASE StartClose \/ ReceiveTick \/ FlushLoopReturn
  BY <1>0, <1>2, <1>5 DEF StartClose, ReceiveTick, FlushLoopReturn
<1>6. CASE MatchDone \/ WriteDone \/ ExpirePending
  BY <1>0, <1>2, <1>6 DEF MatchDone, WriteDone, ExpirePending
<1>7. CASE ExpireDone \/ EnqueueReturn
  BY <1>0, <1>2, <1>7 DEF ExpireDone, EnqueueReturn
<1>8. CASE MatchPending
  <2>1. UNCHANGED <<pcap, received, arriving, clock>>
    BY <1>8 DEF MatchPending
  <2> QED
    BY <1>0, <1>8, <2>1, MatchPendingTypes, OrderKept
<1>9. CASE AnnotateOrWait
  <2>1. UNCHANGED <<pcap, received, arriving, clock>>
    BY <1>9 DEF AnnotateOrWait
  <2> QED
    BY <1>0, <1>9, <2>1, AnnotateOrWaitTypes, OrderKept
<1>10. CASE WritePacket
  <2>1. CASE Due(packets[cur].recv)
    <3>1. stage = "write" /\ cur <= Len(packets) /\ cur = 1
      BY <1>10, <2>1, DueIsFirst DEF WritePacket, WriteAt
    <3>2. pcap' = Append(pcap, packets[1]) /\ packets' = Remove(packets, 1)
      BY <1>10, <2>1, <3>1 DEF WritePacket, WriteAt
    <3>3. Len(packets) > 0
      BY <1>0, <3>1
    <3>4. UNCHANGED <<clock, received, arriving>>
      BY <1>10 DEF WritePacket, WriteAt
    <3> QED
      BY <3>2, <3>3, <3>4, OrderKeptByWrite
  <2>2. CASE ~Due(packets[cur].recv)
    BY <1>0, <1>2, <1>10, <2>2 DEF WritePacket, WriteAt
  <2> QED
    BY <2>1, <2>2
<1>11. CASE AppendPacket
  <2>1. /\ packets \in Seq(BufferedPackets) /\ arriving[1] \in BufferedPackets
        /\ packets' = Append(packets, arriving[1])
    BY <1>11, ElementTypes DEF AppendPacket, TypeOK, DataTypes
  <2>2. /\ Len(packets') = Len(packets) + 1
        /\ \A i \in 1..Len(packets) : packets'[i] = packets[i]
        /\ packets'[Len(packets) + 1] = arriving[1]
    BY <2>1, AppendProperties
  <2>3. /\ received' = received + 1 /\ arriving # <<>> /\ arriving' = <<>>
        /\ UNCHANGED <<clock, pcap>>
    BY <1>11 DEF AppendPacket
  <2>4. NumbersOK'
    <3>1. packets'[Len(packets) + 1].seq = received + 1
      BY <2>2, <2>3 DEF NumbersOK
    <3>2. ASSUME NEW i \in 1..Len(packets') PROVE packets'[i].seq = Len(pcap') + i
      <4>1. CASE i \in 1..Len(packets)
        BY <2>2, <2>3, <4>1 DEF NumbersOK
      <4>2. CASE i = Len(packets) + 1
        BY <1>0, <2>3, <3>1, <4>2 DEF NumbersOK
      <4> QED
        BY <1>0, <2>2, <4>1, <4>2
    <3>3. received' = Len(pcap') + Len(packets')
      BY <1>0, <2>2, <2>3 DEF NumbersOK
    <3> QED
      BY <2>3, <3>2, <3>3 DEF NumbersOK
  <2>5. \A i \in 1..Len(packets') : i \in 1..Len(packets) \/ i = Len(packets) + 1
    BY <1>0, <2>2
  <2>6. \A i \in 1..Len(packets') : packets'[i].recv <= clock'
    BY <2>2, <2>3, <2>5 DEF TimesOK
  <2>7. ASSUME NEW i \in 1..Len(packets'), NEW j \in 1..Len(packets'), i <= j
        PROVE  packets'[i].recv <= packets'[j].recv
    <3>1. CASE j \in 1..Len(packets)
      BY <1>0, <2>2, <2>5, <2>7, <3>1 DEF TimesOK
    <3>2. CASE j = Len(packets) + 1 /\ i \in 1..Len(packets)
      BY <2>2, <2>3, <3>2 DEF TimesOK
    <3>3. CASE j = Len(packets) + 1 /\ i = Len(packets) + 1
      <4>1. packets'[i].recv \in Nat
        BY <2>1, <2>2, <3>3 DEF BufferedPackets
      <4> QED
        BY <3>3, <4>1
    <3> QED
      BY <2>5, <3>1, <3>2, <3>3
  <2> QED
    BY <2>3, <2>4, <2>6, <2>7 DEF TimesOK
<1>12. CASE Evict
  <2>1. CASE Len(packets) > MaxBuffered
    <3>1. pcap' = Append(pcap, packets[1]) /\ packets' = Remove(packets, 1)
      BY <1>12, <2>1 DEF Evict, Full, WriteAt
    <3>2. Len(packets) > 0
      BY <1>0, <2>1, ConstantTypes
    <3>3. UNCHANGED <<clock, received, arriving>>
      BY <1>12 DEF Evict, Full, WriteAt
    <3> QED
      BY <3>1, <3>2, <3>3, OrderKeptByWrite
  <2>2. CASE ~(Len(packets) > MaxBuffered)
    BY <1>0, <1>2, <1>12, <2>2 DEF Evict, Full, WriteAt
  <2> QED
    BY <2>1, <2>2
<1>13. CASE Tick
  <2>1. clock' \in Nat /\ clock <= clock'
    BY <1>0, <1>13 DEF Tick
  <2> QED
    BY <1>2, <1>13, <2>1 DEF Tick
<1>14. CASE \E p \in AnyText : ExportAtOnce(p)
  BY <1>0, <1>2, <1>14 DEF ExportAtOnce
<1>15. CASE UNCHANGED vars
  BY <1>0, <1>2, <1>15 DEF vars
<1> QED
  BY <1>1, <1>3, <1>4, <1>5, <1>6, <1>7, <1>8, <1>9, <1>10, <1>11, <1>12, <1>13, <1>14,
     <1>15, PlaintextArrives DEF Next, CriticalSection

LEMMA PassedStep ==
  ASSUME TypeOK, HolderOK, OrderInv, [Next]_vars
  PROVE  PassedOK'
<1> USE DEF OrderInv, goroutines, section, BufferUnchanged
<1>1. cur \in Nat \ {0} /\ now \in Nat /\ Len(packets) \in Nat
  BY ElementTypes DEF TypeOK, ControlTypes
<1>2. ASSUME stage' # "write" PROVE PassedOK'
  BY <1>2 DEF PassedOK
<1>3. ASSUME UNCHANGED <<section, packets>> PROVE PassedOK'
  BY <1>3 DEF PassedOK, Due
<1>4. CASE (\E w \in WireInputs : StartEnqueue(w)) \/ StartClose \/ ReceiveTick
             \/ FlushLoopReturn \/ Tick \/ (\E p \in AnyText : ExportAtOnce(p))
  BY <1>3, <1>4
     DEF StartEnqueue, StartClose, ReceiveTick, FlushLoopReturn, Tick, ExportAtOnce
<1>5. CASE LockEnqueue \/ (\E p \in AnyText : HandlePlaintext(p)) \/ LockFlush \/ LockClose
  BY <1>2, <1>5 DEF LockEnqueue, HandlePlaintext, LockFlush, LockClose, LockAndFlush
<1>6. CASE MatchPending
  BY <1>2, <1>6 DEF MatchPending, Advance
<1>7. CASE MatchDone
  <2>1. cur' = 1
    BY <1>7 DEF MatchDone, Goto
  <2> QED
    BY <1>1, <1>7, <2>1 DEF MatchDone, PassedOK
<1>8. CASE WritePacket
  <2>1. CASE Due(packets[cur].recv)
    <3>1. cur = 1 /\ UNCHANGED section
      BY <1>8, <2>1, DueIsFirst DEF WritePacket, WriteAt
    <3> QED
      BY <3>1 DEF PassedOK
  <2>2. CASE ~Due(packets[cur].recv)
    <3>1. /\ stage = "write" /\ cur' = cur + 1
          /\ UNCHANGED <<holder, stage, now, packets>>
      BY <1>8, <2>2 DEF WritePacket, WriteAt, Advance
    <3>2. ASSUME NEW i \in 1..Len(packets'), i < cur'
          PROVE  ~Due(packets[i].recv)
      <4>1. i < cur \/ i = cur
        BY <1>1, <3>1, <3>2
      <4> QED
        BY <2>2, <3>1, <4>1 DEF PassedOK
    <3> QED
      BY <3>1, <3>2 DEF PassedOK, Due
  <2> QED
    BY <2>1, <2>2
<1>9. CASE WriteDone \/ ExpirePending \/ ExpireDone
  BY <1>2, <1>9 DEF WriteDone, ExpirePending, ExpireDone, Goto, Advance, Unlock
<1>10. CASE AppendPacket \/ Evict \/ EnqueueReturn \/ AnnotateOrWait
  BY <1>2, <1>10 DEF AppendPacket, Evict, Full, WriteAt, EnqueueReturn, AnnotateOrWait, Goto, Unlock
<1>11. CASE UNCHANGED vars
  BY <1>3, <1>11 DEF vars
<1> QED
  BY <1>4, <1>5, <1>6, <1>7, <1>8, <1>9, <1>10, <1>11, PlaintextArrives
     DEF Next, CriticalSection

LEMMA InitOrder == Init => OrderInv
<1> SUFFICES ASSUME Init PROVE OrderInv
  OBVIOUS
<1>1. Len(packets) = 0 /\ Len(pcap) = 0
  BY DEF Init
<1> QED
  BY <1>1 DEF Init, OrderInv, NumbersOK, TimesOK, PassedOK

\* The numbers in the two parts give the numbers in their concatenation.
LEMMA OrderInJournal ==
  ASSUME TypeOK, NumbersOK
  PROVE  PacketsInOrder
<1>1. /\ pcap \in Seq(BufferedPackets) /\ packets \in Seq(BufferedPackets)
      /\ Len(pcap) \in Nat /\ Len(packets) \in Nat
  BY ElementTypes DEF TypeOK, DataTypes
<1>2. /\ Journal \in Seq(BufferedPackets)
      /\ Len(Journal) = Len(pcap) + Len(packets)
      /\ \A i \in 1..(Len(pcap) + Len(packets)) :
           Journal[i] = IF i <= Len(pcap) THEN pcap[i] ELSE packets[i - Len(pcap)]
  BY <1>1, ConcatProperties DEF Journal
<1>3. DOMAIN Journal = 1..(Len(pcap) + Len(packets))
  BY <1>2, LenProperties
<1>4. ASSUME NEW i \in DOMAIN Journal PROVE Journal[i].seq = i
  <2>1. CASE i <= Len(pcap)
    <3>1. i \in 1..Len(pcap) /\ Journal[i] = pcap[i]
      BY <1>1, <1>2, <1>3, <2>1
    <3> QED
      BY <3>1 DEF NumbersOK
  <2>2. CASE ~(i <= Len(pcap))
    <3>1. i - Len(pcap) \in 1..Len(packets) /\ Journal[i] = packets[i - Len(pcap)]
      BY <1>1, <1>2, <1>3, <2>2
    <3>2. packets[i - Len(pcap)].seq = Len(pcap) + (i - Len(pcap))
      BY <3>1 DEF NumbersOK
    <3> QED
      BY <1>1, <1>3, <3>1, <3>2
  <2> QED
    BY <2>1, <2>2
<1>5. Len(Journal) = received
  BY <1>2 DEF NumbersOK
<1> QED
  BY <1>4, <1>5 DEF PacketsInOrder

\* The pcapng never loses, repeats or reorders a packet, for every correlation
\* window, buffer size and input, whichever way each packet leaves the buffer.
THEOREM OrderInvariance == Spec => []PacketsInOrder
<1>1. Init => TypeOK /\ HolderOK /\ OrderInv
  BY InitTypes, InitOrder
<1>2. TypeOK /\ HolderOK /\ OrderInv /\ [Next]_vars => (TypeOK /\ HolderOK /\ OrderInv)'
  BY TypeStep, OrderStep, PassedStep DEF OrderInv
<1>3. TypeOK /\ OrderInv => PacketsInOrder
  BY OrderInJournal DEF OrderInv
<1> QED
  BY <1>1, <1>2, <1>3, PTL DEF Spec
=============================================================================
