----------------------- MODULE WirePacketRecords_proofs -----------------------
(***************************************************************************)
(* Proofs about the two files of WirePacketBuffer, for every value of its  *)
(* constants: each plaintext is exported once, the PacketIDs in the pcapng *)
(* and the PcapAnnotated records of the JSONL agree, verified endpoints    *)
(* are kept, Close drains the buffer, and the promise of PcapJournal holds.*)
(***************************************************************************)
EXTENDS WirePacketBuffer_proofs

-----------------------------------------------------------------------------
(* The inductive invariant.                                                 *)

\* Who is in the critical section, and whose argument is in its hands.
SectionOK ==
  /\ holder = "nobody" => stage = "unlocked"
  /\ holder = "Enqueue" => collector = "enqueuing"
  /\ holder = "HandlePlaintext" => collector = "handling"
  /\ holder = "Close" => collector = "closing"
  /\ stage \in {"append", "evict", "rematch"} => holder = "Enqueue"
  /\ stage = "annotate" => holder = "HandlePlaintext"
  /\ stage \in {"evict", "rematch"} => arriving = <<>>
  /\ arriving # <<>> => collector = "enqueuing" /\ arriving[1].ann = NoAnnotation
  /\ reading # <<>> => collector = "handling"

Ids(s) == {s[i].id : i \in DOMAIN s}

Unique(s) == \A i, j \in DOMAIN s : s[i].id = s[j].id => i = j

\* Each plaintext handed over is in one place, once.
PlacesOK ==
  /\ Unique(jsonl) /\ Unique(pending)
  /\ Ids(jsonl) \cap Ids(pending) = {}
  /\ Ids(jsonl) \cap Ids(reading) = {}
  /\ Ids(pending) \cap Ids(reading) = {}
  /\ Ids(jsonl) \cup Ids(pending) \cup Ids(reading) = 1..handled

\* The record r was exported because of the packet pkt.
Explains(pkt, r) ==
  /\ r.id = pkt.ann /\ r.annotated
  /\ HasTuple(pkt.wire) => <<r.from, r.to>> = Tuple(pkt.wire)

\* Marks and annotated records belong together, one to one.
MarksAgree(capture, records) ==
  /\ \A i, j \in DOMAIN capture :
       capture[i].ann # NoAnnotation /\ capture[i].ann = capture[j].ann => i = j
  /\ \A i \in DOMAIN capture :
       capture[i].ann # NoAnnotation => \E r \in DOMAIN records : Explains(capture[i], records[r])
  /\ \A r \in DOMAIN records :
       records[r].annotated => \E i \in DOMAIN capture : Explains(capture[i], records[r])

MarksOK == MarksAgree(Journal, jsonl)

\* What enters the buffer was verified or comes from a unit test, and a complete
\* tuple is never overwritten by a hint.
TrustedText(pt) ==
  /\ pt.original \in TestInputs \/ Verified(pt.original)
  /\ HasTuple(pt.original) => pt.data = pt.original

\* In network direction: a read's local endpoint is its destination.
NetworkEnds(p) == IF p.dir = "read" THEN <<Destination(p), Source(p)>> ELSE Tuple(p)

HonestRecord(r) ==
  r.text \in TextInputs \ TestInputs =>
    <<r.from, r.to>> = IF Verified(r.text) THEN NetworkEnds(r.text) ELSE <<Nowhere, Nowhere>>

EndsOK ==
  /\ \A i \in DOMAIN pending : TrustedText(pending[i])
  /\ \A i \in DOMAIN reading : TrustedText(reading[i])
  /\ \A r \in DOMAIN jsonl : HonestRecord(jsonl[r])

\* Close goes on until nothing is left, and nothing comes in afterwards.
DrainOK ==
  /\ holder = "Close" /\ stage \in {"write", "expire"} => cur = 1
  /\ holder = "Close" /\ stage = "expire" => packets = <<>>
  /\ collector = "closed" => packets = <<>> /\ pending = <<>>
  /\ Len(jsonl) + Len(pending) + Len(reading) = handled

RecordsInv == SectionOK /\ PlacesOK /\ MarksOK /\ EndsOK /\ DrainOK

-----------------------------------------------------------------------------
(* Sequences of records with an id.                                         *)

\* Appending a record adds its id.
LEMMA IdsOfAppend ==
  ASSUME NEW S, NEW s \in Seq(S), NEW x \in S
  PROVE  /\ Ids(Append(s, x)) = Ids(s) \cup {x.id}
         /\ Unique(s) /\ x.id \notin Ids(s) => Unique(Append(s, x))
<1> DEFINE t == Append(s, x)
<1>1. /\ DOMAIN s = 1..Len(s) /\ Len(s) \in Nat
      /\ t \in Seq(S) /\ Len(t) = Len(s) + 1
      /\ \A i \in 1..Len(s) : t[i] = s[i]
      /\ t[Len(s) + 1] = x
  BY LenProperties, AppendProperties
<1>2. DOMAIN t = 1..(Len(s) + 1)
  BY <1>1, LenProperties
<1> HIDE DEF t
<1>3. ASSUME NEW i \in DOMAIN t
      PROVE  \/ i \in DOMAIN s /\ t[i] = s[i]
             \/ i = Len(s) + 1 /\ t[i] = x
  BY <1>1, <1>2
<1>4. Ids(t) = Ids(s) \cup {x.id}
  <2>1. Ids(t) \subseteq Ids(s) \cup {x.id}
    BY <1>3 DEF Ids
  <2>2. ASSUME NEW i \in DOMAIN s PROVE s[i].id \in Ids(t)
    <3>1. i \in DOMAIN t /\ t[i] = s[i]
      BY <1>1, <1>2
    <3> QED
      BY <3>1 DEF Ids
  <2>3. x.id \in Ids(t)
    <3>1. Len(s) + 1 \in DOMAIN t /\ t[Len(s) + 1] = x
      BY <1>1, <1>2
    <3> QED
      BY <3>1 DEF Ids
  <2>4. Ids(s) \subseteq Ids(t)
    BY <2>2 DEF Ids
  <2> QED
    BY <2>1, <2>3, <2>4
<1>5. ASSUME Unique(s), x.id \notin Ids(s) PROVE Unique(t)
  <2> SUFFICES ASSUME NEW i \in DOMAIN t, NEW j \in DOMAIN t, t[i].id = t[j].id
               PROVE  i = j
    BY DEF Unique
  <2>1. \A k \in DOMAIN s : s[k].id # x.id
    BY <1>5 DEF Ids
  <2> QED
    BY <1>3, <1>5, <2>1 DEF Unique
<1> QED
  BY <1>4, <1>5 DEF t

\* Removing one of several records with different ids removes its id.
LEMMA IdsOfRemove ==
  ASSUME NEW S, NEW s \in Seq(S), NEW k \in 1..Len(s), Unique(s)
  PROVE  /\ Ids(Remove(s, k)) = Ids(s) \ {s[k].id}
         /\ Unique(Remove(s, k))
<1> DEFINE t == Remove(s, k)
           from(j) == IF j < k THEN j ELSE j + 1
<1>1. DOMAIN s = 1..Len(s) /\ Len(s) \in Nat
  BY LenProperties
<1>2. /\ DOMAIN t = 1..(Len(s) - 1)
      /\ \A j \in 1..(Len(s) - 1) : t[j] = IF j < k THEN s[j] ELSE s[j + 1]
  BY RemoveProperties
<1> HIDE DEF t
<1>3. ASSUME NEW j \in DOMAIN t
      PROVE  from(j) \in DOMAIN s /\ from(j) # k /\ t[j] = s[from(j)]
  BY <1>1, <1>2
<1>4. ASSUME NEW i \in DOMAIN t, NEW j \in DOMAIN t, from(i) = from(j) PROVE i = j
  BY <1>1, <1>2, <1>4
<1>5. ASSUME NEW i \in DOMAIN s, i # k PROVE \E j \in DOMAIN t : from(j) = i
  <2>1. CASE i < k
    BY <1>1, <1>2, <2>1
  <2>2. CASE i > k
    <3>1. i - 1 \in DOMAIN t /\ from(i - 1) = i
      BY <1>1, <1>2, <2>2
    <3> QED
      BY <3>1
  <2> QED
    BY <1>1, <1>5, <2>1, <2>2
<1> HIDE DEF from
<1>6. Ids(t) \subseteq Ids(s) \ {s[k].id}
  <2> SUFFICES ASSUME NEW j \in DOMAIN t
               PROVE  t[j].id \in Ids(s) /\ t[j].id # s[k].id
    BY DEF Ids
  <2> QED
    BY <1>1, <1>3 DEF Ids, Unique
<1>7. Ids(s) \ {s[k].id} \subseteq Ids(t)
  <2> SUFFICES ASSUME NEW i \in DOMAIN s, s[i].id # s[k].id
               PROVE  s[i].id \in Ids(t)
    BY DEF Ids
  <2>1. PICK j \in DOMAIN t : from(j) = i
    BY <1>5
  <2> QED
    BY <1>3, <2>1 DEF Ids
<1>8. Unique(t)
  BY <1>3, <1>4 DEF Unique
<1> QED
  BY <1>6, <1>7, <1>8 DEF t

\* Replacing a record by one of the same id changes nothing.
LEMMA IdsOfExcept ==
  ASSUME NEW S, NEW s \in Seq(S), NEW k \in 1..Len(s), NEW x, x.id = s[k].id
  PROVE  /\ Ids([s EXCEPT ![k] = x]) = Ids(s)
         /\ Unique(s) => Unique([s EXCEPT ![k] = x])
<1> DEFINE t == [s EXCEPT ![k] = x]
<1>1. DOMAIN s = 1..Len(s)
  BY LenProperties
<1>2. DOMAIN t = DOMAIN s /\ \A i \in DOMAIN s : t[i].id = s[i].id
  BY <1>1
<1> HIDE DEF t
<1>3. Ids(t) = Ids(s)
  BY <1>2 DEF Ids
<1>4. Unique(s) => Unique(t)
  BY <1>2 DEF Unique
<1> QED
  BY <1>3, <1>4 DEF t

\* A sequence of one record, and the empty one.
LEMMA IdsOfShort ==
  /\ Ids(<<>>) = {}
  /\ \A x : Ids(<<x>>) = {x.id}
BY DEF Ids

-----------------------------------------------------------------------------
(* What a step does to the two files and to what is on its way to them.     *)

TextsUnchanged == UNCHANGED <<pending, reading, jsonl, handled>>
PacketsUnchanged == UNCHANGED <<packets, pcap>>

Quiet == PacketsUnchanged /\ TextsUnchanged

Accepts ==
  /\ stage = "append" /\ arriving # <<>>
  /\ packets' = Append(packets, arriving[1])
  /\ UNCHANGED pcap /\ TextsUnchanged

\* A packet that is written is the oldest in the buffer.
Writes ==
  /\ stage \in {"write", "evict"} /\ 1 \in DOMAIN packets
  /\ pcap' = Append(pcap, packets[1]) /\ packets' = Remove(packets, 1)
  /\ TextsUnchanged

Takes(p) ==
  /\ reading = <<>> /\ collector = "receiving"
  /\ reading' = <<NewPending(p)>> /\ handled' = handled + 1
  /\ PacketsUnchanged /\ UNCHANGED <<pending, jsonl>>

Logs(p) ==
  /\ jsonl' = Append(jsonl, ExportPrepared(NewPending(p))) /\ handled' = handled + 1
  /\ collector = "receiving"
  /\ PacketsUnchanged /\ UNCHANGED <<pending, reading>>

Hints ==
  /\ cur \in DOMAIN pending
  /\ pending' = [pending EXCEPT ![cur] = Examined(pending[cur])]
  /\ PacketsUnchanged /\ UNCHANGED <<reading, jsonl, handled>>

Expires ==
  /\ cur \in DOMAIN pending
  /\ jsonl' = Append(jsonl, ExportUnmatched(pending[cur]))
  /\ pending' = Remove(pending, cur)
  /\ PacketsUnchanged /\ UNCHANGED <<reading, handled>>

Attaches(pt) ==
  /\ \E i \in DOMAIN packets : Matches(i, Examined(pt)) /\ Annotate(i, Examined(pt))
  /\ UNCHANGED <<pcap, handled>>

AttachesPending ==
  /\ cur \in DOMAIN pending
  /\ Attaches(pending[cur])
  /\ pending' = Remove(pending, cur) /\ UNCHANGED reading

AttachesReading ==
  /\ reading # <<>> /\ collector = "handling"
  /\ Attaches(reading[1])
  /\ reading' = <<>> /\ UNCHANGED pending

Waits ==
  /\ reading # <<>> /\ collector = "handling"
  /\ pending' = Append(pending, Examined(reading[1])) /\ reading' = <<>>
  /\ PacketsUnchanged /\ UNCHANGED <<jsonl, handled>>

StepKind ==
  \/ Quiet \/ Accepts \/ Writes \/ Hints \/ Expires
  \/ AttachesPending \/ AttachesReading \/ Waits
  \/ \E p \in AnyText : Takes(p) /\ (p \in TestInputs \/ Verified(p))
  \/ \E p \in TextInputs : Logs(p) /\ ~Verified(p)

\* Every step is of one of these kinds: the eleven loops and operations differ in
\* who holds the mutex and when, not in what they may do to the files.
LEMMA StepKinds ==
  ASSUME TypeOK, HolderOK, OrderInv, SectionOK, [Next]_vars
  PROVE  StepKind
<1> USE DEF StepKind, TextsUnchanged, PacketsUnchanged, BufferUnchanged, arguments, outputs
<1>1. CASE \E w \in WireInputs : StartEnqueue(w)
  BY <1>1 DEF StartEnqueue, Quiet
<1>2. CASE LockEnqueue \/ LockFlush \/ LockClose
  BY <1>2 DEF LockEnqueue, LockFlush, LockClose, Quiet
<1>3. ASSUME NEW p \in AnyText, HandlePlaintext(p), p \in TestInputs \/ Verified(p)
      PROVE  StepKind
  <2>1. Takes(p)
    BY <1>3 DEF HandlePlaintext, Receiving, SectionOK, Takes
  <2> QED
    BY <1>3, <2>1
<1>4. ASSUME NEW p \in TextInputs, ExportAtOnce(p), ~Verified(p) PROVE StepKind
  <2>1. Logs(p)
    BY <1>4 DEF ExportAtOnce, Receiving, Logs
  <2> QED
    BY <1>4, <2>1
<1>5. CASE StartClose \/ ReceiveTick \/ FlushLoopReturn \/ Tick
  BY <1>5 DEF StartClose, ReceiveTick, FlushLoopReturn, Tick, Quiet
<1>6. CASE MatchDone \/ WriteDone \/ ExpireDone \/ EnqueueReturn
  BY <1>6 DEF MatchDone, WriteDone, ExpireDone, EnqueueReturn, Quiet
<1>7. CASE MatchPending
  <2>1. cur \in DOMAIN pending
    BY <1>7, ElementTypes DEF MatchPending, TypeOK, ControlTypes
  <2> QED
    BY <1>7, <2>1 DEF MatchPending, AttachesPending, Attaches, Hints
<1>8. CASE WritePacket
  <2>1. CASE Due(packets[cur].recv)
    <3>1. cur = 1
      BY <1>8, <2>1, DueIsFirst DEF WritePacket, OrderInv
    <3> QED
      BY <1>8, <2>1, <3>1, ElementTypes DEF WritePacket, WriteAt, Writes
  <2>2. CASE ~Due(packets[cur].recv)
    BY <1>8, <2>2 DEF WritePacket, Quiet
  <2> QED
    BY <2>1, <2>2
<1>9. CASE ExpirePending
  <2>1. cur \in DOMAIN pending
    BY <1>9, ElementTypes DEF ExpirePending, TypeOK, ControlTypes
  <2> QED
    BY <1>9, <2>1 DEF ExpirePending, Expires, Quiet
<1>10. CASE AppendPacket
  BY <1>10 DEF AppendPacket, Accepts
<1>11. CASE Evict
  <2>1. CASE Full
    <3>1. 1 \in DOMAIN packets
      BY <2>1, ElementTypes, ConstantTypes DEF Full
    <3> QED
      BY <1>11, <2>1, <3>1 DEF Evict, WriteAt, Writes
  <2>2. CASE ~Full
    BY <1>11, <2>2 DEF Evict, Quiet
  <2> QED
    BY <2>1, <2>2
<1>12. CASE AnnotateOrWait
  <2>1. collector = "handling"
    BY <1>12 DEF AnnotateOrWait, SectionOK
  <2> QED
    BY <1>12, <2>1 DEF AnnotateOrWait, AttachesReading, Attaches, Waits
<1>13. CASE UNCHANGED vars
  BY <1>13 DEF vars, Quiet
<1>14. CASE \E p \in TextInputs : HandlePlaintextRecord(p)
  BY <1>3, <1>4, <1>14 DEF HandlePlaintextRecord, AnyText
<1>15. CASE \E p \in TestInputs : HandlePlaintext(p)
  BY <1>3, <1>15 DEF AnyText
<1> QED
  BY <1>1, <1>2, <1>5, <1>6, <1>7, <1>8, <1>9, <1>10, <1>11, <1>12, <1>13, <1>14, <1>15
  DEF Next, CriticalSection

-----------------------------------------------------------------------------
(* The critical section.                                                    *)

LEMMA SectionStep ==
  ASSUME TypeOK, SectionOK, [Next]_vars
  PROVE  SectionOK'
<1> USE DEF SectionOK, goroutines, section, arguments
<1>1. CASE \E w \in WireInputs : StartEnqueue(w)
  <2>1. PICK w \in WireInputs : StartEnqueue(w)
    BY <1>1
  <2>2. arriving'[1].ann = NoAnnotation
    BY <2>1 DEF StartEnqueue, NewPacket
  <2> QED
    BY <2>1, <2>2 DEF StartEnqueue, Receiving
<1>2. CASE LockEnqueue
  BY <1>2 DEF LockEnqueue, LockAndFlush
<1>3. CASE \E p \in AnyText : HandlePlaintext(p)
  BY <1>3 DEF HandlePlaintext, LockAndFlush, Receiving
<1>4. CASE \E p \in AnyText : ExportAtOnce(p)
  BY <1>4 DEF ExportAtOnce
<1>5. CASE StartClose
  BY <1>5 DEF StartClose
<1>6. CASE LockClose
  BY <1>6 DEF LockClose
<1>7. CASE ReceiveTick \/ FlushLoopReturn \/ Tick
  BY <1>7 DEF ReceiveTick, FlushLoopReturn, Tick
<1>8. CASE LockFlush
  BY <1>8 DEF LockFlush, LockAndFlush
<1>9. CASE MatchPending
  BY <1>9 DEF MatchPending, Advance
<1>10. CASE MatchDone \/ WriteDone
  BY <1>10 DEF MatchDone, WriteDone, Goto
<1>11. CASE WritePacket \/ ExpirePending
  BY <1>11 DEF WritePacket, ExpirePending, WriteAt, Advance
<1>12. CASE ExpireDone
  BY <1>12 DEF ExpireDone, Goto, Unlock
<1>13. CASE AppendPacket
  BY <1>13 DEF AppendPacket, Goto
<1>14. CASE Evict
  BY <1>14 DEF Evict, WriteAt, Goto
<1>15. CASE EnqueueReturn
  BY <1>15 DEF EnqueueReturn, Unlock
<1>16. CASE AnnotateOrWait
  BY <1>16 DEF AnnotateOrWait, Unlock
<1>17. CASE UNCHANGED vars
  BY <1>17 DEF vars
<1> QED
  BY <1>1, <1>2, <1>3, <1>4, <1>5, <1>6, <1>7, <1>8, <1>9, <1>10, <1>11, <1>12, <1>13,
     <1>14, <1>15, <1>16, <1>17, PlaintextArrives DEF Next, CriticalSection

-----------------------------------------------------------------------------
(* Each plaintext is in one place.                                          *)

\* The parts of TypeOK that the proofs below need.
LEMMA RecordTypes ==
  ASSUME TypeOK
  PROVE  /\ packets \in Seq(BufferedPackets) /\ pcap \in Seq(BufferedPackets)
         /\ pending \in Seq(PendingTexts) /\ jsonl \in Seq(ExportedTexts)
         /\ reading \in Seq(PendingTexts) /\ Len(reading) <= 1
         /\ handled \in Nat /\ received \in Nat
         /\ DOMAIN pending = 1..Len(pending) /\ Len(pending) \in Nat
         /\ DOMAIN jsonl = 1..Len(jsonl) /\ Len(jsonl) \in Nat
         /\ reading # <<>> => reading = <<reading[1]>> /\ reading[1] \in PendingTexts
<1>1. /\ packets \in Seq(BufferedPackets) /\ pcap \in Seq(BufferedPackets)
      /\ pending \in Seq(PendingTexts) /\ jsonl \in Seq(ExportedTexts)
      /\ reading \in Seq(PendingTexts) /\ Len(reading) <= 1
      /\ handled \in Nat /\ received \in Nat
  BY DEF TypeOK, DataTypes
<1>2. ASSUME reading # <<>> PROVE reading = <<reading[1]>> /\ reading[1] \in PendingTexts
  <2>1. Len(reading) = 1 /\ reading[1] \in PendingTexts
    BY <1>2, ElementTypes
  <2> QED
    BY <1>1, <2>1, SeqEqual
<1> QED
  BY <1>1, <1>2, LenProperties

\* A matched plaintext is exported, with the packet that it claims.
LEMMA AttachesExports ==
  ASSUME TypeOK, NEW pt \in PendingTexts, Attaches(pt)
  PROVE  \E i \in DOMAIN packets :
           LET r == ExportAnnotated(Examined(pt), packets[i])
           IN  /\ packets[i].ann = NoAnnotation
               /\ packets' = [packets EXCEPT ![i].ann = pt.id]
               /\ jsonl' = Append(jsonl, r)
               /\ r \in ExportedTexts /\ r.id = pt.id
               /\ Explains([packets[i] EXCEPT !.ann = pt.id], r)
               /\ Matches(i, Examined(pt))
<1>1. PICK i \in DOMAIN packets : Matches(i, Examined(pt)) /\ Annotate(i, Examined(pt))
  BY DEF Attaches
<1>2. Examined(pt) \in PendingTexts /\ Examined(pt).id = pt.id
  BY ExaminedProperties
<1>3. packets[i] \in BufferedPackets
  BY ElementTypes
<1>4. packets[i].ann = NoAnnotation
  BY <1>1 DEF Matches, IsBest, Free
<1>5. /\ packets' = [packets EXCEPT ![i].ann = pt.id]
      /\ jsonl' = Append(jsonl, ExportAnnotated(Examined(pt), packets[i]))
  BY <1>1, <1>2 DEF Annotate
<1> DEFINE r == ExportAnnotated(Examined(pt), packets[i])
<1>6. r \in ExportedTexts /\ r.id = pt.id /\ r.annotated
  BY <1>2, <1>3, ExportProperties
<1>7. Explains([packets[i] EXCEPT !.ann = pt.id], r)
  <2>1. [packets[i] EXCEPT !.ann = pt.id].ann = pt.id
    BY <1>3 DEF BufferedPackets
  <2>2. [packets[i] EXCEPT !.ann = pt.id].wire = packets[i].wire
    BY <1>3 DEF BufferedPackets
  <2>3. HasTuple(packets[i].wire) => <<r.from, r.to>> = Tuple(packets[i].wire)
    BY DEF ExportAnnotated, Export, Tuple
  <2> HIDE DEF r
  <2> QED
    BY <1>6, <2>1, <2>2, <2>3 DEF Explains
<1> HIDE DEF r
<1> QED
  BY <1>1, <1>4, <1>5, <1>6, <1>7 DEF r

LEMMA PlacesStep ==
  ASSUME TypeOK, PlacesOK, StepKind
  PROVE  PlacesOK'
<1> USE RecordTypes DEF TextsUnchanged, PacketsUnchanged
<1> DEFINE J == Ids(jsonl)
           P == Ids(pending)
           R == Ids(reading)
           fresh == handled + 1
<1>0. fresh \notin 1..handled /\ 1..fresh = (1..handled) \cup {fresh}
  OBVIOUS
<1>1. CASE Quiet \/ Accepts \/ Writes
  <2>1. UNCHANGED <<pending, reading, jsonl, handled>>
    BY <1>1 DEF Quiet, Accepts, Writes
  <2> QED
    BY <2>1 DEF PlacesOK
<1>2. CASE \E p \in AnyText : Takes(p)
  <2>1. PICK p \in AnyText : Takes(p)
    BY <1>2
  <2>2. reading' = <<NewPending(p)>> /\ NewPending(p).id = fresh
    BY <2>1, NewRecords DEF Takes
  <2>3. R = {} /\ Ids(reading') = {fresh}
    BY <2>1, <2>2, IdsOfShort DEF Takes
  <2>4. handled' = fresh /\ UNCHANGED <<pending, jsonl>>
    BY <2>1 DEF Takes
  <2>5. Ids(jsonl') = J /\ Ids(pending') = P /\ Unique(jsonl') /\ Unique(pending')
    BY <2>4 DEF PlacesOK
  <2>6. fresh \notin J /\ fresh \notin P /\ J \cup P = 1..handled
    BY <1>0, <2>3 DEF PlacesOK
  <2> HIDE DEF J, P
  <2> QED
    BY <1>0, <2>3, <2>4, <2>5, <2>6 DEF PlacesOK, J, P
<1>3. CASE \E p \in TextInputs : Logs(p)
  <2>1. PICK p \in TextInputs : Logs(p)
    BY <1>3
  <2> DEFINE r == ExportPrepared(NewPending(p))
  <2>2. r \in ExportedTexts /\ r.id = fresh
    BY NewRecords, ExportProperties DEF AnyText
  <2>3. /\ jsonl' = Append(jsonl, r) /\ handled' = fresh
        /\ UNCHANGED <<pending, reading>>
    BY <2>1 DEF Logs
  <2> HIDE DEF r
  <2>4. fresh \notin J
    BY <1>0 DEF PlacesOK
  <2>5. Ids(jsonl') = J \cup {fresh} /\ Unique(jsonl')
    BY <2>2, <2>3, <2>4, IdsOfAppend DEF PlacesOK
  <2> HIDE DEF J
  <2>6. Ids(pending') = P /\ Ids(reading') = R /\ Unique(pending')
    BY <2>3 DEF PlacesOK
  <2> QED
    BY <1>0, <2>3, <2>5, <2>6 DEF PlacesOK, J
<1>4. CASE Hints
  <2>1. cur \in 1..Len(pending) /\ pending[cur] \in PendingTexts
    BY <1>4, ElementTypes DEF Hints
  <2>2. Examined(pending[cur]).id = pending[cur].id
    BY <2>1, ExaminedProperties
  <2>3. Ids(pending') = P /\ Unique(pending')
    BY <1>4, <2>1, <2>2, IdsOfExcept DEF Hints, PlacesOK
  <2>4. UNCHANGED <<reading, jsonl, handled>>
    BY <1>4 DEF Hints
  <2> QED
    BY <2>3, <2>4 DEF PlacesOK, Unique
<1>5. ASSUME NEW r \in ExportedTexts, cur \in DOMAIN pending, r.id = pending[cur].id,
             jsonl' = Append(jsonl, r), pending' = Remove(pending, cur),
             UNCHANGED <<reading, handled>>
      PROVE  PlacesOK'
  <2>1. r.id \in P
    BY <1>5 DEF Ids
  <2>2. r.id \notin J
    BY <2>1 DEF PlacesOK
  <2>3. Ids(jsonl') = J \cup {r.id} /\ Unique(jsonl')
    BY <1>5, <2>2, IdsOfAppend DEF PlacesOK
  <2>4. Ids(pending') = P \ {r.id} /\ Unique(pending')
    BY <1>5, IdsOfRemove DEF PlacesOK
  <2>5. Ids(reading') = R
    BY <1>5
  <2> QED
    BY <1>5, <2>1, <2>3, <2>4, <2>5 DEF PlacesOK
<1>6. CASE Expires
  <2>1. pending[cur] \in PendingTexts
    BY <1>6, ElementTypes DEF Expires
  <2> DEFINE r == ExportUnmatched(pending[cur])
  <2>2. r \in ExportedTexts /\ r.id = pending[cur].id
    BY <2>1, ExportProperties
  <2> QED
    BY <1>5, <1>6, <2>2 DEF Expires
<1>7. CASE AttachesPending
  <2>1. pending[cur] \in PendingTexts
    BY <1>7, ElementTypes DEF AttachesPending
  <2>2. PICK i \in DOMAIN packets :
          LET r == ExportAnnotated(Examined(pending[cur]), packets[i])
          IN  jsonl' = Append(jsonl, r) /\ r \in ExportedTexts /\ r.id = pending[cur].id
    BY <1>7, <2>1, AttachesExports DEF AttachesPending
  <2> QED
    BY <1>5, <1>7, <2>2 DEF AttachesPending, Attaches
<1>8. CASE AttachesReading
  <2>1. reading[1] \in PendingTexts /\ R = {reading[1].id}
    BY <1>8, IdsOfShort DEF AttachesReading
  <2>2. PICK i \in DOMAIN packets :
          LET r == ExportAnnotated(Examined(reading[1]), packets[i])
          IN  jsonl' = Append(jsonl, r) /\ r \in ExportedTexts /\ r.id = reading[1].id
    BY <1>8, <2>1, AttachesExports DEF AttachesReading
  <2>3. reading[1].id \notin J
    BY <2>1 DEF PlacesOK
  <2>4. Ids(jsonl') = J \cup R /\ Unique(jsonl')
    BY <2>1, <2>2, <2>3, IdsOfAppend DEF PlacesOK
  <2>5. Ids(reading') = {} /\ UNCHANGED <<pending, handled>>
    BY <1>8, IdsOfShort DEF AttachesReading, Attaches
  <2> QED
    BY <2>4, <2>5 DEF PlacesOK, Unique
<1>9. CASE Waits
  <2> DEFINE pt == Examined(reading[1])
  <2>1. reading[1] \in PendingTexts /\ R = {reading[1].id}
    BY <1>9, IdsOfShort DEF Waits
  <2>2. pt \in PendingTexts /\ pt.id = reading[1].id
    BY <2>1, ExaminedProperties
  <2>3. pt.id \notin P
    BY <2>1, <2>2 DEF PlacesOK
  <2>4. Ids(pending') = P \cup R /\ Unique(pending')
    BY <1>9, <2>1, <2>2, <2>3, IdsOfAppend DEF Waits, PlacesOK
  <2>5. Ids(reading') = {} /\ UNCHANGED <<jsonl, handled>>
    BY <1>9, IdsOfShort DEF Waits
  <2> QED
    BY <2>4, <2>5 DEF PlacesOK, Unique
<1> QED
  BY <1>1, <1>2, <1>3, <1>4, <1>6, <1>7, <1>8, <1>9 DEF StepKind

-----------------------------------------------------------------------------
(* The capture: the packets in the file, then those in the buffer.          *)

\* Writing the oldest packet of the buffer leaves the capture as it is.
LEMMA MoveKeepsConcat ==
  ASSUME NEW S, NEW s \in Seq(S), NEW t \in Seq(S), 1 \in DOMAIN t
  PROVE  Append(s, t[1]) \o Remove(t, 1) = s \o t
<1> DEFINE a == Append(s, t[1])
           b == Remove(t, 1)
<1>1. Len(s) \in Nat /\ Len(t) \in Nat /\ DOMAIN t = 1..Len(t) /\ t[1] \in S
  BY LenProperties, ElementOfSeq
<1>2. /\ a \in Seq(S) /\ Len(a) = Len(s) + 1
      /\ \A i \in 1..Len(s) : a[i] = s[i]
      /\ a[Len(s) + 1] = t[1]
  BY <1>1, AppendProperties
<1>3. /\ b \in Seq(S) /\ Len(b) = Len(t) - 1
      /\ \A j \in 1..(Len(t) - 1) : b[j] = t[j + 1]
  <2>1. \A j \in 1..(Len(t) - 1) : b[j] = IF j < 1 THEN t[j] ELSE t[j + 1]
    BY <1>1, RemoveProperties
  <2>2. b \in Seq(S) /\ Len(b) = Len(t) - 1
    BY <1>1, RemoveProperties
  <2> HIDE DEF b
  <2>3. ASSUME NEW j \in 1..(Len(t) - 1) PROVE b[j] = t[j + 1]
    <3>1. ~(j < 1)
      BY <1>1
    <3> QED
      BY <2>1, <3>1
  <2> QED
    BY <2>2, <2>3
<1> HIDE DEF a, b
<1>4. /\ a \o b \in Seq(S) /\ Len(a \o b) = Len(s) + Len(t)
      /\ \A i \in 1..(Len(s) + Len(t)) :
           (a \o b)[i] = IF i <= Len(s) + 1 THEN a[i] ELSE b[i - (Len(s) + 1)]
  <2>1. Len(a) + Len(b) = Len(s) + Len(t)
    BY <1>1, <1>2, <1>3
  <2>2. /\ a \o b \in Seq(S) /\ Len(a \o b) = Len(a) + Len(b)
        /\ \A i \in 1..(Len(a) + Len(b)) :
             (a \o b)[i] = IF i <= Len(a) THEN a[i] ELSE b[i - Len(a)]
    BY <1>2, <1>3, ConcatProperties
  <2> QED
    BY <1>2, <2>1, <2>2
<1>5. /\ s \o t \in Seq(S) /\ Len(s \o t) = Len(s) + Len(t)
      /\ \A i \in 1..(Len(s) + Len(t)) :
           (s \o t)[i] = IF i <= Len(s) THEN s[i] ELSE t[i - Len(s)]
  BY ConcatProperties
<1>6. ASSUME NEW i \in 1..(Len(s) + Len(t)) PROVE (a \o b)[i] = (s \o t)[i]
  <2>1. CASE i <= Len(s)
    BY <1>1, <1>2, <1>4, <1>5, <2>1
  <2>2. CASE i = Len(s) + 1
    BY <1>1, <1>2, <1>4, <1>5, <2>2
  <2>3. CASE i > Len(s) + 1
    <3>1. (a \o b)[i] = b[i - (Len(s) + 1)] /\ (s \o t)[i] = t[i - Len(s)]
      BY <1>1, <1>4, <1>5, <2>3
    <3>2. i - (Len(s) + 1) \in 1..(Len(t) - 1)
      BY <1>1, <2>3
    <3>3. b[i - (Len(s) + 1)] = t[(i - (Len(s) + 1)) + 1]
      BY <1>3, <3>2
    <3>4. (i - (Len(s) + 1)) + 1 = i - Len(s)
      BY <1>1
    <3> QED
      BY <3>1, <3>3, <3>4
  <2>4. i \in Int /\ (i <= Len(s) \/ i = Len(s) + 1 \/ i > Len(s) + 1)
    BY <1>1
  <2> QED
    BY <2>1, <2>2, <2>3, <2>4
<1>7. a \o b = s \o t
  BY <1>4, <1>5, <1>6, SeqEqual
<1> QED
  BY <1>7 DEF a, b

LEMMA ConcatAppend ==
  ASSUME NEW S, NEW s \in Seq(S), NEW t \in Seq(S), NEW x \in S
  PROVE  s \o Append(t, x) = Append(s \o t, x)
<1>1. <<x>> \in Seq(S) /\ Append(t, x) = t \o <<x>>
  BY AppendIsConcat
<1>2. s \o t \in Seq(S) /\ Append(s \o t, x) = (s \o t) \o <<x>>
  BY ConcatProperties, AppendIsConcat
<1>3. (s \o t) \o <<x>> = s \o (t \o <<x>>)
  BY <1>1, ConcatAssociative
<1> QED
  BY <1>1, <1>2, <1>3

LEMMA ConcatExcept ==
  ASSUME NEW S, NEW s \in Seq(S), NEW t \in Seq(S), NEW i \in DOMAIN t, NEW x \in S
  PROVE  /\ Len(s) + i \in DOMAIN (s \o t) /\ (s \o t)[Len(s) + i] = t[i]
         /\ s \o [t EXCEPT ![i] = x] = [s \o t EXCEPT ![Len(s) + i] = x]
<1> DEFINE u == [t EXCEPT ![i] = x]
           k == Len(s) + i
           v == [s \o t EXCEPT ![k] = x]
<1>1. Len(s) \in Nat /\ Len(t) \in Nat /\ DOMAIN t = 1..Len(t)
  BY LenProperties
<1>2. u \in Seq(S) /\ Len(u) = Len(t) /\ \A j \in 1..Len(t) : u[j] = IF j = i THEN x ELSE t[j]
  BY <1>1, ExceptSeq
<1>3. /\ s \o t \in Seq(S) /\ Len(s \o t) = Len(s) + Len(t)
      /\ \A j \in 1..(Len(s) + Len(t)) :
           (s \o t)[j] = IF j <= Len(s) THEN s[j] ELSE t[j - Len(s)]
  BY ConcatProperties
<1>4. k \in 1..(Len(s) + Len(t)) /\ (s \o t)[k] = t[i]
  BY <1>1, <1>3
<1>5. /\ v \in Seq(S) /\ Len(v) = Len(s) + Len(t)
      /\ \A j \in 1..(Len(s) + Len(t)) : v[j] = IF j = k THEN x ELSE (s \o t)[j]
  <2>1. DOMAIN (s \o t) = 1..(Len(s) + Len(t))
    BY <1>3, LenProperties
  <2> QED
    BY <1>3, <1>4, <2>1, ExceptSeq
<1> HIDE DEF u, v
<1>6. /\ s \o u \in Seq(S) /\ Len(s \o u) = Len(s) + Len(t)
      /\ \A j \in 1..(Len(s) + Len(t)) :
           (s \o u)[j] = IF j <= Len(s) THEN s[j] ELSE u[j - Len(s)]
  <2>1. /\ s \o u \in Seq(S) /\ Len(s \o u) = Len(s) + Len(u)
        /\ \A j \in 1..(Len(s) + Len(u)) :
             (s \o u)[j] = IF j <= Len(s) THEN s[j] ELSE u[j - Len(s)]
    BY <1>2, ConcatProperties
  <2> QED
    BY <1>2, <2>1
<1>7. ASSUME NEW j \in 1..(Len(s) + Len(t)) PROVE (s \o u)[j] = v[j]
  <2>1. CASE j <= Len(s)
    <3>1. j # k
      BY <1>1, <2>1
    <3> QED
      BY <1>3, <1>5, <1>6, <2>1, <3>1
  <2>2. CASE j > Len(s)
    <3>1. j - Len(s) \in 1..Len(t) /\ (j - Len(s) = i <=> j = k)
      BY <1>1, <2>2
    <3>2. (s \o u)[j] = IF j - Len(s) = i THEN x ELSE t[j - Len(s)]
      BY <1>1, <1>2, <1>6, <2>2, <3>1
    <3> QED
      BY <1>1, <1>3, <1>5, <2>2, <3>1, <3>2
  <2>3. j \in Int /\ (j <= Len(s) \/ j > Len(s))
    BY <1>1
  <2> QED
    BY <2>1, <2>2, <2>3
<1>8. s \o u = v
  BY <1>5, <1>6, <1>7, SeqEqual
<1>9. k \in DOMAIN (s \o t)
  BY <1>3, <1>4, LenProperties
<1> QED
  BY <1>4, <1>8, <1>9 DEF u, v

-----------------------------------------------------------------------------
(* Marks in the capture and annotated records.                              *)

LEMMA MarksAfterAccept ==
  ASSUME NEW S, NEW J \in Seq(S), NEW L, MarksAgree(J, L),
         NEW pkt \in S, pkt.ann = NoAnnotation
  PROVE  MarksAgree(Append(J, pkt), L)
<1> DEFINE K == Append(J, pkt)
<1>1. /\ DOMAIN J = 1..Len(J) /\ Len(J) \in Nat
      /\ DOMAIN K = 1..(Len(J) + 1)
      /\ \A i \in 1..Len(J) : K[i] = J[i]
      /\ K[Len(J) + 1] = pkt
  BY LenProperties, AppendProperties
<1> HIDE DEF K
<1>2. ASSUME NEW i \in DOMAIN K, K[i].ann # NoAnnotation
      PROVE  i \in DOMAIN J /\ K[i] = J[i]
  BY <1>1, <1>2
<1>3. \A i \in DOMAIN J : i \in DOMAIN K /\ K[i] = J[i]
  BY <1>1
<1> QED
  BY <1>2, <1>3 DEF MarksAgree, K

\* A record that is not annotated says nothing of the capture.
LEMMA MarksAfterLog ==
  ASSUME NEW S, NEW L \in Seq(S), NEW J, MarksAgree(J, L), NEW r \in S, ~r.annotated
  PROVE  MarksAgree(J, Append(L, r))
<1> DEFINE M == Append(L, r)
<1>1. /\ DOMAIN L = 1..Len(L) /\ Len(L) \in Nat
      /\ DOMAIN M = 1..(Len(L) + 1)
      /\ \A i \in 1..Len(L) : M[i] = L[i]
      /\ M[Len(L) + 1] = r
  BY LenProperties, AppendProperties
<1> HIDE DEF M
<1>2. ASSUME NEW i \in DOMAIN M, M[i].annotated PROVE i \in DOMAIN L /\ M[i] = L[i]
  BY <1>1, <1>2
<1>3. \A i \in DOMAIN L : i \in DOMAIN M /\ M[i] = L[i]
  BY <1>1
<1> QED
  BY <1>2, <1>3 DEF MarksAgree, M

\* A new record and the free packet it marks.
LEMMA MarksAfterAttach ==
  ASSUME NEW S, NEW L \in Seq(S), NEW J \in Seq(BufferedPackets), MarksAgree(J, L),
         NEW k \in DOMAIN J, J[k].ann = NoAnnotation,
         NEW id \in Nat \ {0}, id \notin Ids(L), NoAnnotation \notin Ids(L),
         NEW r \in S, r.id = id, Explains([J[k] EXCEPT !.ann = id], r)
  PROVE  MarksAgree([J EXCEPT ![k] = [J[k] EXCEPT !.ann = id]], Append(L, r))
<1> DEFINE M == Append(L, r)
           K == [J EXCEPT ![k] = [J[k] EXCEPT !.ann = id]]
           last == Len(L) + 1
<1>1. /\ DOMAIN L = 1..Len(L) /\ Len(L) \in Nat
      /\ DOMAIN M = 1..last
      /\ \A i \in 1..Len(L) : M[i] = L[i]
      /\ M[last] = r
  BY LenProperties, AppendProperties
<1>2. /\ DOMAIN K = DOMAIN J
      /\ \A i \in DOMAIN J \ {k} : K[i] = J[i]
      /\ K[k] = [J[k] EXCEPT !.ann = id]
  OBVIOUS
<1>3. K[k].ann = id
  <2>1. J[k] \in BufferedPackets
    BY ElementOfSeq, LenProperties
  <2> QED
    BY <1>2, <2>1 DEF BufferedPackets
<1>4. Explains(K[k], M[last]) /\ last \in DOMAIN M /\ k \in DOMAIN K
  BY <1>1, <1>2
<1> HIDE DEF M, K
<1>5. \A i \in DOMAIN L : i \in DOMAIN M /\ M[i] = L[i]
  BY <1>1
<1>6. \A i \in DOMAIN M : i \in DOMAIN L \/ i = last
  BY <1>1
<1>7. ASSUME NEW i \in DOMAIN J, i # k PROVE J[i].ann # id
  <2> SUFFICES ASSUME J[i].ann = id PROVE FALSE
    OBVIOUS
  <2>1. PICK q \in DOMAIN L : Explains(J[i], L[q])
    BY DEF MarksAgree, NoAnnotation
  <2>2. L[q].id = id
    BY <2>1 DEF Explains
  <2> QED
    BY <2>2 DEF Ids
<1>8. ASSUME NEW i \in DOMAIN K, NEW j \in DOMAIN K,
             K[i].ann # NoAnnotation, K[i].ann = K[j].ann
      PROVE  i = j
  <2>1. CASE i = k \/ j = k
    BY <1>2, <1>3, <1>7, <1>8, <2>1
  <2>2. CASE i # k /\ j # k
    <3>1. i \in DOMAIN J /\ j \in DOMAIN J /\ K[i] = J[i] /\ K[j] = J[j]
      BY <1>2, <2>2
    <3> QED
      BY <1>8, <3>1 DEF MarksAgree
  <2> QED
    BY <2>1, <2>2
<1>9. ASSUME NEW i \in DOMAIN K, K[i].ann # NoAnnotation
      PROVE  \E q \in DOMAIN M : Explains(K[i], M[q])
  <2>1. CASE i = k
    BY <1>4, <2>1
  <2>2. CASE i # k
    <3>1. i \in DOMAIN J /\ K[i] = J[i]
      BY <1>2, <2>2
    <3>2. PICK q \in DOMAIN L : Explains(J[i], L[q])
      BY <1>9, <3>1 DEF MarksAgree
    <3> QED
      BY <1>5, <3>1, <3>2
  <2> QED
    BY <2>1, <2>2
<1>10. ASSUME NEW q \in DOMAIN M, M[q].annotated
       PROVE  \E i \in DOMAIN K : Explains(K[i], M[q])
  <2>1. CASE q = last
    BY <1>4, <2>1
  <2>2. CASE q \in DOMAIN L
    <3>1. PICK i \in DOMAIN J : Explains(J[i], L[q])
      BY <1>5, <1>10, <2>2 DEF MarksAgree
    <3>2. J[i].ann = L[q].id
      BY <3>1 DEF Explains
    <3>3. i # k
      <4>1. L[q].id # NoAnnotation
        BY <2>2 DEF Ids
      <4> QED
        BY <3>2, <4>1
    <3> QED
      BY <1>2, <1>5, <2>2, <3>1, <3>3
  <2> QED
    BY <1>6, <2>1, <2>2
<1> QED
  BY <1>8, <1>9, <1>10 DEF MarksAgree, M, K

-----------------------------------------------------------------------------
(* The capture and its marks, step by step.                                 *)

LEMMA JournalTypes ==
  ASSUME TypeOK
  PROVE  /\ Journal \in Seq(BufferedPackets)
         /\ Len(Journal) = Len(pcap) + Len(packets)
         /\ DOMAIN Journal = 1..Len(Journal) /\ Len(Journal) \in Nat
<1>1. Journal \in Seq(BufferedPackets) /\ Len(Journal) = Len(pcap) + Len(packets)
  BY RecordTypes, ConcatProperties DEF Journal
<1> QED
  BY <1>1, LenProperties

LEMMA JournalAfterAccept ==
  ASSUME TypeOK, Accepts
  PROVE  /\ arriving[1] \in BufferedPackets
         /\ Journal' = Append(Journal, arriving[1]) /\ UNCHANGED pcap
<1>1. arriving[1] \in BufferedPackets
  BY ElementTypes DEF Accepts
<1>2. packets' = Append(packets, arriving[1]) /\ pcap' = pcap
  BY DEF Accepts
<1>3. pcap \o Append(packets, arriving[1]) = Append(pcap \o packets, arriving[1])
  BY <1>1, RecordTypes, ConcatAppend
<1> QED
  BY <1>1, <1>2, <1>3 DEF Journal

LEMMA JournalAfterWrite ==
  ASSUME TypeOK, Writes
  PROVE  Journal' = Journal /\ Len(pcap') = Len(pcap) + 1
<1>1. pcap' = Append(pcap, packets[1]) /\ packets' = Remove(packets, 1)
  BY DEF Writes
<1>2. 1 \in DOMAIN packets /\ packets[1] \in BufferedPackets
  BY ElementTypes DEF Writes
<1>3. Append(pcap, packets[1]) \o Remove(packets, 1) = pcap \o packets
  BY <1>2, RecordTypes, MoveKeepsConcat
<1>4. Len(pcap') = Len(pcap) + 1
  BY <1>1, <1>2, RecordTypes, AppendProperties
<1> QED
  BY <1>1, <1>3, <1>4 DEF Journal

\* A match marks a packet that is still in the buffer and has no mark.
LEMMA JournalAfterAttach ==
  ASSUME TypeOK, NEW pt \in PendingTexts, Attaches(pt)
  PROVE  \E k \in DOMAIN Journal : \E r \in ExportedTexts :
           /\ k > Len(pcap) /\ Journal[k].ann = NoAnnotation
           /\ Journal' = [Journal EXCEPT ![k] = [Journal[k] EXCEPT !.ann = pt.id]]
           /\ jsonl' = Append(jsonl, r) /\ r.id = pt.id
           /\ Explains([Journal[k] EXCEPT !.ann = pt.id], r)
           /\ UNCHANGED pcap
<1>1. PICK i \in DOMAIN packets :
        LET r == ExportAnnotated(Examined(pt), packets[i])
        IN  /\ packets[i].ann = NoAnnotation
            /\ packets' = [packets EXCEPT ![i].ann = pt.id]
            /\ jsonl' = Append(jsonl, r)
            /\ r \in ExportedTexts /\ r.id = pt.id
            /\ Explains([packets[i] EXCEPT !.ann = pt.id], r)
  BY AttachesExports
<1> DEFINE r == ExportAnnotated(Examined(pt), packets[i])
           x == [packets[i] EXCEPT !.ann = pt.id]
           k == Len(pcap) + i
<1>2. packets[i] \in BufferedPackets /\ i \in 1..Len(packets) /\ Len(pcap) \in Nat
  BY ElementTypes
<1>3. x \in BufferedPackets
  BY <1>2 DEF BufferedPackets, PendingTexts
<1>4. packets' = [packets EXCEPT ![i] = x] /\ pcap' = pcap
  BY <1>1 DEF Attaches
<1> HIDE DEF x
<1>5. /\ k \in DOMAIN Journal /\ Journal[k] = packets[i]
      /\ pcap \o [packets EXCEPT ![i] = x] = [Journal EXCEPT ![k] = x]
  <2>1. pcap \in Seq(BufferedPackets) /\ packets \in Seq(BufferedPackets)
    BY RecordTypes
  <2>2. /\ Len(pcap) + i \in DOMAIN (pcap \o packets)
        /\ (pcap \o packets)[Len(pcap) + i] = packets[i]
        /\ pcap \o [packets EXCEPT ![i] = x] = [pcap \o packets EXCEPT ![Len(pcap) + i] = x]
    BY <1>3, <2>1, ConcatExcept
  <2> QED
    BY <2>2 DEF Journal
<1>6. Journal' = [Journal EXCEPT ![k] = x] /\ k > Len(pcap)
  BY <1>2, <1>4, <1>5 DEF Journal
<1>7. x = [Journal[k] EXCEPT !.ann = pt.id]
  BY <1>5 DEF x
<1>8. Explains(x, r) /\ jsonl' = Append(jsonl, r) /\ r \in ExportedTexts /\ r.id = pt.id
  BY <1>1 DEF x
<1> HIDE DEF r, k
<1> QED
  BY <1>1, <1>4, <1>5, <1>6, <1>7, <1>8

\* A record that is not annotated leaves the marks as they are.
LEMMA MarksAfterRecord ==
  ASSUME TypeOK, MarksOK, NEW r \in ExportedTexts, ~r.annotated,
         jsonl' = Append(jsonl, r), PacketsUnchanged
  PROVE  MarksOK'
<1>1. Journal' = Journal
  BY DEF Journal, PacketsUnchanged
<1>2. MarksAgree(Journal, Append(jsonl, r))
  BY RecordTypes, MarksAfterLog DEF MarksOK
<1> QED
  BY <1>1, <1>2 DEF MarksOK

LEMMA MarksStep ==
  ASSUME TypeOK, SectionOK, PlacesOK, MarksOK, StepKind
  PROVE  MarksOK'
<1>1. ASSUME Journal' = Journal, jsonl' = jsonl PROVE MarksOK'
  BY <1>1 DEF MarksOK
<1>2. CASE Writes
  BY <1>1, <1>2, JournalAfterWrite DEF Writes, TextsUnchanged
<1>3. CASE Quiet \/ Hints \/ Waits \/ \E p \in AnyText : Takes(p)
  BY <1>1, <1>3 DEF Quiet, Hints, Waits, Takes, TextsUnchanged, PacketsUnchanged, Journal
<1>4. CASE Accepts
  <2>1. arriving[1].ann = NoAnnotation /\ jsonl' = jsonl
    BY <1>4 DEF Accepts, SectionOK, TextsUnchanged
  <2>2. MarksAgree(Append(Journal, arriving[1]), jsonl)
    BY <1>4, <2>1, JournalTypes, JournalAfterAccept, MarksAfterAccept DEF MarksOK
  <2> QED
    BY <1>4, <2>1, <2>2, JournalAfterAccept DEF MarksOK
<1>5. CASE \E p \in TextInputs : Logs(p)
  <2>1. PICK p \in TextInputs : Logs(p)
    BY <1>5
  <2> DEFINE r == ExportPrepared(NewPending(p))
  <2>2. r \in ExportedTexts /\ ~r.annotated
    BY NewRecords, ExportProperties DEF AnyText
  <2> QED
    BY <2>1, <2>2, MarksAfterRecord DEF Logs
<1>6. CASE Expires
  <2> DEFINE r == ExportUnmatched(pending[cur])
  <2>1. r \in ExportedTexts /\ ~r.annotated
    BY <1>6, ElementTypes, ExportProperties DEF Expires
  <2> QED
    BY <1>6, <2>1, MarksAfterRecord DEF Expires
<1>7. ASSUME NEW pt \in PendingTexts, Attaches(pt), pt.id \in (1..handled) \ Ids(jsonl)
      PROVE  MarksOK'
  <2>1. PICK k \in DOMAIN Journal, r \in ExportedTexts :
          /\ Journal[k].ann = NoAnnotation
          /\ Journal' = [Journal EXCEPT ![k] = [Journal[k] EXCEPT !.ann = pt.id]]
          /\ jsonl' = Append(jsonl, r) /\ r.id = pt.id
          /\ Explains([Journal[k] EXCEPT !.ann = pt.id], r)
    BY <1>7, JournalAfterAttach
  <2>2. NoAnnotation \notin Ids(jsonl) /\ pt.id \in Nat \ {0}
    BY <1>7, RecordTypes DEF PlacesOK, NoAnnotation
  <2>3. MarksAgree([Journal EXCEPT ![k] = [Journal[k] EXCEPT !.ann = pt.id]], Append(jsonl, r))
    BY <1>7, <2>1, <2>2, RecordTypes, JournalTypes, MarksAfterAttach DEF MarksOK
  <2> QED
    BY <2>1, <2>3 DEF MarksOK
<1>8. CASE AttachesPending
  <2>1. pending[cur] \in PendingTexts /\ pending[cur].id \in Ids(pending)
    BY <1>8, ElementTypes DEF AttachesPending, Ids
  <2>2. pending[cur].id \in (1..handled) \ Ids(jsonl)
    BY <2>1 DEF PlacesOK
  <2> QED
    BY <1>7, <1>8, <2>1, <2>2 DEF AttachesPending
<1>9. CASE AttachesReading
  <2>1. reading[1] \in PendingTexts /\ Ids(reading) = {reading[1].id}
    BY <1>9, RecordTypes, IdsOfShort DEF AttachesReading
  <2>2. reading[1].id \in (1..handled) \ Ids(jsonl)
    BY <2>1 DEF PlacesOK
  <2> QED
    BY <1>7, <1>9, <2>1, <2>2 DEF AttachesReading
<1> QED
  BY <1>2, <1>3, <1>4, <1>5, <1>6, <1>8, <1>9 DEF StepKind

-----------------------------------------------------------------------------
(* Endpoints.                                                               *)

\* Only the strict tier admits a plaintext with a complete tuple, and the packet
\* then has the tuple's own two ends, in the direction of the plaintext.
LEMMA StrictMatchKeepsEnds ==
  ASSUME NEW w \in WirePackets, NEW p \in Plaintexts, HasTuple(p),
         EndpointsCompatible(w, p), BaseScore(w, p) # NoMatch
  PROVE  HasTuple(w) /\ Tuple(w) = NetworkEnds(p)
<1>1. HasTuple(w) /\ SameConnection(Tuple(w), Tuple(p))
  BY DEF BaseScore, StrictScore
<1>2. Tuple(w) = Tuple(p) \/ Tuple(w) = <<Destination(p), Source(p)>>
  BY <1>1 DEF SameConnection, Tuple
<1>3. /\ p.sport \in Int /\ p.dport \in Int /\ w.sport \in Int /\ w.dport \in Int
      /\ p.sport >= 0 /\ p.dport >= 0
  <2>1. p.sport \in Ports /\ p.dport \in Ports /\ w.sport \in Ports /\ w.dport \in Ports
    BY DEF Plaintexts, WirePackets
  <2>2. p.sport # NoPort /\ p.dport # NoPort
    BY DEF HasTuple
  <2>3. \A n \in Ports : n \in Int /\ (n # NoPort => n >= 0)
    BY DEF Ports, NoPort, MaxPort
  <2> QED
    BY <2>1, <2>2, <2>3
<1>4. Known(p.src) /\ Known(p.dst)
  BY DEF HasTuple
<1>5. CASE p.dir = "read"
  <2>1. EndpointAgrees(Source(p), Destination(w)) /\ EndpointAgrees(Destination(p), Source(w))
    BY <1>5 DEF EndpointsCompatible
  <2>2. /\ w.dst = p.src /\ (p.sport > 0 => w.dport = p.sport)
        /\ w.src = p.dst /\ (p.dport > 0 => w.sport = p.dport)
    BY <1>4, <2>1 DEF EndpointAgrees, Source, Destination
  <2>3. \/ w.sport = p.dport /\ w.dport = p.sport
        \/ w.sport = p.sport /\ w.dport = p.dport
    BY <1>2 DEF Tuple, Source, Destination
  <2>4. w.sport = p.dport /\ w.dport = p.sport
    BY <1>3, <2>2, <2>3
  <2> QED
    BY <1>1, <1>5, <2>2, <2>4 DEF NetworkEnds, Tuple, Source, Destination
<1>6. CASE p.dir # "read"
  <2>1. EndpointAgrees(Source(p), Source(w)) /\ EndpointAgrees(Destination(p), Destination(w))
    BY <1>6 DEF EndpointsCompatible
  <2>2. /\ w.src = p.src /\ (p.sport > 0 => w.sport = p.sport)
        /\ w.dst = p.dst /\ (p.dport > 0 => w.dport = p.dport)
    BY <1>4, <2>1 DEF EndpointAgrees, Source, Destination
  <2>3. \/ w.sport = p.dport /\ w.dport = p.sport
        \/ w.sport = p.sport /\ w.dport = p.dport
    BY <1>2 DEF Tuple, Source, Destination
  <2>4. w.sport = p.sport /\ w.dport = p.dport
    BY <1>3, <2>2, <2>3
  <2> QED
    BY <1>1, <1>6, <2>2, <2>4 DEF NetworkEnds, Tuple, Source, Destination
<1> QED
  BY <1>5, <1>6

\* The capture's filters have nothing to add to a complete tuple.
LEMMA ExaminedKeepsTuple ==
  ASSUME NEW pt \in PendingTexts, TrustedText(pt)
  PROVE  TrustedText(Examined(pt))
<1>1. Examined(pt).original = pt.original
  BY ExaminedProperties
<1>2. Examined(pt).data = EnrichFromFilters(pt.data)
  BY DEF Examined, Enriched, PendingTexts
<1>3. HasTuple(pt.original) => Examined(pt).data = pt.data
  BY <1>2 DEF EnrichFromFilters, TrustedText
<1> QED
  BY <1>1, <1>3 DEF TrustedText

\* What an annotated record says of a verified tuple is the tuple.
LEMMA AttachedIsHonest ==
  ASSUME TypeOK, NEW pt \in PendingTexts, TrustedText(pt),
         NEW i \in DOMAIN packets, Matches(i, pt)
  PROVE  HonestRecord(ExportAnnotated(pt, packets[i]))
<1> DEFINE w == packets[i].wire
           p == pt.original
           r == ExportAnnotated(pt, packets[i])
<1>1. w \in WirePackets /\ p \in Plaintexts
  BY ElementTypes DEF BufferedPackets, PendingTexts
<1>2. r.text = p
  BY DEF ExportAnnotated, Export
<1>3. ASSUME p \notin TestInputs PROVE Verified(p) /\ <<r.from, r.to>> = NetworkEnds(p)
  <2>1. Verified(p) /\ HasTuple(p) /\ pt.data = p
    BY <1>3 DEF TrustedText, Verified
  <2>2. ScoreAt(i, pt) >= 0
    BY DEF Matches, IsBest
  <2>3. Candidate(w, packets[i].recv, p, pt.recv)
    BY <2>1, <2>2 DEF ScoreAt, Score, NoMatch
  <2>4. EndpointsCompatible(w, p) /\ BaseScore(w, p) # NoMatch
    BY <2>3 DEF Candidate
  <2>5. HasTuple(w) /\ Tuple(w) = NetworkEnds(p)
    BY <1>1, <2>1, <2>4, StrictMatchKeepsEnds
  <2>6. <<r.from, r.to>> = Tuple(w)
    BY <2>5 DEF ExportAnnotated, Export, Tuple
  <2> QED
    BY <2>1, <2>5, <2>6
<1> HIDE DEF r, p
<1> QED
  BY <1>2, <1>3 DEF HonestRecord, r

\* What is exported without a packet is verified, or without endpoints.
LEMMA PreparedIsHonest ==
  ASSUME NEW pt \in PendingTexts
  PROVE  HonestRecord(ExportPrepared(pt))
BY DEF HonestRecord, ExportPrepared, Export, NetworkEnds, Tuple

LEMMA UnmatchedIsHonest ==
  ASSUME NEW pt \in PendingTexts, TrustedText(pt)
  PROVE  HonestRecord(ExportUnmatched(pt))
<1>1. CASE pt.original.kernel
  BY <1>1, PreparedIsHonest DEF ExportUnmatched
<1>2. CASE ~pt.original.kernel
  <2>1. pt.original \in TestInputs
    BY <1>2 DEF TrustedText, Verified
  <2>2. ExportUnmatched(pt).text = pt.original
    BY <1>2 DEF ExportUnmatched, Export
  <2> QED
    BY <2>1, <2>2 DEF HonestRecord
<1> QED
  BY <1>1, <1>2

LEMMA HonestAppend ==
  ASSUME NEW S, NEW s \in Seq(S), \A q \in DOMAIN s : HonestRecord(s[q]),
         NEW r \in S, HonestRecord(r)
  PROVE  \A q \in DOMAIN Append(s, r) : HonestRecord(Append(s, r)[q])
<1> DEFINE t == Append(s, r)
<1>1. /\ DOMAIN s = 1..Len(s) /\ Len(s) \in Nat /\ DOMAIN t = 1..(Len(s) + 1)
      /\ \A q \in 1..Len(s) : t[q] = s[q]
      /\ t[Len(s) + 1] = r
  BY LenProperties, AppendProperties
<1> HIDE DEF t
<1>2. \A q \in DOMAIN t : (q \in DOMAIN s /\ t[q] = s[q]) \/ t[q] = r
  BY <1>1
<1> QED
  BY <1>2 DEF t

LEMMA TrustedAppend ==
  ASSUME NEW S, NEW s \in Seq(S), \A q \in DOMAIN s : TrustedText(s[q]),
         NEW r \in S, TrustedText(r)
  PROVE  \A q \in DOMAIN Append(s, r) : TrustedText(Append(s, r)[q])
<1> DEFINE t == Append(s, r)
<1>1. /\ DOMAIN s = 1..Len(s) /\ Len(s) \in Nat /\ DOMAIN t = 1..(Len(s) + 1)
      /\ \A q \in 1..Len(s) : t[q] = s[q]
      /\ t[Len(s) + 1] = r
  BY LenProperties, AppendProperties
<1> HIDE DEF t
<1>2. \A q \in DOMAIN t : (q \in DOMAIN s /\ t[q] = s[q]) \/ t[q] = r
  BY <1>1
<1> QED
  BY <1>2 DEF t

LEMMA TrustedRemove ==
  ASSUME NEW S, NEW s \in Seq(S), \A q \in DOMAIN s : TrustedText(s[q]), NEW k \in 1..Len(s)
  PROVE  \A q \in DOMAIN Remove(s, k) : TrustedText(Remove(s, k)[q])
<1> DEFINE t == Remove(s, k)
<1>1. /\ DOMAIN s = 1..Len(s) /\ Len(s) \in Nat /\ DOMAIN t = 1..(Len(s) - 1)
      /\ \A j \in 1..(Len(s) - 1) : t[j] = IF j < k THEN s[j] ELSE s[j + 1]
  BY LenProperties, RemoveProperties
<1> HIDE DEF t
<1>2. ASSUME NEW q \in DOMAIN t PROVE \E j \in DOMAIN s : t[q] = s[j]
  BY <1>1, <1>2
<1> QED
  BY <1>2 DEF t

LEMMA EndsStep ==
  ASSUME TypeOK, EndsOK, StepKind
  PROVE  EndsOK'
<1> DEFINE PendingOK == \A i \in DOMAIN pending : TrustedText(pending[i])
           ReadingOK == \A i \in DOMAIN reading : TrustedText(reading[i])
           RecordsOK == \A r \in DOMAIN jsonl : HonestRecord(jsonl[r])
<1>1. PendingOK /\ ReadingOK /\ RecordsOK
  BY DEF EndsOK
<1>3. CASE Quiet \/ Accepts \/ Writes
  <2>1. UNCHANGED <<pending, reading, jsonl>>
    BY <1>3 DEF Quiet, Accepts, Writes, TextsUnchanged
  <2> QED
    BY <2>1 DEF EndsOK
<1>4. CASE \E p \in AnyText : Takes(p) /\ (p \in TestInputs \/ Verified(p))
  <2>1. PICK p \in AnyText : Takes(p) /\ (p \in TestInputs \/ Verified(p))
    BY <1>4
  <2>2. TrustedText(NewPending(p))
    BY <2>1 DEF TrustedText, NewPending
  <2>3. reading' = <<NewPending(p)>> /\ UNCHANGED <<pending, jsonl>>
    BY <2>1 DEF Takes
  <2>4. ReadingOK'
    BY <2>2, <2>3
  <2> QED
    BY <1>1, <2>3, <2>4 DEF EndsOK
<1>5. CASE \E p \in TextInputs : Logs(p)
  <2>1. PICK p \in TextInputs : Logs(p)
    BY <1>5
  <2> DEFINE r == ExportPrepared(NewPending(p))
  <2>2. NewPending(p) \in PendingTexts
    BY NewRecords DEF AnyText
  <2>3. r \in ExportedTexts /\ HonestRecord(r)
    BY <2>2, ExportProperties, PreparedIsHonest
  <2>4. jsonl' = Append(jsonl, r) /\ UNCHANGED <<pending, reading>>
    BY <2>1 DEF Logs
  <2> HIDE DEF r
  <2>5. RecordsOK'
    BY <1>1, <2>3, <2>4, RecordTypes, HonestAppend
  <2> QED
    BY <1>1, <2>4, <2>5 DEF EndsOK
<1>6. CASE Hints
  <2>1. pending[cur] \in PendingTexts /\ cur \in DOMAIN pending
    BY <1>6, ElementTypes DEF Hints
  <2>2. TrustedText(Examined(pending[cur]))
    BY <1>1, <2>1, ExaminedKeepsTuple
  <2>3. pending' = [pending EXCEPT ![cur] = Examined(pending[cur])] /\ UNCHANGED <<reading, jsonl>>
    BY <1>6 DEF Hints
  <2>4. PendingOK'
    <3>1. DOMAIN pending' = DOMAIN pending
      BY <2>3
    <3>2. \A i \in DOMAIN pending : TrustedText(pending'[i])
      BY <1>1, <2>2, <2>3
    <3> QED
      BY <3>1, <3>2
  <2> QED
    BY <1>1, <2>3, <2>4 DEF EndsOK
<1>7. CASE Expires
  <2>1. cur \in 1..Len(pending) /\ pending[cur] \in PendingTexts
    BY <1>7, ElementTypes DEF Expires
  <2> DEFINE r == ExportUnmatched(pending[cur])
  <2>2. TrustedText(pending[cur])
    BY <1>1, <1>7 DEF Expires
  <2>3. r \in ExportedTexts /\ HonestRecord(r)
    BY <2>1, <2>2, ExportProperties, UnmatchedIsHonest
  <2>4. jsonl' = Append(jsonl, r) /\ pending' = Remove(pending, cur) /\ UNCHANGED reading
    BY <1>7 DEF Expires
  <2> HIDE DEF r
  <2>5. RecordsOK'
    BY <1>1, <2>3, <2>4, RecordTypes, HonestAppend
  <2>6. PendingOK'
    BY <1>1, <2>1, <2>4, RecordTypes, TrustedRemove
  <2> QED
    BY <1>1, <2>4, <2>5, <2>6 DEF EndsOK
<1>8. ASSUME NEW pt \in PendingTexts, TrustedText(pt), Attaches(pt)
      PROVE  RecordsOK'
  <2>1. PICK i \in DOMAIN packets :
          LET r == ExportAnnotated(Examined(pt), packets[i])
          IN  /\ jsonl' = Append(jsonl, r)
              /\ r \in ExportedTexts
              /\ Matches(i, Examined(pt))
    BY <1>8, AttachesExports
  <2> DEFINE r == ExportAnnotated(Examined(pt), packets[i])
  <2>2. Examined(pt) \in PendingTexts /\ TrustedText(Examined(pt))
    BY <1>8, ExaminedProperties, ExaminedKeepsTuple
  <2>3. HonestRecord(r)
    BY <2>1, <2>2, AttachedIsHonest
  <2>4. jsonl' = Append(jsonl, r) /\ r \in ExportedTexts
    BY <2>1
  <2> HIDE DEF r
  <2> QED
    BY <1>1, <2>3, <2>4, RecordTypes, HonestAppend
<1>9. CASE AttachesPending
  <2>1. cur \in 1..Len(pending) /\ pending[cur] \in PendingTexts
    BY <1>9, ElementTypes DEF AttachesPending
  <2>2. TrustedText(pending[cur])
    BY <1>1, <1>9 DEF AttachesPending
  <2>3. pending' = Remove(pending, cur) /\ UNCHANGED reading /\ RecordsOK'
    BY <1>8, <1>9, <2>1, <2>2 DEF AttachesPending
  <2>4. PendingOK'
    BY <1>1, <2>1, <2>3, RecordTypes, TrustedRemove
  <2> QED
    BY <1>1, <2>3, <2>4 DEF EndsOK
<1>10. CASE AttachesReading \/ Waits
  <2>1. reading # <<>> /\ reading' = <<>>
    BY <1>10 DEF AttachesReading, Waits
  <2>2. reading[1] \in PendingTexts /\ 1 \in DOMAIN reading
    <3>1. reading = <<reading[1]>> /\ reading[1] \in PendingTexts
      BY <2>1, RecordTypes
    <3>2. DOMAIN <<reading[1]>> = {1}
      OBVIOUS
    <3> QED
      BY <3>1, <3>2
  <2>3. TrustedText(reading[1])
    BY <1>1, <2>2
  <2>4. ReadingOK'
    BY <2>1
  <2>5. CASE AttachesReading
    <3>1. UNCHANGED pending /\ RecordsOK'
      BY <1>8, <2>2, <2>3, <2>5 DEF AttachesReading
    <3> QED
      BY <1>1, <2>4, <3>1 DEF EndsOK
  <2>6. CASE Waits
    <3>1. Examined(reading[1]) \in PendingTexts /\ TrustedText(Examined(reading[1]))
      BY <2>2, <2>3, ExaminedProperties, ExaminedKeepsTuple
    <3>2. pending' = Append(pending, Examined(reading[1])) /\ UNCHANGED jsonl
      BY <2>6 DEF Waits
    <3>3. PendingOK'
      BY <1>1, <3>1, <3>2, RecordTypes, TrustedAppend
    <3> QED
      BY <1>1, <2>4, <3>2, <3>3 DEF EndsOK
  <2> QED
    BY <1>10, <2>5, <2>6
<1> QED
  BY <1>3, <1>4, <1>5, <1>6, <1>7, <1>9, <1>10 DEF StepKind

-----------------------------------------------------------------------------
(* Draining.                                                                *)

LEMMA EmptyLength ==
  ASSUME NEW S, NEW s \in Seq(S)
  PROVE  /\ s = <<>> <=> Len(s) = 0
         /\ s = <<>> <=> DOMAIN s = {}
BY EmptySeq, LenProperties

\* No plaintext disappears: what leaves the buffer is exported.
LEMMA TextsCounted ==
  ASSUME TypeOK, StepKind, Len(jsonl) + Len(pending) + Len(reading) = handled
  PROVE  Len(jsonl') + Len(pending') + Len(reading') = handled'
<1> DEFINE Texts == Len(jsonl) + Len(pending) + Len(reading)
<1>1. Len(jsonl) \in Nat /\ Len(pending) \in Nat /\ Len(reading) \in Nat /\ handled \in Nat
  BY RecordTypes, LenProperties
<1>2. CASE Quiet \/ Accepts \/ Writes
  BY <1>2 DEF Quiet, Accepts, Writes, TextsUnchanged
<1>3. CASE \E p \in AnyText : Takes(p)
  <2>1. PICK p \in AnyText : Takes(p)
    BY <1>3
  <2>2. Len(reading) = 0 /\ Len(reading') = 1
    BY <2>1 DEF Takes
  <2> QED
    BY <1>1, <2>1, <2>2 DEF Takes
<1>4. CASE \E p \in TextInputs : Logs(p)
  <2>1. PICK p \in TextInputs : Logs(p)
    BY <1>4
  <2>2. ExportPrepared(NewPending(p)) \in ExportedTexts
    BY NewRecords, ExportProperties DEF AnyText
  <2>3. Len(jsonl') = Len(jsonl) + 1
    BY <2>1, <2>2, RecordTypes, AppendProperties DEF Logs
  <2> QED
    BY <1>1, <2>1, <2>3 DEF Logs
<1>5. CASE Hints
  BY <1>5, RecordTypes DEF Hints
<1>6. ASSUME NEW pt \in PendingTexts, Attaches(pt)
      PROVE  Len(jsonl') = Len(jsonl) + 1 /\ handled' = handled
  <2>1. \E r \in ExportedTexts : jsonl' = Append(jsonl, r)
    BY <1>6, AttachesExports
  <2> QED
    BY <1>6, <2>1, RecordTypes, AppendProperties DEF Attaches
<1>7. CASE Expires
  <2>1. cur \in 1..Len(pending) /\ ExportUnmatched(pending[cur]) \in ExportedTexts
    BY <1>7, ElementTypes, ExportProperties DEF Expires
  <2>2. Len(jsonl') = Len(jsonl) + 1
    BY <1>7, <2>1, RecordTypes, AppendProperties DEF Expires
  <2>3. Len(pending') = Len(pending) - 1
    BY <1>7, <2>1, RecordTypes, RemoveProperties DEF Expires
  <2> QED
    BY <1>1, <1>7, <2>2, <2>3 DEF Expires
<1>8. CASE AttachesPending
  <2>1. cur \in 1..Len(pending) /\ pending[cur] \in PendingTexts
    BY <1>8, ElementTypes DEF AttachesPending
  <2>2. Len(pending') = Len(pending) - 1
    BY <1>8, <2>1, RecordTypes, RemoveProperties DEF AttachesPending
  <2>3. Len(jsonl') = Len(jsonl) + 1 /\ handled' = handled
    BY <1>6, <1>8, <2>1 DEF AttachesPending
  <2> QED
    BY <1>1, <1>8, <2>2, <2>3 DEF AttachesPending
<1>9. ASSUME reading # <<>> PROVE Len(reading) = 1 /\ reading[1] \in PendingTexts
  BY <1>9, ElementTypes
<1>10. CASE AttachesReading
  <2>1. Len(jsonl') = Len(jsonl) + 1 /\ handled' = handled
    BY <1>6, <1>9, <1>10 DEF AttachesReading
  <2>2. Len(reading) = 1 /\ Len(reading') = 0
    BY <1>9, <1>10 DEF AttachesReading
  <2> QED
    BY <1>1, <1>10, <2>1, <2>2 DEF AttachesReading
<1>11. CASE Waits
  <2>1. Examined(reading[1]) \in PendingTexts
    BY <1>9, <1>11, ExaminedProperties DEF Waits
  <2>2. Len(pending') = Len(pending) + 1
    BY <1>11, <2>1, RecordTypes, AppendProperties DEF Waits
  <2>3. Len(reading) = 1 /\ Len(reading') = 0
    BY <1>9, <1>11 DEF Waits
  <2> QED
    BY <1>1, <1>11, <2>2, <2>3 DEF Waits
<1> QED
  BY <1>2, <1>3, <1>4, <1>5, <1>7, <1>8, <1>10, <1>11 DEF StepKind

\* What is empty when the collector has closed the buffer stays empty.
LEMMA ClosedStaysEmpty ==
  ASSUME TypeOK, SectionOK, StepKind, collector = "closed", packets = <<>>, pending = <<>>
  PROVE  packets' = <<>> /\ pending' = <<>>
<1>1. DOMAIN packets = {} /\ DOMAIN pending = {}
  BY EmptyLength, RecordTypes
<1>2. stage # "append" \/ arriving = <<>>
  BY DEF SectionOK
<1>3. ~AttachesPending /\ ~AttachesReading /\ ~Waits /\ ~Hints /\ ~Expires /\ ~Writes /\ ~Accepts
  BY <1>1, <1>2 DEF AttachesPending, AttachesReading, Waits, Hints, Expires, Writes, Accepts
<1> QED
  BY <1>3 DEF StepKind, Quiet, Takes, Logs, TextsUnchanged, PacketsUnchanged

LEMMA DrainStep ==
  ASSUME TypeOK, SectionOK, DrainOK, StepKind, [Next]_vars
  PROVE  DrainOK'
<1> DEFINE First == holder = "Close" /\ stage \in {"write", "expire"} => cur = 1
           Written == holder = "Close" /\ stage = "expire" => packets = <<>>
           Drained == collector = "closed" => packets = <<>> /\ pending = <<>>
<1>1. First /\ Written /\ Drained
  BY DEF DrainOK
<1> HIDE DEF Drained
<1>2. /\ Len(packets) \in Nat /\ Len(pending) \in Nat /\ cur \in Nat \ {0}
      /\ packets = <<>> <=> Len(packets) = 0
      /\ pending = <<>> <=> Len(pending) = 0
  BY RecordTypes, EmptyLength, LenProperties DEF TypeOK, ControlTypes
<1>3. First' /\ Written'
  <2> USE <1>1 DEF SectionOK, goroutines, section, arguments, outputs, BufferUnchanged
  <2>1. CASE \E w \in WireInputs : StartEnqueue(w)
    BY <2>1 DEF StartEnqueue
  <2>2. CASE LockEnqueue
    BY <2>2 DEF LockEnqueue, LockAndFlush
  <2>3. CASE \E p \in AnyText : HandlePlaintext(p)
    BY <2>3 DEF HandlePlaintext, LockAndFlush
  <2>4. CASE \E p \in AnyText : ExportAtOnce(p)
    BY <2>4 DEF ExportAtOnce
  <2>5. CASE StartClose \/ ReceiveTick \/ FlushLoopReturn \/ Tick
    BY <2>5 DEF StartClose, ReceiveTick, FlushLoopReturn, Tick
  <2>6. CASE LockClose
    BY <2>6 DEF LockClose
  <2>7. CASE LockFlush
    BY <2>7 DEF LockFlush, LockAndFlush
  <2>8. CASE MatchPending
    BY <2>8 DEF MatchPending, Advance
  <2>9. CASE MatchDone
    BY <2>9 DEF MatchDone, Goto
  <2>10. CASE WritePacket
    BY <2>10 DEF WritePacket, WriteAt, Advance, Due
  <2>11. CASE WriteDone
    BY <1>2, <2>11 DEF WriteDone, Goto
  <2>12. CASE ExpirePending
    BY <2>12 DEF ExpirePending, Advance, Due
  <2>13. CASE ExpireDone
    BY <2>13 DEF ExpireDone, Goto, Unlock
  <2>14. CASE AppendPacket \/ Evict
    BY <2>14 DEF AppendPacket, Evict, Goto, WriteAt
  <2>15. CASE EnqueueReturn \/ AnnotateOrWait
    BY <2>15 DEF EnqueueReturn, AnnotateOrWait, Unlock
  <2>16. CASE UNCHANGED vars
    BY <2>16 DEF vars
  <2> QED
    BY <2>1, <2>2, <2>3, <2>4, <2>5, <2>6, <2>7, <2>8, <2>9, <2>10, <2>11, <2>12, <2>13,
       <2>14, <2>15, <2>16, PlaintextArrives DEF Next, CriticalSection
<1>4. ASSUME collector' = "closed", collector # "closed"
      PROVE  packets' = <<>> /\ pending' = <<>>
  <2>1. ExpireDone /\ holder = "Close"
    BY <1>4, PlaintextArrives
    DEF Next, vars, CriticalSection, goroutines, StartEnqueue, LockEnqueue, HandlePlaintext,
        ExportAtOnce, StartClose, LockClose, ReceiveTick, LockFlush, FlushLoopReturn,
        MatchPending, MatchDone, WritePacket, WriteDone, ExpirePending, ExpireDone,
        AppendPacket, Evict, EnqueueReturn, AnnotateOrWait, Tick
  <2>2. stage = "expire" /\ cur > Len(pending) /\ UNCHANGED <<packets, pending>>
    BY <2>1 DEF ExpireDone, BufferUnchanged
  <2> QED
    BY <1>1, <1>2, <2>1, <2>2
<1>5. Drained'
  <2>1. CASE collector = "closed"
    BY <1>1, <2>1, ClosedStaysEmpty DEF Drained
  <2>2. CASE collector # "closed"
    BY <1>4, <2>2 DEF Drained
  <2> QED
    BY <2>1, <2>2
<1>6. Len(jsonl') + Len(pending') + Len(reading') = handled'
  BY TextsCounted DEF DrainOK
<1> QED
  BY <1>3, <1>5, <1>6 DEF DrainOK, Drained

-----------------------------------------------------------------------------
(* The invariant, and what it says.                                         *)

BufferInv == TypeOK /\ HolderOK /\ OrderInv /\ RecordsInv

LEMMA InitRecords == Init => RecordsInv
<1> SUFFICES ASSUME Init PROVE RecordsInv
  OBVIOUS
<1>1. Journal = <<>>
  <2>1. pcap = <<>> /\ packets = <<>>
    BY DEF Init
  <2>2. <<>> \o <<>> = <<>>
    BY EmptySeq, ConcatEmptySeq
  <2> QED
    BY <2>1, <2>2 DEF Journal
<1>2. DOMAIN <<>> = {} /\ Len(<<>>) = 0
  OBVIOUS
<1>3. SectionOK /\ DrainOK
  BY <1>2 DEF Init, SectionOK, DrainOK
<1>4. PlacesOK
  <2>1. Ids(jsonl) = {} /\ Ids(pending) = {} /\ Ids(reading) = {} /\ 1..handled = {}
    BY IdsOfShort DEF Init
  <2>2. Unique(jsonl) /\ Unique(pending)
    BY <1>2 DEF Init, Unique
  <2> QED
    BY <2>1, <2>2 DEF PlacesOK
<1>5. MarksOK
  BY <1>1, <1>2 DEF Init, MarksOK, MarksAgree
<1>6. EndsOK
  BY <1>2 DEF Init, EndsOK
<1> QED
  BY <1>3, <1>4, <1>5, <1>6 DEF RecordsInv

LEMMA BufferStep ==
  ASSUME BufferInv, [Next]_vars
  PROVE  BufferInv'
<1>1. TypeOK /\ HolderOK /\ OrderInv /\ RecordsInv
  BY DEF BufferInv
<1>2. SectionOK /\ PlacesOK /\ MarksOK /\ EndsOK /\ DrainOK
  BY <1>1 DEF RecordsInv
<1>3. StepKind
  BY <1>1, <1>2, StepKinds
<1>4. TypeOK' /\ HolderOK'
  BY <1>1, TypeStep
<1>5. OrderInv'
  BY <1>1, OrderStep, PassedStep DEF OrderInv
<1>6. SectionOK' /\ PlacesOK' /\ MarksOK' /\ EndsOK' /\ DrainOK'
  BY <1>1, <1>2, <1>3, SectionStep, PlacesStep, MarksStep, EndsStep, DrainStep
<1> QED
  BY <1>4, <1>5, <1>6 DEF BufferInv, RecordsInv

LEMMA BufferInvariance == Spec => []BufferInv
<1>1. Init => BufferInv
  BY InitTypes, InitOrder, InitRecords DEF BufferInv
<1>2. BufferInv /\ [Next]_vars => BufferInv'
  BY BufferStep
<1> QED
  BY <1>1, <1>2, PTL DEF Spec

\* How many records of a sequence have an id.
LEMMA HoldsByIds ==
  ASSUME NEW s, Unique(s), NEW id
  PROVE  /\ id \in Ids(s) => \E i : Holds(s, id) = {i}
         /\ id \notin Ids(s) => Holds(s, id) = {}
<1>1. ASSUME id \in Ids(s) PROVE \E i : Holds(s, id) = {i}
  <2>1. PICK i \in DOMAIN s : s[i].id = id
    BY <1>1 DEF Ids
  <2>2. \A j \in DOMAIN s : s[j].id = id => j = i
    BY <2>1 DEF Unique
  <2>3. Holds(s, id) = {i}
    BY <2>1, <2>2 DEF Holds
  <2> QED
    BY <2>3
<1>2. id \notin Ids(s) => Holds(s, id) = {}
  BY DEF Ids, Holds
<1> QED
  BY <1>1, <1>2

\* Every plaintext is exported exactly once or still waits to be, whatever the
\* window, the limit and the arrivals, and whichever loop runs when.
THEOREM ExportInvariance == Spec => []PlaintextsExportedOnce
<1>1. ASSUME BufferInv, NEW id \in 1..handled PROVE IsSingleton(Places(id))
  <2>1. PlacesOK
    BY <1>1 DEF BufferInv, RecordsInv
  <2>2. Unique(jsonl) /\ Unique(pending) /\ Unique(reading)
    <3>1. TypeOK
      BY <1>1 DEF BufferInv
    <3>2. \A i, j \in DOMAIN reading : i = j
      BY <3>1, RecordTypes, LenProperties
    <3> QED
      BY <2>1, <3>2 DEF PlacesOK, Unique
  <2> DEFINE J == Holds(jsonl, id)
             P == Holds(pending, id)
             R == Holds(reading, id)
  <2>3. \/ (\E i : J = {i}) /\ P = {} /\ R = {}
        \/ J = {} /\ (\E i : P = {i}) /\ R = {}
        \/ J = {} /\ P = {} /\ \E i : R = {i}
    <3>1. \/ id \in Ids(jsonl) /\ id \notin Ids(pending) /\ id \notin Ids(reading)
          \/ id \notin Ids(jsonl) /\ id \in Ids(pending) /\ id \notin Ids(reading)
          \/ id \notin Ids(jsonl) /\ id \notin Ids(pending) /\ id \in Ids(reading)
      BY <2>1 DEF PlacesOK
    <3> QED
      BY <2>2, <3>1, HoldsByIds
  <2> HIDE DEF J, P, R
  <2>4. ASSUME NEW a PROVE {a} \X {} = {}
    OBVIOUS
  <2>5. ASSUME NEW a, NEW i PROVE {a} \X {i} = {<<a, i>>}
    OBVIOUS
  <2>6. \E x : {"jsonl"} \X J \cup {"pending"} \X P \cup {"reading"} \X R = {x}
    <3>1. CASE (\E i : J = {i}) /\ P = {} /\ R = {}
      <4>1. PICK i : J = {i}
        BY <3>1
      <4>2. {"jsonl"} \X J \cup {"pending"} \X P \cup {"reading"} \X R = {<<"jsonl", i>>}
        BY <2>4, <2>5, <3>1, <4>1
      <4> QED
        BY <4>2
    <3>2. CASE J = {} /\ (\E i : P = {i}) /\ R = {}
      <4>1. PICK i : P = {i}
        BY <3>2
      <4>2. {"jsonl"} \X J \cup {"pending"} \X P \cup {"reading"} \X R = {<<"pending", i>>}
        BY <2>4, <2>5, <3>2, <4>1
      <4> QED
        BY <4>2
    <3>3. CASE J = {} /\ P = {} /\ \E i : R = {i}
      <4>1. PICK i : R = {i}
        BY <3>3
      <4>2. {"jsonl"} \X J \cup {"pending"} \X P \cup {"reading"} \X R = {<<"reading", i>>}
        BY <2>4, <2>5, <3>3, <4>1
      <4> QED
        BY <4>2
    <3> QED
      BY <2>3, <3>1, <3>2, <3>3
  <2> QED
    BY <2>6 DEF Places, IsSingleton, J, P, R
<1>2. BufferInv => PlaintextsExportedOnce
  BY <1>1 DEF PlaintextsExportedOnce
<1> QED
  BY <1>2, BufferInvariance, PTL

\* A record says PcapAnnotated exactly when one packet of the capture carries its
\* PacketID, and it then has that packet's endpoints, for every input and limit.
THEOREM RecordsInvariance == Spec => []RecordsAgreeWithPcap
<1>1. ASSUME BufferInv PROVE RecordsAgreeWithPcap
  <2>1. MarksAgree(Journal, jsonl) /\ Unique(jsonl)
    BY <1>1 DEF BufferInv, RecordsInv, MarksOK, PlacesOK
  <2>2. \A r \in DOMAIN jsonl : jsonl[r].id # NoAnnotation
    <3>1. Ids(jsonl) \subseteq 1..handled
      BY <1>1 DEF BufferInv, RecordsInv, PlacesOK
    <3>2. 0 \notin 1..handled
      OBVIOUS
    <3> QED
      BY <3>1, <3>2 DEF Ids, NoAnnotation
  <2>3. ASSUME NEW r \in DOMAIN jsonl, jsonl[r].annotated
        PROVE  \E i \in DOMAIN Journal :
                 /\ Annotated(jsonl[r].id) = {i}
                 /\ HasTuple(Journal[i].wire) =>
                      <<jsonl[r].from, jsonl[r].to>> = Tuple(Journal[i].wire)
    <3>1. PICK i \in DOMAIN Journal : Explains(Journal[i], jsonl[r])
      BY <2>1, <2>3 DEF MarksAgree
    <3>2. Journal[i].ann = jsonl[r].id
      BY <3>1 DEF Explains
    <3>3. \A j \in DOMAIN Journal : Journal[j].ann = jsonl[r].id => j = i
      BY <2>1, <2>2, <3>2 DEF MarksAgree
    <3>4. Annotated(jsonl[r].id) = {i}
      BY <3>2, <3>3 DEF Annotated
    <3> QED
      BY <3>1, <3>4 DEF Explains
  <2>4. ASSUME NEW i \in DOMAIN Journal, Journal[i].ann # NoAnnotation
        PROVE  \E q \in DOMAIN jsonl : jsonl[q].id = Journal[i].ann /\ jsonl[q].annotated
    BY <2>1, <2>4 DEF MarksAgree, Explains
  <2>5. ASSUME NEW r \in DOMAIN jsonl, ~jsonl[r].annotated
        PROVE  Annotated(jsonl[r].id) = {}
    <3> SUFFICES ASSUME NEW i \in DOMAIN Journal, Journal[i].ann = jsonl[r].id
                 PROVE  FALSE
      BY DEF Annotated
    <3>1. PICK q \in DOMAIN jsonl : jsonl[q].id = Journal[i].ann /\ jsonl[q].annotated
      BY <2>2, <2>4
    <3> QED
      BY <2>1, <2>5, <3>1 DEF Unique
  <2>6. ASSUME NEW i \in DOMAIN Journal, Journal[i].ann # NoAnnotation
        PROVE  Holds(jsonl, Journal[i].ann) # {}
    BY <2>4, <2>6 DEF Holds
  <2> QED
    BY <2>3, <2>5, <2>6 DEF RecordsAgreeWithPcap
<1> QED
  BY <1>1, BufferInvariance, PTL

\* A verified tuple is exported unaltered, in network direction, and nothing that
\* was not verified gets endpoints, for every plaintext the agents may send.
THEOREM EndpointsInvariance == Spec => []VerifiedEndpointsKept
<1>1. BufferInv => VerifiedEndpointsKept
  BY DEF BufferInv, RecordsInv, EndsOK, HonestRecord, NetworkEnds, VerifiedEndpointsKept
<1> QED
  BY <1>1, BufferInvariance, PTL

\* After Close both files are complete, whatever the flush loop was doing.
THEOREM DrainInvariance == Spec => []CloseDrains
<1>1. ASSUME BufferInv, collector = "closed"
      PROVE  /\ packets = <<>> /\ pending = <<>> /\ arriving = <<>> /\ reading = <<>>
             /\ Len(pcap) = received /\ Len(jsonl) = handled
  <2>1. TypeOK /\ NumbersOK /\ SectionOK /\ DrainOK
    BY <1>1 DEF BufferInv, OrderInv, RecordsInv
  <2>2. packets = <<>> /\ pending = <<>> /\ arriving = <<>> /\ reading = <<>>
    BY <1>1, <2>1 DEF DrainOK, SectionOK
  <2>3. Len(packets) = 0 /\ Len(pending) = 0 /\ Len(reading) = 0
    BY <2>2
  <2>4. Len(pcap) \in Nat /\ Len(jsonl) \in Nat
    BY <2>1, RecordTypes, LenProperties
  <2>5. received = Len(pcap) + Len(packets) /\ Len(jsonl) + Len(pending) + Len(reading) = handled
    BY <2>1 DEF NumbersOK, DrainOK
  <2> QED
    BY <2>2, <2>3, <2>4, <2>5
<1>2. BufferInv => CloseDrains
  BY <1>1 DEF CloseDrains
<1> QED
  BY <1>2, BufferInvariance, PTL

\* The expiry of a competing packet never makes an ambiguous plaintext
\* attributable to the other: only a plaintext that is not ambiguous is matched,
\* and examining one again never clears the mark.
THEOREM AmbiguityInvariance == Spec => AmbiguityIsFinal
<1> DEFINE Final ==
      \A i \in DOMAIN pending :
        pending[i].ambiguous =>
          \A r \in DOMAIN jsonl' : jsonl'[r].id = pending[i].id => ~jsonl'[r].annotated
<1>1. ASSUME BufferInv, [Next]_vars PROVE Final
  <2> SUFFICES ASSUME NEW i \in DOMAIN pending, pending[i].ambiguous,
                      NEW r \in DOMAIN jsonl', jsonl'[r].id = pending[i].id,
                      jsonl'[r].annotated
               PROVE  FALSE
    OBVIOUS
  <2>1. TypeOK /\ PlacesOK /\ StepKind
    BY <1>1, StepKinds DEF BufferInv, RecordsInv
  <2>2. pending[i] \in PendingTexts /\ pending[i].id \in Ids(pending)
    BY <2>1, ElementTypes DEF Ids
  <2>3. /\ pending[i].id \notin Ids(jsonl) /\ pending[i].id \notin Ids(reading)
        /\ pending[i].id # handled + 1
    BY <2>1, <2>2, RecordTypes DEF PlacesOK
  <2>4. jsonl' # jsonl
    BY <2>3 DEF Ids
  <2>5. ASSUME NEW e \in ExportedTexts, jsonl' = Append(jsonl, e)
        PROVE  e.id = pending[i].id /\ e.annotated
    <3>1. /\ DOMAIN jsonl = 1..Len(jsonl) /\ Len(jsonl) \in Nat
          /\ DOMAIN jsonl' = 1..(Len(jsonl) + 1)
          /\ \A q \in 1..Len(jsonl) : jsonl'[q] = jsonl[q]
          /\ jsonl'[Len(jsonl) + 1] = e
      BY <2>1, <2>5, RecordTypes, AppendProperties, LenProperties
    <3>2. CASE r \in 1..Len(jsonl)
      BY <2>3, <3>1, <3>2 DEF Ids
    <3>3. CASE r = Len(jsonl) + 1
      BY <3>1, <3>3
    <3> QED
      BY <3>1, <3>2, <3>3
  <2>6. CASE Quiet \/ Accepts \/ Writes \/ Hints \/ Waits \/ \E p \in AnyText : Takes(p)
    BY <2>4, <2>6 DEF Quiet, Accepts, Writes, Hints, Waits, Takes, TextsUnchanged
  <2>7. CASE \E p \in TextInputs : Logs(p)
    <3>1. PICK p \in TextInputs : Logs(p)
      BY <2>7
    <3>2. /\ ExportPrepared(NewPending(p)) \in ExportedTexts
          /\ ~ExportPrepared(NewPending(p)).annotated
      BY <2>1, NewRecords, ExportProperties DEF AnyText
    <3> QED
      BY <2>5, <3>1, <3>2 DEF Logs
  <2>8. CASE Expires
    <3>1. /\ ExportUnmatched(pending[cur]) \in ExportedTexts
          /\ ~ExportUnmatched(pending[cur]).annotated
      BY <2>1, <2>8, ElementTypes, ExportProperties DEF Expires
    <3> QED
      BY <2>5, <2>8, <3>1 DEF Expires
  <2>9. ASSUME NEW pt \in PendingTexts, Attaches(pt)
        PROVE  pt.id = pending[i].id /\ ~pt.ambiguous
    <3>1. PICK k \in DOMAIN packets :
            LET e == ExportAnnotated(Examined(pt), packets[k])
            IN  /\ jsonl' = Append(jsonl, e) /\ e \in ExportedTexts /\ e.id = pt.id
                /\ Matches(k, Examined(pt))
      BY <2>1, <2>9, AttachesExports
    <3>2. pt.id = pending[i].id
      BY <2>5, <3>1
    <3>3. ~Examined(pt).ambiguous
      BY <3>1 DEF Matches
    <3>4. pt.ambiguous => Examined(pt).ambiguous
      BY DEF Examined, Enriched, PendingTexts
    <3> QED
      BY <3>2, <3>3, <3>4
  <2>10. CASE AttachesPending
    <3>1. cur \in DOMAIN pending /\ pending[cur] \in PendingTexts
      BY <2>1, <2>10, ElementTypes DEF AttachesPending
    <3>2. pending[cur].id = pending[i].id /\ ~pending[cur].ambiguous
      BY <2>9, <2>10, <3>1 DEF AttachesPending
    <3>3. cur = i
      BY <2>1, <3>1, <3>2 DEF PlacesOK, Unique
    <3> QED
      BY <3>2, <3>3
  <2>11. CASE AttachesReading
    <3>1. reading[1] \in PendingTexts /\ Ids(reading) = {reading[1].id}
      BY <2>1, <2>11, RecordTypes, IdsOfShort DEF AttachesReading
    <3>2. reading[1].id = pending[i].id
      BY <2>9, <2>11, <3>1 DEF AttachesReading
    <3> QED
      BY <2>3, <3>1, <3>2
  <2> QED
    BY <2>1, <2>6, <2>7, <2>8, <2>10, <2>11 DEF StepKind
<1>2. BufferInv /\ [Next]_vars => [Final]_vars
  BY <1>1
<1> QED
  BY <1>2, BufferInvariance, PTL DEF Spec, AmbiguityIsFinal

-----------------------------------------------------------------------------
(* Refinement of PcapJournal.                                               *)

Claims == [i \in DOMAIN Journal |-> Journal[i].ann]
ExportedIds == {jsonl[r].id : r \in DOMAIN jsonl}

LEMMA ClaimTypes ==
  ASSUME TypeOK
  PROVE  Claims \in Seq(Nat) /\ Len(Claims) = Len(Journal) /\ DOMAIN Claims = 1..Len(Journal)
<1>1. DOMAIN Journal = 1..Len(Journal) /\ Len(Journal) \in Nat
  BY JournalTypes
<1>2. ASSUME NEW i \in DOMAIN Journal PROVE Journal[i].ann \in Nat
  <2>1. Journal[i] \in BufferedPackets
    BY <1>1, JournalTypes, ElementOfSeq
  <2> QED
    BY <2>1 DEF BufferedPackets
<1>3. Claims \in Seq(Nat) /\ DOMAIN Claims = 1..Len(Journal)
  BY <1>1, <1>2 DEF Claims
<1> QED
  BY <1>1, <1>3, LenProperties

LEMMA AcceptClaims ==
  ASSUME TypeOK, SectionOK, Accepts
  PROVE  Claims' = Append(Claims, 0)
<1> DEFINE J == Journal
           K == Append(Journal, arriving[1])
           c == Claims
           d == [i \in DOMAIN K |-> K[i].ann]
           e == Append(c, 0)
<1>1. arriving[1] \in BufferedPackets /\ Journal' = K /\ arriving[1].ann = 0
  BY JournalAfterAccept DEF SectionOK, Accepts, NoAnnotation
<1>2. J \in Seq(BufferedPackets) /\ DOMAIN J = 1..Len(J) /\ Len(J) \in Nat
  BY JournalTypes
<1>3. /\ K \in Seq(BufferedPackets)
      /\ DOMAIN K = 1..(Len(J) + 1)
      /\ \A i \in 1..Len(J) : K[i] = J[i]
      /\ K[Len(J) + 1] = arriving[1]
  BY <1>1, <1>2, AppendProperties, LenProperties
<1>4. c \in Seq(Nat) /\ Len(c) = Len(J) /\ \A i \in 1..Len(J) : c[i] = J[i].ann
  BY <1>2, ClaimTypes DEF Claims
<1>5. /\ e \in Seq(Nat) /\ Len(e) = Len(J) + 1
      /\ \A i \in 1..Len(J) : e[i] = c[i]
      /\ e[Len(J) + 1] = 0
  BY <1>4, AppendProperties
<1>6. Claims' = d
  BY <1>1 DEF Claims
<1> HIDE DEF J, K, c, e
<1>7. DOMAIN d = 1..(Len(J) + 1)
  BY <1>3
<1>8. DOMAIN e = 1..(Len(J) + 1)
  BY <1>5, LenProperties
<1>9. ASSUME NEW i \in 1..(Len(J) + 1) PROVE d[i] = e[i]
  <2>1. CASE i \in 1..Len(J)
    BY <1>3, <1>4, <1>5, <2>1
  <2>2. CASE i = Len(J) + 1
    BY <1>1, <1>3, <1>5, <2>2
  <2> QED
    BY <1>2, <2>1, <2>2
<1>10. d \in Seq(Nat) /\ Len(d) = Len(J) + 1
  <2>1. \A i \in 1..(Len(J) + 1) : d[i] \in Nat
    BY <1>5, <1>8, <1>9, ElementOfSeq, LenProperties
  <2>2. d \in Seq(Nat)
    BY <1>2, <1>7, <2>1
  <2> QED
    BY <1>2, <1>7, <2>2, LenProperties
<1>11. d = e
  BY <1>5, <1>9, <1>10, SeqEqual
<1> QED
  BY <1>6, <1>11 DEF c, e

\* Where a plaintext goes to the JSONL, and to no packet.
LEMMA AppendedId ==
  ASSUME TypeOK, NEW r \in ExportedTexts, jsonl' = Append(jsonl, r)
  PROVE  ExportedIds' = ExportedIds \cup {r.id}
<1>1. Ids(Append(jsonl, r)) = Ids(jsonl) \cup {r.id}
  BY RecordTypes, IdsOfAppend
<1> QED
  BY <1>1 DEF ExportedIds, Ids

LEMMA PromiseStep ==
  ASSUME BufferInv, [Next]_vars
  PROVE  [Promise!Next]_(Promise!vars)
<1> USE DEF Promise!Next, Promise!vars
<1>1. TypeOK /\ SectionOK /\ PlacesOK /\ StepKind
  BY StepKinds DEF BufferInv, RecordsInv
<1>2. ASSUME UNCHANGED <<Journal, jsonl, handled>>, Len(pcap') = Len(pcap)
      PROVE  UNCHANGED Promise!vars
  BY <1>2
<1>3. CASE Quiet \/ Hints \/ Waits
  <2>1. UNCHANGED <<packets, pcap, jsonl, handled>>
    BY <1>3 DEF Quiet, Hints, Waits, TextsUnchanged, PacketsUnchanged
  <2> QED
    BY <1>2, <2>1 DEF Journal
<1>4. CASE Accepts
  <2>1. Promise!Accept
    BY <1>1, <1>4, AcceptClaims
    DEF Promise!Accept, Promise!Unclaimed, Claims, Accepts, TextsUnchanged
  <2> QED
    BY <2>1
<1>5. CASE Writes
  <2>1. Journal' = Journal /\ Len(pcap') = Len(pcap) + 1 /\ UNCHANGED <<jsonl, handled>>
    BY <1>1, <1>5, JournalAfterWrite DEF Writes, TextsUnchanged
  <2>2. Len(pcap) < Len(Claims)
    <3>1. Len(packets) > 0 /\ Len(pcap) \in Nat /\ Len(packets) \in Nat
      BY <1>1, <1>5, ElementTypes DEF Writes
    <3> QED
      BY <1>1, <3>1, JournalTypes, ClaimTypes
  <2>3. Promise!Write
    BY <2>1, <2>2 DEF Promise!Write, Claims
  <2> QED
    BY <2>3
<1>6. CASE \E p \in AnyText : Takes(p)
  <2>1. handled' = handled + 1 /\ UNCHANGED <<packets, pcap, jsonl>>
    BY <1>6 DEF Takes, PacketsUnchanged
  <2>2. Promise!HandOver
    BY <2>1 DEF Promise!HandOver, Journal
  <2> QED
    BY <2>2
<1>7. CASE \E p \in TextInputs : Logs(p)
  <2>1. PICK p \in TextInputs : Logs(p)
    BY <1>7
  <2> DEFINE r == ExportPrepared(NewPending(p))
  <2>2. r \in ExportedTexts /\ r.id = handled + 1
    BY <1>1, NewRecords, ExportProperties DEF AnyText
  <2>3. jsonl' = Append(jsonl, r) /\ handled' = handled + 1 /\ UNCHANGED <<packets, pcap>>
    BY <2>1 DEF Logs, PacketsUnchanged
  <2> HIDE DEF r
  <2>4. ExportedIds' = ExportedIds \cup {handled + 1}
    BY <1>1, <2>2, <2>3, AppendedId
  <2>5. Promise!Log
    BY <2>3, <2>4 DEF Promise!Log, Journal, ExportedIds
  <2> QED
    BY <2>5
<1>8. CASE Expires
  <2> DEFINE r == ExportUnmatched(pending[cur])
             id == pending[cur].id
  <2>1. r \in ExportedTexts /\ r.id = id /\ id \in Ids(pending)
    BY <1>1, <1>8, ElementTypes, ExportProperties DEF Expires, Ids
  <2>2. id \in (1..handled) \ ExportedIds
    BY <1>1, <2>1 DEF PlacesOK, Ids, ExportedIds
  <2>3. jsonl' = Append(jsonl, r) /\ UNCHANGED <<packets, pcap, handled>>
    BY <1>8 DEF Expires, PacketsUnchanged
  <2> HIDE DEF r, id
  <2>4. ExportedIds' = ExportedIds \cup {id}
    BY <1>1, <2>1, <2>3, AppendedId
  <2>5. Promise!ExportAlone(id)
    BY <2>3, <2>4 DEF Promise!ExportAlone, Journal, ExportedIds
  <2>6. Promise!Next
    BY <2>2, <2>5 DEF ExportedIds, Promise!ExportAlone, Promise!ExportWithPacket
  <2> QED
    BY <2>6
<1>9. ASSUME NEW pt \in PendingTexts, Attaches(pt), pt.id \in (1..handled) \ ExportedIds
      PROVE  Promise!Next
  <2>1. PICK k \in DOMAIN Journal, r \in ExportedTexts :
          /\ k > Len(pcap) /\ Journal[k].ann = NoAnnotation
          /\ Journal' = [Journal EXCEPT ![k] = [Journal[k] EXCEPT !.ann = pt.id]]
          /\ jsonl' = Append(jsonl, r) /\ r.id = pt.id
          /\ UNCHANGED pcap
    BY <1>1, <1>9, JournalAfterAttach
  <2>2. ExportedIds' = ExportedIds \cup {pt.id} /\ handled' = handled
    BY <1>1, <1>9, <2>1, AppendedId DEF Attaches
  <2>3. Claims' = [Claims EXCEPT ![k] = pt.id]
    <3>1. Journal[k] \in BufferedPackets
      BY <1>1, JournalTypes, ElementOfSeq
    <3>2. [Journal[k] EXCEPT !.ann = pt.id].ann = pt.id
      BY <3>1 DEF BufferedPackets
    <3>3. DOMAIN Journal' = DOMAIN Journal
      BY <2>1
    <3>4. \A i \in DOMAIN Journal : Journal'[i].ann = IF i = k THEN pt.id ELSE Journal[i].ann
      BY <2>1, <3>2
    <3> QED
      BY <3>3, <3>4 DEF Claims
  <2>4. Claims[k] = 0 /\ k \in (Len(pcap) + 1)..Len(Claims)
    <3>1. k \in 1..Len(Journal) /\ Len(Claims) = Len(Journal) /\ Len(pcap) \in Nat
      BY <1>1, JournalTypes, ClaimTypes, RecordTypes, LenProperties
    <3> QED
      BY <2>1, <3>1 DEF Claims, NoAnnotation
  <2>5. Promise!ExportWithPacket(pt.id, k)
    BY <2>1, <2>2, <2>3, <2>4
    DEF Promise!ExportWithPacket, Promise!Unclaimed, Claims, ExportedIds
  <2> QED
    BY <1>9, <2>4, <2>5 DEF Claims, ExportedIds
<1>10. CASE AttachesPending
  <2>1. pending[cur] \in PendingTexts /\ pending[cur].id \in Ids(pending)
    BY <1>1, <1>10, ElementTypes DEF AttachesPending, Ids
  <2>2. pending[cur].id \in (1..handled) \ ExportedIds
    BY <1>1, <2>1 DEF PlacesOK, Ids, ExportedIds
  <2> QED
    BY <1>9, <1>10, <2>1, <2>2 DEF AttachesPending
<1>11. CASE AttachesReading
  <2>1. reading[1] \in PendingTexts /\ Ids(reading) = {reading[1].id}
    BY <1>1, <1>11, RecordTypes, IdsOfShort DEF AttachesReading
  <2>2. reading[1].id \in (1..handled) \ ExportedIds
    BY <1>1, <2>1 DEF PlacesOK, Ids, ExportedIds
  <2> QED
    BY <1>9, <1>11, <2>1, <2>2 DEF AttachesReading
<1> QED
  BY <1>1, <1>3, <1>4, <1>5, <1>6, <1>7, <1>8, <1>10, <1>11 DEF StepKind

\* The buffer implements PcapJournal: packets reach the file once and in order,
\* a plaintext claims one packet at most, unwritten and unclaimed, for good.
THEOREM PromiseRefinement == Spec => KeepsPromise
<1>1. Init => Promise!Init
  <2> SUFFICES ASSUME Init PROVE Promise!Init
    OBVIOUS
  <2>1. Journal = <<>>
    BY ConcatEmptySeq, EmptySeq DEF Init, Journal
  <2>2. DOMAIN Journal = {} /\ DOMAIN jsonl = {} /\ Len(pcap) = 0
    BY <2>1 DEF Init
  <2>3. Claims = <<>> /\ ExportedIds = {}
    BY <2>2 DEF Claims, ExportedIds
  <2> QED
    BY <2>2, <2>3 DEF Init, Promise!Init, Claims, ExportedIds
<1>2. BufferInv /\ [Next]_vars => [Promise!Next]_(Promise!vars)
  BY PromiseStep
<1> QED
  BY <1>1, <1>2, BufferInvariance, PTL DEF Spec, KeepsPromise, Promise!Spec
=============================================================================
