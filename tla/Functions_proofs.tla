--------------------------- MODULE Functions_proofs ---------------------------
(***************************************************************************)
(* What the scores of WireMatch guarantee for every packet, plaintext and  *)
(* configuration of the filters, TlsProfile for every profile,             *)
(* PlaintextDisplay for payloads of every depth and MetricAlign for every  *)
(* answer: theorems about the operators, and what follows for the inputs   *)
(* that MCFunctions enumerates.                                            *)
(***************************************************************************)
EXTENDS MCFunctions, WellFoundedInduction, SequenceTheorems, TLAPS

\* Packets and plaintexts with any addresses and any names: the theorems are
\* about these, WirePackets and Plaintexts among them.
PacketsOver(Addrs, Names) ==
  [src : Addrs, sport : Ports, dst : Addrs, dport : Ports, time : Nat \cup {NoTime},
   plen : Nat \cup {NotTCP}, pod : Names]

TextsOver(Addrs, Names) ==
  [src : Addrs, sport : Ports, dst : Addrs, dport : Ports, dir : Names,
   time : Nat \cup {NoTime}, len : Nat, tls : Names, kernel : BOOLEAN]

-----------------------------------------------------------------------------
(* The tiers.                                                               *)

\* A candidate is at the pod's endpoint and, when the peer's address is known, at
\* that address: compatible endpoints leave no room for another.
LEMMA CompatibleTouches ==
  ASSUME NEW q, NEW r, r.sport \in Ports, r.dport \in Ports, EndpointsCompatible(q, r)
  PROVE  /\ PodEndpoint(r) # {} => TouchesPod(q, r)
         /\ PeerIP(r) \subseteq {q.src, q.dst}
<1>1. PICK near, far : /\ \/ near = Source(q) /\ far = Destination(q)
                          \/ near = Destination(q) /\ far = Source(q)
                       /\ EndpointAgrees(Source(r), near) /\ EndpointAgrees(Destination(r), far)
  <2>1. CASE r.dir = "read"
    <3>1. /\ EndpointAgrees(Source(r), Destination(q))
          /\ EndpointAgrees(Destination(r), Source(q))
      BY <2>1 DEF EndpointsCompatible
    <3> QED
      BY <3>1
  <2>2. CASE r.dir # "read"
    <3>1. /\ EndpointAgrees(Source(r), Source(q))
          /\ EndpointAgrees(Destination(r), Destination(q))
      BY <2>2 DEF EndpointsCompatible
    <3> QED
      BY <3>1
  <2> QED
    BY <2>1, <2>2
<1>2. {near[1], far[1]} = {q.src, q.dst}
  BY <1>1 DEF Source, Destination
<1>3. /\ Known(r.src) => r.src = near[1] /\ (r.sport > 0 => near[2] = r.sport)
      /\ Known(r.dst) => r.dst = far[1] /\ (r.dport > 0 => far[2] = r.dport)
  BY <1>1 DEF EndpointAgrees, Source, Destination
<1>4. /\ near = <<near[1], near[2]>> /\ far = <<far[1], far[2]>>
  BY <1>1 DEF Source, Destination
<1>5. PodEndpoint(r) # {} => TouchesPod(q, r)
  <2>1. CASE Known(r.src) /\ r.sport > 0
    <3>1. Source(r) = near
      BY <1>3, <1>4, <2>1 DEF Source
    <3> QED
      BY <1>1, <2>1, <3>1 DEF TouchesPod, PodEndpoint
  <2>2. CASE ~(Known(r.src) /\ r.sport > 0) /\ Known(r.dst) /\ r.dport > 0
    <3>1. Destination(r) = far
      BY <1>3, <1>4, <2>2 DEF Destination
    <3> QED
      BY <1>1, <2>2, <3>1 DEF TouchesPod, PodEndpoint
  <2> QED
    BY <2>1, <2>2 DEF PodEndpoint
<1>6. PeerIP(r) \subseteq {q.src, q.dst}
  BY <1>2, <1>3 DEF PeerIP
<1> QED
  BY <1>5, <1>6

\* The tier does not depend on how the filters score a packet, only on whether there
\* are any: f stands for what they give it.
LEMMA TierWithFilters ==
  ASSUME NEW q, NEW r, r.sport \in Ports, r.dport \in Ports, EndpointsCompatible(q, r),
         NEW active \in BOOLEAN,
         NEW f, f = NoMatch \/ (active /\ f \in FilterBase..(FilterBase + 2)),
         NEW base, base # NoMatch, NEW min,
         base = IF HasTuple(r) THEN StrictScore(q, r)
                ELSE IF RemoteScore(q, r) # NoMatch THEN RemoteScore(q, r)
                ELSE IF LooseScore(q, r) # NoMatch THEN LooseScore(q, r)
                ELSE f,
         min = IF HasTuple(r) THEN StrictBase
               ELSE IF PodEndpoint(r) # {}
                    THEN (IF PeerIP(r) # {} THEN RemoteBase ELSE LooseBase)
               ELSE IF active THEN FilterBase ELSE LooseBase
  PROVE  base - min \in 0..DirectionBonus
<1> USE DEF NoMatch, StrictBase, RemoteBase, LooseBase, FilterBase, DirectionBonus
<1>1. CASE HasTuple(r)
  BY <1>1 DEF StrictScore
<1>2. CASE ~HasTuple(r) /\ PodEndpoint(r) # {} /\ PeerIP(r) # {}
  <2>1. RemoteScore(q, r) \in {RemoteBase, RemoteBase + DirectionBonus}
    BY <1>2, CompatibleTouches DEF RemoteScore, WithDirection
  <2> QED
    BY <1>2, <2>1
<1>3. CASE ~HasTuple(r) /\ PodEndpoint(r) # {} /\ PeerIP(r) = {}
  <2>1. RemoteScore(q, r) = NoMatch
    BY <1>3 DEF RemoteScore
  <2>2. LooseScore(q, r) \in {LooseBase, LooseBase + DirectionBonus}
    BY <1>3, CompatibleTouches DEF LooseScore, WithDirection
  <2> QED
    BY <1>3, <2>1, <2>2
<1>4. CASE ~HasTuple(r) /\ PodEndpoint(r) = {}
  <2>1. RemoteScore(q, r) = NoMatch /\ LooseScore(q, r) = NoMatch
    BY <1>4 DEF RemoteScore, LooseScore, TouchesPod
  <2> QED
    BY <1>4, <2>1
<1> QED
  BY <1>1, <1>2, <1>3, <1>4

\* Every candidate of a plaintext has the tier that minAnnotationScore expects of
\* it: only the bonus for the direction, or the filters' own, separates base scores.
THEOREM TierOfPlaintext ==
  ASSUME NEW q, NEW r, r.sport \in Ports, r.dport \in Ports,
         EndpointsCompatible(q, r), BaseScore(q, r) # NoMatch
  PROVE  BaseScore(q, r) - MinScore(r) \in 0..DirectionBonus
<1> DEFINE active == FiltersActive
           f      == FilterScore(q)
           base   == BaseScore(q, r)
           min    == MinScore(r)
<1>3. /\ base # NoMatch
      /\ base = IF HasTuple(r) THEN StrictScore(q, r)
                ELSE IF RemoteScore(q, r) # NoMatch THEN RemoteScore(q, r)
                ELSE IF LooseScore(q, r) # NoMatch THEN LooseScore(q, r)
                ELSE f
      /\ min = IF HasTuple(r) THEN StrictBase
               ELSE IF PodEndpoint(r) # {}
                    THEN (IF PeerIP(r) # {} THEN RemoteBase ELSE LooseBase)
               ELSE IF active THEN FilterBase ELSE LooseBase
  BY DEF BaseScore, MinScore
<1>1. active \in BOOLEAN
  BY DEF FiltersActive
<1>2. f = NoMatch \/ (active /\ f \in FilterBase..(FilterBase + 2))
  <2>1. CASE MatchesFilters(q)
    <3>1. active
      BY <2>1 DEF MatchesFilters
    <3>2. f \in FilterBase..(FilterBase + 2)
      BY <2>1 DEF FilterScore, FilterBase
    <3> QED
      BY <3>1, <3>2
  <2>2. CASE ~MatchesFilters(q)
    BY <2>2 DEF FilterScore
  <2> QED
    BY <2>1, <2>2
<1> HIDE DEF active, f, base, min
<1>5. base - min \in 0..DirectionBonus
  BY <1>1, <1>2, <1>3, TierWithFilters
<1> QED
  BY <1>5 DEF base, min

-----------------------------------------------------------------------------
(* What the capture filters add.                                            *)

\* A port is a number: absent, zero or usable.
LEMMA PortValues ==
  ASSUME NEW n \in Ports
  PROVE  n \in Int /\ NoPort <= n /\ n <= MaxPort /\ (n > 0 \/ n = 0 \/ n = NoPort)
<1>1. n \in Int /\ -1 <= n /\ n <= 65535
  BY DEF Ports, NoPort, MaxPort
<1>2. n > 0 \/ n = 0 \/ n = -1
  BY <1>1
<1> QED
  BY <1>1, <1>2 DEF NoPort, MaxPort

\* What is known of the plaintext r is known of e, and e differs from it in the local
\* endpoint only: what the filters may do.
Completes(e, r) ==
  /\ e.sport \in Ports /\ e.dport \in Ports
  /\ e.time \in Nat \cup {NoTime} /\ e.len \in Nat
  /\ Known(r.src) => e.src = r.src
  /\ r.sport > 0 => e.sport = r.sport
  /\ e.dir = r.dir /\ e.dst = r.dst /\ e.dport = r.dport

\* Giving a plaintext a port where it has none, and an address where it has none or
\* the same, completes it.
LEMMA Completion ==
  ASSUME NEW Addrs, NEW Names, NEW r \in TextsOver(Addrs, Names),
         NEW port \in 0..MaxPort, NEW peer
  PROVE  /\ Completes(r, r)
         /\ Completes(CompletePort(r, port), r)
         /\ (Known(r.src) => r.src = peer) =>
               Completes(CompletePort([r EXCEPT !.src = peer], port), r)
<1> USE DEF Completes
<1>1. Completes(r, r)
  BY DEF TextsOver
<1>2. \A e : Completes(e, r) /\ e.sport = r.sport /\ DOMAIN e = DOMAIN r
               /\ e = [f \in DOMAIN r |-> e[f]]
        => Completes(CompletePort(e, port), r)
  <2> SUFFICES ASSUME NEW e, Completes(e, r), e.sport = r.sport, DOMAIN e = DOMAIN r,
                      e = [f \in DOMAIN r |-> e[f]]
               PROVE  Completes(CompletePort(e, port), r)
    OBVIOUS
  <2>1. CASE port > 0 /\ r.sport <= 0
    <3> DEFINE full == [e EXCEPT !.sport = port]
    <3>1. /\ full.sport = port /\ full.dport = e.dport /\ full.time = e.time
          /\ full.len = e.len /\ full.dir = e.dir /\ full.dst = e.dst
          /\ full.src = e.src
      BY DEF TextsOver
    <3>2. port \in Ports /\ ~(r.sport > 0)
      BY <1>1, <2>1, PortValues DEF Ports, NoPort
    <3>3. Completes(full, r)
      <4> HIDE DEF full
      <4> QED
        BY <2>1, <3>1, <3>2
    <3>4. CompletePort(e, port) = full
      BY <2>1 DEF CompletePort
    <3> QED
      BY <3>3, <3>4
  <2>2. CASE ~(port > 0 /\ r.sport <= 0)
    BY <2>2 DEF CompletePort
  <2> QED
    BY <2>1, <2>2
<1>3. Completes(CompletePort(r, port), r)
  BY <1>1, <1>2 DEF TextsOver
<1>4. ASSUME Known(r.src) => r.src = peer
      PROVE  Completes(CompletePort([r EXCEPT !.src = peer], port), r)
  <2> DEFINE moved == [r EXCEPT !.src = peer]
  <2>1. /\ moved.sport = r.sport /\ moved.dport = r.dport /\ moved.time = r.time
        /\ moved.len = r.len /\ moved.dir = r.dir /\ moved.dst = r.dst
    BY DEF TextsOver
  <2>2. Known(r.src) => moved.src = r.src
    BY <1>4 DEF TextsOver
  <2>3. DOMAIN moved = DOMAIN r /\ moved = [f \in DOMAIN r |-> moved[f]]
    BY DEF TextsOver
  <2>4. Completes(moved, r)
    BY <1>1, <2>1, <2>2
  <2> HIDE DEF moved
  <2>5. Completes(CompletePort(moved, port), r)
    BY <1>2, <2>1, <2>3, <2>4
  <2> QED
    BY <2>5 DEF moved
<1> QED
  BY <1>1, <1>3, <1>4

\* The filters' port, if they have just one, is a port.
LEMMA FilterPort ==
  ASSUME NEW S, S \subseteq 0..MaxPort
  PROVE  SingleOrElse(S, 0) \in 0..MaxPort
<1>1. CASE IsSingleton(S)
  <2>1. PICK x : S = {x}
    BY <1>1 DEF IsSingleton
  <2>2. SingleOrElse(S, 0) = x
    BY <1>1, <2>1 DEF SingleOrElse
  <2> QED
    BY <2>1, <2>2
<1>2. CASE ~IsSingleton(S)
  BY <1>2 DEF SingleOrElse, MaxPort
<1> QED
  BY <1>1, <1>2

\* Filters complete a plaintext and change nothing of it that was known.
THEOREM FiltersComplete ==
  ASSUME NEW Addrs, NEW Names, NEW r \in TextsOver(Addrs, Names)
  PROVE  Completes(EnrichFromFilters(r), r)
<1>1. SingleOrElse(Filters.ports, 0) \in 0..MaxPort
  BY FilterPort, AddressAssumption
<1> QED
  BY <1>1, Completion DEF EnrichFromFilters

\* A packet that is scored never contradicts what the agent knew of the plaintext r,
\* before a filter completed it to e.
THEOREM KnownEndpointsRespected ==
  ASSUME NEW Addrs, NEW Names, NEW r \in TextsOver(Addrs, Names), NEW e, Completes(e, r),
         NEW q, EndpointsCompatible(q, e),
         NEW near, NEW far,
         near = (IF r.dir = "read" THEN Destination(q) ELSE Source(q)),
         far = (IF r.dir = "read" THEN Source(q) ELSE Destination(q))
  PROVE  /\ Known(r.src) => near[1] = r.src /\ r.sport \in {NoPort, 0, near[2]}
         /\ Known(r.dst) => far[1] = r.dst /\ r.dport \in {NoPort, 0, far[2]}
<1>1. /\ Known(r.src) => e.src = r.src
      /\ r.sport > 0 => e.sport = r.sport
      /\ e.dir = r.dir /\ e.dst = r.dst /\ e.dport = r.dport
  BY DEF Completes
<1>2. EndpointAgrees(Source(e), near) /\ EndpointAgrees(Destination(e), far)
  <2>1. CASE r.dir = "read"
    BY <1>1, <2>1 DEF EndpointsCompatible
  <2>2. CASE r.dir # "read"
    BY <1>1, <2>2 DEF EndpointsCompatible
  <2> QED
    BY <2>1, <2>2
<1>3. /\ r.sport > 0 \/ r.sport \in {NoPort, 0}
      /\ r.dport > 0 \/ r.dport \in {NoPort, 0}
  <2>1. r.sport \in Ports /\ r.dport \in Ports
    BY DEF TextsOver
  <2> QED
    BY <2>1, PortValues
<1>4. /\ Known(e.src) => near[1] = e.src /\ (e.sport > 0 => near[2] = e.sport)
      /\ Known(e.dst) => far[1] = e.dst /\ (e.dport > 0 => far[2] = e.dport)
  BY <1>2 DEF EndpointAgrees, Source, Destination
<1> QED
  BY <1>1, <1>3, <1>4

-----------------------------------------------------------------------------
(* The bonuses.                                                             *)

\* A part of a whole, in tenths, rounded down.
LEMMA Tenths ==
  ASSUME NEW part \in Nat, NEW whole \in Nat \ {0}, part <= whole
  PROVE  (10 * part) \div whole \in 0..10
OBVIOUS

\* The bonus for time is at most TimeBonusMax, on either clock and on either side of
\* the window.
THEOREM TimeBonusBounded ==
  ASSUME NEW q, NEW r, NEW qr \in Nat, NEW rr \in Nat,
         q.time \in Nat \cup {NoTime}, r.time \in Nat \cup {NoTime}
  PROVE  TimeBonus(q, qr, r, rr) \in 0..TimeBonusMax
<1> USE DEF TimeBonusMax
<1>1. CASE BothTimed(q, r)
  <2> DEFINE delta == r.time - q.time
             late  == IF delta >= 0 THEN delta ELSE -delta
             limit == IF delta >= 0 THEN MaxSkew ELSE -MinDelta
  <2>1. delta \in Int
    BY <1>1 DEF BothTimed
  <2>2. late \in Nat /\ limit \in Nat \ {0}
    BY <2>1 DEF MaxSkew, MinDelta
  <2>3. TimeBonus(q, qr, r, rr) =
          IF late <= limit THEN (TimeBonusMax * (limit - late)) \div limit ELSE 0
    BY <1>1 DEF TimeBonus
  <2> HIDE DEF late, limit
  <2>4. CASE late <= limit
    <3>1. limit - late \in Nat /\ limit - late <= limit
      BY <2>2, <2>4
    <3>2. (10 * (limit - late)) \div limit \in 0..10
      BY <2>2, <3>1, Tenths
    <3> QED
      BY <2>3, <2>4, <3>2
  <2> QED
    BY <2>3, <2>4
<1>2. CASE ~BothTimed(q, r)
  <2> DEFINE late == ReceiveDelta(qr, rr)
  <2>1. late \in Nat /\ Window \in Nat \ {0}
    BY WindowAssumption DEF ReceiveDelta
  <2>2. TimeBonus(q, qr, r, rr) =
          IF late <= Window THEN (TimeBonusMax * (Window - late)) \div Window ELSE 0
    BY <1>2 DEF TimeBonus
  <2> HIDE DEF late
  <2>3. CASE late <= Window
    <3>1. Window - late \in Nat /\ Window - late <= Window
      BY <2>1, <2>3
    <3>2. (10 * (Window - late)) \div Window \in 0..10
      BY <2>1, <3>1, Tenths
    <3> QED
      BY <2>2, <2>3, <3>2
  <2> QED
    BY <2>2, <2>3
<1> QED
  BY <1>1, <1>2

\* A larger part of the same whole is as many tenths or more.
LEMMA TenthsGrow ==
  ASSUME NEW part \in Nat, NEW more \in Nat, NEW whole \in Nat \ {0}, part <= more
  PROVE  (10 * part) \div whole <= (10 * more) \div whole
OBVIOUS

\* Of two packets on one side of the plaintext, by the clock of the events or, where one
\* of the two times is missing for both, by that of the buffer, the one that is closer
\* has at least the bonus of the other.
THEOREM CloserNotOutranked ==
  ASSUME NEW q, NEW s, NEW r, NEW qr \in Nat, NEW sr \in Nat, NEW rr \in Nat,
         q.time \in Nat \cup {NoTime}, s.time \in Nat \cup {NoTime},
         r.time \in Nat \cup {NoTime},
         \/ /\ BothTimed(q, r) /\ BothTimed(s, r)
            /\ \/ s.time <= q.time /\ q.time <= r.time
               \/ r.time < q.time /\ q.time <= s.time
         \/ /\ ~BothTimed(q, r) /\ ~BothTimed(s, r)
            /\ ReceiveDelta(qr, rr) <= ReceiveDelta(sr, rr)
  PROVE  TimeBonus(s, sr, r, rr) <= TimeBonus(q, qr, r, rr)
<1> USE DEF TimeBonusMax
<1>n. TimeBonus(q, qr, r, rr) \in 0..10 /\ TimeBonus(s, sr, r, rr) \in 0..10
  BY TimeBonusBounded
<1>a. ASSUME NEW near \in Nat, NEW far \in Nat, NEW limit \in Nat \ {0}, near <= far,
             far <= limit
      PROVE  (10 * (limit - far)) \div limit <= (10 * (limit - near)) \div limit
  <2>1. limit - far \in Nat /\ limit - near \in Nat /\ limit - far <= limit - near
    BY <1>a
  <2> QED
    BY <2>1, TenthsGrow
<1>1. CASE BothTimed(q, r) /\ BothTimed(s, r) /\ s.time <= q.time /\ q.time <= r.time
  <2>1. PICK near, far : near = r.time - q.time /\ far = r.time - s.time
    OBVIOUS
  <2>2. near \in Nat /\ far \in Nat /\ near <= far /\ MaxSkew \in Nat \ {0}
    BY <1>1, <2>1 DEF BothTimed, MaxSkew
  <2>3. /\ TimeBonus(q, qr, r, rr) =
             IF near <= MaxSkew THEN (10 * (MaxSkew - near)) \div MaxSkew ELSE 0
        /\ TimeBonus(s, sr, r, rr) =
             IF far <= MaxSkew THEN (10 * (MaxSkew - far)) \div MaxSkew ELSE 0
    BY <1>1, <2>1, <2>2 DEF TimeBonus
  <2>4. CASE far <= MaxSkew
    <3>1. near <= MaxSkew
      BY <2>2, <2>4
    <3> QED
      BY <1>a, <2>2, <2>3, <2>4, <3>1
  <2>5. CASE ~(far <= MaxSkew)
    BY <1>n, <2>3, <2>5
  <2> QED
    BY <2>4, <2>5
<1>2. CASE BothTimed(q, r) /\ BothTimed(s, r) /\ r.time < q.time /\ q.time <= s.time
  <2>1. PICK near, far, limit :
          near = -(r.time - q.time) /\ far = -(r.time - s.time) /\ limit = -MinDelta
    OBVIOUS
  <2>2. /\ near \in Nat /\ far \in Nat /\ near <= far /\ limit \in Nat \ {0}
        /\ ~(r.time - q.time >= 0) /\ ~(r.time - s.time >= 0)
    BY <1>2, <2>1 DEF BothTimed, MinDelta
  <2>3. /\ TimeBonus(q, qr, r, rr) =
             IF near <= limit THEN (10 * (limit - near)) \div limit ELSE 0
        /\ TimeBonus(s, sr, r, rr) =
             IF far <= limit THEN (10 * (limit - far)) \div limit ELSE 0
    BY <1>2, <2>1, <2>2 DEF TimeBonus
  <2>4. CASE far <= limit
    <3>1. near <= limit
      BY <2>2, <2>4
    <3> QED
      BY <1>a, <2>2, <2>3, <2>4, <3>1
  <2>5. CASE ~(far <= limit)
    BY <1>n, <2>3, <2>5
  <2> QED
    BY <2>4, <2>5
<1>3. CASE /\ ~BothTimed(q, r) /\ ~BothTimed(s, r)
           /\ ReceiveDelta(qr, rr) <= ReceiveDelta(sr, rr)
  <2>1. PICK near, far : near = ReceiveDelta(qr, rr) /\ far = ReceiveDelta(sr, rr)
    OBVIOUS
  <2>2. near \in Nat /\ far \in Nat /\ near <= far /\ Window \in Nat \ {0}
    BY <1>3, <2>1, WindowAssumption DEF ReceiveDelta
  <2>3. /\ TimeBonus(q, qr, r, rr) =
             IF near <= Window THEN (10 * (Window - near)) \div Window ELSE 0
        /\ TimeBonus(s, sr, r, rr) =
             IF far <= Window THEN (10 * (Window - far)) \div Window ELSE 0
    BY <1>3, <2>1 DEF TimeBonus
  <2>4. CASE far <= Window
    <3>1. near <= Window
      BY <2>2, <2>4
    <3> QED
      BY <1>a, <2>2, <2>3, <2>4, <3>1
  <2>5. CASE ~(far <= Window)
    BY <1>n, <2>3, <2>5
  <2> QED
    BY <2>4, <2>5
<1> QED
  BY <1>1, <1>2, <1>3

\* The base score is a number.
LEMMA BaseScoreNumber ==
  ASSUME NEW q, NEW r
  PROVE  BaseScore(q, r) \in Int
<1> USE DEF NoMatch, StrictBase, RemoteBase, LooseBase, FilterBase, DirectionBonus
<1>1. StrictScore(q, r) \in Int
  BY DEF StrictScore
<1>2. RemoteScore(q, r) \in Int
  BY DEF RemoteScore, WithDirection
<1>3. LooseScore(q, r) \in Int
  BY DEF LooseScore, WithDirection
<1>4. FilterScore(q) \in Int
  BY DEF FilterScore
<1> QED
  BY <1>1, <1>2, <1>3, <1>4 DEF BaseScore

\* Of two candidates between the same endpoints, seen whenever, one that carries TCP
\* data outranks, beyond the ambiguity margin, one whose frame holds no TCP segment.
THEOREM PayloadDecides ==
  ASSUME NEW Addrs, NEW Names, NEW q \in PacketsOver(Addrs, Names),
         NEW t \in Nat \cup {NoTime}, NEW r, r.time \in Nat \cup {NoTime},
         NEW qr \in Nat, NEW rr \in Nat,
         q.plen > 0, Candidate(q, qr, r, rr),
         NEW other, other = [q EXCEPT !.time = t, !.plen = NotTCP],
         Candidate(other, qr, r, rr)
  PROVE  Score(q, qr, r, rr) - Score(other, qr, r, rr) > AmbiguityMargin
<1>1. /\ other.src = q.src /\ other.sport = q.sport /\ other.dst = q.dst
      /\ other.dport = q.dport /\ other.time = t /\ other.plen = NotTCP
      /\ q.time \in Nat \cup {NoTime} /\ q.plen \in Nat \cup {NotTCP}
  BY DEF PacketsOver
<1>2. BaseScore(other, r) = BaseScore(q, r)
  <2>1. Source(other) = Source(q) /\ Destination(other) = Destination(q)
    BY <1>1 DEF Source, Destination
  <2>2. Tuple(other) = Tuple(q) /\ HasTuple(other) = HasTuple(q)
    BY <1>1, <2>1 DEF Tuple, HasTuple
  <2>3. StrictScore(other, r) = StrictScore(q, r)
    BY <2>2 DEF StrictScore
  <2>4. TouchesPod(other, r) = TouchesPod(q, r)
    BY <2>1 DEF TouchesPod
  <2>5. \A base : WithDirection(base, other, r) = WithDirection(base, q, r)
    BY <2>1 DEF WithDirection, TravelsInDirection
  <2>6. RemoteScore(other, r) = RemoteScore(q, r) /\ LooseScore(other, r) = LooseScore(q, r)
    BY <1>1, <2>4, <2>5 DEF RemoteScore, LooseScore
  <2>7. FilterScore(other) = FilterScore(q)
    BY <1>1 DEF FilterScore, MatchesFilters
  <2> QED
    BY <2>3, <2>6, <2>7 DEF BaseScore
<1> DEFINE base  == BaseScore(q, r)
           bonus == TimeBonus(q, qr, r, rr)
           late  == TimeBonus(other, qr, r, rr)
<1>3. base \in Int /\ bonus \in 0..10 /\ late \in 0..10
  BY <1>1, BaseScoreNumber, TimeBonusBounded DEF TimeBonusMax
<1>4. Score(other, qr, r, rr) = base + late
  BY <1>1, <1>2 DEF Score, PayloadScore
<1>5. /\ Score(q, qr, r, rr) \in Int
      /\ Score(q, qr, r, rr) >= base + bonus + 20
  BY <1>1, <1>3 DEF Score, PayloadScore, NotTCP, PayloadBonus, SizeBonus
<1> HIDE DEF base, bonus, late
<1> QED
  BY <1>3, <1>4, <1>5 DEF AmbiguityMargin

-----------------------------------------------------------------------------
(* What follows for the inputs that MCFunctions enumerates.                 *)

AddressesSeen == {Pod, Peer, NoIP}
NamesSeen     == {"none", "gotls", "openssl", "", "read", "write"}

MatchTypes ==
  /\ w \in PacketsOver(AddressesSeen, NamesSeen) /\ wr \in Nat
  /\ p \in TextsOver(AddressesSeen, NamesSeen) /\ pr \in Nat

\* The types of the variables, in every state.
LEMMA MatchTypesInvariance == FunctionsSpec => []MatchTypes
<1> USE DEF MatchTypes, AddressesSeen, NamesSeen
<1>1. WireFields \subseteq PacketsOver(AddressesSeen, NamesSeen)
  <2>1. {NoPort, 1, 2} \subseteq Ports /\ {1, 2} \subseteq Ports
    BY DEF Ports, NoPort, MaxPort
  <2>2. /\ {NoTime, 8, 11} \subseteq Nat \cup {NoTime}
        /\ {NotTCP, 0, 20} \subseteq Nat \cup {NotTCP}
    OBVIOUS
  <2> QED
    BY <2>1, <2>2 DEF WireFields, PacketsOver
<1>2. TextFields \subseteq TextsOver(AddressesSeen, NamesSeen)
  <2>1. {NoPort, 0, 1} \subseteq Ports /\ {NoPort, 1, 2} \subseteq Ports
    BY DEF Ports, NoPort, MaxPort
  <2>2. {NoTime, 10} \subseteq Nat \cup {NoTime} /\ {0, 20} \subseteq Nat
    OBVIOUS
  <2>3. {FALSE} \subseteq BOOLEAN
    OBVIOUS
  <2> SUFFICES ASSUME NEW r \in TextFields
               PROVE  r \in TextsOver(AddressesSeen, NamesSeen)
    OBVIOUS
  <2>4. /\ r.src \in AddressesSeen /\ r.sport \in Ports /\ r.dst \in AddressesSeen
        /\ r.dport \in Ports
    BY <2>1 DEF TextFields
  <2>5. r.dir \in NamesSeen /\ r.tls \in NamesSeen
    BY DEF TextFields
  <2>6. r.time \in Nat \cup {NoTime} /\ r.len \in Nat
    BY <2>2 DEF TextFields
  <2>7. r.kernel \in BOOLEAN
    BY <2>3 DEF TextFields
  <2>8. r = [src |-> r.src, sport |-> r.sport, dst |-> r.dst, dport |-> r.dport,
             dir |-> r.dir, time |-> r.time, len |-> r.len, tls |-> r.tls,
             kernel |-> r.kernel]
    BY DEF TextFields
  <2> HIDE DEF AddressesSeen, NamesSeen
  <2> QED
    BY <2>4, <2>5, <2>6, <2>7, <2>8 DEF TextsOver
<1>3. NoPort \in Ports
  BY DEF Ports, NoPort, MaxPort
<1>4. ASSUME FunctionsInit PROVE MatchTypes
  <2>1. w = [src |-> NoIP, sport |-> NoPort, dst |-> NoIP, dport |-> NoPort,
             time |-> NoTime, plen |-> NotTCP, pod |-> "none"]
    BY <1>4 DEF FunctionsInit, Init
  <2>2. w \in PacketsOver(AddressesSeen, NamesSeen)
    BY <1>3, <2>1 DEF PacketsOver
  <2>3. CASE Init
    BY <1>2, <2>2, <2>3, StampAssumption DEF Init
  <2>4. CASE ~Init
    <3>1. /\ p = [src |-> NoIP, sport |-> NoPort, dst |-> NoIP, dport |-> NoPort, dir |-> "",
                  time |-> NoTime, len |-> 0, tls |-> "openssl", kernel |-> FALSE]
          /\ wr = 0 /\ pr = 0
      BY <1>4, <2>4 DEF FunctionsInit
    <3>2. p \in TextsOver(AddressesSeen, NamesSeen)
      BY <1>3, <3>1 DEF TextsOver
    <3> QED
      BY <2>2, <3>1, <3>2
  <2> QED
    BY <2>3, <2>4
<1>5. MatchTypes /\ [MeetOne]_<<vars, input>> => MatchTypes'
  BY <1>1, StampAssumption DEF MeetOne, Meet, vars
<1> QED
  BY <1>4, <1>5, PTL DEF FunctionsSpec

\* Scoring with the filters of Hinted differs from scoring with any others only in
\* FilterScore, and in that there are filters.
LEMMA HintedOperators ==
  ASSUME NEW q, NEW qr, NEW r, NEW rr, Hinted!Candidate(q, qr, r, rr)
  PROVE  /\ EndpointsCompatible(q, r)
         /\ Hinted!BaseScore(q, r) # NoMatch
         /\ Hinted!BaseScore(q, r) =
              IF HasTuple(r) THEN StrictScore(q, r)
              ELSE IF RemoteScore(q, r) # NoMatch THEN RemoteScore(q, r)
              ELSE IF LooseScore(q, r) # NoMatch THEN LooseScore(q, r)
              ELSE Hinted!FilterScore(q)
         /\ Hinted!MinScore(r) =
              IF HasTuple(r) THEN StrictBase
              ELSE IF PodEndpoint(r) # {}
                   THEN (IF PeerIP(r) # {} THEN RemoteBase ELSE LooseBase)
              ELSE FilterBase
         /\ \/ Hinted!FilterScore(q) = NoMatch
            \/ Hinted!FilterScore(q) \in FilterBase..(FilterBase + 2)
<1> USE DEF NoMatch, StrictBase, RemoteBase, LooseBase, FilterBase, Hinted!NoMatch,
            Hinted!StrictBase, Hinted!RemoteBase, Hinted!LooseBase, Hinted!FilterBase
<1>1. EndpointsCompatible(q, r) /\ Hinted!BaseScore(q, r) # NoMatch
  BY DEF Hinted!Candidate, Hinted!EndpointsCompatible, EndpointsCompatible,
         Hinted!EndpointAgrees, EndpointAgrees, Hinted!Known, Known, Hinted!Source, Source,
         Hinted!Destination, Destination
<1>2. /\ Hinted!HasTuple(r) = HasTuple(r) /\ Hinted!StrictScore(q, r) = StrictScore(q, r)
      /\ Hinted!PodEndpoint(r) = PodEndpoint(r) /\ Hinted!PeerIP(r) = PeerIP(r)
      /\ Hinted!RemoteScore(q, r) = RemoteScore(q, r)
      /\ Hinted!LooseScore(q, r) = LooseScore(q, r)
  <2> USE DEF Hinted!Known, Known, Hinted!NoPort, NoPort, Hinted!Source, Source,
              Hinted!Destination, Destination, Hinted!DirectionBonus, DirectionBonus
  <2>1. Hinted!HasTuple(r) = HasTuple(r)
    BY DEF Hinted!HasTuple, HasTuple
  <2>2. Hinted!StrictScore(q, r) = StrictScore(q, r)
    BY DEF Hinted!StrictScore, StrictScore, Hinted!HasTuple, HasTuple, Hinted!Tuple, Tuple,
           Hinted!SameConnection, SameConnection
  <2>3. Hinted!PodEndpoint(r) = PodEndpoint(r)
    BY DEF Hinted!PodEndpoint, PodEndpoint
  <2>4. Hinted!PeerIP(r) = PeerIP(r)
    BY DEF Hinted!PeerIP, PeerIP, Hinted!PodEndpoint, PodEndpoint
  <2> USE DEF Hinted!TouchesPod, TouchesPod, Hinted!PodEndpoint, PodEndpoint,
              Hinted!WithDirection, WithDirection, Hinted!TravelsInDirection,
              TravelsInDirection
  <2>5. Hinted!RemoteScore(q, r) = RemoteScore(q, r)
    BY DEF Hinted!RemoteScore, RemoteScore, Hinted!PeerIP, PeerIP
  <2>6. Hinted!LooseScore(q, r) = LooseScore(q, r)
    BY DEF Hinted!LooseScore, LooseScore
  <2> HIDE DEF Hinted!TouchesPod, TouchesPod, Hinted!PodEndpoint, PodEndpoint,
               Hinted!WithDirection, WithDirection, Hinted!TravelsInDirection,
               TravelsInDirection, Hinted!Source, Source, Hinted!Destination, Destination
  <2> QED
    BY <2>1, <2>2, <2>3, <2>4, <2>5, <2>6
<1>3. Hinted!BaseScore(q, r) =
        IF HasTuple(r) THEN StrictScore(q, r)
        ELSE IF RemoteScore(q, r) # NoMatch THEN RemoteScore(q, r)
        ELSE IF LooseScore(q, r) # NoMatch THEN LooseScore(q, r)
        ELSE Hinted!FilterScore(q)
  BY <1>2 DEF Hinted!BaseScore
<1>4. Hinted!FiltersActive
  BY DEF Hinted!FiltersActive, PeerFilters
<1>5. Hinted!MinScore(r) =
        IF HasTuple(r) THEN StrictBase
        ELSE IF PodEndpoint(r) # {} THEN (IF PeerIP(r) # {} THEN RemoteBase ELSE LooseBase)
        ELSE FilterBase
  BY <1>2, <1>4 DEF Hinted!MinScore
<1>6. \/ Hinted!FilterScore(q) = NoMatch
      \/ Hinted!FilterScore(q) \in FilterBase..(FilterBase + 2)
  BY DEF Hinted!FilterScore
<1> QED
  BY <1>1, <1>3, <1>5, <1>6

\* What the filters of Hinted make of a plaintext completes it.
LEMMA HintedComplete ==
  ASSUME NEW Addrs, NEW Names, NEW r \in TextsOver(Addrs, Names)
  PROVE  Completes(Hinted!EnrichFromFilters(r), r)
<1> DEFINE peer == SingleOrElse(PeerFilters.peerIPs, NoIP)
           port == SingleOrElse(PeerFilters.ports, 0)
<1>1. PeerFilters.ports \subseteq 0..MaxPort
  BY DEF PeerFilters, MaxPort
<1>2. port \in 0..MaxPort
  BY <1>1, FilterPort
<1>3. Hinted!EnrichFromFilters(r) =
        IF HasTuple(r) THEN r
        ELSE IF ~Known(peer) THEN CompletePort(r, port)
        ELSE IF Known(r.src) /\ r.src # peer THEN r
        ELSE CompletePort([r EXCEPT !.src = peer], port)
  BY DEF Hinted!EnrichFromFilters, Hinted!HasTuple, HasTuple, Hinted!Known, Known,
         Hinted!NoPort, NoPort, Hinted!CompletePort, CompletePort, Hinted!SingleOrElse,
         SingleOrElse, Hinted!IsSingleton, IsSingleton
<1> HIDE DEF peer, port
<1> QED
  BY <1>2, <1>3, Completion

\* All candidates of a plaintext have the tier minAnnotationScore expects, without
\* filters to speak of or with them.
THEOREM TierInvariance == FunctionsSpec => []CandidatesShareTier
<1>1. MatchTypes => CandidatesShareTier
  <2> SUFFICES ASSUME MatchTypes PROVE CandidatesShareTier
    OBVIOUS
  <2>1. ASSUME IsCandidate
        PROVE  BaseScore(w, EnrichFromFilters(p)) - MinScore(EnrichFromFilters(p))
                 \in 0..DirectionBonus
    <3> DEFINE e == EnrichFromFilters(p)
    <3>1. e.sport \in Ports /\ e.dport \in Ports
      BY FiltersComplete DEF MatchTypes, Completes
    <3>2. EndpointsCompatible(w, e) /\ BaseScore(w, e) # NoMatch
      BY <2>1 DEF IsCandidate, Candidate
    <3> HIDE DEF e
    <3>3. BaseScore(w, e) - MinScore(e) \in 0..DirectionBonus
      BY <3>1, <3>2, TierOfPlaintext
    <3> QED
      BY <3>3 DEF e
  <2>2. ASSUME IsHintedCandidate
        PROVE  Hinted!BaseScore(w, Hinted!EnrichFromFilters(p))
                 - Hinted!MinScore(Hinted!EnrichFromFilters(p)) \in 0..DirectionBonus
    <3> DEFINE e    == Hinted!EnrichFromFilters(p)
               base == Hinted!BaseScore(w, e)
               min  == Hinted!MinScore(e)
               f    == Hinted!FilterScore(w)
    <3>1. e.sport \in Ports /\ e.dport \in Ports
      BY HintedComplete DEF MatchTypes, Completes
    <3>2. Hinted!Candidate(w, wr, e, pr)
      BY <2>2 DEF IsHintedCandidate
    <3> HIDE DEF e
    <3>3. /\ EndpointsCompatible(w, e) /\ base # NoMatch
          /\ base = IF HasTuple(e) THEN StrictScore(w, e)
                    ELSE IF RemoteScore(w, e) # NoMatch THEN RemoteScore(w, e)
                    ELSE IF LooseScore(w, e) # NoMatch THEN LooseScore(w, e)
                    ELSE f
          /\ min = IF HasTuple(e) THEN StrictBase
                   ELSE IF PodEndpoint(e) # {}
                        THEN (IF PeerIP(e) # {} THEN RemoteBase ELSE LooseBase)
                   ELSE IF TRUE THEN FilterBase ELSE LooseBase
          /\ f = NoMatch \/ (TRUE /\ f \in FilterBase..(FilterBase + 2))
      BY <3>2, HintedOperators
    <3> HIDE DEF base, min, f
    <3>4. base - min \in 0..DirectionBonus
      BY <3>1, <3>3, TierWithFilters
    <3> QED
      BY <3>4 DEF e, base, min
  <2> QED
    BY <2>1, <2>2 DEF CandidatesShareTier
<1> QED
  BY <1>1, MatchTypesInvariance, PTL

\* A scored packet never contradicts what the agent knew, with or without filters.
THEOREM EndpointsInvariance == FunctionsSpec => []NeverContradicts
<1>1. MatchTypes => NeverContradicts
  <2> SUFFICES ASSUME MatchTypes, IsCandidate \/ IsHintedCandidate PROVE NeverContradicts
    BY DEF NeverContradicts
  <2> DEFINE near == IF p.dir = "read" THEN Destination(w) ELSE Source(w)
             far  == IF p.dir = "read" THEN Source(w) ELSE Destination(w)
  <2>1. PICK e : Completes(e, p) /\ EndpointsCompatible(w, e)
    <3>1. CASE IsCandidate
      BY <3>1, FiltersComplete DEF MatchTypes, IsCandidate, Candidate
    <3>2. CASE IsHintedCandidate
      BY <3>2, HintedComplete, HintedOperators DEF MatchTypes, IsHintedCandidate
    <3> QED
      BY <3>1, <3>2
  <2>2. /\ Known(p.src) => near[1] = p.src /\ p.sport \in {NoPort, 0, near[2]}
        /\ Known(p.dst) => far[1] = p.dst /\ p.dport \in {NoPort, 0, far[2]}
    BY <2>1, KnownEndpointsRespected DEF MatchTypes
  <2> QED
    BY <2>2 DEF NeverContradicts
<1> QED
  BY <1>1, MatchTypesInvariance, PTL

\* Payload decides between packets before time does.
THEOREM PayloadInvariance == FunctionsSpec => []PayloadOutranksTime
<1>1. MatchTypes => PayloadOutranksTime
  <2> SUFFICES ASSUME MatchTypes, IsCandidate, w.plen > 0, NEW t \in {NoTime, 8, 11},
                      NEW other, other = [w EXCEPT !.time = t, !.plen = NotTCP],
                      Candidate(other, wr, EnrichFromFilters(p), pr)
               PROVE  Score(w, wr, EnrichFromFilters(p), pr)
                        - Score(other, wr, EnrichFromFilters(p), pr) > AmbiguityMargin
    BY DEF PayloadOutranksTime
  <2> DEFINE e == EnrichFromFilters(p)
  <2>1. e.time \in Nat \cup {NoTime}
    BY FiltersComplete DEF MatchTypes, Completes
  <2>2. Candidate(w, wr, e, pr) /\ Candidate(other, wr, e, pr)
    BY DEF IsCandidate
  <2>3. t \in Nat \cup {NoTime}
    OBVIOUS
  <2> HIDE DEF e
  <2>4. Score(w, wr, e, pr) - Score(other, wr, e, pr) > AmbiguityMargin
    BY <2>1, <2>2, <2>3, PayloadDecides DEF MatchTypes
  <2> QED
    BY <2>4 DEF e
<1> QED
  BY <1>1, MatchTypesInvariance, PTL

-----------------------------------------------------------------------------
(* TLS profiles.                                                            *)

\* What is known of a profile, or nothing: its version is a known one, or none.
LEMMA VersionKnown ==
  ASSUME NEW profile
  PROVE  profileToTLSConfig(profile).min \in KnownVersions \cup {0}
<1> DEFINE Known3(spec) == [min     |-> tlsVersionFromString(spec.min),
                            ciphers |-> Keep(spec.ciphers, KnownCiphers),
                            groups  |-> Keep(spec.groups, KnownGroups)]
<1>1. \A spec : Known3(spec).min \in KnownVersions \cup {0}
  BY DEF tlsVersionFromString
<1>2. NoSettings.min = 0
  BY DEF NoSettings
<1>3. profileToTLSConfig(profile) =
        CASE profile.type \in DOMAIN Presets -> Known3(Presets[profile.type])
          [] profile.type = "Custom" /\ profile.custom # <<>> -> Known3(profile.custom[1])
          [] OTHER -> NoSettings
  BY DEF profileToTLSConfig
<1> QED
  BY <1>1, <1>2, <1>3

\* The ConfigMap, in which empty entries are left out, carries the settings to the
\* collector: only the cipher suites that cannot be chosen are lost.
LEMMA SettingsCarried ==
  ASSUME NEW min, NEW ciphers, NEW groups
  PROVE  Apply(ConfigToEnvMap([min |-> min, ciphers |-> ciphers, groups |-> groups])) =
           [min |-> min, groups |-> groups,
            ciphers |-> IF min >= TLS13 THEN <<>> ELSE Choosable(ciphers)]
<1> DEFINE config == [min |-> min, ciphers |-> ciphers, groups |-> groups]
           env == ConfigToEnvMap(config)
           set == [f \in DOMAIN NoSettings |-> IF f \in DOMAIN env THEN env[f] ELSE NoSettings[f]]
<1>1. DOMAIN NoSettings = {"min", "ciphers", "groups"}
  BY DEF NoSettings
<1>2. \A f \in {"min", "ciphers", "groups"} :
        (IF f \in DOMAIN env THEN env[f] ELSE NoSettings[f]) = config[f]
  BY DEF ConfigToEnvMap
<1>3. set = config
  BY <1>1, <1>2
<1>4. Apply(env) = [set EXCEPT !.ciphers = IF set.min >= TLS13 THEN <<>> ELSE Choosable(@)]
  BY DEF Apply
<1> QED
  BY <1>3, <1>4

\* Whatever the cluster says and does not say, each part of its profile that is known
\* reaches the collector, which always has a least version and ciphers.
THEOREM ProfileCarried == ASSUME NEW cluster PROVE ProfileReachesCollector(cluster)
<1> DEFINE profile == fetchTLSProfile(cluster)
           said    == profileToTLSConfig(profile)
           min     == IF said.min # 0 THEN said.min ELSE SecureBase.min
           ciphers == IF said.ciphers # <<>> THEN said.ciphers ELSE SecureBase.ciphers
           groups  == IF said.groups # <<>> THEN said.groups ELSE SecureBase.groups
           applied == Apply(Resolve(cluster))
<1>1. said.min \in KnownVersions \cup {0}
  BY VersionKnown
<1>2. Resolve(cluster) = ConfigToEnvMap([min |-> min, ciphers |-> ciphers, groups |-> groups])
  BY DEF Resolve, ComposeTLSConfig
<1>3. buildCollectorTLSConfig("good", Resolve(cluster))[1] = applied
  BY DEF buildCollectorTLSConfig
<1> HIDE DEF said
<1>4. min \in KnownVersions /\ min # 0
  BY <1>1, TlsAssumption
<1>5. Choosable(SecureBase.ciphers) # <<>>
  BY TlsAssumption
<1> HIDE DEF min, ciphers, groups, applied
<1>6. applied = [min |-> min, groups |-> groups,
                 ciphers |-> IF min >= TLS13 THEN <<>> ELSE Choosable(ciphers)]
  BY <1>2, SettingsCarried DEF applied
<1>7. applied.min = min /\ applied.groups = groups
      /\ (min < TLS13 => applied.ciphers = Choosable(ciphers))
  <2>1. min \in Int /\ TLS13 \in Int
    BY <1>4, TlsAssumption DEF TLS13
  <2> QED
    BY <1>6, <2>1
<1>8. /\ said.min # 0 => min = said.min
      /\ said.groups # <<>> => groups = said.groups
      /\ IF said.ciphers # <<>> THEN ciphers = said.ciphers ELSE ciphers = SecureBase.ciphers
  BY DEF min, ciphers, groups
<1>9. /\ applied.min # 0
      /\ said.min # 0 => applied.min = said.min
      /\ said.groups # <<>> => applied.groups = said.groups
      /\ applied.min < TLS13 =>
           IF said.ciphers # <<>>
           THEN applied.ciphers = Choosable(said.ciphers)
           ELSE applied.ciphers # <<>>
  BY <1>4, <1>5, <1>7, <1>8
<1> QED
  BY <1>3, <1>9 DEF ProfileReachesCollector, said

\* Every profile that can be asked of a cluster is honoured.
THEOREM ProfileInvariance == FunctionsSpec => []ProfilesHonoured
<1>1. ProfilesHonoured
  BY ProfileCarried DEF ProfilesHonoured
<1> QED
  BY <1>1, PTL

-----------------------------------------------------------------------------
(* Loops.  What a loop has reached after n rounds is a recursive function;  *)
(* a fact about all n follows from there being no least n without it.       *)

\* A set of numbers that is not empty has a least one.
LEMMA LeastNumber ==
  ASSUME NEW T \in SUBSET Nat, T # {}
  PROVE  \E n \in T : \A m \in T : ~(m < n)
<1>1. IsWellFoundedOn(OpToRel(<, Nat), Nat)
  BY NatLessThanWellFounded
<1>2. \E n \in T : \A m \in T : <<m, n>> \notin OpToRel(<, Nat)
  BY <1>1, WFMin
<1>3. ASSUME NEW m \in Nat, NEW n \in Nat, m < n PROVE <<m, n>> \in OpToRel(<, Nat)
  BY <1>3 DEF OpToRel
<1> QED
  BY <1>2, <1>3

\* Induction, with a set for the numbers of which the fact holds.
LEMMA EveryNumber ==
  ASSUME NEW T \in SUBSET Nat, 0 \in T, \A n \in T : n + 1 \in T
  PROVE  T = Nat
<1> SUFFICES ASSUME T # Nat PROVE FALSE
  OBVIOUS
<1>1. PICK n \in Nat \ T : \A m \in Nat \ T : ~(m < n)
  <2>1. Nat \ T # {} /\ Nat \ T \in SUBSET Nat
    OBVIOUS
  <2> QED
   BY <2>1, LeastNumber
<1>2. n - 1 \in Nat /\ n - 1 < n
  BY <1>1
<1>3. n - 1 \in T
  BY <1>1, <1>2
<1>4. n - 1 + 1 = n
  BY <1>1
<1> QED
  BY <1>1, <1>3, <1>4

\* f has the values of a loop that begins with x and applies F in each round.
Iterates(f, F, x) == f[0] = x /\ \A n \in Nat : f[n + 1] = F[f[n]]

\* The values after 0, 1, 2... rounds, all of them in D.
Rounds(F, D, x) == CHOOSE f \in [Nat -> D] : Iterates(f, F, x)

\* The same for the first n rounds.
Upto(f, F, x, n) == \A i \in 0..n : f[i] = IF i = 0 THEN x ELSE F[f[i - 1]]

\* The first rounds leave one value each.
LEMMA UptoUnique ==
  ASSUME NEW f, NEW g, NEW F, NEW x, NEW n \in Nat, Upto(f, F, x, n), Upto(g, F, x, n)
  PROVE  \A i \in 0..n : f[i] = g[i]
<1> DEFINE T == { i \in Nat : i <= n => f[i] = g[i] }
<1>1. 0 \in T
  BY DEF Upto
<1>2. ASSUME NEW i \in T PROVE i + 1 \in T
  <2>1. CASE i + 1 <= n
    <3>1. i + 1 \in 0..n /\ i + 1 # 0 /\ i + 1 - 1 = i /\ i <= n
      BY <2>1
    <3>2. f[i + 1] = F[f[i]] /\ g[i + 1] = F[g[i]]
      BY <3>1 DEF Upto
    <3> QED
      BY <3>1, <3>2
  <2> QED
    BY <2>1
<1>3. T = Nat
  <2> HIDE DEF T
  <2> QED
    BY <1>1, <1>2, EveryNumber DEF T
<1> QED
  BY <1>3

\* There are values for the first n rounds, for every n.
LEMMA UptoExists ==
  ASSUME NEW D, NEW F \in [D -> D], NEW x \in D, NEW n \in Nat
  PROVE  \E f \in [Nat -> D] : Upto(f, F, x, n)
<1> DEFINE T == { i \in Nat : \E f \in [Nat -> D] : Upto(f, F, x, i) }
<1>1. 0 \in T
  <2>1. [i \in Nat |-> x] \in [Nat -> D] /\ Upto([i \in Nat |-> x], F, x, 0)
    BY DEF Upto
  <2> QED
    BY <2>1
<1>2. ASSUME NEW i \in T PROVE i + 1 \in T
  <2>1. PICK f \in [Nat -> D] : Upto(f, F, x, i)
    OBVIOUS
  <2> DEFINE g == [f EXCEPT ![i + 1] = F[f[i]]]
  <2>2. g \in [Nat -> D]
    BY <2>1
  <2>3. \A j \in 0..i : g[j] = f[j]
    OBVIOUS
  <2>4. g[i + 1] = F[f[i]]
    OBVIOUS
  <2>5. ASSUME NEW j \in 0..(i + 1) PROVE g[j] = IF j = 0 THEN x ELSE F[g[j - 1]]
    <3> HIDE DEF g
    <3>1. CASE j = i + 1
      <4>1. j # 0 /\ j - 1 = i /\ i \in 0..i
        BY <3>1
      <4> QED
        BY <2>3, <2>4, <3>1, <4>1
    <3>2. CASE j # i + 1 /\ j # 0
      <4>1. j \in 0..i /\ j - 1 \in 0..i
        BY <3>2
      <4> QED
        BY <2>1, <2>3, <3>2, <4>1 DEF Upto
    <3>3. CASE j = 0
      <4>1. 0 \in 0..i
        OBVIOUS
      <4> QED
        BY <2>1, <2>3, <3>3, <4>1 DEF Upto
    <3> QED
      BY <3>1, <3>2, <3>3
  <2>6. Upto(g, F, x, i + 1)
    <3> HIDE DEF g
    <3> QED
      BY <2>5 DEF Upto
  <2> HIDE DEF g
  <2>7. i + 1 \in Nat
    OBVIOUS
  <2> QED
    BY <2>2, <2>6, <2>7
<1>3. T = Nat
  <2> HIDE DEF T
  <2> QED
    BY <1>1, <1>2, EveryNumber DEF T
<1> QED
  BY <1>3

\* So there are values for all rounds.
LEMMA RoundsExist ==
  ASSUME NEW D, NEW F \in [D -> D], NEW x \in D
  PROVE  \E f \in [Nat -> D] : Iterates(f, F, x)
<1> DEFINE at(n) == CHOOSE f \in [Nat -> D] : Upto(f, F, x, n)
           all   == [n \in Nat |-> at(n)[n]]
<1>1. ASSUME NEW n \in Nat PROVE at(n) \in [Nat -> D] /\ Upto(at(n), F, x, n)
  BY UptoExists
<1>2. all \in [Nat -> D]
  BY <1>1
<1>3. all[0] = x
  <2>1. all[0] = at(0)[0]
    OBVIOUS
  <2> HIDE DEF at
  <2>2. Upto(at(0), F, x, 0) /\ 0 \in 0..0
    BY <1>1
  <2>3. at(0)[0] = x
    BY <2>2 DEF Upto
  <2> HIDE DEF all
  <2> QED
    BY <2>1, <2>3
<1>4. ASSUME NEW n \in Nat PROVE all[n + 1] = F[all[n]]
  <2> HIDE DEF at
  <2>1. Upto(at(n), F, x, n) /\ Upto(at(n + 1), F, x, n + 1)
    BY <1>1
  <2>2. Upto(at(n + 1), F, x, n)
    BY <2>1 DEF Upto
  <2>3. at(n)[n] = at(n + 1)[n]
    BY <2>1, <2>2, UptoUnique
  <2>4. at(n + 1)[n + 1] = F[at(n + 1)[n]]
    BY <2>1 DEF Upto
  <2> QED
    BY <2>3, <2>4
<1> HIDE DEF all
<1>5. Iterates(all, F, x)
  BY <1>3, <1>4 DEF Iterates
<1> QED
  BY <1>2, <1>5

\* Rounds are the values of the loop.
LEMMA RoundsIterate ==
  ASSUME NEW D, NEW F \in [D -> D], NEW x \in D
  PROVE  Rounds(F, D, x) \in [Nat -> D] /\ Iterates(Rounds(F, D, x), F, x)
BY RoundsExist DEF Rounds

\* Rounds after rounds are rounds.
LEMMA RoundsAdd ==
  ASSUME NEW D, NEW F \in [D -> D], NEW x \in D, NEW m \in Nat, NEW n \in Nat
  PROVE  Rounds(F, D, Rounds(F, D, x)[m])[n] = Rounds(F, D, x)[m + n]
<1>f. PICK f : f = Rounds(F, D, x)
  OBVIOUS
<1>1. f \in [Nat -> D] /\ Iterates(f, F, x)
  BY <1>f, RoundsIterate
<1>g. PICK g : g = Rounds(F, D, f[m])
  OBVIOUS
<1>2. Iterates(g, F, f[m])
  <2>1. f[m] \in D
    BY <1>1
  <2> QED
    BY <1>g, <2>1, RoundsIterate
<1> DEFINE T == { i \in Nat : g[i] = f[m + i] }
<1>3. 0 \in T
  BY <1>2 DEF Iterates
<1>4. ASSUME NEW i \in T PROVE i + 1 \in T
  <2>1. m + (i + 1) = (m + i) + 1 /\ m + i \in Nat
    OBVIOUS
  <2>2. f[m + (i + 1)] = F[f[m + i]] /\ g[i + 1] = F[g[i]]
    BY <1>1, <1>2, <2>1 DEF Iterates
  <2> QED
    BY <2>2
<1>5. T = Nat
  <2> HIDE DEF T
  <2> QED
    BY <1>3, <1>4, EveryNumber DEF T
<1>6. g[n] = f[m + n]
  BY <1>5
<1> QED
  BY <1>6, <1>f, <1>g

\* Once a round changes nothing, no later one does.
LEMMA RoundsRest ==
  ASSUME NEW D, NEW F \in [D -> D], NEW x \in D, NEW m \in Nat, NEW n \in Nat,
         Rounds(F, D, x)[m + 1] = Rounds(F, D, x)[m]
  PROVE  Rounds(F, D, x)[m + n] = Rounds(F, D, x)[m]
<1>f. PICK f : f = Rounds(F, D, x)
  OBVIOUS
<1>1. f \in [Nat -> D] /\ Iterates(f, F, x)
  BY <1>f, RoundsIterate
<1>2. F[f[m]] = f[m]
  BY <1>1, <1>f DEF Iterates
<1> DEFINE T == { i \in Nat : f[m + i] = f[m] }
<1>3. 0 \in T
  OBVIOUS
<1>4. ASSUME NEW i \in T PROVE i + 1 \in T
  <2>1. m + (i + 1) = (m + i) + 1 /\ m + i \in Nat
    OBVIOUS
  <2>2. f[m + (i + 1)] = F[f[m + i]]
    BY <1>1, <2>1 DEF Iterates
  <2> QED
    BY <1>2, <2>2
<1>5. T = Nat
  <2> HIDE DEF T
  <2> QED
    BY <1>3, <1>4, EveryNumber DEF T
<1>6. f[m + n] = f[m]
  BY <1>5
<1> QED
  BY <1>6, <1>f

\* A loop whose rounds make a measure of the value less, or reach a value that the
\* next round leaves alone, has settled after as many rounds as the measure says.
LEMMA RoundsSettle ==
  ASSUME NEW D, NEW F \in [D -> D], NEW x \in D, NEW n \in Nat,
         NEW size, \A y \in D : size[y] \in Nat \ {0},
         \A y \in D : F[y] = y \/ size[F[y]] < size[y] \/ F[F[y]] = F[y],
         size[x] <= n
  PROVE  F[Rounds(F, D, x)[n]] = Rounds(F, D, x)[n]
<1>f. PICK f : f = Rounds(F, D, x)
  OBVIOUS
<1>1. f \in [Nat -> D] /\ Iterates(f, F, x)
  BY <1>f, RoundsIterate
<1> DEFINE T == { k \in Nat : F[f[k]] = f[k] \/ size[f[k]] + k <= size[x] }
<1>2. 0 \in T
  <2>1. size[f[0]] + 0 <= size[x]
    BY <1>1 DEF Iterates
  <2> QED
    BY <2>1
<1>3. ASSUME NEW k \in T PROVE k + 1 \in T
  <2>1. f[k + 1] = F[f[k]] /\ f[k] \in D /\ f[k + 1] \in D
    BY <1>1 DEF Iterates
  <2>2. CASE F[f[k]] = f[k]
    BY <2>1, <2>2
  <2>3. CASE F[F[f[k]]] = F[f[k]]
    BY <2>1, <2>3
  <2>4. CASE size[f[k]] + k <= size[x] /\ size[F[f[k]]] < size[f[k]]
    <3>1. size[f[k + 1]] < size[f[k]]
      BY <2>1, <2>4
    <3>2. size[f[k]] \in Nat /\ size[f[k + 1]] \in Nat /\ size[x] \in Nat
      BY <2>1
    <3>3. size[f[k + 1]] + (k + 1) <= size[x]
      BY <2>4, <3>1, <3>2
    <3> QED
      BY <3>3
  <2> QED
    BY <2>1, <2>2, <2>3, <2>4
<1>4. T = Nat
  <2> HIDE DEF T
  <2> QED
    BY <1>2, <1>3, EveryNumber DEF T
<1>5. F[f[n]] = f[n] \/ size[f[n]] + n <= size[x]
  BY <1>4
<1>6. size[f[n]] \in Nat \ {0} /\ size[x] \in Nat
  BY <1>1
<1>7. F[f[n]] = f[n]
  BY <1>5, <1>6
<1> QED
  BY <1>7, <1>f

\* Min of the community modules is the least number of a set.
LEMMA MinIsLeast ==
  ASSUME NEW S \in SUBSET Nat, S # {}
  PROVE  Min(S) \in S /\ \A n \in S : Min(S) <= n
<1>1. PICK n \in S : \A m \in S : ~(m < n)
  BY LeastNumber
<1>2. \A m \in S : n <= m
  BY <1>1
<1> QED
  BY <1>2 DEF Min

-----------------------------------------------------------------------------
(* Payloads.                                                                *)

\* What is inside all layers.
Ends == Leaves \union Cuts

\* Layers around one of these, in any number and order: the payloads that the code
\* meets, IsPayload among them, and what it makes of them.
Shapes ==
  { payload \in Seq(Layers \union Ends) :
      /\ Len(payload) > 0
      /\ payload[Len(payload)] \in Ends
      /\ \A i \in 1..(Len(payload) - 1) : payload[i] \in Layers }

\* The bytes after some of the layers are a payload again.
LEMMA FromShape ==
  ASSUME NEW payload \in Shapes, NEW i \in 1..Len(payload)
  PROVE  /\ From(payload, i) \in Shapes
         /\ Len(From(payload, i)) = Len(payload) - i + 1
         /\ \A j \in 1..(Len(payload) - i + 1) : From(payload, i)[j] = payload[j + i - 1]
<1> DEFINE n == Len(payload)
           s == From(payload, i)
<1>1. payload \in Seq(Layers \union Ends) /\ n \in Nat \ {0}
  BY DEF Shapes
<1>2. /\ s \in Seq(Layers \union Ends) /\ Len(s) = n - i + 1
      /\ \A j \in 1..(n - i + 1) : s[j] = payload[i + j - 1]
  BY <1>1, SubSeqProperties DEF From
<1> HIDE DEF s
<1>3. s[Len(s)] = payload[n]
  <2>1. n - i + 1 \in 1..(n - i + 1) /\ i + (n - i + 1) - 1 = n
    BY <1>1
  <2> QED
    BY <1>2, <2>1
<1>4. ASSUME NEW j \in 1..(Len(s) - 1) PROVE s[j] \in Layers
  <2>1. j \in 1..(n - i + 1) /\ i + j - 1 \in 1..(n - 1)
    BY <1>1, <1>2
  <2>2. payload[i + j - 1] \in Layers
    BY <2>1 DEF Shapes
  <2> QED
    BY <1>2, <2>1, <2>2
<1>5. Len(s) > 0
  BY <1>1, <1>2
<1>6. s \in Shapes
  BY <1>2, <1>3, <1>4, <1>5 DEF Shapes
<1>7. \A j \in 1..(n - i + 1) : s[j] = payload[j + i - 1]
  <2>1. \A j \in 1..(n - i + 1) : i + j - 1 = j + i - 1
    BY <1>1
  <2> QED
    BY <1>2, <2>1
<1> QED
  BY <1>2, <1>6, <1>7 DEF s

\* The bytes after the first layer.
LEMMA TailShape ==
  ASSUME NEW payload \in Shapes, payload[1] \notin Ends
  PROVE  /\ Len(payload) >= 2
         /\ Tail(payload) = From(payload, 2)
         /\ Tail(payload) \in Shapes
         /\ Len(Tail(payload)) = Len(payload) - 1
         /\ Tail(payload)[1] = payload[2]
         /\ Tail(payload) # payload
<1>1. payload \in Seq(Layers \union Ends) /\ Len(payload) \in Nat \ {0} /\ payload # <<>>
  BY DEF Shapes
<1>2. Len(payload) >= 2
  BY <1>1 DEF Shapes
<1>3. Tail(payload) = From(payload, 2)
  BY <1>1, TailIsSubSeq DEF From
<1>4. /\ From(payload, 2) \in Shapes
      /\ Len(From(payload, 2)) = Len(payload) - 2 + 1
      /\ \A j \in 1..(Len(payload) - 2 + 1) : From(payload, 2)[j] = payload[j + 2 - 1]
  <2>1. 2 \in 1..Len(payload)
    BY <1>1, <1>2
  <2> QED
    BY <2>1, FromShape
<1>5. 1 \in 1..(Len(payload) - 2 + 1) /\ 1 + 2 - 1 = 2
  BY <1>1, <1>2
<1>6. From(payload, 2)[1] = payload[2]
  BY <1>4, <1>5
<1>7. Len(payload) - 2 + 1 = Len(payload) - 1
  BY <1>1
<1>8. From(payload, 2) # payload
  BY <1>1, <1>4, <1>7
<1> QED
  BY <1>2, <1>3, <1>4, <1>6, <1>7, <1>8

\* A payload and the places in it.
LEMMA ShapeTypes ==
  ASSUME NEW payload \in Shapes
  PROVE  /\ payload \in Seq(Layers \union Ends)
         /\ payload # <<>>
         /\ Len(payload) \in Nat \ {0}
         /\ DOMAIN payload = 1..Len(payload)
         /\ Head(payload) = payload[1]
         /\ 1 \in 1..Len(payload)
BY DEF Shapes

\* Names that a proof must tell apart.
LEMMA NamesApart ==
  /\ Records \intersect Ends = {} /\ Records \intersect Transparent = {}
  /\ "prefix" \notin Ends \union Records /\ "record" \in Records
  /\ Transparent \intersect Ends = {}
BY DEF Records, Ends, Leaves, Cuts, Transparent

\* In a payload that does not begin with a record, a visible record is followed by
\* something, and the first of them is where the loop goes on.
LEMMA EmbeddedRecord ==
  ASSUME NEW payload \in Shapes
  PROVE  LET marked == { i \in Visible(payload) : payload[i] = "record" } IN
         \/ marked = {} /\ extractEmbeddedExportJSON(payload) = payload
         \/ \E i \in 2..Len(payload) :
              /\ i - 1 \in marked /\ \A j \in marked : i - 1 <= j
              /\ extractEmbeddedExportJSON(payload) = From(payload, i)
              /\ From(payload, i) # payload
<1> DEFINE marked == { i \in Visible(payload) : payload[i] = "record" }
<1>1. CASE marked = {}
  BY <1>1 DEF extractEmbeddedExportJSON
<1>2. CASE marked # {}
  <2>1. marked \in SUBSET Nat /\ marked \subseteq 1..Len(payload)
    BY ShapeTypes DEF Visible
  <2> DEFINE i == Min(marked) + 1
  <2>2. Min(marked) \in marked /\ \A j \in marked : Min(marked) <= j
    BY <1>2, <2>1, MinIsLeast
  <2>3. extractEmbeddedExportJSON(payload) = From(payload, i)
    BY <1>2 DEF extractEmbeddedExportJSON
  <2> HIDE DEF marked
  <2>4. Min(marked) \in 1..Len(payload)
    BY <2>1, <2>2
  <2>5. Min(marked) # Len(payload)
    <3>1. payload[Min(marked)] = "record"
      BY <2>2 DEF marked
    <3>2. payload[Len(payload)] \in Ends
      BY DEF Shapes
    <3> QED
      BY <3>1, <3>2, NamesApart
  <2>6. i \in 2..Len(payload) /\ i - 1 = Min(marked)
    BY <2>4, <2>5, ShapeTypes
  <2>7. From(payload, i) # payload
    <3>1. i \in 1..Len(payload)
      BY <2>6
    <3>2. Len(From(payload, i)) = Len(payload) - i + 1
      BY <3>1, FromShape
    <3>3. Len(payload) - i + 1 # Len(payload)
      BY <2>6, ShapeTypes
    <3> QED
      BY <3>2, <3>3
  <2> QED
    BY <2>2, <2>3, <2>6, <2>7 DEF marked
<1> QED
  BY <1>1, <1>2

\* A payload without layers.
LEMMA OneShape ==
  ASSUME NEW end \in Ends
  PROVE  <<end>> \in Shapes /\ <<end>>[1] = end /\ Head(<<end>>) = end /\ Len(<<end>>) = 1
<1>1. <<end>> \in Seq(Layers \union Ends)
  OBVIOUS
<1>2. Len(<<end>>) = 1 /\ <<end>>[1] = end /\ Head(<<end>>) = end
  OBVIOUS
<1>3. \A i \in 1..(1 - 1) : FALSE
  OBVIOUS
<1>4. PICK s : s = <<end>>
  OBVIOUS
<1>5. s \in Shapes
  BY <1>1, <1>2, <1>3, <1>4 DEF Shapes
<1> QED
  BY <1>2, <1>4, <1>5

\* Where the search for a marker begins.
LEMMA OpeningFound ==
  ASSUME NEW payload \in Shapes
  PROVE  /\ Opening(payload) \in 1..Len(payload)
         /\ payload[Opening(payload)] \notin {"prefix", "string"}
         /\ \A j \in 1..Len(payload) :
              payload[j] \notin {"prefix", "string"} => Opening(payload) <= j
<1> DEFINE places == { i \in DOMAIN payload : payload[i] \notin {"prefix", "string"} }
<1>1. Len(payload) \in Nat \ {0} /\ DOMAIN payload = 1..Len(payload)
  BY ShapeTypes
<1>2. places \in SUBSET Nat
  BY <1>1
<1>3. places # {}
  <2>1. payload[Len(payload)] \notin {"prefix", "string"}
    BY DEF Shapes, Ends, Leaves, Cuts
  <2> QED
    BY <1>1, <2>1
<1>4. Min(places) \in places /\ \A j \in places : Min(places) <= j
  BY <1>2, <1>3, MinIsLeast
<1> QED
  BY <1>1, <1>4 DEF Opening

\* A payload that begins with neither a prefix nor a quote.
LEMMA StripAtOnce ==
  ASSUME NEW payload \in Shapes, payload[1] \notin {"prefix", "string"}
  PROVE  /\ Opening(payload) = 1
         /\ stripLeadingApplicationPrefix(payload)
              = IF payload[1] = "array" THEN <<"cut array">>
                ELSE IF payload[1] = "marked text" THEN <<"cut text">>
                ELSE payload
<1>1. Len(payload) \in Nat \ {0} /\ Head(payload) = payload[1] /\ 1 \in 1..Len(payload)
  BY ShapeTypes
<1>2. Opening(payload) = 1
  BY <1>1, OpeningFound
<1>3. 0 * PrefixBytes + 2^(1 - 1 - 0) - 1 = 0
  BY PrefixAssumption DEF maxSkip
<1>4. CASE payload[1] = "array"
  <2>1. Skipped(payload) = 0 * PrefixBytes + 2^(1 - 1 - 0) - 1 + 1
    BY <1>1, <1>2, <1>4 DEF Skipped
  <2>2. Skipped(payload) \in 1..maxSkip
    BY <1>3, <2>1 DEF maxSkip
  <2>3. FromMarker(payload) = <<"cut array">>
    BY <1>2, <1>4 DEF FromMarker
  <2> QED
    BY <1>2, <1>4, <2>2, <2>3 DEF stripLeadingApplicationPrefix, HasMarker
<1>5. CASE payload[1] = "marked text"
  <2>1. Skipped(payload) = 0 * PrefixBytes + 2^(1 - 1 - 0) - 1 + 2
    BY <1>1, <1>2, <1>5 DEF Skipped
  <2>2. Skipped(payload) \in 1..maxSkip
    BY <1>3, <2>1 DEF maxSkip
  <2>3. FromMarker(payload) = <<"cut text">>
    <3>1. ~(1 > 1) /\ "marked text" # "array"
      OBVIOUS
    <3> QED
      BY <1>2, <1>5, <3>1 DEF FromMarker
  <2> QED
    BY <1>2, <1>5, <2>2, <2>3 DEF stripLeadingApplicationPrefix, HasMarker
<1>6. CASE payload[1] \notin {"array", "marked text"}
  <2>1. Skipped(payload) = 0 * PrefixBytes + 2^(1 - 1 - 0) - 1 + 0
    BY <1>1, <1>2, <1>6 DEF Skipped
  <2>2. Skipped(payload) \notin 1..maxSkip
    BY <1>3, <2>1 DEF maxSkip
  <2>3. stripLeadingApplicationPrefix(payload) = payload
    BY <2>2 DEF stripLeadingApplicationPrefix
  <2>4. payload[1] # "array" /\ payload[1] # "marked text"
    BY <1>6
  <2> QED
    BY <1>2, <2>3, <2>4
<1> QED
  BY <1>2, <1>4, <1>5, <1>6

\* What the rule leaves of a payload: the payload, the bytes after some layers, or what it
\* cuts.
LEMMA StripResult ==
  ASSUME NEW payload \in Shapes
  PROVE  \/ stripLeadingApplicationPrefix(payload) = payload
         \/ \E c \in Cuts : stripLeadingApplicationPrefix(payload) = <<c>>
         \/ \E i \in 2..Len(payload) : stripLeadingApplicationPrefix(payload) = From(payload, i)
<1>1. {"cut array", "cut text", "cut string"} = Cuts
  BY DEF Cuts
<1>2. CASE payload[1] \notin {"prefix", "string"}
  BY <1>1, <1>2, StripAtOnce
<1>3. CASE payload[1] \in {"prefix", "string"}
  <2>1. Opening(payload) # 1 /\ Opening(payload) \in 1..Len(payload)
    BY <1>3, OpeningFound
  <2>2. Opening(payload) \in 2..Len(payload)
    BY <2>1, ShapeTypes
  <2>3. \/ stripLeadingApplicationPrefix(payload) = payload
        \/ stripLeadingApplicationPrefix(payload) = FromMarker(payload)
    BY DEF stripLeadingApplicationPrefix
  <2>4. \/ FromMarker(payload) \in {<<"cut string">>, <<"cut array">>, <<"cut text">>}
        \/ FromMarker(payload) = From(payload, Opening(payload))
    BY DEF FromMarker
  <2> QED
    BY <1>1, <2>2, <2>3, <2>4
<1> QED
  BY <1>2, <1>3

\* What is cut is left alone.
LEMMA UnwrapCut == ASSUME NEW c \in Cuts PROVE unwrapPayloadLayer(<<c>>) = <<c>>
<1>c. PICK cut : cut = <<c>>
  OBVIOUS
<1>1. cut \in Shapes /\ cut[1] = c /\ Head(cut) = c /\ Len(cut) = 1
  BY <1>c, OneShape DEF Ends
<1>2. c \notin Records /\ c \notin {"prefix", "string", "array", "marked text", "record"}
  BY DEF Records, Cuts
<1>3. unwrapEmbeddedExportRecord(cut) = cut
  BY <1>1, <1>2 DEF unwrapEmbeddedExportRecord
<1>4. extractEmbeddedExportJSON(cut) = cut
  <2>1. \A i \in 2..1 : FALSE
    OBVIOUS
  <2> QED
    BY <1>1, <2>1, EmbeddedRecord
<1>5. stripLeadingApplicationPrefix(cut) = cut
  BY <1>1, <1>2, StripAtOnce
<1>6. unwrapPayloadLayer(cut) = cut
  BY <1>3, <1>4, <1>5 DEF unwrapPayloadLayer
<1> QED
  BY <1>6, <1>c

\* What one round leaves of a payload: the payload, or the bytes after some layer, or
\* what it cuts.
LEMMA UnwrapStep ==
  ASSUME NEW payload \in Shapes
  PROVE  \/ unwrapPayloadLayer(payload) = payload
         \/ \E c \in Cuts : unwrapPayloadLayer(payload) = <<c>>
         \/ \E i \in 2..Len(payload) : unwrapPayloadLayer(payload) = From(payload, i)
<1> DEFINE u == unwrapPayloadLayer(payload)
<1>1. CASE payload[1] \in Records
  <2>1. payload[1] \notin Ends
    BY <1>1, NamesApart
  <2>2. Len(payload) >= 2 /\ Tail(payload) = From(payload, 2)
        /\ Len(Tail(payload)) = Len(payload) - 1
    BY <2>1, TailShape
  <2>3. unwrapEmbeddedExportRecord(payload) = From(payload, 2)
    BY <1>1, <2>2, ShapeTypes DEF unwrapEmbeddedExportRecord
  <2>4. From(payload, 2) # payload
    BY <2>2, ShapeTypes
  <2>5. u = From(payload, 2)
    <3>1. unwrapEmbeddedExportRecord(payload) # payload
      BY <2>3, <2>4
    <3> QED
      BY <2>3, <3>1 DEF unwrapPayloadLayer
  <2>6. 2 \in 2..Len(payload)
    BY <2>2, ShapeTypes
  <2> QED
    BY <2>5, <2>6
<1>2. CASE payload[1] \notin Records
  <2>1. unwrapEmbeddedExportRecord(payload) = payload
    BY <1>2, ShapeTypes DEF unwrapEmbeddedExportRecord
  <2>2. CASE extractEmbeddedExportJSON(payload) # payload
    <3>1. u = extractEmbeddedExportJSON(payload)
      BY <2>1, <2>2 DEF unwrapPayloadLayer
    <3> QED
      BY <2>2, <3>1, EmbeddedRecord
  <2>3. CASE extractEmbeddedExportJSON(payload) = payload
    <3>1. u = stripLeadingApplicationPrefix(payload)
      BY <2>1, <2>3 DEF unwrapPayloadLayer
    <3> QED
      BY <3>1, StripResult
  <2> QED
    BY <2>2, <2>3
<1> QED
  BY <1>1, <1>2

\* One round, as a function on payloads.
Unwrap == [payload \in Shapes |-> unwrapPayloadLayer(payload)]

\* The measure by which the loop ends.
Lengths == [payload \in Shapes |-> Len(payload)]

\* A round leaves a payload as it is, or makes it shorter, or has cut something, where
\* the loop ends.
LEMMA UnwrapShortens ==
  /\ Unwrap \in [Shapes -> Shapes]
  /\ \A payload \in Shapes : Lengths[payload] \in Nat \ {0}
  /\ \A payload \in Shapes :
       \/ Unwrap[payload] = payload
       \/ Lengths[Unwrap[payload]] < Lengths[payload]
       \/ Unwrap[Unwrap[payload]] = Unwrap[payload]
<1> DEFINE Pieces == { <<c>> : c \in Cuts }
<1>2. \A cut \in Pieces : cut \in Shapes /\ unwrapPayloadLayer(cut) = cut
  BY OneShape, UnwrapCut DEF Ends
<1>3. ASSUME NEW payload \in Shapes
      PROVE  \/ unwrapPayloadLayer(payload) = payload
             \/ unwrapPayloadLayer(payload) \in Pieces
             \/ /\ unwrapPayloadLayer(payload) \in Shapes
                /\ Len(unwrapPayloadLayer(payload)) < Len(payload)
  <2>1. ASSUME NEW i \in 2..Len(payload), unwrapPayloadLayer(payload) = From(payload, i)
        PROVE  /\ unwrapPayloadLayer(payload) \in Shapes
               /\ Len(unwrapPayloadLayer(payload)) < Len(payload)
    <3>1. i \in 1..Len(payload) /\ Len(payload) - i + 1 < Len(payload)
      BY ShapeTypes
    <3> QED
      BY <2>1, <3>1, FromShape
  <2> QED
    BY <2>1, UnwrapStep
<1> HIDE DEF Pieces
<1>4. Unwrap \in [Shapes -> Shapes]
  BY <1>2, <1>3 DEF Unwrap
<1>5. \A payload \in Shapes : Lengths[payload] \in Nat \ {0}
  BY ShapeTypes DEF Lengths
<1>6. ASSUME NEW payload \in Shapes
      PROVE  \/ Unwrap[payload] = payload
             \/ Lengths[Unwrap[payload]] < Lengths[payload]
             \/ Unwrap[Unwrap[payload]] = Unwrap[payload]
  BY <1>2, <1>3 DEF Unwrap, Lengths
<1> QED
  BY <1>4, <1>5, <1>6

\* Some rounds of the loop of unwrapPayloadLayers.
LEMMA UnwrapRounds ==
  ASSUME NEW payload \in Shapes, NEW n \in Nat
  PROVE  Repeat(unwrapPayloadLayer, n, payload) = Rounds(Unwrap, Shapes, payload)[n]
<1>f. PICK f : f = Rounds(Unwrap, Shapes, payload)
  OBVIOUS
<1>1. f \in [Nat -> Shapes] /\ Iterates(f, Unwrap, payload)
  BY <1>f, UnwrapShortens, RoundsIterate
<1>h. PICK h : h = [i \in 0..n |-> f[i]]
  OBVIOUS
<1>3. ASSUME NEW i \in 0..n
      PROVE  h[i] = IF i = 0 THEN payload ELSE unwrapPayloadLayer(h[i - 1])
  <2>1. CASE i = 0
    BY <1>1, <1>h, <2>1 DEF Iterates
  <2>2. CASE i # 0
    <3>1. i - 1 \in Nat /\ i - 1 \in 0..n /\ i - 1 + 1 = i
      BY <2>2
    <3>2. f[i] = Unwrap[f[i - 1]] /\ f[i - 1] \in Shapes
      BY <1>1, <3>1 DEF Iterates
    <3> QED
      BY <1>h, <2>2, <3>1, <3>2 DEF Unwrap
  <2> QED
    BY <2>1, <2>2
<1>4. h = [i \in 0..n |-> IF i = 0 THEN payload ELSE unwrapPayloadLayer(h[i - 1])]
  BY <1>h, <1>3
<1>g. PICK g : g = CHOOSE after :
                     after = [i \in 0..n |->
                                IF i = 0 THEN payload ELSE unwrapPayloadLayer(after[i - 1])]
  OBVIOUS
<1>5. g = [i \in 0..n |-> IF i = 0 THEN payload ELSE unwrapPayloadLayer(g[i - 1])]
  BY <1>4, <1>g
<1>6. Repeat(unwrapPayloadLayer, n, payload) = g[n]
  BY <1>g DEF Repeat
<1> DEFINE T == { i \in Nat : i <= n => g[i] = f[i] }
<1>7. 0 \in T
  BY <1>1, <1>5 DEF Iterates
<1>8. ASSUME NEW i \in T PROVE i + 1 \in T
  <2>1. CASE i + 1 <= n
    <3>1. i + 1 \in 0..n /\ i + 1 # 0 /\ i + 1 - 1 = i /\ i <= n
      BY <2>1
    <3>2. g[i + 1] = unwrapPayloadLayer(g[i]) /\ g[i] = f[i]
      BY <1>5, <3>1
    <3>3. f[i + 1] = Unwrap[f[i]] /\ f[i] \in Shapes
      BY <1>1 DEF Iterates
    <3> QED
      BY <3>2, <3>3 DEF Unwrap
  <2> QED
    BY <2>1
<1>9. T = Nat
  <2> HIDE DEF T
  <2> QED
    BY <1>7, <1>8, EveryNumber DEF T
<1>10. g[n] = f[n]
  BY <1>9
<1> QED
  BY <1>6, <1>10, <1>f

\* All of them.
LEMMA LayersAreRounds ==
  ASSUME NEW payload \in Shapes
  PROVE  unwrapPayloadLayers(payload) = Rounds(Unwrap, Shapes, payload)[MaxDepth]
BY DepthAssumption, UnwrapRounds DEF unwrapPayloadLayers

\* The loop may stop at the first round that changes nothing, as the code does: the
\* rounds that are left would change nothing either.
THEOREM LoopMayStop ==
  ASSUME NEW payload \in Shapes, NEW n \in 0..(MaxDepth - 1),
         Repeat(unwrapPayloadLayer, n + 1, payload) = Repeat(unwrapPayloadLayer, n, payload)
  PROVE  unwrapPayloadLayers(payload) = Repeat(unwrapPayloadLayer, n, payload)
<1>f. PICK f : f = Rounds(Unwrap, Shapes, payload)
  OBVIOUS
<1>1. n \in Nat /\ n + 1 \in Nat /\ MaxDepth - n \in Nat /\ n + (MaxDepth - n) = MaxDepth
  BY DepthAssumption
<1>2. f[n + 1] = f[n]
  BY <1>1, <1>f, UnwrapRounds
<1>k. PICK k \in Nat : n + k = MaxDepth
  BY <1>1
<1>s. Unwrap \in [Shapes -> Shapes]
  BY UnwrapShortens
<1>3. f[n + k] = f[n]
  BY <1>1, <1>2, <1>f, <1>s, RoundsRest
<1> QED
  BY <1>1, <1>3, <1>f, <1>k, UnwrapRounds, LayersAreRounds

\* Rounds after rounds of this loop.
LEMMA UnwrapAdd ==
  ASSUME NEW payload \in Shapes, NEW j \in Nat, NEW k \in Nat
  PROVE  Rounds(Unwrap, Shapes, Rounds(Unwrap, Shapes, payload)[j])[k]
           = Rounds(Unwrap, Shapes, payload)[j + k]
<1>1. Unwrap \in [Shapes -> Shapes]
  BY UnwrapShortens
<1> QED
  BY <1>1, RoundsAdd

\* The two calls of unwrapPayloadLayers on the way to the display.
LEMMA CallsAreRounds ==
  ASSUME NEW payload \in Shapes
  PROVE  unwrapPayloadLayers(plaintextPayloadBytes(payload))
           = Rounds(Unwrap, Shapes, payload)[2 * MaxDepth]
<1>1. MaxDepth \in Nat /\ MaxDepth + MaxDepth = 2 * MaxDepth
  BY DepthAssumption
<1>2. PICK x : x = Rounds(Unwrap, Shapes, payload)[MaxDepth]
  OBVIOUS
<1>3. x \in Shapes
  BY <1>1, <1>2, UnwrapShortens, RoundsIterate
<1>4. plaintextPayloadBytes(payload) = x
  BY <1>2, LayersAreRounds DEF plaintextPayloadBytes
<1>5. unwrapPayloadLayers(x) = Rounds(Unwrap, Shapes, x)[MaxDepth]
  BY <1>3, LayersAreRounds
<1>6. Rounds(Unwrap, Shapes, x)[MaxDepth] = Rounds(Unwrap, Shapes, payload)[MaxDepth + MaxDepth]
  BY <1>1, <1>2, UnwrapShortens, RoundsAdd
<1> QED
  BY <1>1, <1>4, <1>5, <1>6

\* A layer around a payload.
LEMMA WrapShape ==
  ASSUME NEW layer \in Layers, NEW payload \in Shapes
  PROVE  /\ <<layer>> \o payload \in Shapes
         /\ Len(<<layer>> \o payload) = Len(payload) + 1
         /\ (<<layer>> \o payload)[1] = layer
         /\ \A j \in 1..Len(payload) : (<<layer>> \o payload)[j + 1] = payload[j]
<1>q. PICK q : q = <<layer>> \o payload
  OBVIOUS
<1>1. payload \in Seq(Layers \union Ends) /\ Len(payload) \in Nat \ {0}
  BY ShapeTypes
<1>2. /\ <<layer>> \in Seq(Layers \union Ends) /\ Len(<<layer>>) = 1 /\ <<layer>>[1] = layer
  OBVIOUS
<1>3. /\ q \in Seq(Layers \union Ends) /\ Len(q) = 1 + Len(payload)
      /\ \A i \in 1..(1 + Len(payload)) :
           q[i] = IF i <= 1 THEN <<layer>>[i] ELSE payload[i - 1]
  BY <1>q, <1>1, <1>2, ConcatProperties
<1>4. q[1] = layer
  BY <1>1, <1>2, <1>3
<1>5. ASSUME NEW j \in 1..Len(payload) PROVE q[j + 1] = payload[j]
  <2>1. j + 1 \in 1..(1 + Len(payload)) /\ ~(j + 1 <= 1) /\ j + 1 - 1 = j
    BY <1>1
  <2> QED
    BY <1>3, <2>1
<1>6. Len(q) > 0 /\ Len(q) = Len(payload) + 1
  BY <1>1, <1>3
<1>7. q[Len(q)] \in Ends
  <2>1. q[Len(q)] = payload[Len(payload)]
    BY <1>1, <1>5, <1>6
  <2> QED
    BY <2>1 DEF Shapes
<1>8. ASSUME NEW i \in 1..(Len(q) - 1) PROVE q[i] \in Layers
  <2>1. CASE i = 1
    BY <1>4, <2>1
  <2>2. CASE i # 1
    <3>1. i - 1 \in 1..(Len(payload) - 1) /\ i - 1 \in 1..Len(payload) /\ i - 1 + 1 = i
      BY <1>1, <1>6, <2>2
    <3>2. payload[i - 1] \in Layers
      BY <3>1 DEF Shapes
    <3> QED
      BY <1>5, <3>1, <3>2
  <2> QED
    BY <2>1, <2>2
<1>9. q \in Shapes
  BY <1>3, <1>6, <1>7, <1>8 DEF Shapes
<1> QED
  BY <1>q, <1>4, <1>5, <1>6, <1>9

\* Wrapping and taking the bytes after the wrapper gives the payload back.
LEMMA WrapAndStrip ==
  ASSUME NEW layer \in Layers, NEW payload \in Shapes
  PROVE  From(<<layer>> \o payload, 2) = payload
<1>q. PICK q : q = <<layer>> \o payload
  OBVIOUS
<1>1. /\ q \in Shapes /\ Len(q) = Len(payload) + 1
      /\ \A j \in 1..Len(payload) : q[j + 1] = payload[j]
  BY <1>q, WrapShape
<1>2. Len(payload) \in Nat \ {0} /\ payload \in Seq(Layers \union Ends)
  BY ShapeTypes
<1>3. 2 \in 1..Len(q) /\ Len(q) - 2 + 1 = Len(payload)
  BY <1>1, <1>2
<1>4. /\ From(q, 2) \in Shapes /\ Len(From(q, 2)) = Len(payload)
      /\ \A j \in 1..Len(payload) : From(q, 2)[j] = q[j + 2 - 1]
  BY <1>1, <1>3, FromShape
<1>5. \A j \in 1..Len(payload) : j + 2 - 1 = j + 1
  BY <1>2
<1>6. \A j \in 1..Len(payload) : From(q, 2)[j] = payload[j]
  BY <1>1, <1>4, <1>5
<1>7. From(q, 2) \in Seq(Layers \union Ends)
  BY <1>4, ShapeTypes
<1>8. From(q, 2) = payload
  BY <1>2, <1>4, <1>6, <1>7, SeqEqual
<1> QED
  BY <1>q, <1>8

\* One round takes a record off.
LEMMA UnwrapRecord ==
  ASSUME NEW layer \in Records, NEW payload \in Shapes
  PROVE  unwrapPayloadLayer(<<layer>> \o payload) = payload
<1>1. layer \in Layers
  BY DEF Layers
<1>q. PICK q : q = <<layer>> \o payload
  OBVIOUS
<1>2. q \in Shapes /\ q[1] = layer /\ Len(q) = Len(payload) + 1 /\ From(q, 2) = payload
  BY <1>1, <1>q, WrapShape, WrapAndStrip
<1>3. Tail(q) = payload
  BY <1>2, NamesApart, TailShape
<1>4. unwrapEmbeddedExportRecord(q) = payload
  BY <1>2, <1>3, ShapeTypes DEF unwrapEmbeddedExportRecord
<1>5. payload # q
  BY <1>2, ShapeTypes
<1> QED
  BY <1>q, <1>4, <1>5 DEF unwrapPayloadLayer

\* One round takes a record in a frame off.
LEMMA UnwrapFramedRecord ==
  ASSUME NEW payload \in Shapes
  PROVE  /\ <<"frame", "record">> \o payload \in Shapes
         /\ unwrapPayloadLayer(<<"frame", "record">> \o payload) = payload
<1>1. "frame" \in Layers /\ "record" \in Layers /\ "frame" \notin Records
      /\ "frame" \in Transparent /\ "frame" # "record"
  BY DEF Layers, Records, Transparent
<1>r. PICK r : r = <<"record">> \o payload
  OBVIOUS
<1>2. /\ r \in Shapes /\ r[1] = "record" /\ Len(r) = Len(payload) + 1
      /\ From(r, 2) = payload
      /\ \A j \in 1..Len(payload) : r[j + 1] = payload[j]
  BY <1>1, <1>r, WrapShape, WrapAndStrip
<1>q. PICK q : q = <<"frame">> \o r
  OBVIOUS
<1>3. /\ q \in Shapes /\ q[1] = "frame" /\ Len(q) = Len(r) + 1
      /\ \A j \in 1..Len(r) : q[j + 1] = r[j]
  BY <1>1, <1>2, <1>q, WrapShape
<1>4. <<"frame", "record">> \o payload = q
  <2>1. /\ <<"frame">> \in Seq(Layers \union Ends) /\ <<"record">> \in Seq(Layers \union Ends)
        /\ payload \in Seq(Layers \union Ends)
    BY <1>1, ShapeTypes
  <2>2. <<"frame">> \o <<"record">> = <<"frame", "record">>
    <3>a. PICK a : a = <<"frame">> \o <<"record">>
      OBVIOUS
    <3>1. /\ a \in Seq(Layers \union Ends) /\ Len(a) = 1 + 1
          /\ \A i \in 1..(1 + 1) : a[i] = IF i <= 1 THEN <<"frame">>[i] ELSE <<"record">>[i - 1]
      BY <2>1, <3>a, ConcatProperties
    <3>b. PICK b : b = <<"frame", "record">>
      OBVIOUS
    <3>2. b \in Seq(Layers \union Ends) /\ Len(b) = 2 /\ b[1] = "frame" /\ b[2] = "record"
      BY <1>1, <3>b
    <3>3. a[1] = "frame" /\ a[2] = "record"
      BY <3>1
    <3>4. \A i \in 1..Len(a) : a[i] = b[i]
      BY <3>1, <3>2, <3>3
    <3>5. a = b
      BY <3>1, <3>2, <3>4, SeqEqual
    <3> QED
      BY <3>a, <3>b, <3>5
  <2>3. (<<"frame">> \o <<"record">>) \o payload = <<"frame">> \o (<<"record">> \o payload)
    BY <2>1, ConcatAssociative
  <2> QED
    BY <1>q, <1>r, <2>2, <2>3
<1>5. Len(payload) \in Nat \ {0} /\ payload \in Seq(Layers \union Ends)
  BY ShapeTypes
<1>6. q[2] = "record"
  <2>1. 1 \in 1..Len(r) /\ 1 + 1 = 2
    BY <1>2, <1>5
  <2> QED
    BY <1>2, <1>3, <2>1
<1>7. unwrapEmbeddedExportRecord(q) = q
  BY <1>1, <1>3, ShapeTypes DEF unwrapEmbeddedExportRecord
<1> DEFINE marked == { i \in Visible(q) : q[i] = "record" }
<1>8. 2 \in marked /\ 1 \notin marked
  <2>1. 2 \in DOMAIN q
    BY <1>2, <1>3, <1>5, ShapeTypes
  <2>2. \A k \in 1..(2 - 1) : q[k] \in Transparent
    BY <1>1, <1>3
  <2>3. 2 \in Visible(q)
    BY <2>1, <2>2 DEF Visible
  <2> QED
    BY <1>1, <1>3, <1>6, <2>3
<1>9. PICK i \in 2..Len(q) :
        /\ i - 1 \in marked /\ \A j \in marked : i - 1 <= j
        /\ extractEmbeddedExportJSON(q) = From(q, i) /\ From(q, i) # q
  BY <1>3, <1>8, EmbeddedRecord
<1>10. i = 3
  <2>1. i - 1 <= 2 /\ i - 1 # 1
    BY <1>8, <1>9
  <2>2. i \in Nat /\ i >= 2
    BY <1>2, <1>3, <1>5
  <2> QED
    BY <2>1, <2>2
<1>11. unwrapPayloadLayer(q) = From(q, 3)
  BY <1>7, <1>9, <1>10 DEF unwrapPayloadLayer
<1>12. 3 \in 1..Len(q) /\ Len(q) - 3 + 1 = Len(payload)
  BY <1>2, <1>3, <1>5
<1>13. /\ From(q, 3) \in Shapes /\ Len(From(q, 3)) = Len(payload)
       /\ \A j \in 1..Len(payload) : From(q, 3)[j] = q[j + 3 - 1]
  BY <1>3, <1>12, FromShape
<1>14. ASSUME NEW j \in 1..Len(payload) PROVE From(q, 3)[j] = payload[j]
  <2>1. j + 3 - 1 = (j + 1) + 1 /\ j + 1 \in 1..Len(r)
    BY <1>2, <1>5
  <2> QED
    BY <1>2, <1>3, <1>13, <2>1
<1>15. From(q, 3) \in Seq(Layers \union Ends)
  BY <1>13, ShapeTypes
<1>16. From(q, 3) = payload
  BY <1>5, <1>13, <1>14, <1>15, SeqEqual
<1> QED
  BY <1>3, <1>4, <1>11, <1>16

\* The two calls leave no layer that a round would still remove, of a payload as deep as
\* they reach.
THEOREM LayersAllPeeled ==
  ASSUME NEW payload \in Shapes, Len(payload) <= Reach,
         NEW left, left = unwrapPayloadLayers(plaintextPayloadBytes(payload))
  PROVE  left \in Shapes /\ unwrapPayloadLayer(left) = left
<1>1. 2 * MaxDepth \in Nat
  BY DepthAssumption
<1>2. PICK n \in Nat : n = 2 * MaxDepth
  BY <1>1
<1>3. Lengths[payload] <= n
  BY <1>2 DEF Reach, Lengths
<1>4. left = Rounds(Unwrap, Shapes, payload)[n]
  BY <1>2, CallsAreRounds
<1>5. left \in Shapes
  BY <1>4, UnwrapShortens, RoundsIterate
<1>6. Unwrap[left] = left
  BY <1>3, <1>4, UnwrapShortens, RoundsSettle
<1> QED
  BY <1>5, <1>6 DEF Unwrap

\* A payload and what one round makes of it are displayed alike, up to the depth.
LEMMA RoundDisplaysAlike ==
  ASSUME NEW payload \in Shapes, NEW q \in Shapes, unwrapPayloadLayer(q) = payload,
         Len(payload) < Reach
  PROVE  plaintextPreviewForDisplay(q) = plaintextPreviewForDisplay(payload)
<1> DEFINE n == 2 * MaxDepth - 1
<1>1. MaxDepth \in Nat \ {0} /\ n \in Nat /\ 1 + n = 2 * MaxDepth /\ n + 1 = 2 * MaxDepth
  BY DepthAssumption
<1>2. Len(payload) \in Nat \ {0} /\ Len(payload) <= n
  BY <1>1, ShapeTypes DEF Reach
<1> HIDE DEF n
<1>p. PICK f : f = Rounds(Unwrap, Shapes, payload)
  OBVIOUS
<1>q. PICK g : g = Rounds(Unwrap, Shapes, q)
  OBVIOUS
<1>3. Iterates(f, Unwrap, payload) /\ Iterates(g, Unwrap, q)
  BY <1>p, <1>q, UnwrapShortens, RoundsIterate
<1>4. Unwrap[f[n]] = f[n]
  <2>1. Lengths[payload] <= n
    BY <1>2 DEF Lengths
  <2> QED
    BY <1>1, <1>p, <2>1, UnwrapShortens, RoundsSettle
<1>5. f[n + 1] = f[n]
  BY <1>1, <1>3, <1>4 DEF Iterates
<1>6. g[1] = payload
  <2>1. g[0 + 1] = Unwrap[g[0]] /\ g[0] = q
    BY <1>3 DEF Iterates
  <2>2. 0 + 1 = 1
    OBVIOUS
  <2> QED
    BY <2>1, <2>2 DEF Unwrap
<1>7. f[n] = g[1 + n]
  <2>1. \A j \in Nat, k \in Nat :
           Rounds(Unwrap, Shapes, Rounds(Unwrap, Shapes, q)[j])[k]
             = Rounds(Unwrap, Shapes, q)[j + k]
    BY UnwrapAdd
  <2> QED
    BY <1>1, <1>p, <1>q, <1>6, <2>1
<1>8. f[2 * MaxDepth] = g[2 * MaxDepth]
  BY <1>1, <1>5, <1>7
<1>9. unwrapPayloadLayers(plaintextPayloadBytes(payload))
        = unwrapPayloadLayers(plaintextPayloadBytes(q))
  BY <1>8, <1>p, <1>q, CallsAreRounds
<1> QED
  BY <1>9 DEF plaintextPreviewForDisplay, formatPlaintextPayload

\* The agent's own records around a payload change nothing of what is displayed, for
\* every payload as deep as the code peels.
THEOREM RecordsPeeled == ASSUME NEW payload \in Shapes PROVE RecordsTransparent(payload)
<1> SUFFICES ASSUME Len(payload) < Reach
             PROVE  /\ plaintextPreviewForDisplay(<<"record">> \o payload)
                         = plaintextPreviewForDisplay(payload)
                    /\ plaintextPreviewForDisplay(<<"other record">> \o payload)
                         = plaintextPreviewForDisplay(payload)
                    /\ plaintextPreviewForDisplay(<<"frame", "record">> \o payload)
                         = plaintextPreviewForDisplay(payload)
  BY DEF RecordsTransparent
<1>1. ASSUME NEW layer \in Records
      PROVE  plaintextPreviewForDisplay(<<layer>> \o payload) = plaintextPreviewForDisplay(payload)
  <2>1. <<layer>> \o payload \in Shapes
    BY WrapShape DEF Layers
  <2> QED
    BY <2>1, UnwrapRecord, RoundDisplaysAlike
<1>2. "record" \in Records /\ "other record" \in Records
  BY DEF Records
<1>3. plaintextPreviewForDisplay(<<"frame", "record">> \o payload)
        = plaintextPreviewForDisplay(payload)
  BY UnwrapFramedRecord, RoundDisplaysAlike
<1> QED
  BY <1>1, <1>2, <1>3

-----------------------------------------------------------------------------
(* The text inside the usual wrappers.                                      *)

\* The payloads of TextReached, of any length.
TextShapes ==
  { payload \in Shapes :
      /\ payload[Len(payload)] \in Texts
      /\ \A i \in 1..(Len(payload) - 1) : payload[i + 1] \in Holds(payload[i]) }

\* What each layer may hold around such a text.
LEMMA HoldsValues ==
  /\ Holds("frame") = {"record"}
  /\ Holds("prefix") = Records \union {"http", "json"}
  /\ Holds("http") = {"record", "json", "string"} \union Texts
  /\ Holds("json") = Texts /\ Holds("string") = Texts
BY DEF Holds, Records

\* More names that a proof must tell apart.
LEMMA TextsApart ==
  /\ Texts = {"text", "marked text"} /\ "text" # "marked text"
  /\ Texts \subseteq Ends /\ Texts \intersect Layers = {}
  /\ Texts \intersect Records = {} /\ Texts \intersect {"prefix", "string", "json", "http"} = {}
  /\ Layers \intersect Ends = {}
BY DEF Texts, Layers, Records, Ends, Leaves, Cuts

\* What follows the first layer, and that only a text can be alone.
LEMMA TextNext ==
  ASSUME NEW payload \in TextShapes
  PROVE  /\ payload[1] \notin Layers =>
              Len(payload) = 1 /\ payload[1] \in Texts /\ payload = <<payload[1]>>
         /\ payload[1] \in Layers =>
              Len(payload) >= 2 /\ payload[2] \in Holds(payload[1])
         /\ payload[1] \in Layers \union Texts
<1>1. payload \in Shapes
  BY DEF TextShapes
<1>2. payload \in Seq(Layers \union Ends) /\ Len(payload) \in Nat \ {0}
  BY <1>1, ShapeTypes
<1>3. CASE Len(payload) = 1
  <2>1. payload[1] \in Texts
    BY <1>3 DEF TextShapes
  <2>t. PICK t : t = <<payload[1]>>
    OBVIOUS
  <2>2. t \in Seq(Layers \union Ends) /\ Len(t) = 1 /\ t[1] = payload[1]
    <3>1. payload[1] \in Layers \union Ends
      BY <2>1, TextsApart
    <3> QED
      BY <2>t, <3>1
  <2>3. payload = t
    BY <1>2, <1>3, <2>2, SeqEqual
  <2>4. payload[1] \notin Layers
    BY <2>1, TextsApart
  <2> QED
    BY <1>3, <2>1, <2>t, <2>3, <2>4
<1>4. CASE Len(payload) # 1
  <2> DEFINE n == Len(payload)
  <2> HIDE DEF n
  <2>0. n \in Nat \ {0} /\ n # 1
    BY <1>2, <1>4 DEF n
  <2>1. Len(payload) >= 2 /\ 1 \in 1..(Len(payload) - 1) /\ 1 + 1 = 2
    <3>1. n >= 2 /\ 1 \in 1..(n - 1)
      BY <2>0
    <3> QED
      BY <3>1 DEF n
  <2>2. payload[1] \in Layers
    BY <1>1, <2>1 DEF Shapes
  <2>3. payload[1 + 1] \in Holds(payload[1])
    BY <2>1 DEF TextShapes
  <2> QED
    BY <2>1, <2>2, <2>3
<1> QED
  BY <1>3, <1>4

\* The bytes after some of its layers still hold the text.
LEMMA TextFrom ==
  ASSUME NEW payload \in TextShapes, NEW i \in 1..Len(payload)
  PROVE  From(payload, i) \in TextShapes
<1> DEFINE n == Len(payload)
<1>1. payload \in Shapes /\ n \in Nat \ {0}
  BY ShapeTypes DEF TextShapes
<1>s. PICK s : s = From(payload, i)
  OBVIOUS
<1>2. /\ s \in Shapes /\ Len(s) = n - i + 1
      /\ \A j \in 1..(n - i + 1) : s[j] = payload[j + i - 1]
  BY <1>1, <1>s, FromShape
<1>3. s[Len(s)] \in Texts
  <2>1. n - i + 1 \in 1..(n - i + 1) /\ (n - i + 1) + i - 1 = n
    BY <1>1
  <2> QED
    BY <1>2, <2>1 DEF TextShapes
<1>4. ASSUME NEW j \in 1..(Len(s) - 1) PROVE s[j + 1] \in Holds(s[j])
  <2>1. /\ j \in 1..(n - i + 1) /\ j + 1 \in 1..(n - i + 1)
        /\ j + i - 1 \in 1..(n - 1) /\ (j + 1) + i - 1 = (j + i - 1) + 1
    BY <1>1, <1>2
  <2>2. payload[(j + i - 1) + 1] \in Holds(payload[j + i - 1])
    BY <2>1 DEF TextShapes
  <2> QED
    BY <1>2, <2>1, <2>2
<1> QED
  BY <1>2, <1>3, <1>4, <1>s DEF TextShapes

\* After a record the same is displayed: what it gives begins there, as what nothing is
\* before.
LEMMA CutAfterRecord ==
  ASSUME NEW payload \in TextShapes, NEW i \in 2..Len(payload), payload[i - 1] \in Records
  PROVE  TextOrCut(From(payload, i)) = TextOrCut(payload)
<1> DEFINE n == Len(payload)
<1>1. payload \in Shapes /\ n \in Nat \ {0} /\ i \in 1..n
  BY ShapeTypes DEF TextShapes
<1>s. PICK s : s = From(payload, i)
  OBVIOUS
<1>m. PICK m \in Nat : m = n - i + 1
  BY <1>1
<1>2. /\ Len(s) = m /\ m >= 1
      /\ \A j \in 1..m : s[j] = payload[j + i - 1]
  <2>1. /\ Len(s) = n - i + 1
        /\ \A j \in 1..(n - i + 1) : s[j] = payload[j + i - 1]
    BY <1>1, <1>s, FromShape
  <2>2. m >= 1
    BY <1>1, <1>m
  <2> QED
    BY <1>m, <2>1, <2>2
<1>3. ASSUME NEW j \in 1..m PROVE Begins(s, j) <=> Begins(payload, j + i - 1)
  <2>1. CASE j = 1
    <3>1. j + i - 1 - 1 = i - 1
      BY <1>1, <2>1
    <3> QED
      BY <2>1, <3>1 DEF Begins
  <2>2. CASE j # 1
    <3>1. j - 1 \in 1..m /\ (j - 1) + i - 1 = j + i - 1 - 1 /\ j + i - 1 # 1
      BY <1>1, <1>m, <2>2
    <3>2. s[j - 1] = payload[j + i - 1 - 1]
      BY <1>2, <3>1
    <3> QED
      BY <2>2, <3>1, <3>2 DEF Begins
  <2> QED
    BY <2>1, <2>2
<1>4. m \in 1..m /\ m + i - 1 = n
  BY <1>1, <1>m, <1>2
<1>5. s[m] = payload[n] /\ (Begins(s, m) <=> Begins(payload, n))
  BY <1>2, <1>3, <1>4
<1>6. CASE m = 1
  <2>1. Begins(s, m)
    BY <1>6 DEF Begins
  <2> QED
    BY <1>2, <1>5, <1>s, <2>1 DEF TextOrCut
<1>7. CASE m # 1
  <2>1. m - 1 \in 1..m /\ m - 1 + i - 1 = n - 1
    BY <1>2, <1>4, <1>7
  <2>2. s[m - 1] = payload[n - 1] /\ (Begins(s, m - 1) <=> Begins(payload, n - 1))
    BY <1>2, <1>3, <2>1
  <2> QED
    BY <1>2, <1>5, <1>s, <2>2 DEF TextOrCut
<1> QED
  BY <1>6, <1>7

\* The bytes before a record, an HTTP head or JSON are removed, and nothing else.
LEMMA TextPrefix ==
  ASSUME NEW payload \in TextShapes, payload[1] = "prefix"
  PROVE  /\ stripLeadingApplicationPrefix(payload) = Tail(payload)
         /\ Tail(payload) \in TextShapes /\ Tail(payload) # payload
         /\ TextOrCut(Tail(payload)) = TextOrCut(payload)
<1> DEFINE n == Len(payload)
<1>1. payload \in Shapes /\ n \in Nat \ {0} /\ Head(payload) = "prefix"
  BY ShapeTypes DEF TextShapes
<1>2. /\ n >= 2 /\ Tail(payload) = From(payload, 2) /\ Tail(payload) # payload
      /\ Len(Tail(payload)) = n - 1
  BY <1>1, NamesApart, TailShape
<1>3. 2 \in 1..n
  <2>1. n \in Nat /\ n >= 2
    BY <1>1, <1>2
  <2> HIDE DEF n
  <2> QED
    BY <2>1
<1>4. Tail(payload) \in TextShapes
  BY <1>2, <1>3, TextFrom
<1>5. payload[2] \in Records \union {"http", "json"}
  <2>1. "prefix" \in Layers
    BY DEF Layers
  <2> QED
    BY <2>1, TextNext, HoldsValues
<1>6. payload[2] \notin {"prefix", "string", "array", "marked text"}
  BY <1>5 DEF Records
<1>7. Opening(payload) = 2
  <2>1. Opening(payload) <= 2 /\ Opening(payload) \in 1..n /\ Opening(payload) # 1
    BY <1>1, <1>3, <1>6, OpeningFound
  <2> QED
    BY <1>1, <2>1
<1>8. stripLeadingApplicationPrefix(payload) = Tail(payload)
  <2>1. HasMarker(payload[2])
    <3>1. Head(<<payload[2]>>) = payload[2]
      OBVIOUS
    <3> QED
      BY <1>5, <3>1 DEF HasMarker, isApplicationTextStart
  <2>2. Skipped(payload) = 1 * PrefixBytes + 2^(2 - 1 - 1) - 1 + 0
    BY <1>1, <1>6, <1>7 DEF Skipped
  <2>3. Skipped(payload) \in 1..maxSkip
    BY <2>2, PrefixAssumption DEF maxSkip
  <2>4. FromMarker(payload) = From(payload, 2)
    <3>1. 2 - 1 = 1
      OBVIOUS
    <3>2. payload[1] # "string" /\ payload[2] # "array" /\ payload[2] # "marked text"
      BY <1>6
    <3> QED
      BY <1>7, <3>1, <3>2 DEF FromMarker
  <2> QED
    BY <1>2, <1>7, <2>1, <2>3, <2>4 DEF stripLeadingApplicationPrefix
<1>9. TextOrCut(Tail(payload)) = TextOrCut(payload)
  <2>s. PICK s : s = Tail(payload)
    OBVIOUS
  <2>m. PICK m \in Nat : m = n - 1
    <3>1. n \in Nat \ {0}
      BY <1>1
    <3> HIDE DEF n
    <3> QED
      BY <3>1
  <2>1. /\ Len(s) = m /\ m + 1 = n /\ m >= 1
        /\ \A j \in 1..m : s[j] = payload[j + 1]
    <3>1. \A j \in 1..(n - 2 + 1) : From(payload, 2)[j] = payload[j + 2 - 1]
      BY <1>1, <1>3, FromShape
    <3>2. n - 2 + 1 = m /\ \A j \in 1..m : j + 2 - 1 = j + 1
      BY <1>1, <2>m
    <3>3. \A j \in 1..m : s[j] = payload[j + 1]
      BY <1>2, <2>s, <3>1, <3>2
    <3>4. Len(s) = m
      BY <1>2, <2>m, <2>s
    <3>5. m + 1 = n /\ m >= 1
      <4>1. n \in Nat /\ n >= 2
        BY <1>1, <1>2
      <4> HIDE DEF n
      <4> QED
        BY <2>m, <4>1
    <3> QED
      BY <3>3, <3>4, <3>5
  <2>2. payload[n] \in Texts
    BY DEF TextShapes
  <2>3. m # 1
    <3>1. payload[2] \notin Texts
      BY <1>5, TextsApart
    <3> QED
      BY <2>1, <2>2, <3>1
  <2>4. ASSUME NEW j \in 2..m PROVE Begins(s, j) <=> Begins(payload, j + 1)
    <3>1. j - 1 \in 1..m /\ j - 1 + 1 = j + 1 - 1 /\ j # 1 /\ j + 1 # 1
      OBVIOUS
    <3>2. s[j - 1] = payload[j + 1 - 1]
      BY <2>1, <3>1
    <3> QED
      BY <3>1, <3>2 DEF Begins
  <2>5. m \in 2..m /\ m \in 1..m /\ m - 1 \in 1..m /\ m - 1 + 1 = n - 1 /\ m - 1 # 0
    BY <2>1, <2>3
  <2>6. /\ s[m] = payload[n] /\ s[m - 1] = payload[n - 1]
        /\ Begins(s, m) <=> Begins(payload, n)
    BY <2>1, <2>4, <2>5
  <2>7. CASE m - 1 = 1
    <3>1. n - 1 = 2
      BY <2>5, <2>7
    <3>2. s[m - 1] # "string" /\ payload[n - 1] # "string"
      BY <1>6, <2>6, <3>1
    <3> QED
      BY <2>1, <2>6, <2>s, <3>2 DEF TextOrCut
  <2>8. CASE m - 1 # 1
    <3>1. m - 1 \in 2..m
      BY <2>5, <2>8
    <3>2. Begins(s, m - 1) <=> Begins(payload, n - 1)
      BY <2>4, <2>5, <3>1
    <3> QED
      BY <2>1, <2>6, <2>s, <3>2 DEF TextOrCut
  <2> QED
    BY <2>7, <2>8, <2>s
<1> QED
  BY <1>2, <1>4, <1>8, <1>9

\* A string around such a text: its quote is dropped where the text is marked.
LEMMA TextInString ==
  ASSUME NEW payload \in TextShapes, payload[1] = "string"
  PROVE  /\ payload[2] \in Texts /\ Len(payload) = 2
         /\ payload[2] = "text" => stripLeadingApplicationPrefix(payload) = payload
         /\ payload[2] = "marked text" =>
              /\ stripLeadingApplicationPrefix(payload) = <<"cut string">>
              /\ TextOrCut(payload) = <<"cut string">>
<1>1. payload \in Shapes /\ Len(payload) \in Nat \ {0} /\ Head(payload) = "string"
  BY ShapeTypes DEF TextShapes
<1>2. Len(payload) >= 2 /\ payload[2] \in Texts
  <2>1. "string" \in Layers
    BY DEF Layers
  <2> QED
    BY <2>1, TextNext, HoldsValues
<1>3. Len(payload) = 2
  <2>1. payload[2] \notin Layers
    BY <1>2, TextsApart
  <2>2. 2 \notin 1..(Len(payload) - 1)
    BY <1>1, <2>1 DEF Shapes
  <2>3. Len(payload) \in Nat /\ Len(payload) >= 2
    BY <1>1, <1>2
  <2> QED
    BY <2>2, <2>3
<1>4. payload[2] \notin {"prefix", "string", "array"} \union Records
  BY <1>2 DEF Texts, Records
<1>5. Opening(payload) = 2
  <2>1. Opening(payload) <= 2 /\ Opening(payload) \in 1..2 /\ Opening(payload) # 1
    BY <1>1, <1>3, <1>4, OpeningFound
  <2> QED
    BY <2>1
<1>6. ASSUME payload[2] = "text" PROVE stripLeadingApplicationPrefix(payload) = payload
  <2>1. Head(<<payload[2]>>) = "text"
    BY <1>6
  <2>2. "text" \notin Records \union Cuts \union {"http", "json", "request"}
        /\ "text" \notin {"array", "marked text"}
    BY DEF Records, Cuts
  <2>3. ~HasMarker(payload[2])
    BY <1>6, <2>1, <2>2 DEF HasMarker, isApplicationTextStart
  <2> QED
    BY <1>5, <2>3 DEF stripLeadingApplicationPrefix
<1>7. ASSUME payload[2] = "marked text"
      PROVE  /\ stripLeadingApplicationPrefix(payload) = <<"cut string">>
             /\ TextOrCut(payload) = <<"cut string">>
  <2>1. HasMarker(payload[2])
    BY <1>7 DEF HasMarker
  <2>2. Skipped(payload) = 0 * PrefixBytes + 2^(2 - 1 - 0) - 1 + 2
    <3>1. payload[2] # "array" /\ "string" # "prefix"
      BY <1>4
    <3> QED
      BY <1>1, <1>5, <1>7, <3>1 DEF Skipped
  <2>3. Skipped(payload) \in 1..maxSkip
    <3>1. 0 * PrefixBytes = 0
      BY PrefixAssumption DEF maxSkip
    <3>2. 0 + 2^(2 - 1 - 0) - 1 + 2 = 3
      OBVIOUS
    <3> QED
      BY <2>2, <3>1, <3>2 DEF maxSkip
  <2>4. FromMarker(payload) = <<"cut string">>
    <3>1. 2 > 1 /\ 2 - 1 = 1
      OBVIOUS
    <3> QED
      BY <1>5, <3>1 DEF FromMarker
  <2>5. stripLeadingApplicationPrefix(payload) = <<"cut string">>
    BY <1>5, <2>1, <2>3, <2>4 DEF stripLeadingApplicationPrefix
  <2>6. 2 - 1 = 1 /\ 2 # 1 /\ "string" \notin Records /\ "marked text" # "text"
    BY DEF Records
  <2>7. ~Begins(payload, 2) /\ Begins(payload, 1)
    BY <2>6 DEF Begins
  <2>8. TextOrCut(payload) = <<"cut string">>
    BY <1>3, <1>7, <2>6, <2>7 DEF TextOrCut
  <2> QED
    BY <2>5, <2>8
<1> QED
  BY <1>2, <1>3, <1>6, <1>7

\* A round leaves a payload of which the same is displayed, or that itself.
LEMMA TextKept ==
  ASSUME NEW payload \in TextShapes
  PROVE  \/ /\ unwrapPayloadLayer(payload) \in TextShapes
            /\ TextOrCut(unwrapPayloadLayer(payload)) = TextOrCut(payload)
         \/ \E c \in Cuts : /\ unwrapPayloadLayer(payload) = <<c>>
                            /\ TextOrCut(payload) = <<c>>
<1> DEFINE u == unwrapPayloadLayer(payload)
<1>1. payload \in Shapes /\ Head(payload) = payload[1] /\ Len(payload) \in Nat \ {0}
  BY ShapeTypes DEF TextShapes
<1>2. "cut text" \in Cuts /\ "cut string" \in Cuts
  BY DEF Cuts
<1>3. CASE payload[1] \in Records
  <2>1. /\ Len(payload) >= 2 /\ Tail(payload) = From(payload, 2) /\ Tail(payload) # payload
    BY <1>1, <1>3, NamesApart, TailShape
  <2>2. 2 \in 1..Len(payload) /\ 2 \in 2..Len(payload) /\ 2 - 1 = 1
    BY <1>1, <2>1
  <2>3. u = From(payload, 2)
    BY <1>1, <1>3, <2>1 DEF unwrapPayloadLayer, unwrapEmbeddedExportRecord
  <2>4. TextOrCut(From(payload, 2)) = TextOrCut(payload)
    BY <1>3, <2>2, CutAfterRecord
  <2> QED
    BY <2>2, <2>3, <2>4, TextFrom
<1>4. CASE payload[1] \notin Records
  <2>1. unwrapEmbeddedExportRecord(payload) = payload
    BY <1>1, <1>4 DEF unwrapEmbeddedExportRecord
  <2>2. CASE extractEmbeddedExportJSON(payload) # payload
    <3>1. u = extractEmbeddedExportJSON(payload)
      BY <2>1, <2>2 DEF unwrapPayloadLayer
    <3>2. PICK i \in 2..Len(payload) :
            /\ payload[i - 1] = "record" /\ extractEmbeddedExportJSON(payload) = From(payload, i)
      BY <1>1, <2>2, EmbeddedRecord
    <3>3. i \in 1..Len(payload) /\ payload[i - 1] \in Records
      BY <1>1, <3>2, NamesApart
    <3>4. From(payload, i) \in TextShapes
      BY <3>3, TextFrom
    <3>5. TextOrCut(From(payload, i)) = TextOrCut(payload)
      BY <3>3, CutAfterRecord
    <3> QED
      BY <3>1, <3>2, <3>4, <3>5
  <2>3. CASE extractEmbeddedExportJSON(payload) = payload
    <3>1. u = stripLeadingApplicationPrefix(payload)
      BY <2>1, <2>3 DEF unwrapPayloadLayer
    <3>2. CASE payload[1] = "prefix"
      BY <3>1, <3>2, TextPrefix
    <3>3. CASE payload[1] = "string"
      <4>1. payload[2] = "text" \/ payload[2] = "marked text"
        BY <3>3, TextInString, TextsApart
      <4> QED
        BY <1>2, <3>1, <3>3, <4>1, TextInString
    <3>4. CASE payload[1] \notin {"prefix", "string"}
      <4>1. payload[1] # "array"
        <5>1. "array" \notin Layers \union Texts
          BY DEF Layers, Records, Texts
        <5> QED
          BY <5>1, TextNext
      <4>2. CASE payload[1] = "marked text"
        <5>1. u = <<"cut text">>
          BY <1>1, <3>1, <3>4, <4>1, <4>2, StripAtOnce
        <5>2. Len(payload) = 1
          <6>1. payload[1] \notin Layers
            BY <4>2, TextsApart
          <6> QED
            BY <6>1, TextNext
        <5>3. TextOrCut(payload) = <<"cut text">>
          <6>1. "marked text" # "text"
            OBVIOUS
          <6> QED
            BY <4>2, <5>2, <6>1 DEF TextOrCut, Begins
        <5> QED
          BY <1>2, <5>1, <5>3
      <4>3. CASE payload[1] # "marked text"
        <5>1. u = payload
          BY <1>1, <3>1, <3>4, <4>1, <4>3, StripAtOnce
        <5> QED
          BY <5>1
      <4> QED
        BY <4>2, <4>3
    <3> QED
      BY <3>2, <3>3, <3>4
  <2> QED
    BY <2>2, <2>3
<1> QED
  BY <1>3, <1>4

\* Where the loop has settled, no record, no bytes of the agent and nothing to cut is
\* left.
LEMMA TextSettled ==
  ASSUME NEW payload \in TextShapes, unwrapPayloadLayer(payload) = payload
  PROVE  /\ payload[1] \in {"http", "json", "string", "text"}
         /\ payload[1] = "http" => payload[2] \in {"json", "string"} \union Texts
         /\ payload[1] = "string" => payload[2] = "text"
<1>1. payload \in Shapes /\ Len(payload) \in Nat \ {0} /\ Head(payload) = payload[1]
      /\ DOMAIN payload = 1..Len(payload)
  BY ShapeTypes DEF TextShapes
<1>2. payload[1] \notin Records
  <2> SUFFICES ASSUME payload[1] \in Records PROVE FALSE
    OBVIOUS
  <2>2. Tail(payload) # payload
    BY <1>1, NamesApart, TailShape
  <2>3. unwrapPayloadLayer(payload) = Tail(payload)
    BY <1>1, <2>2 DEF unwrapPayloadLayer, unwrapEmbeddedExportRecord
  <2> QED
    BY <2>2, <2>3
<1>3. unwrapEmbeddedExportRecord(payload) = payload
  BY <1>1, <1>2 DEF unwrapEmbeddedExportRecord
<1>4. extractEmbeddedExportJSON(payload) = payload
  BY <1>3 DEF unwrapPayloadLayer
<1>5. \A i \in Visible(payload) : payload[i] # "record"
  BY <1>1, <1>4, EmbeddedRecord
<1>6. payload[1] \in Transparent /\ Len(payload) >= 2 => payload[2] # "record"
  <2> SUFFICES ASSUME payload[1] \in Transparent, Len(payload) >= 2 PROVE 2 \in Visible(payload)
    BY <1>5
  <2>1. 2 \in 1..Len(payload) /\ \A k \in 1..(2 - 1) : payload[k] \in Transparent
    BY <1>1
  <2> QED
    BY <1>1, <2>1 DEF Visible
<1>7. payload[1] # "frame"
  <2>1. "frame" \in Layers /\ "frame" \in Transparent
    BY DEF Layers, Transparent
  <2> QED
    BY <1>6, <2>1, TextNext, HoldsValues
<1>8. stripLeadingApplicationPrefix(payload) = payload
  BY <1>3, <1>4 DEF unwrapPayloadLayer
<1>9. payload[1] # "prefix"
  BY <1>8, TextPrefix
<1>10. payload[1] = "string" => payload[2] = "text"
  <2> SUFFICES ASSUME payload[1] = "string", payload[2] # "text" PROVE FALSE
    OBVIOUS
  <2>1. stripLeadingApplicationPrefix(payload) = <<"cut string">>
    BY TextInString, TextsApart
  <2>2. Len(payload) = 2
    BY TextInString
  <2>3. "cut string" \in Ends
    BY DEF Ends, Cuts
  <2>4. Len(<<"cut string">>) = 1
    BY <2>3, OneShape
  <2>5. Len(payload) = 1
    BY <1>8, <2>1, <2>4
  <2> QED
    BY <2>2, <2>5
<1>11. payload[1] # "marked text"
  <2> SUFFICES ASSUME payload[1] = "marked text" PROVE FALSE
    OBVIOUS
  <2>1. payload[1] \notin {"prefix", "string"} /\ payload[1] # "array"
    OBVIOUS
  <2>2. stripLeadingApplicationPrefix(payload) = <<"cut text">>
    BY <1>1, <2>1, StripAtOnce
  <2>3. "cut text" \in Ends
    BY DEF Ends, Cuts
  <2>4. <<"cut text">>[1] = "cut text"
    BY <2>3, OneShape
  <2>5. payload[1] = "cut text"
    BY <1>8, <2>2, <2>4
  <2>6. "marked text" # "cut text"
    OBVIOUS
  <2> QED
    BY <2>5, <2>6
<1>12. payload[1] \in {"http", "json", "string", "text"}
  <2>1. payload[1] \in Layers \union Texts
    BY TextNext
  <2> QED
    BY <1>2, <1>7, <1>9, <1>11, <2>1 DEF Layers, Texts
<1>13. payload[1] = "http" => payload[2] \in {"json", "string"} \union Texts
  <2>1. "http" \in Layers /\ "http" \in Transparent
    BY DEF Layers, Transparent
  <2> QED
    BY <1>6, <2>1, TextNext, HoldsValues
<1> QED
  BY <1>10, <1>12, <1>13

\* A text, or what was cut, is displayed as it is.
LEMMA PeelPlain ==
  ASSUME NEW e \in Texts \union Cuts
  PROVE  /\ Peel(<<e>>) = <<e>>
         /\ ~isNoisePayload(<<e>>) /\ ~isGarbageDisplay(<<e>>)
<1>1. e \in Ends
  BY DEF Ends, Leaves, Texts, Cuts
<1>2. /\ e \notin Records \union Binary
      /\ e \notin {"http", "request", "string", "json", "array", "binary"}
  BY DEF Texts, Cuts, Records, Binary
<1>t. PICK t : t = <<e>>
  OBVIOUS
<1>3. t \in Shapes /\ t[1] = e /\ Len(t) = 1 /\ Head(t) = e
  BY <1>1, <1>t, OneShape
<1>4. DOMAIN t = 1..1
  BY <1>3, ShapeTypes
<1>5. extractHTTPBody(t) = t
  BY <1>2, <1>3 DEF extractHTTPBody
<1>6. extractHTTPRequestLine(t) = t
  BY <1>2, <1>3 DEF extractHTTPRequestLine
<1>7. extractJSONTextBody(t) = t
  BY <1>2, <1>3 DEF extractJSONTextBody
<1>8. Peel(t) = t
  BY <1>5, <1>6, <1>7 DEF Peel
<1>9. \A i \in Visible(t) : t[i] = e
  BY <1>3, <1>4 DEF Visible
<1>10. t # <<"binary">>
  <2>1. <<"binary">>[1] = "binary"
    OBVIOUS
  <2> QED
    BY <1>2, <1>3, <2>1
<1>11. ~isNoisePayload(t) /\ ~isGarbageDisplay(t)
  BY <1>2, <1>9, <1>10 DEF isNoisePayload, isGarbageDisplay, containsAgentExportLeak
<1> QED
  BY <1>8, <1>11, <1>t

\* Then one round of the other loop takes what is left, and the text is whole.
LEMMA PeelText ==
  ASSUME NEW payload \in TextShapes,
         payload[1] \in {"http", "json", "string", "text"},
         payload[1] = "http" => payload[2] \in {"json", "string"} \union Texts,
         payload[1] = "string" => payload[2] = "text"
  PROVE  \E e \in Texts : Peel(payload) = <<e>> /\ TextOrCut(payload) = <<e>>
<1> DEFINE Inner == {"json", "string"} \union Texts
           n == Len(payload)
           e == payload[n]
<1>1. ASSUME NEW s \in TextShapes
      PROVE  /\ s \in Shapes /\ Head(s) = s[1]
             /\ s[1] \in Layers =>
                  /\ Len(s) >= 2 /\ Len(Tail(s)) = Len(s) - 1
                  /\ Tail(s) \in TextShapes /\ Tail(s)[1] = s[2]
                  /\ Tail(s)[Len(s) - 1] = s[Len(s)]
             /\ s[1] \notin Layers => Len(s) = 1 /\ s[1] \in Texts /\ s = <<s[1]>>
  <2>1. s \in Shapes
    BY DEF TextShapes
  <2>2. ASSUME s[1] \in Layers
        PROVE  /\ Len(s) >= 2 /\ Len(Tail(s)) = Len(s) - 1
               /\ Tail(s) \in TextShapes /\ Tail(s)[1] = s[2]
               /\ Tail(s)[Len(s) - 1] = s[Len(s)]
    <3>1. s[1] \notin Ends
      BY <2>2, TextsApart
    <3>2. /\ Len(s) >= 2 /\ Tail(s) = From(s, 2) /\ Tail(s)[1] = s[2]
          /\ Len(Tail(s)) = Len(s) - 1
      BY <2>1, <3>1, TailShape
    <3>3. 2 \in 1..Len(s)
      BY <2>1, <3>2, ShapeTypes
    <3>4. \A j \in 1..(Len(s) - 2 + 1) : From(s, 2)[j] = s[j + 2 - 1]
      BY <2>1, <3>3, FromShape
    <3>5. Len(s) - 1 \in 1..(Len(s) - 2 + 1) /\ Len(s) - 1 + 2 - 1 = Len(s)
      BY <2>1, <3>2, ShapeTypes
    <3>6. Tail(s)[Len(s) - 1] = s[Len(s)]
      BY <3>2, <3>4, <3>5
    <3> QED
      BY <3>2, <3>3, <3>6, TextFrom
  <2> QED
    BY <2>1, <2>2, TextNext, ShapeTypes
<1>2. {"http", "json", "string"} \subseteq Layers /\ Texts \intersect Layers = {}
  BY TextsApart DEF Layers, Records
<1>n. n \in Nat \ {0} /\ e \in Texts
  BY <1>1, ShapeTypes DEF TextShapes
<1>b. PICK b : b = extractHTTPBody(payload)
  OBVIOUS
<1>3. /\ b \in TextShapes /\ b[1] \in Inner /\ b[Len(b)] = e
      /\ payload[1] = "http" => b = Tail(payload)
      /\ payload[1] # "http" => b = payload
  <2>1. CASE payload[1] = "http"
    <3>1. b = Tail(payload)
      BY <1>1, <1>b, <2>1 DEF extractHTTPBody
    <3>2. /\ b \in TextShapes /\ b[1] = payload[2] /\ Len(b) = n - 1 /\ b[n - 1] = e
      BY <1>1, <1>2, <2>1, <3>1
    <3> QED
      BY <2>1, <3>1, <3>2
  <2>2. CASE payload[1] # "http"
    <3>1. b = payload
      BY <1>1, <1>b, <2>2 DEF extractHTTPBody
    <3>2. payload[1] \in Inner
      BY <2>2, TextsApart
    <3> QED
      BY <2>2, <3>1, <3>2
  <2> QED
    BY <2>1, <2>2
<1>4. extractHTTPRequestLine(b) = b
  <2>1. b[1] \notin {"request", "http"}
    BY <1>3 DEF Texts
  <2> QED
    BY <1>1, <1>3, <2>1 DEF extractHTTPRequestLine
<1>5. ASSUME b[1] \notin Texts PROVE Tail(b) = <<e>> /\ Len(b) = 2 /\ b[1] \in {"json", "string"}
  <2>1. b[1] \in {"json", "string"}
    BY <1>3, <1>5
  <2>2. b[1] \in Layers
    BY <1>2, <2>1
  <2>3. b[2] \in Texts
    BY <1>3, <2>1, <2>2, TextNext, HoldsValues
  <2>4. Tail(b) \in TextShapes /\ Tail(b)[1] = b[2] /\ Len(Tail(b)) = Len(b) - 1
        /\ Tail(b)[Len(b) - 1] = b[Len(b)]
    BY <1>1, <1>3, <2>2
  <2>5. Tail(b)[1] \notin Layers
    BY <1>2, <2>3, <2>4
  <2>6. Len(Tail(b)) = 1 /\ Tail(b) = <<Tail(b)[1]>>
    BY <1>1, <2>4, <2>5
  <2>7. Len(b) - 1 = 1
    BY <2>4, <2>6
  <2>8. Tail(b)[1] = e
    BY <1>3, <2>4, <2>7
  <2>9. Len(b) = 2
    BY <1>1, <1>3, <2>7, ShapeTypes
  <2> QED
    BY <2>1, <2>6, <2>8, <2>9
<1>6. extractJSONTextBody(b) = <<e>>
  <2>1. CASE b[1] \in Texts
    <3>1. b[1] \notin Layers /\ b[1] \notin {"string", "json"}
      BY <2>1, TextsApart
    <3>2. Head(b) = b[1] /\ Len(b) = 1 /\ b = <<b[1]>>
      BY <1>1, <1>3, <3>1
    <3>3. extractJSONTextBody(b) = b
      BY <3>1, <3>2 DEF extractJSONTextBody
    <3>4. b[1] = e
      BY <1>3, <3>2
    <3> QED
      BY <3>2, <3>3, <3>4
  <2>2. CASE b[1] \notin Texts
    <3>1. Tail(b) = <<e>> /\ b[1] \in {"json", "string"} /\ Head(b) = b[1]
      BY <1>1, <1>3, <1>5, <2>2
    <3>2. e \notin Records \union {"json", "array"}
      BY <1>n DEF Texts, Records
    <3>3. ~looksLikeStructuredJSON(<<e>>)
      <4>1. Head(<<e>>) = e
        OBVIOUS
      <4> QED
        BY <3>2, <4>1 DEF looksLikeStructuredJSON
    <3> QED
      BY <3>1, <3>3 DEF extractJSONTextBody
  <2> QED
    BY <2>1, <2>2
<1>7. Peel(payload) = <<e>>
  BY <1>4, <1>6, <1>b DEF Peel
<1>8. TextOrCut(payload) = <<e>>
  <2>1. CASE e = "text"
    BY <2>1 DEF TextOrCut
  <2>2. CASE e # "text"
    <3>1. e = "marked text"
      BY <1>n, <2>2, TextsApart
    <3>2. payload[1] \in Layers
      <4>1. payload[1] # "text"
        <5> SUFFICES ASSUME payload[1] = "text" PROVE FALSE
          OBVIOUS
        <5>1. n = 1
          BY <1>1, TextsApart
        <5> QED
          BY <2>2, <5>1
      <4> QED
        BY <1>2, <4>1
    <3>3. n >= 2 /\ payload[1] \notin Records
      <4>1. {"http", "json", "string", "text"} \intersect Records = {}
        BY DEF Records
      <4> QED
        BY <1>1, <3>2, <4>1
    <3>4. CASE payload[1] = "http"
      <4>1. Len(b) = n - 1 /\ b[1] = payload[2]
        BY <1>1, <1>3, <3>2, <3>4
      <4>2. CASE b[1] \in Texts
        <5>1. b[1] \notin Layers
          BY <4>2, TextsApart
        <5>2. Len(b) = 1
          BY <1>1, <1>3, <5>1
        <5>3. n = 2 /\ n - 1 = 1 /\ n # 1
          <6>1. n \in Nat /\ n - 1 = 1
            BY <1>n, <4>1, <5>2
          <6> HIDE DEF n
          <6> QED
            BY <6>1
        <5>4. ~Begins(payload, n) /\ payload[n - 1] # "string"
          BY <3>3, <3>4, <5>3 DEF Begins
        <5> QED
          BY <2>2, <3>1, <5>4 DEF TextOrCut
      <4>3. CASE b[1] \notin Texts
        <5>1. Len(b) = 2 /\ b[1] \in {"json", "string"}
          BY <1>5, <4>3
        <5>2. n = 3 /\ n - 1 = 2 /\ 2 - 1 = 1 /\ n # 1 /\ 2 # 1
          <6>1. n \in Nat /\ n - 1 = 2
            BY <1>n, <4>1, <5>1
          <6> HIDE DEF n
          <6> QED
            BY <6>1
        <5>3. payload[2] \notin Records
          BY <4>1, <5>1 DEF Records
        <5>4. ~Begins(payload, n) /\ ~Begins(payload, n - 1)
          BY <3>3, <5>2, <5>3 DEF Begins
        <5> QED
          BY <2>2, <3>1, <5>4 DEF TextOrCut
      <4> QED
        BY <4>2, <4>3
    <3>5. CASE payload[1] # "http"
      <4>1. b = payload /\ payload[1] \notin Texts
        BY <1>2, <1>3, <3>2, <3>5
      <4>2. n = 2 /\ n - 1 = 1 /\ n # 1
        BY <1>5, <4>1
      <4>3. payload[1] # "string"
        BY <2>2, <4>2
      <4>4. ~Begins(payload, n)
        BY <3>3, <4>2 DEF Begins
      <4> QED
        BY <2>2, <3>1, <4>2, <4>3, <4>4 DEF TextOrCut
    <3> QED
      BY <3>4, <3>5
  <2> QED
    BY <2>1, <2>2
<1> QED
  BY <1>7, <1>8, <1>n

\* Three rounds, of which the last two change nothing.
LEMMA PeeledText ==
  ASSUME NEW payload, NEW t, Peel(payload) = t, Peel(t) = t
  PROVE  Repeat(Peel, 3, payload) = t
<1>h. PICK h : h = [i \in 0..3 |-> IF i = 0 THEN payload ELSE t]
  OBVIOUS
<1>1. ASSUME NEW i \in 0..3 PROVE h[i] = IF i = 0 THEN payload ELSE Peel(h[i - 1])
  <2>1. CASE i = 0
    BY <1>h, <2>1
  <2>2. CASE i = 1
    BY <1>h, <2>2
  <2>3. CASE i \in {2, 3}
    BY <1>h, <2>3
  <2>4. i \in {0, 1, 2, 3}
    OBVIOUS
  <2> QED
    BY <2>1, <2>2, <2>3, <2>4
<1>2. h = [i \in 0..3 |-> IF i = 0 THEN payload ELSE Peel(h[i - 1])]
  BY <1>h, <1>1
<1>g. PICK g : g = CHOOSE after :
                     after = [i \in 0..3 |-> IF i = 0 THEN payload ELSE Peel(after[i - 1])]
  OBVIOUS
<1>3. g = [i \in 0..3 |-> IF i = 0 THEN payload ELSE Peel(g[i - 1])]
  BY <1>2, <1>g
<1>4. g[0] = payload /\ g[1] = Peel(g[0]) /\ g[2] = Peel(g[1]) /\ g[3] = Peel(g[2])
  BY <1>3
<1>5. g[3] = t
  BY <1>4
<1>6. Repeat(Peel, 3, payload) = g[3]
  BY <1>g DEF Repeat
<1> QED
  BY <1>5, <1>6

\* The text inside the usual wrappers is displayed, whole or cut as TextOrCut says, for
\* every payload as deep as the code peels.
THEOREM TextDisplayed == ASSUME NEW payload \in Shapes PROVE TextReached(payload)
<1> SUFFICES ASSUME Len(payload) <= Reach, payload[Len(payload)] \in Texts,
                    \A i \in 1..(Len(payload) - 1) : payload[i + 1] \in Holds(payload[i])
             PROVE  plaintextPreviewForDisplay(payload) = TextOrCut(payload)
  BY DEF TextReached, Last
<1>1. payload \in TextShapes
  BY DEF TextShapes
<1>2. 2 * MaxDepth \in Nat /\ Lengths[payload] <= 2 * MaxDepth
  BY DepthAssumption DEF Lengths, Reach
<1>f. PICK f : f = Rounds(Unwrap, Shapes, payload)
  OBVIOUS
<1>3. f \in [Nat -> Shapes] /\ Iterates(f, Unwrap, payload)
  BY <1>f, UnwrapShortens, RoundsIterate
<1> DEFINE Shown == TextOrCut(payload)
           Pieces == { <<c>> : c \in Cuts }
           T == { k \in Nat : \/ f[k] \in TextShapes /\ TextOrCut(f[k]) = Shown
                              \/ f[k] = Shown /\ Shown \in Pieces }
<1>4. T = Nat
  <2>1. 0 \in T
    BY <1>1, <1>3 DEF Iterates
  <2>2. ASSUME NEW k \in T PROVE k + 1 \in T
    <3>1. f[k + 1] = unwrapPayloadLayer(f[k]) /\ k + 1 \in Nat
      <4>1. k \in Nat /\ k + 1 \in Nat
        OBVIOUS
      <4>2. f[k] \in Shapes /\ f[k + 1] = Unwrap[f[k]]
        BY <1>3, <4>1 DEF Iterates
      <4> QED
        BY <4>1, <4>2 DEF Unwrap
    <3>2. CASE f[k] \in TextShapes /\ TextOrCut(f[k]) = Shown
      <4>1. \/ /\ unwrapPayloadLayer(f[k]) \in TextShapes
               /\ TextOrCut(unwrapPayloadLayer(f[k])) = TextOrCut(f[k])
            \/ \E c \in Cuts : /\ unwrapPayloadLayer(f[k]) = <<c>>
                               /\ TextOrCut(f[k]) = <<c>>
        BY <3>2, TextKept
      <4> QED
        BY <3>1, <3>2, <4>1
    <3>3. CASE f[k] = Shown /\ Shown \in Pieces
      <4>1. unwrapPayloadLayer(Shown) = Shown
        BY <3>3, UnwrapCut
      <4> QED
        BY <3>1, <3>3, <4>1
    <3> QED
      BY <3>2, <3>3
  <2> HIDE DEF T
  <2> QED
    BY <2>1, <2>2, EveryNumber DEF T
<1>x. PICK x : x = f[2 * MaxDepth]
  OBVIOUS
<1>5. x \in Shapes /\ (\/ x \in TextShapes /\ TextOrCut(x) = Shown
                       \/ x = Shown /\ Shown \in Pieces)
  BY <1>2, <1>3, <1>4, <1>x
<1>6. unwrapPayloadLayer(x) = x
  <2>1. Unwrap[x] = x
    BY <1>2, <1>f, <1>x, UnwrapShortens, RoundsSettle
  <2> QED
    BY <1>5, <2>1 DEF Unwrap
<1>7. unwrapPayloadLayers(plaintextPayloadBytes(payload)) = x
  BY <1>f, <1>x, CallsAreRounds
<1>8. PICK e \in Texts \union Cuts : Peel(x) = <<e>> /\ Shown = <<e>>
  <2>1. CASE x \in TextShapes /\ TextOrCut(x) = Shown
    <3>1. /\ x[1] \in {"http", "json", "string", "text"}
          /\ x[1] = "http" => x[2] \in {"json", "string"} \union Texts
          /\ x[1] = "string" => x[2] = "text"
      BY <1>6, <2>1, TextSettled
    <3>2. PICK e \in Texts : Peel(x) = <<e>> /\ TextOrCut(x) = <<e>>
      BY <2>1, <3>1, PeelText
    <3> QED
      BY <2>1, <3>2
  <2>2. CASE x = Shown /\ Shown \in Pieces
    <3>1. PICK c \in Cuts : Shown = <<c>>
      BY <2>2
    <3>2. Peel(<<c>>) = <<c>>
      BY PeelPlain
    <3> QED
      BY <2>2, <3>1, <3>2
  <2> QED
    BY <1>5, <2>1, <2>2
<1>9. Peel(<<e>>) = <<e>> /\ ~isNoisePayload(<<e>>) /\ ~isGarbageDisplay(<<e>>)
  BY PeelPlain
<1>10. Repeat(Peel, 3, x) = <<e>>
  <2>t. PICK t : t = <<e>>
    OBVIOUS
  <2>1. Peel(x) = t /\ Peel(t) = t
    BY <1>8, <1>9, <2>t
  <2> QED
    BY <2>1, <2>t, PeeledText
<1>11. plaintextPreviewForDisplay(payload) = <<e>>
  BY <1>7, <1>9, <1>10 DEF plaintextPreviewForDisplay, formatPlaintextPayload
<1> QED
  BY <1>8, <1>11

-----------------------------------------------------------------------------
(* The payloads that MCFunctions enumerates.                                *)

\* They are layers around one end.
LEMMA PayloadShapes ==
  ASSUME NEW n, NEW payload \in Payloads(n)
  PROVE  payload \in Shapes
<1>1. PICK k \in 1..n : payload \in [1..k -> Layers \union Leaves] /\ IsPayload(payload)
  BY DEF Payloads
<1>2. k \in Nat \ {0}
  OBVIOUS
<1>3. payload \in Seq(Layers \union Ends) /\ Len(payload) = k
  <2>1. Layers \union Leaves \subseteq Layers \union Ends
    BY DEF Ends
  <2>2. payload \in [1..k -> Layers \union Ends]
    BY <1>1, <2>1
  <2> QED
    BY <1>2, <2>2
<1>4. payload[Len(payload)] \in Ends
  BY <1>1 DEF IsPayload, Last, Ends
<1>5. ASSUME NEW i \in 1..(Len(payload) - 1) PROVE payload[i] \in Layers
  <2>f. PICK f : f = Front(payload)
    OBVIOUS
  <2>1. f \in Seq(Layers \union Ends) /\ Len(f) = k - 1 /\ \A j \in 1..(k - 1) : f[j] = payload[j]
    BY <1>2, <1>3, <2>f DEF Front
  <2>2. i \in DOMAIN f /\ f[i] = payload[i]
    BY <1>2, <1>3, <2>1
  <2>3. f[i] \in Range(f)
    BY <2>2 DEF Range
  <2> QED
    BY <1>1, <2>2, <2>3, <2>f DEF IsPayload
<1> QED
  BY <1>2, <1>3, <1>4, <1>5 DEF Shapes

\* The input is chosen once.
LEMMA InputKept == ASSUME [MeetOne]_<<vars, input>> PROVE input' = input
BY DEF MeetOne

\* What is chosen.
LEMMA Inputs ==
  ASSUME FunctionsInit
  PROVE  /\ Is("payload") => input.value \in Payloads(MaxLayers)
         /\ Is("answer") => input.value \in Answers
<1>1. \/ input = [of |-> "match"]
      \/ input \in [of : {"payload"}, value : Payloads(MaxLayers)]
      \/ input \in [of : {"answer"}, value : Answers]
      \/ input \in [of : {"cluster"}, value : Clusters]
  BY DEF FunctionsInit
<1>2. input = [of |-> "match"] => input.of = "match"
  OBVIOUS
<1>3. input \in [of : {"payload"}, value : Payloads(MaxLayers)]
        => input.of = "payload" /\ input.value \in Payloads(MaxLayers)
  OBVIOUS
<1>4. input \in [of : {"answer"}, value : Answers]
        => input.of = "answer" /\ input.value \in Answers
  OBVIOUS
<1>5. input \in [of : {"cluster"}, value : Clusters] => input.of = "cluster"
  OBVIOUS
<1> QED
  BY <1>1, <1>2, <1>3, <1>4, <1>5 DEF Is

\* The agent's records change nothing of what is displayed of any payload enumerated.
THEOREM TransparentInvariance == FunctionsSpec => []PayloadsTransparent
<1>1. FunctionsInit => PayloadsTransparent
  BY Inputs, PayloadShapes, RecordsPeeled DEF PayloadsTransparent
<1>2. PayloadsTransparent /\ [MeetOne]_<<vars, input>> => PayloadsTransparent'
  BY InputKept DEF PayloadsTransparent, Is
<1> QED
  BY <1>1, <1>2, PTL DEF FunctionsSpec

\* The text of every payload enumerated is displayed.
THEOREM TextInvariance == FunctionsSpec => []PayloadsShowText
<1>1. FunctionsInit => PayloadsShowText
  BY Inputs, PayloadShapes, TextDisplayed DEF PayloadsShowText
<1>2. PayloadsShowText /\ [MeetOne]_<<vars, input>> => PayloadsShowText'
  BY InputKept DEF PayloadsShowText, Is
<1> QED
  BY <1>1, <1>2, PTL DEF FunctionsSpec

-----------------------------------------------------------------------------
(* Plots.                                                                   *)

\* A series: its times, at least one.
Times == Seq(Nat) \ {<<>>}

\* What the loop over the series collects.
Collected == [max : Nat, times : Seq(Nat)]

\* One round keeps that type.
LEMMA CollectType ==
  ASSUME NEW seen \in Collected, NEW series \in Times
  PROVE  Collect(seen, series) \in Collected
<1>1. series \in Seq(Nat) /\ seen.times \in Seq(Nat) /\ Len(series) \in Nat
  BY DEF Times, Collected
<1>2. seen.times \o series \in Seq(Nat)
  BY <1>1, ConcatProperties
<1> QED
  BY <1>1, <1>2 DEF Collect, Collected

\* The recursive function of Scan exists: it is the second part of the rounds of a
\* loop that counts the series.
LEMMA ScanSteps ==
  ASSUME NEW matrix \in Seq(Times)
  PROVE  \E seen :
           /\ Scan(matrix) = seen[Len(matrix)]
           /\ \A k \in 0..Len(matrix) :
                seen[k] = IF k = 0 THEN [max |-> 0, times |-> <<>>]
                                   ELSE Collect(seen[k - 1], matrix[k])
<1>n. PICK n \in Nat : n = Len(matrix)
  OBVIOUS
<1>0. \A k \in 1..n : matrix[k] \in Times
  BY <1>n
<1>e. PICK none : none = [max |-> 0, times |-> <<>>]
  OBVIOUS
<1>1. none \in Collected
  BY <1>e DEF Collected
<1> DEFINE D == Nat \X Collected
           after(d) == IF d[1] + 1 \in 1..n THEN Collect(d[2], matrix[d[1] + 1]) ELSE d[2]
<1>F. PICK F : F = [d \in D |-> <<d[1] + 1, after(d)>>]
  OBVIOUS
<1>2. F \in [D -> D]
  <2>1. ASSUME NEW d \in D PROVE after(d) \in Collected
    BY <1>0, CollectType
  <2> QED
    BY <1>F, <2>1
<1>x. PICK x : x = <<0, none>>
  OBVIOUS
<1>3. x \in D
  BY <1>1, <1>x
<1>f. PICK f : f = Rounds(F, D, x)
  OBVIOUS
<1>4. f \in [Nat -> D] /\ Iterates(f, F, x)
  <2> HIDE DEF D
  <2> QED
    BY <1>2, <1>3, <1>f, RoundsIterate
<1>5. \A k \in Nat : f[k] \in D /\ f[k + 1] = <<f[k][1] + 1, after(f[k])>>
  <2> HIDE DEF D, after
  <2> QED
    BY <1>4, <1>F DEF Iterates
<1>6. \A k \in Nat : f[k][1] = k
  <2> DEFINE T == { k \in Nat : f[k][1] = k }
  <2>1. 0 \in T
    BY <1>4, <1>x DEF Iterates
  <2>2. ASSUME NEW k \in T PROVE k + 1 \in T
    <3> HIDE DEF after, D
    <3>1. f[k + 1] = <<f[k][1] + 1, after(f[k])>>
      BY <1>5
    <3> QED
      BY <3>1
  <2> HIDE DEF T
  <2>3. T = Nat
    BY <2>1, <2>2, EveryNumber DEF T
  <2> QED
    BY <2>3 DEF T
<1>h. PICK h : h = [k \in 0..n |-> f[k][2]]
  OBVIOUS
<1>7. ASSUME NEW k \in 0..n
      PROVE  h[k] = IF k = 0 THEN none ELSE Collect(h[k - 1], matrix[k])
  <2>1. CASE k = 0
    BY <1>4, <1>h, <1>x, <2>1 DEF Iterates
  <2>2. CASE k # 0
    <3>1. k - 1 \in Nat /\ k - 1 \in 0..n /\ k - 1 + 1 = k /\ k \in 1..n
      BY <2>2
    <3>2. f[k] = <<f[k - 1][1] + 1, after(f[k - 1])>> /\ f[k - 1][1] = k - 1
      <4> HIDE DEF after, D
      <4> QED
        BY <1>5, <1>6, <3>1
    <3>3. f[k][2] = after(f[k - 1])
      <4> HIDE DEF after
      <4> QED
        BY <3>2
    <3>4. after(f[k - 1]) = Collect(f[k - 1][2], matrix[k])
      BY <3>1, <3>2
    <3> QED
      BY <1>h, <2>2, <3>1, <3>3, <3>4
  <2> QED
    BY <2>1, <2>2
<1>8. h = [k \in 0..n |-> IF k = 0 THEN none ELSE Collect(h[k - 1], matrix[k])]
  BY <1>h, <1>7
<1>g. PICK g : g = CHOOSE seen :
                     seen = [k \in 0..n |->
                               IF k = 0 THEN none ELSE Collect(seen[k - 1], matrix[k])]
  OBVIOUS
<1>9. g = [k \in 0..n |-> IF k = 0 THEN none ELSE Collect(g[k - 1], matrix[k])]
  BY <1>8, <1>g
<1>10. Scan(matrix) = g[n]
  BY <1>e, <1>g, <1>n DEF Scan
<1>11. \A k \in 0..n : g[k] = IF k = 0 THEN none ELSE Collect(g[k - 1], matrix[k])
  BY <1>9
<1> QED
  BY <1>10, <1>11, <1>e, <1>n

\* After one series or more, the times begin with those of the first, and are those
\* alone as long as no longer one has come.
BeginsWithFirst(seen, matrix, k) ==
  /\ seen \in Collected
  /\ \A i \in 1..k : Len(matrix[i]) <= seen.max
  /\ Len(matrix[1]) <= Len(seen.times)
  /\ \A j \in 1..Len(matrix[1]) : seen.times[j] = matrix[1][j]
  /\ seen.max = Len(matrix[1]) => seen.times = matrix[1]

\* It holds after the first series.
LEMMA CollectFirst ==
  ASSUME NEW matrix \in Seq(Times), Len(matrix) >= 1
  PROVE  BeginsWithFirst(Collect([max |-> 0, times |-> <<>>], matrix[1]), matrix, 1)
<1>m. PICK series : series = matrix[1]
  OBVIOUS
<1>1. series \in Times /\ series \in Seq(Nat) /\ Len(series) \in Nat \ {0}
  BY <1>m DEF Times
<1>2. <<>> \o series = series
  BY <1>1, ConcatEmptySeq
<1>s. PICK seen : seen = [max |-> Len(series), times |-> series]
  OBVIOUS
<1>3. Collect([max |-> 0, times |-> <<>>], series) = seen
  BY <1>1, <1>2, <1>s DEF Collect
<1>4. seen.max = Len(series) /\ seen.times = series /\ seen \in Collected
  BY <1>1, <1>s DEF Collected
<1>5. \A i \in 1..1 : matrix[i] = series
  BY <1>m
<1>6. BeginsWithFirst(seen, matrix, 1)
  BY <1>1, <1>4, <1>5, <1>m DEF BeginsWithFirst
<1> QED
  BY <1>3, <1>6, <1>m

\* It holds after the next, whether longer or not.
LEMMA CollectNext ==
  ASSUME NEW matrix \in Seq(Times), NEW k \in 1..(Len(matrix) - 1), NEW seen,
         BeginsWithFirst(seen, matrix, k)
  PROVE  BeginsWithFirst(Collect(seen, matrix[k + 1]), matrix, k + 1)
<1>m. PICK series : series = matrix[k + 1]
  OBVIOUS
<1>f. PICK first : first = matrix[1]
  OBVIOUS
<1>0. series \in Times /\ first \in Times /\ \A i \in 1..Len(matrix) : matrix[i] \in Times
  BY <1>m, <1>f
<1>1. /\ series \in Seq(Nat) /\ Len(series) \in Nat /\ first \in Seq(Nat) /\ Len(first) \in Nat
      /\ \A i \in 1..Len(matrix) : Len(matrix[i]) \in Nat
  <2>1. \A s \in Times : s \in Seq(Nat) /\ Len(s) \in Nat
    BY DEF Times
  <2> QED
    BY <1>0, <2>1
<1>2. /\ seen \in Collected /\ \A i \in 1..k : Len(matrix[i]) <= seen.max
      /\ Len(first) <= Len(seen.times)
      /\ \A j \in 1..Len(first) : seen.times[j] = first[j]
      /\ seen.max = Len(first) => seen.times = first
  BY <1>f DEF BeginsWithFirst
<1>3. seen.max \in Nat /\ seen.times \in Seq(Nat) /\ Len(seen.times) \in Nat
  BY <1>2 DEF Collected
<1>4. CASE ~(Len(series) > seen.max)
  <2>1. Collect(seen, series) = seen
    BY <1>4 DEF Collect
  <2>2. \A i \in 1..(k + 1) : Len(matrix[i]) <= seen.max
    <3>1. \A i \in 1..(k + 1) : i \in 1..k \/ i = k + 1
      OBVIOUS
    <3>2. Len(matrix[k + 1]) <= seen.max
      BY <1>1, <1>3, <1>4, <1>m
    <3> QED
      BY <1>2, <3>1, <3>2
  <2>3. BeginsWithFirst(seen, matrix, k + 1)
    BY <1>2, <1>f, <2>2 DEF BeginsWithFirst
  <2> QED
    BY <1>m, <2>1, <2>3
<1>5. CASE Len(series) > seen.max
  <2>t. PICK times : times = seen.times \o series
    OBVIOUS
  <2>1. /\ times \in Seq(Nat) /\ Len(times) = Len(seen.times) + Len(series)
        /\ \A j \in 1..(Len(seen.times) + Len(series)) :
             times[j] = IF j <= Len(seen.times) THEN seen.times[j]
                                                ELSE series[j - Len(seen.times)]
    BY <1>1, <1>3, <2>t, ConcatProperties
  <2>s. PICK next : next = [max |-> Len(series), times |-> times]
    OBVIOUS
  <2>2. next.max = Len(series) /\ next.times = times /\ next \in Collected
    BY <1>1, <2>1, <2>s DEF Collected
  <2>3. Collect(seen, series) = next
    BY <1>5, <2>t, <2>s DEF Collect
  <2>4. ASSUME NEW i \in 1..(k + 1) PROVE Len(matrix[i]) <= next.max
    <3>1. CASE i = k + 1
      BY <1>1, <1>m, <2>2, <3>1
    <3>2. CASE i # k + 1
      <4>1. i \in 1..k /\ i \in 1..Len(matrix)
        BY <3>2
      <4>2. Len(matrix[i]) <= seen.max /\ Len(matrix[i]) \in Nat
        BY <1>1, <1>2, <4>1
      <4> QED
        BY <1>1, <1>3, <1>5, <2>2, <4>2
    <3> QED
      BY <3>1, <3>2
  <2>5. Len(first) <= Len(times)
    BY <1>1, <1>2, <1>3, <2>1
  <2>6. ASSUME NEW j \in 1..Len(first) PROVE times[j] = first[j]
    <3>1. j <= Len(seen.times) /\ j \in 1..(Len(seen.times) + Len(series))
      BY <1>1, <1>2, <1>3
    <3> QED
      BY <1>2, <2>1, <3>1
  <2>7. next.max # Len(first)
    <3>1. Len(first) <= seen.max
      <4>1. 1 \in 1..k
        OBVIOUS
      <4> QED
        BY <1>2, <1>f, <4>1
    <3> QED
      BY <1>1, <1>3, <1>5, <2>2, <3>1
  <2>8. BeginsWithFirst(next, matrix, k + 1)
    BY <1>f, <2>2, <2>4, <2>5, <2>6, <2>7 DEF BeginsWithFirst
  <2> QED
    BY <1>m, <2>3, <2>8
<1> QED
  BY <1>4, <1>5

\* So it holds at the end of the loop.
LEMMA ScanBeginsWithFirst ==
  ASSUME NEW matrix \in Seq(Times), Len(matrix) >= 1
  PROVE  BeginsWithFirst(Scan(matrix), matrix, Len(matrix))
<1>n. PICK n \in Nat : n = Len(matrix)
  OBVIOUS
<1>s. PICK seen :
        /\ Scan(matrix) = seen[n]
        /\ \A k \in 0..n :
             seen[k] = IF k = 0 THEN [max |-> 0, times |-> <<>>]
                                ELSE Collect(seen[k - 1], matrix[k])
  BY <1>n, ScanSteps
<1> DEFINE T == { k \in Nat : k + 1 <= n => BeginsWithFirst(seen[k + 1], matrix, k + 1) }
<1>1. 0 \in T
  <2>1. 0 \in 0..n /\ 1 \in 0..n /\ 1 - 1 = 0 /\ 0 + 1 = 1
    BY <1>n
  <2>2. seen[0] = [max |-> 0, times |-> <<>>] /\ seen[1] = Collect(seen[0], matrix[1])
    BY <1>s, <2>1
  <2>3. BeginsWithFirst(seen[1], matrix, 1)
    BY <2>2, CollectFirst
  <2> QED
    BY <2>1, <2>3
<1>2. ASSUME NEW k \in T PROVE k + 1 \in T
  <2>1. CASE (k + 1) + 1 <= n
    <3>1. /\ k + 1 <= n /\ k + 1 \in 1..(n - 1) /\ (k + 1) + 1 \in 0..n
          /\ (k + 1) + 1 # 0 /\ (k + 1) + 1 - 1 = k + 1
      BY <2>1
    <3>2. seen[(k + 1) + 1] = Collect(seen[k + 1], matrix[(k + 1) + 1])
      BY <1>s, <3>1
    <3>3. BeginsWithFirst(seen[k + 1], matrix, k + 1)
      BY <3>1
    <3>4. BeginsWithFirst(Collect(seen[k + 1], matrix[(k + 1) + 1]), matrix, (k + 1) + 1)
      BY <1>n, <3>1, <3>3, CollectNext
    <3> QED
      BY <3>2, <3>4
  <2> QED
    BY <2>1
<1>3. T = Nat
  <2> HIDE DEF T
  <2> QED
    BY <1>1, <1>2, EveryNumber DEF T
<1>4. n - 1 \in Nat /\ n - 1 + 1 = n
  BY <1>n
<1>5. BeginsWithFirst(seen[n], matrix, n)
  <2>1. n - 1 + 1 <= n => BeginsWithFirst(seen[n - 1 + 1], matrix, n - 1 + 1)
    BY <1>3, <1>4
  <2>2. n - 1 + 1 <= n
    BY <1>4
  <2>3. BeginsWithFirst(seen[n - 1 + 1], matrix, n - 1 + 1)
    BY <2>1, <2>2
  <2> HIDE DEF T
  <2> QED
    BY <1>4, <2>3
<1> QED
  BY <1>5, <1>n, <1>s

\* The times of a series without gaps.
LEMMA GaplessTimes ==
  ASSUME NEW series \in Times, HasNoGap(series), NEW i \in 1..Len(series)
  PROVE  series[i] = series[1] + i - 1
<1>1. Len(series) \in Nat \ {0} /\ \A j \in 1..Len(series) : series[j] \in Nat
  BY DEF Times
<1> DEFINE T == { j \in Nat : j + 1 <= Len(series) => series[j + 1] = series[1] + j }
<1>2. 0 \in T
  <2>1. 1 \in 1..Len(series)
    BY <1>1
  <2>2. series[0 + 1] = series[1] + 0
    BY <1>1, <2>1
  <2> QED
    BY <2>2
<1>3. ASSUME NEW j \in T PROVE j + 1 \in T
  <2>1. CASE (j + 1) + 1 <= Len(series)
    <3>1. j + 1 \in 1..(Len(series) - 1) /\ j + 1 <= Len(series) /\ 1 \in 1..Len(series)
      BY <1>1, <2>1
    <3>2. series[(j + 1) + 1] = series[j + 1] + 1 /\ series[j + 1] = series[1] + j
      BY <3>1 DEF HasNoGap
    <3>3. series[1] \in Nat
      BY <1>1, <3>1
    <3>4. series[(j + 1) + 1] = series[1] + (j + 1)
      BY <3>2, <3>3
    <3> QED
      BY <3>4
  <2> QED
    BY <2>1
<1>4. T = Nat
  <2> HIDE DEF T
  <2> QED
    BY <1>2, <1>3, EveryNumber DEF T
<1>5. i - 1 \in Nat /\ i - 1 + 1 = i /\ i <= Len(series) /\ 1 \in 1..Len(series)
  BY <1>1
<1>6. series[i] = series[1] + (i - 1)
  BY <1>4, <1>5
<1>7. series[1] \in Nat
  BY <1>1, <1>5
<1> QED
  BY <1>6, <1>7

\* A shorter series without gaps that has a column to start at starts at that of its
\* first time.
LEMMA ShorterStart ==
  ASSUME NEW first \in Times, NEW series \in Times, HasNoGap(first),
         NEW start, start = Start(series, first), start # 0
  PROVE  start \in Nat /\ series[1] = first[1] + start
<1>1. /\ Len(first) \in Nat \ {0} /\ \A i \in 1..Len(first) : first[i] \in Nat
      /\ DOMAIN first = 1..Len(first)
      /\ Len(series) \in Nat \ {0} /\ \A i \in 1..Len(series) : series[i] \in Nat
      /\ DOMAIN series = 1..Len(series)
  BY DEF Times
<1>l. PICK later : later = { j \in DOMAIN first : first[j] >= series[1] }
  OBVIOUS
<1>2. start = IF later = {} THEN 0 ELSE Min(later) - 1
  BY <1>l DEF Start
<1>3. later # {} /\ start = Min(later) - 1
  BY <1>2
<1>4. later \in SUBSET Nat
  BY <1>1, <1>l
<1>m. PICK least : least = Min(later)
  OBVIOUS
<1>5. least \in later /\ \A j \in later : least <= j
  BY <1>3, <1>4, <1>m, MinIsLeast
<1>6. least \in 1..Len(first) /\ first[least] >= series[1] /\ least # 1
  BY <1>1, <1>3, <1>5, <1>l, <1>m
<1>7. least - 1 \in 1..Len(first) /\ least - 1 \notin later
  BY <1>1, <1>5, <1>6
<1>8. ~(first[least - 1] >= series[1])
  BY <1>1, <1>7, <1>l
<1>9. first[least] = first[1] + least - 1 /\ first[least - 1] = first[1] + (least - 1) - 1
  BY <1>6, <1>7, GaplessTimes
<1>10. 1 \in 1..Len(first) /\ 1 \in 1..Len(series)
  BY <1>1
<1>11. first[1] \in Nat /\ series[1] \in Nat
  BY <1>1, <1>10
<1>a. ASSUME NEW a \in Nat, NEW b \in Nat, NEW l \in Nat, NEW x, NEW y,
            x = a + l - 1, y = a + (l - 1) - 1, x >= b, ~(y >= b)
      PROVE  b = a + (l - 1)
  BY <1>a
<1>12. series[1] = first[1] + (least - 1)
  <2>1. least \in Nat
    BY <1>1, <1>6
  <2> QED
    BY <1>6, <1>8, <1>9, <1>11, <2>1, <1>a
<1>13. start = least - 1 /\ least - 1 \in Nat
  BY <1>1, <1>3, <1>7, <1>m
<1> QED
  BY <1>12, <1>13

\* It is drawn where the longest one, without gaps, has its times,
LEMMA ShorterAligned ==
  ASSUME NEW first \in Times, NEW series \in Times, HasNoGap(first), HasNoGap(series),
         NEW start, start = Start(series, first), start # 0,
         NEW c \in 1..Len(first), c - start \in DOMAIN series
  PROVE  series[c - start] = first[c]
<1>1. start \in Nat /\ series[1] = first[1] + start
  BY ShorterStart
<1>2. first[1] \in Nat /\ c \in Nat /\ DOMAIN series = 1..Len(series)
  BY DEF Times
<1>3. series[c - start] = series[1] + (c - start) - 1 /\ first[c] = first[1] + c - 1
  BY <1>2, GaplessTimes
<1>a. ASSUME NEW a \in Nat, NEW s \in Nat, NEW k \in Nat
      PROVE  (a + s) + (k - s) - 1 = a + k - 1
  OBVIOUS
<1>4. series[c - start] = first[1] + c - 1
  BY <1>1, <1>2, <1>3, <1>a
<1> QED
  BY <1>3, <1>4

\* and nowhere else.
LEMMA ShorterNowhereElse ==
  ASSUME NEW first \in Times, NEW series \in Times, HasNoGap(first), HasNoGap(series),
         NEW start, start = Start(series, first), start # 0,
         NEW c \in 1..Len(first), first[c] \in Range(series)
  PROVE  c - start \in DOMAIN series
<1>1. start \in Nat /\ series[1] = first[1] + start
  BY ShorterStart
<1>2. first[1] \in Nat /\ c \in Nat /\ DOMAIN series = 1..Len(series) /\ Len(series) \in Nat
  BY DEF Times
<1>3. PICK j \in 1..Len(series) : series[j] = first[c]
  BY <1>2 DEF Range
<1>4. series[j] = series[1] + j - 1 /\ first[c] = first[1] + c - 1
  BY GaplessTimes
<1>5. j \in Nat
  BY <1>2
<1>a. ASSUME NEW a \in Nat, NEW s \in Nat, NEW k \in Nat, NEW l \in Nat,
            (a + s) + l - 1 = a + k - 1
      PROVE  k - s = l
  BY <1>a
<1>6. (first[1] + start) + j - 1 = first[1] + c - 1
  BY <1>1, <1>3, <1>4
<1>7. c - start = j
  BY <1>1, <1>2, <1>5, <1>6, <1>a
<1> QED
  BY <1>2, <1>7

\* The columns of one series, by their definition.
LEMMA ColumnsShape ==
  ASSUME NEW series \in Times, NEW seen \in Collected
  PROVE  /\ DOMAIN Columns(series, seen) = 1..seen.max
         /\ Len(Columns(series, seen)) = seen.max
         /\ \A c \in 1..seen.max :
              Columns(series, seen)[c] =
                LET start == IF Len(series) < seen.max THEN Start(series, seen.times) ELSE 0
                IN  IF c - start \in DOMAIN series THEN series[c - start] ELSE NoValue
<1>1. seen.max \in Nat
  BY DEF Collected
<1>2. PICK start : start = IF Len(series) < seen.max THEN Start(series, seen.times) ELSE 0
  OBVIOUS
<1>3. PICK columns :
        columns = [c \in 1..seen.max |->
                     IF c - start \in DOMAIN series THEN series[c - start] ELSE NoValue]
  OBVIOUS
<1>4. Columns(series, seen) = columns
  BY <1>2, <1>3 DEF Columns
<1>5. DOMAIN columns = 1..seen.max /\ Len(columns) = seen.max
  BY <1>1, <1>3
<1> QED
  BY <1>2, <1>3, <1>4, <1>5

\* The series of a plot that have no gaps share its time axis, for every answer and
\* every number of colours.
THEOREM PlotsAligned == ASSUME NEW answer \in Seq(Times) PROVE SharesAxis(answer)
<1>m. PICK matrix : matrix = Colored(answer)
  OBVIOUS
<1>1. /\ matrix \in Seq(Times) /\ Len(matrix) <= Len(answer)
      /\ \A i \in 1..Len(matrix) : matrix[i] = answer[i]
  <2>1. CASE Len(answer) > MaxSeries
    <3>1. matrix = SubSeq(answer, 1, MaxSeries)
      BY <1>m, <2>1 DEF Colored
    <3>2. MaxSeries \in Nat \ {0} /\ \A i \in 1..MaxSeries : answer[i] \in Times
      BY <2>1, ColorsAssumption
    <3>3. /\ matrix \in Seq(Times) /\ Len(matrix) = MaxSeries - 1 + 1
          /\ \A i \in 1..(MaxSeries - 1 + 1) : matrix[i] = answer[1 + i - 1]
      BY <3>1, <3>2, SubSeqProperties
    <3>4. MaxSeries - 1 + 1 = MaxSeries /\ \A i \in 1..MaxSeries : 1 + i - 1 = i
      BY <3>2
    <3> QED
      BY <2>1, <3>3, <3>4
  <2>2. CASE ~(Len(answer) > MaxSeries)
    <3>1. matrix = answer
      BY <1>m, <2>2 DEF Colored
    <3> QED
      BY <3>1
  <2> QED
    BY <2>1, <2>2
<1>s. PICK seen : seen = Scan(matrix)
  OBVIOUS
<1>d. PICK data :
        data = [i \in DOMAIN matrix |->
                  IF \E k \in 1..i : EndsLoop(matrix[k], seen)
                  THEN <<>> ELSE Columns(matrix[i], seen)]
  OBVIOUS
<1>2. Data(answer) = data
  BY <1>m, <1>s, <1>d DEF Data
<1> SUFFICES ASSUME \A i \in DOMAIN answer : HasNoGap(answer[i]),
                    NEW i \in DOMAIN data, NEW c \in DOMAIN data[i],
                    Len(answer[i]) < Len(data[i])
             PROVE  data[i][c] = IF data[1][c] \in Range(answer[i])
                                 THEN data[1][c] ELSE NoValue
  BY <1>2 DEF SharesAxis
<1>3. i \in 1..Len(matrix) /\ 1 \in 1..Len(matrix) /\ Len(matrix) \in Nat /\ Len(matrix) >= 1
  BY <1>1, <1>d
<1>4. /\ matrix[i] \in Times /\ matrix[1] \in Times
      /\ HasNoGap(matrix[i]) /\ HasNoGap(matrix[1])
      /\ matrix[i] = answer[i]
  BY <1>1, <1>3
<1>5. ~ \E k \in 1..i : EndsLoop(matrix[k], seen)
  <2> SUFFICES ASSUME \E k \in 1..i : EndsLoop(matrix[k], seen) PROVE FALSE
    OBVIOUS
  <2>1. data[i] = <<>>
    BY <1>d
  <2>2. DOMAIN data[i] = {}
    BY <2>1
  <2> QED
    BY <2>2
<1>6. ~EndsLoop(matrix[1], seen) /\ ~EndsLoop(matrix[i], seen)
  BY <1>3, <1>5
<1>7. data[i] = Columns(matrix[i], seen) /\ data[1] = Columns(matrix[1], seen)
  <2>1. data[i] = Columns(matrix[i], seen)
    BY <1>5, <1>d
  <2>2. ~ \E k \in 1..1 : EndsLoop(matrix[k], seen)
    BY <1>6
  <2>3. 1 \in DOMAIN matrix
    BY <1>1, <1>3
  <2> QED
    BY <1>d, <2>1, <2>2, <2>3
<1>8. BeginsWithFirst(seen, matrix, Len(matrix))
  BY <1>1, <1>3, <1>s, ScanBeginsWithFirst
<1>9. /\ seen \in Collected /\ Len(matrix[1]) <= seen.max
      /\ Len(matrix[1]) <= Len(seen.times)
      /\ \A j \in 1..Len(matrix[1]) : seen.times[j] = matrix[1][j]
      /\ seen.max = Len(matrix[1]) => seen.times = matrix[1]
  BY <1>3, <1>8 DEF BeginsWithFirst
<1>10. /\ seen.max \in Nat /\ seen.times \in Seq(Nat) /\ DOMAIN seen.times = 1..Len(seen.times)
       /\ Len(seen.times) \in Nat
       /\ Len(matrix[1]) \in Nat \ {0} /\ matrix[1] \in Seq(Nat)
  <2>1. seen.max \in Nat /\ seen.times \in Seq(Nat)
    BY <1>9 DEF Collected
  <2>2. \A series \in Times : Len(series) \in Nat \ {0} /\ series \in Seq(Nat)
    BY DEF Times
  <2>3. DOMAIN seen.times = 1..Len(seen.times) /\ Len(seen.times) \in Nat
    BY <2>1
  <2> QED
    BY <1>4, <2>1, <2>2, <2>3
<1>11. seen.max = Len(matrix[1])
  <2> SUFFICES ASSUME Len(matrix[1]) < seen.max PROVE FALSE
    BY <1>9, <1>10
  <2>l. PICK later : later = { j \in DOMAIN seen.times : seen.times[j] >= matrix[1][1] }
    OBVIOUS
  <2>1. 1 \in 1..Len(matrix[1]) /\ 1 \in DOMAIN seen.times /\ matrix[1][1] \in Nat
    BY <1>9, <1>10
  <2>2. 1 \in later
    BY <1>9, <2>1, <2>l
  <2>3. later \in SUBSET Nat /\ \A j \in later : 1 <= j
    BY <1>10, <2>l
  <2>4. Min(later) \in later /\ Min(later) <= 1
    BY <2>2, <2>3, MinIsLeast
  <2>m. PICK least : least = Min(later)
    OBVIOUS
  <2>5. least \in Nat /\ 1 <= least /\ least <= 1
    BY <2>3, <2>4, <2>m
  <2>e. least - 1 = 0
    BY <2>5
  <2>6. Start(matrix[1], seen.times) = 0
    BY <2>2, <2>e, <2>l, <2>m DEF Start
  <2> QED
    BY <1>6, <2>6 DEF EndsLoop
<1>12. seen.times = matrix[1]
  BY <1>9, <1>11
<1>13. c \in 1..seen.max /\ Len(matrix[i]) < seen.max
  BY <1>4, <1>7, <1>9, ColumnsShape
<1>14. data[1][c] = matrix[1][c]
  <2>1. data[1][c] = IF c - 0 \in DOMAIN matrix[1] THEN matrix[1][c - 0] ELSE NoValue
    <3>1. ~(Len(matrix[1]) < seen.max)
      BY <1>10, <1>11
    <3> QED
      BY <1>4, <1>7, <1>9, <1>13, <3>1, ColumnsShape
  <2>2. c - 0 = c /\ c \in DOMAIN matrix[1]
    BY <1>10, <1>11, <1>13
  <2> QED
    BY <2>1, <2>2
<1>t. PICK start : start = Start(matrix[i], matrix[1])
  OBVIOUS
<1>15. start # 0
  BY <1>6, <1>12, <1>13, <1>t DEF EndsLoop
<1>16. data[i][c] = IF c - start \in DOMAIN matrix[i] THEN matrix[i][c - start] ELSE NoValue
  BY <1>4, <1>7, <1>9, <1>12, <1>13, <1>t, ColumnsShape
<1>e. c \in 1..Len(matrix[1])
  BY <1>11, <1>13
<1>17. CASE c - start \in DOMAIN matrix[i]
  <2>1. data[i][c] = matrix[i][c - start] /\ matrix[i][c - start] \in Range(matrix[i])
    BY <1>16, <1>17 DEF Range
  <2>2. matrix[i][c - start] = matrix[1][c]
    BY <1>4, <1>e, <1>15, <1>17, <1>t, ShorterAligned
  <2> QED
    BY <1>4, <1>14, <2>1, <2>2
<1>18. CASE c - start \notin DOMAIN matrix[i]
  <2>1. data[i][c] = NoValue
    BY <1>16, <1>18
  <2>2. matrix[1][c] \notin Range(matrix[i])
    BY <1>4, <1>e, <1>15, <1>18, <1>t, ShorterNowhereElse
  <2> QED
    BY <1>4, <1>14, <2>1, <2>2
<1> QED
  BY <1>17, <1>18

\* The answers that MCFunctions enumerates.
LEMMA AnswerTimes == Answers \subseteq Seq(Times)
<1>1. Series \subseteq Times
  <2> SUFFICES ASSUME NEW series \in Series PROVE series \in Times
    OBVIOUS
  <2>1. PICK n \in 1..MaxTime : series \in [1..n -> 1..MaxTime]
    BY DEF Series
  <2>2. n \in Nat \ {0} /\ 1..MaxTime \subseteq Nat
    OBVIOUS
  <2>3. series \in [1..n -> Nat]
    BY <2>1, <2>2
  <2>4. series \in Seq(Nat) /\ Len(series) = n
    BY <2>2, <2>3
  <2>5. series # <<>>
    BY <2>2, <2>4
  <2> QED
    BY <2>4, <2>5 DEF Times
<1> SUFFICES ASSUME NEW answer \in Answers PROVE answer \in Seq(Times)
  OBVIOUS
<1>2. PICK k \in 0..MaxAnswer : answer \in [1..k -> Series]
  BY DEF Answers, Lists
<1>3. k \in Nat /\ answer \in [1..k -> Times]
  BY <1>1, <1>2
<1> QED
  BY <1>3

\* Every answer enumerated is drawn on one time axis.
THEOREM PlotsInvariance == FunctionsSpec => []PlotsShareAxis
<1>1. FunctionsInit => PlotsShareAxis
  BY Inputs, AnswerTimes, PlotsAligned DEF PlotsShareAxis
<1>2. PlotsShareAxis /\ [MeetOne]_<<vars, input>> => PlotsShareAxis'
  BY InputKept DEF PlotsShareAxis, Is
<1> QED
  BY <1>1, <1>2, PTL DEF FunctionsSpec
=============================================================================
