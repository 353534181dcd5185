------------------------------ MODULE WireMatch ------------------------------
(***************************************************************************)
(* How strongly a decrypted TLS record ("plaintext") and a captured wire   *)
(* packet are believed to belong together: the scoring functions of        *)
(* cmd/packet_capture_wire_buffer.go and the filter hints of               *)
(* cmd/packet_capture_filters.go, as operators on records.                 *)
(*                                                                         *)
(* A wire packet   w == [src, sport, dst, dport, time, plen, pod]          *)
(* A plaintext     p == [src, sport, dst, dport, dir, time, len, tls,      *)
(*                       kernel]                                           *)
(* Addresses are opaque values, NoIP standing for every value that         *)
(* validIPString rejects; a port that mapPortFromGeneric cannot read is    *)
(* NoPort; a missing agent timestamp is NoTime.  plen is the length of the *)
(* TCP payload, NotTCP when no TCP layer decodes.  The agent writes the    *)
(* local endpoint of the TLS process first (src, sport) in a plaintext.    *)
(***************************************************************************)
EXTENDS Integers, FiniteSets

CONSTANTS
  Addresses,   \* the IP addresses that occur
  NoIP,        \* an address that is absent, malformed or unspecified
  Filters,     \* captureFilters: [ports, peerIPs, peerNets], peerNets as sets of addresses
  Window       \* plaintextCorrelationWindow, in ticks of the receive clock

NoPort == -1
NoTime == -1
NotTCP == -1

MaxPort   == 65535
Ports     == NoPort..MaxPort
Hosts     == Addresses \cup {NoIP}
Endpoints == Hosts \X Ports

WirePackets ==
  [src : Hosts, sport : Ports, dst : Hosts, dport : Ports, time : Nat \cup {NoTime},
   plen : Nat \cup {NotTCP}, pod : STRING]

Plaintexts ==
  [src : Hosts, sport : Ports, dst : Hosts, dport : Ports, dir : STRING,
   time : Nat \cup {NoTime}, len : Nat, tls : STRING, kernel : BOOLEAN]

ASSUME WindowAssumption == Window \in Nat \ {0}

ASSUME AddressAssumption ==
  /\ NoIP \notin Addresses
  /\ Filters \in [ports : SUBSET (0..MaxPort), peerIPs : SUBSET Addresses,
                  peerNets : SUBSET SUBSET Addresses]

NoMatch == -1   \* the score of a packet that is not a candidate

\* Agent timestamps are in seconds: plaintextMatchMaxSkew, plaintextMatchMinDelta.
MaxSkew  == 5
MinDelta == -2

StrictBase      == 100
RemoteBase      == 75
LooseBase       == 50
FilterBase      == 50
AmbiguityMargin == 5
DirectionBonus  == 5
PayloadBonusLow == 10   \* a mistake to catch: no more than the bonus for time
PayloadBonus    == 20
SizeBonus       == 5
TimeBonusMax    == 10

-----------------------------------------------------------------------------
(* Endpoints and tuples, for both kinds of record.                          *)

Known(ip) == ip # NoIP

HasTuple(m) ==
  Known(m.src) /\ Known(m.dst) /\ m.sport # NoPort /\ m.dport # NoPort

Source(m)      == <<m.src, m.sport>>
Destination(m) == <<m.dst, m.dport>>
Tuple(m)       == <<Source(m), Destination(m)>>

SameConnection(s, t) == t = s \/ t = <<s[2], s[1]>>

\* plaintextPodEndpoint: the first complete endpoint, as a set of at most one.
PodEndpoint(p) ==
  IF Known(p.src) /\ p.sport > 0 THEN {Source(p)}
  ELSE IF Known(p.dst) /\ p.dport > 0 THEN {Destination(p)}
  ELSE {}

\* plaintextPeerIP: the known address that is not the pod's, at most one.
PeerIP(p) ==
  {ip \in {p.src, p.dst} : Known(ip) /\ \E e \in PodEndpoint(p) : e[1] # ip}

-----------------------------------------------------------------------------
(* Capture filters.                                                         *)

FiltersActive ==
  Filters.ports # {} \/ Filters.peerIPs # {} \/ Filters.peerNets # {}

IsSingleton(S) == \E x \in S : S = {x}

SingleOrElse(S, default) == IF IsSingleton(S) THEN CHOOSE x \in S : TRUE ELSE default

CompletePort(p, port) == IF port > 0 /\ p.sport <= 0 THEN [p EXCEPT !.sport = port] ELSE p

\* A mistake to catch: a known source address gives way to the filter's.
EnrichOverSource(p) ==
  LET peer == SingleOrElse(Filters.peerIPs, NoIP)
      port == SingleOrElse(Filters.ports, 0)
  IN  IF HasTuple(p) \/ ~Known(peer) THEN CompletePort(p, port)
      ELSE CompletePort([p EXCEPT !.src = peer], port)

\* enrichPlaintextFromCaptureFilters with applyWorkloadPlaintextTuple inlined.
EnrichFromFilters(p) ==
  LET peer == SingleOrElse(Filters.peerIPs, NoIP)
      port == SingleOrElse(Filters.ports, 0)
  IN  IF HasTuple(p) THEN p
      ELSE IF ~Known(peer) THEN CompletePort(p, port)
      ELSE IF Known(p.src) /\ p.src # peer THEN p
      ELSE CompletePort([p EXCEPT !.src = peer], port)

MatchesFilters(w) ==
  /\ FiltersActive
  /\ Filters.ports # {}    => {w.sport, w.dport} \cap Filters.ports # {}
  /\ Filters.peerIPs # {}  => {w.src, w.dst} \cap Filters.peerIPs # {}
  /\ Filters.peerNets # {} => {w.src, w.dst} \cap UNION Filters.peerNets # {}

-----------------------------------------------------------------------------
(* The conditions a candidate packet must meet before it gets a score.      *)

BothTimed(w, p) == w.time # NoTime /\ p.time # NoTime

ReceiveDelta(wr, pr) == IF pr >= wr THEN pr - wr ELSE wr - pr

\* wr and pr: when the packet and the plaintext reached the buffer.
TimesCorrelated(w, wr, p, pr) ==
  IF BothTimed(w, p)
  THEN p.time - w.time \in MinDelta..MaxSkew
  ELSE ReceiveDelta(wr, pr) <= Window

PodCompatible(w, p) ==
  \/ p.tls = "" \/ w.pod \notin {"openssl", "gotls", "ktls"}
  \/ w.pod = "openssl" /\ p.tls \in {"openssl", "ktls"}
  \/ w.pod = "gotls"   /\ p.tls = "gotls"
  \/ w.pod = "ktls"    /\ p.tls \in {"openssl", "ktls"}

\* A known address, and the port that goes with it, are constraints.
EndpointAgrees(known, actual) ==
  Known(known[1]) => /\ actual[1] = known[1]
                     /\ known[2] > 0 => actual[2] = known[2]

\* A mistake to catch: only the local endpoint is compared.
LocalEndpointCompatible(w, p) ==
  EndpointAgrees(Source(p), IF p.dir = "read" THEN Destination(w) ELSE Source(w))

EndpointsCompatible(w, p) ==
  IF p.dir = "read"
  THEN EndpointAgrees(Source(p), Destination(w)) /\ EndpointAgrees(Destination(p), Source(w))
  ELSE EndpointAgrees(Source(p), Source(w)) /\ EndpointAgrees(Destination(p), Destination(w))

\* Sent by the pod for a write, sent to it for a read.
TravelsInDirection(w, p, e) ==
  \/ p.dir = "write" /\ Source(w) = e
  \/ p.dir = "read" /\ Destination(w) = e

DirectionCompatible(w, p) ==
  p.dir \in {"write", "read"} => \A e \in PodEndpoint(p) : TravelsInDirection(w, p, e)

-----------------------------------------------------------------------------
(* Scores.  A tier scores NoMatch or at least its base.                     *)

TimeBonus(w, wr, p, pr) ==
  IF BothTimed(w, p)
  THEN LET delta == p.time - w.time
           late  == IF delta >= 0 THEN delta ELSE -delta
           limit == IF delta >= 0 THEN MaxSkew ELSE -MinDelta
       IN  IF late <= limit THEN (TimeBonusMax * (limit - late)) \div limit ELSE 0
  ELSE LET late == ReceiveDelta(wr, pr)
       IN  IF late <= Window THEN (TimeBonusMax * (Window - late)) \div Window ELSE 0

StrictScore(w, p) ==
  IF ~(HasTuple(p) /\ HasTuple(w) /\ SameConnection(Tuple(w), Tuple(p))) THEN NoMatch
  ELSE IF \/ p.dir = "write" /\ Tuple(w) = Tuple(p)
          \/ p.dir = "read" /\ Tuple(w) = <<Destination(p), Source(p)>>
       THEN StrictBase + DirectionBonus
       ELSE StrictBase

\* The packet has the pod's endpoint at one of its ends, whatever the direction.
TouchesPod(w, p) ==
  \E e \in PodEndpoint(p) : e \in {Source(w), Destination(w)}

WithDirection(base, w, p) ==
  IF \E e \in PodEndpoint(p) : TravelsInDirection(w, p, e) THEN base + DirectionBonus ELSE base

RemoteScore(w, p) ==
  IF TouchesPod(w, p) /\ PeerIP(p) # {} /\ PeerIP(p) \subseteq {w.src, w.dst}
  THEN WithDirection(RemoteBase, w, p) ELSE NoMatch

LooseScore(w, p) ==
  IF TouchesPod(w, p) THEN WithDirection(LooseBase, w, p) ELSE NoMatch

FilterScore(w) ==
  IF ~MatchesFilters(w) THEN NoMatch
  ELSE FilterBase + (IF Filters.ports # {} THEN 1 ELSE 0)
                  + (IF Filters.peerIPs # {} \/ Filters.peerNets # {} THEN 1 ELSE 0)

\* A mistake to catch: a full tuple falls back to the tiers below, too.
BaseScoreFallsBack(w, p) ==
  IF StrictScore(w, p) # NoMatch THEN StrictScore(w, p)
  ELSE IF RemoteScore(w, p) # NoMatch THEN RemoteScore(w, p)
  ELSE IF LooseScore(w, p) # NoMatch THEN LooseScore(w, p)
  ELSE FilterScore(w)

\* A full tuple admits the strict tier only; the others fall back in order.
BaseScore(w, p) ==
  IF HasTuple(p) THEN StrictScore(w, p)
  ELSE IF RemoteScore(w, p) # NoMatch THEN RemoteScore(w, p)
  ELSE IF LooseScore(w, p) # NoMatch THEN LooseScore(w, p)
  ELSE FilterScore(w)

PayloadScore(w, p, score) ==
  IF w.plen = NotTCP THEN score
  ELSE IF w.plen = 0 THEN NoMatch
  ELSE score + PayloadBonus + (IF p.len > 0 /\ w.plen >= p.len THEN SizeBonus ELSE 0)

Candidate(w, wr, p, pr) ==
  /\ TimesCorrelated(w, wr, p, pr)
  /\ PodCompatible(w, p)
  /\ EndpointsCompatible(w, p)
  /\ DirectionCompatible(w, p)
  /\ BaseScore(w, p) # NoMatch

\* scorePlaintextWireMatch
Score(w, wr, p, pr) ==
  IF Candidate(w, wr, p, pr)
  THEN PayloadScore(w, p, BaseScore(w, p) + TimeBonus(w, wr, p, pr))
  ELSE NoMatch

\* A mistake to catch: the pod's endpoint alone makes the remote tier.
MinScoreOfPod(p) ==
  IF HasTuple(p) THEN StrictBase ELSE IF PodEndpoint(p) # {} THEN RemoteBase ELSE FilterBase

\* minAnnotationScore
MinScore(p) ==
  IF HasTuple(p) THEN StrictBase
  ELSE IF PodEndpoint(p) # {} THEN (IF PeerIP(p) # {} THEN RemoteBase ELSE LooseBase)
  ELSE IF FiltersActive THEN FilterBase ELSE LooseBase
=============================================================================
