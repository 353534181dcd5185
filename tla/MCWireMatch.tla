---------------------------- MODULE MCWireMatch ----------------------------
(***************************************************************************)
(* The scores of WireMatch over every pair of a small packet and a small   *)
(* plaintext, compared with what each tier and bonus is meant to say.      *)
(***************************************************************************)
EXTENDS WireMatch

CONSTANTS
  Pod, Peer,     \* two addresses
  PodStamps, PeerStamps   \* when they arrive: receive times of packets, of plaintexts

ASSUME StampAssumption == PodStamps \subseteq Nat /\ PeerStamps \subseteq Nat

BothEnds == {Pod, Peer}

WireFields == [src : {Pod, Peer, NoIP}, sport : {NoPort, 1, 2}, dst : {Pod, Peer},
               dport : {1, 2}, time : {NoTime, 8, 11}, plen : {NotTCP, 0, 20},
               pod : {"none", "gotls"}]

TextFields == [src : {Pod, NoIP}, sport : {NoPort, 0, 1}, dst : {Peer, NoIP},
               dport : {NoPort, 1, 2}, dir : {"", "read", "write"}, time : {NoTime, 10},
               len : {0, 20}, tls : {"openssl"}, kernel : {FALSE}]

NoFilters   == [ports |-> {}, peerIPs |-> {}, peerNets |-> {}]
PeerFilters == [ports |-> {1}, peerIPs |-> {Peer}, peerNets |-> {{Pod}, {Peer}}]

VARIABLES w, wr, p, pr, paired

vars == <<w, wr, p, pr, paired>>

Init ==
  /\ p \in TextFields /\ pr \in PeerStamps
  /\ w = [src |-> NoIP, sport |-> NoPort, dst |-> NoIP, dport |-> NoPort,
          time |-> NoTime, plen |-> NotTCP, pod |-> "none"]
  /\ wr = 0 /\ paired = FALSE

\* A plaintext meets a packet.
Meet ==
  /\ ~paired /\ paired' = TRUE
  /\ p' = p /\ pr' = pr
  /\ w' \in WireFields /\ wr' \in PodStamps

-----------------------------------------------------------------------------

\* The same code when the capture filters name a port and a peer, with which it
\* completes a plaintext before it is scored; without a prefix, there are none.
Hinted == INSTANCE WireMatch WITH Filters <- PeerFilters

IsCandidate == paired /\ Candidate(w, wr, EnrichFromFilters(p), pr)

IsHintedCandidate == paired /\ Hinted!Candidate(w, wr, Hinted!EnrichFromFilters(p), pr)

\* Within one plaintext every candidate is of the tier that minAnnotationScore
\* expects, so a bonus "can never let a lower match tier outrank a higher one":
\* what is known of the plaintext alone decides its tier.
CandidatesShareTier ==
  /\ IsCandidate =>
       BaseScore(w, EnrichFromFilters(p)) - MinScore(EnrichFromFilters(p))
         \in 0..DirectionBonus
  /\ IsHintedCandidate =>
       LET completed == Hinted!EnrichFromFilters(p)
       IN  Hinted!BaseScore(w, completed) - Hinted!MinScore(completed) \in 0..DirectionBonus

\* A scored packet never contradicts what the agent knew, whatever the filters
\* added: the local endpoint is at the end its direction says, the peer at the
\* other, each with its port.
NeverContradicts ==
  LET local  == IF p.dir = "read" THEN Destination(w) ELSE Source(w)
      remote == IF p.dir = "read" THEN Source(w) ELSE Destination(w)
  IN  IsCandidate \/ IsHintedCandidate =>
        /\ Known(p.src) => local[1] = p.src /\ p.sport \in {NoPort, 0, local[2]}
        /\ Known(p.dst) => remote[1] = p.dst /\ p.dport \in {NoPort, 0, remote[2]}

\* Payload decides between packets before time does: of two candidates that only
\* differ in these, one that carries TCP data outranks, beyond the ambiguity
\* margin, one whose frame holds no TCP segment.
PayloadOutranksTime ==
  IsCandidate /\ w.plen > 0 =>
    \A t \in {NoTime, 8, 11} :
      LET completed == EnrichFromFilters(p)
          other     == [w EXCEPT !.time = t, !.plen = NotTCP]
      IN  Candidate(other, wr, completed, pr) =>
            Score(w, wr, completed, pr) - Score(other, wr, completed, pr) > AmbiguityMargin
=============================================================================
