---------------------------- MODULE MCFunctions ----------------------------
(***************************************************************************)
(* The pure parts of the program over every small input: the scores of a   *)
(* packet and a plaintext (MCWireMatch), and, each in a state of its own,  *)
(* the payloads, the answers to a metric query and the TLS profiles.       *)
(***************************************************************************)
EXTENDS MCWireMatch, MetricAlign, PlaintextDisplay, TlsProfile

CONSTANTS MaxLayers, MaxTime, MaxAnswer   \* how long payloads, series and answers are

VARIABLE input   \* [of |-> "match"]: the variables of MCWireMatch; or [of, value]

TlsVersions == 1..TLS13
TlsSuites   == {"ecdhe", "cbc", "tls13"}
FixedSuites == {"tls13"}
TlsGroups   == {"x25519", "p256"}

ClusterPresets ==
  [Intermediate |-> [min |-> 3, ciphers |-> <<"tls13", "ecdhe">>, groups |-> <<"x25519">>],
   Modern       |-> [min |-> TLS13, ciphers |-> <<"tls13">>, groups |-> <<"x25519">>]]

Base == [min |-> 3, ciphers |-> <<"ecdhe", "cbc">>, groups |-> <<>>]

Lists(S, n) == UNION { [1..k -> S] : k \in 0..n }

CustomProfiles ==
  [min : 0..(TLS13 + 1), ciphers : Lists(TlsSuites \union {"unknown"}, 2),
   groups : Lists(TlsGroups \union {"unknown"}, 1)]

Clusters ==
  [get : {"found", "not found", "failed"},
   type : {"", "Intermediate", "Modern", "Custom", "unknown"},
   custom : {<<>>} \union { <<spec>> : spec \in CustomProfiles }]

Series ==
  { s \in UNION { [1..n -> 1..MaxTime] : n \in 1..MaxTime } :
      \A i \in 1..(Len(s) - 1) : s[i] < s[i + 1] }

Answers == Lists(Series, MaxAnswer)

FunctionsInit ==
  \/ Init /\ input = [of |-> "match"]
  \/ /\ p = [src |-> NoIP, sport |-> NoPort, dst |-> NoIP, dport |-> NoPort, dir |-> "",
             time |-> NoTime, len |-> 0, tls |-> "openssl", kernel |-> FALSE]
     /\ w = [src |-> NoIP, sport |-> NoPort, dst |-> NoIP, dport |-> NoPort,
             time |-> NoTime, plen |-> NotTCP, pod |-> "none"]
     /\ wr = 0 /\ pr = 0 /\ paired = FALSE
     /\ \/ input \in [of : {"payload"}, value : Payloads(MaxLayers)]
        \/ input \in [of : {"answer"}, value : Answers]
        \/ input \in [of : {"cluster"}, value : Clusters]

MeetOne == input.of = "match" /\ Meet /\ UNCHANGED input

FunctionsSpec == FunctionsInit /\ [][MeetOne]_<<vars, input>>

-----------------------------------------------------------------------------

Is(kind) == input.of = kind

\* A plot shows every series at its own times: see SharesAxis.
PlotsShareAxis == Is("answer") => SharesAxis(input.value)

\* Captured traffic of the agent itself is transparent: see RecordsTransparent.
PayloadsTransparent == Is("payload") => RecordsTransparent(input.value)

\* The text inside the usual wrappers is displayed, cut where TextOrCut says: see
\* TextReached.
PayloadsShowText == Is("payload") => TextReached(input.value)

\* What the cluster's TLS profile says reaches the collector: see
\* ProfileReachesCollector.
ProfilesHonoured == Is("cluster") => ProfileReachesCollector(input.value)
=============================================================================
