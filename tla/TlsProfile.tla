----------------------------- MODULE TlsProfile -----------------------------
(***************************************************************************)
(* How the TLS profile of the cluster reaches the collector: fetched and   *)
(* resolved into the TLS_* entries of a ConfigMap by the resolve-tls       *)
(* container (internal/pkg/tlsresolver), read back as environment          *)
(* variables by the collector (cmd/collector_tls.go).  A version is a      *)
(* number, 0 for none; ciphers and groups are sequences, in order of       *)
(* preference, << >> for none.                                             *)
(***************************************************************************)
EXTENDS Integers, SequencesExt

CONSTANTS
  Presets,         \* configv1.TLSProfiles: the settings of each named type
  SecureBase,      \* crypto.SecureTLSConfig
  KnownVersions,   \* those of crypto/tls
  KnownCiphers, KnownGroups,
  Fixed            \* the cipher suites of TLS 1.3, which cannot be chosen

TLS13 == 4
NoSettings == [min |-> 0, ciphers |-> <<>>, groups |-> <<>>]

\* The cipher suites that can be chosen.
Choosable(ciphers) == SelectSeq(ciphers, LAMBDA c : c \notin Fixed)

\* crypto.DefaultCiphers has suites of TLS 1.2 as well.
ASSUME TlsAssumption ==
  /\ KnownVersions \subseteq Nat \ {0} /\ Fixed \subseteq KnownCiphers
  /\ "Intermediate" \in DOMAIN Presets
  /\ SecureBase.min \in KnownVersions /\ Choosable(SecureBase.ciphers) # <<>>

Keep(names, known) == SelectSeq(names, LAMBDA n : n \in known)

-----------------------------------------------------------------------------
(* resolve-tls.  What is asked of the cluster is [get, type, custom]; custom
   holds the sequence of the custom settings, or none. *)

Intermediate == [type |-> "Intermediate", custom |-> <<>>]

\* "OCP's implicit default" for a missing APIServer, profile or type.
fetchTLSProfile(cluster) ==
  IF cluster.get = "not found" \/ cluster.type = ""
  THEN Intermediate
  ELSE [type |-> cluster.type, custom |-> cluster.custom]

tlsVersionFromString(version) == IF version \in KnownVersions THEN version ELSE 0

\* What the profile says, without what is unknown.
profileToTLSConfig(profile) ==
  LET Known(spec) == [min     |-> tlsVersionFromString(spec.min),
                      ciphers |-> Keep(spec.ciphers, KnownCiphers),
                      groups  |-> Keep(spec.groups, KnownGroups)]
  IN  CASE profile.type \in DOMAIN Presets -> Known(Presets[profile.type])
        [] profile.type = "Custom" /\ profile.custom # <<>> -> Known(profile.custom[1])
        [] OTHER -> NoSettings

\* A mistake to catch: an error leaves nothing of the profile.
ComposeOrBase(profile) ==
  LET said == profileToTLSConfig(profile)
  IN  IF said.min = 0 THEN SecureBase ELSE said

ComposeTLSConfig(profile) ==
  LET said == profileToTLSConfig(profile)
  IN  [min     |-> IF said.min # 0 THEN said.min ELSE SecureBase.min,
       ciphers |-> IF said.ciphers # <<>> THEN said.ciphers ELSE SecureBase.ciphers,
       groups  |-> IF said.groups # <<>> THEN said.groups ELSE SecureBase.groups]

\* The entries of the ConfigMap: "Only non-empty fields are emitted".
ConfigToEnvMap(config) ==
  [field \in { f \in DOMAIN config : config[f] # NoSettings[f] } |-> config[field]]

\* A cluster that cannot be asked fails the container, and the pod is not started.
ResolveFails(cluster) == cluster.get = "failed"

Resolve(cluster) == ConfigToEnvMap(ComposeTLSConfig(fetchTLSProfile(cluster)))

-----------------------------------------------------------------------------

\* tlsprofile.Apply on a configuration with nothing set: below TLS 1.3, the cipher
\* suites that can be chosen; from there on, none.
Apply(env) ==
  LET set == [f \in DOMAIN NoSettings |-> IF f \in DOMAIN env THEN env[f] ELSE NoSettings[f]]
  IN  [set EXCEPT !.ciphers = IF set.min >= TLS13 THEN <<>> ELSE Choosable(@)]

\* Without a certificate and key that load, << >>: the collector serves without TLS.
buildCollectorTLSConfig(files, env) == IF files = "good" THEN <<Apply(env)>> ELSE <<>>

-----------------------------------------------------------------------------

\* The collector always gets a least version and, for the versions in which they are
\* chosen, cipher suites; each part of the cluster's profile that has a known value
\* reaches it unchanged, whatever is unknown or missing in the others.
ProfileReachesCollector(cluster) ==
  ~ResolveFails(cluster) =>
    LET profile   == fetchTLSProfile(cluster)
        said      == profileToTLSConfig(profile)
        collector == buildCollectorTLSConfig("good", Resolve(cluster))[1]
    IN  /\ collector.min # 0
        /\ said.min # 0 => collector.min = said.min
        /\ said.groups # <<>> => collector.groups = said.groups
        /\ collector.min < TLS13 =>
             IF said.ciphers # <<>>
             THEN collector.ciphers = Choosable(said.ciphers)
             ELSE collector.ciphers # <<>>
=============================================================================
