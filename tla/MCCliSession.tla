---------------------------- MODULE MCCliSession ----------------------------
(* Two sessions for CliSession: two captures, in the Krew plugin on         *)
(* OpenShift and from the installed script on Kubernetes; or a capture and  *)
(* a command that ends it.                                                  *)
EXTENDS CliSession

CONSTANTS s1, s2

Pair(c1, c2) == (s1 :> c1) @@ (s2 :> c2)

Pairs ==
  { <<b, b, Pair("flows", "flows")>> : b \in BOOLEAN }
    \cup { <<b, TRUE, Pair(c, "cleanup")>> : b \in BOOLEAN, c \in {"flows", "metrics"} }
    \cup { <<FALSE, TRUE, Pair("flows", "stop")>> }
=============================================================================
