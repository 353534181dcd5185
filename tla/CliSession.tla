----------------------------- MODULE CliSession -----------------------------
(***************************************************************************)
(* Sessions of the shell front end (commands/netobserv and                 *)
(* scripts/functions.sh) that share one namespace of one cluster.  A       *)
(* session sets up objects in the cluster, one call after the other, runs  *)
(* the collector and, from the trap on EXIT, removes what is in the        *)
(* namespace.  Any call may fail and the user may interrupt at any time.   *)
(***************************************************************************)
EXTENDS SequencesExt

CONSTANTS
  Sessions,
  NoOne,       \* owner of an object that does not exist
  Together,    \* bound: errexit, isOCP and the commands given at the same time
  MaxFailures  \* bound: failed or slow calls and interruptions

Commands == {"flows", "metrics", "stop", "cleanup"}   \* packets: as flows

ASSUME SessionAssumption ==
  /\ NoOne \notin Sessions /\ IsFiniteSet(Sessions)
  /\ Together \subseteq BOOLEAN \X BOOLEAN \X [Sessions -> Commands]
  /\ MaxFailures \in Nat

VARIABLES
  errexit,      \* `set -e` is in effect: kept in the Krew plugin, cut out by inject.sh
  isOCP,        \* the cluster is OpenShift: collector and agents use TLS
  cluster,      \* the session that created each object
  terminating,  \* the namespace is being deleted
  agents,       \* the pods of the DaemonSet
  collector,    \* the collector's pod
  phase, todo,  \* of each session: where it is, and the calls still to make
  command, runBackground, skipCleanup, captureStarted,
  fate,         \* history: what became of the session
  unclean,      \* history: a call of the clean-up failed
  failures      \* history: how many failures came from outside

build   == <<errexit, isOCP>>
objects == <<cluster, terminating, agents, collector>>
options == <<command, runBackground>>
flags   == <<skipCleanup, captureStarted>>
history == <<fate, unclean, failures>>
vars == <<build, objects, phase, todo, options, flags, history>>

\* What a call applies.  Roles and the dashboard are not in the namespace.
Creates == [ namespace |-> {"namespace"},
             account   |-> {"account", "roles"},
             monitor   |-> {"monitor", "dashboard"},
             daemonset |-> {"daemonset"},
             collector |-> {"collector"} ]

NotInNamespace == {"namespace", "roles", "dashboard"}
Objects == (UNION { Creates[c] : c \in DOMAIN Creates }) \cup {"tls config"}

Init ==
  LET none == [s \in Sessions |-> FALSE] IN
  /\ \E given \in Together :
       errexit = given[1] /\ isOCP = given[2] /\ command = given[3]
  /\ cluster = [o \in Objects |-> NoOne] /\ terminating = FALSE
  /\ agents = "none" /\ collector = "none"
  /\ phase = [s \in Sessions |-> "idle"] /\ todo = [s \in Sessions |-> <<>>]
  /\ runBackground = none
  /\ skipCleanup = none /\ captureStarted = none
  /\ fate = [s \in Sessions |-> "open"] /\ unclean = none /\ failures = 0

Exists(o) == cluster[o] # NoOne

tlsEnabled(s) == isOCP /\ command[s] = "flows"

DeployAgents == <<"daemonset", "wait agents">>

\* A mistake to catch: with TLS as well, the agents are deployed by setup.
PlanUndeferred(s) ==
  <<"namespace", "account">>
    \o (IF command[s] = "metrics" THEN <<"monitor">> ELSE <<>>)
    \o DeployAgents \o <<"collector", "wait collector", "capture">>

\* The calls of setup, from the namespace on, and of the script after it.
Plan(s) ==
  <<"namespace", "account">>
    \o (IF command[s] = "metrics" THEN <<"monitor">> ELSE <<>>)
    \o (IF tlsEnabled(s) THEN <<>> ELSE DeployAgents)
    \o <<"collector", "wait collector">>
    \o (IF tlsEnabled(s) THEN DeployAgents ELSE <<>>)
    \o <<"capture">>

\* A mistake to catch: the one object outside the namespace is forgotten.
DeletionsInNamespace(s) ==
  (IF captureStarted[s] THEN <<"copy">> ELSE <<>>)
    \o <<"monitor", "daemonset", "collector", "namespace">>

\* cleanup: copyOutput if there is something to copy, then the deletions.
Deletions(s) ==
  (IF captureStarted[s] THEN <<"copy">> ELSE <<>>)
    \o <<"monitor", "dashboard", "daemonset", "collector", "namespace">>

Set(f, s, v) == [f EXCEPT ![s] = v]

GoTo(s, p, calls) == phase' = Set(phase, s, p) /\ todo' = Set(todo, s, calls)

Advance(s) == GoTo(s, phase[s], Tail(todo[s]))

Exit(s) == GoTo(s, "exiting", <<>>)

\* A call failed or was slow, the user interrupted, or another session deletes.
Hindered(ss) == fate' = [s \in Sessions |-> IF s \in ss THEN "hindered" ELSE fate[s]]

Disturbed(s) == { t \in Sessions \ {s} : phase[t] = "setting up" }

\* Something outside the script fails.
Failure == failures < MaxFailures /\ failures' = failures + 1

\* A failed call ends a script that has errexit, and is passed over by any other.
FailCall(s) ==
  /\ Hindered({s})
  /\ IF errexit THEN Exit(s) ELSE Advance(s)

\* The process ends, and with it what its variables held.
Finish(s) ==
  /\ GoTo(s, "done", <<>>)
  /\ skipCleanup' = Set(skipCleanup, s, FALSE)
  /\ captureStarted' = Set(captureStarted, s, FALSE)

-----------------------------------------------------------------------------
(* The script up to its first change of the cluster.                        *)

\* `stop` and `cleanup` do their work and leave.
Start(s) ==
  /\ phase[s] = "idle"
  /\ \/ command[s] = "stop" /\ GoTo(s, "cleaning", <<"daemonset">>)
     \/ command[s] = "cleanup" /\ GoTo(s, "cleaning", Deletions(s))
  /\ UNCHANGED <<build, objects, options, flags, history>>

\* A capture looks at its options first: a mistake in them ends it, and skipCleanup is
\* set until they are read.
ParseArgs(s) ==
  /\ phase[s] = "idle" /\ command[s] \in {"flows", "metrics"}
  /\ \/ /\ runBackground' \in { Set(runBackground, s, b) : b \in BOOLEAN }
        /\ GoTo(s, "looking", <<>>)
        /\ UNCHANGED skipCleanup
     \/ /\ skipCleanup' = Set(skipCleanup, s, TRUE)
        /\ Exit(s)
        /\ UNCHANGED runBackground
  /\ UNCHANGED <<build, objects, command, captureStarted, history>>

\* clusterIsReady and, on OpenShift, checkClusterVersion, which come first; or Ctrl-C.
CheckFails(s) ==
  /\ phase[s] = "looking" /\ Failure
  /\ Exit(s) /\ Hindered({s})
  /\ UNCHANGED <<build, objects, options, flags, unclean>>

\* namespaceFound, which takes a failed call for an absent namespace.
NamespaceFound(s) ==
  /\ phase[s] = "looking" /\ Exists("namespace")
  /\ skipCleanup' = Set(skipCleanup, s, TRUE)
  /\ Exit(s)
  /\ UNCHANGED <<build, objects, options, captureStarted, history>>

NamespaceNotFound(s) ==
  /\ phase[s] = "looking"
  /\ IF Exists("namespace")
     THEN Failure /\ Hindered({s})
     ELSE UNCHANGED <<fate, failures>>
  /\ GoTo(s, "setting up", Plan(s))
  /\ UNCHANGED <<build, objects, options, flags, unclean>>

-----------------------------------------------------------------------------
(* The calls that set up and run a capture.                                 *)

Calls(s, call) == phase[s] = "setting up" /\ Head(todo[s]) = call

\* Into a namespace that is absent or terminating nothing can be created; `run`
\* creates, the others apply, which accepts what exists already.
MayCreate(call) ==
  /\ call # "namespace" => Exists("namespace") /\ ~terminating
  /\ call = "collector" => ~Exists("collector")

Apply(s, call) ==
  /\ Calls(s, call) /\ MayCreate(call)
  /\ cluster' = [o \in Objects |-> IF o \in Creates[call] /\ ~Exists(o) THEN s ELSE cluster[o]]
  /\ agents' = IF call = "daemonset" /\ ~Exists("daemonset") THEN "unscheduled" ELSE agents
  /\ collector' = IF call = "collector" THEN "starting" ELSE collector
  /\ Advance(s)
  /\ UNCHANGED <<build, terminating, options, flags, history>>

ApplyFails(s, call) ==
  /\ Calls(s, call)
  /\ IF MayCreate(call) THEN Failure ELSE UNCHANGED failures
  /\ FailCall(s)
  /\ UNCHANGED <<build, objects, options, flags, unclean>>

\* waitDaemonset: 0 of 0 is enough, and so is no answer unless errexit is set.
AgentsReady(s) ==
  /\ Calls(s, "wait agents")
  /\ agents \in {"unscheduled", "ready"} \/ (agents = "none" /\ ~errexit)
  /\ Advance(s)
  /\ UNCHANGED <<build, objects, options, flags, history>>

\* `kubectl wait`.
CollectorReady(s) ==
  /\ Calls(s, "wait collector") /\ collector = "ready"
  /\ captureStarted' = Set(captureStarted, s, TRUE)
  /\ Advance(s)
  /\ UNCHANGED <<build, objects, options, skipCleanup, history>>

\* With TLS the agents' containers wait for the ConfigMap (optional: false).
AgentsCanStart ==
  agents = "starting" /\ (tlsEnabled(cluster["daemonset"]) => Exists("tls config"))

\* The pods need nothing but time: giving them up is then the cluster's doing.
CanStart(call) ==
  IF call = "wait agents" THEN AgentsCanStart ELSE collector = "starting"

\* Either wait ends with `exit 1` when its time is up or a container crashes.
GiveUp(s, call) ==
  /\ Calls(s, call)
  /\ call = "wait agents" => agents = "starting" \/ (agents = "none" /\ errexit)
  /\ call = "wait collector" => collector # "ready"
  /\ IF CanStart(call) THEN Failure /\ Hindered({s}) ELSE UNCHANGED <<fate, failures>>
  /\ Exit(s)
  /\ UNCHANGED <<build, objects, options, flags, unclean>>

\* In the foreground, `kubectl exec`; in the background the pod captures by itself.
Capture(s) ==
  /\ Calls(s, "capture") /\ collector = "ready"
  /\ fate' = Set(fate, s, "captured")
  /\ IF runBackground[s] THEN Exit(s) ELSE GoTo(s, "capturing", <<>>)
  /\ UNCHANGED <<build, objects, options, flags, unclean, failures>>

CaptureFails(s) ==
  /\ Calls(s, "capture") \/ phase[s] = "capturing"
  /\ IF collector = "ready" THEN Failure ELSE UNCHANGED failures
  /\ Exit(s) /\ Hindered({s})
  /\ UNCHANGED <<build, objects, options, flags, unclean>>

EndCapture(s) ==
  /\ phase[s] = "capturing"
  /\ Exit(s)
  /\ UNCHANGED <<build, objects, options, flags, history>>

\* Ctrl-C: the trap on EXIT runs, wherever the script is.
Interrupt(s) ==
  /\ phase[s] = "setting up" /\ Failure
  /\ Exit(s) /\ Hindered({s})
  /\ UNCHANGED <<build, objects, options, flags, unclean>>

-----------------------------------------------------------------------------
(* The trap on EXIT.                                                        *)

\* A mistake to catch: a session that was refused cleans up as any other.
CleanupAlways(s) ==
  /\ phase[s] = "exiting"
  /\ \/ runBackground[s] /\ Finish(s)
     \/ ~runBackground[s] /\ GoTo(s, "cleaning", Deletions(s)) /\ UNCHANGED flags
  /\ UNCHANGED <<build, objects, options, history>>

Cleanup(s) ==
  /\ phase[s] = "exiting"
  /\ IF runBackground[s] \/ skipCleanup[s]
     THEN Finish(s)
     ELSE GoTo(s, "cleaning", Deletions(s)) /\ UNCHANGED flags
  /\ UNCHANGED <<build, objects, options, history>>

\* clusterIsReady again: "Cleanup namespace skipped".
CleanupSkipped(s) ==
  /\ phase[s] = "exiting" /\ ~runBackground[s] /\ ~skipCleanup[s]
  /\ Failure
  /\ unclean' = Set(unclean, s, TRUE)
  /\ Finish(s)
  /\ UNCHANGED <<build, objects, options, fate>>

Cleans(s, call) == phase[s] = "cleaning" /\ todo[s] # <<>> /\ Head(todo[s]) = call

Copy(s) ==
  /\ Cleans(s, "copy") /\ Advance(s)
  /\ UNCHANGED <<build, objects, options, flags, history>>

\* A mistake to catch: --cascade=orphan, which leaves the DaemonSet's pods.
DeleteOrphaning(s, o) ==
  /\ Cleans(s, o) /\ o # "namespace"
  /\ Hindered(IF Exists(o) THEN Disturbed(s) ELSE {})
  /\ cluster' = [cluster EXCEPT ![o] = NoOne]
  /\ collector' = IF o = "collector" THEN "none" ELSE collector
  /\ Advance(s)
  /\ UNCHANGED <<build, agents, terminating, options, flags, unclean, failures>>

\* delete --ignore-not-found of one object.
Delete(s, o) ==
  /\ Cleans(s, o) /\ o # "namespace"
  /\ Hindered(IF Exists(o) THEN Disturbed(s) ELSE {})
  /\ cluster' = [cluster EXCEPT ![o] = NoOne]
  /\ agents' = IF o = "daemonset" THEN "none" ELSE agents
  /\ collector' = IF o = "collector" THEN "none" ELSE collector
  /\ Advance(s)
  /\ UNCHANGED <<build, terminating, options, flags, unclean, failures>>

\* The namespace is marked; the call returns once it is gone.
DeleteNamespace(s) ==
  /\ Cleans(s, "namespace")
  /\ IF Exists("namespace")
     THEN /\ ~terminating /\ terminating' = TRUE
          /\ Hindered(Disturbed(s))
          /\ UNCHANGED <<phase, todo>>
     ELSE Advance(s) /\ UNCHANGED <<terminating, fate>>
  /\ UNCHANGED <<build, cluster, agents, collector, options, flags, unclean, failures>>

\* A failed call, copyOutput's too, ends the clean-up if errexit is set.
CleanupFails(s) ==
  /\ phase[s] = "cleaning" /\ todo[s] # <<>> /\ Failure
  /\ unclean' = Set(unclean, s, TRUE)
  /\ IF errexit THEN Finish(s) ELSE Advance(s) /\ UNCHANGED flags
  /\ UNCHANGED <<build, objects, options, fate>>

CleanedAll(s) ==
  /\ phase[s] = "cleaning" /\ todo[s] = <<>>
  /\ Finish(s)
  /\ UNCHANGED <<build, objects, options, history>>

-----------------------------------------------------------------------------
(* The cluster.                                                             *)

InCluster == UNCHANGED <<build, phase, todo, options, flags, unclean, failures>>

Schedule ==
  /\ agents = "unscheduled" /\ agents' = "starting"
  /\ InCluster /\ UNCHANGED <<cluster, terminating, collector, fate>>

StartAgents ==
  /\ AgentsCanStart /\ ~terminating
  /\ agents' = "ready"
  /\ InCluster /\ UNCHANGED <<cluster, terminating, collector, fate>>

\* The ConfigMap is updated, or created.
applyConfigMap(owner) ==
  IF Exists("tls config") THEN cluster ELSE [cluster EXCEPT !["tls config"] = owner]

\* The collector's pod; with TLS its init container, `resolve-tls`, goes first.
StartCollector ==
  /\ collector = "starting" /\ ~terminating
  /\ LET owner == cluster["collector"] IN
     cluster' = IF tlsEnabled(owner) THEN applyConfigMap(owner) ELSE cluster
  /\ collector' = "ready"
  /\ InCluster /\ UNCHANGED <<terminating, agents, fate>>

\* A capture in the background reaches its limit: the collector deletes the agents,
\* even if its session's script still waits for them.
LimitReached ==
  LET owner == cluster["collector"] IN
  /\ collector = "ready" /\ runBackground[owner] /\ Exists("daemonset")
  /\ cluster' = [cluster EXCEPT !["daemonset"] = NoOne] /\ agents' = "none"
  /\ fate' = [s \in Sessions |-> CASE s = owner -> "captured"
                                  [] s \in Disturbed(owner) -> "hindered"
                                  [] OTHER -> fate[s]]
  /\ InCluster /\ UNCHANGED <<terminating, collector>>

Purge ==
  /\ terminating /\ terminating' = FALSE
  /\ cluster' = [o \in Objects |-> IF o \in NotInNamespace \ {"namespace"} THEN cluster[o] ELSE NoOne]
  /\ agents' = "none" /\ collector' = "none"
  /\ InCluster /\ UNCHANGED fate

-----------------------------------------------------------------------------

\* What the script does by itself, except giving up on what is only slow.
Script(s) ==
  \/ CheckFails(s) \/ NamespaceFound(s) \/ NamespaceNotFound(s)
  \/ \E call \in DOMAIN Creates : Apply(s, call) \/ ApplyFails(s, call)
  \/ AgentsReady(s) \/ CollectorReady(s) \/ Capture(s) \/ CaptureFails(s)
  \/ \E call \in {"wait agents", "wait collector"} : GiveUp(s, call)
  \/ Cleanup(s) \/ CleanupSkipped(s) \/ Copy(s) \/ DeleteNamespace(s)
  \/ \E o \in Objects : Delete(s, o)
  \/ CleanupFails(s) \/ CleanedAll(s)

Cluster == Schedule \/ StartAgents \/ StartCollector \/ Purge

Next ==
  \/ \E s \in Sessions : Start(s) \/ ParseArgs(s) \/ Script(s) \/ EndCapture(s) \/ Interrupt(s)
  \/ Cluster \/ LimitReached

Spec == Init /\ [][Next]_vars

\* A script goes on, the cluster does what it is asked for; sessions need not start,
\* captures need not end.
FairSpec == Spec /\ WF_vars(Cluster) /\ \A s \in Sessions : WF_vars(Script(s))

-----------------------------------------------------------------------------
(* Properties                                                               *)

TypeOK ==
  /\ cluster \in [Objects -> Sessions \cup {NoOne}]
  /\ agents \in {"none", "unscheduled", "starting", "ready"}
  /\ collector \in {"none", "starting", "ready"}
  /\ terminating => Exists("namespace")
  /\ Exists("daemonset") <=> agents # "none"
  /\ Exists("collector") <=> collector # "none"
  /\ ~Exists("namespace")
     => \A o \in Objects \ NotInNamespace : ~Exists(o)
  /\ \A s \in Sessions :
       /\ phase[s] \in {"idle", "looking", "setting up", "capturing",
                        "exiting", "cleaning", "done"}
       /\ phase[s] = "setting up" => todo[s] # <<>>

\* Whatever step of the set-up failed or was interrupted, and whatever another session
\* did meanwhile: a session in the foreground that came to set anything up, and whose
\* clean-up found the cluster in order, leaves nothing of its own but the roles.
CleanedUp ==
  \A s \in Sessions :
    phase[s] = "done" /\ ~runBackground[s] /\ ~unclean[s]
      => \A o \in Objects \ {"roles"} : cluster[o] # s

Refused(s) == skipCleanup[s] /\ phase[s] \in {"exiting", "cleaning", "done"}

\* A session that was told of another one's namespace, or of a mistake in its options,
\* changes nothing in the cluster, not even as it exits.
RefusedHarmless ==
  [][\A s \in Sessions : Refused(s) /\ <<phase[s], todo[s]>>' # <<phase[s], todo[s]>>
       => cluster' = cluster /\ terminating' = terminating]_vars

\* Unless a call fails, the cluster is too slow, the user interrupts or another session
\* deletes what is needed, a session that starts comes to capture: with TLS too, where
\* the agents wait for a ConfigMap that the collector's pod writes.
GetsToCapture ==
  \A s \in Sessions :
    phase[s] = "looking"
      ~> (fate[s] # "open" \/ Refused(s))

\* "ensure namespace doesn't exist, else we should not override content": only `stop`
\* and `cleanup` delete what another session created.
OthersKept ==
  [][\A s \in Sessions, o \in Objects :
       command[s] \in {"flows", "metrics"} /\ Exists(o)
         /\ (Delete(s, o) \/ (o = "namespace" /\ DeleteNamespace(s)))
       => cluster[o] = s]_vars
=============================================================================
