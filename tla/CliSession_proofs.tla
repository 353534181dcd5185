-------------------------- MODULE CliSession_proofs --------------------------
(***************************************************************************)
(* Proofs about CliSession, for any number of sessions with any commands   *)
(* and any number of failures: a session that was cleaned up leaves        *)
(* nothing but its roles, and one that was refused changes nothing.        *)
(***************************************************************************)
EXTENDS CliSession, SequenceTheorems, TLAPS

-----------------------------------------------------------------------------
(* The inductive invariant.                                                 *)

Phases == {"idle", "looking", "setting up", "capturing", "exiting", "cleaning", "done"}

CallNames ==
  {"namespace", "account", "monitor", "daemonset", "wait agents", "collector",
   "wait collector", "capture", "copy", "dashboard"}

SessionTypes ==
  /\ command \in [Sessions -> Commands]
  /\ runBackground \in [Sessions -> BOOLEAN]
  /\ skipCleanup \in [Sessions -> BOOLEAN]
  /\ captureStarted \in [Sessions -> BOOLEAN]
  /\ unclean \in [Sessions -> BOOLEAN]
  /\ phase \in [Sessions -> Phases]
  /\ todo \in [Sessions -> Seq(CallNames)]

\* What there is in the cluster, and the pods of it.
ObjectsInv ==
  /\ cluster \in [Objects -> Sessions \cup {NoOne}]
  /\ agents \in {"none", "unscheduled", "starting", "ready"}
  /\ collector \in {"none", "starting", "ready"}
  /\ terminating => Exists("namespace")
  /\ Exists("daemonset") <=> agents # "none"
  /\ Exists("collector") <=> collector # "none"
  /\ ~Exists("namespace")
     => \A o \in Objects \ NotInNamespace : ~Exists(o)

\* A set-up ends with the capture.
PlanOK(s) ==
  phase[s] = "setting up" => todo[s] # <<>> /\ todo[s][Len(todo[s])] = "capture"

OwnsNothing(s) == \A o \in Objects \ {"roles"} : cluster[o] # s

\* The call of the clean-up that an object counts on.
Deletion(o) == IF o = "dashboard" THEN o ELSE "namespace"

Pending(s, call) == \E i \in DOMAIN todo[s] : todo[s][i] = call

\* A session that owns something will clean it up, or says that it does not.
CleanOK(s) ==
  /\ phase[s] \in {"idle", "looking"} \/ skipCleanup[s] => OwnsNothing(s)
  /\ skipCleanup[s] => phase[s] = "exiting"
  /\ phase[s] = "cleaning" /\ ~unclean[s]
     => \A o \in Objects \ {"roles"} : cluster[o] = s => Pending(s, Deletion(o))
  /\ phase[s] = "done" /\ ~runBackground[s] /\ ~unclean[s] => OwnsNothing(s)

SessionOK(s) == PlanOK(s) /\ CleanOK(s)

SessionInv == SessionTypes /\ ObjectsInv /\ \A s \in Sessions : SessionOK(s)

-----------------------------------------------------------------------------
(* Objects and lists of calls.                                              *)

LEMMA ObjectsAre ==
  Objects = {"namespace", "account", "roles", "monitor", "dashboard", "daemonset", "collector",
             "tls config"}
<1>1. DOMAIN Creates = {"namespace", "account", "monitor", "daemonset", "collector"}
  BY DEF Creates
<1>2. /\ Creates["namespace"] = {"namespace"} /\ Creates["account"] = {"account", "roles"}
      /\ Creates["monitor"] = {"monitor", "dashboard"}
      /\ Creates["daemonset"] = {"daemonset"} /\ Creates["collector"] = {"collector"}
  BY DEF Creates
<1>3. UNION { Creates[c] : c \in DOMAIN Creates }
        = {"namespace", "account", "roles", "monitor", "dashboard", "daemonset", "collector"}
  <2>1. { Creates[c] : c \in DOMAIN Creates }
          = {{"namespace"}, {"account", "roles"}, {"monitor", "dashboard"}, {"daemonset"},
             {"collector"}}
    BY <1>1, <1>2
  <2> QED
    BY <2>1
<1> QED
  BY <1>3 DEF Objects

LEMMA CreatesAre ==
  ASSUME NEW call \in DOMAIN Creates
  PROVE  /\ call \in {"namespace", "account", "monitor", "daemonset", "collector"}
         /\ Creates[call] \subseteq Objects \ {"tls config"}
         /\ "namespace" \in Creates[call] => call = "namespace"
         /\ call = "namespace" => Creates[call] = {"namespace"}
         /\ "daemonset" \in Creates[call] <=> call = "daemonset"
         /\ "collector" \in Creates[call] <=> call = "collector"
<1>1. call \in {"namespace", "account", "monitor", "daemonset", "collector"}
  BY DEF Creates
<1>2. \/ call = "namespace" /\ Creates[call] = {"namespace"}
      \/ call = "account" /\ Creates[call] = {"account", "roles"}
      \/ call = "monitor" /\ Creates[call] = {"monitor", "dashboard"}
      \/ call = "daemonset" /\ Creates[call] = {"daemonset"}
      \/ call = "collector" /\ Creates[call] = {"collector"}
  BY <1>1 DEF Creates
<1> QED
  BY <1>1, <1>2, ObjectsAre

\* What is done with a list of calls: the first one is taken off it.
LEMMA TailFacts ==
  ASSUME NEW calls \in Seq(CallNames), calls # <<>>
  PROVE  /\ Tail(calls) \in Seq(CallNames)
         /\ calls[Len(calls)] # Head(calls)
            => Tail(calls) # <<>> /\ Tail(calls)[Len(Tail(calls))] = calls[Len(calls)]
         /\ \A call : (\E i \in DOMAIN calls : calls[i] = call) /\ call # Head(calls)
              => \E i \in DOMAIN Tail(calls) : Tail(calls)[i] = call
<1> DEFINE rest == Tail(calls)
<1>1. /\ Len(calls) \in Nat \ {0} /\ DOMAIN calls = 1..Len(calls) /\ Head(calls) = calls[1]
      /\ rest \in Seq(CallNames) /\ Len(rest) = Len(calls) - 1
      /\ \A i \in 1..Len(rest) : rest[i] = calls[i + 1]
  BY EmptySeq, LenProperties, HeadTailProperties
<1>2. DOMAIN rest = 1..Len(rest)
  BY <1>1, LenProperties
<1> HIDE DEF rest
<1>3. ASSUME calls[Len(calls)] # Head(calls)
      PROVE  rest # <<>> /\ rest[Len(rest)] = calls[Len(calls)]
  <2>1. Len(rest) \in 1..Len(rest) /\ Len(rest) + 1 = Len(calls)
    BY <1>1, <1>3
  <2> QED
    BY <1>1, <2>1
<1>4. ASSUME NEW i \in DOMAIN calls, calls[i] # Head(calls)
      PROVE  \E j \in DOMAIN rest : rest[j] = calls[i]
  <2>1. i - 1 \in DOMAIN rest /\ rest[i - 1] = calls[i]
    BY <1>1, <1>2, <1>4
  <2> QED
    BY <2>1
<1> QED
  BY <1>1, <1>3, <1>4 DEF rest

LEMMA ConcatEnd ==
  ASSUME NEW S, NEW p \in Seq(S), NEW q \in Seq(S)
  PROVE  /\ p \o q \in Seq(S) /\ Len(p) \in Nat /\ Len(p \o q) = Len(p) + Len(q)
         /\ \A i \in 1..Len(q) : Len(p) + i \in DOMAIN (p \o q) /\ (p \o q)[Len(p) + i] = q[i]
<1>1. /\ p \o q \in Seq(S) /\ Len(p \o q) = Len(p) + Len(q)
      /\ \A i \in 1..Len(p) + Len(q) :
           (p \o q)[i] = IF i <= Len(p) THEN p[i] ELSE q[i - Len(p)]
  BY ConcatProperties
<1>2. Len(p) \in Nat /\ Len(q) \in Nat /\ DOMAIN (p \o q) = 1..Len(p) + Len(q)
  BY <1>1, LenProperties
<1>3. ASSUME NEW i \in 1..Len(q)
      PROVE  Len(p) + i \in DOMAIN (p \o q) /\ (p \o q)[Len(p) + i] = q[i]
  <2>1. Len(p) + i \in 1..Len(p) + Len(q) /\ ~(Len(p) + i <= Len(p)) /\ (Len(p) + i) - Len(p) = i
    BY <1>2
  <2> QED
    BY <1>1, <1>2, <2>1
<1> QED
  BY <1>1, <1>2, <1>3

LEMMA PlanFacts ==
  ASSUME NEW s
  PROVE  /\ Plan(s) \in Seq(CallNames)
         /\ Plan(s) # <<>> /\ Plan(s)[Len(Plan(s))] = "capture"
<1> DEFINE p1 == IF command[s] = "metrics" THEN <<"monitor">> ELSE <<>>
           p2 == IF tlsEnabled(s) THEN <<>> ELSE DeployAgents
           p3 == IF tlsEnabled(s) THEN DeployAgents ELSE <<>>
           p == <<"namespace", "account">> \o p1 \o p2 \o <<"collector", "wait collector">> \o p3
           c == <<"capture">>
<1>1. p1 \in Seq(CallNames) /\ p2 \in Seq(CallNames) /\ p3 \in Seq(CallNames)
  <2>1. <<"monitor">> \in Seq(CallNames) /\ <<"daemonset", "wait agents">> \in Seq(CallNames)
    BY DEF CallNames
  <2>2. <<>> \in Seq(CallNames)
    BY EmptySeq
  <2> QED
    BY <2>1, <2>2 DEF DeployAgents
<1>2. /\ <<"namespace", "account">> \in Seq(CallNames)
      /\ <<"collector", "wait collector">> \in Seq(CallNames)
  BY DEF CallNames
<1> HIDE DEF p1, p2, p3
<1>3. <<"namespace", "account">> \o p1 \in Seq(CallNames)
  BY <1>1, <1>2, ConcatProperties
<1>4. <<"namespace", "account">> \o p1 \o p2 \in Seq(CallNames)
  BY <1>1, <1>3, ConcatProperties
<1>5. <<"namespace", "account">> \o p1 \o p2 \o <<"collector", "wait collector">> \in Seq(CallNames)
  BY <1>2, <1>4, ConcatProperties
<1>6. p \in Seq(CallNames)
  BY <1>1, <1>5, ConcatProperties
<1>7. Plan(s) = p \o c
  BY DEF Plan, p1, p2, p3
<1>8. c \in Seq(CallNames) /\ Len(c) = 1 /\ c[1] = "capture"
  BY DEF CallNames
<1> HIDE DEF p, c
<1>9. /\ p \o c \in Seq(CallNames) /\ Len(p) \in Nat /\ Len(p \o c) = Len(p) + 1
      /\ (p \o c)[Len(p) + 1] = c[1]
  <2>1. /\ p \o c \in Seq(CallNames) /\ Len(p) \in Nat /\ Len(p \o c) = Len(p) + Len(c)
        /\ \A i \in 1..Len(c) : (p \o c)[Len(p) + i] = c[i]
    BY <1>6, <1>8, ConcatEnd
  <2>2. 1 \in 1..Len(c)
    BY <1>8
  <2> QED
    BY <1>8, <2>1, <2>2
<1>10. p \o c # <<>> /\ (p \o c)[Len(p \o c)] = "capture"
  BY <1>8, <1>9, EmptySeq
<1> QED
  BY <1>7, <1>9, <1>10

LEMMA DeletionsFacts ==
  ASSUME NEW s
  PROVE  /\ Deletions(s) \in Seq(CallNames)
         /\ \E i \in DOMAIN Deletions(s) : Deletions(s)[i] = "dashboard"
         /\ \E i \in DOMAIN Deletions(s) : Deletions(s)[i] = "namespace"
<1> DEFINE p == IF captureStarted[s] THEN <<"copy">> ELSE <<>>
           d == <<"monitor", "dashboard", "daemonset", "collector", "namespace">>
<1>1. p \in Seq(CallNames) /\ Deletions(s) = p \o d
  <2>1. <<"copy">> \in Seq(CallNames) /\ <<>> \in Seq(CallNames)
    BY EmptySeq DEF CallNames
  <2> QED
    BY <2>1 DEF Deletions
<1>2. /\ d \in Seq(CallNames) /\ Len(d) = 5 /\ d[2] = "dashboard" /\ d[5] = "namespace"
  BY DEF CallNames
<1> HIDE DEF p, d
<1>3. /\ p \o d \in Seq(CallNames)
      /\ \A i \in 1..Len(d) : Len(p) + i \in DOMAIN (p \o d) /\ (p \o d)[Len(p) + i] = d[i]
  <2>1. p \in Seq(CallNames) /\ d \in Seq(CallNames)
    BY <1>1, <1>2
  <2> QED
    BY <2>1, ConcatEnd
<1>4. 2 \in 1..Len(d) /\ 5 \in 1..Len(d)
  BY <1>2
<1>5. /\ Len(p) + 2 \in DOMAIN (p \o d) /\ (p \o d)[Len(p) + 2] = "dashboard"
      /\ Len(p) + 5 \in DOMAIN (p \o d) /\ (p \o d)[Len(p) + 5] = "namespace"
  BY <1>2, <1>3, <1>4
<1>6. /\ \E i \in DOMAIN (p \o d) : (p \o d)[i] = "dashboard"
      /\ \E i \in DOMAIN (p \o d) : (p \o d)[i] = "namespace"
  BY <1>5
<1>7. Deletions(s) = p \o d
  BY <1>1
<1> QED
  BY <1>3, <1>6, <1>7

-----------------------------------------------------------------------------
(* The moves of a session.                                                  *)

LEMMA GoToFacts ==
  ASSUME SessionTypes, NEW t \in Sessions, NEW p \in Phases, NEW calls \in Seq(CallNames),
         GoTo(t, p, calls)
  PROVE  /\ phase' \in [Sessions -> Phases] /\ todo' \in [Sessions -> Seq(CallNames)]
         /\ phase'[t] = p /\ todo'[t] = calls
         /\ \A u \in Sessions \ {t} : phase'[u] = phase[u] /\ todo'[u] = todo[u]
BY DEF SessionTypes, GoTo, Set

LEMMA ExitFacts ==
  ASSUME SessionTypes, NEW t \in Sessions, Exit(t)
  PROVE  /\ phase' \in [Sessions -> Phases] /\ todo' \in [Sessions -> Seq(CallNames)]
         /\ phase'[t] = "exiting"
         /\ \A u \in Sessions \ {t} : phase'[u] = phase[u] /\ todo'[u] = todo[u]
<1>1. "exiting" \in Phases /\ <<>> \in Seq(CallNames) /\ GoTo(t, "exiting", <<>>)
  BY EmptySeq DEF Phases, Exit
<1> QED
  BY <1>1, GoToFacts

LEMMA AdvanceFacts ==
  ASSUME SessionTypes, NEW t \in Sessions, todo[t] # <<>>, Advance(t)
  PROVE  /\ phase' \in [Sessions -> Phases] /\ todo' \in [Sessions -> Seq(CallNames)]
         /\ phase'[t] = phase[t] /\ todo'[t] = Tail(todo[t])
         /\ \A u \in Sessions \ {t} : phase'[u] = phase[u] /\ todo'[u] = todo[u]
         /\ \A call : Pending(t, call) /\ call # Head(todo[t]) => Pending(t, call)'
         /\ todo[t][Len(todo[t])] = "capture" /\ Head(todo[t]) # "capture"
            => todo'[t] # <<>> /\ todo'[t][Len(todo'[t])] = "capture"
<1>1. todo[t] \in Seq(CallNames) /\ phase[t] \in Phases
  BY DEF SessionTypes
<1>2. Tail(todo[t]) \in Seq(CallNames)
  BY <1>1, TailFacts
<1>3. /\ phase' \in [Sessions -> Phases] /\ todo' \in [Sessions -> Seq(CallNames)]
      /\ phase'[t] = phase[t] /\ todo'[t] = Tail(todo[t])
      /\ \A u \in Sessions \ {t} : phase'[u] = phase[u] /\ todo'[u] = todo[u]
  BY <1>1, <1>2, GoToFacts DEF Advance
<1>4. ASSUME NEW call, Pending(t, call), call # Head(todo[t]) PROVE Pending(t, call)'
  <2>1. \E i \in DOMAIN Tail(todo[t]) : Tail(todo[t])[i] = call
    BY <1>1, <1>4, TailFacts DEF Pending
  <2> QED
    BY <1>3, <2>1 DEF Pending
<1>5. ASSUME todo[t][Len(todo[t])] = "capture", Head(todo[t]) # "capture"
      PROVE  Tail(todo[t]) # <<>> /\ Tail(todo[t])[Len(Tail(todo[t]))] = "capture"
  BY <1>1, <1>5, TailFacts
<1> QED
  BY <1>3, <1>4, <1>5

LEMMA FinishFacts ==
  ASSUME SessionTypes, NEW t \in Sessions, Finish(t)
  PROVE  /\ phase' \in [Sessions -> Phases] /\ todo' \in [Sessions -> Seq(CallNames)]
         /\ skipCleanup' \in [Sessions -> BOOLEAN] /\ captureStarted' \in [Sessions -> BOOLEAN]
         /\ phase'[t] = "done" /\ ~skipCleanup'[t]
         /\ \A u \in Sessions \ {t} : /\ phase'[u] = phase[u] /\ todo'[u] = todo[u]
                                      /\ skipCleanup'[u] = skipCleanup[u]
<1>1. "done" \in Phases /\ <<>> \in Seq(CallNames) /\ GoTo(t, "done", <<>>)
  BY EmptySeq DEF Phases, Finish
<1>2. /\ skipCleanup' \in [Sessions -> BOOLEAN] /\ captureStarted' \in [Sessions -> BOOLEAN]
      /\ ~skipCleanup'[t] /\ \A u \in Sessions \ {t} : skipCleanup'[u] = skipCleanup[u]
  BY DEF Finish, Set, SessionTypes
<1> QED
  BY <1>1, <1>2, GoToFacts

\* What no step of another session or of the cluster touches.
Untouched(u) ==
  /\ phase'[u] = phase[u] /\ todo'[u] = todo[u] /\ runBackground'[u] = runBackground[u]
  /\ skipCleanup'[u] = skipCleanup[u] /\ unclean'[u] = unclean[u]

\* All it may come to own is the ConfigMap that its collector writes.
GainsLittle(u) ==
  \A o \in Objects :
    cluster'[o] = u => cluster[o] = u \/ (o = "tls config" /\ cluster["collector"] = u)

LEMMA Bystander ==
  ASSUME NEW u, SessionOK(u), Untouched(u), GainsLittle(u)
  PROVE  SessionOK(u)'
<1>1. "collector" \in Objects \ {"roles"} /\ "tls config" \in Objects \ {"roles"}
  BY ObjectsAre
<1>2. PlanOK(u)'
  BY DEF SessionOK, PlanOK, Untouched
<1>3. OwnsNothing(u) => OwnsNothing(u)'
  BY <1>1 DEF OwnsNothing, GainsLittle
<1>4. \A call : Pending(u, call) => Pending(u, call)'
  BY DEF Pending, Untouched
<1>5. ASSUME phase[u] = "cleaning", ~unclean[u], NEW o \in Objects \ {"roles"}, cluster'[o] = u
      PROVE  Pending(u, Deletion(o))'
  <2>1. CASE cluster[o] = u
    BY <1>4, <1>5, <2>1 DEF SessionOK, CleanOK, Deletion
  <2>2. CASE o = "tls config" /\ cluster["collector"] = u
    <3>1. Pending(u, Deletion("collector")) /\ Deletion("collector") = Deletion(o)
      BY <1>1, <1>5, <2>2 DEF SessionOK, CleanOK, Deletion
    <3> QED
      BY <1>4, <3>1 DEF Deletion
  <2> QED
    BY <1>5, <2>1, <2>2 DEF GainsLittle
<1>6. CleanOK(u)'
  BY <1>3, <1>5 DEF SessionOK, CleanOK, Untouched
<1> QED
  BY <1>2, <1>6 DEF SessionOK

-----------------------------------------------------------------------------
(* The steps of a script.                                                   *)

StepOK(t) ==
  /\ SessionTypes'
  /\ \A u \in Sessions \ {t} : Untouched(u)
  /\ SessionOK(t)'

\* What comes before the set-up: nothing is owned.
LEMMA StartOK ==
  ASSUME SessionTypes, NEW t \in Sessions, SessionOK(t),
         Start(t) \/ ParseArgs(t) \/ NamespaceFound(t) \/ NamespaceNotFound(t)
  PROVE  StepOK(t)
<1>1. /\ phase[t] \in {"idle", "looking"} /\ UNCHANGED <<cluster, unclean, command>>
      /\ captureStarted' = captureStarted
  BY DEF Start, ParseArgs, NamespaceFound, NamespaceNotFound, objects, options, flags, history
<1>2. OwnsNothing(t) /\ OwnsNothing(t)' /\ ~skipCleanup[t]
  BY <1>1 DEF SessionOK, CleanOK, OwnsNothing
<1>3. CASE Start(t)
  <2>1. UNCHANGED <<runBackground, skipCleanup>>
    BY <1>3 DEF Start, options, flags
  <2>2. PICK calls \in Seq(CallNames) : GoTo(t, "cleaning", calls)
    <3>1. <<"daemonset">> \in Seq(CallNames)
      BY DEF CallNames
    <3> QED
      BY <1>3, <3>1, DeletionsFacts DEF Start
  <2>3. "cleaning" \in Phases
    BY DEF Phases
  <2>4. /\ phase' \in [Sessions -> Phases] /\ todo' \in [Sessions -> Seq(CallNames)]
        /\ phase'[t] = "cleaning"
        /\ \A u \in Sessions \ {t} : phase'[u] = phase[u] /\ todo'[u] = todo[u]
    BY <2>2, <2>3, GoToFacts
  <2>5. SessionTypes' /\ \A u \in Sessions \ {t} : Untouched(u)
    BY <1>1, <2>1, <2>4 DEF SessionTypes, Untouched
  <2>6. SessionOK(t)'
    BY <1>1, <1>2, <2>1, <2>4 DEF SessionOK, PlanOK, CleanOK, OwnsNothing
  <2> QED
    BY <2>5, <2>6 DEF StepOK
<1>4. CASE ParseArgs(t)
  <2>1. CASE /\ \E b \in BOOLEAN : runBackground' = Set(runBackground, t, b)
             /\ GoTo(t, "looking", <<>>) /\ UNCHANGED skipCleanup
    <3>1. "looking" \in Phases /\ <<>> \in Seq(CallNames)
      BY EmptySeq DEF Phases
    <3>2. /\ phase' \in [Sessions -> Phases] /\ todo' \in [Sessions -> Seq(CallNames)]
          /\ phase'[t] = "looking"
          /\ \A u \in Sessions \ {t} : phase'[u] = phase[u] /\ todo'[u] = todo[u]
      BY <2>1, <3>1, GoToFacts
    <3>3. /\ runBackground' \in [Sessions -> BOOLEAN]
          /\ \A u \in Sessions \ {t} : runBackground'[u] = runBackground[u]
      BY <2>1 DEF SessionTypes, Set
    <3>4. SessionTypes' /\ \A u \in Sessions \ {t} : Untouched(u)
      BY <1>1, <2>1, <3>2, <3>3 DEF SessionTypes, Untouched
    <3>5. SessionOK(t)'
      BY <1>1, <1>2, <2>1, <3>2 DEF SessionOK, PlanOK, CleanOK
    <3> QED
      BY <3>4, <3>5 DEF StepOK
  <2>2. CASE skipCleanup' = Set(skipCleanup, t, TRUE) /\ Exit(t) /\ UNCHANGED runBackground
    <3>1. /\ phase' \in [Sessions -> Phases] /\ todo' \in [Sessions -> Seq(CallNames)]
          /\ phase'[t] = "exiting"
          /\ \A u \in Sessions \ {t} : phase'[u] = phase[u] /\ todo'[u] = todo[u]
      BY <2>2, ExitFacts
    <3>2. /\ skipCleanup' \in [Sessions -> BOOLEAN]
          /\ \A u \in Sessions \ {t} : skipCleanup'[u] = skipCleanup[u]
      BY <2>2 DEF SessionTypes, Set
    <3>3. SessionTypes' /\ \A u \in Sessions \ {t} : Untouched(u)
      BY <1>1, <2>2, <3>1, <3>2 DEF SessionTypes, Untouched
    <3>4. SessionOK(t)'
      BY <1>1, <1>2, <3>1 DEF SessionOK, PlanOK, CleanOK
    <3> QED
      BY <3>3, <3>4 DEF StepOK
  <2> QED
    BY <1>4, <2>1, <2>2 DEF ParseArgs
<1>5. CASE NamespaceFound(t)
  <2>1. skipCleanup' = Set(skipCleanup, t, TRUE) /\ Exit(t) /\ UNCHANGED runBackground
    BY <1>5 DEF NamespaceFound, options
  <2>2. /\ phase' \in [Sessions -> Phases] /\ todo' \in [Sessions -> Seq(CallNames)]
        /\ phase'[t] = "exiting"
        /\ \A u \in Sessions \ {t} : phase'[u] = phase[u] /\ todo'[u] = todo[u]
    BY <2>1, ExitFacts
  <2>3. /\ skipCleanup' \in [Sessions -> BOOLEAN]
        /\ \A u \in Sessions \ {t} : skipCleanup'[u] = skipCleanup[u]
    BY <2>1 DEF SessionTypes, Set
  <2>4. SessionTypes' /\ \A u \in Sessions \ {t} : Untouched(u)
    BY <1>1, <2>1, <2>2, <2>3 DEF SessionTypes, Untouched
  <2>5. SessionOK(t)'
    BY <1>1, <1>2, <2>2 DEF SessionOK, PlanOK, CleanOK
  <2> QED
    BY <2>4, <2>5 DEF StepOK
<1>6. CASE NamespaceNotFound(t)
  <2>1. GoTo(t, "setting up", Plan(t)) /\ UNCHANGED <<runBackground, skipCleanup>>
    BY <1>6 DEF NamespaceNotFound, options, flags
  <2>2. "setting up" \in Phases
    BY DEF Phases
  <2>3. /\ phase' \in [Sessions -> Phases] /\ todo' \in [Sessions -> Seq(CallNames)]
        /\ phase'[t] = "setting up" /\ todo'[t] = Plan(t)
        /\ \A u \in Sessions \ {t} : phase'[u] = phase[u] /\ todo'[u] = todo[u]
    BY <2>1, <2>2, PlanFacts, GoToFacts
  <2>4. SessionTypes' /\ \A u \in Sessions \ {t} : Untouched(u)
    BY <1>1, <2>1, <2>3 DEF SessionTypes, Untouched
  <2>5. PlanOK(t)'
    BY <2>3, PlanFacts DEF PlanOK
  <2>6. CleanOK(t)'
    BY <1>2, <2>1, <2>3 DEF CleanOK
  <2> QED
    BY <2>4, <2>5, <2>6 DEF StepOK, SessionOK
<1> QED
  BY <1>3, <1>4, <1>5, <1>6

\* The trap runs, and has everything to do.
LEMMA ExitOK ==
  ASSUME SessionTypes, NEW t \in Sessions, SessionOK(t), Exit(t), ~skipCleanup[t],
         UNCHANGED <<cluster, options, flags, unclean>>
  PROVE  StepOK(t)
<1>1. /\ phase' \in [Sessions -> Phases] /\ todo' \in [Sessions -> Seq(CallNames)]
      /\ phase'[t] = "exiting"
      /\ \A u \in Sessions \ {t} : phase'[u] = phase[u] /\ todo'[u] = todo[u]
  BY ExitFacts
<1>2. SessionTypes' /\ \A u \in Sessions \ {t} : Untouched(u)
  BY <1>1 DEF SessionTypes, Untouched, options, flags
<1>3. SessionOK(t)'
  BY <1>1 DEF SessionOK, PlanOK, CleanOK, flags
<1> QED
  BY <1>2, <1>3 DEF StepOK

\* A call of the set-up is done, or has failed and is passed over.
LEMMA CallOK ==
  ASSUME SessionTypes, NEW t \in Sessions, SessionOK(t), phase[t] = "setting up",
         Head(todo[t]) # "capture", Advance(t),
         UNCHANGED <<command, runBackground, skipCleanup, unclean>>,
         captureStarted' \in [Sessions -> BOOLEAN]
  PROVE  StepOK(t)
<1>1. todo[t] # <<>> /\ todo[t][Len(todo[t])] = "capture" /\ ~skipCleanup[t]
  BY DEF SessionOK, PlanOK, CleanOK
<1>2. /\ phase' \in [Sessions -> Phases] /\ todo' \in [Sessions -> Seq(CallNames)]
      /\ phase'[t] = "setting up"
      /\ \A u \in Sessions \ {t} : phase'[u] = phase[u] /\ todo'[u] = todo[u]
      /\ todo'[t] # <<>> /\ todo'[t][Len(todo'[t])] = "capture"
  BY <1>1, AdvanceFacts
<1>3. SessionTypes' /\ \A u \in Sessions \ {t} : Untouched(u)
  BY <1>2 DEF SessionTypes, Untouched
<1>4. SessionOK(t)'
  BY <1>1, <1>2 DEF SessionOK, PlanOK, CleanOK
<1> QED
  BY <1>3, <1>4 DEF StepOK

\* Everything a capture does with its own variables.
LEMMA CaptureOK ==
  ASSUME SessionTypes, NEW t \in Sessions, SessionOK(t),
         \/ CheckFails(t) \/ Interrupt(t) \/ EndCapture(t) \/ CaptureFails(t) \/ Capture(t)
         \/ \E call \in DOMAIN Creates : Apply(t, call) \/ ApplyFails(t, call)
         \/ AgentsReady(t) \/ CollectorReady(t)
         \/ \E call \in {"wait agents", "wait collector"} : GiveUp(t, call)
  PROVE  StepOK(t)
<1>1. phase[t] # "exiting" => ~skipCleanup[t]
  BY DEF SessionOK, CleanOK
<1>2. CASE CheckFails(t) \/ Interrupt(t) \/ EndCapture(t) \/ CaptureFails(t)
  <2>1. phase[t] # "exiting" /\ Exit(t) /\ UNCHANGED <<cluster, options, flags, unclean>>
    BY <1>2 DEF CheckFails, Interrupt, EndCapture, CaptureFails, Calls, objects, history
  <2> QED
    BY <1>1, <2>1, ExitOK
<1>3. CASE Capture(t)
  <2>1. phase[t] = "setting up" /\ UNCHANGED <<cluster, options, flags, unclean>>
    BY <1>3 DEF Capture, Calls, objects
  <2>2. CASE Exit(t)
    BY <1>1, <2>1, <2>2, ExitOK
  <2>3. CASE GoTo(t, "capturing", <<>>)
    <3>1. "capturing" \in Phases /\ <<>> \in Seq(CallNames)
      BY EmptySeq DEF Phases
    <3>2. /\ phase' \in [Sessions -> Phases] /\ todo' \in [Sessions -> Seq(CallNames)]
          /\ phase'[t] = "capturing"
          /\ \A u \in Sessions \ {t} : phase'[u] = phase[u] /\ todo'[u] = todo[u]
      BY <2>3, <3>1, GoToFacts
    <3>3. SessionTypes' /\ \A u \in Sessions \ {t} : Untouched(u)
      BY <2>1, <3>2 DEF SessionTypes, Untouched, options, flags
    <3>4. SessionOK(t)'
      BY <1>1, <2>1, <3>2 DEF SessionOK, PlanOK, CleanOK, flags
    <3> QED
      BY <3>3, <3>4 DEF StepOK
  <2> QED
    BY <1>3, <2>2, <2>3 DEF Capture
<1>4. ASSUME NEW call \in DOMAIN Creates, Apply(t, call)
      PROVE  StepOK(t)
  <2>1. /\ phase[t] = "setting up" /\ Head(todo[t]) = call /\ Advance(t)
        /\ UNCHANGED <<command, runBackground, skipCleanup, unclean, captureStarted>>
    BY <1>4 DEF Apply, Calls, options, flags, history
  <2>2. call # "capture" /\ captureStarted' \in [Sessions -> BOOLEAN]
    BY <2>1, CreatesAre DEF SessionTypes
  <2> QED
    BY <2>1, <2>2, CallOK
<1>5. ASSUME NEW call \in DOMAIN Creates, ApplyFails(t, call)
      PROVE  StepOK(t)
  <2>1. /\ phase[t] = "setting up" /\ Head(todo[t]) = call /\ (Exit(t) \/ Advance(t))
        /\ UNCHANGED <<cluster, options, flags, unclean>>
    BY <1>5 DEF ApplyFails, Calls, FailCall, objects
  <2>2. CASE Exit(t)
    BY <1>1, <2>1, <2>2, ExitOK
  <2>3. CASE Advance(t)
    <3>1. /\ UNCHANGED <<command, runBackground, skipCleanup, unclean>>
          /\ captureStarted' \in [Sessions -> BOOLEAN] /\ call # "capture"
      BY <2>1, CreatesAre DEF options, flags, SessionTypes
    <3> QED
      BY <2>1, <2>3, <3>1, CallOK
  <2> QED
    BY <2>1, <2>2, <2>3
<1>6. CASE AgentsReady(t) \/ CollectorReady(t)
  <2>1. /\ phase[t] = "setting up" /\ Head(todo[t]) # "capture" /\ Advance(t)
        /\ UNCHANGED <<command, runBackground, skipCleanup, unclean>>
        /\ captureStarted' \in [Sessions -> BOOLEAN]
    BY <1>6 DEF AgentsReady, CollectorReady, Calls, options, flags, history, Set, SessionTypes
  <2> QED
    BY <2>1, CallOK
<1>7. ASSUME NEW call, GiveUp(t, call)
      PROVE  StepOK(t)
  <2>1. phase[t] = "setting up" /\ Exit(t) /\ UNCHANGED <<cluster, options, flags, unclean>>
    BY <1>7 DEF GiveUp, Calls, objects
  <2> QED
    BY <1>1, <2>1, ExitOK
<1> QED
  BY <1>2, <1>3, <1>4, <1>5, <1>6, <1>7

\* The trap finds nothing to clean up, or says that it does not.
LEMMA FinishOK ==
  ASSUME SessionTypes, NEW t \in Sessions, Finish(t),
         unclean' \in [Sessions -> BOOLEAN],
         \A u \in Sessions \ {t} : unclean'[u] = unclean[u],
         UNCHANGED <<cluster, options>>,
         runBackground[t] \/ unclean'[t] \/ OwnsNothing(t)
  PROVE  StepOK(t)
<1>1. /\ phase' \in [Sessions -> Phases] /\ todo' \in [Sessions -> Seq(CallNames)]
      /\ skipCleanup' \in [Sessions -> BOOLEAN] /\ captureStarted' \in [Sessions -> BOOLEAN]
      /\ phase'[t] = "done" /\ ~skipCleanup'[t]
      /\ \A u \in Sessions \ {t} : /\ phase'[u] = phase[u] /\ todo'[u] = todo[u]
                                   /\ skipCleanup'[u] = skipCleanup[u]
  BY FinishFacts
<1>2. SessionTypes' /\ \A u \in Sessions \ {t} : Untouched(u)
  BY <1>1 DEF SessionTypes, Untouched, options
<1>3. SessionOK(t)'
  BY <1>1 DEF SessionOK, PlanOK, CleanOK, OwnsNothing, options
<1> QED
  BY <1>2, <1>3 DEF StepOK

\* A call of the clean-up is done: nothing is left that counted on it.
LEMMA DeletionOK ==
  ASSUME SessionTypes, NEW t \in Sessions, SessionOK(t),
         phase[t] = "cleaning", todo[t] # <<>>, Advance(t), UNCHANGED <<options, flags>>,
         unclean' \in [Sessions -> BOOLEAN],
         \A u \in Sessions \ {t} : unclean'[u] = unclean[u],
         \/ unclean'[t]
         \/ /\ unclean'[t] = unclean[t]
            /\ \A o \in Objects \ {"roles"} :
                 cluster'[o] = t => cluster[o] = t /\ Deletion(o) # Head(todo[t])
  PROVE  StepOK(t)
<1>1. /\ phase' \in [Sessions -> Phases] /\ todo' \in [Sessions -> Seq(CallNames)]
      /\ phase'[t] = "cleaning"
      /\ \A u \in Sessions \ {t} : phase'[u] = phase[u] /\ todo'[u] = todo[u]
      /\ \A call : Pending(t, call) /\ call # Head(todo[t]) => Pending(t, call)'
  BY AdvanceFacts
<1>2. SessionTypes' /\ \A u \in Sessions \ {t} : Untouched(u)
  BY <1>1 DEF SessionTypes, Untouched, options, flags
<1>3. ASSUME ~unclean'[t], NEW o \in Objects \ {"roles"}, cluster'[o] = t
      PROVE  Pending(t, Deletion(o))'
  <2>1. Pending(t, Deletion(o)) /\ Deletion(o) # Head(todo[t])
    BY <1>3 DEF SessionOK, CleanOK
  <2>2. Pending(t, Deletion(o))' <=> (Pending(t, IF o = "dashboard" THEN o ELSE "namespace"))'
    BY DEF Deletion
  <2> QED
    BY <1>1, <2>1, <2>2 DEF Deletion
<1>4. ~skipCleanup'[t]
  BY DEF SessionOK, CleanOK, flags
<1>5. SessionOK(t)'
  BY <1>1, <1>3, <1>4 DEF SessionOK, PlanOK, CleanOK
<1> QED
  BY <1>2, <1>5 DEF StepOK

LEMMA CleanupOK ==
  ASSUME SessionTypes, ObjectsInv, NEW t \in Sessions, SessionOK(t),
         \/ Cleanup(t) \/ CleanupSkipped(t) \/ Copy(t) \/ DeleteNamespace(t)
         \/ \E o \in Objects : Delete(t, o)
         \/ CleanupFails(t) \/ CleanedAll(t)
  PROVE  StepOK(t)
<1>1. t # NoOne /\ unclean \in [Sessions -> BOOLEAN]
  BY SessionAssumption DEF SessionTypes
<1>2. CASE Cleanup(t)
  <2>1. phase[t] = "exiting" /\ UNCHANGED <<cluster, options, unclean>>
    BY <1>2 DEF Cleanup, objects, history
  <2>2. CASE (runBackground[t] \/ skipCleanup[t]) /\ Finish(t)
    <3>1. runBackground[t] \/ OwnsNothing(t)
      BY <2>2 DEF SessionOK, CleanOK
    <3> QED
      BY <1>1, <2>1, <2>2, <3>1, FinishOK
  <2>3. CASE /\ ~(runBackground[t] \/ skipCleanup[t])
             /\ GoTo(t, "cleaning", Deletions(t)) /\ UNCHANGED flags
    <3>1. "cleaning" \in Phases
      BY DEF Phases
    <3>2. /\ phase' \in [Sessions -> Phases] /\ todo' \in [Sessions -> Seq(CallNames)]
          /\ phase'[t] = "cleaning" /\ todo'[t] = Deletions(t)
          /\ \A u \in Sessions \ {t} : phase'[u] = phase[u] /\ todo'[u] = todo[u]
      BY <2>3, <3>1, DeletionsFacts, GoToFacts
    <3>3. SessionTypes' /\ \A u \in Sessions \ {t} : Untouched(u)
      BY <2>1, <2>3, <3>2 DEF SessionTypes, Untouched, options, flags
    <3>4. Pending(t, "dashboard")' /\ Pending(t, "namespace")'
      BY <3>2, DeletionsFacts DEF Pending
    <3>5. ~skipCleanup'[t]
      BY <2>3 DEF flags
    <3>6. SessionOK(t)'
      BY <3>2, <3>4, <3>5 DEF SessionOK, PlanOK, CleanOK, Deletion
    <3> QED
      BY <3>3, <3>6 DEF StepOK
  <2> QED
    BY <1>2, <2>2, <2>3 DEF Cleanup
<1>3. CASE CleanupSkipped(t)
  <2>1. /\ Finish(t) /\ unclean' = Set(unclean, t, TRUE) /\ UNCHANGED <<cluster, options>>
    BY <1>3 DEF CleanupSkipped, objects
  <2>2. /\ unclean' \in [Sessions -> BOOLEAN] /\ unclean'[t]
        /\ \A u \in Sessions \ {t} : unclean'[u] = unclean[u]
    BY <1>1, <2>1 DEF Set
  <2> QED
    BY <2>1, <2>2, FinishOK
<1>4. CASE Copy(t)
  <2>1. /\ phase[t] = "cleaning" /\ todo[t] # <<>> /\ Head(todo[t]) = "copy" /\ Advance(t)
        /\ UNCHANGED <<options, flags, unclean, cluster>>
    BY <1>4 DEF Copy, Cleans, objects, history
  <2>2. \A o : Deletion(o) # "copy"
    BY DEF Deletion
  <2> QED
    BY <1>1, <2>1, <2>2, DeletionOK
<1>5. CASE DeleteNamespace(t)
  <2>1. /\ phase[t] = "cleaning" /\ todo[t] # <<>> /\ Head(todo[t]) = "namespace"
        /\ UNCHANGED <<options, flags, unclean, cluster>>
    BY <1>5 DEF DeleteNamespace, Cleans
  <2>2. CASE UNCHANGED <<phase, todo>>
    <3>1. SessionTypes' /\ \A u \in Sessions \ {t} : Untouched(u)
      BY <2>1, <2>2 DEF SessionTypes, Untouched, options, flags
    <3>2. \A call : Pending(t, call)' <=> Pending(t, call)
      BY <2>2 DEF Pending
    <3>3. SessionOK(t)'
      BY <2>1, <2>2, <3>2 DEF SessionOK, PlanOK, CleanOK, OwnsNothing, Deletion, options, flags
    <3> QED
      BY <3>1, <3>3 DEF StepOK
  <2>3. CASE ~Exists("namespace") /\ Advance(t)
    <3>1. ASSUME NEW o \in Objects \ {"roles"}, cluster[o] = t
          PROVE  Deletion(o) # "namespace"
      <4>1. o \notin Objects \ NotInNamespace /\ o # "namespace"
        BY <1>1, <2>3, <3>1 DEF ObjectsInv, Exists
      <4> QED
        BY <3>1, <4>1 DEF NotInNamespace, Deletion
    <3> QED
      BY <1>1, <2>1, <2>3, <3>1, DeletionOK
  <2> QED
    BY <1>5, <2>2, <2>3 DEF DeleteNamespace
<1>6. ASSUME NEW o \in Objects, Delete(t, o)
      PROVE  StepOK(t)
  <2>1. /\ phase[t] = "cleaning" /\ todo[t] # <<>> /\ Head(todo[t]) = o /\ o # "namespace"
        /\ cluster' = [cluster EXCEPT ![o] = NoOne] /\ Advance(t)
        /\ UNCHANGED <<options, flags, unclean>>
    BY <1>6 DEF Delete, Cleans
  <2>2. cluster'[o] = NoOne /\ \A p \in Objects \ {o} : cluster'[p] = cluster[p]
    BY <2>1 DEF ObjectsInv
  <2>3. \A p \in Objects \ {"roles"} :
          cluster'[p] = t => cluster[p] = t /\ Deletion(p) # Head(todo[t])
    BY <1>1, <2>1, <2>2 DEF Deletion
  <2> QED
    BY <1>1, <2>1, <2>3, DeletionOK
<1>7. CASE CleanupFails(t)
  <2>1. /\ phase[t] = "cleaning" /\ todo[t] # <<>>
        /\ unclean' = Set(unclean, t, TRUE) /\ UNCHANGED <<cluster, options>>
    BY <1>7 DEF CleanupFails, objects
  <2>2. /\ unclean' \in [Sessions -> BOOLEAN] /\ unclean'[t]
        /\ \A u \in Sessions \ {t} : unclean'[u] = unclean[u]
    BY <1>1, <2>1 DEF Set
  <2>3. CASE Finish(t)
    BY <2>1, <2>2, <2>3, FinishOK
  <2>4. CASE Advance(t) /\ UNCHANGED flags
    BY <2>1, <2>2, <2>4, DeletionOK
  <2> QED
    BY <1>7, <2>3, <2>4 DEF CleanupFails
<1>8. CASE CleanedAll(t)
  <2>1. /\ phase[t] = "cleaning" /\ todo[t] = <<>> /\ Finish(t)
        /\ UNCHANGED <<cluster, options, unclean>>
    BY <1>8 DEF CleanedAll, objects, history
  <2>2. \A call : ~Pending(t, call)
    BY <2>1, EmptySeq DEF Pending
  <2>3. runBackground[t] \/ unclean[t] \/ OwnsNothing(t)
    BY <2>1, <2>2 DEF SessionOK, CleanOK, OwnsNothing
  <2> QED
    BY <1>1, <2>1, <2>3, FinishOK
<1> QED
  BY <1>2, <1>3, <1>4, <1>5, <1>6, <1>7, <1>8

-----------------------------------------------------------------------------
(* The cluster.                                                             *)

\* The pods go with what owns them, and nothing outlives its namespace.
LEMMA ApplyObjects ==
  ASSUME ObjectsInv, NEW t \in Sessions, NEW call \in DOMAIN Creates, Apply(t, call)
  PROVE  ObjectsInv' /\ \A u \in Sessions \ {t} : GainsLittle(u)
<1>1. /\ MayCreate(call) /\ UNCHANGED terminating
      /\ cluster' = [o \in Objects |-> IF o \in Creates[call] /\ ~Exists(o) THEN t ELSE cluster[o]]
      /\ agents' = IF call = "daemonset" /\ ~Exists("daemonset") THEN "unscheduled" ELSE agents
      /\ collector' = IF call = "collector" THEN "starting" ELSE collector
  BY DEF Apply
<1>2. t # NoOne
  BY SessionAssumption
<1>3. \A o \in Objects : Exists(o)' <=> Exists(o) \/ o \in Creates[call]
  BY <1>1, <1>2 DEF Exists, ObjectsInv
<1>4. /\ "namespace" \in Objects /\ "daemonset" \in Objects /\ "collector" \in Objects
      /\ NotInNamespace = {"namespace", "roles", "dashboard"}
  BY ObjectsAre DEF NotInNamespace
<1>5. cluster' \in [Objects -> Sessions \cup {NoOne}]
  BY <1>1 DEF ObjectsInv
<1>6. Exists("daemonset")' <=> agents' # "none"
  BY <1>1, <1>3, <1>4, CreatesAre DEF ObjectsInv
<1>7. Exists("collector")' <=> collector' # "none"
  BY <1>1, <1>3, <1>4, CreatesAre DEF ObjectsInv
<1>8. terminating' => Exists("namespace")'
  BY <1>1, <1>3, <1>4 DEF ObjectsInv
<1>9. ~Exists("namespace")' => \A o \in Objects \ NotInNamespace : ~Exists(o)'
  BY <1>1, <1>3, <1>4, CreatesAre DEF ObjectsInv, MayCreate
<1>10. agents' \in {"none", "unscheduled", "starting", "ready"}
       /\ collector' \in {"none", "starting", "ready"}
  BY <1>1 DEF ObjectsInv
<1> QED
  BY <1>1, <1>2, <1>5, <1>6, <1>7, <1>8, <1>9, <1>10 DEF ObjectsInv, GainsLittle

LEMMA DeleteObjects ==
  ASSUME ObjectsInv, NEW t \in Sessions, NEW o \in Objects, Delete(t, o)
  PROVE  ObjectsInv' /\ \A u \in Sessions \ {t} : GainsLittle(u)
<1>1. /\ o # "namespace" /\ UNCHANGED terminating
      /\ cluster' = [cluster EXCEPT ![o] = NoOne]
      /\ agents' = IF o = "daemonset" THEN "none" ELSE agents
      /\ collector' = IF o = "collector" THEN "none" ELSE collector
  BY DEF Delete
<1>2. \A p \in Objects : Exists(p)' <=> Exists(p) /\ p # o
  BY <1>1 DEF Exists, ObjectsInv
<1>3. "namespace" \in Objects /\ "daemonset" \in Objects /\ "collector" \in Objects
  BY ObjectsAre
<1>4. cluster' \in [Objects -> Sessions \cup {NoOne}]
  BY <1>1 DEF ObjectsInv
<1>5. /\ Exists("daemonset")' <=> agents' # "none"
      /\ Exists("collector")' <=> collector' # "none"
      /\ terminating' => Exists("namespace")'
  BY <1>1, <1>2, <1>3 DEF ObjectsInv
<1>6. ~Exists("namespace")' => \A p \in Objects \ NotInNamespace : ~Exists(p)'
  BY <1>1, <1>2, <1>3 DEF ObjectsInv
<1>7. /\ agents' \in {"none", "unscheduled", "starting", "ready"}
      /\ collector' \in {"none", "starting", "ready"}
  BY <1>1 DEF ObjectsInv
<1>8. \A u \in Sessions : GainsLittle(u)
  BY <1>1, SessionAssumption DEF GainsLittle, ObjectsInv
<1> QED
  BY <1>4, <1>5, <1>6, <1>7, <1>8 DEF ObjectsInv

\* The namespace is marked, or its deletion has come through.
LEMMA NamespaceObjects ==
  ASSUME ObjectsInv, NEW t \in Sessions, DeleteNamespace(t)
  PROVE  ObjectsInv' /\ \A u \in Sessions : GainsLittle(u)
<1>1. UNCHANGED <<cluster, agents, collector>> /\ (terminating' => Exists("namespace"))
  BY DEF DeleteNamespace, ObjectsInv
<1> QED
  BY <1>1 DEF ObjectsInv, Exists, GainsLittle

LEMMA ClusterObjects ==
  ASSUME ObjectsInv, Cluster \/ LimitReached
  PROVE  ObjectsInv' /\ \A u \in Sessions : GainsLittle(u)
<1>1. /\ "namespace" \in Objects /\ "daemonset" \in Objects /\ "collector" \in Objects
      /\ "tls config" \in Objects \ NotInNamespace
      /\ "collector" \in Objects \ NotInNamespace /\ "daemonset" \in Objects \ NotInNamespace
  BY ObjectsAre DEF NotInNamespace
<1>2. CASE Schedule \/ StartAgents
  <2>1. /\ UNCHANGED <<cluster, terminating, collector>>
        /\ agents \in {"unscheduled", "starting"} /\ agents' \in {"starting", "ready"}
    BY <1>2 DEF Schedule, StartAgents, AgentsCanStart
  <2> QED
    BY <2>1 DEF ObjectsInv, Exists, GainsLittle
<1>3. CASE StartCollector
  <2> DEFINE owner == cluster["collector"]
  <2>1. /\ collector = "starting" /\ collector' = "ready" /\ UNCHANGED <<terminating, agents>>
        /\ \/ UNCHANGED cluster
           \/ cluster' = [cluster EXCEPT !["tls config"] = owner]
    BY <1>3 DEF StartCollector, applyConfigMap
  <2>2. Exists("collector") /\ owner \in Sessions /\ Exists("namespace")
    BY <1>1, <2>1 DEF ObjectsInv, Exists
  <2> HIDE DEF owner
  <2>3. CASE UNCHANGED cluster
    BY <2>1, <2>3 DEF ObjectsInv, Exists, GainsLittle
  <2>4. CASE cluster' = [cluster EXCEPT !["tls config"] = owner]
    <3>1. /\ cluster' \in [Objects -> Sessions \cup {NoOne}] /\ cluster'["tls config"] = owner
          /\ \A o \in Objects \ {"tls config"} : cluster'[o] = cluster[o]
      BY <1>1, <2>2, <2>4 DEF ObjectsInv
    <3>2. \A o \in {"namespace", "collector", "daemonset"} : Exists(o)' <=> Exists(o)
      BY <1>1, <3>1 DEF Exists
    <3>3. ObjectsInv'
      BY <2>1, <2>2, <3>1, <3>2 DEF ObjectsInv
    <3>4. \A u \in Sessions : GainsLittle(u)
      BY <3>1 DEF GainsLittle, owner
    <3> QED
      BY <3>3, <3>4
  <2> QED
    BY <2>1, <2>3, <2>4
<1>4. CASE Purge
  <2>1. /\ ~terminating' /\ agents' = "none" /\ collector' = "none"
        /\ cluster' = [o \in Objects |->
                         IF o \in NotInNamespace \ {"namespace"} THEN cluster[o] ELSE NoOne]
    BY <1>4 DEF Purge
  <2>2. cluster' \in [Objects -> Sessions \cup {NoOne}]
    BY <2>1 DEF ObjectsInv
  <2>3. \A o \in Objects \ NotInNamespace : ~Exists(o)'
    BY <2>1 DEF Exists
  <2>4. \A u \in Sessions : GainsLittle(u)
    BY <2>1, SessionAssumption DEF GainsLittle
  <2> QED
    BY <1>1, <2>1, <2>2, <2>3, <2>4 DEF ObjectsInv
<1>5. CASE LimitReached
  <2>1. /\ UNCHANGED <<terminating, collector>> /\ agents' = "none"
        /\ cluster' = [cluster EXCEPT !["daemonset"] = NoOne]
    BY <1>5 DEF LimitReached
  <2>2. /\ cluster' \in [Objects -> Sessions \cup {NoOne}] /\ cluster'["daemonset"] = NoOne
        /\ \A o \in Objects \ {"daemonset"} : cluster'[o] = cluster[o]
    BY <1>1, <2>1 DEF ObjectsInv
  <2>3. /\ ~Exists("daemonset")'
        /\ \A o \in Objects \ {"daemonset"} : Exists(o)' <=> Exists(o)
    BY <2>2 DEF Exists
  <2>4. ObjectsInv'
    BY <1>1, <2>1, <2>2, <2>3 DEF ObjectsInv
  <2>5. \A u \in Sessions : GainsLittle(u)
    BY <2>2, SessionAssumption DEF GainsLittle
  <2> QED
    BY <2>4, <2>5
<1> QED
  BY <1>2, <1>3, <1>4, <1>5 DEF Cluster

-----------------------------------------------------------------------------
(* The invariant, and what follows from it.                                 *)

\* The steps of a session that leave the cluster alone.
Quiet(t) ==
  \/ Start(t) \/ ParseArgs(t) \/ EndCapture(t) \/ Interrupt(t)
  \/ CheckFails(t) \/ NamespaceFound(t) \/ NamespaceNotFound(t)
  \/ \E call \in DOMAIN Creates : ApplyFails(t, call)
  \/ AgentsReady(t) \/ CollectorReady(t) \/ Capture(t) \/ CaptureFails(t)
  \/ \E call \in {"wait agents", "wait collector"} : GiveUp(t, call)
  \/ Cleanup(t) \/ CleanupSkipped(t) \/ Copy(t) \/ CleanupFails(t) \/ CleanedAll(t)

LEMMA QuietObjects ==
  ASSUME NEW t, Quiet(t)
  PROVE  UNCHANGED objects
<1>1. CASE Start(t) \/ ParseArgs(t) \/ EndCapture(t) \/ Interrupt(t) \/ CheckFails(t)
             \/ NamespaceFound(t) \/ NamespaceNotFound(t)
  BY <1>1 DEF Start, ParseArgs, EndCapture, Interrupt, CheckFails, NamespaceFound,
     NamespaceNotFound
<1>2. CASE \/ \E call \in DOMAIN Creates : ApplyFails(t, call)
           \/ AgentsReady(t) \/ CollectorReady(t) \/ Capture(t) \/ CaptureFails(t)
           \/ \E call \in {"wait agents", "wait collector"} : GiveUp(t, call)
  BY <1>2 DEF ApplyFails, AgentsReady, CollectorReady, Capture, CaptureFails, GiveUp
<1>3. CASE Cleanup(t) \/ CleanupSkipped(t) \/ Copy(t) \/ CleanupFails(t) \/ CleanedAll(t)
  BY <1>3 DEF Cleanup, CleanupSkipped, Copy, CleanupFails, CleanedAll
<1> QED
  BY <1>1, <1>2, <1>3 DEF Quiet

LEMMA SessionStep ==
  ASSUME SessionInv, NEW t \in Sessions,
         Start(t) \/ ParseArgs(t) \/ Script(t) \/ EndCapture(t) \/ Interrupt(t)
  PROVE  SessionInv'
<1>1. SessionTypes /\ ObjectsInv /\ \A s \in Sessions : SessionOK(s)
  BY DEF SessionInv
<1>2. StepOK(t)
  BY <1>1, StartOK, CaptureOK, CleanupOK DEF Script
<1>3. \/ Quiet(t) \/ \E call \in DOMAIN Creates : Apply(t, call)
      \/ DeleteNamespace(t) \/ \E o \in Objects : Delete(t, o)
  BY DEF Script, Quiet
<1>4. ObjectsInv' /\ \A u \in Sessions \ {t} : GainsLittle(u)
  <2>1. CASE Quiet(t)
    <3>1. UNCHANGED objects
      BY <2>1, QuietObjects
    <3> QED
      BY <1>1, <3>1 DEF objects, ObjectsInv, Exists, GainsLittle
  <2> QED
    BY <1>1, <1>3, <2>1, ApplyObjects, DeleteObjects, NamespaceObjects
<1>5. \A u \in Sessions \ {t} : SessionOK(u)'
  BY <1>1, <1>2, <1>4, Bystander DEF StepOK
<1> QED
  BY <1>2, <1>4, <1>5 DEF StepOK, SessionInv

LEMMA SessionInit == Init => SessionInv
<1> SUFFICES ASSUME Init PROVE SessionInv
  OBVIOUS
<1>1. SessionTypes
  BY SessionAssumption, EmptySeq DEF Init, SessionTypes, Phases
<1>2. ObjectsInv
  BY ObjectsAre DEF Init, ObjectsInv, Exists
<1>3. \A s \in Sessions : SessionOK(s)
  BY SessionAssumption DEF Init, SessionOK, PlanOK, CleanOK, OwnsNothing
<1> QED
  BY <1>1, <1>2, <1>3 DEF SessionInv

LEMMA SessionNext == SessionInv /\ [Next]_vars => SessionInv'
<1> SUFFICES ASSUME SessionInv, [Next]_vars PROVE SessionInv'
  OBVIOUS
<1>1. CASE \E t \in Sessions :
             Start(t) \/ ParseArgs(t) \/ Script(t) \/ EndCapture(t) \/ Interrupt(t)
  BY <1>1, SessionStep
<1>2. CASE Cluster \/ LimitReached
  <2>1. UNCHANGED <<phase, todo, options, flags, unclean>>
    BY <1>2 DEF Cluster, LimitReached, Schedule, StartAgents, StartCollector, Purge, InCluster
  <2>2. SessionTypes' /\ \A u \in Sessions : Untouched(u)
    BY <2>1 DEF SessionInv, SessionTypes, Untouched, options, flags
  <2>3. ObjectsInv' /\ \A u \in Sessions : GainsLittle(u)
    BY <1>2, ClusterObjects DEF SessionInv
  <2>4. \A u \in Sessions : SessionOK(u)'
    BY <2>2, <2>3, Bystander DEF SessionInv
  <2> QED
    BY <2>2, <2>3, <2>4 DEF SessionInv
<1>3. CASE UNCHANGED vars
  <2>1. SessionTypes' /\ ObjectsInv' /\ \A u \in Sessions : Untouched(u) /\ GainsLittle(u)
    BY <1>3 DEF vars, build, objects, options, flags, history, SessionInv, SessionTypes,
       ObjectsInv, Exists, Untouched, GainsLittle
  <2>2. \A u \in Sessions : SessionOK(u)'
    BY <2>1, Bystander DEF SessionInv
  <2> QED
    BY <2>1, <2>2 DEF SessionInv
<1> QED
  BY <1>1, <1>2, <1>3 DEF Next

LEMMA SessionInvariance == Spec => []SessionInv
BY SessionInit, SessionNext, PTL DEF Spec

\* Every variable keeps its type; in the cluster, pods exist with what owns them, and
\* nothing but roles and dashboards exists without the namespace.
THEOREM SessionTypeInvariance == Spec => []TypeOK
<1>1. SessionInv => TypeOK
  BY DEF SessionInv, SessionTypes, ObjectsInv, SessionOK, PlanOK, TypeOK, Phases
<1> QED
  BY <1>1, SessionInvariance, PTL

\* A foreground session that ended, and whose clean-up found the cluster in order, left
\* nothing but its roles, whatever failed and whatever the other sessions did.
THEOREM CleanUpInvariance == Spec => []CleanedUp
<1>1. SessionInv => CleanedUp
  BY DEF SessionInv, SessionOK, CleanOK, OwnsNothing, CleanedUp
<1> QED
  BY <1>1, SessionInvariance, PTL

\* A session that was refused changes nothing in the cluster on its way out.
THEOREM RefusalHarmless == Spec => RefusedHarmless
<1> DEFINE Harmless(s) ==
      Refused(s) /\ <<phase[s], todo[s]>>' # <<phase[s], todo[s]>>
        => cluster' = cluster /\ terminating' = terminating
<1>1. ASSUME SessionInv, Next PROVE \A s \in Sessions : Harmless(s)
  <2> SUFFICES ASSUME NEW s \in Sessions, Refused(s),
                      <<phase[s], todo[s]>>' # <<phase[s], todo[s]>>
               PROVE  UNCHANGED objects
    BY DEF objects
  <2>1. phase[s] = "exiting" /\ SessionTypes /\ \A t \in Sessions : SessionOK(t)
    BY <1>1 DEF Refused, SessionInv, SessionOK, CleanOK
  <2>2. ~(Cluster \/ LimitReached)
    BY DEF Cluster, LimitReached, Schedule, StartAgents, StartCollector, Purge, InCluster
  <2>3. PICK t \in Sessions :
          Start(t) \/ ParseArgs(t) \/ Script(t) \/ EndCapture(t) \/ Interrupt(t)
    BY <1>1, <2>2 DEF Next
  <2>4. StepOK(t)
    BY <1>1, <2>1, <2>3, StartOK, CaptureOK, CleanupOK DEF Script, SessionInv
  <2>5. t = s
    BY <2>4 DEF StepOK, Untouched
  <2>6. Cleanup(s) \/ CleanupSkipped(s)
    BY <2>1, <2>3, <2>5 DEF Script, Start, ParseArgs, EndCapture, Interrupt, CheckFails,
       NamespaceFound, NamespaceNotFound, Apply, ApplyFails, AgentsReady, CollectorReady,
       Capture, CaptureFails, GiveUp, Calls, Copy, DeleteNamespace, Delete, Cleans,
       CleanupFails, CleanedAll
  <2> QED
    BY <2>6 DEF Cleanup, CleanupSkipped
<1>2. ASSUME SessionInv, [Next]_vars
      PROVE  [\A s \in Sessions : Harmless(s)]_vars
  BY <1>1, <1>2
<1> QED
  BY <1>2, SessionInvariance, PTL DEF Spec, RefusedHarmless
=============================================================================
