---------------------------- MODULE MetricGraphs ----------------------------
(***************************************************************************)
(* The graphs of a metric capture (cmd/metric_capture.go and               *)
(* cmd/metric_display.go), in the terminal UI.  One goroutine per graph    *)
(* and tick asks Prometheus and writes the answer into the global `graphs` *)
(* slice; the goroutine of the UI empties and refills that slice whenever  *)
(* panels, time range or screen change.  Nothing protects the slice.       *)
(***************************************************************************)
EXTENDS SequencesExt

CONSTANTS
  PromQLs,      \* the queries a panel may show
  NoAnswer,     \* a graph or goroutine without query
  Panels,       \* panels.all: a sequence of sequences of queries
  Durations,    \* indices of the time ranges
  Selectable,   \* bound: the queries that are selected one by one
  Goroutines    \* bound: queries at a time

ASSUME MetricAssumption ==
  /\ Panels \in Seq(Seq(PromQLs)) /\ Len(Panels) > 0
  /\ NoAnswer \notin PromQLs /\ Selectable \subseteq PromQLs

VARIABLES
  graphs,            \* what each graph asks (promql), of which range, and shows
  current,           \* panels.current
  selectedPanels,    \* the custom panels
  selectedDuration,
  paused,
  client,            \* client # nil
  rebuilds,          \* the updateGraphs calls the UI's callback has yet to make: query?
  emptied,           \* the present call has emptied the slice
  spawned,           \* updateGraphs started a queryGraphs that has not run
  goroutine,         \* the goroutines of queryGraph
  process,           \* "running", "stopped", "panicked"
  built,             \* history: the queries of the last updateGraphs
  overtaken          \* history: the slice was replaced while an answer was written

ui     == <<current, selectedPanels, selectedDuration, paused>>
screen == <<rebuilds, emptied>>
past   == <<built, overtaken>>
vars == <<graphs, ui, screen, spawned, goroutine, client, process, past>>

Query == [promql : PromQLs, range : Durations]

Fresh(promql) == [promql |-> promql, range |-> NoAnswer, data |-> NoAnswer]

Idle == [at |-> "idle", index |-> 0, query |-> NoAnswer]

\* What the screen is to show.
Shown == IF selectedPanels # <<>> THEN selectedPanels ELSE Panels[current]

Init ==
  /\ current = 1 /\ selectedPanels = <<>> /\ selectedDuration \in Durations
  /\ graphs = [i \in DOMAIN Panels[1] |-> Fresh(Panels[1][i])]
  /\ built = Panels[1] /\ overtaken = FALSE
  /\ paused = FALSE /\ rebuilds = <<>> /\ emptied = FALSE /\ spawned = FALSE
  /\ goroutine = [g \in Goroutines |-> Idle]
  /\ client = FALSE /\ process = "running"

Running == process = "running"

-----------------------------------------------------------------------------
(* The goroutine of the UI.  A callback changes what is to be shown and     *)
(* calls updateGraphs, once or, through updatePanels(true) and then         *)
(* updateScreen, twice; each call empties the slice and appends one graph   *)
(* after the other, while the other goroutines run.                         *)

UIFree == Running /\ rebuilds = <<>>

\* updateScreen rebuilds the screen, and unless paused the graphs; no query.
Screen(isPaused) == IF isPaused THEN <<>> ELSE <<FALSE>>

Callback(calls) ==
  /\ UIFree /\ rebuilds' = calls
  /\ UNCHANGED <<graphs, emptied, spawned, goroutine, client, process, past>>

NextOf(i) == IF i = Len(Panels) THEN 1 ELSE i + 1

\* A mistake to catch: the first panel has no previous one.
PrevUnwrapped(i) == i - 1

PrevOf(i) == IF i = 1 THEN Len(Panels) ELSE i - 1

CyclePanels ==
  /\ selectedPanels = <<>>
  /\ current' \in {NextOf(current), PrevOf(current)}
  /\ Callback(<<TRUE>> \o Screen(paused))
  /\ UNCHANGED <<selectedPanels, selectedDuration, paused>>

ResetPanels ==
  /\ selectedPanels # <<>>
  /\ current' = 1 /\ selectedPanels' = <<>>
  /\ Callback(<<TRUE>> \o Screen(paused))
  /\ UNCHANGED <<selectedDuration, paused>>

SelectDuration(d) ==
  /\ selectedDuration' = d
  /\ Callback(<<TRUE>>)
  /\ UNCHANGED <<current, selectedPanels, paused>>

\* Opening the panels' modal and changing showCount rebuild the screen.
Redraw ==
  /\ Callback(Screen(paused)) /\ Screen(paused) # <<>>
  /\ UNCHANGED ui

\* A panel is selected at most once.  Unselecting it leaves the graphs alone until they
\* are saved.
TogglePanel(promql) ==
  /\ \/ /\ \E i \in DOMAIN selectedPanels :
             selectedPanels[i] = promql /\ selectedPanels' = RemoveAt(selectedPanels, i)
        /\ Callback(<<>>)
     \/ /\ promql \notin ToSet(selectedPanels)
        /\ selectedPanels' = Append(selectedPanels, promql)
        /\ Callback(<<TRUE>>)
  /\ UNCHANGED <<current, selectedDuration, paused>>

UnselectAll ==
  /\ selectedPanels' = <<>>
  /\ Callback(<<FALSE>>)
  /\ UNCHANGED <<current, selectedDuration, paused>>

SavePanels ==
  /\ Callback(<<TRUE>> \o Screen(paused))
  /\ UNCHANGED ui

Pause ==
  /\ paused' = ~paused
  /\ Callback(Screen(paused'))
  /\ UNCHANGED <<current, selectedPanels, selectedDuration>>

Writing == \E g \in Goroutines : goroutine[g].at \in {"checked", "half written"}

\* updateGraphs: the slice is emptied ...
EmptyGraphs ==
  /\ Running /\ rebuilds # <<>> /\ ~emptied
  /\ graphs' = <<>> /\ emptied' = TRUE /\ built' = Shown
  /\ overtaken' = (overtaken \/ Writing)
  /\ UNCHANGED <<ui, rebuilds, spawned, goroutine, client, process>>

\* ... refilled, and then asked for.  The graphs are appended one by one; a query
\* that finds only the first of them leaves out the others, as one that fails does.
AppendGraphs ==
  /\ Running /\ emptied
  /\ graphs' = [i \in DOMAIN built |-> Fresh(built[i])]
  /\ emptied' = FALSE /\ rebuilds' = Tail(rebuilds)
  /\ spawned' = (spawned \/ (Head(rebuilds) /\ client))
  /\ UNCHANGED <<ui, goroutine, client, process, past>>

-----------------------------------------------------------------------------
(* The collector and the goroutines of queryGraph.                          *)

FreeGoroutines == { g \in Goroutines : goroutine[g].at = "idle" }

\* queryGraphs: one goroutine per graph that there is now.
StartQueries ==
  \E f \in Injection(1..Len(graphs), FreeGoroutines) :
    goroutine' = [g \in Goroutines |->
      IF g \in Range(f)
      THEN [at |-> "started", index |-> CHOOSE i \in DOMAIN f : f[i] = g, query |-> NoAnswer]
      ELSE goroutine[g]]

Tick ==
  /\ Running
  /\ client' = TRUE
  /\ StartQueries
  /\ UNCHANGED <<graphs, ui, screen, spawned, process, past>>

\* The process ends, and with it all that it kept.
Exit(how) ==
  /\ process' = how
  /\ graphs' = <<>> /\ built' = <<>> /\ rebuilds' = <<>> /\ emptied' = FALSE
  /\ goroutine' = [g \in Goroutines |-> Idle] /\ spawned' = FALSE
  /\ UNCHANGED <<ui, client, overtaken>>

\* maxTime: onLimitReached stops the UI; or the user does.
Stop == Running /\ client /\ Exit("stopped")

UIQueries ==
  /\ Running /\ spawned
  /\ spawned' = FALSE
  /\ StartQueries
  /\ UNCHANGED <<graphs, ui, screen, client, process, past>>

Become(g, next) ==
  /\ goroutine' = [goroutine EXCEPT ![g] = next]
  /\ UNCHANGED <<ui, screen, spawned, client, process, past>>

OutOfRange(g) == goroutine[g].index > Len(graphs)

\* Indexing a slice that the UI replaced by a shorter one.
IndexPanic(g) ==
  /\ Running /\ goroutine[g].at \in {"started", "checked", "half written"} /\ OutOfRange(g)
  /\ Exit("panicked")

Ask(g) ==
  LET i == goroutine[g].index IN
  /\ Running /\ goroutine[g].at = "started" /\ ~OutOfRange(g)
  /\ Become(g, [at |-> "waiting", index |-> i,
                query |-> [promql |-> graphs[i].promql, range |-> selectedDuration]])
  /\ UNCHANGED graphs

\* A mistake to catch: only the index is compared.
AcceptedByIndex(g) == ~paused /\ ~OutOfRange(g)

\* "Skip if paused, query / matrix are invalid or when graph array changed".
Accepted(g) ==
  ~paused /\ ~OutOfRange(g) /\ graphs[goroutine[g].index].promql = goroutine[g].query.promql

\* The answer, or an error (a nil matrix); it is checked as appendMetrics begins.
Answer(g) ==
  /\ Running /\ goroutine[g].at = "waiting"
  /\ \/ Accepted(g) /\ Become(g, [goroutine[g] EXCEPT !.at = "checked"])
     \/ ~Accepted(g) /\ Become(g, Idle)
  /\ UNCHANGED graphs

Fail(g) ==
  /\ Running /\ goroutine[g].at = "waiting"
  /\ Become(g, Idle)
  /\ UNCHANGED graphs

\* A mistake to catch: the range of the query is not taken over.
WritePromQL(g) ==
  LET asked == goroutine[g].query IN
  /\ Running /\ goroutine[g].at = "checked" /\ ~OutOfRange(g)
  /\ graphs' = [graphs EXCEPT ![goroutine[g].index].promql = asked.promql]
  /\ Become(g, [goroutine[g] EXCEPT !.at = "half written"])

WriteQuery(g) ==
  LET asked == goroutine[g].query IN
  /\ Running /\ goroutine[g].at = "checked" /\ ~OutOfRange(g)
  /\ graphs' = [graphs EXCEPT ![goroutine[g].index].promql = asked.promql,
                              ![goroutine[g].index].range = asked.range]
  /\ Become(g, [goroutine[g] EXCEPT !.at = "half written"])

\* updateData.
WriteData(g) ==
  /\ Running /\ goroutine[g].at = "half written" /\ ~OutOfRange(g)
  /\ graphs' = [graphs EXCEPT ![goroutine[g].index].data = goroutine[g].query]
  /\ Become(g, Idle)

-----------------------------------------------------------------------------

User ==
  \/ CyclePanels \/ ResetPanels \/ UnselectAll \/ SavePanels \/ Redraw \/ Pause
  \/ \E d \in Durations : SelectDuration(d)
  \/ \E p \in Selectable : TogglePanel(p)

MaxGraphs == Max({Len(Panels[i]) : i \in DOMAIN Panels} \cup {Cardinality(Selectable)})

UpdateGraphs == EmptyGraphs \/ AppendGraphs

QueryGraph(g) == IndexPanic(g) \/ Ask(g) \/ Answer(g) \/ WriteQuery(g) \/ WriteData(g)

Next ==
  \/ User \/ UpdateGraphs \/ Tick \/ Stop \/ UIQueries
  \/ \E g \in Goroutines : QueryGraph(g) \/ Fail(g)

Spec == Init /\ [][Next]_vars

\* The ticker ticks, whoever can run runs, and the client gives up a query
\* after 30 seconds; not every query fails.
FairSpec ==
  /\ Spec
  /\ WF_vars(UpdateGraphs) /\ WF_vars(Tick) /\ WF_vars(UIQueries)
  /\ \A g \in Goroutines : WF_vars(QueryGraph(g))
  /\ \A i \in 1..MaxGraphs : SF_vars(\E g \in Goroutines : goroutine[g].index = i /\ Answer(g))

-----------------------------------------------------------------------------
(* Properties                                                               *)

TypeOK ==
  /\ graphs \in Seq([promql : PromQLs, range : Durations \cup {NoAnswer},
                     data : Query \cup {NoAnswer}])
  /\ current \in DOMAIN Panels /\ selectedDuration \in Durations
  /\ \A s \in {selectedPanels, built} : s \in Seq(PromQLs)
  /\ rebuilds \in Seq(BOOLEAN) /\ Len(rebuilds) <= 2
  /\ {paused, client, emptied, spawned, overtaken} \subseteq BOOLEAN
  /\ process \in {"running", "stopped", "panicked"}
  /\ \A g \in Goroutines :
       /\ goroutine[g].at \in {"idle", "started", "waiting", "checked", "half written"}
       /\ goroutine[g].query \in Query \cup {NoAnswer}

Asked == [i \in DOMAIN graphs |-> graphs[i].promql]

\* However late an answer comes, and whatever panels it was asked for, the graphs
\* stay those of the panels, unless the slice is replaced within appendMetrics.
GraphsAsBuilt == ~overtaken /\ ~emptied => Asked = built

\* A graph shows the answer to the query it asks, of the range selected.
UpToDate(i) ==
  /\ graphs[i].range = selectedDuration
  /\ graphs[i].data = [promql |-> graphs[i].promql, range |-> selectedDuration]

\* Once the user leaves the screen alone and unpaused, every graph comes to show
\* the selected range, although answers of an earlier range may come last and a
\* redraw drops what was shown and asks nothing: the next tick repairs both.
Settles ==
  \A i \in 1..MaxGraphs :
    <>[](Running /\ ~paused /\ rebuilds = <<>> /\ i <= Len(graphs))
      => []<>(paused \/ i > Len(graphs) \/ UpToDate(i))
=============================================================================
