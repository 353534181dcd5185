------------------------- MODULE MetricGraphs_proofs -------------------------
(***************************************************************************)
(* Proofs about MetricGraphs, for any panels, any time ranges and any      *)
(* number of goroutines: however late the answers come, the graphs on the  *)
(* screen stay those of the panels.                                        *)
(***************************************************************************)
EXTENDS MetricGraphs, SequenceTheorems, TLAPS

-----------------------------------------------------------------------------
(* The inductive invariant.                                                 *)

Graph == [promql : PromQLs, range : Durations \cup {NoAnswer}, data : Query \cup {NoAnswer}]

States == {"idle", "started", "waiting", "checked", "half written"}

ScreenTypes ==
  /\ current \in DOMAIN Panels /\ selectedDuration \in Durations
  /\ selectedPanels \in Seq(PromQLs) /\ paused \in BOOLEAN
  /\ rebuilds \in Seq(BOOLEAN) /\ Len(rebuilds) <= 2
  /\ emptied => rebuilds # <<>>

GraphTypes ==
  /\ graphs \in Seq(Graph) /\ built \in Seq(PromQLs)
  /\ emptied => graphs = <<>>
  /\ {client, emptied, spawned, overtaken} \subseteq BOOLEAN
  /\ process \in {"running", "stopped", "panicked"}

\* A goroutine is about one graph, and knows what it has asked.
GoroutineOK(r) ==
  /\ r.at # "idle" => r.index # 0
  /\ r.at \in {"waiting", "checked", "half written"} => r.query \in Query

GoroutineTypes ==
  /\ goroutine \in [Goroutines -> [at : States, index : Nat, query : Query \cup {NoAnswer}]]
  /\ \A g \in Goroutines : GoroutineOK(goroutine[g])

\* The graphs ask what the panels say.
Agree ==
  /\ DOMAIN graphs = DOMAIN built
  /\ \A i \in DOMAIN graphs : graphs[i].promql = built[i]

\* The answer that is about to be written is that of the graph it is written to.
Current(r) ==
  r.at = "checked" => r.index \in DOMAIN graphs /\ graphs[r.index].promql = r.query.promql

\* All of it until the slice is replaced within appendMetrics: a goroutine that is in
\* there when the slice is emptied makes `overtaken`, so that until it is refilled there
\* is none.
AnswersInv ==
  ~overtaken => IF emptied
                THEN ~Writing
                ELSE Agree /\ \A g \in Goroutines : Current(goroutine[g])

MetricInv == ScreenTypes /\ GraphTypes /\ GoroutineTypes /\ AnswersInv

-----------------------------------------------------------------------------
(* The goroutine of the UI.                                                 *)

LEMMA PanelFacts ==
  /\ DOMAIN Panels = 1..Len(Panels) /\ Len(Panels) \in Nat \ {0}
  /\ \A i \in DOMAIN Panels : Panels[i] \in Seq(PromQLs)
<1>1. Panels \in Seq(Seq(PromQLs)) /\ Len(Panels) > 0
  BY MetricAssumption
<1>2. DOMAIN Panels = 1..Len(Panels) /\ Len(Panels) \in Nat
  BY <1>1, LenProperties
<1>3. \A i \in 1..Len(Panels) : Panels[i] \in Seq(PromQLs)
  BY <1>1, ElementOfSeq
<1> QED
  BY <1>1, <1>2, <1>3

\* The queries that the UI's callbacks leave for updateGraphs.
LEMMA CallsTypes ==
  ASSUME NEW isPaused \in BOOLEAN
  PROVE  /\ \A calls \in {<<>>, <<TRUE>>, <<FALSE>>, Screen(isPaused), <<TRUE>> \o Screen(isPaused)} :
              calls \in Seq(BOOLEAN) /\ Len(calls) <= 2
<1>1. /\ <<>> \in Seq(BOOLEAN) /\ Len(<<>>) = 0
      /\ <<TRUE>> \in Seq(BOOLEAN) /\ Len(<<TRUE>>) = 1
      /\ <<FALSE>> \in Seq(BOOLEAN) /\ Len(<<FALSE>>) = 1
  BY EmptySeq
<1>2. Screen(isPaused) \in Seq(BOOLEAN) /\ Len(Screen(isPaused)) <= 1 /\ Len(Screen(isPaused)) \in Nat
  <2>1. CASE isPaused
    BY <1>1, <2>1 DEF Screen
  <2>2. CASE ~isPaused
    BY <1>1, <2>2 DEF Screen
  <2> QED
    BY <2>1, <2>2
<1>3. /\ <<TRUE>> \o Screen(isPaused) \in Seq(BOOLEAN)
      /\ Len(<<TRUE>> \o Screen(isPaused)) = Len(<<TRUE>>) + Len(Screen(isPaused))
  BY <1>1, <1>2, ConcatProperties
<1>4. Len(<<TRUE>> \o Screen(isPaused)) <= 2
  BY <1>1, <1>2, <1>3
<1> QED
  BY <1>1, <1>2, <1>3, <1>4

LEMMA CallbackStep ==
  ASSUME MetricInv, NEW calls \in Seq(BOOLEAN), Len(calls) <= 2, Callback(calls),
         current' \in DOMAIN Panels, selectedDuration' \in Durations,
         selectedPanels' \in Seq(PromQLs), paused' \in BOOLEAN
  PROVE  MetricInv'
<1>1. /\ rebuilds' = calls /\ UNCHANGED <<graphs, emptied, spawned, goroutine, client, process>>
      /\ UNCHANGED <<built, overtaken>> /\ rebuilds = <<>>
  BY DEF Callback, UIFree, past
<1>2. ~emptied
  BY <1>1 DEF MetricInv, ScreenTypes
<1>3. ScreenTypes'
  BY <1>1, <1>2 DEF ScreenTypes
<1>4. GraphTypes' /\ GoroutineTypes'
  BY <1>1 DEF MetricInv, GraphTypes, GoroutineTypes
<1>5. AnswersInv'
  BY <1>1, <1>2 DEF MetricInv, AnswersInv, Agree, Current
<1> QED
  BY <1>3, <1>4, <1>5 DEF MetricInv

\* The slice without one of its elements.
LEMMA RemoveAtType ==
  ASSUME NEW S, NEW q \in Seq(S), NEW i \in DOMAIN q
  PROVE  RemoveAt(q, i) \in Seq(S)
<1>1. Len(q) \in Nat /\ i \in 1..Len(q) /\ \A j \in 1..Len(q) : q[j] \in S
  BY LenProperties, ElementOfSeq
<1>2. SubSeq(q, 1, i - 1) \in Seq(S)
  <2>1. 1 \in Int /\ i - 1 \in Int /\ \A j \in 1..(i - 1) : q[j] \in S
    BY <1>1
  <2> QED
    BY <2>1, SubSeqProperties
<1>3. SubSeq(q, i + 1, Len(q)) \in Seq(S)
  <2>1. i + 1 \in Int /\ Len(q) \in Int /\ \A j \in (i + 1)..Len(q) : q[j] \in S
    BY <1>1
  <2> QED
    BY <2>1, SubSeqProperties
<1> QED
  BY <1>2, <1>3, ConcatProperties DEF RemoveAt

LEMMA UserStep ==
  ASSUME MetricInv, User
  PROVE  MetricInv'
<1>1. /\ current \in DOMAIN Panels /\ selectedDuration \in Durations
      /\ selectedPanels \in Seq(PromQLs) /\ paused \in BOOLEAN
  BY DEF MetricInv, ScreenTypes
<1>2. /\ \A calls \in {<<>>, <<TRUE>>, <<FALSE>>, Screen(paused), <<TRUE>> \o Screen(paused)} :
           calls \in Seq(BOOLEAN) /\ Len(calls) <= 2
      /\ Screen(~paused) \in Seq(BOOLEAN) /\ Len(Screen(~paused)) <= 2
  BY <1>1, CallsTypes
<1>3. CASE CyclePanels
  <2>1. NextOf(current) \in DOMAIN Panels /\ PrevOf(current) \in DOMAIN Panels
    BY <1>1, PanelFacts DEF NextOf, PrevOf
  <2> QED
    BY <1>1, <1>2, <1>3, <2>1, CallbackStep DEF CyclePanels
<1>4. CASE ResetPanels
  <2>1. 1 \in DOMAIN Panels /\ <<>> \in Seq(PromQLs)
    BY PanelFacts, EmptySeq
  <2> QED
    BY <1>1, <1>2, <1>4, <2>1, CallbackStep DEF ResetPanels
<1>5. CASE UnselectAll
  <2>1. <<>> \in Seq(PromQLs)
    BY EmptySeq
  <2> QED
    BY <1>1, <1>2, <1>5, <2>1, CallbackStep DEF UnselectAll
<1>6. CASE SavePanels \/ Redraw
  BY <1>1, <1>2, <1>6, CallbackStep DEF SavePanels, Redraw, ui
<1>7. CASE Pause
  <2>1. paused' = ~paused /\ Callback(Screen(~paused)) /\ UNCHANGED <<current, selectedPanels, selectedDuration>>
    BY <1>7 DEF Pause
  <2> QED
    BY <1>1, <1>2, <2>1, CallbackStep
<1>8. ASSUME NEW d \in Durations, SelectDuration(d)
      PROVE  MetricInv'
  BY <1>1, <1>2, <1>8, CallbackStep DEF SelectDuration
<1>9. ASSUME NEW p \in Selectable, TogglePanel(p)
      PROVE  MetricInv'
  <2>1. p \in PromQLs
    BY MetricAssumption
  <2>2. selectedPanels' \in Seq(PromQLs)
    BY <1>1, <1>9, <2>1, RemoveAtType, AppendProperties DEF TogglePanel
  <2> QED
    BY <1>1, <1>2, <1>9, <2>2, CallbackStep DEF TogglePanel
<1> QED
  BY <1>3, <1>4, <1>5, <1>6, <1>7, <1>8, <1>9 DEF User

-----------------------------------------------------------------------------
(* The slice is emptied and refilled.                                       *)

LEMMA FreshGraphs ==
  ASSUME NEW queries \in Seq(PromQLs)
  PROVE  LET slice == [i \in DOMAIN queries |-> Fresh(queries[i])]
         IN  /\ slice \in Seq(Graph) /\ DOMAIN slice = DOMAIN queries
             /\ \A i \in DOMAIN slice : slice[i].promql = queries[i]
<1> DEFINE slice == [i \in DOMAIN queries |-> Fresh(queries[i])]
<1>1. DOMAIN queries = 1..Len(queries) /\ Len(queries) \in Nat
      /\ \A i \in 1..Len(queries) : queries[i] \in PromQLs
  BY LenProperties, ElementOfSeq
<1>2. \A q \in PromQLs : Fresh(q) \in Graph /\ Fresh(q).promql = q
  BY DEF Fresh, Graph
<1>3. slice \in [1..Len(queries) -> Graph]
  BY <1>1, <1>2
<1>4. slice \in Seq(Graph)
  BY <1>1, <1>3, SeqDef
<1> QED
  BY <1>1, <1>2, <1>4

LEMMA EmptyStep ==
  ASSUME MetricInv, EmptyGraphs
  PROVE  MetricInv'
<1>1. /\ rebuilds # <<>> /\ ~emptied /\ graphs' = <<>> /\ emptied' = TRUE /\ built' = Shown
      /\ overtaken' = (overtaken \/ Writing)
      /\ UNCHANGED <<ui, rebuilds, spawned, goroutine, client, process>>
  BY DEF EmptyGraphs
<1>2. Shown \in Seq(PromQLs)
  BY PanelFacts DEF MetricInv, ScreenTypes, Shown
<1>3. ScreenTypes'
  BY <1>1 DEF MetricInv, ScreenTypes, ui
<1>4. overtaken' \in BOOLEAN
  <2>1. Writing \in BOOLEAN
    BY DEF Writing
  <2> QED
    BY <1>1, <2>1 DEF MetricInv, GraphTypes
<1>5. GraphTypes' /\ GoroutineTypes'
  BY <1>1, <1>2, <1>4, EmptySeq DEF MetricInv, GraphTypes, GoroutineTypes
<1>6. AnswersInv'
  BY <1>1 DEF AnswersInv, Writing
<1> QED
  BY <1>3, <1>5, <1>6 DEF MetricInv

LEMMA AppendStep ==
  ASSUME MetricInv, AppendGraphs
  PROVE  MetricInv'
<1>1. /\ emptied /\ graphs' = [i \in DOMAIN built |-> Fresh(built[i])]
      /\ emptied' = FALSE /\ rebuilds' = Tail(rebuilds)
      /\ spawned' = (spawned \/ (Head(rebuilds) /\ client))
      /\ UNCHANGED <<ui, goroutine, client, process, past>>
  BY DEF AppendGraphs
<1>2. built \in Seq(PromQLs) /\ rebuilds \in Seq(BOOLEAN) /\ rebuilds # <<>> /\ Len(rebuilds) <= 2
  BY <1>1 DEF MetricInv, ScreenTypes, GraphTypes
<1>3. /\ graphs' \in Seq(Graph) /\ DOMAIN graphs' = DOMAIN built
      /\ \A i \in DOMAIN graphs' : graphs'[i].promql = built[i]
  BY <1>1, <1>2, FreshGraphs
<1>4. /\ Head(rebuilds) \in BOOLEAN /\ Tail(rebuilds) \in Seq(BOOLEAN)
      /\ Len(Tail(rebuilds)) <= 2
  BY <1>2, HeadTailProperties, LenProperties
<1>5. ScreenTypes'
  BY <1>1, <1>4 DEF MetricInv, ScreenTypes, ui
<1>6. spawned' \in BOOLEAN
  BY <1>1
<1>7. GraphTypes' /\ GoroutineTypes'
  BY <1>1, <1>3, <1>6 DEF MetricInv, GraphTypes, GoroutineTypes, past
<1>8. Agree'
  BY <1>1, <1>3 DEF Agree, past
<1>9. ASSUME ~overtaken', NEW g \in Goroutines PROVE Current(goroutine[g])'
  <2>1. ~Writing
    BY <1>1, <1>9 DEF MetricInv, AnswersInv, past
  <2> QED
    BY <1>1, <2>1 DEF Writing, Current
<1>10. AnswersInv'
  BY <1>1, <1>8, <1>9 DEF AnswersInv
<1> QED
  BY <1>5, <1>7, <1>10 DEF MetricInv

-----------------------------------------------------------------------------
(* The goroutines.                                                          *)

\* One goroutine moves, and the slice with it; its queries stay what they were unless
\* an answer has been overtaken.
LEMMA GoroutineStep ==
  ASSUME MetricInv, NEW g \in Goroutines,
         NEW next \in [at : States, index : Nat, query : Query \cup {NoAnswer}],
         Become(g, next), GoroutineOK(next),
         emptied => next.at \notin {"checked", "half written"} /\ UNCHANGED graphs,
         graphs' \in Seq(Graph), DOMAIN graphs' = DOMAIN graphs,
         ~overtaken => /\ Current(next)
                       /\ \A i \in DOMAIN graphs : graphs'[i].promql = graphs[i].promql
  PROVE  MetricInv'
<1>1. /\ goroutine' = [goroutine EXCEPT ![g] = next]
      /\ UNCHANGED <<ui, screen, spawned, client, process, past>>
  BY DEF Become
<1>2. ScreenTypes'
  BY <1>1 DEF MetricInv, ScreenTypes, ui, screen
<1>3. GraphTypes'
  BY <1>1 DEF MetricInv, GraphTypes, screen, past
<1>4. /\ goroutine' \in [Goroutines -> [at : States, index : Nat, query : Query \cup {NoAnswer}]]
      /\ goroutine'[g] = next /\ \A h \in Goroutines \ {g} : goroutine'[h] = goroutine[h]
  BY <1>1 DEF MetricInv, GoroutineTypes
<1>5. GoroutineTypes'
  BY <1>4 DEF MetricInv, GoroutineTypes
<1>6. ASSUME ~overtaken, ~emptied
      PROVE  Agree' /\ \A h \in Goroutines : Current(goroutine[h])'
  <2>1. Agree /\ \A h \in Goroutines : Current(goroutine[h])
    BY <1>6 DEF MetricInv, AnswersInv
  <2>2. Agree'
    BY <1>1, <1>6, <2>1 DEF Agree, past
  <2>3. ASSUME NEW h \in Goroutines PROVE Current(goroutine[h])'
    <3>1. Current(goroutine'[h])
      BY <1>4, <1>6, <2>1
    <3>2. LET r == goroutine'[h]
          IN  r.at = "checked"
              => r.index \in DOMAIN graphs' /\ graphs'[r.index].promql = r.query.promql
      BY <1>6, <3>1 DEF Current
    <3> QED
      BY <3>2 DEF Current
  <2> QED
    BY <2>2, <2>3
<1>7. ASSUME ~overtaken, emptied
      PROVE  ~Writing'
  <2>1. \A h \in Goroutines : goroutine[h].at \notin {"checked", "half written"}
    BY <1>7 DEF MetricInv, AnswersInv, Writing
  <2>2. \A h \in Goroutines : goroutine'[h].at \notin {"checked", "half written"}
    BY <1>4, <1>7, <2>1
  <2> QED
    BY <2>2 DEF Writing
<1>8. AnswersInv'
  BY <1>1, <1>6, <1>7 DEF AnswersInv, screen, past, MetricInv, GraphTypes
<1> QED
  BY <1>2, <1>3, <1>5, <1>8 DEF MetricInv

\* The graph that a goroutine is about, if the slice has it.
LEMMA IndexFacts ==
  ASSUME MetricInv, NEW g \in Goroutines
  PROVE  /\ goroutine[g] \in [at : States, index : Nat, query : Query \cup {NoAnswer}]
         /\ GoroutineOK(goroutine[g])
         /\ DOMAIN graphs = 1..Len(graphs)
         /\ goroutine[g].at # "idle" /\ ~OutOfRange(g)
            => /\ ~emptied /\ goroutine[g].index \in DOMAIN graphs
               /\ graphs[goroutine[g].index] \in Graph
<1>1. goroutine[g] \in [at : States, index : Nat, query : Query \cup {NoAnswer}]
      /\ GoroutineOK(goroutine[g])
  BY DEF MetricInv, GoroutineTypes
<1>2. graphs \in Seq(Graph) /\ DOMAIN graphs = 1..Len(graphs) /\ Len(graphs) \in Nat
  BY LenProperties DEF MetricInv, GraphTypes
<1>3. ASSUME goroutine[g].at # "idle", ~OutOfRange(g)
      PROVE  ~emptied /\ goroutine[g].index \in 1..Len(graphs)
  <2>1. goroutine[g].index \in Nat /\ goroutine[g].index # 0 /\ ~(goroutine[g].index > Len(graphs))
    BY <1>1, <1>3 DEF GoroutineOK, OutOfRange
  <2>2. goroutine[g].index \in 1..Len(graphs)
    BY <1>2, <2>1
  <2>3. Len(graphs) # 0
    BY <1>2, <2>2
  <2> QED
    BY <2>2, <2>3, EmptySeq DEF MetricInv, GraphTypes
<1> QED
  BY <1>1, <1>2, <1>3, ElementOfSeq

LEMMA IdleFacts ==
  /\ Idle \in [at : States, index : Nat, query : Query \cup {NoAnswer}]
  /\ GoroutineOK(Idle) /\ Current(Idle) /\ Idle.at = "idle"
BY DEF Idle, States, GoroutineOK, Current

LEMMA AskStep ==
  ASSUME MetricInv, NEW g \in Goroutines, Ask(g)
  PROVE  MetricInv'
<1> DEFINE i == goroutine[g].index
           q == [promql |-> graphs[i].promql, range |-> selectedDuration]
           next == [at |-> "waiting", index |-> i, query |-> q]
<1>1. /\ goroutine[g].at = "started" /\ ~OutOfRange(g) /\ Become(g, next) /\ UNCHANGED graphs
  BY DEF Ask
<1>2. i \in Nat /\ i # 0 /\ ~emptied /\ graphs[i] \in Graph /\ graphs \in Seq(Graph)
  BY <1>1, IndexFacts DEF GoroutineOK, MetricInv, GraphTypes
<1>3. q \in Query
  BY <1>2 DEF Graph, Query, MetricInv, ScreenTypes
<1>4. next \in [at : States, index : Nat, query : Query \cup {NoAnswer}]
      /\ GoroutineOK(next) /\ Current(next)
  BY <1>2, <1>3 DEF States, GoroutineOK, Current
<1> HIDE DEF next
<1> QED
  BY <1>1, <1>2, <1>4, GoroutineStep

LEMMA AnswerStep ==
  ASSUME MetricInv, NEW g \in Goroutines, Answer(g) \/ Fail(g)
  PROVE  MetricInv'
<1>1. goroutine[g].at = "waiting" /\ UNCHANGED graphs
  BY DEF Answer, Fail
<1>2. graphs \in Seq(Graph)
  BY DEF MetricInv, GraphTypes
<1>3. CASE Become(g, Idle)
  BY <1>1, <1>2, <1>3, IdleFacts, GoroutineStep
<1>4. CASE Accepted(g) /\ Become(g, [goroutine[g] EXCEPT !.at = "checked"])
  <2> DEFINE next == [goroutine[g] EXCEPT !.at = "checked"]
  <2>1. /\ ~OutOfRange(g) /\ graphs[goroutine[g].index].promql = goroutine[g].query.promql
    BY <1>4 DEF Accepted
  <2>2. /\ next \in [at : States, index : Nat, query : Query \cup {NoAnswer}]
        /\ next.at = "checked" /\ next.index = goroutine[g].index /\ next.query = goroutine[g].query
    BY IndexFacts DEF States
  <2>3. ~emptied /\ GoroutineOK(next) /\ Current(next)
    BY <1>1, <2>1, <2>2, IndexFacts DEF GoroutineOK, Current
  <2> HIDE DEF next
  <2> QED
    BY <1>1, <1>2, <1>4, <2>2, <2>3, GoroutineStep DEF next
<1> QED
  BY <1>3, <1>4 DEF Answer, Fail

\* What is written was asked for, of the graph that asked it.
LEMMA WriteQueryStep ==
  ASSUME MetricInv, NEW g \in Goroutines, WriteQuery(g)
  PROVE  MetricInv'
<1> DEFINE i == goroutine[g].index
           asked == goroutine[g].query
           next == [goroutine[g] EXCEPT !.at = "half written"]
<1>1. /\ goroutine[g].at = "checked" /\ ~OutOfRange(g) /\ Become(g, next)
      /\ graphs' = [graphs EXCEPT ![i].promql = asked.promql, ![i].range = asked.range]
  BY DEF WriteQuery
<1>2. /\ ~emptied /\ i \in DOMAIN graphs /\ graphs[i] \in Graph /\ graphs \in Seq(Graph)
      /\ asked \in Query
  BY <1>1, IndexFacts DEF GoroutineOK, MetricInv, GraphTypes
<1>3. /\ next \in [at : States, index : Nat, query : Query \cup {NoAnswer}]
      /\ next.at = "half written" /\ next.index = i /\ next.query = asked
  BY IndexFacts DEF States
<1>4. GoroutineOK(next) /\ Current(next)
  BY <1>1, <1>2, <1>3, IndexFacts DEF GoroutineOK, Current
<1> DEFINE written == [graphs[i] EXCEPT !.promql = asked.promql, !.range = asked.range]
<1>5. graphs' = [graphs EXCEPT ![i] = written]
  BY <1>1, <1>2
<1>6. written \in Graph /\ written.promql = asked.promql
  BY <1>2 DEF Graph, Query
<1> HIDE DEF written, next
<1>7. /\ graphs' \in Seq(Graph) /\ DOMAIN graphs' = DOMAIN graphs
      /\ graphs'[i] = written /\ \A j \in DOMAIN graphs \ {i} : graphs'[j] = graphs[j]
  BY <1>2, <1>5, <1>6
<1>8. ~overtaken => \A j \in DOMAIN graphs : graphs'[j].promql = graphs[j].promql
  <2>1. ~overtaken => graphs[i].promql = asked.promql
    BY <1>1, <1>2 DEF MetricInv, AnswersInv, Current
  <2> QED
    BY <1>6, <1>7, <2>1
<1> QED
  BY <1>1, <1>2, <1>3, <1>4, <1>7, <1>8, GoroutineStep

LEMMA WriteDataStep ==
  ASSUME MetricInv, NEW g \in Goroutines, WriteData(g)
  PROVE  MetricInv'
<1> DEFINE i == goroutine[g].index
           written == [graphs[i] EXCEPT !.data = goroutine[g].query]
<1>1. /\ goroutine[g].at = "half written" /\ ~OutOfRange(g) /\ Become(g, Idle)
      /\ graphs' = [graphs EXCEPT ![i].data = goroutine[g].query]
  BY DEF WriteData
<1>2. /\ ~emptied /\ i \in DOMAIN graphs /\ graphs[i] \in Graph /\ graphs \in Seq(Graph)
      /\ goroutine[g].query \in Query
  BY <1>1, IndexFacts DEF GoroutineOK, MetricInv, GraphTypes
<1>3. graphs' = [graphs EXCEPT ![i] = written]
  BY <1>1, <1>2
<1>4. written \in Graph /\ written.promql = graphs[i].promql
  BY <1>2 DEF Graph
<1> HIDE DEF written
<1>5. /\ graphs' \in Seq(Graph) /\ DOMAIN graphs' = DOMAIN graphs
      /\ graphs'[i] = written /\ \A j \in DOMAIN graphs \ {i} : graphs'[j] = graphs[j]
  BY <1>2, <1>3, <1>4
<1>6. \A j \in DOMAIN graphs : graphs'[j].promql = graphs[j].promql
  BY <1>4, <1>5
<1> QED
  BY <1>1, <1>2, <1>5, <1>6, IdleFacts, GoroutineStep

\* Every graph that there is gets a goroutine of its own.
LEMMA QueriesStep ==
  ASSUME MetricInv, StartQueries, UNCHANGED <<graphs, ui, screen, process, past>>,
         {client', spawned'} \subseteq BOOLEAN
  PROVE  MetricInv'
<1> DEFINE started(f, g) ==
      [at |-> "started", index |-> CHOOSE i \in DOMAIN f : f[i] = g, query |-> NoAnswer]
<1>1. PICK f \in Injection(1..Len(graphs), FreeGoroutines) :
        goroutine' = [g \in Goroutines |-> IF g \in Range(f) THEN started(f, g) ELSE goroutine[g]]
  BY DEF StartQueries
<1>2. Len(graphs) \in Nat /\ DOMAIN f = 1..Len(graphs)
  <2>1. graphs \in Seq(Graph)
    BY DEF MetricInv, GraphTypes
  <2>2. f \in [1..Len(graphs) -> FreeGoroutines]
    BY <1>1 DEF Injection
  <2> QED
    BY <2>1, <2>2, LenProperties
<1>3. ASSUME NEW g \in Range(f)
      PROVE  /\ started(f, g) \in [at : States, index : Nat, query : Query \cup {NoAnswer}]
             /\ started(f, g).at = "started" /\ GoroutineOK(started(f, g))
  <2>1. \E i \in DOMAIN f : f[i] = g
    BY <1>3 DEF Range
  <2>2. (CHOOSE i \in DOMAIN f : f[i] = g) \in Nat \ {0}
    BY <1>2, <2>1
  <2> QED
    BY <2>2 DEF States, GoroutineOK
<1> HIDE DEF started
<1>4. GoroutineTypes'
  BY <1>1, <1>3 DEF MetricInv, GoroutineTypes
<1>5. \A g \in Goroutines : \/ goroutine'[g] = goroutine[g]
                            \/ goroutine'[g].at = "started"
  BY <1>1, <1>3
<1>6. ScreenTypes' /\ GraphTypes'
  BY DEF MetricInv, ScreenTypes, GraphTypes, ui, screen, past
<1>7. Agree => Agree'
  BY DEF Agree, past
<1>8. \A g \in Goroutines : Current(goroutine[g]) => Current(goroutine[g])'
  BY <1>5 DEF Current
<1>9. ~Writing => ~Writing'
  BY <1>5 DEF Writing
<1>10. AnswersInv'
  BY <1>7, <1>8, <1>9 DEF MetricInv, AnswersInv, screen, past
<1> QED
  BY <1>4, <1>6, <1>10 DEF MetricInv

\* The end of the process leaves nothing.
LEMMA ExitStep ==
  ASSUME MetricInv, NEW how \in {"stopped", "panicked"}, Exit(how)
  PROVE  MetricInv'
<1>1. /\ process' = how /\ graphs' = <<>> /\ built' = <<>> /\ rebuilds' = <<>> /\ emptied' = FALSE
      /\ goroutine' = [g \in Goroutines |-> Idle] /\ spawned' = FALSE
      /\ UNCHANGED <<ui, client, overtaken>>
  BY DEF Exit
<1>2. ScreenTypes'
  BY <1>1, EmptySeq DEF MetricInv, ScreenTypes, ui
<1>3. GraphTypes'
  BY <1>1, EmptySeq DEF MetricInv, GraphTypes
<1>4. GoroutineTypes'
  BY <1>1, IdleFacts DEF GoroutineTypes
<1>5. AnswersInv'
  BY <1>1, IdleFacts DEF AnswersInv, Agree, Current
<1> QED
  BY <1>2, <1>3, <1>4, <1>5 DEF MetricInv

-----------------------------------------------------------------------------
(* The invariant, and what follows from it.                                 *)

LEMMA MetricInit == Init => MetricInv
<1> SUFFICES ASSUME Init PROVE MetricInv
  OBVIOUS
<1>1. Panels[1] \in Seq(PromQLs) /\ 1 \in DOMAIN Panels
  BY PanelFacts
<1>2. ScreenTypes
  <2>1. /\ <<>> \in Seq(PromQLs) /\ <<>> \in Seq(BOOLEAN) /\ Len(<<>>) = 0
    BY EmptySeq
  <2>2. /\ current = 1 /\ selectedPanels = <<>> /\ selectedDuration \in Durations
        /\ paused = FALSE /\ rebuilds = <<>> /\ emptied = FALSE
    BY DEF Init
  <2>3. current \in DOMAIN Panels /\ paused \in BOOLEAN
    BY <1>1, <2>2
  <2>4. selectedPanels \in Seq(PromQLs) /\ rebuilds \in Seq(BOOLEAN) /\ Len(rebuilds) = 0
    BY <2>1, <2>2
  <2> QED
    BY <2>2, <2>3, <2>4 DEF ScreenTypes
<1>3. /\ graphs \in Seq(Graph) /\ DOMAIN graphs = DOMAIN built
      /\ \A i \in DOMAIN graphs : graphs[i].promql = built[i]
  BY <1>1, FreshGraphs DEF Init
<1>4. GraphTypes
  BY <1>1, <1>3 DEF Init, GraphTypes
<1>5. GoroutineTypes
  BY IdleFacts DEF Init, GoroutineTypes
<1>6. AnswersInv
  BY <1>3, IdleFacts DEF Init, AnswersInv, Agree, Current
<1> QED
  BY <1>2, <1>4, <1>5, <1>6 DEF MetricInv

LEMMA MetricNext == MetricInv /\ [Next]_vars => MetricInv'
<1> SUFFICES ASSUME MetricInv, [Next]_vars PROVE MetricInv'
  OBVIOUS
<1>1. CASE User
  BY <1>1, UserStep
<1>2. CASE UpdateGraphs
  BY <1>2, EmptyStep, AppendStep DEF UpdateGraphs
<1>3. CASE Tick \/ UIQueries
  <2>1. /\ StartQueries /\ UNCHANGED <<graphs, ui, screen, process, past>>
        /\ {client', spawned'} \subseteq BOOLEAN
    BY <1>3 DEF Tick, UIQueries, MetricInv, GraphTypes
  <2> QED
    BY <2>1, QueriesStep
<1>4. CASE Stop
  BY <1>4, ExitStep DEF Stop
<1>5. ASSUME NEW g \in Goroutines, QueryGraph(g) \/ Fail(g)
      PROVE  MetricInv'
  <2>1. CASE IndexPanic(g)
    BY <2>1, ExitStep DEF IndexPanic
  <2> QED
    BY <1>5, <2>1, AskStep, AnswerStep, WriteQueryStep, WriteDataStep DEF QueryGraph
<1>6. CASE UNCHANGED vars
  <2>1. /\ UNCHANGED <<graphs, current, selectedPanels, selectedDuration, paused, rebuilds, emptied>>
        /\ UNCHANGED <<spawned, goroutine, client, process, built, overtaken>>
    BY <1>6 DEF vars, ui, screen, past
  <2>2. ScreenTypes' /\ GraphTypes' /\ GoroutineTypes'
    BY <2>1 DEF MetricInv, ScreenTypes, GraphTypes, GoroutineTypes
  <2>3. AnswersInv'
    BY <2>1 DEF MetricInv, AnswersInv, Agree, Current, Writing
  <2> QED
    BY <2>2, <2>3 DEF MetricInv
<1> QED
  BY <1>1, <1>2, <1>3, <1>4, <1>5, <1>6 DEF Next

LEMMA MetricInvariance == Spec => []MetricInv
BY MetricInit, MetricNext, PTL DEF Spec

\* Every variable of the metric capture keeps its type, whatever is selected.
THEOREM MetricTypes == Spec => []TypeOK
<1>1. ASSUME MetricInv PROVE TypeOK
  <2>1. /\ graphs \in Seq([promql : PromQLs, range : Durations \cup {NoAnswer},
                           data : Query \cup {NoAnswer}])
        /\ current \in DOMAIN Panels /\ selectedDuration \in Durations
        /\ \A s \in {selectedPanels, built} : s \in Seq(PromQLs)
        /\ rebuilds \in Seq(BOOLEAN) /\ Len(rebuilds) <= 2
        /\ {paused, client, emptied, spawned, overtaken} \subseteq BOOLEAN
        /\ process \in {"running", "stopped", "panicked"}
    BY <1>1 DEF MetricInv, ScreenTypes, GraphTypes, Graph
  <2>2. \A g \in Goroutines :
          /\ goroutine[g].at \in States
          /\ goroutine[g].query \in Query \cup {NoAnswer}
    BY <1>1 DEF MetricInv, GoroutineTypes
  <2> QED
    BY <2>1, <2>2 DEF TypeOK, States
<1> QED
  BY <1>1, MetricInvariance, PTL

\* Unless the slice was replaced within appendMetrics, the graphs ask what the last
\* updateGraphs built them for, whatever answers came when.
THEOREM GraphsInvariance == Spec => []GraphsAsBuilt
<1>1. ASSUME MetricInv PROVE GraphsAsBuilt
  <2>1. SUFFICES ASSUME ~overtaken, ~emptied PROVE Asked = built
    BY DEF GraphsAsBuilt
  <2>2. Agree
    BY <1>1, <2>1 DEF MetricInv, AnswersInv
  <2>3. built \in [DOMAIN built -> PromQLs]
    BY <1>1, LenProperties DEF MetricInv, GraphTypes
  <2>4. Asked = [i \in DOMAIN built |-> built[i]]
    BY <2>2 DEF Asked, Agree
  <2> QED
    BY <2>3, <2>4
<1> QED
  BY <1>1, MetricInvariance, PTL
=============================================================================
