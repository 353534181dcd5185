-------------------------- MODULE FlowCapture_proofs --------------------------
(* Theorems about FlowCapture, for every value of its constants.            *)
EXTENDS FlowCapture, TLAPS

\* A DaemonSet is deleted by the step after the one that ended the capture, and a
\* capture is never ended twice: why DeletedOnce is inductive.
DeletionInv ==
  /\ deletions \in {0, 1}
  /\ deletions = 1 => captureEnded
  /\ loop = "delete" => captureEnded /\ deletions = 0

\* The cluster is asked at most once to delete the agents, whatever the limits and
\* however many flows a background capture receives after it has ended.
THEOREM DeletedOnceInvariance == Spec => []DeletedOnce
<1>1. Init => DeletionInv
  BY DEF Init, DeletionInv
<1>2. DeletionInv /\ [Next]_vars => DeletionInv'
  <2> SUFFICES ASSUME DeletionInv, [Next]_vars PROVE DeletionInv'
    OBVIOUS
  <2> USE DEF DeletionInv, limits, flow, flags
  <2>1. CASE OpenOutput
    BY <2>1 DEF OpenOutput
  <2>2. CASE OpenFails
    BY <2>2 DEF OpenFails, At
  <2>3. CASE StartCollector
    BY <2>3 DEF StartCollector
  <2>4. CASE ReceiveFlow
    BY <2>4 DEF ReceiveFlow
  <2>5. CASE InsertFlow
    BY <2>5 DEF InsertFlow
  <2>6. CASE WriteFlow
    BY <2>6 DEF WriteFlow
  <2>7. CASE WriteFails
    BY <2>7 DEF WriteFails
  <2>8. CASE CheckBytes
    BY <2>8 DEF CheckBytes, OnLimitReached, At
  <2>9. CASE CheckTime
    BY <2>9 DEF CheckTime, OnLimitReached, At
  <2>10. CASE DeleteDaemonSet
    BY <2>10 DEF DeleteDaemonSet, At
  <2>11. CASE Send \/ Tick \/ RunApplication \/ PressCtrlC \/ MainReturns \/ Sigterm \/ Exit
    BY <2>11
    DEF Send, Tick, RunApplication, PressCtrlC, MainReturns, Sigterm, Exit, OutsideUnchanged
  <2>12. CASE UNCHANGED vars
    BY <2>12 DEF vars
  <2> QED
    BY <2>1, <2>2, <2>3, <2>4, <2>5, <2>6, <2>7, <2>8, <2>9, <2>10, <2>11, <2>12
    DEF Next, Loop
<1>3. DeletionInv => DeletedOnce
  BY DEF DeletionInv, DeletedOnce
<1> QED
  BY <1>1, <1>2, <1>3, PTL DEF Spec

\* Why one flow at most exceeds maxBytes with a UI: the check that follows its
\* write ends the loop, and a capture that has ended is out of the loop.
BytesInv ==
  /\ size \in 0..MaxSize /\ totalBytes \in Nat /\ maxBytes \in Nat
  /\ ~isBackground =>
       /\ totalBytes <= maxBytes + MaxSize
       /\ captureEnded => loop = "returned"
       /\ loop \notin {"bytes", "returned"} => totalBytes <= maxBytes

\* With a UI, the flow that exceeds maxBytes is the last one written.
THEOREM LimitInvariance == Spec => []OneFlowOverLimit
<1> USE CaptureAssumption DEF CaptureAssumption
<1>1. Init => BytesInv
  BY DEF Init, BytesInv
<1>2. BytesInv /\ [Next]_vars => BytesInv'
  <2> SUFFICES ASSUME BytesInv, [Next]_vars PROVE BytesInv'
    OBVIOUS
  <2> USE DEF BytesInv, limits, flow, flags
  <2>1. CASE OpenOutput
    BY <2>1 DEF OpenOutput, At, OutsideLoopUnchanged
  <2>2. CASE OpenFails
    BY <2>2 DEF OpenFails, At
  <2>3. CASE StartCollector
    BY <2>3 DEF StartCollector, At, OutsideLoopUnchanged
  <2>4. CASE ReceiveFlow
    BY <2>4 DEF ReceiveFlow, At, OutsideLoopUnchanged
  <2>5. CASE InsertFlow
    BY <2>5 DEF InsertFlow, At
  <2>6. CASE WriteFlow
    BY <2>6 DEF WriteFlow, At, OutsideLoopUnchanged
  <2>7. CASE WriteFails
    BY <2>7 DEF WriteFails, At, OutsideLoopUnchanged
  <2>8. CASE CheckBytes
    BY <2>8 DEF CheckBytes, OnLimitReached, At
  <2>9. CASE CheckTime
    BY <2>9 DEF CheckTime, OnLimitReached, At
  <2>10. CASE DeleteDaemonSet
    BY <2>10 DEF DeleteDaemonSet, At, OutsideLoopUnchanged
  <2>11. CASE Send \/ Tick \/ RunApplication \/ PressCtrlC \/ MainReturns \/ Sigterm \/ Exit
    BY <2>11
    DEF Send, Tick, RunApplication, PressCtrlC, MainReturns, Sigterm, Exit, OutsideUnchanged
  <2>12. CASE UNCHANGED vars
    BY <2>12 DEF vars
  <2> QED
    BY <2>1, <2>2, <2>3, <2>4, <2>5, <2>6, <2>7, <2>8, <2>9, <2>10, <2>11, <2>12
    DEF Next, Loop
<1>3. BytesInv => OneFlowOverLimit
  BY DEF BytesInv, OneFlowOverLimit
<1> QED
  BY <1>1, <1>2, <1>3, PTL DEF Spec

\* The variables keep their types; in particular the flowPackets channel never holds
\* more flows than it has room for, however the agents, the loop and the limits
\* interleave.
THEOREM CaptureTypes == Spec => []TypeOK
<1> USE CaptureAssumption DEF CaptureAssumption
<1>1. Init => TypeOK
  <2> SUFFICES ASSUME Init PROVE TypeOK
    OBVIOUS
  <2>1. /\ queue \in 0..QueueLength /\ size \in 0..MaxSize
        /\ totalBytes \in 0..CountBytes /\ clock \in 0..(MaxTime + 1)
        /\ deletions \in 0..2
    BY DEF Init
  <2>2. {stopReceived, captureEnded, agents} \subseteq BOOLEAN
    BY Zenon DEF Init
  <2> QED
    BY <2>1, <2>2 DEF Init, TypeOK
<1>2. TypeOK /\ [Next]_vars => TypeOK'
  <2> SUFFICES ASSUME TypeOK, [Next]_vars PROVE TypeOK'
    OBVIOUS
  <2> USE DEF TypeOK, limits, flow, flags
  <2>1. CASE OpenOutput
    BY <2>1 DEF OpenOutput, OutsideLoopUnchanged
  <2>2. CASE OpenFails
    BY <2>2 DEF OpenFails
  <2>3. CASE StartCollector
    BY <2>3 DEF StartCollector, OutsideLoopUnchanged
  <2>4. CASE ReceiveFlow
    BY <2>4 DEF ReceiveFlow, OutsideLoopUnchanged
  <2>5. CASE InsertFlow
    BY <2>5 DEF InsertFlow
  <2>6. CASE WriteFlow
    BY <2>6 DEF WriteFlow, OutsideLoopUnchanged
  <2>7. CASE WriteFails
    BY <2>7 DEF WriteFails, OutsideLoopUnchanged
  <2>8. CASE CheckBytes
    BY <2>8 DEF CheckBytes, OnLimitReached
  <2>9. CASE CheckTime
    BY <2>9 DEF CheckTime, OnLimitReached
  <2>10. CASE DeleteDaemonSet
    <3>1. deletions' \in 0..2
      BY <2>10 DEF DeleteDaemonSet
    <3>2. agents' \in BOOLEAN
      BY <2>10 DEF DeleteDaemonSet
    <3>3. loop' = "time" /\ UNCHANGED <<db, flow, totalBytes, captureEnded>>
      BY <2>10 DEF DeleteDaemonSet
    <3>4. UNCHANGED <<flags, process, main, clock, stopReceived>>
      BY <2>10 DEF DeleteDaemonSet, OutsideLoopUnchanged
    <3> QED
      BY <3>1, <3>2, <3>3, <3>4
  <2>11. CASE Send
    BY <2>11 DEF Send, OutsideUnchanged
  <2>12. CASE Tick
    BY <2>12 DEF Tick, OutsideUnchanged
  <2>13. CASE RunApplication \/ PressCtrlC \/ MainReturns \/ Sigterm \/ Exit
    BY <2>13 DEF RunApplication, PressCtrlC, MainReturns, Sigterm, Exit, OutsideUnchanged
  <2>14. CASE UNCHANGED vars
    BY <2>14 DEF vars
  <2> QED
    BY <2>1, <2>2, <2>3, <2>4, <2>5, <2>6, <2>7, <2>8, <2>9, <2>10, <2>11, <2>12,
       <2>13, <2>14
    DEF Next, Loop
<1> QED
  BY <1>1, <1>2, PTL DEF Spec
=============================================================================
