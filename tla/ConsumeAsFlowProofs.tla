------------------------ MODULE ConsumeAsFlowProofs ------------------------
(***************************************************************************)
(* Safety of a collection of consumeAsFlow, for every number of rows: the  *)
(* cursor that is handed over is open while it is read and closed in the   *)
(* end, and only a cancelled or failed collection cancels its query.       *)
(***************************************************************************)
EXTENDS ConsumeAsFlow, TLAPS

(* The cursor exists from the moment the fetch has completed with it, and  *)
(* nobody but the collector, once it has got it, closes it.                *)
CursorOwned ==
  /\ cursor # "none" => fetch = "completed"
  /\ result = "cursor" => cursor # "none"
  /\ cursor = "closed" => handedOver
  /\ handedOver => result = "cursor" /\ collector \notin {"starting", "awaiting"}
  /\ collector \in {"iterating", "closing", "unwinding"} => handedOver

(* The monitor leaves its first loop when the fetch is complete or the     *)
(* collection cancelled.                                                   *)
MonitorLeft == monitor = "finishing" => scope = "cancelled" \/ fetch = "completed"

(* A collection that has got the cursor is over when it is closed, and not *)
(* before the collector is.                                                *)
CollectorLeft ==
  /\ collector = "finished" /\ handedOver => cursor = "closed"
  /\ flow = "done" => collector = "finished"

IInv ==
  /\ TypeOK
  /\ HandedCursorClosed
  /\ NoNeedlessCancel
  /\ CursorOwned
  /\ MonitorLeft
  /\ CollectorLeft

LEMMA InitLemma ==
  ASSUME Init
  PROVE  IInv
<1>1. /\ interrupted \in BOOLEAN /\ ~interrupted
      /\ handedOver \in BOOLEAN /\ ~handedOver
  BY Zenon DEF Init
<1>2. QED
  BY <1>1, RowsAssumption
     DEF Init, IInv, TypeOK, HandedCursorClosed, NoNeedlessCancel, CursorOwned, MonitorLeft,
         CollectorLeft

LEMMA StepLemma ==
  ASSUME IInv, [Next]_vars
  PROVE  IInv'
<1> USE RowsAssumption
    DEF IInv, TypeOK, HandedCursorClosed, NoNeedlessCancel, CursorOwned, MonitorLeft, CollectorLeft
<1>1. CASE CancelCollection
  BY <1>1 DEF CancelCollection
<1>2. CASE StartFetch
  BY <1>2 DEF StartFetch
<1>3. CASE ExecuteStatement
  BY <1>3 DEF ExecuteStatement
<1>4. CASE FetchReturns
  BY <1>4 DEF FetchReturns
<1>5. CASE FetchThrows
  BY <1>5 DEF FetchThrows
<1>6. CASE StartMonitor
  BY <1>6 DEF StartMonitor, monitorOnly
<1>7. CASE WatchFetch
  BY <1>7 DEF WatchFetch, monitorOnly
<1>8. CASE CancelQuery
  BY <1>8 DEF CancelQuery, monitorOnly
<1>9. CASE EndMonitor
  BY <1>9 DEF EndMonitor, monitorOnly
<1>10. CASE CallAwait
  <2>1. CASE fetch # "completed" /\ Resume("awaiting")
    <3>1. handedOver' \in BOOLEAN /\ (handedOver' <=> handedOver)
      BY Zenon, <2>1 DEF Resume
    <3>2. QED
      BY <1>10, <2>1, <3>1 DEF CallAwait, Resume, collectorOnly
  <2>2. CASE result = "cursor" /\ Resume("iterating")
    <3>1. handedOver' \in BOOLEAN /\ handedOver'
      BY Zenon, <2>2 DEF Resume
    <3>2. QED
      BY <1>10, <2>2, <3>1 DEF CallAwait, Resume, collectorOnly
  <2>3. CASE Resume("finished")
    <3>1. handedOver' \in BOOLEAN /\ (handedOver' <=> handedOver)
      BY Zenon, <2>3 DEF Resume
    <3>2. QED
      BY <1>10, <2>3, <3>1 DEF CallAwait, Resume, collectorOnly
  <2>4. QED
    BY <1>10, <2>1, <2>2, <2>3 DEF CallAwait
<1>11. CASE AwaitReturns
  <2>1. CASE result = "cursor" /\ Resume("iterating")
    <3>1. handedOver' \in BOOLEAN /\ handedOver'
      BY Zenon, <2>1 DEF Resume
    <3>2. QED
      BY <1>11, <2>1, <3>1 DEF AwaitReturns, Resume, collectorOnly
  <2>2. CASE Resume("finished")
    <3>1. handedOver' \in BOOLEAN /\ (handedOver' <=> handedOver)
      BY Zenon, <2>2 DEF Resume
    <3>2. QED
      BY <1>11, <2>2, <3>1 DEF AwaitReturns, Resume, collectorOnly
  <2>3. QED
    BY <1>11, <2>1, <2>2 DEF AwaitReturns
<1>12. CASE EmitRow
  BY <1>12 DEF EmitRow, collectorOnly
<1>13. CASE LeaveLoop
  BY <1>13 DEF LeaveLoop, collectorOnly
<1>14. CASE CloseCursor
  BY <1>14 DEF CloseCursor, collectorOnly
<1>15. CASE EndCollection
  BY <1>15 DEF EndCollection
<1>16. CASE UNCHANGED vars
  BY <1>16 DEF vars
<1>17. QED
  BY <1>1, <1>2, <1>3, <1>4, <1>5, <1>6, <1>7, <1>8, <1>9, <1>10, <1>11, <1>12, <1>13, <1>14, <1>15, <1>16
     DEF Next, StatementEnds, MonitorStep, CollectorStep, Ended

(* The inductive invariant holds in every behaviour.                       *)
THEOREM Invariance == Spec => []IInv
<1>1. Init => IInv
  BY InitLemma
<1>2. IInv /\ [Next]_vars => IInv'
  BY StepLemma
<1>3. QED
  BY <1>1, <1>2, PTL DEF Spec

(* Types of the state, for a result of any size.                           *)
THEOREM TypeCorrect == Spec => []TypeOK
<1>1. IInv => TypeOK
  BY DEF IInv
<1>2. QED
  BY <1>1, Invariance, PTL

(* A cursor that the collector has got is open while it is read and closed *)
(* when the collection ends, whatever ends it.                             *)
THEOREM CursorSafe == Spec => []HandedCursorClosed
<1>1. IInv => HandedCursorClosed
  BY DEF IInv
<1>2. QED
  BY <1>1, Invariance, PTL

(* The monitor never cancels the query of a collection that goes on.       *)
THEOREM QueryUndisturbed == Spec => []NoNeedlessCancel
<1>1. IInv => NoNeedlessCancel
  BY DEF IInv
<1>2. QED
  BY <1>1, Invariance, PTL

-----------------------------------------------------------------------------
(* What ExecutingQueryCancelled rests on, but for the fairness.            *)

(* Steps that are left to a collection once its scope is cancelled.        *)
StepsLeft ==
  (CASE fetch = "dispatched" -> 3 [] fetch = "preparing" -> 2 [] fetch = "executing" -> 1 [] OTHER -> 0)
  + (CASE monitor = "dispatched" -> 3 [] monitor \in {"watching", "delaying"} -> 2
       [] monitor = "finishing" -> 1 [] OTHER -> 0)
  + (CASE collector = "starting" -> 4 [] collector = "awaiting" -> 3 [] collector = "iterating" -> 2
       [] collector \in {"closing", "unwinding"} -> 1 [] OTHER -> 0)
  + (IF flow = "collecting" THEN 1 ELSE 0)

(* A cancelled collection stays cancelled, and whatever it still does      *)
(* brings it nearer to its end: it reads no row, does not wait for another *)
(* poll of the monitor and takes eleven steps at most.                     *)
WindsDown ==
  scope = "cancelled" =>
    scope' = "cancelled" /\ emitted' = emitted /\ StepsLeft \in 1..11 /\ StepsLeft' < StepsLeft

(* A statement that runs for a cancelled collection, and that the monitor  *)
(* has yet to cancel or has cancelled.                                     *)
ToBeInterrupted ==
  scope = "cancelled" /\ fetch = "executing" /\ (monitor # "done" \/ interrupted)

(* The monitor does not miss it: it is cancelled unless it ends before.    *)
Interrupts == ToBeInterrupted => ToBeInterrupted' \/ fetch' = "completed"

(* Both read in every step that changes something.                         *)
LEMMA WindingStep ==
  ASSUME IInv, Next, vars' # vars
  PROVE  WindsDown /\ Interrupts
<1> SUFFICES ASSUME scope = "cancelled"
             PROVE  WindsDown /\ Interrupts
  BY DEF WindsDown, Interrupts, ToBeInterrupted
<1> USE DEF IInv, TypeOK, WindsDown, Interrupts, ToBeInterrupted, StepsLeft
<1>1. CASE CancelCollection
  BY <1>1 DEF CancelCollection
<1>2. CASE StartFetch
  BY <1>2 DEF StartFetch
<1>3. CASE ExecuteStatement
  BY <1>3 DEF ExecuteStatement
<1>4. CASE FetchReturns
  BY <1>4 DEF FetchReturns
<1>5. CASE FetchThrows
  BY <1>5 DEF FetchThrows
<1>6. CASE StartMonitor
  BY <1>6 DEF StartMonitor, monitorOnly
<1>7. CASE WatchFetch
  BY <1>7 DEF WatchFetch, monitorOnly
<1>8. CASE CancelQuery
  <2>1. fetch = "executing" => interrupted'
    BY Zenon, <1>8 DEF CancelQuery
  <2>2. WindsDown
    BY <1>8 DEF CancelQuery, monitorOnly
  <2>3. Interrupts
    BY <1>8, <2>1 DEF CancelQuery, monitorOnly
  <2>4. QED
    BY <2>2, <2>3
<1>9. CASE EndMonitor
  BY <1>9 DEF EndMonitor, monitorOnly
<1>10. CASE CallAwait
  BY <1>10 DEF CallAwait, Resume, collectorOnly
<1>11. CASE AwaitReturns
  BY <1>11 DEF AwaitReturns, Resume, collectorOnly
<1>12. CASE EmitRow
  BY <1>12 DEF EmitRow
<1>13. CASE LeaveLoop
  BY <1>13 DEF LeaveLoop, collectorOnly
<1>14. CASE CloseCursor
  BY <1>14 DEF CloseCursor, collectorOnly
<1>15. CASE EndCollection
  BY <1>15 DEF EndCollection
<1>16. CASE Ended
  BY <1>16 DEF Ended
<1>17. QED
  BY <1>1, <1>2, <1>3, <1>4, <1>5, <1>6, <1>7, <1>8, <1>9, <1>10, <1>11, <1>12, <1>13, <1>14, <1>15, <1>16
     DEF Next, StatementEnds, MonitorStep, CollectorStep

(* A cancelled collection has few steps left, whatever the schedule of the *)
(* three coroutines.                                                       *)
THEOREM CollectionWindsDown == Spec => [][WindsDown]_vars
<1>1. IInv /\ [Next]_vars => [WindsDown]_vars
  BY WindingStep
<1>2. QED
  BY <1>1, Invariance, PTL DEF Spec

(* The monitor never leaves the statement of a cancelled collection to run: *)
(* it is interrupted or ends by itself.                                    *)
THEOREM StatementInterrupted == Spec => [][Interrupts]_vars
<1>1. IInv /\ [Next]_vars => [Interrupts]_vars
  BY WindingStep
<1>2. QED
  BY <1>1, Invariance, PTL DEF Spec
=============================================================================
