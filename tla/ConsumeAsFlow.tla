--------------------------- MODULE ConsumeAsFlow ---------------------------
(***************************************************************************)
(* One collection of the flow ResultQuery.consumeAsFlow returns: the       *)
(* coroutine that collects, the async coroutine that runs fetchLazy, and   *)
(* the monitor that turns a cancellation of the first into a cancellation  *)
(* of the query.  jOOQ and the database are modelled by what the code      *)
(* relies on: cancel() reaches a statement that executes, and only that.   *)
(***************************************************************************)
EXTENDS Naturals

CONSTANT Rows       (* the rows of the result                              *)

ASSUME RowsAssumption == Rows \in Nat

VARIABLES
  scope,            (* the Job of the coroutineScope                       *)
  fetch,            (* the fetchJob                                        *)
  result,           (* what its await() returns                            *)
  cursor,           (* the Cursor of the database                          *)
  interrupted,      (* query.cancel() has reached the statement            *)
  monitor,          (* the monitor coroutine                               *)
  collector,        (* the coroutine that collects                         *)
  emitted,          (* rows it has emitted                                 *)
  flow,             (* the collection as a whole                           *)
  handedOver        (* history: the collector has got the cursor           *)

vars == <<scope, fetch, result, cursor, interrupted, monitor, collector, emitted, flow, handedOver>>

Init ==
  /\ scope = "active"
  /\ fetch = "dispatched"
  /\ result = "none"
  /\ cursor = "none"
  /\ interrupted = FALSE
  /\ monitor = "dispatched"
  /\ collector = "starting"
  /\ emitted = 0
  /\ flow = "collecting"
  /\ handedOver = FALSE

-----------------------------------------------------------------------------
(* The collecting job is cancelled from outside.                           *)
CancelCollection ==
  /\ flow = "collecting"
  /\ scope = "active"
  /\ scope' = "cancelled"
  /\ UNCHANGED <<fetch, result, cursor, interrupted, monitor, collector, emitted, flow, handedOver>>

-----------------------------------------------------------------------------
(* fetchJob: its block calls fetchLazy, which prepares a statement,        *)
(* executes it and returns a cursor.  A failure cancels the scope; a value *)
(* returned after the job was cancelled is discarded.                      *)

StartFetch ==
  /\ fetch = "dispatched"
  /\ fetch' = IF scope = "active" THEN "preparing" ELSE "completed"
  /\ UNCHANGED <<scope, result, cursor, interrupted, monitor, collector, emitted, flow, handedOver>>

ExecuteStatement ==
  /\ fetch = "preparing"
  /\ fetch' = "executing"
  /\ UNCHANGED <<scope, result, cursor, interrupted, monitor, collector, emitted, flow, handedOver>>

FetchReturns ==
  /\ fetch = "executing"
  /\ fetch' = "completed"
  /\ cursor' = "open"
  /\ result' = IF scope = "active" THEN "cursor" ELSE result
  /\ UNCHANGED <<scope, interrupted, monitor, collector, emitted, flow, handedOver>>

FetchThrows ==
  /\ fetch \in {"preparing", "executing"}
  /\ fetch' = "completed"
  /\ scope' = "cancelled"
  /\ UNCHANGED <<result, cursor, interrupted, monitor, collector, emitted, flow, handedOver>>

-----------------------------------------------------------------------------
(* The monitor.  delay() throws as soon as the scope is cancelled, in the  *)
(* second loop too, so the query is cancelled once.                        *)

monitorOnly ==
  UNCHANGED <<scope, fetch, result, cursor, collector, emitted, flow, handedOver>>

(* Fault: the monitor is launched without CoroutineStart.ATOMIC.           *)
FaultDefaultStart ==
  /\ monitor = "dispatched"
  /\ monitor' = IF scope = "active" THEN "watching" ELSE "done"
  /\ monitorOnly
  /\ UNCHANGED interrupted

StartMonitor ==
  /\ monitor = "dispatched"
  /\ monitor' = "watching"
  /\ monitorOnly
  /\ UNCHANGED interrupted

(* Fault: the loop ends at once.                                           *)
FaultNoWatch ==
  /\ monitor \in {"watching", "delaying"}
  /\ monitor' = "finishing"
  /\ monitorOnly
  /\ UNCHANGED interrupted

(* while (fetchJob.isActive) delay(DELAY_TIME)                             *)
WatchFetch ==
  /\ \/ /\ monitor = "watching"
        /\ monitor' = IF scope = "active" /\ fetch # "completed" THEN "delaying" ELSE "finishing"
     \/ /\ monitor = "delaying"
        /\ monitor' = IF scope = "active" THEN "watching" ELSE "finishing"
  /\ monitorOnly
  /\ UNCHANGED interrupted

CancelQuery ==
  /\ monitor = "finishing"
  /\ fetch # "completed"
  /\ interrupted' = (interrupted \/ fetch = "executing")
  /\ monitor' = "done"
  /\ monitorOnly

EndMonitor ==
  /\ monitor = "finishing"
  /\ fetch = "completed"
  /\ monitor' = "done"
  /\ monitorOnly
  /\ UNCHANGED interrupted

-----------------------------------------------------------------------------
(* The collector.  await() on a job that is complete returns its value at  *)
(* once; an await() that had to suspend throws on a cancelled scope, even  *)
(* when the value has arrived.                                             *)

collectorOnly == UNCHANGED <<fetch, result, interrupted, monitor, flow>>

Resume(to) ==
  /\ collector' = to
  /\ handedOver' = (handedOver \/ to = "iterating")
  /\ collectorOnly
  /\ UNCHANGED <<scope, cursor, emitted>>

CallAwait ==
  /\ collector = "starting"
  /\ \/ fetch # "completed" /\ Resume("awaiting")
     \/ fetch = "completed" /\ result = "cursor" /\ Resume("iterating")
     \/ fetch = "completed" /\ result = "none" /\ Resume("finished")

AwaitReturns ==
  /\ collector = "awaiting"
  /\ \/ scope = "active" /\ result = "cursor" /\ Resume("iterating")
     \/ scope = "cancelled" /\ Resume("finished")

(* Fault: the loop asks for one row more than there are.                   *)
FaultOneMoreRow ==
  /\ collector = "iterating"
  /\ scope = "active"
  /\ emitted <= Rows
  /\ emitted' = emitted + 1
  /\ collectorOnly
  /\ UNCHANGED <<scope, cursor, collector, handedOver>>

EmitRow ==
  /\ collector = "iterating"
  /\ scope = "active"
  /\ emitted < Rows
  /\ emitted' = emitted + 1
  /\ collectorOnly
  /\ UNCHANGED <<scope, cursor, collector, handedOver>>

(* The rows are exhausted, or something throws: the downstream collector,  *)
(* the cursor, or emit on a cancelled scope.                               *)
LeaveLoop ==
  /\ collector = "iterating"
  /\ \/ emitted = Rows /\ collector' = "closing"
     \/ collector' = "unwinding"
  /\ collectorOnly
  /\ UNCHANGED <<scope, cursor, emitted, handedOver>>

(* Fault: the cursor is closed after the loop, not in a finally block.     *)
FaultNoFinally ==
  /\ collector \in {"closing", "unwinding"}
  /\ collector' = "finished"
  /\ cursor' = IF collector = "closing" THEN "closed" ELSE cursor
  /\ scope' = IF collector = "unwinding" THEN "cancelled" ELSE scope
  /\ collectorOnly
  /\ UNCHANGED <<emitted, handedOver>>

(* The finally block; an exception then cancels the scope.                 *)
CloseCursor ==
  /\ collector \in {"closing", "unwinding"}
  /\ collector' = "finished"
  /\ cursor' = "closed"
  /\ scope' = IF collector = "unwinding" THEN "cancelled" ELSE scope
  /\ collectorOnly
  /\ UNCHANGED <<emitted, handedOver>>

(* coroutineScope returns when its body and its children are done.         *)
EndCollection ==
  /\ flow = "collecting"
  /\ collector = "finished"
  /\ fetch = "completed"
  /\ monitor = "done"
  /\ flow' = "done"
  /\ UNCHANGED <<scope, fetch, result, cursor, interrupted, monitor, collector, emitted, handedOver>>

Ended == flow = "done" /\ UNCHANGED vars

-----------------------------------------------------------------------------
MonitorStep == StartMonitor \/ WatchFetch \/ CancelQuery \/ EndMonitor
CollectorStep == CallAwait \/ AwaitReturns \/ EmitRow \/ LeaveLoop \/ CloseCursor
StatementEnds == FetchReturns \/ FetchThrows

Next ==
  \/ CancelCollection
  \/ StartFetch \/ ExecuteStatement \/ StatementEnds
  \/ MonitorStep
  \/ CollectorStep
  \/ EndCollection
  \/ Ended

Spec == Init /\ [][Next]_vars

(* The dispatchers run the three coroutines and a connection is got, or    *)
(* not got, in time.  A statement may run for ever, unless cancel()        *)
(* reached it.                                                             *)
Fairness ==
  /\ WF_vars(StartFetch)
  /\ WF_vars(ExecuteStatement \/ (fetch = "preparing" /\ FetchThrows))
  /\ WF_vars(interrupted /\ StatementEnds)
  /\ WF_vars(MonitorStep)
  /\ WF_vars(CollectorStep)
  /\ WF_vars(EndCollection)

FairSpec == Spec /\ Fairness

-----------------------------------------------------------------------------
(* Types of the state.                                                     *)
TypeOK ==
  /\ scope \in {"active", "cancelled"}
  /\ fetch \in {"dispatched", "preparing", "executing", "completed"}
  /\ result \in {"none", "cursor"}
  /\ cursor \in {"none", "open", "closed"}
  /\ interrupted \in BOOLEAN
  /\ monitor \in {"dispatched", "watching", "delaying", "finishing", "done"}
  /\ collector \in {"starting", "awaiting", "iterating", "closing", "unwinding", "finished"}
  /\ emitted \in 0..Rows
  /\ flow \in {"collecting", "done"}
  /\ handedOver \in BOOLEAN

(* "ensuring that the underlying cursor gets closed on completion": a      *)
(* cursor the collector has got is closed when the collection ends, rows   *)
(* left or not, and is open for as long as it is read.                     *)
HandedCursorClosed ==
  /\ collector \in {"iterating", "closing", "unwinding"} => cursor = "open"
  /\ flow = "done" /\ handedOver => cursor = "closed"

(* A query is cancelled only on behalf of a collection that has failed or  *)
(* was cancelled, however the monitor is scheduled.                        *)
NoNeedlessCancel == interrupted => scope = "cancelled"

(* "the query is cancelled when the flow consuming coroutine is            *)
(* cancelled": a statement that executes when the collection is cancelled, *)
(* and that the monitor has yet to cancel, does not hold the collection    *)
(* up, even when the monitor had not started.                              *)
ExecutingQueryCancelled ==
  scope = "cancelled" /\ fetch = "executing" /\ monitor # "done" ~> flow = "done"

-----------------------------------------------------------------------------
(* What the documentation says and the code does not do.                   *)

(* "ensuring that the underlying cursor gets closed on completion".        *)
CursorClosed == flow = "done" => cursor # "open"
=============================================================================
