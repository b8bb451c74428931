---------------------------- MODULE GraphQLHttp -----------------------------
(***************************************************************************)
(* GraphQL over HTTP: a POST passes RequestIdFilter on a servlet thread,   *)
(* CoroutineInvocationHandler suspends it and launches a coroutine, and    *)
(* GraphQLResource.graphQL runs the query there, in a scope registered     *)
(* under the request's id, unless a DELETE, or jersey's callback for a     *)
(* lost connection, cancels it.                                            *)
(***************************************************************************)
EXTENDS Naturals

CONSTANTS
  Requests,           (* the POST requests                                 *)
  Batches,            (* those that carry a batch of queries               *)
  SelfCancelling,     (* those whose execution may throw what has a        *)
                      (* CancellationException among its causes, though    *)
                      (* nobody cancelled it                               *)
  Threads,            (* the servlet threads                               *)
  Ids,                (* the ids clients put into X-Request-Id             *)
  Cancellations,      (* the DELETE requests served at a time              *)
  NoRequest, NoId,
  MaxFetchers,        (* bound: data fetchers a query runs                 *)
  CheckAuthorization  (* graphQLConfig.checkAuthorization                  *)

ASSUME RequestsAssumption == Batches \subseteq Requests /\ SelfCancelling \subseteq Requests
ASSUME AbsentAssumption ==
  NoRequest \notin Requests /\ NoId \notin Ids \cup Requests /\ Ids \cap Requests = {}
ASSUME BoundAssumption == MaxFetchers \in Nat
ASSUME AuthorizationAssumption == CheckAuthorization \in BOOLEAN

(* The random UUID of a request without a usable header is its own name.   *)
RequestIds == Ids \cup Requests

VARIABLES
  mdc,              (* the RequestId in the MDC of each thread             *)
  serving,          (* the request each thread is serving                  *)
  createdId,        (* whether its filter has put the id there             *)
  stage,            (* where each request stands                           *)
  header,           (* its X-Request-Id, NoId for none or an invalid one   *)
  requestId,        (* the id its coroutine runs with                      *)
  runningFutures,   (* the scope registered under each id                  *)
  fetcher,          (* the data fetcher a request has running              *)
  fetched,          (* data fetchers it has run                            *)
  answer,           (* what graphQL() comes to, and the client is sent     *)
  gone,             (* the requests whose client has gone away             *)
  cancelled,        (* the coroutines cancelled on a disconnection         *)
  deleted,          (* the batches whose executions DELETE has cancelled   *)
  running           (* what each DELETE has found                          *)

filterVars == <<mdc, serving, createdId>>
requestVars == <<stage, header, requestId>>
queryVars == <<fetcher, fetched, answer>>
cancelVars == <<gone, cancelled, deleted, running>>

vars == <<filterVars, requestVars, runningFutures, queryVars, cancelVars>>

Init ==
  /\ mdc = [th \in Threads |-> NoId]
  /\ serving = [th \in Threads |-> NoRequest]
  /\ createdId = [th \in Threads |-> FALSE]
  /\ stage = [r \in Requests |-> "new"]
  /\ header = [r \in Requests |-> NoId]
  /\ requestId = [r \in Requests |-> NoId]
  /\ runningFutures = [id \in RequestIds |-> NoRequest]
  /\ fetcher = [r \in Requests |-> "idle"]
  /\ fetched = [r \in Requests |-> 0]
  /\ answer = [r \in Requests |-> "none"]
  /\ gone = {}
  /\ cancelled = {}
  /\ deleted = {}
  /\ running = [d \in Cancellations |-> NoRequest]

-----------------------------------------------------------------------------
(* RequestIdFilter.doFilter.  A thread that already has an id keeps it.    *)

createRequestId(th, id) ==
  /\ mdc' = [mdc EXCEPT ![th] = IF @ = NoId THEN id ELSE @]
  /\ createdId' = [createdId EXCEPT ![th] = mdc[th] = NoId]

doFilter(r, th, id) ==
  /\ serving[th] = NoRequest
  /\ stage[r] = "new"
  /\ serving' = [serving EXCEPT ![th] = r]
  /\ stage' = [stage EXCEPT ![r] = "filtered"]
  /\ header' = [header EXCEPT ![r] = id]
  /\ createRequestId(th, IF id = NoId THEN r ELSE id)
  /\ UNCHANGED <<requestId, runningFutures, queryVars, cancelVars>>

(* CoroutineInvocationHandler.invoke: the request is suspended, and its    *)
(* coroutine gets a copy of the MDC.                                       *)
invoke(th) ==
  LET r == serving[th] IN
  /\ r # NoRequest
  /\ stage[r] = "filtered"
  /\ stage' = [stage EXCEPT ![r] = "launched"]
  /\ requestId' = [requestId EXCEPT ![r] = mdc[th]]
  /\ UNCHANGED <<filterVars, header, runningFutures, queryVars, cancelVars>>

(* Fault: the id is cleared when the chain returns, not when it throws.    *)
FaultClearedOnReturn(th) ==
  /\ serving[th] # NoRequest
  /\ serving' = [serving EXCEPT ![th] = NoRequest]
  /\ mdc' = [mdc EXCEPT ![th] = IF stage[serving[th]] # "filtered" THEN NoId ELSE @]
  /\ stage' = [stage EXCEPT ![serving[th]] = IF @ = "filtered" THEN "rejected" ELSE @]
  /\ UNCHANGED <<createdId, header, requestId, runningFutures, queryVars, cancelVars>>

(* The chain returns, or throws before the resource method is invoked.     *)
LeaveFilter(th) ==
  /\ serving[th] # NoRequest
  /\ serving' = [serving EXCEPT ![th] = NoRequest]
  /\ mdc' = [mdc EXCEPT ![th] = IF createdId[th] THEN NoId ELSE @]
  /\ stage' = [stage EXCEPT ![serving[th]] = IF @ = "filtered" THEN "rejected" ELSE @]
  /\ UNCHANGED <<createdId, header, requestId, runningFutures, queryVars, cancelVars>>

-----------------------------------------------------------------------------
(* GraphQLResource.graphQL, in its supervisorScope.                        *)

Register(r) ==
  /\ stage[r] = "launched"
  /\ stage' = [stage EXCEPT ![r] = "executing"]
  /\ runningFutures' = [runningFutures EXCEPT ![requestId[r]] = r]
  /\ UNCHANGED <<filterVars, header, requestId, queryVars, cancelVars>>

(* executeRequest runs one data fetcher after the other as children of the *)
(* scope; cancelling the children leaves the scope itself active.          *)
StartFetcher(r) ==
  /\ stage[r] = "executing"
  /\ fetcher[r] = "idle"
  /\ fetched[r] < MaxFetchers
  /\ r \notin cancelled
  /\ fetcher' = [fetcher EXCEPT ![r] = "running"]
  /\ UNCHANGED <<filterVars, requestVars, runningFutures, fetched, answer, cancelVars>>

EndFetcher(r) ==
  /\ fetcher[r] # "idle"
  /\ fetcher' = [fetcher EXCEPT ![r] = "idle"]
  /\ fetched' = [fetched EXCEPT ![r] = @ + 1]
  /\ UNCHANGED <<filterVars, requestVars, runningFutures, answer, cancelVars>>

Outcomes == {"response", "error", "cancellation"}

(* executeRequest returns a response, with what was cancelled as errors,   *)
(* or throws: something went wrong outside the fetchers, the coroutine is  *)
(* cancelled, or the children were while a batch was among them.           *)
EndExecution(r, outcome) ==
  /\ stage[r] = "executing"
  /\ \/ outcome = "response" /\ fetcher[r] = "idle" /\ r \notin cancelled
     \/ outcome = "error" /\ fetcher[r] = "idle"
     \/ outcome = "cancellation" /\ r \in cancelled \cup deleted \cup SelfCancelling
  /\ answer' = [answer EXCEPT ![r] = outcome]
  /\ stage' = [stage EXCEPT ![r] = "finally"]
  /\ UNCHANGED <<filterVars, header, requestId, runningFutures, fetcher, fetched, cancelVars>>

(* Fault: an exception skips the removal.                                  *)
FaultNoFinally(r) ==
  /\ stage[r] = "finally"
  /\ stage' = [stage EXCEPT ![r] = "joining"]
  /\ runningFutures' =
       [runningFutures EXCEPT ![requestId[r]] = IF answer[r] = "response" THEN NoRequest ELSE @]
  /\ UNCHANGED <<filterVars, header, requestId, queryVars, cancelVars>>

(* The finally block removes whatever the id leads to.                     *)
Unregister(r) ==
  /\ stage[r] = "finally"
  /\ stage' = [stage EXCEPT ![r] = "joining"]
  /\ runningFutures' = [runningFutures EXCEPT ![requestId[r]] = NoRequest]
  /\ UNCHANGED <<filterVars, header, requestId, queryVars, cancelVars>>

(* executeCoroutine, once the scope has waited for its children:           *)
(* asyncContext.resume, or cancel where a CancellationException is among   *)
(* the causes of what was thrown, which the client sees as a 503.          *)
executeCoroutine(r) ==
  /\ stage[r] = "joining"
  /\ fetcher[r] = "idle"
  /\ stage' = [stage EXCEPT ![r] = "done"]
  /\ answer' =
       [answer EXCEPT ![r] = IF r \in cancelled \/ @ = "cancellation" THEN "unavailable" ELSE @]
  /\ UNCHANGED <<filterVars, header, requestId, runningFutures, fetcher, fetched, cancelVars>>

-----------------------------------------------------------------------------
(* Two ways to cancel.                                                     *)

ClientGoes(r) ==
  /\ stage[r] \in {"launched", "executing", "finally", "joining"}
  /\ gone' = gone \cup {r}
  /\ UNCHANGED <<filterVars, requestVars, runningFutures, queryVars, cancelled, deleted, running>>

Active == {"executing", "finally", "joining"}

(* Fault: the callback cancels the scope of the handler, which all         *)
(* requests for the method share.                                          *)
FaultSharedScope(r) ==
  /\ r \in gone \ cancelled
  /\ stage[r] \in Active
  /\ cancelled' = cancelled \cup {q \in Requests : stage[q] \in Active}
  /\ fetcher' = [q \in Requests |-> IF fetcher[q] = "running" THEN "cancelled" ELSE fetcher[q]]
  /\ UNCHANGED <<filterVars, requestVars, runningFutures, fetched, answer, gone, deleted, running>>

(* Fault: the fetchers are no children of the coroutine.                   *)
FaultDetached(r) ==
  /\ r \in gone \ cancelled
  /\ stage[r] \in Active
  /\ cancelled' = cancelled \cup {r}
  /\ UNCHANGED <<filterVars, requestVars, runningFutures, queryVars, gone, deleted, running>>

(* Fault: the callback cancels what is registered under the id.            *)
FaultCancelById(r) ==
  /\ r \in gone \ cancelled
  /\ stage[r] \in Active
  /\ cancelled' = cancelled \cup {runningFutures[requestId[r]]}
  /\ UNCHANGED <<filterVars, requestVars, runningFutures, queryVars, gone, deleted, running>>

(* The ConnectionCallback cancels the coroutine with its children, if it   *)
(* is ever called: jersey calls it when writing the response fails.        *)
Disconnect(r) ==
  /\ r \in gone \ cancelled
  /\ stage[r] \in Active
  /\ cancelled' = cancelled \cup {r}
  /\ fetcher' = [fetcher EXCEPT ![r] = IF @ = "running" THEN "cancelled" ELSE @]
  /\ UNCHANGED <<filterVars, requestVars, runningFutures, fetched, answer, gone, deleted, running>>

(* Fault: the scope is removed by whoever cancels it.                      *)
FaultLookupRemoves(d, id, principal) ==
  /\ running[d] = NoRequest
  /\ principal = "user" \/ ~CheckAuthorization
  /\ running' = [running EXCEPT ![d] = runningFutures[id]]
  /\ runningFutures' = [runningFutures EXCEPT ![id] = NoRequest]
  /\ UNCHANGED <<filterVars, requestVars, queryVars, gone, cancelled, deleted>>

(* DELETE looks the scope up, and then cancels its children.               *)
cancel(d, id, principal) ==
  /\ running[d] = NoRequest
  /\ principal = "user" \/ ~CheckAuthorization
  /\ running' = [running EXCEPT ![d] = runningFutures[id]]
  /\ UNCHANGED <<filterVars, requestVars, runningFutures, queryVars, gone, cancelled, deleted>>

(* Fault: the data fetchers are no children of the registered scope.       *)
FaultOutsideScope(d) ==
  LET r == running[d] IN
  /\ r # NoRequest
  /\ deleted' = deleted \cup ({r} \cap {q \in Batches : stage[q] = "executing"})
  /\ running' = [running EXCEPT ![d] = NoRequest]
  /\ UNCHANGED <<filterVars, requestVars, runningFutures, queryVars, gone, cancelled>>

cancelChildren(d) ==
  LET r == running[d] IN
  /\ r # NoRequest
  /\ fetcher' = [fetcher EXCEPT ![r] = IF @ = "running" THEN "cancelled" ELSE @]
  /\ deleted' = deleted \cup ({r} \cap {q \in Batches : stage[q] = "executing"})
  /\ running' = [running EXCEPT ![d] = NoRequest]
  /\ UNCHANGED <<filterVars, requestVars, runningFutures, fetched, answer, gone, cancelled>>

-----------------------------------------------------------------------------
ThreadStep(th) == invoke(th) \/ LeaveFilter(th)

RequestStep(r) ==
  \/ Register(r) \/ StartFetcher(r) \/ Unregister(r) \/ executeCoroutine(r)
  \/ \E outcome \in Outcomes : EndExecution(r, outcome)

ClientStep ==
  \/ \E r \in Requests, th \in Threads, id \in Ids \cup {NoId} : doFilter(r, th, id)
  \/ \E r \in Requests : ClientGoes(r)
  \/ \E d \in Cancellations, id \in RequestIds, principal \in {"user", "anonymous"} :
       cancel(d, id, principal)

Next ==
  \/ ClientStep
  \/ \E th \in Threads : ThreadStep(th)
  \/ \E r \in Requests : RequestStep(r) \/ EndFetcher(r) \/ Disconnect(r)
  \/ \E d \in Cancellations : cancelChildren(d)

Spec == Init /\ [][Next]_vars

(* A coroutine runs when it can, the thread of a DELETE does what it has   *)
(* begun, and a fetcher ends when it is cancelled.  One that is not may    *)
(* run for ever.  A suspended POST writes nothing, so that the loss of its *)
(* client need never be noticed.                                           *)
Fairness ==
  /\ \A r \in Requests :
       WF_vars(RequestStep(r)) /\ WF_vars(fetcher[r] = "cancelled" /\ EndFetcher(r))
  /\ \A d \in Cancellations : WF_vars(cancelChildren(d))

FairSpec == Spec /\ Fairness

-----------------------------------------------------------------------------
(* Types of the state.                                                     *)
TypeOK ==
  /\ mdc \in [Threads -> RequestIds \cup {NoId}]
  /\ serving \in [Threads -> Requests \cup {NoRequest}]
  /\ createdId \in [Threads -> BOOLEAN]
  /\ stage \in [Requests -> Active \cup {"new", "filtered", "rejected", "launched", "done"}]
  /\ header \in [Requests -> Ids \cup {NoId}]
  /\ requestId \in [Requests -> RequestIds \cup {NoId}]
  /\ runningFutures \in [RequestIds -> Requests \cup {NoRequest}]
  /\ fetcher \in [Requests -> {"idle", "running", "cancelled"}]
  /\ fetched \in [Requests -> 0..MaxFetchers]
  /\ answer \in [Requests -> Outcomes \cup {"unavailable", "none"}]
  /\ gone \subseteq Requests
  /\ cancelled \subseteq Requests
  /\ deleted \subseteq Batches
  /\ running \in [Cancellations -> Requests \cup {NoRequest}]

OwnId(r) == IF header[r] = NoId THEN r ELSE header[r]

(* The id a query runs under, and can be cancelled by, is the one its own  *)
(* client was told, on whatever threads it runs.                           *)
RequestsKeepIds ==
  \A r \in Requests :
    requestId[r] # NoId => requestId[r] = OwnId(r)

(* A DELETE finds running requests only, and no scope stays registered     *)
(* after its request has ended, even when requests share an id.            *)
RegisteredRuns ==
  \A id \in RequestIds :
    runningFutures[id] # NoRequest
      => /\ stage[runningFutures[id]] \in {"executing", "finally"}
         /\ requestId[runningFutures[id]] = id

(* A query that is executing is found under its id, unless another request *)
(* has come with the same one.                                             *)
ExecutingRegistered ==
  \A r \in Requests :
    stage[r] = "executing" /\ (\A q \in Requests \ {r} : requestId[q] # requestId[r])
      => runningFutures[requestId[r]] = r

(* Cancellation is contained: unless its own execution threw one, a client *)
(* is told 503 only when it has gone itself or its own batch was cancelled *)
(* by DELETE.                                                              *)
CancelContained ==
  \A r \in Requests :
    answer[r] = "unavailable" => r \in gone \cup deleted \cup SelfCancelling

(* What a cancellation reaches ends, although it would run for ever: the   *)
(* data fetcher that a DELETE finds at work, and the coroutine that the    *)
(* callback has cancelled, whose scope is registered no longer.            *)
CancelledEnd ==
  /\ \A d \in Cancellations, r \in Requests :
       running[d] = r /\ fetcher[r] = "running" ~> fetcher[r] = "idle"
  /\ \A r \in Requests :
       r \in cancelled ~> stage[r] = "done" /\ \A id \in RequestIds : runningFutures[id] # r
=============================================================================
