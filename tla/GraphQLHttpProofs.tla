------------------------- MODULE GraphQLHttpProofs --------------------------
(***************************************************************************)
(* Safety of GraphQL over HTTP, for any number of requests, threads, ids   *)
(* and cancellations.                                                      *)
(***************************************************************************)
EXTENDS GraphQLHttp, TLAPS

Started == Active \cup {"launched", "done"}

(* A thread has the id of the request it serves while it serves it, and    *)
(* none otherwise.                                                         *)
ThreadHasOwnId ==
  \A th \in Threads :
    /\ serving[th] = NoRequest => mdc[th] = NoId
    /\ serving[th] # NoRequest =>
         /\ createdId[th]
         /\ mdc[th] = OwnId(serving[th])
         /\ stage[serving[th]] # "new"

(* Exactly the requests that were launched run with an id.                 *)
IdOnceLaunched ==
  \A r \in Requests : requestId[r] # NoId <=> stage[r] \in Started

(* A fetcher that runs is not counted yet.                                 *)
FetcherCounted ==
  \A r \in Requests : fetcher[r] # "idle" => fetched[r] < MaxFetchers

(* Only a disconnection cancels a coroutine, and only the cancellation of  *)
(* it or of its batch, or one of its own, makes graphQL() end with one.    *)
CancelledGone ==
  /\ cancelled \subseteq gone
  /\ \A r \in Requests : answer[r] = "cancellation" => r \in gone \cup deleted \cup SelfCancelling
  /\ CancelContained

IInv ==
  /\ TypeOK
  /\ RequestsKeepIds
  /\ ThreadHasOwnId
  /\ IdOnceLaunched
  /\ RegisteredRuns
  /\ ExecutingRegistered
  /\ CancelledGone
  /\ FetcherCounted

LEMMA InitLemma ==
  ASSUME Init
  PROVE  IInv
  BY AbsentAssumption, BoundAssumption, RequestsAssumption
     DEF Init, IInv, TypeOK, RequestsKeepIds, ThreadHasOwnId, IdOnceLaunched, RegisteredRuns,
         ExecutingRegistered, CancelledGone, FetcherCounted, CancelContained, Started, Active, RequestIds, Outcomes

LEMMA StepLemma ==
  ASSUME IInv, [Next]_vars
  PROVE  IInv'
<1> USE AbsentAssumption, BoundAssumption, RequestsAssumption
    DEF IInv, TypeOK, RequestsKeepIds, ThreadHasOwnId, IdOnceLaunched, RegisteredRuns,
        ExecutingRegistered, CancelledGone, FetcherCounted, CancelContained, Started, Active, RequestIds,
        Outcomes, OwnId, filterVars, requestVars, queryVars, cancelVars
<1>1. ASSUME NEW r \in Requests, NEW th \in Threads, NEW id \in Ids \cup {NoId}, doFilter(r, th, id)
      PROVE  IInv'
  <2> USE <1>1 DEF doFilter, createRequestId
  <2>1. TypeOK'
    OBVIOUS
  <2>2. RequestsKeepIds'
    OBVIOUS
  <2>3. ThreadHasOwnId'
    <3>1. mdc[th] = NoId
      OBVIOUS
    <3>2. (mdc[th] = NoId) = TRUE
      BY <3>1
    <3>3. createdId' = [createdId EXCEPT ![th] = TRUE]
      BY Zenon, <3>2
    <3>4. QED
      BY <3>1, <3>3
  <2>4. IdOnceLaunched'
    OBVIOUS
  <2>5. RegisteredRuns' /\ ExecutingRegistered'
    OBVIOUS
  <2>6. CancelledGone' /\ FetcherCounted'
    OBVIOUS
  <2>7. QED
    BY <2>1, <2>2, <2>3, <2>4, <2>5, <2>6
<1>2. ASSUME NEW r \in Requests, ClientGoes(r)
      PROVE  IInv'
  BY <1>2 DEF ClientGoes
<1>3. ASSUME NEW d \in Cancellations, NEW id \in RequestIds, NEW principal, cancel(d, id, principal)
      PROVE  IInv'
  BY <1>3 DEF cancel
<1>4. ASSUME NEW th \in Threads, invoke(th)
      PROVE  IInv'
  BY <1>4 DEF invoke
<1>5. ASSUME NEW th \in Threads, LeaveFilter(th)
      PROVE  IInv'
  BY <1>5 DEF LeaveFilter
<1>6. ASSUME NEW r \in Requests, Register(r)
      PROVE  IInv'
  BY <1>6 DEF Register
<1>7. ASSUME NEW r \in Requests, StartFetcher(r)
      PROVE  IInv'
  BY <1>7 DEF StartFetcher
<1>8. ASSUME NEW r \in Requests, NEW outcome \in Outcomes, EndExecution(r, outcome)
      PROVE  IInv'
  BY <1>8 DEF EndExecution
<1>9. ASSUME NEW r \in Requests, Unregister(r)
      PROVE  IInv'
  BY <1>9 DEF Unregister
<1>10. ASSUME NEW r \in Requests, executeCoroutine(r)
      PROVE  IInv'
  BY <1>10 DEF executeCoroutine
<1>11. ASSUME NEW r \in Requests, EndFetcher(r)
      PROVE  IInv'
  BY <1>11 DEF EndFetcher
<1>12. ASSUME NEW r \in Requests, Disconnect(r)
      PROVE  IInv'
  BY <1>12 DEF Disconnect
<1>13. ASSUME NEW d \in Cancellations, cancelChildren(d)
      PROVE  IInv'
  BY <1>13 DEF cancelChildren
<1>14. CASE UNCHANGED vars
  BY <1>14 DEF vars
<1> HIDE DEF IInv
<1>15. QED
  BY <1>1, <1>2, <1>3, <1>4, <1>5, <1>6, <1>7, <1>8, <1>9, <1>10, <1>11, <1>12, <1>13, <1>14
     DEF Next, ClientStep, ThreadStep, RequestStep

(* The inductive invariant holds in every behaviour.                       *)
THEOREM Invariance == Spec => []IInv
<1>1. Init => IInv
  BY InitLemma
<1>2. IInv /\ [Next]_vars => IInv'
  BY StepLemma
<1>3. QED
  BY <1>1, <1>2, PTL DEF Spec

(* Types of the state, for any number of requests and threads.             *)
THEOREM TypeCorrect == Spec => []TypeOK
<1>1. IInv => TypeOK
  BY DEF IInv
<1>2. QED
  BY <1>1, Invariance, PTL

(* No request runs under the id of another one that used its thread.       *)
THEOREM IdsKept == Spec => []RequestsKeepIds
<1>1. IInv => RequestsKeepIds
  BY DEF IInv
<1>2. QED
  BY <1>1, Invariance, PTL

(* A registered scope belongs to a request that runs under that id: DELETE *)
(* never reaches one that has ended, and no entry stays behind.            *)
THEOREM RegisteredAlive == Spec => []RegisteredRuns
<1>1. IInv => RegisteredRuns
  BY DEF IInv
<1>2. QED
  BY <1>1, Invariance, PTL

(* DELETE finds every executing request whose id is its own.               *)
THEOREM ExecutingFound == Spec => []ExecutingRegistered
<1>1. IInv => ExecutingRegistered
  BY DEF IInv
<1>2. QED
  BY <1>1, Invariance, PTL

(* Only those that were cancelled, by others or by themselves, or have     *)
(* gone, are answered with 503.                                            *)
THEOREM Contained == Spec => []CancelContained
<1>1. IInv => CancelContained
  BY DEF IInv, CancelledGone
<1>2. QED
  BY <1>1, Invariance, PTL

-----------------------------------------------------------------------------
(* What CancelledEnd rests on, but for the fairness.                       *)

(* No data fetcher goes on undisturbed in a coroutine that is cancelled,   *)
(* and one that has answered has none at all and is found under no id.     *)
EndsAreFinal ==
  /\ \A r \in cancelled : fetcher[r] # "running" /\ stage[r] \in Active \cup {"done"}
  /\ \A r \in Requests :
       /\ fetcher[r] # "idle" => stage[r] \in Active
       /\ stage[r] = "done" => \A id \in RequestIds : runningFutures[id] # r

(* Steps a coroutine has left once it is cancelled.                        *)
StepsLeft(r) ==
  (CASE stage[r] = "executing" -> 3 [] stage[r] = "finally" -> 2 [] stage[r] = "joining" -> 1 [] OTHER -> 0)
  + (IF fetcher[r] = "idle" THEN 0 ELSE 1)

(* It stays cancelled, starts no fetcher, and every step that changes how  *)
(* it stands brings it nearer to its end, whoever takes it: its own, those *)
(* of other requests, and a DELETE that finds it.                          *)
WindsDown ==
  \A r \in cancelled :
    /\ r \in cancelled'
    /\ StepsLeft(r) \in 0..4
    /\ <<stage[r], fetcher[r]>>' # <<stage[r], fetcher[r]>> => StepsLeft(r)' < StepsLeft(r)

(* The end of a request is final: its answer does not change, and nobody   *)
(* finds it any more.                                                      *)
DoneForGood ==
  \A r \in Requests :
    stage[r] = "done" => UNCHANGED <<stage[r], fetcher[r], answer[r], requestId[r]>>

LEMMA EndsInit ==
  ASSUME Init
  PROVE  EndsAreFinal
  BY DEF Init, EndsAreFinal

LEMMA EndsStep ==
  ASSUME IInv, EndsAreFinal, [Next]_vars
  PROVE  EndsAreFinal'
<1> USE AbsentAssumption
    DEF IInv, TypeOK, IdOnceLaunched, RegisteredRuns, EndsAreFinal, Active, Started,
        filterVars, requestVars, queryVars, cancelVars
<1>1. ASSUME NEW r \in Requests, NEW th \in Threads, NEW id \in Ids \cup {NoId}, doFilter(r, th, id)
      PROVE  EndsAreFinal'
  BY <1>1 DEF doFilter
<1>2. ASSUME NEW r \in Requests, ClientGoes(r)
      PROVE  EndsAreFinal'
  BY <1>2 DEF ClientGoes
<1>3. ASSUME NEW d \in Cancellations, NEW id \in RequestIds, NEW principal, cancel(d, id, principal)
      PROVE  EndsAreFinal'
  BY <1>3 DEF cancel
<1>4. ASSUME NEW th \in Threads, invoke(th)
      PROVE  EndsAreFinal'
  BY <1>4 DEF invoke
<1>5. ASSUME NEW th \in Threads, LeaveFilter(th)
      PROVE  EndsAreFinal'
  BY <1>5 DEF LeaveFilter
<1>6. ASSUME NEW r \in Requests, Register(r)
      PROVE  EndsAreFinal'
  BY <1>6 DEF Register
<1>7. ASSUME NEW r \in Requests, StartFetcher(r)
      PROVE  EndsAreFinal'
  BY <1>7 DEF StartFetcher
<1>8. ASSUME NEW r \in Requests, NEW outcome \in Outcomes, EndExecution(r, outcome)
      PROVE  EndsAreFinal'
  BY <1>8 DEF EndExecution
<1>9. ASSUME NEW r \in Requests, Unregister(r)
      PROVE  EndsAreFinal'
  BY <1>9 DEF Unregister
<1>10. ASSUME NEW r \in Requests, executeCoroutine(r)
       PROVE  EndsAreFinal'
  BY <1>10 DEF executeCoroutine
<1>11. ASSUME NEW r \in Requests, EndFetcher(r)
       PROVE  EndsAreFinal'
  BY <1>11 DEF EndFetcher
<1>12. ASSUME NEW r \in Requests, Disconnect(r)
       PROVE  EndsAreFinal'
  BY <1>12 DEF Disconnect
<1>13. ASSUME NEW d \in Cancellations, cancelChildren(d)
       PROVE  EndsAreFinal'
  BY <1>13 DEF cancelChildren
<1>14. CASE UNCHANGED vars
  BY <1>14 DEF vars
<1> HIDE DEF IInv, EndsAreFinal
<1>15. QED
  BY <1>1, <1>2, <1>3, <1>4, <1>5, <1>6, <1>7, <1>8, <1>9, <1>10, <1>11, <1>12, <1>13, <1>14
     DEF Next, ClientStep, ThreadStep, RequestStep

(* A cancelled coroutine has no fetcher that goes on, and the end of a     *)
(* request leaves nothing of it behind.                                    *)
THEOREM EndsFinal == Spec => []EndsAreFinal
<1>1. Init => EndsAreFinal
  BY EndsInit
<1>2. IInv /\ EndsAreFinal /\ [Next]_vars => EndsAreFinal'
  BY EndsStep
<1>3. QED
  BY <1>1, <1>2, Invariance, PTL DEF Spec

LEMMA WindingStep ==
  ASSUME IInv, EndsAreFinal, Next
  PROVE  WindsDown /\ DoneForGood
<1> USE AbsentAssumption
    DEF IInv, TypeOK, ThreadHasOwnId, RegisteredRuns, CancelledGone, EndsAreFinal, Active,
        WindsDown, DoneForGood, StepsLeft, filterVars, requestVars, queryVars, cancelVars
<1>1. ASSUME NEW r \in Requests, NEW th \in Threads, NEW id \in Ids \cup {NoId}, doFilter(r, th, id)
      PROVE  WindsDown /\ DoneForGood
  BY <1>1 DEF doFilter
<1>2. ASSUME NEW r \in Requests, ClientGoes(r)
      PROVE  WindsDown /\ DoneForGood
  BY <1>2 DEF ClientGoes
<1>3. ASSUME NEW d \in Cancellations, NEW id \in RequestIds, NEW principal, cancel(d, id, principal)
      PROVE  WindsDown /\ DoneForGood
  BY <1>3 DEF cancel
<1>4. ASSUME NEW th \in Threads, invoke(th)
      PROVE  WindsDown /\ DoneForGood
  BY <1>4 DEF invoke
<1>5. ASSUME NEW th \in Threads, LeaveFilter(th)
      PROVE  WindsDown /\ DoneForGood
  BY <1>5 DEF LeaveFilter
<1>6. ASSUME NEW r \in Requests, Register(r)
      PROVE  WindsDown /\ DoneForGood
  BY <1>6 DEF Register
<1>7. ASSUME NEW r \in Requests, StartFetcher(r)
      PROVE  WindsDown /\ DoneForGood
  BY <1>7 DEF StartFetcher
<1>8. ASSUME NEW r \in Requests, NEW outcome \in Outcomes, EndExecution(r, outcome)
      PROVE  WindsDown /\ DoneForGood
  BY <1>8 DEF EndExecution
<1>9. ASSUME NEW r \in Requests, Unregister(r)
      PROVE  WindsDown /\ DoneForGood
  BY <1>9 DEF Unregister
<1>10. ASSUME NEW r \in Requests, executeCoroutine(r)
       PROVE  WindsDown /\ DoneForGood
  BY <1>10 DEF executeCoroutine
<1>11. ASSUME NEW r \in Requests, EndFetcher(r)
       PROVE  WindsDown /\ DoneForGood
  BY <1>11 DEF EndFetcher
<1>12. ASSUME NEW r \in Requests, Disconnect(r)
       PROVE  WindsDown /\ DoneForGood
  BY <1>12 DEF Disconnect
<1>13. ASSUME NEW d \in Cancellations, cancelChildren(d)
       PROVE  WindsDown /\ DoneForGood
  BY <1>13 DEF cancelChildren
<1> HIDE DEF IInv, EndsAreFinal, WindsDown, DoneForGood
<1>14. QED
  BY <1>1, <1>2, <1>3, <1>4, <1>5, <1>6, <1>7, <1>8, <1>9, <1>10, <1>11, <1>12, <1>13
     DEF Next, ClientStep, ThreadStep, RequestStep

(* A coroutine that the connection callback has cancelled has at most four *)
(* steps left, and no DELETE, no other request and no fetcher adds one.    *)
(* That the callback is called is not claimed.                             *)
THEOREM CancelledWindsDown == Spec => [][WindsDown]_vars
<1>1. IInv /\ EndsAreFinal /\ [Next]_vars => [WindsDown]_vars
  BY WindingStep
<1>2. QED
  BY <1>1, Invariance, EndsFinal, PTL DEF Spec

(* What a client has been answered stands.                                 *)
THEOREM AnswersStand == Spec => [][DoneForGood]_vars
<1>1. IInv /\ EndsAreFinal /\ [Next]_vars => [DoneForGood]_vars
  BY WindingStep
<1>2. QED
  BY <1>1, Invariance, EndsFinal, PTL DEF Spec
=============================================================================
