--------------------- MODULE GraphQLWebSocketRefinement ---------------------
(***************************************************************************)
(* GraphQLWebSocket implements QueryLifecycle, for every value of the      *)
(* constants: each step of a connection is a step that QueryLifecycle      *)
(* allows, or leaves what a client can see of its queries alone.           *)
(*                                                                         *)
(* Then the safety that the liveness of a connection rests on: what is     *)
(* owed to the client is always on its way, and a cancelled connection     *)
(* only winds down.  Last, that what a client is sent answers what it      *)
(* asked for.                                                              *)
(***************************************************************************)
EXTENDS GraphQLWebSocketLifecycle, GraphQLWebSocketSafety

(* Only started queries are cancelled, and all others hold their id.       *)
CancelledStarted ==
  /\ \A n \in Frames : n \in cancelled => job[n] # "none"
  /\ \A n \in Frames : job[n] # "none" /\ n \notin cancelled => Holds(n)

(* An id is held by a started query with that id.                          *)
HoldersStarted ==
  \A n \in Frames, id \in Ids : queries[id] = n => job[n] # "none" /\ frameMsg[n].id = id

(* As long as the scope is active, cancel() is called on the queries that  *)
(* have given their id back, and on no other.                              *)
CancelledGaveBack ==
  scope = "active" => \A n \in Frames : n \in cancelled => ~Holds(n)

(* A cancelled query is not suspended in send.                             *)
CancelledWithdrawn == \A n \in Frames : n \in cancelled => job[n] # "sending"

(* Once the scope is cancelled the consumer finishes with its message.     *)
ConsumerEnds == scope = "cancelled" /\ consumer = "consuming" => current # NoOffer

Current(n) == current.kind = "query" /\ current.n = n

(* A cancelled query has one message on its way at most: the one it was    *)
(* about to hand over, or the one the consumer handles.                    *)
OneOnItsWay ==
  scope = "active" => \A n \in cancelled : ~(job[n] = "ready" /\ Current(n))

(* What is on its way is the first message after the cancel.               *)
OnItsWay(n) == Current(n) \/ (job[n] = "ready" /\ (scope = "active" \/ current # NoOffer))

LateOnce ==
  /\ \A n \in Frames : n \notin cancelled => late[n] = 0
  /\ \A n \in cancelled : ~Holds(n) /\ OnItsWay(n) => late[n] = 0

(* Nothing is said about a frame before it is handled.                     *)
FreshFrames ==
  \A n \in Frames :
    ~FrameSettled(n) \/ (current.kind = "frame" /\ current.n = n) => replies[n] = <<>>

(* The operation a frame asks for, in the Apollo vocabulary.               *)
Asked(n) == getClientToServerMessage(frameMsg[n].type)

(* A frame asks for the same operation wherever it is on its way, and what *)
(* runs as a query was sent to start one.                                  *)
AskedOnTheWay ==
  /\ \A n \in Frames : job[n] # "none" => Asked(n) = "start"
  /\ \A i \in DOMAIN chan : chan[i].kind = "frame" => chan[i].type = Asked(chan[i].n)
  /\ current.kind = "frame" => current.n \in Frames /\ current.type = Asked(current.n)

(* Keepalives are sent under a connection_init that was handled.           *)
Greeting(n) == n \in Frames /\ FrameSettled(n) /\ Asked(n) = "connection_init"

KeepAlivesOnTheWay ==
  /\ keepAlive # "off" => Greeting(keepAliveMessage)
  /\ \A i \in DOMAIN chan : chan[i].kind = "keepalive" => Greeting(chan[i].n)
  /\ current.kind = "keepalive" => Greeting(current.n)

RInv ==
  /\ IInv
  /\ AskedOnTheWay
  /\ KeepAlivesOnTheWay
  /\ CancelledStarted
  /\ HoldersStarted
  /\ CancelledGaveBack
  /\ CancelledWithdrawn
  /\ ConsumerEnds
  /\ OneOnItsWay
  /\ LateOnce
  /\ FreshFrames

-----------------------------------------------------------------------------
(* The consumer does not go back to receive() on a cancelled scope.        *)
LEMMA ConsumerEndsStep ==
  ASSUME RInv, [Next]_vars
  PROVE  ConsumerEnds'
<1> USE DEF RInv, IInv, ConsumerEnds, sessionVars, adapterVars, channelVars, consumerVars, tableVars,
            queryVars, timerVars, history
<1>1. ASSUME Handled, scope' = scope PROVE ConsumerEnds'
  BY <1>1 DEF Handled
<1>2. ASSUME UNCHANGED <<scope, consumerVars>> PROVE ConsumerEnds'
  BY <1>2
<1>3. ASSUME NEW f, CancelScope(f), current' = current PROVE ConsumerEnds'
  BY <1>3 DEF CancelScope
<1>4. CASE OnWebSocketOpen \/ OnWebSocketClose \/ TimerStep
  BY <1>2, <1>4
  DEF OnWebSocketOpen, OnWebSocketClose, TimerStep, InitTimerExpires, InitTimerCloses
<1>5. ASSUME NEW m \in OperationMessage, OnWebSocketText(m) PROVE ConsumerEnds'
  BY <1>2, <1>5 DEF OnWebSocketText
<1>6. ASSUME NEW n \in Frames, FrameStep(n) PROVE ConsumerEnds'
  <2>1. CASE ForwardFrame(n)
    BY <2>1 DEF ForwardFrame
  <2>2. CASE RejectFrame(n) \/ AbandonFrame(n) \/ CheckDemand(n) \/ Demand(n)
    BY <1>2, <2>2 DEF RejectFrame, AbandonFrame, CheckDemand, Demand
  <2>3. QED
    BY <1>6, <2>1, <2>2 DEF FrameStep
<1>7. CASE CancelOnClose
  BY <1>3, <1>7 DEF CancelOnClose
<1>8. CASE Receive
  BY <1>8 DEF Receive, ScopeEnds
<1>9. CASE ConsumerFinishes
  BY <1>9 DEF ConsumerFinishes
<1>10. ASSUME NEW n \in Frames, NEW verdict \in Verdicts,
              handleConnectionInit(n, verdict) \/ handleQueryStart(n, verdict)
       PROVE  ConsumerEnds'
  BY <1>1, <1>10 DEF handleConnectionInit, handleQueryStart
<1>11. ASSUME NEW n \in Frames,
              \/ handleConnectionTerminate(n) \/ handleQueryStop(n) \/ handlePing(n)
              \/ handlePong(n) \/ handleQueryData(n) \/ handleQueryEnd(n)
       PROVE  ConsumerEnds'
  BY <1>1, <1>11
  DEF handleConnectionTerminate, handleQueryStop, handlePing, handlePong, handleQueryData,
      handleQueryEnd
<1>12. CASE handleKeepAlive
  BY <1>1, <1>12 DEF handleKeepAlive
<1>13. ASSUME NEW n \in Frames, QueryStep(n) PROVE ConsumerEnds'
  <2>1. ASSUME NEW e \in Events, QueryEvent(n, e) PROVE ConsumerEnds'
    BY <1>2, <2>1 DEF QueryEvent
  <2>2. CASE QuerySends(n)
    BY <2>2 DEF QuerySends, HandOver, Suspend, CanHandOver, Receiving
  <2>3. CASE QueryCancelled(n)
    BY <1>2, <2>3 DEF QueryCancelled
  <2>4. CASE QuerySetupFails(n)
    BY <1>3, <2>4 DEF QuerySetupFails
  <2>5. QED
    BY <1>13, <2>1, <2>2, <2>3, <2>4 DEF QueryStep
<1>14. CASE KeepAliveTick
  BY <1>14 DEF KeepAliveTick, HandOver, Suspend, CanHandOver, Receiving
<1>15. CASE UNCHANGED vars
  BY <1>2, <1>15 DEF vars
<1>16. QED
  BY ClientLemma, <1>4, <1>5, <1>6, <1>7, <1>8, <1>9, <1>10, <1>11, <1>12, <1>13, <1>14, <1>15
  DEF Next, ConsumerStep, HandleFrame

(* What cancel() has been called on, and what the table leads to.          *)
CancelInv == CancelledStarted /\ HoldersStarted /\ CancelledGaveBack /\ CancelledWithdrawn

LEMMA CancelInvStep ==
  ASSUME RInv, [Next]_vars
  PROVE  CancelInv'
<1> USE BoundsAssumption
    DEF sessionVars, adapterVars, channelVars, consumerVars, tableVars, queryVars, timerVars,
        history, Frames, RInv, IInv
<1>0. /\ job \in [Frames -> {"none", "collecting", "caught", "ready", "sending", "ended"}]
      /\ queries \in [Ids -> 0..MaxFrames]
      /\ frameMsg \in [Frames -> OperationMessage \cup {NoFrame}]
      /\ received \in 0..MaxFrames /\ cancelled \subseteq Frames
  BY DEF TypeOK
<1>a. ASSUME UNCHANGED <<frameMsg, scope, queries, job, cancelled>> PROVE CancelInv'
  BY <1>a DEF CancelInv, CancelledStarted, HoldersStarted, CancelledGaveBack,
          CancelledWithdrawn, Holds
<1>b. ASSUME NEW n \in Frames, NEW r \in {"collecting", "caught", "ended", "ready"},
             job[n] # "none", job' = [job EXCEPT ![n] = r],
             UNCHANGED <<frameMsg, scope, queries, cancelled>>
      PROVE  CancelInv'
  BY <1>0, <1>b DEF CancelInv, CancelledStarted, HoldersStarted, CancelledGaveBack,
          CancelledWithdrawn, Holds
<1>c. ASSUME NEW f \in Frames \cup {0}, CancelScope(f), f # 0 => job[f] # "none",
             UNCHANGED <<frameMsg, queries>>
      PROVE  CancelInv'
  BY <1>0, <1>c
  DEF CancelInv, CancelledStarted, HoldersStarted, CancelledGaveBack,
      CancelledWithdrawn, CancelScope, Holds
<1>1. ASSUME QuietStep PROVE CancelInv'
  BY <1>1, <1>a, QuietLemma
<1>2. ASSUME NEW m \in OperationMessage, OnWebSocketText(m) PROVE CancelInv'
  <2>1. job[received + 1] = "none" /\ UNCHANGED <<scope, queries, job, cancelled>>
    BY <1>0, <1>2 DEF FramesCounted, FramesHandledOnce, FrameSettled, OnWebSocketText
  <2>2. \A n \in Frames : n # received + 1 => frameMsg'[n] = frameMsg[n]
    BY <1>0, <1>2 DEF OnWebSocketText
  <2>3. QED
    BY <2>1, <2>2
    DEF CancelInv, CancelledStarted, HoldersStarted, CancelledGaveBack,
          CancelledWithdrawn, Holds
<1>3. ASSUME NEW n \in Frames, ForwardFrame(n) PROVE CancelInv'
  BY <1>3, <1>a, ForwardLemma DEF surroundings
<1>4. ASSUME NEW n \in Frames,
             RejectFrame(n) \/ AbandonFrame(n) \/ CheckDemand(n) \/ Demand(n)
      PROVE  CancelInv'
  BY <1>4, <1>a DEF RejectFrame, AbandonFrame, CheckDemand, Demand
<1>5. ASSUME CancelOnClose PROVE CancelInv'
  BY <1>5, <1>c DEF CancelOnClose
<1>6. ASSUME Receive PROVE CancelInv'
  <2>1. CASE UNCHANGED job
    BY <1>6, <1>a, <2>1, ReceiveLemma DEF surroundings
  <2>2. CASE chan[1].kind = "query"
    BY <1>6, <1>b, <2>2, ReceiveLemma DEF surroundings
  <2>3. QED
    BY <1>6, <2>1, <2>2, ReceiveLemma
<1>7. ASSUME NEW n \in Frames, NEW verdict \in Verdicts, handleQueryStart(n, verdict)
      PROVE  CancelInv'
  <2>1. CASE UNCHANGED <<job, queries>>
    BY <1>7, <1>a, <2>1, LaunchLemma
  <2>2. CASE /\ frameMsg[n].id \in Ids
             /\ queries[frameMsg[n].id] = 0
             /\ queries' = [queries EXCEPT ![frameMsg[n].id] = n]
             /\ job' = [job EXCEPT ![n] = IF scope = "active" THEN "collecting" ELSE "ended"]
    <3>1. /\ job'[n] \in {"collecting", "ended"} /\ job[n] = "none"
          /\ \A q \in Frames : q # n => job'[q] = job[q]
          /\ UNCHANGED <<frameMsg, scope, cancelled>>
      BY <1>0, <1>7, <2>2, LaunchLemma DEF FramesHandledOnce
    <3>2. \A id \in Ids : queries'[id] = IF id = frameMsg[n].id THEN n ELSE queries[id]
      BY <1>0, <2>2
    <3>3. Holds(n)' /\ \A q \in Frames : q # n => (Holds(q)' <=> Holds(q))
      BY <1>0, <2>2, <3>1, <3>2 DEF Holds
    <3>4. HoldersStarted'
      BY <3>1, <3>2 DEF HoldersStarted
    <3>5. QED
      BY <3>1, <3>3, <3>4 DEF CancelInv, CancelledStarted, CancelledGaveBack, CancelledWithdrawn
  <2>3. QED
    BY <1>7, <2>1, <2>2, LaunchLemma
<1>8. ASSUME NEW n \in Frames, handleQueryStop(n) \/ handleQueryEnd(n) PROVE CancelInv'
  <2>0. UNCHANGED <<frameMsg, scope>>
    BY <1>8, EndLemma DEF surroundings
  <2>1. CASE UNCHANGED <<chan, job, event, cancelled, queries>>
    BY <1>a, <2>0, <2>1
  <2>2. ASSUME NEW id \in Ids, queries[id] \in Frames, CancelQuery(queries[id]),
               queries' = [queries EXCEPT ![id] = 0]
        PROVE  CancelInv'
    <3> DEFINE q == queries[id]
    <3>1. /\ cancelled' = cancelled \cup {q}
          /\ job' = job \/ (job[q] = "sending" /\ job' = [job EXCEPT ![q] = "ended"])
      BY <2>2, WithdrawLemma
    <3>2. job[q] # "none" /\ frameMsg[q].id = id
      BY <2>2 DEF HoldersStarted
    <3>3. \A i \in Ids : queries'[i] = IF i = id THEN 0 ELSE queries[i]
      BY <1>0, <2>2
    <3>4. /\ \A n1 \in Frames : (job'[n1] = "none" <=> job[n1] = "none")
          /\ job'[q] # "sending"
          /\ \A n1 \in Frames : n1 # q => job'[n1] = job[n1]
      BY <1>0, <2>2, <3>1, <3>2 DEF CancelQuery
    <3>5. \A n1 \in Frames : Holds(n1)' <=> Holds(n1) /\ n1 # q
      BY <2>0, <2>2, <3>2, <3>3 DEF Holds
    <3>6. HoldersStarted'
      BY <2>0, <3>3, <3>4 DEF HoldersStarted
    <3>7. CancelledStarted'
      BY <2>2, <3>1, <3>2, <3>4, <3>5 DEF CancelledStarted
    <3>8. CancelledGaveBack'
      BY <2>0, <3>1, <3>5 DEF CancelledGaveBack
    <3>9. CancelledWithdrawn'
      BY <3>1, <3>4 DEF CancelledWithdrawn
    <3>10. QED
      BY <3>6, <3>7, <3>8, <3>9 DEF CancelInv
  <2>3. QED
    BY <1>8, <2>1, <2>2, EndLemma
<1>9. ASSUME NEW n \in Frames, NEW e \in Events, QueryEvent(n, e) PROVE CancelInv'
  BY <1>9, <1>b DEF QueryEvent
<1>10. ASSUME NEW n \in Frames, QuerySends(n) PROVE CancelInv'
  BY <1>0, <1>10, <1>b, SendsLemma
  DEF surroundings, CancelInv, CancelledStarted, HoldersStarted, CancelledGaveBack,
          CancelledWithdrawn, Holds
<1>11. ASSUME NEW n \in Frames, QueryCancelled(n) PROVE CancelInv'
  BY <1>11, <1>b DEF QueryCancelled
<1>12. ASSUME NEW n \in Frames, QuerySetupFails(n) PROVE CancelInv'
  BY <1>12, <1>c DEF QuerySetupFails
<1>13. ASSUME KeepAliveTick PROVE CancelInv'
  BY <1>13, <1>a, TickLemma DEF surroundings
<1>14. QED
  BY ClientLemma, <1>1, <1>2, <1>3, <1>4, <1>5, <1>6, <1>7, <1>8, <1>9, <1>10, <1>11, <1>12, <1>13
  DEF QuietStep, Next, FrameStep, QueryStep, ConsumerStep, HandleFrame

(* A cancelled query says one thing more at most.                          *)
LateInv == OneOnItsWay /\ LateOnce

LEMMA LateInvStep ==
  ASSUME RInv, [Next]_vars
  PROVE  LateInv'
<1> USE BoundsAssumption
    DEF sessionVars, adapterVars, channelVars, consumerVars, tableVars, queryVars, timerVars,
        history, Frames, RInv, IInv, LateInv, OneOnItsWay, LateOnce, OnItsWay, Current
<1>0. /\ job \in [Frames -> {"none", "collecting", "caught", "ready", "sending", "ended"}]
      /\ queries \in [Ids -> 0..MaxFrames]
      /\ frameMsg \in [Frames -> OperationMessage \cup {NoFrame}]
      /\ late \in [Frames -> Nat]
      /\ received \in 0..MaxFrames /\ cancelled \subseteq Frames
  BY DEF TypeOK
<1>a. ASSUME UNCHANGED <<job, cancelled, late, scope>>,
             \A n \in cancelled : Holds(n)' <=> Holds(n),
             current' = current \/ current'.kind # "query",
             scope = "active" \/ current' \in {current, NoOffer}
      PROVE  LateInv'
  BY <1>0, <1>a
<1>b. ASSUME UNCHANGED <<frameMsg, queries>>, NEW n \in Frames
      PROVE  Holds(n)' <=> Holds(n)
  BY <1>b DEF Holds
<1>c. ASSUME NEW f, CancelScope(f), UNCHANGED <<frameMsg, queries, current, late>>
      PROVE  LateInv'
  BY <1>0, <1>b, <1>c DEF CancelScope, CancelledStarted
<1>d. ASSUME NEW n \in Frames, NEW r \in {"collecting", "caught", "ended", "ready", "sending"},
             job' = [job EXCEPT ![n] = r], n \in cancelled => r \in {"ended"},
             UNCHANGED <<frameMsg, queries, scope, cancelled, late, current>>
      PROVE  LateInv'
  BY <1>0, <1>b, <1>d
<1>1. ASSUME QuietStep PROVE LateInv'
  <2>1. ASSUME NEW n \in Frames, handleQueryData(n) PROVE LateInv'
    <3>1. /\ Current(n) /\ current' = NoOffer
          /\ UNCHANGED <<job, cancelled, scope, queries, frameMsg>>
          /\ late' = late \/ (n \in cancelled /\ late' = [late EXCEPT ![n] = @ + 1])
      BY <2>1 DEF handleQueryData, handleClientBoundMessage, Handled
    <3>2. QED
      BY <1>0, <1>b, <3>1 DEF NoOffer
  <2>2. ASSUME ~\E n \in Frames : handleQueryData(n) PROVE late' = late
    BY <1>1, <2>2
    DEF QuietStep, OnWebSocketOpen, OnWebSocketClose, TimerStep, InitTimerExpires, InitTimerCloses,
        ConsumerFinishes, handleKeepAlive, handleConnectionInit, handleConnectionTerminate,
        handlePing, handlePong, vars
  <2>3. QED
    BY <1>0, <1>1, <1>a, <1>b, <2>1, <2>2, QuietLemma DEF NoOffer
<1>2. ASSUME NEW m \in OperationMessage, OnWebSocketText(m) PROVE LateInv'
  <2>1. job[received + 1] = "none" /\ UNCHANGED <<scope, queries, job, cancelled, late, current>>
    BY <1>0, <1>2 DEF FramesCounted, FramesHandledOnce, FrameSettled, OnWebSocketText
  <2>2. \A n \in Frames : n # received + 1 => frameMsg'[n] = frameMsg[n]
    BY <1>0, <1>2 DEF OnWebSocketText
  <2>3. \A n \in cancelled : Holds(n)' <=> Holds(n)
    BY <1>0, <2>1, <2>2 DEF Holds, CancelledStarted
  <2>4. QED
    BY <1>a, <2>1, <2>3
<1>3. ASSUME NEW n \in Frames, ForwardFrame(n) PROVE LateInv'
  <2>1. late' = late
    BY <1>3 DEF ForwardFrame
  <2>2. QED
    BY <1>0, <1>3, <1>a, <1>b, <2>1, ForwardLemma DEF surroundings
<1>4. ASSUME NEW n \in Frames,
             RejectFrame(n) \/ AbandonFrame(n) \/ CheckDemand(n) \/ Demand(n)
      PROVE  LateInv'
  BY <1>0, <1>4, <1>a, <1>b DEF RejectFrame, AbandonFrame, CheckDemand, Demand
<1>5. ASSUME CancelOnClose PROVE LateInv'
  BY <1>5, <1>c DEF CancelOnClose
<1>6. ASSUME Receive PROVE LateInv'
  <2>1. scope = "active" /\ late' = late
    BY <1>6 DEF Receive, ScopeEnds, TypeOK
  <2>2. CASE chan[1].kind = "query"
    <3>1. PICK r \in {"collecting", "caught", "ended"} : job' = [job EXCEPT ![chan[1].n] = r]
      BY <1>6, <2>2, ReceiveLemma
    <3>2. chan[1].n \in Frames /\ chan[1].n \notin cancelled
      BY <1>6, <2>2, ReceiveLemma DEF CancelledWithdrawn
    <3>3. /\ current' = chan[1]
          /\ UNCHANGED <<scope, queries, frameMsg, cancelled>>
      BY <1>6, ReceiveLemma DEF surroundings
    <3>4. QED
      BY <1>0, <1>b, <2>1, <2>2, <3>1, <3>2, <3>3
  <2>3. CASE chan[1].kind # "query"
    BY <1>0, <1>6, <1>a, <1>b, <2>1, <2>3, ReceiveLemma DEF surroundings
  <2>4. QED
    BY <2>2, <2>3
<1>7. ASSUME NEW n \in Frames, NEW verdict \in Verdicts, handleQueryStart(n, verdict)
      PROVE  LateInv'
  <2>0. /\ late' = late /\ current' = NoOffer /\ NoOffer.kind # "query"
        /\ UNCHANGED <<scope, frameMsg, cancelled>>
    BY <1>7, LaunchLemma DEF handleQueryStart, NoOffer
  <2>1. CASE UNCHANGED <<job, queries>>
    BY <1>0, <1>a, <1>b, <2>0, <2>1
  <2>2. CASE /\ frameMsg[n].id \in Ids
             /\ queries[frameMsg[n].id] = 0
             /\ queries' = [queries EXCEPT ![frameMsg[n].id] = n]
             /\ job' = [job EXCEPT ![n] = IF scope = "active" THEN "collecting" ELSE "ended"]
    <3>1. n \notin cancelled
      BY <1>7, LaunchLemma DEF FramesHandledOnce, CancelledStarted
    <3>2. \A q \in Frames : q # n => job'[q] = job[q] /\ (Holds(q)' <=> Holds(q))
      BY <1>0, <2>0, <2>2 DEF Holds
    <3>3. QED
      BY <1>0, <2>0, <3>1, <3>2
  <2>3. QED
    BY <1>7, <2>1, <2>2, LaunchLemma
<1>8. ASSUME NEW n \in Frames, handleQueryStop(n) \/ handleQueryEnd(n) PROVE LateInv'
  <2>1. /\ current' = NoOffer /\ NoOffer.kind # "query"
        /\ UNCHANGED <<scope, frameMsg>>
    BY <1>8, EndLemma DEF surroundings, NoOffer
  <2>2. \/ late' = late
        \/ n \in cancelled /\ Current(n) /\ late' = [late EXCEPT ![n] = @ + 1]
    BY <1>8 DEF handleQueryStop, handleQueryEnd, handleClientBoundMessage
  <2>3. /\ cancelled \subseteq cancelled' /\ cancelled' \subseteq Frames
        /\ \A m \in Frames : job'[m] = "ready" => job[m] = "ready"
    <3>1. ASSUME NEW id \in Ids, queries[id] \in Frames, CancelQuery(queries[id])
          PROVE  <2>3
      BY <1>0, <3>1 DEF CancelQuery
    <3>2. QED
      BY <1>0, <1>8, <3>1, EndLemma
  <2>4. ASSUME NEW m \in cancelled', job'[m] = "ready", scope = "active"
        PROVE  late'[m] = 0
    <3>1. CASE m \notin cancelled
      BY <1>0, <2>2, <2>3, <2>4, <3>1
    <3>2. CASE m \in cancelled
      BY <1>0, <2>2, <2>3, <2>4, <3>2 DEF CancelledGaveBack
    <3>3. QED
      BY <3>1, <3>2
  <2>5. \A m \in Frames : m \notin cancelled' => late'[m] = 0
    BY <1>0, <2>2, <2>3
  <2>6. QED
    BY <2>1, <2>3, <2>4, <2>5
<1>9. ASSUME NEW n \in Frames, NEW e \in Events, QueryEvent(n, e) PROVE LateInv'
  BY <1>9, <1>d DEF QueryEvent, yield
<1>10. ASSUME NEW n \in Frames, QuerySends(n) PROVE LateInv'
  <2>1. late' = late /\ (current' = current \/ scope = "active")
    BY <1>10
    DEF QuerySends, HandOver, Suspend, CanHandOver, Receiving, ConsumerEnds, TypeOK
  <2>2. PICK r \in {"collecting", "caught", "ended", "sending"} : job' = [job EXCEPT ![n] = r]
    BY <1>10, SendsLemma
  <2>3. /\ job[n] = "ready"
        /\ current' \in {current, QueryOffer(n)} /\ QueryOffer(n).kind = "query" /\ QueryOffer(n).n = n
        /\ UNCHANGED <<scope, frameMsg, queries, cancelled>>
    BY <1>10, SendsLemma DEF surroundings
  <2>4. QED
    BY <1>0, <1>b, <2>1, <2>2, <2>3
<1>11. ASSUME NEW n \in Frames, QueryCancelled(n) PROVE LateInv'
  BY <1>11, <1>d DEF QueryCancelled
<1>12. ASSUME NEW n \in Frames, QuerySetupFails(n) PROVE LateInv'
  BY <1>12, <1>c DEF QuerySetupFails
<1>13. ASSUME KeepAliveTick PROVE LateInv'
  <2>1. late' = late /\ scope = "active"
    BY <1>13, TickLemma DEF KeepAliveTick, ScopeEnds, TypeOK
  <2>2. QED
    BY <1>0, <1>13, <1>a, <1>b, <2>1, TickLemma DEF surroundings
<1>14. QED
  BY ClientLemma, <1>1, <1>2, <1>3, <1>4, <1>5, <1>6, <1>7, <1>8, <1>9, <1>10, <1>11, <1>12, <1>13
  DEF QuietStep, Next, FrameStep, QueryStep, ConsumerStep, HandleFrame

(* What a frame asked for is known wherever it has got to.                 *)
LEMMA AskedOnTheWayStep ==
  ASSUME RInv, [Next]_vars
  PROVE  AskedOnTheWay'
<1> USE BoundsAssumption
    DEF sessionVars, adapterVars, channelVars, consumerVars, tableVars, queryVars, timerVars,
        history, Frames, RInv, IInv, AskedOnTheWay
<1>0. /\ framePc \in [Frames -> {"new", "received", "sending", "finally", "demanding", "done"}]
      /\ job \in [Frames -> {"none", "collecting", "caught", "ready", "sending", "ended"}]
      /\ frameMsg \in [Frames -> OperationMessage \cup {NoFrame}]
      /\ received \in 0..MaxFrames /\ chan \in Seq(Offer)
  BY DEF TypeOK
<1>a. ASSUME frameMsg' = frameMsg, \A n \in Frames : job'[n] # "none" => job[n] # "none",
             \A i \in DOMAIN chan' : \E j \in DOMAIN chan : chan'[i] = chan[j],
             current'.kind = "frame" =>
               current' = current \/ \E j \in DOMAIN chan : current' = chan[j]
      PROVE  AskedOnTheWay'
  BY <1>a DEF Asked, OnlySuspendedSenders
<1>b. ASSUME NEW m \in Offer, chan' = Append(chan, m), UNCHANGED <<frameMsg, current>>,
             \A n \in Frames : job'[n] # "none" => job[n] # "none",
             m.kind = "frame" => m.type = Asked(m.n)
      PROVE  AskedOnTheWay'
  <2>1. \A i \in DOMAIN chan' : chan'[i] = m \/ (i \in DOMAIN chan /\ chan'[i] = chan[i])
    BY <1>0, <1>b, SuspendLemma
  <2>2. QED
    BY <1>b, <2>1 DEF Asked
<1>c. ASSUME NEW f, CancelScope(f), UNCHANGED <<frameMsg, current>>,
             f \in Frames => job[f] # "none"
      PROVE  AskedOnTheWay'
  BY <1>a, <1>c DEF CancelScope
<1>d. NoOffer.kind = "none"
  BY DEF NoOffer
<1>1. ASSUME QuietStep PROVE AskedOnTheWay'
  BY <1>1, <1>a, <1>d, QuietLemma
<1>2. ASSUME NEW m \in OperationMessage, OnWebSocketText(m) PROVE AskedOnTheWay'
  <2>1. received + 1 \in Frames /\ framePc[received + 1] = "new"
        /\ frameMsg' = [frameMsg EXCEPT ![received + 1] = m]
        /\ UNCHANGED <<job, chan, current>>
    BY <1>0, <1>2 DEF OnWebSocketText, FramesCounted
  <2>2. \A n \in Frames : n # received + 1 => Asked(n)' = Asked(n)
    BY <1>0, <2>1 DEF Asked
  <2>3. job[received + 1] = "none"
    BY <2>1 DEF FramesHandledOnce, FrameSettled
  <2>4. \A i \in DOMAIN chan : chan[i].kind = "frame" => chan[i].n \in Frames /\ chan[i].n # received + 1
    BY <2>1 DEF OnlySuspendedSenders
  <2>5. current.kind = "frame" => current.n \in Frames /\ current.n # received + 1
    BY <2>1 DEF FramesHandledOnce, FrameSettled
  <2>6. QED
    BY <2>1, <2>2, <2>3, <2>4, <2>5
<1>3. ASSUME NEW n \in Frames, ForwardFrame(n) PROVE AskedOnTheWay'
  <2>1. FrameOffer(n).type = Asked(n) /\ FrameOffer(n).n = n
    BY DEF FrameOffer, Asked
  <2>2. UNCHANGED <<frameMsg, job>>
    BY <1>3, ForwardLemma DEF surroundings
  <2>3. CASE chan' = chan /\ current' = FrameOffer(n)
    BY <2>1, <2>2, <2>3 DEF Asked
  <2>4. CASE chan' = Append(chan, FrameOffer(n)) /\ current' = current
    BY <1>3, <1>b, <2>1, <2>2, <2>4, ForwardLemma
  <2>5. QED
    BY <1>3, <2>3, <2>4, ForwardLemma
<1>4. ASSUME NEW n \in Frames,
             RejectFrame(n) \/ AbandonFrame(n) \/ CheckDemand(n) \/ Demand(n)
      PROVE  AskedOnTheWay'
  BY <1>4, <1>a DEF RejectFrame, AbandonFrame, CheckDemand, Demand
<1>5. ASSUME CancelOnClose PROVE AskedOnTheWay'
  BY <1>5, <1>c DEF CancelOnClose
<1>6. ASSUME Receive PROVE AskedOnTheWay'
  <2>1. frameMsg' = frameMsg /\ 1 \in DOMAIN chan /\ current' = chan[1]
    BY <1>6, ReceiveLemma DEF surroundings
  <2>2. \A n \in Frames : job'[n] # "none" => job[n] # "none"
    BY <1>0, <1>6, ReceiveLemma
  <2>3. \A i \in DOMAIN chan' : \E j \in DOMAIN chan : chan'[i] = chan[j]
    BY <1>6, ReceiveLemma
  <2>4. QED
    BY <1>a, <2>1, <2>2, <2>3
<1>7. ASSUME NEW n \in Frames, NEW verdict \in Verdicts, handleQueryStart(n, verdict)
      PROVE  AskedOnTheWay'
  <2>1. current.kind = "frame" /\ current.n = n /\ current.type = "start"
    BY <1>7 DEF handleQueryStart, HandlingFrame
  <2>2. Asked(n) = "start"
    BY <2>1
  <2>3. UNCHANGED <<frameMsg, chan>> /\ current' = NoOffer
    BY <1>7, LaunchLemma
  <2>4. \A k \in Frames : job'[k] # "none" => job[k] # "none" \/ k = n
    <3>1. \/ job' = job
          \/ job' = [job EXCEPT ![n] = IF scope = "active" THEN "collecting" ELSE "ended"]
      BY <1>7, LaunchLemma
    <3>2. QED
      BY <1>0, <3>1
  <2>5. QED
    BY <1>d, <2>2, <2>3, <2>4 DEF Asked
<1>8. ASSUME NEW n \in Frames, handleQueryStop(n) \/ handleQueryEnd(n) PROVE AskedOnTheWay'
  <2>1. frameMsg' = frameMsg /\ current' = NoOffer
    BY <1>8, EndLemma DEF surroundings
  <2>2. ASSUME NEW q \in Frames, CancelQuery(q) PROVE AskedOnTheWay'
    <3>1. \A i \in DOMAIN chan' : \E j \in DOMAIN chan : chan'[i] = chan[j]
      BY <2>2, WithdrawLemma
    <3>2. \A k \in Frames : job'[k] # "none" => job[k] # "none"
      BY <1>0, <2>2 DEF CancelQuery
    <3>3. QED
      BY <1>a, <1>d, <2>1, <3>1, <3>2
  <2>3. QED
    BY <1>8, <1>a, <1>d, <2>1, <2>2, EndLemma
<1>9. ASSUME NEW n \in Frames, NEW e \in Events, QueryEvent(n, e) PROVE AskedOnTheWay'
  BY <1>0, <1>9, <1>a DEF QueryEvent
<1>10. ASSUME NEW n \in Frames, QuerySends(n) PROVE AskedOnTheWay'
  <2>1. frameMsg' = frameMsg /\ job[n] = "ready" /\ QueryOffer(n) \in Offer
        /\ QueryOffer(n).kind = "query"
    BY <1>10, SendsLemma DEF surroundings
  <2>2. \A k \in Frames : job'[k] # "none" => job[k] # "none"
    BY <1>0, <1>10, <2>1, SendsLemma
  <2>3. CASE chan' = chan /\ current' \in {current, QueryOffer(n)}
    BY <1>a, <2>1, <2>2, <2>3
  <2>4. CASE chan' = Append(chan, QueryOffer(n)) /\ current' = current
    BY <1>b, <2>1, <2>2, <2>4
  <2>5. QED
    BY <1>10, <2>3, <2>4, SendsLemma
<1>11. ASSUME NEW n \in Frames, QueryCancelled(n) PROVE AskedOnTheWay'
  BY <1>0, <1>11, <1>a DEF QueryCancelled
<1>12. ASSUME NEW n \in Frames, QuerySetupFails(n) PROVE AskedOnTheWay'
  BY <1>12, <1>c DEF QuerySetupFails
<1>13. ASSUME KeepAliveTick PROVE AskedOnTheWay'
  <2>1. UNCHANGED <<frameMsg, job>> /\ KeepAliveOffer \in Offer /\ KeepAliveOffer.kind = "keepalive"
    BY <1>13, TickLemma DEF surroundings
  <2>2. QED
    BY <1>13, <1>a, <1>b, <2>1, TickLemma
<1>14. QED
  BY ClientLemma, <1>1, <1>2, <1>3, <1>4, <1>5, <1>6, <1>7, <1>8, <1>9, <1>10, <1>11, <1>12, <1>13
  DEF QuietStep, Next, FrameStep, QueryStep, ConsumerStep, HandleFrame

(* A frame that was handled stays what it was.                             *)
LEMMA GreetingStays ==
  ASSUME RInv, [Next]_vars, NEW g, Greeting(g)
  PROVE  Greeting(g)'
<1> USE DEF sessionVars, adapterVars, channelVars, consumerVars, tableVars, queryVars, timerVars,
            history, RInv, IInv, Greeting
<1>0. /\ framePc \in [Frames -> {"new", "received", "sending", "finally", "demanding", "done"}]
      /\ frameMsg \in [Frames -> OperationMessage \cup {NoFrame}]
      /\ received \in 0..MaxFrames
  BY DEF TypeOK
<1>a. ASSUME UNCHANGED <<frameMsg, framePc>> PROVE Greeting(g)'
  BY <1>a DEF Asked, FrameSettled
<1>b. ASSUME frameMsg' = frameMsg, NEW n \in Frames,
             n = g => FrameSettled(n)', \A k \in Frames : k # n => framePc'[k] = framePc[k]
      PROVE  Greeting(g)'
  BY <1>b DEF Asked, FrameSettled
<1>1. CASE QuietStep
  BY <1>1, <1>a, QuietLemma
<1>2. ASSUME NEW m \in OperationMessage, OnWebSocketText(m) PROVE Greeting(g)'
  <2>1. received + 1 \in Frames /\ framePc[received + 1] = "new"
    BY <1>0, <1>2, BoundsAssumption DEF OnWebSocketText, FramesCounted, Frames
  <2>2. g # received + 1
    BY <2>1 DEF FrameSettled
  <2>3. frameMsg'[g] = frameMsg[g] /\ framePc'[g] = framePc[g]
    BY <1>0, <1>2, <2>2 DEF OnWebSocketText
  <2>4. QED
    BY <2>3 DEF Asked, FrameSettled
<1>3. ASSUME NEW n \in Frames, ForwardFrame(n) PROVE Greeting(g)'
  <2>1. n # g /\ frameMsg' = frameMsg /\ \A k \in Frames : k # n => framePc'[k] = framePc[k]
    BY <1>0, <1>3, ForwardLemma DEF FrameSettled, surroundings
  <2>2. QED
    BY <1>b, <2>1
<1>4. ASSUME NEW n \in Frames,
             RejectFrame(n) \/ AbandonFrame(n) \/ CheckDemand(n) \/ Demand(n)
      PROVE  Greeting(g)'
  <2>1. frameMsg' = frameMsg /\ \A k \in Frames : k # n => framePc'[k] = framePc[k]
    BY <1>0, <1>4 DEF RejectFrame, AbandonFrame, CheckDemand, Demand
  <2>2. n = g => FrameSettled(n)'
    BY <1>0, <1>4 DEF RejectFrame, AbandonFrame, CheckDemand, Demand, FrameSettled
  <2>3. QED
    BY <1>b, <2>1, <2>2
<1>5. CASE Receive
  <2>1. frameMsg' = frameMsg
    BY <1>5, ReceiveLemma DEF surroundings
  <2>2. CASE framePc' = framePc
    BY <1>a, <2>1, <2>2
  <2>3. CASE /\ chan[1].n \in Frames /\ framePc[chan[1].n] = "sending"
             /\ framePc' = [framePc EXCEPT ![chan[1].n] = "finally"]
    BY <1>0, <1>b, <2>1, <2>3 DEF FrameSettled
  <2>4. QED
    BY <1>5, <2>2, <2>3, ReceiveLemma
<1>6. CASE CancelOnClose \/ KeepAliveTick
  BY <1>6, <1>a DEF CancelOnClose, KeepAliveTick
<1>7. ASSUME NEW n \in Frames, NEW verdict \in Verdicts, handleQueryStart(n, verdict)
      PROVE  Greeting(g)'
  BY <1>7, <1>a, LaunchLemma
<1>8. ASSUME NEW n \in Frames, handleQueryStop(n) \/ handleQueryEnd(n) \/ QueryStep(n)
      PROVE  Greeting(g)'
  BY <1>8, <1>a
  DEF handleQueryStop, handleQueryEnd, QueryStep, QueryEvent, QuerySends, QueryCancelled,
      QuerySetupFails
<1>9. QED
  BY ClientLemma, <1>1, <1>2, <1>3, <1>4, <1>5, <1>6, <1>7, <1>8
  DEF QuietStep, Next, FrameStep, ConsumerStep, HandleFrame

LEMMA KeepAlivesStep ==
  ASSUME RInv, [Next]_vars
  PROVE  KeepAlivesOnTheWay'
<1> USE DEF sessionVars, adapterVars, channelVars, consumerVars, tableVars, queryVars, timerVars,
            history, RInv, IInv, KeepAlivesOnTheWay
<1>0. /\ chan \in Seq(Offer)
      /\ \A n : Greeting(n) => Greeting(n)'
      /\ NoOffer.kind = "none"
  BY GreetingStays DEF TypeOK, NoOffer
<1>a. ASSUME keepAlive' # "off" => keepAlive # "off" /\ keepAliveMessage' = keepAliveMessage,
             \A i \in DOMAIN chan' : \E j \in DOMAIN chan : chan'[i] = chan[j],
             current'.kind = "keepalive" =>
               current' = current \/ \E j \in DOMAIN chan : current' = chan[j]
      PROVE  KeepAlivesOnTheWay'
  BY <1>0, <1>a
<1>b. ASSUME NEW m \in Offer, m.kind = "keepalive" => Greeting(m.n),
             keepAlive' # "off" => keepAlive # "off" /\ keepAliveMessage' = keepAliveMessage,
             \/ chan' = Append(chan, m) /\ current' = current
             \/ chan' = chan /\ current' \in {current, m}
      PROVE  KeepAlivesOnTheWay'
  <2>1. \A i \in DOMAIN chan' : chan'[i] = m \/ (i \in DOMAIN chan /\ chan'[i] = chan[i])
    BY <1>0, <1>b, SuspendLemma
  <2>2. QED
    BY <1>0, <1>b, <2>1
<1>c. ASSUME NEW f, CancelScope(f), current' = current PROVE KeepAlivesOnTheWay'
  BY <1>0, <1>c DEF CancelScope
<1>1. ASSUME NEW n \in Frames, NEW verdict \in Verdicts, handleConnectionInit(n, verdict)
      PROVE  KeepAlivesOnTheWay'
  <2>1. /\ current.kind = "frame" /\ current.n = n /\ current.type = "connection_init"
        /\ current' = NoOffer /\ chan' = chan
    BY <1>1 DEF handleConnectionInit, HandlingFrame, Handled
  <2>2. CASE keepAliveMessage' = n
    <3>1. Greeting(n)
      BY <2>1 DEF Greeting, AskedOnTheWay, FramesHandledOnce
    <3>2. QED
      BY <1>0, <2>1, <2>2, <3>1
  <2>3. CASE UNCHANGED <<keepAlive, keepAliveMessage>>
    BY <1>0, <1>a, <2>1, <2>3
  <2>4. QED
    BY <1>1, <2>2, <2>3 DEF handleConnectionInit, acknowledge
<1>2. CASE \/ OnWebSocketOpen \/ OnWebSocketClose \/ TimerStep \/ ConsumerFinishes
           \/ handleKeepAlive \/ UNCHANGED vars
           \/ \E n \in Frames : \/ handleConnectionTerminate(n) \/ handlePing(n) \/ handlePong(n)
                               \/ handleQueryData(n)
  <2>1. UNCHANGED <<keepAlive, keepAliveMessage, chan>>
    BY <1>2
    DEF OnWebSocketOpen, OnWebSocketClose, TimerStep, InitTimerExpires, InitTimerCloses,
        ConsumerFinishes, handleKeepAlive, handleConnectionTerminate, handlePing, handlePong,
        handleQueryData, vars
  <2>2. current' \in {current, NoOffer}
    BY <1>2, QuietLemma DEF QuietStep
  <2>3. QED
    BY <1>0, <1>a, <2>1, <2>2
<1>3. ASSUME NEW m \in OperationMessage, OnWebSocketText(m) PROVE KeepAlivesOnTheWay'
  BY <1>3, <1>a DEF OnWebSocketText
<1>4. ASSUME NEW n \in Frames, FrameStep(n) PROVE KeepAlivesOnTheWay'
  <2>1. CASE ForwardFrame(n)
    BY <1>b, <2>1, ForwardLemma DEF surroundings
  <2>2. CASE RejectFrame(n) \/ AbandonFrame(n) \/ CheckDemand(n) \/ Demand(n)
    BY <1>a, <2>2 DEF RejectFrame, AbandonFrame, CheckDemand, Demand
  <2>3. QED
    BY <1>4, <2>1, <2>2 DEF FrameStep
<1>5. CASE Receive
  <2>1. /\ 1 \in DOMAIN chan /\ current' = chan[1] /\ keepAliveMessage' = keepAliveMessage
        /\ \A i \in DOMAIN chan' : \E j \in DOMAIN chan : chan'[i] = chan[j]
        /\ keepAlive' = keepAlive \/ chan[1].kind = "keepalive"
    BY <1>5, ReceiveLemma DEF surroundings
  <2>2. chan[1].kind = "keepalive" => keepAlive # "off"
    BY <2>1 DEF OnlySuspendedSenders
  <2>3. QED
    BY <1>a, <2>1, <2>2
<1>6. CASE CancelOnClose
  BY <1>6, <1>c DEF CancelOnClose
<1>7. ASSUME NEW n \in Frames, NEW verdict \in Verdicts, handleQueryStart(n, verdict)
      PROVE  KeepAlivesOnTheWay'
  BY <1>0, <1>7, <1>a, LaunchLemma
<1>8. ASSUME NEW n \in Frames, handleQueryStop(n) \/ handleQueryEnd(n) PROVE KeepAlivesOnTheWay'
  <2>1. UNCHANGED <<keepAlive, keepAliveMessage>> /\ current' = NoOffer
    BY <1>8, EndLemma DEF surroundings
  <2>2. \A i \in DOMAIN chan' : \E j \in DOMAIN chan : chan'[i] = chan[j]
    <3>1. CASE chan' = chan
      BY <3>1
    <3>2. ASSUME NEW q \in Frames, CancelQuery(q) PROVE <2>2
      BY <3>2, WithdrawLemma
    <3>3. QED
      BY <1>8, <3>1, <3>2, EndLemma
  <2>3. QED
    BY <1>0, <1>a, <2>1, <2>2
<1>9. ASSUME NEW n \in Frames, QueryStep(n) PROVE KeepAlivesOnTheWay'
  <2>1. ASSUME NEW e \in Events, QueryEvent(n, e) PROVE KeepAlivesOnTheWay'
    BY <1>a, <2>1 DEF QueryEvent
  <2>2. CASE QuerySends(n)
    BY <1>b, <2>2, SendsLemma DEF surroundings
  <2>3. CASE QueryCancelled(n)
    BY <1>a, <2>3 DEF QueryCancelled
  <2>4. CASE QuerySetupFails(n)
    BY <1>c, <2>4 DEF QuerySetupFails
  <2>5. QED
    BY <1>9, <2>1, <2>2, <2>3, <2>4 DEF QueryStep
<1>10. CASE KeepAliveTick
  <2>1. KeepAliveOffer \in Offer /\ KeepAliveOffer.n = keepAliveMessage
    BY <1>10, TickLemma DEF KeepAliveOffer
  <2>2. keepAlive # "off" /\ keepAliveMessage' = keepAliveMessage
    BY <1>10, TickLemma DEF surroundings
  <2>3. QED
    BY <1>10, <1>b, <2>1, <2>2, TickLemma
<1>11. QED
  BY ClientLemma, <1>1, <1>2, <1>3, <1>4, <1>5, <1>6, <1>7, <1>8, <1>9, <1>10
  DEF Next, ConsumerStep, HandleFrame

(* Replies about a frame come from its own handler, from its query, or     *)
(* from the keepalives it asked for.                                       *)
LEMMA FreshStep ==
  ASSUME RInv, [Next]_vars
  PROVE  FreshFrames'
<1> USE BoundsAssumption
    DEF sessionVars, adapterVars, channelVars, consumerVars, tableVars, queryVars, timerVars,
        history, Frames, RInv, IInv, FreshFrames
<1>0. /\ framePc \in [Frames -> {"new", "received", "sending", "finally", "demanding", "done"}]
      /\ replies \in [Frames -> Seq(OperationTypes)]
      /\ received \in 0..MaxFrames /\ NoOffer.kind # "frame"
  BY DEF TypeOK, NoOffer
<1>a. ASSUME UNCHANGED <<replies, framePc>>, current' = current \/ current'.kind # "frame"
      PROVE  FreshFrames'
  BY <1>a DEF FrameSettled
<1>b. ASSUME NEW n \in Frames, NEW type, sendMessage(n, type), FrameSettled(n),
             framePc' = framePc, current' = NoOffer
      PROVE  FreshFrames'
  BY <1>0, <1>b DEF FrameSettled, sendMessage
<1>c. ASSUME NEW n \in Frames, ~FrameSettled(n), replies' = replies,
             \A m \in Frames : m # n => framePc'[m] = framePc[m],
             current' = current \/ current'.kind # "frame" \/ current'.n = n
      PROVE  FreshFrames'
  BY <1>0, <1>c DEF FrameSettled
<1>d. ASSUME NEW n \in Frames, replies' = replies, FrameSettled(n)', current' = current,
             \A m \in Frames : m # n => framePc'[m] = framePc[m], FrameSettled(n)
      PROVE  FreshFrames'
  BY <1>0, <1>d DEF FrameSettled
<1>1. ASSUME NEW n \in Frames, HandlingFrame(n, current.type), Handled, framePc' = framePc,
             \/ replies' = replies
             \/ \E type : sendMessage(n, type)
             \/ \E first, second : sendMessages(n, first, second)
      PROVE  FreshFrames'
  <2>1. FrameSettled(n) /\ current' = NoOffer
    BY <1>1 DEF HandlingFrame, Handled, FramesHandledOnce
  <2>2. CASE \E first, second : sendMessages(n, first, second)
    <3>1. \A k \in Frames : k # n => replies'[k] = replies[k]
      BY <1>0, <2>2 DEF sendMessages
    <3>2. QED
      BY <1>0, <1>1, <2>1, <3>1 DEF FrameSettled
  <2>3. QED
    BY <1>0, <1>1, <1>a, <1>b, <2>1, <2>2
<1>2. CASE \/ OnWebSocketOpen \/ OnWebSocketClose \/ TimerStep \/ ConsumerFinishes
           \/ CancelOnClose \/ UNCHANGED vars
  BY <1>0, <1>2, <1>a
  DEF OnWebSocketOpen, OnWebSocketClose, TimerStep, InitTimerExpires, InitTimerCloses,
      ConsumerFinishes, CancelOnClose, vars
<1>3. ASSUME NEW m \in OperationMessage, OnWebSocketText(m) PROVE FreshFrames'
  <2>1. /\ received + 1 \in Frames /\ ~FrameSettled(received + 1)
        /\ UNCHANGED <<replies, current>>
        /\ \A n \in Frames : n # received + 1 => framePc'[n] = framePc[n]
    BY <1>0, <1>3 DEF FramesCounted, FrameSettled, OnWebSocketText
  <2>2. QED
    BY <1>c, <2>1
<1>4. ASSUME NEW n \in Frames, ForwardFrame(n) PROVE FreshFrames'
  <2>1. /\ ~FrameSettled(n) /\ replies' = replies
        /\ current' = current \/ current' = FrameOffer(n)
        /\ \A m \in Frames : m # n => framePc'[m] = framePc[m]
        /\ FrameOffer(n).n = n
    BY <1>0, <1>4, ForwardLemma DEF ForwardFrame, FrameSettled
  <2>2. QED
    BY <1>c, <2>1
<1>5. ASSUME NEW n \in Frames, RejectFrame(n) PROVE FreshFrames'
  <2>1. /\ ~FrameSettled(n) /\ FrameSettled(n)' /\ current' = current
        /\ \A m \in Frames : m # n => framePc'[m] = framePc[m]
    BY <1>0, <1>5 DEF RejectFrame, FrameSettled
  <2>2. ~(current.kind = "frame" /\ current.n = n)
    BY <2>1 DEF FramesHandledOnce
  <2>3. replies' = replies \/ sendMessage(n, "error")
    BY <1>5 DEF RejectFrame, onInvalidMessage, AnswerOrClose
  <2>4. QED
    BY <1>0, <2>1, <2>2, <2>3 DEF FrameSettled, sendMessage
<1>6. ASSUME NEW n \in Frames, AbandonFrame(n) PROVE FreshFrames'
  <2>1. ~FrameSettled(n) /\ UNCHANGED <<replies, current>>
        /\ \A m \in Frames : m # n => framePc'[m] = framePc[m]
    BY <1>0, <1>6 DEF AbandonFrame, FrameSettled
  <2>2. QED
    BY <1>c, <2>1
<1>7. ASSUME NEW n \in Frames, CheckDemand(n) \/ Demand(n) PROVE FreshFrames'
  <2>1. /\ FrameSettled(n) /\ FrameSettled(n)' /\ UNCHANGED <<replies, current>>
        /\ \A m \in Frames : m # n => framePc'[m] = framePc[m]
    BY <1>0, <1>7 DEF CheckDemand, Demand, FrameSettled
  <2>2. QED
    BY <1>d, <2>1
<1>8. CASE Receive
  <2>1. replies' = replies /\ current' = chan[1]
    BY <1>8, ReceiveLemma DEF Receive
  <2>2. CASE chan[1].kind = "frame"
    <3>1. /\ chan[1].n \in Frames /\ framePc[chan[1].n] = "sending"
          /\ framePc' = [framePc EXCEPT ![chan[1].n] = "finally"]
      BY <1>8, <2>2, ReceiveLemma
    <3>2. QED
      BY <1>0, <1>c, <2>1, <3>1 DEF FrameSettled
  <2>3. CASE chan[1].kind # "frame"
    BY <1>8, <1>a, <2>1, <2>3, ReceiveLemma
  <2>4. QED
    BY <2>2, <2>3
<1>9. ASSUME NEW n \in Frames, NEW verdict \in Verdicts,
             handleConnectionInit(n, verdict) \/ handleQueryStart(n, verdict)
      PROVE  FreshFrames'
  <2>1. HandlingFrame(n, current.type) /\ Handled /\ framePc' = framePc
    BY <1>9 DEF handleConnectionInit, handleQueryStart, HandlingFrame
  <2>2. \/ replies' = replies
        \/ \E type : sendMessage(n, type)
        \/ \E first, second : sendMessages(n, first, second)
    <3>1. CASE handleConnectionInit(n, verdict)
      BY <3>1 DEF handleConnectionInit, onDuplicateInit, AnswerOrClose, acknowledge
    <3>2. CASE handleQueryStart(n, verdict)
      BY <3>2 DEF handleQueryStart, onDuplicateQuery, onInvalidMessage, AnswerOrClose
    <3>3. QED
      BY <1>9, <3>1, <3>2
  <2>3. QED
    BY <1>1, <2>1, <2>2
<1>10. ASSUME NEW n \in Frames, handleConnectionTerminate(n) \/ handlePing(n) \/ handlePong(n)
       PROVE  FreshFrames'
  <2>1. HandlingFrame(n, current.type) /\ Handled /\ framePc' = framePc
    BY <1>10 DEF handleConnectionTerminate, handlePing, handlePong, HandlingFrame
  <2>2. replies' = replies \/ \E type : sendMessage(n, type)
    BY <1>10 DEF handleConnectionTerminate, handlePing, handlePong
  <2>3. QED
    BY <1>1, <2>1, <2>2
<1>11. ASSUME NEW n \in Frames, handleQueryStop(n) PROVE FreshFrames'
  <2>1. HandlingFrame(n, current.type) /\ Handled /\ framePc' = framePc
    BY <1>11 DEF handleQueryStop, HandlingFrame
  <2>2. CASE RunningQuery(frameMsg[n].id) = 0
    BY <1>1, <1>11, <2>1, <2>2 DEF handleQueryStop
  <2>3. CASE RunningQuery(frameMsg[n].id) # 0
    <3> DEFINE q == RunningQuery(frameMsg[n].id)
    <3>1. frameMsg[n].id \in Ids /\ q = queries[frameMsg[n].id]
      BY <2>3, TableLemma DEF RunningQuery
    <3>2. q \in Frames
      BY <2>3, <3>1, TableLemma DEF TypeOK
    <3>3. FrameSettled(q)
      BY <3>1, <3>2 DEF HoldersStarted, FramesHandledOnce
    <3>4. sendMessage(q, "complete") /\ current' = NoOffer
      BY <1>11, <2>3 DEF handleQueryStop, Handled
    <3>5. QED
      BY <1>b, <2>1, <3>2, <3>3, <3>4
  <2>4. QED
    BY <2>2, <2>3
<1>12. ASSUME NEW n \in Frames, handleQueryData(n) \/ handleQueryEnd(n) PROVE FreshFrames'
  <2>1. /\ sendMessage(n, current.type) /\ framePc' = framePc /\ current' = NoOffer
        /\ current.kind = "query" /\ current.n = n
    BY <1>12 DEF handleQueryData, handleQueryEnd, handleClientBoundMessage, Handled
  <2>2. FrameSettled(n)
    BY <2>1 DEF QueriesHaveIds, FramesHandledOnce
  <2>3. QED
    BY <1>b, <2>1, <2>2
<1>13. ASSUME NEW n \in Frames, QueryStep(n) PROVE FreshFrames'
  <2>1. ASSUME NEW e \in Events, QueryEvent(n, e) PROVE FreshFrames'
    BY <1>a, <2>1 DEF QueryEvent
  <2>2. CASE QuerySends(n)
    <3>1. UNCHANGED <<replies, framePc>> /\ (current' = current \/ current' = QueryOffer(n))
      BY <2>2, SendsLemma DEF QuerySends
    <3>2. QED
      BY <1>a, <3>1 DEF QueryOffer
  <2>3. CASE QueryCancelled(n)
    BY <1>a, <2>3 DEF QueryCancelled
  <2>4. CASE QuerySetupFails(n)
    BY <1>a, <2>4 DEF QuerySetupFails
  <2>5. QED
    BY <1>13, <2>1, <2>2, <2>3, <2>4 DEF QueryStep
<1>14. CASE KeepAliveTick
  <2>1. UNCHANGED <<replies, framePc>> /\ (current' = current \/ current' = KeepAliveOffer)
    BY <1>14, TickLemma DEF KeepAliveTick
  <2>2. QED
    BY <1>a, <2>1 DEF KeepAliveOffer
<1>15. CASE handleKeepAlive
  <2>1. current.n \in Frames /\ FrameSettled(current.n)
    BY <1>15 DEF handleKeepAlive, KeepAlivesOnTheWay, Greeting
  <2>2. sendMessage(current.n, "ka") /\ framePc' = framePc /\ current' = NoOffer
    BY <1>15 DEF handleKeepAlive, Handled
  <2>3. QED
    BY <1>b, <2>1, <2>2
<1>16. QED
  BY ClientLemma, <1>2, <1>3, <1>4, <1>5, <1>6, <1>7, <1>8, <1>9, <1>10, <1>11, <1>12, <1>13, <1>14,
     <1>15
  DEF Next, FrameStep, ConsumerStep, HandleFrame

LEMMA RefinementInit == Init => RInv
  BY InitLemma
  DEF Init, RInv, AskedOnTheWay, KeepAlivesOnTheWay, CancelledStarted, HoldersStarted, CancelledGaveBack, CancelledWithdrawn,
      ConsumerEnds, OneOnItsWay, LateOnce, OnItsWay, Current, FreshFrames, Holds, NoOffer, Frames

LEMMA RefinementStep == RInv /\ [Next]_vars => RInv'
<1> SUFFICES ASSUME RInv, [Next]_vars PROVE RInv'
  OBVIOUS
<1>1. IInv'
  BY StepLemma DEF RInv
<1>2. CancelInv' /\ ConsumerEnds' /\ LateInv' /\ FreshFrames'
  BY CancelInvStep, ConsumerEndsStep, LateInvStep, FreshStep
<1>3. AskedOnTheWay' /\ KeepAlivesOnTheWay'
  BY AskedOnTheWayStep, KeepAlivesStep
<1>4. QED
  BY <1>1, <1>2, <1>3 DEF RInv, CancelInv, LateInv

LEMMA RefinementInvariance == Spec => []RInv
  BY RefinementInit, RefinementStep, PTL DEF Spec

-----------------------------------------------------------------------------

(* Steps that leave the queries alone: a client sees at most a close.      *)
LEMMA Invisible ==
  ASSUME UNCHANGED <<queries, late>>,
         \A n \in Frames : job'[n] = "none" <=> job[n] = "none",
         \A n \in Frames :
           job[n] # "none" => frameMsg'[n] = frameMsg[n] /\ replies'[n] = replies[n],
         lifecycleClosed => lifecycleClosed'
  PROVE  [Lifecycle!Next]_(Lifecycle!vars)
<1>1. lifecycleIdOf' = lifecycleIdOf
  BY DEF lifecycleIdOf
<1>2. \A n \in Frames : StatusOf(n)' = StatusOf(n)
  BY DEF StatusOf, Holds
<1>3. lifecycleStatus' = lifecycleStatus
  BY <1>2 DEF lifecycleStatus
<1>4. lifecycleSaid' = lifecycleSaid
  BY DEF lifecycleSaid
<1>5. CASE lifecycleClosed'
  <2>1. lifecycleClosed' = TRUE
    BY <1>5 DEF lifecycleClosed
  <2>2. Lifecycle!Close
    BY <1>1, <1>3, <1>4, <2>1 DEF Lifecycle!Close
  <2>3. QED
    BY <2>2 DEF Lifecycle!Next
<1>6. CASE ~lifecycleClosed'
  <2>1. lifecycleClosed' = lifecycleClosed
    BY <1>6 DEF lifecycleClosed
  <2>2. QED
    BY <1>1, <1>3, <1>4, <2>1 DEF Lifecycle!vars
<1>7. QED
  BY <1>5, <1>6

(* A query is started on a connection that was opened.                     *)
LEMMA StartedConnected ==
  ASSUME RInv, NEW n \in Frames, job[n] # "none"
  PROVE  /\ lifecycleClosed <=> session # "open"
         /\ lifecycleClosed \in BOOLEAN
         /\ frameMsg[n].id \in Ids /\ lifecycleIdOf[n] = frameMsg[n].id
         /\ lifecycleStatus[n] = StatusOf(n)
<1>1. framePc[n] # "new" /\ 1 <= n /\ received \in 0..MaxFrames
  BY DEF RInv, IInv, FramesHandledOnce, FrameSettled, TypeOK, Frames
<1>2. session # "connecting"
  BY <1>1, BoundsAssumption DEF RInv, IInv, FramesCounted, Frames
<1>3. QED
  BY <1>2
  DEF RInv, IInv, TypeOK, QueriesHaveIds, lifecycleClosed, lifecycleIdOf, lifecycleStatus

(* What the client is sent for a query is what QueryLifecycle says of it.  *)
LEMMA SaidLemma ==
  ASSUME RInv, NEW n \in Frames, job[n] # "none", NEW type \in OperationTypes,
         sendMessage(n, type), \A q \in Frames : job'[q] = "none" <=> job[q] = "none"
  PROVE  Lifecycle!Say(n, getServerToClientMessage(type))
<1>1. replies \in [Frames -> Seq(OperationTypes)]
  BY DEF RInv, IInv, TypeOK
<1>2. lifecycleClosed <=> session # "open"
  BY StartedConnected
<1>3. CASE session = "open"
  <2>1. /\ replies'[n] = Append(replies[n], getServerToClientMessage(type))
        /\ \A q \in Frames : q # n => replies'[q] = replies[q]
    BY <1>1, <1>3 DEF sendMessage
  <2>2. lifecycleSaid[n] = replies[n]
    BY DEF lifecycleSaid
  <2>3. lifecycleSaid' =
          [lifecycleSaid EXCEPT ![n] = Append(@, getServerToClientMessage(type))]
    BY <2>1, <2>2 DEF lifecycleSaid
  <2>4. QED
    BY <1>2, <1>3, <2>3 DEF Lifecycle!Say
<1>4. CASE session # "open"
  <2>1. lifecycleSaid' = lifecycleSaid
    BY <1>4 DEF lifecycleSaid, sendMessage
  <2>2. QED
    BY <1>2, <1>4, <2>1 DEF Lifecycle!Say
<1>5. QED
  BY <1>3, <1>4

(* Launching a query is accepting it.                                      *)
LEMMA AcceptLemma ==
  ASSUME RInv, NEW n \in Frames, NEW verdict \in Verdicts, handleQueryStart(n, verdict)
  PROVE  [Lifecycle!Next]_(Lifecycle!vars)
<1> USE DEF RInv, IInv
<1>0. /\ job \in [Frames -> {"none", "collecting", "caught", "ready", "sending", "ended"}]
      /\ queries \in [Ids -> 0..MaxFrames]
      /\ replies \in [Frames -> Seq(OperationTypes)]
  BY DEF TypeOK
<1>1. /\ job[n] = "none" /\ late' = late
      /\ UNCHANGED <<scope, frameMsg>>
  BY LaunchLemma DEF FramesHandledOnce, handleQueryStart, history
<1>2. CASE UNCHANGED <<job, queries>>
  <2>1. \A q \in Frames : q # n => replies'[q] = replies[q]
    BY <1>0
    DEF handleQueryStart, onInvalidMessage, onDuplicateQuery, AnswerOrClose, sendMessage
  <2>2. lifecycleClosed => lifecycleClosed'
    BY DEF handleQueryStart, onInvalidMessage, onDuplicateQuery, AnswerOrClose, close,
           lifecycleClosed, sessionVars
  <2>3. QED
    BY <1>1, <1>2, <2>1, <2>2, Invisible
<1>3. CASE QueryStartBranch(n, verdict) = "launch" /\ launchQuery(n) /\ UNCHANGED <<sessionVars, replies>>
  <2> DEFINE id == frameMsg[n].id
  <2>1. id \in Ids /\ queries[id] = 0
    BY <1>3, TableLemma DEF QueryStartBranch
  <2>2. /\ job' = [job EXCEPT ![n] = IF scope = "active" THEN "collecting" ELSE "ended"]
        /\ queries' = [queries EXCEPT ![id] = n]
    BY <1>3 DEF launchQuery
  <2>3. /\ job'[n] # "none" /\ replies[n] = <<>>
        /\ \A q \in Frames : q # n => job'[q] = job[q]
    BY <1>0, <2>2, LaunchLemma DEF FreshFrames
  <2>4. \A q \in Frames : Holds(q)' <=> q = n \/ Holds(q)
    BY <1>0, <1>1, <2>1, <2>2 DEF Holds, Frames
  <2>5. lifecycleClosed' = lifecycleClosed
    BY <1>3 DEF lifecycleClosed, sessionVars
  <2>6. lifecycleIdOf' = [lifecycleIdOf EXCEPT ![n] = id]
    BY <1>1, <2>3 DEF lifecycleIdOf
  <2>7. lifecycleStatus' = [lifecycleStatus EXCEPT ![n] = "running"]
    BY <1>1, <2>3, <2>4 DEF lifecycleStatus, StatusOf
  <2>8. lifecycleSaid' = lifecycleSaid
    BY <1>1, <1>3, <2>3 DEF lifecycleSaid
  <2>9. lifecycleStatus[n] = "new"
    BY <1>1 DEF lifecycleStatus, StatusOf
  <2>10. Lifecycle!Accept(n, id)
    BY <2>1, <2>2, <2>5, <2>6, <2>7, <2>8, <2>9 DEF Lifecycle!Accept
  <2>11. QED
    BY <2>1, <2>10 DEF Lifecycle!Next
<1>4. QED
  BY <1>2, <1>3 DEF handleQueryStart

(* A result is said by a running query, or is the last word of one that    *)
(* has ended.                                                              *)
LEMMA DataLemma ==
  ASSUME RInv, NEW n \in Frames, handleQueryData(n)
  PROVE  [Lifecycle!Next]_(Lifecycle!vars)
<1> USE DEF RInv, IInv
<1>0. /\ replies \in [Frames -> Seq(OperationTypes)]
      /\ late \in [Frames -> Nat]
  BY DEF TypeOK
<1>1. /\ Current(n) /\ current.type = "data" /\ sendMessage(n, "data")
      /\ late' = IF n \in cancelled /\ session = "open" THEN [late EXCEPT ![n] = @ + 1] ELSE late
      /\ UNCHANGED <<session, frameMsg, queries, job>>
  BY DEF handleQueryData, handleClientBoundMessage, Current, sessionVars, adapterVars, tableVars,
         queryVars
<1>2. job[n] # "none"
  BY <1>1 DEF QueriesHaveIds, Current
<1>3. "data" \in OperationTypes /\ getServerToClientMessage("data") \in Lifecycle!Results
  BY DEF OperationTypes, getServerToClientMessage, getMessage, apolloToGraphQlWsMapping,
         Lifecycle!Results
<1>4. Lifecycle!Say(n, getServerToClientMessage("data"))
  BY <1>1, <1>2, <1>3, SaidLemma
<1>5. lifecycleClosed' = lifecycleClosed /\ lifecycleIdOf' = lifecycleIdOf
  BY <1>1 DEF lifecycleClosed, lifecycleIdOf
<1>6. CASE session # "open"
  <2>1. replies' = replies /\ late' = late
    BY <1>1, <1>6 DEF sendMessage
  <2>2. QED
    BY <1>1, <1>5, <2>1, Invisible
<1>7. CASE session = "open" /\ Holds(n)
  <2>1. lifecycleStatus' = lifecycleStatus
    <3>1. \A q \in Frames : StatusOf(q)' = StatusOf(q)
      BY <1>0, <1>1, <1>7 DEF StatusOf, Holds
    <3>2. QED
      BY <3>1 DEF lifecycleStatus
  <2>2. lifecycleStatus[n] = "running"
    BY <1>2, <1>7 DEF lifecycleStatus, StatusOf
  <2>3. Lifecycle!Result(n)
    BY <1>1, <1>3, <1>4, <1>5, <2>1, <2>2 DEF Lifecycle!Result
  <2>4. QED
    BY <2>3 DEF Lifecycle!Next
<1>8. CASE session = "open" /\ ~Holds(n)
  <2>1. n \in cancelled /\ late[n] = 0
    BY <1>1, <1>2, <1>8 DEF CancelledStarted, LateOnce, OnItsWay
  <2>2. late'[n] = 1 /\ \A q \in Frames : q # n => late'[q] = late[q]
    BY <1>0, <1>1, <1>8, <2>1
  <2>3. lifecycleStatus[n] = "ended" /\ ~lifecycleClosed
    BY <1>2, <1>8, <2>1, StartedConnected DEF lifecycleStatus, StatusOf
  <2>4. /\ StatusOf(n)' = "over"
        /\ \A q \in Frames : q # n => StatusOf(q)' = StatusOf(q)
    BY <1>1, <1>2, <1>8, <2>2 DEF StatusOf, Holds
  <2>5. lifecycleStatus' = [lifecycleStatus EXCEPT ![n] = "over"]
    BY <2>4 DEF lifecycleStatus
  <2>6. Lifecycle!LastResult(n)
    BY <1>1, <1>3, <1>4, <1>5, <2>3, <2>5 DEF Lifecycle!LastResult
  <2>7. QED
    BY <2>6 DEF Lifecycle!Next
<1>9. QED
  BY <1>6, <1>7, <1>8

(* Taking an id out of the table ends the query that holds it.             *)
LEMMA GiveBackLemma ==
  ASSUME RInv, NEW id \in Ids, queries' = [queries EXCEPT ![id] = 0], frameMsg' = frameMsg,
         \/ queries[id] # 0 /\ CancelQuery(queries[id])
         \/ queries[id] = 0 /\ job' = job
  PROVE  /\ queries[id] # 0 => queries[id] \in Frames /\ job[queries[id]] # "none"
                               /\ Holds(queries[id]) /\ frameMsg[queries[id]].id = id
         /\ \A q \in Frames : job'[q] = "none" <=> job[q] = "none"
         /\ \A q \in Frames : Holds(q)' <=> Holds(q) /\ q # queries[id]
         /\ lifecycleIdOf' = lifecycleIdOf
<1> USE DEF RInv, IInv
<1>0. /\ job \in [Frames -> {"none", "collecting", "caught", "ready", "sending", "ended"}]
      /\ queries \in [Ids -> 0..MaxFrames]
  BY DEF TypeOK
<1>1. queries[id] # 0 => queries[id] \in Frames /\ job[queries[id]] # "none"
                         /\ Holds(queries[id]) /\ frameMsg[queries[id]].id = id
  BY <1>0, TableLemma DEF HoldersStarted, Holds
<1>2. \A q \in Frames : job'[q] = "none" <=> job[q] = "none"
  BY <1>0, <1>1 DEF CancelQuery
<1>3. \A q \in Frames : Holds(q)' <=> Holds(q) /\ q # queries[id]
  <2>1. \A i \in Ids : queries'[i] = IF i = id THEN 0 ELSE queries[i]
    BY <1>0
  <2>2. \A q \in Frames : q # 0
    BY BoundsAssumption DEF Frames
  <2>3. QED
    BY <1>1, <2>1, <2>2 DEF Holds
<1>4. lifecycleIdOf' = lifecycleIdOf
  BY <1>2 DEF lifecycleIdOf
<1>5. QED
  BY <1>1, <1>2, <1>3, <1>4

(* A query that is running ends with an answer.                            *)
LEMMA AnswerLemma ==
  ASSUME RInv, NEW id \in Ids, queries[id] # 0, queries' = [queries EXCEPT ![id] = 0],
         CancelQuery(queries[id]), NEW type \in {"complete", "error"},
         sendMessage(queries[id], type),
         UNCHANGED <<session, frameMsg>>,
         \A q \in Frames : q # queries[id] => late'[q] = late[q]
  PROVE  [Lifecycle!Next]_(Lifecycle!vars)
<1>0. PICK n : n = queries[id]
  OBVIOUS
<1>1. /\ n \in Frames /\ job[n] # "none" /\ Holds(n) /\ frameMsg[n].id = id
      /\ \A q \in Frames : job'[q] = "none" <=> job[q] = "none"
      /\ \A q \in Frames : Holds(q)' <=> Holds(q) /\ q # n
      /\ lifecycleIdOf' = lifecycleIdOf
  BY <1>0, GiveBackLemma
<1>2. /\ type \in OperationTypes /\ getServerToClientMessage(type) = type
      /\ type \in Lifecycle!Ends
  BY DEF OperationTypes, getServerToClientMessage, getMessage, apolloToGraphQlWsMapping,
         Lifecycle!Ends
<1>3. Lifecycle!Say(n, type)
  BY <1>0, <1>1, <1>2, SaidLemma
<1>4. lifecycleStatus[n] = "running" /\ lifecycleIdOf[n] = id
  BY <1>1 DEF lifecycleStatus, StatusOf, lifecycleIdOf
<1>5. StatusOf(n)' \in Lifecycle!Finished
  BY <1>1 DEF StatusOf, Lifecycle!Finished
<1>6. \A q \in Frames : q # n => StatusOf(q)' = StatusOf(q)
  BY <1>0, <1>1 DEF StatusOf
<1>7. lifecycleStatus' = [lifecycleStatus EXCEPT ![n] = StatusOf(n)']
  BY <1>6 DEF lifecycleStatus
<1>8. lifecycleClosed' = lifecycleClosed
  BY DEF lifecycleClosed
<1>9. Lifecycle!End(n)
  BY <1>1, <1>2, <1>3, <1>4, <1>5, <1>7, <1>8 DEF Lifecycle!End
<1>10. QED
  BY <1>1, <1>9 DEF Lifecycle!Next

(* A stop answers the query it stops, and no query else.                   *)
LEMMA StopLemma ==
  ASSUME RInv, NEW n \in Frames, handleQueryStop(n)
  PROVE  [Lifecycle!Next]_(Lifecycle!vars)
<1> DEFINE id == frameMsg[n].id
<1>1. /\ UNCHANGED <<session, frameMsg, late>>
      /\ job[n] = "none"
      /\ replies \in [Frames -> Seq(OperationTypes)]
  BY DEF handleQueryStop, HandlingFrame, sessionVars, adapterVars, RInv, IInv, FramesHandledOnce,
         TypeOK
<1>2. CASE RunningQuery(id) = 0
  <2>1. UNCHANGED <<queries, job>> /\ sendMessage(n, "error")
    BY <1>2 DEF handleQueryStop
  <2>2. \A q \in Frames : q # n => replies'[q] = replies[q]
    BY <1>1, <2>1 DEF sendMessage
  <2>3. lifecycleClosed' = lifecycleClosed
    BY <1>1 DEF lifecycleClosed
  <2>4. QED
    BY <1>1, <2>1, <2>2, <2>3, Invisible
<1>3. CASE RunningQuery(id) # 0
  <2>1. id \in Ids /\ RunningQuery(id) = queries[id]
    BY <1>3, TableLemma DEF RunningQuery, RInv, IInv
  <2>2. /\ CancelQuery(queries[id]) /\ sendMessage(queries[id], "complete")
        /\ queries' = [queries EXCEPT ![id] = 0]
    BY <1>3, <2>1 DEF handleQueryStop
  <2>3. QED
    BY <1>1, <1>3, <2>1, <2>2, AnswerLemma
<1>4. QED
  BY <1>2, <1>3

(* The end of a query is its answer, or the last word of a query that has  *)
(* ended, which takes the id from its new holder.                          *)
LEMMA LastWordLemma ==
  ASSUME RInv, NEW n \in Frames, handleQueryEnd(n)
  PROVE  [Lifecycle!Next]_(Lifecycle!vars)
<1> USE DEF RInv, IInv
<1> DEFINE id == frameMsg[n].id
<1>h. PICK h : h = queries[id]
  OBVIOUS
<1>0. late \in [Frames -> Nat]
  BY DEF TypeOK
<1>1. /\ Current(n) /\ current.type \in {"complete", "error"} /\ sendMessage(n, current.type)
      /\ late' = IF n \in cancelled /\ session = "open" THEN [late EXCEPT ![n] = @ + 1] ELSE late
      /\ queries' = [queries EXCEPT ![id] = 0]
      /\ \/ h # 0 /\ CancelQuery(h)
         \/ h = 0 /\ job' = job
      /\ UNCHANGED <<session, frameMsg>>
  BY <1>h DEF handleQueryEnd, handleClientBoundMessage, Current, sessionVars, adapterVars
<1>2. job[n] # "none" /\ id \in Ids
  BY <1>1 DEF QueriesHaveIds, Current
<1>3. CASE h = n
  <2>1. n # 0
    BY BoundsAssumption DEF Frames
  <2>2. \A q \in Frames : q # n => late'[q] = late[q]
    BY <1>0, <1>1
  <2>3. QED
    BY <1>h, <1>1, <1>2, <1>3, <2>1, <2>2, AnswerLemma
<1>4. CASE h # n
  <2>1. /\ h # 0 => h \in Frames /\ job[h] # "none" /\ Holds(h)
        /\ \A q \in Frames : job'[q] = "none" <=> job[q] = "none"
        /\ \A q \in Frames : Holds(q)' <=> Holds(q) /\ q # h
        /\ lifecycleIdOf' = lifecycleIdOf
    BY <1>h, <1>1, <1>2, GiveBackLemma
  <2>2. ~Holds(n)
    BY <1>h, <1>4 DEF Holds
  <2>3. n \in cancelled /\ late[n] = 0
    BY <1>1, <1>2, <2>2 DEF CancelledStarted, LateOnce, OnItsWay
  <2>4. /\ lifecycleClosed <=> session # "open"
        /\ lifecycleClosed \in BOOLEAN
        /\ lifecycleIdOf[n] = id
        /\ lifecycleStatus[n] = "ended"
    BY <1>2, <2>2, <2>3, StartedConnected DEF StatusOf
  <2> DEFINE type == current.type
             mine == IF lifecycleClosed THEN "ended" ELSE "over"
  <2>5. /\ type \in OperationTypes /\ getServerToClientMessage(type) = type
        /\ type \in Lifecycle!Ends
    BY <1>1 DEF OperationTypes, getServerToClientMessage, getMessage, apolloToGraphQlWsMapping,
                Lifecycle!Ends
  <2>6. Lifecycle!Say(n, type)
    BY <1>1, <1>2, <2>1, <2>5, SaidLemma
  <2>7. /\ late'[n] = IF lifecycleClosed THEN 0 ELSE 1
        /\ \A q \in Frames : q # n => late'[q] = late[q]
    BY <1>0, <1>1, <2>3, <2>4
  <2>8. StatusOf(n)' = mine
    BY <1>2, <2>1, <2>2, <2>7 DEF StatusOf
  <2>9. \A q \in Frames : q # n /\ q # h => StatusOf(q)' = StatusOf(q)
    BY <1>1, <2>1, <2>7 DEF StatusOf
  <2>10. h # 0 => StatusOf(h)' \in Lifecycle!Finished
    BY <2>1 DEF StatusOf, Lifecycle!Finished
  <2>11. \E s \in Lifecycle!Finished :
           lifecycleStatus' = [p \in Frames |-> IF p = n THEN mine
                                                ELSE IF p = h THEN s ELSE lifecycleStatus[p]]
    <3>1. CASE h = 0
      <4>1. \A q \in Frames : q # h
        BY <3>1, BoundsAssumption DEF Frames
      <4>2. QED
        BY <2>8, <2>9, <4>1 DEF lifecycleStatus, Lifecycle!Finished
    <3>2. CASE h # 0
      <4>1. lifecycleStatus' = [p \in Frames |-> IF p = n THEN mine
                                  ELSE IF p = h THEN StatusOf(h)' ELSE lifecycleStatus[p]]
        BY <2>8, <2>9 DEF lifecycleStatus
      <4>2. QED
        BY <2>10, <3>2, <4>1
    <3>3. QED
      BY <3>1, <3>2
  <2>12. lifecycleClosed' = lifecycleClosed
    BY <1>1 DEF lifecycleClosed
  <2>13. Lifecycle!LastEnd(n)
    BY <1>h, <1>1, <2>1, <2>4, <2>5, <2>6, <2>11, <2>12 DEF Lifecycle!LastEnd
  <2>14. QED
    BY <2>13 DEF Lifecycle!Next
<1>5. QED
  BY <1>3, <1>4

(* Jobs come and go, and the client sees none of it.                       *)
LEMMA SilentLemma ==
  ASSUME UNCHANGED <<queries, frameMsg, history>>,
         \A n \in Frames : job'[n] = "none" <=> job[n] = "none",
         session' = session \/ session' \in {"closing", "closed"} \/ session = "connecting"
  PROVE  [Lifecycle!Next]_(Lifecycle!vars)
<1>1. replies' = replies /\ late' = late
  BY DEF history
<1>2. lifecycleClosed => lifecycleClosed'
  BY DEF lifecycleClosed
<1>3. QED
  BY <1>1, <1>2, Invisible

(* Answers to a frame that has started no query are not answers to one.    *)
LEMMA FrameAnswerLemma ==
  ASSUME RInv, NEW n \in Frames, job[n] = "none", UNCHANGED <<queries, frameMsg, job, late>>,
         \/ replies' = replies
         \/ \E type : sendMessage(n, type)
         \/ \E first, second : sendMessages(n, first, second),
         session' = session \/ session' \in {"closing", "closed"}
  PROVE  [Lifecycle!Next]_(Lifecycle!vars)
<1>1. replies \in [Frames -> Seq(OperationTypes)]
  BY DEF RInv, IInv, TypeOK
<1>2. \A q \in Frames : q # n => replies'[q] = replies[q]
  BY <1>1 DEF sendMessage, sendMessages
<1>3. lifecycleClosed => lifecycleClosed'
  BY DEF lifecycleClosed
<1>4. QED
  BY <1>2, <1>3, Invisible

(* Every step of a connection is a step of the lifecycle of its queries.   *)
LEMMA Simulation ==
  ASSUME RInv, [Next]_vars
  PROVE  [Lifecycle!Next]_(Lifecycle!vars)
<1> USE DEF sessionVars, adapterVars, channelVars, consumerVars, tableVars, queryVars, timerVars
<1>0. job \in [Frames -> {"none", "collecting", "caught", "ready", "sending", "ended"}]
  BY DEF RInv, IInv, TypeOK
<1>a. ASSUME NEW f \in Frames \cup {0}, CancelScope(f), f # 0 => job[f] # "none"
      PROVE  \A n \in Frames : job'[n] = "none" <=> job[n] = "none"
  BY <1>0, <1>a, BoundsAssumption DEF CancelScope, Frames
<1>b. ASSUME NEW n \in Frames, job[n] # "none", NEW r \in {"collecting", "caught", "ready", "sending", "ended"},
             job' = [job EXCEPT ![n] = r]
      PROVE  \A q \in Frames : job'[q] = "none" <=> job[q] = "none"
  BY <1>0, <1>b
<1>1. CASE OnWebSocketOpen \/ OnWebSocketClose \/ ConsumerFinishes \/ KeepAliveTick
  <2>1. UNCHANGED <<queries, frameMsg, history, job>>
    BY <1>1
    DEF OnWebSocketOpen, OnWebSocketClose, ConsumerFinishes, KeepAliveTick
  <2>2. session' = session \/ session' = "closed" \/ session = "connecting"
    BY <1>1 DEF OnWebSocketOpen, OnWebSocketClose, ConsumerFinishes, KeepAliveTick
  <2>3. QED
    BY <2>1, <2>2, SilentLemma
<1>2. CASE TimerStep
  <2>1. UNCHANGED <<queries, frameMsg, history, job>>
    BY <1>2 DEF TimerStep, InitTimerExpires, InitTimerCloses
  <2>2. session' = session \/ session' = "closing"
    BY <1>2 DEF TimerStep, InitTimerExpires, InitTimerCloses, close
  <2>3. QED
    BY <2>1, <2>2, SilentLemma
<1>3. ASSUME NEW m \in OperationMessage, OnWebSocketText(m) PROVE [Lifecycle!Next]_(Lifecycle!vars)
  <2>1. /\ received \in 0..MaxFrames
        /\ frameMsg \in [Frames -> OperationMessage \cup {NoFrame}]
    BY DEF RInv, IInv, TypeOK
  <2>2. job[received + 1] = "none" /\ UNCHANGED <<session, queries, history, job>>
    BY <1>3, <2>1, BoundsAssumption
    DEF RInv, IInv, FramesCounted, FramesHandledOnce, FrameSettled, OnWebSocketText, Frames
  <2>3. \A n \in Frames : job[n] # "none" => frameMsg'[n] = frameMsg[n]
    BY <1>3, <2>1, <2>2 DEF OnWebSocketText
  <2>4. QED
    BY <2>2, <2>3, Invisible DEF history, lifecycleClosed
<1>4. ASSUME NEW n \in Frames, FrameStep(n) PROVE [Lifecycle!Next]_(Lifecycle!vars)
  <2>1. CASE ForwardFrame(n) \/ AbandonFrame(n) \/ CheckDemand(n) \/ Demand(n)
    <3>1. UNCHANGED <<session, queries, frameMsg, history, job>>
      BY <2>1 DEF ForwardFrame, AbandonFrame, CheckDemand, Demand
    <3>2. QED
      BY <3>1, SilentLemma
  <2>2. CASE RejectFrame(n)
    <3>1. job[n] = "none"
      BY <2>2 DEF RejectFrame, RInv, IInv, FramesHandledOnce, FrameSettled
    <3>2. /\ UNCHANGED <<queries, frameMsg, job, late>>
          /\ replies' = replies \/ sendMessage(n, "error")
          /\ session' = session \/ session' = "closing"
      BY <2>2 DEF RejectFrame, onInvalidMessage, AnswerOrClose, close
    <3>3. QED
      BY <3>1, <3>2, FrameAnswerLemma
  <2>3. QED
    BY <1>4, <2>1, <2>2 DEF FrameStep
<1>5. CASE CancelOnClose
  <2>1. UNCHANGED <<session, queries, frameMsg, history>> /\ CancelScope(0)
    BY <1>5 DEF CancelOnClose
  <2>2. QED
    BY <1>a, <2>1, SilentLemma
<1>6. CASE Receive
  <2>1. UNCHANGED <<session, queries, frameMsg, history>>
    BY <1>6 DEF Receive
  <2>2. \A q \in Frames : job'[q] = "none" <=> job[q] = "none"
    BY <1>0, <1>6, ReceiveLemma DEF RInv, IInv
  <2>3. QED
    BY <2>1, <2>2, SilentLemma
<1>7. ASSUME NEW n \in Frames, NEW verdict \in Verdicts, handleConnectionInit(n, verdict)
      PROVE  [Lifecycle!Next]_(Lifecycle!vars)
  <2>1. job[n] = "none"
    BY <1>7 DEF handleConnectionInit, HandlingFrame, RInv, IInv, FramesHandledOnce
  <2>2. /\ UNCHANGED <<queries, frameMsg, job, late>>
        /\ replies' = replies \/ \E type : sendMessage(n, type)
           \/ \E first, second : sendMessages(n, first, second)
        /\ session' = session \/ session' = "closing"
    BY <1>7
    DEF handleConnectionInit, onDuplicateInit, AnswerOrClose, acknowledge, close
  <2>3. QED
    BY <2>1, <2>2, FrameAnswerLemma
<1>8. ASSUME NEW n \in Frames, handleConnectionTerminate(n) \/ handlePing(n) \/ handlePong(n)
      PROVE  [Lifecycle!Next]_(Lifecycle!vars)
  <2>1. job[n] = "none"
    BY <1>8
    DEF handleConnectionTerminate, handlePing, handlePong, HandlingFrame, RInv, IInv, FramesHandledOnce
  <2>2. /\ UNCHANGED <<queries, frameMsg, job, late>>
        /\ replies' = replies \/ \E type : sendMessage(n, type)
        /\ session' = session \/ session' = "closing"
    BY <1>8 DEF handleConnectionTerminate, handlePing, handlePong, close, history
  <2>3. QED
    BY <2>1, <2>2, FrameAnswerLemma
<1>9. ASSUME NEW n \in Frames, QueryStep(n) PROVE [Lifecycle!Next]_(Lifecycle!vars)
  <2>1. UNCHANGED <<session, queries, frameMsg, history>>
    BY <1>9 DEF QueryStep, QueryEvent, QuerySends, QueryCancelled, QuerySetupFails
  <2>2. \A q \in Frames : job'[q] = "none" <=> job[q] = "none"
    <3>1. ASSUME NEW e \in Events, QueryEvent(n, e)
          PROVE  \A q \in Frames : job'[q] = "none" <=> job[q] = "none"
      <4>1. job[n] # "none" /\ job' = [job EXCEPT ![n] = "ready"]
        BY <3>1 DEF QueryEvent
      <4>2. QED
        BY <1>b, <4>1
    <3>2. CASE QuerySends(n)
      BY <1>b, <3>2, SendsLemma DEF RInv, IInv
    <3>3. CASE QueryCancelled(n)
      BY <1>b, <3>3 DEF QueryCancelled
    <3>4. CASE QuerySetupFails(n)
      BY <1>a, <3>4 DEF QuerySetupFails
    <3>5. QED
      BY <1>9, <3>1, <3>2, <3>3, <3>4 DEF QueryStep
  <2>3. QED
    BY <2>1, <2>2, SilentLemma
<1>10. ASSUME NEW n \in Frames, NEW verdict \in Verdicts, handleQueryStart(n, verdict)
       PROVE  [Lifecycle!Next]_(Lifecycle!vars)
  BY <1>10, AcceptLemma
<1>11. ASSUME NEW n \in Frames, handleQueryStop(n) \/ handleQueryData(n) \/ handleQueryEnd(n)
       PROVE  [Lifecycle!Next]_(Lifecycle!vars)
  BY <1>11, StopLemma, DataLemma, LastWordLemma
<1>12. CASE UNCHANGED vars
  BY <1>12, SilentLemma DEF vars
<1>13. CASE handleKeepAlive
  <2>1. current.n \in Frames /\ job[current.n] = "none"
    BY <1>13 DEF handleKeepAlive, RInv, KeepAlivesOnTheWay, AskedOnTheWay, Greeting
  <2>2. UNCHANGED <<queries, frameMsg, job, late, session>> /\ sendMessage(current.n, "ka")
    BY <1>13 DEF handleKeepAlive
  <2>3. QED
    BY <2>1, <2>2, FrameAnswerLemma
<1>14. QED
  BY ClientLemma, <1>1, <1>2, <1>3, <1>4, <1>5, <1>6, <1>7, <1>8, <1>9, <1>10, <1>11, <1>12, <1>13
  DEF Next, ConsumerStep, HandleFrame

(* A connection on which nothing has happened is a lifecycle that begins.  *)
LEMMA SimulationInit == Init => Lifecycle!Init
  BY DEF Init, Lifecycle!Init, lifecycleClosed, lifecycleIdOf, lifecycleStatus, lifecycleSaid,
         StatusOf

(* A connection does for its ids and its queries what QueryLifecycle       *)
(* allows and nothing else.                                                *)
THEOREM Implements == Spec => ImplementsLifecycle
<1>1. RInv /\ [Next]_vars => [Lifecycle!Next]_(Lifecycle!vars)
  BY Simulation
<1>2. QED
  BY SimulationInit, <1>1, RefinementInvariance, PTL DEF Spec, ImplementsLifecycle, Lifecycle!Spec

(* After the COMPLETE or the ERROR of a query the client hears one message *)
(* more of it at most: QueryLifecycle promises it, and a connection        *)
(* implements QueryLifecycle.                                              *)
THEOREM Silence == Spec => []RepliesEnd
<1>1. Lifecycle!AbsentOK
  BY BoundsAssumption, IdsAssumption DEF Frames, Lifecycle!AbsentOK
<1>2. Lifecycle!Init => Lifecycle!LifecycleInv
  BY <1>1, Lifecycle!LifecycleInit
<1>3. Lifecycle!LifecycleInv /\ [Lifecycle!Next]_(Lifecycle!vars) => Lifecycle!LifecycleInv'
  BY Lifecycle!LifecycleStep
<1>4. Lifecycle!LifecycleInv => RepliesEnd
  BY DEF Lifecycle!LifecycleInv, Lifecycle!OneWordAfterEnd, Lifecycle!Ends, RepliesEnd, lifecycleSaid
<1>5. QED
  BY Implements, <1>2, <1>3, <1>4, PTL DEF ImplementsLifecycle, Lifecycle!Spec

-----------------------------------------------------------------------------
(* A COMPLETE or an ERROR that goes to the client is the last it was sent. *)
LEMMA AnnounceLemma ==
  ASSUME RInv, NEW n \in Frames, NEW type \in {"complete", "error"}, sendMessage(n, type),
         session = "open"
  PROVE  replies'[n] # replies[n] /\ Last(replies'[n]) \in {"complete", "error"}
<1>1. getServerToClientMessage(type) = type
  BY DEF getServerToClientMessage, getMessage, apolloToGraphQlWsMapping
<1>2. replies[n] \in Seq(OperationTypes) /\ replies'[n] = Append(replies[n], type)
  BY <1>1 DEF sendMessage, RInv, IInv, TypeOK
<1>3. Len(replies[n]) \in Nat /\ Len(replies'[n]) = Len(replies[n]) + 1
  BY <1>2
<1>4. replies'[n][Len(replies'[n])] = type
  BY <1>2, <1>3
<1>5. QED
  BY <1>3, <1>4 DEF Last

LEMMA RemovalLemma ==
  ASSUME RInv, [Next]_vars, NEW id \in Ids, queries[id] # 0, queries'[id] = 0, session = "open"
  PROVE  \E n \in Frames :
           /\ frameMsg[n].id = id
           /\ replies'[n] # replies[n]
           /\ Last(replies'[n]) \in {"complete", "error"}
<1> DEFINE announced ==
      \E n \in Frames :
        /\ frameMsg[n].id = id
        /\ replies'[n] # replies[n]
        /\ Last(replies'[n]) \in {"complete", "error"}
<1>1. queries \in [Ids -> 0..MaxFrames]
  BY DEF RInv, IInv, TypeOK
<1>2. queries[id] \in Frames /\ frameMsg[queries[id]].id = id
  BY <1>1, TableLemma DEF RInv, HoldersStarted
<1>3. ASSUME NEW n \in Frames, handleQueryStop(n)
      PROVE  announced
  <2>1. PICK other : queries' = [queries EXCEPT ![other] = 0] /\ other = frameMsg[n].id
                     /\ queries[id] = RunningQuery(other) /\ sendMessage(queries[id], "complete")
    BY <1>1, <1>3 DEF handleQueryStop, RunningQuery
  <2>2. QED
    BY <1>2, <2>1, AnnounceLemma
<1>4. ASSUME NEW n \in Frames, handleQueryEnd(n)
      PROVE  announced
  <2>1. frameMsg[n].id = id /\ current.type \in {"complete", "error"}
        /\ sendMessage(n, current.type)
    BY <1>1, <1>4 DEF handleQueryEnd, handleClientBoundMessage
  <2>2. QED
    BY <2>1, AnnounceLemma
<1>5. ASSUME NEW n \in Frames, NEW verdict \in Verdicts, handleQueryStart(n, verdict)
      PROVE  FALSE
  BY <1>1, <1>5, TableLemma, LaunchLemma, BoundsAssumption DEF RInv, IInv, Frames
<1>6. ~UNCHANGED queries
  OBVIOUS
<1>7. (\E n \in Frames : handleQueryStop(n) \/ handleQueryEnd(n))
        \/ (\E n \in Frames, verdict \in Verdicts : handleQueryStart(n, verdict))
  <2> USE DEF tableVars
  <2>1. ASSUME ClientStep \/ CancelOnClose \/ QuietStep \/ Receive \/ KeepAliveTick
        PROVE  UNCHANGED queries
    BY ClientLemma, <2>1, QuietLemma DEF OnWebSocketText, CancelOnClose, Receive, KeepAliveTick
  <2>2. ASSUME NEW n \in Frames, FrameStep(n) \/ QueryStep(n)
        PROVE  UNCHANGED queries
    BY <2>2
    DEF FrameStep, ForwardFrame, RejectFrame, AbandonFrame, CheckDemand, Demand, QueryStep,
        QueryEvent, QuerySends, QueryCancelled, QuerySetupFails
  <2>3. QED
    BY <1>6, <2>1, <2>2 DEF QuietStep, Next, ConsumerStep, HandleFrame
<1>8. QED
  BY <1>3, <1>4, <1>5, <1>7

(* A query leaves the table of running queries only by a step that tells   *)
(* the client of a COMPLETE or an ERROR for its id: no id is given back    *)
(* in silence on an open connection (handleQueryStop, handleClientBound-   *)
(* Message and the queries.remove of each).                                *)
THEOREM Announced == Spec => RemovalIsAnnounced
<1>1. RInv /\ [Next]_vars
        => [\A id \in Ids :
              queries[id] # 0 /\ queries'[id] = 0 /\ session = "open"
                => \E n \in Frames :
                     /\ frameMsg[n].id = id
                     /\ replies'[n] # replies[n]
                     /\ Last(replies'[n]) \in {"complete", "error"}]_vars
  BY RemovalLemma
<1>2. QED
  BY <1>1, RefinementInvariance, PTL DEF Spec, RemovalIsAnnounced

-----------------------------------------------------------------------------
(* What liveness rests on.  TLC finds that the socket never wedges and     *)
(* that queries are answered; that the steps which bring it about are      *)
(* always there to be taken is an invariant, and can be proved.            *)

InChannel(kind, n) == \E i \in DOMAIN chan : chan[i].kind = kind /\ chan[i].n = n

(* Whoever is suspended in send has its message in the channel, so that    *)
(* the consumer will resume it.                                            *)
SendersInChannel ==
  scope = "active" =>
    /\ \A n \in Frames : framePc[n] = "sending" => InChannel("frame", n)
    /\ \A n \in Frames : job[n] = "sending" => InChannel("query", n)

(* The message in the channel is the one its sender is sending.            *)
MessagesOfSenders ==
  \A i \in DOMAIN chan : chan[i].kind = "query" => chan[i].type = EventType[event[chan[i].n]]

(* The channel is closed with the session, and as long as both are open    *)
(* the consumer goes on.  Only a query whose set-up fails cancels the      *)
(* scope before that.                                                      *)
ConsumerGoesOn ==
  /\ channelClosed <=> session = "closed"
  /\ scope = "cancelled" => session = "closed" \/ "setupFails" \in QueryEnds
  /\ consumer = "finished" => scope = "cancelled" \/ session = "closed"

(* What becomes of the messages in the channel in each step that changes   *)
(* it.                                                                     *)
LEMMA AppendedMessage ==
  ASSUME chan \in Seq(Offer), NEW m \in Offer, chan' = Append(chan, m)
  PROVE  /\ InChannel(m.kind, m.n)'
         /\ \A kind, n : InChannel(kind, n) => InChannel(kind, n)'
<1>1. /\ DOMAIN chan \subseteq DOMAIN chan' /\ \A i \in DOMAIN chan : chan'[i] = chan[i]
      /\ Len(chan) + 1 \in DOMAIN chan' /\ chan'[Len(chan) + 1] = m
  OBVIOUS
<1>2. QED
  BY <1>1 DEF InChannel

LEMMA ReceivedMessage ==
  ASSUME chan \in Seq(Offer), Receive
  PROVE  \A kind, n :
           InChannel(kind, n) /\ ~(chan[1].kind = kind /\ chan[1].n = n) => InChannel(kind, n)'
<1>1. chan # <<>> /\ chan' = Tail(chan)
  BY DEF Receive
<1>2. \A i \in DOMAIN chan : i # 1 => i - 1 \in DOMAIN chan' /\ chan'[i - 1] = chan[i]
  <2>1. /\ Len(chan) \in Nat /\ DOMAIN chan = 1..Len(chan) /\ Len(chan) # 0
        /\ DOMAIN chan' = 1..(Len(chan) - 1)
        /\ \A i \in 1..(Len(chan) - 1) : chan'[i] = chan[i + 1]
    BY <1>1, EmptySeq, LenProperties, HeadTailProperties
  <2>2. QED
    BY <2>1
<1>3. QED
  BY <1>2 DEF InChannel

LEMMA WithdrawnMessage ==
  ASSUME TypeOK, OnlySuspendedSenders, NEW q \in Frames, CancelQuery(q)
  PROVE  /\ \A kind, n : InChannel(kind, n) /\ ~(kind = "query" /\ n = q) => InChannel(kind, n)'
         /\ \A i \in DOMAIN chan' :
              /\ \E j \in DOMAIN chan : chan'[i] = chan[j]
              /\ job[q] = "sending" => ~(chan'[i].kind = "query" /\ chan'[i].n = q)
<1>1. CASE chan' = chan /\ job[q] # "sending"
  BY <1>1 DEF InChannel
<1>2. CASE job[q] = "sending"
  <2>1. PICK i \in DOMAIN chan : chan[i].kind = "query" /\ chan[i].n = q /\ chan' = RemoveAt(chan, i)
    BY <1>2 DEF CancelQuery
  <2>2. /\ Len(chan) \in Nat /\ DOMAIN chan = 1..Len(chan) /\ i \in 1..Len(chan)
        /\ DOMAIN chan' = 1..(Len(chan) - 1)
        /\ \A j \in 1..(Len(chan) - 1) : chan'[j] = chan[IF j < i THEN j ELSE j + 1]
    <3>1. chan \in Seq(Offer)
      BY DEF TypeOK
    <3>2. /\ chan' \in Seq(Offer) /\ Len(chan') = Len(chan) - 1
          /\ \A j \in DOMAIN chan' : chan'[j] = chan[IF j < i THEN j ELSE j + 1]
      BY <2>1, <3>1, RemoveAtLemma
    <3>3. QED
      BY <3>1, <3>2, LenProperties
  <2>3. \A k \in DOMAIN chan : k # i =>
          LET j == IF k < i THEN k ELSE k - 1 IN j \in DOMAIN chan' /\ chan'[j] = chan[k]
    BY <2>2
  <2>4. \A j \in DOMAIN chan' : \E k \in DOMAIN chan : k # i /\ chan'[j] = chan[k]
    <3>1. ASSUME NEW j \in DOMAIN chan'
          PROVE  LET k == IF j < i THEN j ELSE j + 1
                 IN  k \in DOMAIN chan /\ k # i /\ chan'[j] = chan[k]
      BY <2>2
    <3>2. QED
      BY <3>1
  <2>5. \A k \in DOMAIN chan : k # i => ~(chan[k].kind = "query" /\ chan[k].n = q)
    BY <2>1 DEF OnlySuspendedSenders
  <2>6. QED
    BY <2>1, <2>3, <2>4, <2>5 DEF InChannel
<1>3. QED
  BY <1>1, <1>2 DEF CancelQuery

(* The consumer goes on while the connection does.                         *)
LEMMA ConsumerGoesOnStep ==
  ASSUME RInv, ConsumerGoesOn, [Next]_vars
  PROVE  ConsumerGoesOn'
<1> USE DEF RInv, IInv, ConsumerGoesOn, sessionVars, adapterVars, channelVars, consumerVars, tableVars,
            queryVars, timerVars, history
<1>0. scope \in {"active", "cancelled"} /\ session \in {"connecting", "open", "closing", "closed"}
  BY DEF TypeOK
<1>a. ASSUME Handled, UNCHANGED <<scope, channelClosed>>,
             session' = session \/ (session = "open" /\ session' = "closing")
      PROVE  ConsumerGoesOn'
  BY <1>0, <1>a DEF Handled
<1>b. ASSUME UNCHANGED <<scope, channelClosed, consumer>>,
             session' = session \/ (session \in {"connecting", "open"} /\ session' \in {"open", "closing"})
      PROVE  ConsumerGoesOn'
  BY <1>b
<1>c. ASSUME NEW f, CancelScope(f), UNCHANGED <<session, channelClosed>>,
             session = "closed" \/ "setupFails" \in QueryEnds
      PROVE  ConsumerGoesOn'
  BY <1>c DEF CancelScope
<1>1. CASE OnWebSocketOpen \/ TimerStep
  BY <1>b, <1>1 DEF OnWebSocketOpen, TimerStep, InitTimerExpires, InitTimerCloses, close
<1>2. ASSUME NEW m \in OperationMessage, OnWebSocketText(m) PROVE ConsumerGoesOn'
  BY <1>b, <1>2 DEF OnWebSocketText
<1>3. ASSUME NEW n \in Frames, FrameStep(n) PROVE ConsumerGoesOn'
  <2>1. CASE ForwardFrame(n)
    BY <1>b, <2>1 DEF ForwardFrame, HandOver, Suspend
  <2>2. CASE RejectFrame(n)
    BY <1>b, <2>2 DEF RejectFrame, onInvalidMessage, AnswerOrClose, close
  <2>3. CASE AbandonFrame(n) \/ CheckDemand(n) \/ Demand(n)
    BY <1>b, <2>3 DEF AbandonFrame, CheckDemand, Demand
  <2>4. QED
    BY <1>3, <2>1, <2>2, <2>3 DEF FrameStep
<1>4. CASE OnWebSocketClose
  BY <1>4 DEF OnWebSocketClose
<1>5. CASE CancelOnClose
  BY <1>c, <1>5 DEF CancelOnClose
<1>6. CASE Receive
  BY <1>b, <1>6 DEF Receive
<1>7. CASE ConsumerFinishes
  BY <1>7 DEF ConsumerFinishes
<1>8. ASSUME NEW n \in Frames, NEW verdict \in Verdicts,
             handleConnectionInit(n, verdict) \/ handleQueryStart(n, verdict)
      PROVE  ConsumerGoesOn'
  BY <1>a, <1>8
  DEF handleConnectionInit, handleQueryStart, onDuplicateInit, onInvalidMessage, onDuplicateQuery,
      AnswerOrClose, close
<1>9. ASSUME NEW n \in Frames,
             \/ handleConnectionTerminate(n) \/ handleQueryStop(n) \/ handlePing(n)
             \/ handlePong(n) \/ handleQueryData(n) \/ handleQueryEnd(n)
      PROVE  ConsumerGoesOn'
  BY <1>a, <1>9
  DEF handleConnectionTerminate, handleQueryStop, handlePing, handlePong, handleQueryData,
      handleQueryEnd, close
<1>10. CASE handleKeepAlive
  BY <1>a, <1>10 DEF handleKeepAlive
<1>11. ASSUME NEW n \in Frames, QueryStep(n) PROVE ConsumerGoesOn'
  <2>1. CASE QuerySetupFails(n)
    BY <1>c, <2>1 DEF QuerySetupFails
  <2>2. CASE QuerySends(n) \/ QueryCancelled(n) \/ \E e \in Events : QueryEvent(n, e)
    BY <1>b, <2>2 DEF QuerySends, HandOver, Suspend, QueryCancelled, QueryEvent
  <2>3. QED
    BY <1>11, <2>1, <2>2 DEF QueryStep
<1>12. CASE KeepAliveTick
  BY <1>b, <1>12 DEF KeepAliveTick, HandOver, Suspend
<1>13. CASE UNCHANGED vars
  BY <1>b, <1>13 DEF vars
<1>14. QED
  BY ClientLemma, <1>1, <1>2, <1>3, <1>4, <1>5, <1>6, <1>7, <1>8, <1>9, <1>10, <1>11, <1>12, <1>13
  DEF Next, ConsumerStep, HandleFrame

(* A suspended sender stays in the channel until it is resumed or ends.    *)
LEMMA InChannelStep ==
  ASSUME RInv, SendersInChannel, [Next]_vars
  PROVE  SendersInChannel'
<1> USE BoundsAssumption
    DEF sessionVars, adapterVars, channelVars, consumerVars, tableVars, queryVars, timerVars,
        history, Frames, RInv, IInv, SendersInChannel
<1>0. /\ framePc \in [Frames -> {"new", "received", "sending", "finally", "demanding", "done"}]
      /\ job \in [Frames -> {"none", "collecting", "caught", "ready", "sending", "ended"}]
      /\ received \in 0..MaxFrames /\ chan \in Seq(Offer)
  BY DEF TypeOK
<1>a. ASSUME UNCHANGED <<chan, scope>>,
             \A n \in Frames : framePc'[n] = "sending" => framePc[n] = "sending",
             \A n \in Frames : job'[n] = "sending" => job[n] = "sending"
      PROVE  SendersInChannel'
  BY <1>a DEF InChannel
<1>b. ASSUME NEW f, CancelScope(f) PROVE SendersInChannel'
  BY <1>b DEF CancelScope
<1>1. ASSUME QuietStep PROVE SendersInChannel'
  BY <1>1, <1>a, QuietLemma
<1>2. ASSUME NEW m \in OperationMessage, OnWebSocketText(m) PROVE SendersInChannel'
  BY <1>0, <1>2, <1>a DEF OnWebSocketText
<1>3. ASSUME NEW n \in Frames, ForwardFrame(n) PROVE SendersInChannel'
  <2>1. UNCHANGED <<scope, job>>
    BY <1>3, ForwardLemma DEF surroundings
  <2>2. CASE chan' = chan /\ framePc' = [framePc EXCEPT ![n] = "finally"]
    BY <1>0, <1>a, <2>1, <2>2
  <2>3. CASE chan' = Append(chan, FrameOffer(n)) /\ framePc' = [framePc EXCEPT ![n] = "sending"]
    <3>1. FrameOffer(n) \in Offer /\ FrameOffer(n).kind = "frame" /\ FrameOffer(n).n = n
      BY <1>3, ForwardLemma
    <3>2. InChannel("frame", n)' /\ \A kind, k : InChannel(kind, k) => InChannel(kind, k)'
      BY <1>0, <2>3, <3>1, AppendedMessage
    <3>3. QED
      BY <1>0, <2>1, <2>3, <3>2
  <2>4. QED
    BY <1>3, <2>2, <2>3, ForwardLemma
<1>4. ASSUME NEW n \in Frames,
             RejectFrame(n) \/ AbandonFrame(n) \/ CheckDemand(n) \/ Demand(n)
      PROVE  SendersInChannel'
  BY <1>0, <1>4, <1>a DEF RejectFrame, AbandonFrame, CheckDemand, Demand
<1>5. ASSUME CancelOnClose PROVE SendersInChannel'
  BY <1>5, <1>b DEF CancelOnClose
<1>6. ASSUME Receive PROVE SendersInChannel'
  <2>1. \A kind, n :
          InChannel(kind, n) /\ ~(chan[1].kind = kind /\ chan[1].n = n) => InChannel(kind, n)'
    BY <1>0, <1>6, ReceivedMessage
  <2>2. scope' = scope
    BY <1>6, ReceiveLemma DEF surroundings
  <2>3. /\ \A n \in Frames : framePc'[n] = "sending" =>
             framePc[n] = "sending" /\ ~(chan[1].kind = "frame" /\ chan[1].n = n)
        /\ \A n \in Frames : job'[n] = "sending" =>
             job[n] = "sending" /\ ~(chan[1].kind = "query" /\ chan[1].n = n)
    BY <1>0, <1>6, ReceiveLemma
  <2>4. QED
    BY <2>1, <2>2, <2>3
<1>7. ASSUME NEW n \in Frames, NEW verdict \in Verdicts, handleQueryStart(n, verdict)
      PROVE  SendersInChannel'
  BY <1>0, <1>7, <1>a, LaunchLemma
<1>8. ASSUME NEW n \in Frames, handleQueryStop(n) \/ handleQueryEnd(n) PROVE SendersInChannel'
  <2>1. UNCHANGED <<scope, framePc>>
    BY <1>8, EndLemma DEF surroundings
  <2>2. ASSUME NEW q \in Frames, CancelQuery(q) PROVE SendersInChannel'
    <3>1. \A kind, k : InChannel(kind, k) /\ ~(kind = "query" /\ k = q) => InChannel(kind, k)'
      BY <2>2, WithdrawnMessage
    <3>2. \A k \in Frames : job'[k] = "sending" => job[k] = "sending" /\ k # q
      BY <1>0, <2>2 DEF CancelQuery
    <3>3. QED
      BY <2>1, <3>1, <3>2
  <2>3. QED
    BY <1>8, <1>a, <2>1, <2>2, EndLemma
<1>9. ASSUME NEW n \in Frames, NEW e \in Events, QueryEvent(n, e) PROVE SendersInChannel'
  BY <1>0, <1>9, <1>a DEF QueryEvent
<1>10. ASSUME NEW n \in Frames, QuerySends(n) PROVE SendersInChannel'
  <2>1. UNCHANGED <<scope, framePc>>
    BY <1>10, SendsLemma DEF surroundings
  <2>2. CASE chan' = chan /\ \E r \in {"collecting", "caught", "ended"} : job' = [job EXCEPT ![n] = r]
    BY <1>0, <1>a, <2>1, <2>2
  <2>3. CASE chan' = Append(chan, QueryOffer(n)) /\ job' = [job EXCEPT ![n] = "sending"]
    <3>1. QueryOffer(n) \in Offer /\ QueryOffer(n).kind = "query" /\ QueryOffer(n).n = n
      BY <1>10, SendsLemma
    <3>2. InChannel("query", n)' /\ \A kind, k : InChannel(kind, k) => InChannel(kind, k)'
      BY <1>0, <2>3, <3>1, AppendedMessage
    <3>3. QED
      BY <1>0, <2>1, <2>3, <3>2
  <2>4. QED
    BY <1>10, <2>2, <2>3, SendsLemma
<1>11. ASSUME NEW n \in Frames, QueryCancelled(n) PROVE SendersInChannel'
  BY <1>0, <1>11, <1>a DEF QueryCancelled
<1>12. ASSUME NEW n \in Frames, QuerySetupFails(n) PROVE SendersInChannel'
  BY <1>12, <1>b DEF QuerySetupFails
<1>13. ASSUME KeepAliveTick PROVE SendersInChannel'
  <2>1. UNCHANGED <<scope, framePc, job>>
    BY <1>13, TickLemma DEF surroundings
  <2>2. CASE chan' = chan
    BY <1>a, <2>1, <2>2
  <2>3. CASE chan' = Append(chan, KeepAliveOffer)
    <3>1. \A kind, k : InChannel(kind, k) => InChannel(kind, k)'
      BY <1>0, <1>13, <2>3, TickLemma, AppendedMessage
    <3>2. QED
      BY <2>1, <3>1
  <2>4. QED
    BY <1>13, <2>2, <2>3, TickLemma
<1>14. QED
  BY ClientLemma, <1>1, <1>2, <1>3, <1>4, <1>5, <1>6, <1>7, <1>8, <1>9, <1>10, <1>11, <1>12, <1>13
  DEF QuietStep, Next, FrameStep, QueryStep, ConsumerStep, HandleFrame

(* The messages in the channel do not change while they wait.              *)
LEMMA MessagesStep ==
  ASSUME RInv, MessagesOfSenders, [Next]_vars
  PROVE  MessagesOfSenders'
<1> USE BoundsAssumption
    DEF sessionVars, adapterVars, channelVars, consumerVars, tableVars, queryVars, timerVars,
        history, Frames, RInv, IInv, MessagesOfSenders
<1>0. /\ job \in [Frames -> {"none", "collecting", "caught", "ready", "sending", "ended"}]
      /\ event \in [Frames -> Events \cup {"none"}]
      /\ chan \in Seq(Offer)
  BY DEF TypeOK
<1>a. ASSUME chan' = chan, \A n \in Frames : job[n] = "sending" => event'[n] = event[n]
      PROVE  MessagesOfSenders'
  BY <1>a DEF OnlySuspendedSenders
<1>b. ASSUME NEW f, CancelScope(f) PROVE MessagesOfSenders'
  BY <1>b DEF CancelScope
<1>c. ASSUME NEW m \in Offer, chan' = Append(chan, m), event' = event,
             m.kind = "query" => m.type = EventType[event[m.n]]
      PROVE  MessagesOfSenders'
  <2>1. \A i \in DOMAIN chan' : chan'[i] = m \/ (i \in DOMAIN chan /\ chan'[i] = chan[i])
    BY <1>0, <1>c, SuspendLemma
  <2>2. QED
    BY <1>c, <2>1
<1>1. ASSUME QuietStep PROVE MessagesOfSenders'
  BY <1>1, <1>a, QuietLemma
<1>2. ASSUME NEW m \in OperationMessage, OnWebSocketText(m) PROVE MessagesOfSenders'
  BY <1>2, <1>a DEF OnWebSocketText
<1>3. ASSUME NEW n \in Frames, ForwardFrame(n) PROVE MessagesOfSenders'
  BY <1>3, <1>a, <1>c, ForwardLemma
<1>4. ASSUME NEW n \in Frames,
             RejectFrame(n) \/ AbandonFrame(n) \/ CheckDemand(n) \/ Demand(n)
      PROVE  MessagesOfSenders'
  BY <1>4, <1>a DEF RejectFrame, AbandonFrame, CheckDemand, Demand
<1>5. ASSUME CancelOnClose PROVE MessagesOfSenders'
  BY <1>5, <1>b DEF CancelOnClose
<1>6. ASSUME Receive PROVE MessagesOfSenders'
  <2>1. \A i \in DOMAIN chan' : i + 1 \in DOMAIN chan /\ i + 1 # 1 /\ chan'[i] = chan[i + 1]
    <3>1. DOMAIN chan' \subseteq Nat \ {0}
      BY <1>6, ReceiveLemma, LenProperties
    <3>2. QED
      BY <1>6, <3>1, ReceiveLemma
  <2>2. \/ event' = event
        \/ chan[1].kind = "query" /\ event' = [event EXCEPT ![chan[1].n] = "none"]
    BY <1>6, ReceiveLemma
  <2>3. 1 \in DOMAIN chan
    BY <1>6, ReceiveLemma
  <2>4. ASSUME NEW i \in DOMAIN chan', chan'[i].kind = "query"
        PROVE  event'[chan'[i].n] = event[chan'[i].n]
    <3>1. chan[1].kind = "query" => chan'[i].n # chan[1].n
      BY <2>1, <2>3, <2>4 DEF OnlySuspendedSenders
    <3>2. chan'[i].n \in Frames
      BY <2>1, <2>4 DEF OnlySuspendedSenders
    <3>3. QED
      BY <1>0, <2>2, <3>1, <3>2
  <2>5. QED
    BY <2>1, <2>4
<1>7. ASSUME NEW n \in Frames, NEW verdict \in Verdicts, handleQueryStart(n, verdict)
      PROVE  MessagesOfSenders'
  BY <1>7, <1>a, LaunchLemma
<1>8. ASSUME NEW n \in Frames, handleQueryStop(n) \/ handleQueryEnd(n) PROVE MessagesOfSenders'
  <2>1. ASSUME NEW q \in Frames, CancelQuery(q) PROVE MessagesOfSenders'
    <3>1. CASE job[q] # "sending"
      BY <1>a, <2>1, <3>1 DEF CancelQuery
    <3>2. CASE job[q] = "sending"
      <4>1. \A i \in DOMAIN chan' :
              /\ \E j \in DOMAIN chan : chan'[i] = chan[j]
              /\ ~(chan'[i].kind = "query" /\ chan'[i].n = q)
        BY <2>1, <3>2, WithdrawnMessage
      <4>2. event' = [event EXCEPT ![q] = "none"]
        BY <2>1, <3>2 DEF CancelQuery
      <4>3. QED
        BY <1>0, <4>1, <4>2
    <3>3. QED
      BY <3>1, <3>2
  <2>2. QED
    BY <1>8, <1>a, <2>1, EndLemma
<1>9. ASSUME NEW n \in Frames, NEW e \in Events, QueryEvent(n, e) PROVE MessagesOfSenders'
  BY <1>0, <1>9, <1>a DEF QueryEvent
<1>10. ASSUME NEW n \in Frames, QuerySends(n) PROVE MessagesOfSenders'
  <2>1. CASE chan' = chan /\ event' = [event EXCEPT ![n] = "none"]
    <3>1. job[n] = "ready"
      BY <1>10 DEF QuerySends
    <3>2. QED
      BY <1>0, <1>a, <2>1, <3>1
  <2>2. CASE chan' = Append(chan, QueryOffer(n)) /\ event' = event
    <3>1. QueryOffer(n) \in Offer /\ QueryOffer(n).n = n /\ QueryOffer(n).type = EventType[event[n]]
      BY <1>10, SendsLemma DEF QueryOffer
    <3>2. QED
      BY <1>c, <2>2, <3>1
  <2>3. QED
    BY <1>10, <2>1, <2>2, SendsLemma
<1>11. ASSUME NEW n \in Frames, QueryCancelled(n) PROVE MessagesOfSenders'
  BY <1>11, <1>a DEF QueryCancelled
<1>12. ASSUME NEW n \in Frames, QuerySetupFails(n) PROVE MessagesOfSenders'
  BY <1>12, <1>b DEF QuerySetupFails
<1>13. ASSUME KeepAliveTick PROVE MessagesOfSenders'
  BY <1>13, <1>a, <1>c, TickLemma
<1>14. QED
  BY ClientLemma, <1>1, <1>2, <1>3, <1>4, <1>5, <1>6, <1>7, <1>8, <1>9, <1>10, <1>11, <1>12, <1>13
  DEF QuietStep, Next, FrameStep, QueryStep, ConsumerStep, HandleFrame

(* The connection is open, or the server has begun to close it.            *)
Connected == session \in {"open", "closing"} /\ scope = "active"

(* No demand() is lost: while the next frame is not demanded, the          *)
(* coroutine of the frame before is on its way there, and if it has to     *)
(* wait for the consumer, the consumer has its message to receive.         *)
DemandOnItsWay ==
  Connected /\ ~demanded =>
    \E n \in Frames :
      \/ framePc[n] \in {"received", "finally", "demanding"}
      \/ framePc[n] = "sending" /\ InChannel("frame", n) /\ consumer = "consuming"

LEMMA DemandStep ==
  ASSUME RInv, ConsumerGoesOn, ConsumerGoesOn', SendersInChannel', DemandOnItsWay, [Next]_vars
  PROVE  DemandOnItsWay'
<1> USE BoundsAssumption
    DEF sessionVars, adapterVars, channelVars, consumerVars, tableVars, queryVars, timerVars,
        history, Frames, RInv, IInv, DemandOnItsWay, Connected
<1>0. /\ framePc \in [Frames -> {"new", "received", "sending", "finally", "demanding", "done"}]
      /\ received \in 0..MaxFrames
      /\ consumer' \in {"consuming", "finished"}
  BY TypeStep DEF TypeOK
<1> DEFINE Coming(n) == framePc[n] \in {"received", "sending", "finally", "demanding"}
<1>a. ASSUME Connected', NEW n \in Frames, Coming(n)' PROVE DemandOnItsWay'
  BY <1>0, <1>a DEF ConsumerGoesOn, SendersInChannel
<1>b. ASSUME scope' = scope, session' \in {"open", "closing"} => session \in {"open", "closing"},
             demanded' = demanded, framePc' = framePc
      PROVE  DemandOnItsWay'
  BY <1>a, <1>b
<1>1. CASE OnWebSocketOpen
  BY <1>1 DEF OnWebSocketOpen
<1>2. ASSUME NEW m \in OperationMessage, OnWebSocketText(m) PROVE DemandOnItsWay'
  <2>1. received + 1 \in Frames /\ (scope = "active" => framePc'[received + 1] = "received")
    BY <1>0, <1>2 DEF OnWebSocketText
  <2>2. scope' = scope
    BY <1>2 DEF OnWebSocketText
  <2>3. QED
    BY <1>a, <2>1, <2>2
<1>3. ASSUME NEW n \in Frames, ForwardFrame(n) PROVE DemandOnItsWay'
  BY <1>0, <1>3, <1>a DEF ForwardFrame
<1>4. ASSUME NEW n \in Frames, RejectFrame(n) PROVE DemandOnItsWay'
  BY <1>0, <1>4, <1>a DEF RejectFrame
<1>5. ASSUME NEW n \in Frames, AbandonFrame(n) PROVE DemandOnItsWay'
  BY <1>5 DEF AbandonFrame
<1>6. ASSUME NEW n \in Frames, CheckDemand(n) PROVE DemandOnItsWay'
  <2>1. Connected' => scope = "active" /\ ~channelClosed
    BY <1>6 DEF CheckDemand, ConsumerGoesOn
  <2>2. Connected' => framePc'[n] = "demanding"
    BY <1>0, <1>6, <2>1 DEF CheckDemand
  <2>3. QED
    BY <1>a, <2>2
<1>7. ASSUME NEW n \in Frames, Demand(n) PROVE DemandOnItsWay'
  BY <1>7 DEF Demand
<1>8. CASE OnWebSocketClose
  BY <1>8 DEF OnWebSocketClose
<1>9. ASSUME NEW f, CancelScope(f) PROVE DemandOnItsWay'
  BY <1>9 DEF CancelScope
<1>10. CASE Receive
  <2>1. CASE framePc' = framePc
    BY <1>10, <1>b, <2>1 DEF Receive
  <2>2. CASE chan[1].n \in Frames /\ framePc' = [framePc EXCEPT ![chan[1].n] = "finally"]
    BY <1>0, <1>a, <2>2
  <2>3. QED
    BY <1>10, <2>1, <2>2, ReceiveLemma
<1>11. CASE ConsumerFinishes \/ TimerStep \/ KeepAliveTick
  BY <1>11, <1>b
  DEF ConsumerFinishes, TimerStep, InitTimerExpires, InitTimerCloses, close, KeepAliveTick
<1>12. ASSUME NEW n \in Frames, NEW verdict \in Verdicts,
              handleConnectionInit(n, verdict) \/ handleQueryStart(n, verdict)
       PROVE  DemandOnItsWay'
  BY <1>b, <1>12
  DEF handleConnectionInit, handleQueryStart, onDuplicateInit, onInvalidMessage, onDuplicateQuery,
      AnswerOrClose, close
<1>13. ASSUME NEW n \in Frames,
              \/ handleConnectionTerminate(n) \/ handleQueryStop(n) \/ handlePing(n)
              \/ handlePong(n) \/ handleQueryData(n) \/ handleQueryEnd(n)
       PROVE  DemandOnItsWay'
  BY <1>b, <1>13
  DEF handleConnectionTerminate, handleQueryStop, handlePing, handlePong, handleQueryData,
      handleQueryEnd, close
<1>14. CASE handleKeepAlive \/ UNCHANGED vars
  BY <1>b, <1>14 DEF handleKeepAlive, vars
<1>15. ASSUME NEW n \in Frames, QueryStep(n) PROVE DemandOnItsWay'
  <2>1. CASE QuerySetupFails(n)
    BY <1>9, <2>1 DEF QuerySetupFails
  <2>2. CASE QuerySends(n) \/ QueryCancelled(n) \/ \E e \in Events : QueryEvent(n, e)
    BY <1>b, <2>2 DEF QuerySends, QueryCancelled, QueryEvent
  <2>3. QED
    BY <1>15, <2>1, <2>2 DEF QueryStep
<1>16. QED
  BY ClientLemma, <1>1, <1>2, <1>3, <1>4, <1>5, <1>6, <1>7, <1>8, <1>9, <1>10, <1>11, <1>12, <1>13, <1>14, <1>15
  DEF Next, FrameStep, ConsumerStep, HandleFrame, CancelOnClose

(* The consumer handles the last message of a query.                       *)
EndInHand(n) == Current(n) /\ current.type \in {"complete", "error"}

(* No query is forgotten: one that has an id has not been cancelled, and   *)
(* either its flow goes on, or it is suspended in send with its message    *)
(* in the channel, or the consumer has its COMPLETE or ERROR in hand.  A   *)
(* resolver that throws a CancellationException of its own is the only     *)
(* exception.                                                              *)
AnswerOnItsWay ==
  "cancels" \notin QueryEnds /\ scope = "active" /\ session # "closed" =>
    \A n \in Frames : Holds(n) =>
      /\ n \notin cancelled
      /\ \/ job[n] \in {"collecting", "caught", "ready"}
         \/ job[n] = "sending" /\ InChannel("query", n) /\ consumer = "consuming"
         \/ EndInHand(n)

LEMMA AnswerStep ==
  ASSUME RInv, RInv', ConsumerGoesOn, ConsumerGoesOn', SendersInChannel', MessagesOfSenders,
         AnswerOnItsWay, [Next]_vars
  PROVE  AnswerOnItsWay'
<1> USE BoundsAssumption
    DEF sessionVars, adapterVars, channelVars, consumerVars, tableVars, queryVars, timerVars,
        history, Frames, EndInHand, Current
<1> DEFINE Alive(n) == job[n] \in {"collecting", "caught", "ready", "sending"} \/ EndInHand(n)
           Serving == "cancels" \notin QueryEnds /\ scope = "active" /\ session # "closed"
<1>0. /\ job \in [Frames -> {"none", "collecting", "caught", "ready", "sending", "ended"}]
      /\ queries \in [Ids -> 0..MaxFrames]
      /\ consumer' \in {"consuming", "finished"}
      /\ ~(NoOffer.kind = "query")
  BY DEF RInv, IInv, TypeOK, NoOffer
<1>a. ASSUME \A n \in Frames : Serving' /\ Holds(n)' => Alive(n)' PROVE AnswerOnItsWay'
  BY <1>0, <1>a DEF AnswerOnItsWay, ConsumerGoesOn, SendersInChannel, RInv, CancelledGaveBack
<1>b. ASSUME NEW n \in Frames, Serving, Holds(n) PROVE Alive(n)
  BY <1>b DEF AnswerOnItsWay
<1>c. ASSUME scope' = scope, session' # "closed" => session # "closed",
             \A n \in Frames : Holds(n)' => Holds(n),
             \A n \in Frames : Serving /\ Holds(n) /\ Alive(n) => Alive(n)'
      PROVE  AnswerOnItsWay'
  BY <1>a, <1>b, <1>c
<1>d. ASSUME scope' = scope, session' # "closed" => session # "closed",
             UNCHANGED <<frameMsg, queries, job>>,
             current' = current \/ \A n \in Frames : ~EndInHand(n)
      PROVE  AnswerOnItsWay'
  BY <1>c, <1>d DEF Holds
<1>e. ASSUME NEW f, CancelScope(f) PROVE AnswerOnItsWay'
  BY <1>a, <1>e DEF CancelScope
<1>1. CASE OnWebSocketOpen \/ OnWebSocketClose \/ TimerStep \/ ConsumerFinishes \/ UNCHANGED vars
  BY <1>1, <1>d
  DEF OnWebSocketOpen, OnWebSocketClose, TimerStep, InitTimerExpires, InitTimerCloses, close,
      ConsumerFinishes, vars
<1>2. ASSUME NEW m \in OperationMessage, OnWebSocketText(m) PROVE AnswerOnItsWay'
  <2>1. /\ \A n \in Frames : n # received + 1 => frameMsg'[n] = frameMsg[n]
        /\ UNCHANGED <<scope, session, queries, job, current>>
    BY <1>2 DEF OnWebSocketText, RInv, IInv, TypeOK
  <2>2. \A n \in Frames : Holds(n)' => n # received + 1 /\ Holds(n)
    <3>1. received + 1 \in Frames => job[received + 1] = "none"
      BY <1>2 DEF OnWebSocketText, RInv, IInv, TypeOK, FramesCounted, FramesHandledOnce, FrameSettled
    <3>2. \A n \in Frames : Holds(n)' => job[n] # "none"
      BY <2>1 DEF Holds, RInv, HoldersStarted
    <3>3. QED
      BY <2>1, <3>1, <3>2 DEF Holds
  <2>3. QED
    BY <1>c, <2>1, <2>2
<1>3. ASSUME NEW n \in Frames, FrameStep(n) PROVE AnswerOnItsWay'
  <2>1. CASE ForwardFrame(n)
    BY <1>0, <1>d, <2>1 DEF ForwardFrame, HandOver, Suspend, CanHandOver, Receiving
  <2>2. CASE RejectFrame(n)
    BY <1>d, <2>2 DEF RejectFrame, onInvalidMessage, AnswerOrClose, close
  <2>3. CASE AbandonFrame(n) \/ CheckDemand(n) \/ Demand(n)
    BY <1>d, <2>3 DEF AbandonFrame, CheckDemand, Demand
  <2>4. QED
    BY <1>3, <2>1, <2>2, <2>3 DEF FrameStep
<1>4. ASSUME Receive PROVE AnswerOnItsWay'
  <2>1. /\ current = NoOffer /\ current' = chan[1]
        /\ UNCHANGED <<scope, session, frameMsg, queries>>
    BY <1>4, ReceiveLemma DEF Receive, Receiving, RInv, IInv
  <2>2. CASE chan[1].kind = "query"
    <3>1. PICK q \in Frames, e \in Events :
            /\ q = chan[1].n /\ job[q] = "sending" /\ e = event[q] /\ chan[1].type = EventType[e]
      <4>1. 1 \in DOMAIN chan /\ chan[1].n \in Frames /\ job[chan[1].n] = "sending"
        BY <1>4, <2>2, ReceiveLemma DEF RInv, IInv
      <4>2. event[chan[1].n] \in Events /\ chan[1].type = EventType[event[chan[1].n]]
        BY <2>2, <4>1 DEF RInv, IInv, EventsPending, MessagesOfSenders
      <4>3. QED
        BY <4>1, <4>2
    <3>2. job' = [job EXCEPT ![q] = ResumeAt[e]]
      BY <1>4, <2>2, <3>1, ReceiveLemma DEF Receive, Sent, RInv, IInv
    <3>3. ResumeAt[e] \in {"collecting", "caught"} \/ EventType[e] \in {"complete", "error"}
      BY DEF ResumeAt, EventType, Events
    <3>4. Alive(q)' /\ \A n \in Frames : n # q => job'[n] = job[n]
      BY <1>0, <2>1, <2>2, <3>1, <3>2, <3>3
    <3>5. \A n \in Frames : Alive(n) => Alive(n)'
      BY <1>0, <2>1, <3>4
    <3>6. QED
      BY <1>c, <2>1, <3>5 DEF Holds
  <2>3. CASE chan[1].kind # "query"
    BY <1>0, <1>4, <1>d, <2>1, <2>3, ReceiveLemma DEF RInv, IInv
  <2>4. QED
    BY <2>2, <2>3
<1>5. ASSUME NEW n \in Frames, NEW verdict \in Verdicts, handleConnectionInit(n, verdict)
      PROVE  AnswerOnItsWay'
  BY <1>5, <1>d DEF handleConnectionInit, HandlingFrame, onDuplicateInit, AnswerOrClose, close
<1>6. ASSUME NEW n \in Frames, NEW verdict \in Verdicts, handleQueryStart(n, verdict)
      PROVE  AnswerOnItsWay'
  <2>1. /\ \A k \in Frames : ~EndInHand(k)
        /\ UNCHANGED <<scope, frameMsg>>
        /\ session' # "closed" => session # "closed"
    BY <1>6
    DEF handleQueryStart, HandlingFrame, onInvalidMessage, onDuplicateQuery, AnswerOrClose, close
  <2>2. CASE UNCHANGED <<job, queries>>
    BY <1>d, <2>1, <2>2
  <2>3. CASE /\ queries' = [queries EXCEPT ![frameMsg[n].id] = n]
             /\ job' = [job EXCEPT ![n] = IF scope = "active" THEN "collecting" ELSE "ended"]
    <3>1. Serving' => Alive(n)'
      BY <1>0, <2>1, <2>3
    <3>2. ASSUME NEW k \in Frames, k # n, Holds(k)', Serving' PROVE Alive(k)'
      BY <1>0, <1>b, <2>1, <2>3, <3>2 DEF Holds
    <3>3. QED
      BY <1>a, <3>1, <3>2
  <2>4. QED
    BY <1>6, <2>2, <2>3, LaunchLemma DEF RInv, IInv
<1>7. ASSUME NEW n \in Frames, handleQueryStop(n) \/ handleQueryEnd(n) PROVE AnswerOnItsWay'
  <2>1. UNCHANGED <<scope, session, frameMsg>>
    BY <1>7, EndLemma DEF surroundings, RInv, IInv
  <2>2. \A k \in Frames : EndInHand(k) => handleQueryEnd(n) /\ k = n
    BY <1>7 DEF handleQueryStop, HandlingFrame, handleQueryEnd
  <2>3. \A k \in Frames : Holds(k)' => ~EndInHand(k)
    <3>1. handleQueryEnd(n) => frameMsg[n].id \in Ids /\ queries' = [queries EXCEPT ![frameMsg[n].id] = 0]
      BY DEF handleQueryEnd, RInv, IInv, QueriesHaveIds
    <3>2. QED
      BY <1>0, <2>1, <2>2, <3>1 DEF Holds
  <2>4. CASE UNCHANGED <<job, queries>>
    BY <1>a, <1>b, <2>1, <2>3, <2>4 DEF Holds
  <2>5. ASSUME NEW id \in Ids, queries[id] \in Frames, CancelQuery(queries[id]),
               queries' = [queries EXCEPT ![id] = 0]
        PROVE  AnswerOnItsWay'
    <3>1. ASSUME NEW k \in Frames, Holds(k)' PROVE Holds(k) /\ k # queries[id]
      <4>1. frameMsg[k].id # id
        BY <1>0, <2>1, <2>5, <3>1 DEF Holds
      <4>2. Holds(k)
        BY <1>0, <2>1, <2>5, <3>1, <4>1 DEF Holds
      <4>3. QED
        BY <2>5, <4>1, <4>2 DEF RInv, HoldersStarted
    <3>2. \A k \in Frames : k # queries[id] => job'[k] = job[k]
      BY <1>0, <2>5 DEF CancelQuery
    <3>3. QED
      BY <1>a, <1>b, <2>1, <2>3, <3>1, <3>2
  <2>6. QED
    BY <1>7, <2>4, <2>5, EndLemma DEF RInv, IInv
<1>8. ASSUME NEW n \in Frames,
             \/ handleConnectionTerminate(n) \/ handlePing(n) \/ handlePong(n) \/ handleQueryData(n)
      PROVE  AnswerOnItsWay'
  BY <1>8, <1>d
  DEF handleConnectionTerminate, handlePing, handlePong, handleQueryData, HandlingFrame, close
<1>9. CASE handleKeepAlive
  BY <1>9, <1>d DEF handleKeepAlive, KeepAliveOffer
<1>10. ASSUME NEW n \in Frames, NEW e \in Events, QueryEvent(n, e) PROVE AnswerOnItsWay'
  <2>1. UNCHANGED <<scope, session, frameMsg, queries, current>> /\ job' = [job EXCEPT ![n] = "ready"]
    BY <1>10 DEF QueryEvent
  <2>2. QED
    BY <1>0, <1>c, <2>1 DEF Holds
<1>11. ASSUME NEW n \in Frames, QuerySends(n) PROVE AnswerOnItsWay'
  <2>1. /\ UNCHANGED <<scope, session, frameMsg, queries>> /\ job[n] = "ready"
        /\ event[n] \in Events
    BY <1>11 DEF QuerySends, RInv, IInv, EventsPending
  <2>2. ASSUME Serving, Holds(n)
        PROVE  Alive(n)' /\ \A k \in Frames : k # n /\ Alive(k) => Alive(k)'
    <3>1. ~channelClosed /\ n \notin cancelled
      BY <2>2 DEF ConsumerGoesOn, RInv, CancelledGaveBack
    <3>2. CASE HandOver(QueryOffer(n)) /\ Sent(n)
      <4>1. ResumeAt[event[n]] \in {"collecting", "caught"} \/ EventType[event[n]] \in {"complete", "error"}
        BY <2>1 DEF ResumeAt, EventType, Events
      <4>2. /\ job' = [job EXCEPT ![n] = ResumeAt[event[n]]]
            /\ current = NoOffer /\ current' = QueryOffer(n)
        BY <3>2 DEF HandOver, CanHandOver, Receiving, Sent
      <4>3. QED
        BY <1>0, <4>1, <4>2 DEF QueryOffer
    <3>3. CASE Suspend(QueryOffer(n)) /\ job' = [job EXCEPT ![n] = "sending"]
      BY <1>0, <3>3 DEF Suspend
    <3>4. QED
      BY <1>11, <3>1, <3>2, <3>3 DEF QuerySends
  <2>3. ASSUME ~Holds(n), NEW k \in Frames, Holds(k), Alive(k) PROVE Alive(k)'
    <3>1. k # n /\ job'[k] = job[k]
      BY <1>0, <1>11, <2>3 DEF QuerySends, Sent
    <3>2. current' = current \/ current = NoOffer
      BY <1>11 DEF QuerySends, HandOver, CanHandOver, Receiving, Suspend
    <3>3. QED
      BY <1>0, <2>3, <3>1, <3>2
  <2>4. QED
    BY <1>c, <2>1, <2>2, <2>3 DEF Holds
<1>12. ASSUME NEW n \in Frames, QueryCancelled(n) PROVE AnswerOnItsWay'
  <2>1. /\ UNCHANGED <<scope, session, frameMsg, queries, current>>
        /\ job' = [job EXCEPT ![n] = "ended"]
        /\ n \in cancelled \/ "cancels" \in QueryEnds
    BY <1>12 DEF QueryCancelled
  <2>2. Serving => ~Holds(n)
    BY <2>1 DEF RInv, CancelledGaveBack
  <2>3. QED
    BY <1>0, <1>c, <2>1, <2>2 DEF Holds
<1>13. CASE KeepAliveTick
  BY <1>0, <1>13, <1>d DEF KeepAliveTick, HandOver, CanHandOver, Receiving, Suspend
<1>14. QED
  BY ClientLemma, <1>1, <1>2, <1>3, <1>4, <1>5, <1>6, <1>7, <1>8, <1>9, <1>10, <1>11, <1>12, <1>13, <1>e
  DEF Next, ConsumerStep, HandleFrame, QueryStep, QuerySetupFails, CancelOnClose

PInv ==
  /\ RInv
  /\ ConsumerGoesOn
  /\ SendersInChannel
  /\ MessagesOfSenders
  /\ DemandOnItsWay
  /\ AnswerOnItsWay

LEMMA ProgressInvariance == Spec => []PInv
<1>1. Init => PInv
  <2> SUFFICES ASSUME Init PROVE PInv
    OBVIOUS
  <2>1. ~\E n \in Frames : Holds(n)
    BY DEF Init, Holds, Frames
  <2>2. QED
    BY <2>1, RefinementInit
    DEF Init, PInv, ConsumerGoesOn, SendersInChannel, MessagesOfSenders, DemandOnItsWay, Connected,
        AnswerOnItsWay
<1>2. PInv /\ [Next]_vars => PInv'
  BY RefinementStep, ConsumerGoesOnStep, InChannelStep, MessagesStep, DemandStep, AnswerStep DEF PInv
<1>3. QED
  BY <1>1, <1>2, PTL DEF Spec

(* The safety that DemandReturns rests on: from the delivery of a frame to *)
(* the next demand() there is always a coroutine on its way, and it never  *)
(* waits for a consumer that has gone or has nothing to receive from it    *)
(* (onWebSocketText, with its finally block and its isClosedForSend test). *)
THEOREM DemandPromised == Spec => []DemandOnItsWay
<1>1. PInv => DemandOnItsWay
  BY DEF PInv
<1>2. QED
  BY ProgressInvariance, <1>1, PTL

(* The safety that QueriesAnswered rests on: while a query has its id, its *)
(* COMPLETE or ERROR is still to come, however it was raced by stops,      *)
(* restarts under the same id and the consumer (queries, queueMessage,     *)
(* handleClientBoundMessage).                                              *)
THEOREM AnswerPromised == Spec => []AnswerOnItsWay
<1>1. PInv => AnswerOnItsWay
  BY DEF PInv
<1>2. QED
  BY ProgressInvariance, <1>1, PTL

(* An open connection whose scope is cancelled had a query whose set-up    *)
(* failed, and its consumer goes on unless that happens (launchQuery, and  *)
(* the scope.cancel() of onWebSocketClose).                                *)
THEOREM ConsumerStays == Spec => []ConsumerGoesOn
<1>1. PInv => ConsumerGoesOn
  BY DEF PInv
<1>2. QED
  BY ProgressInvariance, <1>1, PTL

(* Once the scope is cancelled nothing starts any more: the channel stays  *)
(* empty, the consumer takes no further message, and no frame, query or    *)
(* timer begins.  What is left of the connection can only come to its end. *)
NothingStarts ==
  [][scope = "cancelled" =>
       /\ scope' = "cancelled" /\ chan' = <<>> /\ keepAlive' = "off"
       /\ current' \in {current, NoOffer}
       /\ \A n \in Frames : (LiveFrame(n)' => LiveFrame(n)) /\ (LiveQuery(n)' => LiveQuery(n))]_vars

LEMMA CancelledStep ==
  ASSUME RInv, [Next]_vars, scope = "cancelled"
  PROVE  /\ scope' = "cancelled" /\ chan' = <<>> /\ keepAlive' = "off"
         /\ current' \in {current, NoOffer}
         /\ \A n \in Frames : (LiveFrame(n)' => LiveFrame(n)) /\ (LiveQuery(n)' => LiveQuery(n))
<1> USE BoundsAssumption
    DEF sessionVars, adapterVars, channelVars, consumerVars, tableVars, queryVars, timerVars,
        history, Frames, RInv, IInv, LiveFrame, LiveQuery
<1> DEFINE Dying ==
             /\ scope' = "cancelled" /\ chan' = <<>> /\ keepAlive' = "off"
             /\ current' \in {current, NoOffer}
             /\ \A n \in Frames : (LiveFrame(n)' => LiveFrame(n)) /\ (LiveQuery(n)' => LiveQuery(n))
<1>0. /\ framePc \in [Frames -> {"new", "received", "sending", "finally", "demanding", "done"}]
      /\ job \in [Frames -> {"none", "collecting", "caught", "ready", "sending", "ended"}]
      /\ chan = <<>> /\ keepAlive = "off" /\ ~Receiving
  BY DEF TypeOK, ScopeEnds, ConsumerEnds, Receiving
<1>1. ASSUME QuietStep PROVE Dying
  BY <1>0, <1>1, QuietLemma
<1>2. ASSUME NEW m \in OperationMessage, OnWebSocketText(m) PROVE Dying
  BY <1>0, <1>2 DEF OnWebSocketText
<1>3. ASSUME NEW n \in Frames,
             RejectFrame(n) \/ AbandonFrame(n) \/ CheckDemand(n) \/ Demand(n)
      PROVE  Dying
  BY <1>0, <1>3 DEF RejectFrame, AbandonFrame, CheckDemand, Demand
<1>4. ASSUME NEW n \in Frames, NEW verdict \in Verdicts, handleQueryStart(n, verdict) PROVE Dying
  BY <1>0, <1>4, LaunchLemma
<1>5. ASSUME NEW n \in Frames, handleQueryStop(n) \/ handleQueryEnd(n) PROVE Dying
  <2>1. /\ current' = NoOffer /\ scope' = scope /\ framePc' = framePc /\ keepAlive' = keepAlive
    BY <1>5, EndLemma DEF surroundings
  <2>2. ASSUME NEW q \in Frames, CancelQuery(q)
        PROVE  chan' = chan /\ \A n1 \in Frames : LiveQuery(n1)' => LiveQuery(n1)
    BY <1>0, <2>2 DEF CancelQuery
  <2>3. QED
    BY <1>0, <1>5, <2>1, <2>2, EndLemma
<1>6. ASSUME NEW n \in Frames, NEW e \in Events, QueryEvent(n, e) PROVE Dying
  BY <1>0, <1>6 DEF QueryEvent
<1>7. ASSUME NEW n \in Frames, QuerySends(n) PROVE Dying
  <2>1. LiveQuery(n) /\ n \in cancelled
    BY <1>7 DEF QuerySends, ScopeEnds
  <2>2. chan' = chan /\ current' = current
    BY <1>0, <1>7, <2>1 DEF QuerySends, HandOver, CanHandOver
  <2>3. QED
    BY <1>0, <1>7, <2>1, <2>2, SendsLemma DEF surroundings
<1>8. ASSUME NEW n \in Frames, QueryCancelled(n) PROVE Dying
  BY <1>0, <1>8 DEF QueryCancelled
<1>9. ASSUME NEW f, CancelScope(f), UNCHANGED <<current, framePc>> PROVE Dying
  BY <1>0, <1>9 DEF CancelScope
<1>10. QED
  BY ClientLemma, <1>0, <1>1, <1>2, <1>3, <1>4, <1>5, <1>6, <1>7, <1>8, <1>9
  DEF QuietStep, Next, FrameStep, QueryStep, ConsumerStep, HandleFrame, ForwardFrame,
      Receive, KeepAliveTick, CancelOnClose, QuerySetupFails

(* What NothingOutlivesSocket rests on: onWebSocketClose cancels the scope *)
(* after it has closed the channel, and a coroutine launched or resumed    *)
(* after that does not run, so what is left of a connection only shrinks.  *)
THEOREM Quiescence == Spec => NothingStarts
<1>1. RInv /\ [Next]_vars =>
        [scope = "cancelled" =>
           /\ scope' = "cancelled" /\ chan' = <<>> /\ keepAlive' = "off"
           /\ current' \in {current, NoOffer}
           /\ \A n \in Frames : (LiveFrame(n)' => LiveFrame(n)) /\ (LiveQuery(n)' => LiveQuery(n))]_vars
  BY CancelledStep
<1>2. QED
  BY RefinementInvariance, <1>1, PTL DEF Spec, NothingStarts

-----------------------------------------------------------------------------
(* Answers fit what they answer, in the vocabulary the client has chosen.  *)

Fits(reply, operation) ==
  \/ reply = "error"
  \/ operation = "connection_init" /\ reply \in {"connection_ack", getServerToClientMessage("ka")}
  \/ operation = "connection_init" /\ reply = "connection_error" /\ Protocol = APOLLO_PROTOCOL
  \/ operation = "start" /\ reply \in {getServerToClientMessage("data"), "complete"}
  \/ operation = "ping" /\ reply = "pong"

(* What a client is sent for a frame is an error or what its operation     *)
(* calls for, in the words of its own sub-protocol: results and a COMPLETE *)
(* go to queries only, the acknowledgement and every keepalive to a        *)
(* connection_init, a connection_error to Apollo clients only.             *)
AnsweredInKind ==
  \A n \in Frames : \A i \in DOMAIN replies[n] : Fits(replies[n][i], Asked(n))

(* One more reply that fits, or none.                                      *)
LEMMA KindLemma ==
  ASSUME TypeOK, AnsweredInKind, frameMsg' = frameMsg, NEW n \in Frames, NEW type,
         sendMessage(n, type) \/ UNCHANGED replies,
         Fits(getServerToClientMessage(type), Asked(n))
  PROVE  AnsweredInKind'
<1> DEFINE said == getServerToClientMessage(type)
<1>1. \A k \in Frames : Asked(k)' = Asked(k)
  BY DEF Asked
<1>2. CASE UNCHANGED replies
  BY <1>1, <1>2 DEF AnsweredInKind, Fits
<1>3. CASE sendMessage(n, type) /\ session = "open"
  <2>1. /\ replies \in [Frames -> Seq(OperationTypes)]
        /\ replies' = [replies EXCEPT ![n] = Append(replies[n], said)]
    BY <1>3 DEF TypeOK, sendMessage
  <2> HIDE DEF said
  <2>2. replies'[n] = Append(replies[n], said) /\ replies[n] \in Seq(OperationTypes)
    BY <2>1
  <2>3. \A i \in DOMAIN replies'[n] :
          replies'[n][i] = said \/ (i \in DOMAIN replies[n] /\ replies'[n][i] = replies[n][i])
    BY <2>2
  <2>4. \A k \in Frames : k # n => replies'[k] = replies[k]
    BY <2>1
  <2>5. Fits(said, Asked(n))
    BY DEF said
  <2>6. QED
    BY <1>1, <2>3, <2>4, <2>5 DEF AnsweredInKind, Fits
<1>4. QED
  BY <1>2, <1>3 DEF sendMessage

(* Two more replies that fit, or none.                                     *)
LEMMA KindTwiceLemma ==
  ASSUME TypeOK, AnsweredInKind, frameMsg' = frameMsg, NEW n \in Frames, NEW first, NEW second,
         sendMessages(n, first, second),
         Fits(getServerToClientMessage(first), Asked(n)),
         Fits(getServerToClientMessage(second), Asked(n))
  PROVE  AnsweredInKind'
<1> DEFINE said == getServerToClientMessage(first)
           then == getServerToClientMessage(second)
<1>1. \A k \in Frames : Asked(k)' = Asked(k)
  BY DEF Asked
<1>2. CASE UNCHANGED replies
  BY <1>1, <1>2 DEF AnsweredInKind, Fits
<1>3. CASE session = "open"
  <2>1. /\ replies \in [Frames -> Seq(OperationTypes)]
        /\ replies' = [replies EXCEPT ![n] = Append(Append(replies[n], said), then)]
    BY <1>3 DEF TypeOK, sendMessages
  <2>2. Fits(said, Asked(n)) /\ Fits(then, Asked(n))
    OBVIOUS
  <2> HIDE DEF said, then
  <2>3. replies'[n] = Append(Append(replies[n], said), then) /\ replies[n] \in Seq(OperationTypes)
    BY <2>1
  <2>4. \A i \in DOMAIN replies'[n] :
          \/ replies'[n][i] \in {said, then}
          \/ i \in DOMAIN replies[n] /\ replies'[n][i] = replies[n][i]
    BY <2>3
  <2>5. \A k \in Frames : k # n => replies'[k] = replies[k]
    BY <2>1
  <2>6. QED
    BY <1>1, <2>2, <2>4, <2>5 DEF AnsweredInKind, Fits
<1>4. QED
  BY <1>2, <1>3 DEF sendMessages

(* What the translation makes of the messages that answer something.       *)
LEMMA RepliesTranslated ==
  /\ \A type \in {"error", "connection_ack", "complete", "pong", "connection_error"} :
       getServerToClientMessage(type) = type
  /\ \A operation : Fits("error", operation)
  /\ Fits(getServerToClientMessage("data"), "start") /\ Fits("complete", "start")
  BY DEF Fits, getServerToClientMessage, getMessage, apolloToGraphQlWsMapping

LEMMA AnsweredInKindStep ==
  ASSUME RInv, AnsweredInKind, [Next]_vars
  PROVE  AnsweredInKind'
<1> USE DEF sessionVars, adapterVars, channelVars, consumerVars, tableVars, queryVars, timerVars,
            history
<1>0. TypeOK
  BY DEF RInv, IInv
<1>a. ASSUME UNCHANGED <<frameMsg, replies>> PROVE AnsweredInKind'
  BY <1>a DEF AnsweredInKind, Fits, Asked
<1>b. ASSUME frameMsg' = frameMsg, NEW n \in Frames, NEW type,
             sendMessage(n, type) \/ UNCHANGED replies,
             Fits(getServerToClientMessage(type), Asked(n))
      PROVE  AnsweredInKind'
  BY <1>0, <1>b, KindLemma
<1>c. ASSUME frameMsg' = frameMsg, NEW n \in Frames,
             sendMessage(n, "error") \/ UNCHANGED replies
      PROVE  AnsweredInKind'
  BY <1>b, <1>c, RepliesTranslated
<1>d. ASSUME NEW n \in Frames, NEW operation, HandlingFrame(n, operation)
      PROVE  Asked(n) = operation
  BY <1>d DEF RInv, AskedOnTheWay, HandlingFrame
<1>1. CASE OnWebSocketOpen \/ OnWebSocketClose \/ CancelOnClose \/ KeepAliveTick \/ TimerStep
           \/ UNCHANGED vars
  BY <1>1, <1>a DEF OnWebSocketOpen, OnWebSocketClose, CancelOnClose, KeepAliveTick, TimerStep,
                    InitTimerExpires, InitTimerCloses, vars
<1>2. CASE Receive \/ ConsumerFinishes
  BY <1>2, <1>a DEF Receive, ConsumerFinishes
<1>3. ASSUME NEW m \in OperationMessage, OnWebSocketText(m) PROVE AnsweredInKind'
  <2>1. /\ received + 1 \in Frames /\ framePc[received + 1] = "new" /\ UNCHANGED replies
        /\ frameMsg' = [frameMsg EXCEPT ![received + 1] = m]
    BY <1>0, <1>3, BoundsAssumption DEF OnWebSocketText, RInv, IInv, FramesCounted, TypeOK, Frames
  <2>2. replies[received + 1] = <<>>
    BY <2>1 DEF RInv, FreshFrames, FrameSettled
  <2>3. \A k \in Frames : k # received + 1 => Asked(k)' = Asked(k)
    BY <1>0, <2>1 DEF Asked, TypeOK
  <2>4. DOMAIN <<>> = {}
    OBVIOUS
  <2>5. QED
    BY <2>1, <2>2, <2>3, <2>4 DEF AnsweredInKind, Fits
<1>4. ASSUME NEW n \in Frames,
             ForwardFrame(n) \/ AbandonFrame(n) \/ CheckDemand(n) \/ Demand(n) \/ QueryStep(n)
      PROVE  AnsweredInKind'
  BY <1>4, <1>a
  DEF ForwardFrame, AbandonFrame, CheckDemand, Demand, QueryStep, QueryEvent, QuerySends,
      QueryCancelled, QuerySetupFails
<1>5. ASSUME NEW n \in Frames, RejectFrame(n) PROVE AnsweredInKind'
  BY <1>5, <1>c DEF RejectFrame, onInvalidMessage, AnswerOrClose
<1>6. ASSUME NEW n \in Frames, NEW verdict \in Verdicts, handleConnectionInit(n, verdict)
      PROVE  AnsweredInKind'
  <2>1. frameMsg' = frameMsg /\ Asked(n) = "connection_init"
    BY <1>6, <1>d DEF handleConnectionInit
  <2>2. \/ sendMessage(n, "error") \/ UNCHANGED replies
        \/ sendMessage(n, "connection_ack") \/ sendMessages(n, "connection_ack", "ka")
        \/ sendMessage(n, "connection_error") /\ Protocol = APOLLO_PROTOCOL
    BY <1>6 DEF handleConnectionInit, onDuplicateInit, AnswerOrClose, acknowledge
  <2>3. CASE sendMessage(n, "connection_ack") \/ sendMessages(n, "connection_ack", "ka")
    <3>1. /\ Fits(getServerToClientMessage("connection_ack"), Asked(n))
          /\ Fits(getServerToClientMessage("ka"), Asked(n))
      BY <2>1, RepliesTranslated DEF Fits
    <3>2. QED
      BY <1>0, <1>b, <2>1, <2>3, <3>1, KindTwiceLemma
  <2>4. CASE sendMessage(n, "connection_error") /\ Protocol = APOLLO_PROTOCOL
    <3>1. Fits(getServerToClientMessage("connection_error"), Asked(n))
      BY <2>1, <2>4, RepliesTranslated DEF Fits
    <3>2. QED
      BY <1>b, <2>1, <2>4, <3>1
  <2>5. QED
    BY <1>c, <2>1, <2>2, <2>3, <2>4
<1>7. ASSUME NEW n \in Frames, NEW verdict \in Verdicts, handleQueryStart(n, verdict)
      PROVE  AnsweredInKind'
  BY <1>7, <1>c DEF handleQueryStart, onInvalidMessage, onDuplicateQuery, AnswerOrClose
<1>8. ASSUME NEW n \in Frames, handleConnectionTerminate(n) \/ handlePong(n) PROVE AnsweredInKind'
  BY <1>8, <1>a DEF handleConnectionTerminate, handlePong
<1>9. ASSUME NEW n \in Frames, handlePing(n) PROVE AnsweredInKind'
  <2>1. frameMsg' = frameMsg /\ (sendMessage(n, "pong") \/ sendMessage(n, "error"))
    BY <1>9 DEF handlePing
  <2>2. Fits(getServerToClientMessage("pong"), Asked(n))
    BY <1>9, <1>d, RepliesTranslated DEF handlePing, Fits
  <2>3. QED
    BY <1>b, <1>c, <2>1, <2>2
<1>10. ASSUME NEW n \in Frames, handleQueryStop(n) PROVE AnsweredInKind'
  <2> DEFINE toStop == RunningQuery(frameMsg[n].id)
  <2>1. frameMsg' = frameMsg
    BY <1>10 DEF handleQueryStop
  <2>2. CASE toStop # 0 /\ sendMessage(toStop, "complete")
    <3>1. frameMsg[n].id \in Ids
      BY <1>0, <2>2, TableLemma DEF RunningQuery
    <3>2. queries[frameMsg[n].id] = toStop /\ toStop \in Frames
      BY <1>0, <2>2, <3>1, TableLemma DEF RunningQuery, TypeOK
    <3>3. Asked(toStop) = "start"
      BY <3>1, <3>2 DEF RInv, HoldersStarted, AskedOnTheWay
    <3>4. QED
      BY <1>b, <2>1, <2>2, <3>2, <3>3, RepliesTranslated
  <2>3. QED
    BY <1>10, <1>c, <2>1, <2>2 DEF handleQueryStop
<1>11. ASSUME NEW n \in Frames, handleQueryData(n) \/ handleQueryEnd(n) PROVE AnsweredInKind'
  <2>1. /\ frameMsg' = frameMsg /\ current.kind = "query" /\ current.n = n
        /\ current.type \in {"data", "complete", "error"}
        /\ sendMessage(n, current.type)
    BY <1>11 DEF handleQueryData, handleQueryEnd, handleClientBoundMessage
  <2>2. Asked(n) = "start"
    BY <2>1 DEF RInv, IInv, QueriesHaveIds, AskedOnTheWay
  <2>3. Fits(getServerToClientMessage(current.type), Asked(n))
    BY <2>1, <2>2, RepliesTranslated
  <2>4. QED
    BY <1>b, <2>1, <2>3
<1>12. CASE handleKeepAlive
  <2>1. frameMsg' = frameMsg /\ current.kind = "keepalive" /\ sendMessage(current.n, "ka")
    BY <1>12 DEF handleKeepAlive
  <2>2. current.n \in Frames /\ Asked(current.n) = "connection_init"
    BY <2>1 DEF RInv, KeepAlivesOnTheWay, Greeting
  <2>3. Fits(getServerToClientMessage("ka"), Asked(current.n))
    BY <2>2 DEF Fits
  <2>4. QED
    BY <1>b, <2>1, <2>2, <2>3
<1>13. QED
  BY ClientLemma, <1>1, <1>2, <1>3, <1>4, <1>5, <1>6, <1>7, <1>8, <1>9, <1>10, <1>11, <1>12
  DEF Next, FrameStep, ConsumerStep, HandleFrame

(* Whatever the interleaving, a message a client receives answers what it  *)
(* sent, in the vocabulary of the sub-protocol it chose: results and       *)
(* COMPLETE reach only starts, keepalives, the periodic ones too, only the *)
(* connection_init that was acknowledged, and no connection_error reaches  *)
(* a graphql-transport-ws client (sendMessage, getServerToClientMessage,   *)
(* KeepAliveCoroutine and the handlers of GraphQLWebSocketConsumer).       *)
THEOREM InKind == Spec => []AnsweredInKind
<1>1. Init => AnsweredInKind
  BY DEF Init, AnsweredInKind
<1>2. RInv /\ AnsweredInKind /\ [Next]_vars => AnsweredInKind'
  BY AnsweredInKindStep
<1>3. QED
  BY RefinementInvariance, <1>1, <1>2, PTL DEF Spec
=============================================================================
