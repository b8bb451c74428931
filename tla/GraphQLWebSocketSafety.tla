----------------------- MODULE GraphQLWebSocketSafety -----------------------
(***************************************************************************)
(* The inductive invariant of GraphQLWebSocket and the safety theorems it  *)
(* gives, for every set of ids, every set of client frames, every bound    *)
(* and both sub-protocols.                                                 *)
(***************************************************************************)
EXTENDS GraphQLWebSocket, SequenceTheorems, TLAPS

-----------------------------------------------------------------------------
(* Groundwork: every step keeps the types, and what each step that touches *)
(* the channel, the frames or the queries does to them.                    *)

(* A coroutine that is about to send has something to send.                *)
EventsPending ==
  \A n \in Frames : job[n] \in {"ready", "sending"} => event[n] \in Events

(* Only a frame with an id starts a query, and only a query sends.         *)
QueriesHaveIds ==
  /\ \A n \in Frames : job[n] # "none" => frameMsg[n].id \in Ids
  /\ \A n \in Frames : current.kind = "query" /\ current.n = n => job[n] # "none"

-----------------------------------------------------------------------------
(* What taking one element out of a sequence leaves.                       *)
LEMMA RemoveAtLemma ==
  ASSUME NEW S, NEW s \in Seq(S), NEW i \in DOMAIN s
  PROVE  /\ RemoveAt(s, i) \in Seq(S)
         /\ Len(RemoveAt(s, i)) = Len(s) - 1
         /\ \A j \in DOMAIN RemoveAt(s, i) :
              RemoveAt(s, i)[j] = s[IF j < i THEN j ELSE j + 1]
<1> DEFINE front == SubSeq(s, 1, i - 1)
           back == SubSeq(s, i + 1, Len(s))
<1>1. i \in 1..Len(s) /\ Len(s) \in Nat
  BY LenProperties
<1>2. /\ front \in Seq(S)
      /\ Len(front) = i - 1
      /\ \A j \in 1..(i - 1) : front[j] = s[j]
  <2>1. \A j \in 1..(i - 1) : s[j] \in S
    BY <1>1, ElementOfSeq
  <2>2. QED
    BY <1>1, <2>1, SubSeqProperties
<1>3. /\ back \in Seq(S)
      /\ Len(back) = Len(s) - i
      /\ \A j \in 1..(Len(s) - i) : back[j] = s[i + j]
  <2>1. \A j \in (i + 1)..Len(s) : s[j] \in S
    BY <1>1, ElementOfSeq
  <2>2. QED
    BY <1>1, <2>1, SubSeqProperties
<1>4. RemoveAt(s, i) = front \o back
  BY DEF RemoveAt
<1>5. /\ RemoveAt(s, i) \in Seq(S)
      /\ Len(RemoveAt(s, i)) = Len(s) - 1
      /\ \A j \in 1..(Len(s) - 1) :
           RemoveAt(s, i)[j] = IF j <= i - 1 THEN front[j] ELSE back[j - (i - 1)]
  <2> HIDE DEF front, back
  <2>1. /\ front \o back \in Seq(S)
        /\ Len(front \o back) = Len(front) + Len(back)
        /\ \A j \in 1..(Len(front) + Len(back)) :
             (front \o back)[j] = IF j <= Len(front) THEN front[j] ELSE back[j - Len(front)]
    BY <1>2, <1>3, ConcatProperties
  <2>2. Len(front) + Len(back) = Len(s) - 1
    BY <1>1, <1>2, <1>3
  <2>3. QED
    BY <1>2, <1>4, <2>1, <2>2
<1>6. DOMAIN RemoveAt(s, i) = 1..(Len(s) - 1)
  BY <1>1, <1>5, LenProperties
<1>7. ASSUME NEW j \in 1..(Len(s) - 1)
      PROVE  RemoveAt(s, i)[j] = s[IF j < i THEN j ELSE j + 1]
  <2> HIDE DEF front, back
  <2>1. CASE j < i
    BY <1>1, <1>2, <1>5, <2>1
  <2>2. CASE ~(j < i)
    <3>1. j - (i - 1) \in 1..(Len(s) - i) /\ i + (j - (i - 1)) = j + 1
      BY <1>1, <2>2
    <3>2. back[j - (i - 1)] = s[j + 1]
      BY <1>3, <3>1
    <3>3. QED
      BY <1>1, <1>5, <2>2, <3>2
  <2>3. QED
    BY <2>1, <2>2
<1>8. QED
  BY <1>5, <1>6, <1>7

(* Both translations stay within the message types.                        *)
LEMMA TranslationLemma ==
  ASSUME NEW type \in OperationTypes
  PROVE  getServerToClientMessage(type) \in OperationTypes
  BY DEF getServerToClientMessage, getMessage, apolloToGraphQlWsMapping, OperationTypes

(* The messages that enter the channel are well-formed.                    *)
LEMMA OfferLemma ==
  /\ \A n \in Frames : IsClientSourced(n) => FrameOffer(n) \in Offer
  /\ \A n \in Frames : event[n] \in Events => QueryOffer(n) \in Offer
  /\ TypeOK => KeepAliveOffer \in Offer
  BY BoundsAssumption
  DEF Frames, IsClientSourced, FrameOffer, QueryOffer, KeepAliveOffer, Offer, EventType, Events,
      CLIENT_SOURCED_MESSAGES, OperationTypes, TypeOK

-----------------------------------------------------------------------------
(* What sending and closing do to the types.                               *)
LEMMA ReplyLemma ==
  ASSUME TypeOK, NEW n, NEW type \in OperationTypes, sendMessage(n, type)
  PROVE  replies' \in [Frames -> Seq(OperationTypes)]
<1>1. replies \in [Frames -> Seq(OperationTypes)] /\ getServerToClientMessage(type) \in OperationTypes
  BY TranslationLemma DEF TypeOK
<1>2. \A k \in Frames : Append(replies[k], getServerToClientMessage(type)) \in Seq(OperationTypes)
  BY <1>1
<1>3. QED
  BY <1>1, <1>2 DEF sendMessage

LEMMA RepliesLemma ==
  ASSUME TypeOK, NEW n \in Frames, NEW first \in OperationTypes, NEW second \in OperationTypes,
         sendMessages(n, first, second)
  PROVE  replies' \in [Frames -> Seq(OperationTypes)]
<1> DEFINE one == getServerToClientMessage(first)
           two == getServerToClientMessage(second)
<1>1. replies \in [Frames -> Seq(OperationTypes)] /\ one \in OperationTypes /\ two \in OperationTypes
  BY TranslationLemma DEF TypeOK
<1>2. replies' = replies \/ replies' = [replies EXCEPT ![n] = Append(Append(replies[n], one), two)]
  BY DEF sendMessages
<1> HIDE DEF one, two
<1>3. Append(Append(replies[n], one), two) \in Seq(OperationTypes)
  BY <1>1
<1>4. QED
  BY <1>1, <1>2, <1>3

LEMMA CloseLemma ==
  ASSUME TypeOK, NEW reason \in GraphQLWebSocketCloseReason, close(reason)
  PROVE  /\ session' \in {"connecting", "open", "closing", "closed"}
         /\ closeReason' \in GraphQLWebSocketCloseReason \cup {"none"}
  BY DEF TypeOK, close, sessionVars

LEMMA AnswerOrCloseLemma ==
  ASSUME TypeOK, NEW n \in Frames, NEW type \in OperationTypes,
         NEW reason \in GraphQLWebSocketCloseReason, AnswerOrClose(n, type, reason)
  PROVE  /\ session' \in {"connecting", "open", "closing", "closed"}
         /\ closeReason' \in GraphQLWebSocketCloseReason \cup {"none"}
         /\ replies' \in [Frames -> Seq(OperationTypes)]
  BY ReplyLemma, CloseLemma DEF AnswerOrClose, TypeOK, sessionVars

(* One more sender in the channel, which was not in it.                    *)
LEMMA SuspendLemma ==
  ASSUME chan \in Seq(Offer), NEW m \in Offer, chan' = Append(chan, m)
  PROVE  /\ chan' \in Seq(Offer)
         /\ Len(chan') = Len(chan) + 1
         /\ \A i \in DOMAIN chan' : i # Len(chan') => i \in DOMAIN chan /\ chan'[i] = chan[i]
         /\ Len(chan') \in DOMAIN chan' /\ chan'[Len(chan')] = m
  OBVIOUS

LEMMA ConstantsLemma ==
  /\ GraphQLWebSocketCloseReason =
       {"NORMAL", "INVALID_MESSAGE", "UNAUTHORIZED", "TIMEOUT_INIT",
        "MULTIPLE_SUBSCRIBER", "MULTIPLE_INIT"}
  /\ {"error", "connection_ack", "connection_error", "complete", "ka", "pong"} \subseteq OperationTypes
  /\ \A e \in Events : EventType[e] \in OperationTypes
  /\ \A e \in Events : ResumeAt[e] \in {"collecting", "caught", "ended"}
  BY DEF GraphQLWebSocketCloseReason, OperationTypes, Events, EventType, ResumeAt

(* The end of every handler.                                               *)
LEMMA HandledLemma ==
  ASSUME TypeOK, Handled
  PROVE  consumer' \in {"consuming", "finished"} /\ current' = NoOffer
  BY DEF Handled, TypeOK

(* Forwarding a message of a query.                                        *)
LEMMA ClientBoundLemma ==
  ASSUME TypeOK, NEW n \in Frames, current.kind = "query", handleClientBoundMessage(n)
  PROVE  replies' \in [Frames -> Seq(OperationTypes)] /\ late' \in [Frames -> Nat]
<1>1. current.type \in OperationTypes
  BY DEF TypeOK, Offer, NoOffer
<1>2. QED
  BY <1>1, ReplyLemma DEF TypeOK, handleClientBoundMessage

(* Cancelling a query.                                                     *)
LEMMA CancelQueryLemma ==
  ASSUME TypeOK, NEW q \in Frames, CancelQuery(q)
  PROVE  /\ chan' \in Seq(Offer)
         /\ job' \in [Frames -> {"none", "collecting", "caught", "ready", "sending", "ended"}]
         /\ event' \in [Frames -> Events \cup {"none"}]
         /\ cancelled' \subseteq Frames
<1>1. chan' \in Seq(Offer)
  BY RemoveAtLemma DEF TypeOK, CancelQuery
<1>2. QED
  BY <1>1 DEF TypeOK, CancelQuery

(* Ids and numbers that fit the table of running queries.                  *)
LEMMA TableLemma ==
  /\ 0 \in 0..MaxFrames /\ Frames \subseteq 0..MaxFrames
  /\ \A n \in 0..MaxFrames : n # 0 => n \in Frames
  /\ TypeOK => \A n \in Frames : frameMsg[n].id \in Ids \cup {NoId}
  BY BoundsAssumption, FramesAssumption DEF Frames, TypeOK, NoFrame, OperationMessage

(* The consumer reads frames under ids that are not blank.                 *)
LEMMA ClientLemma == ClientStep => \E m \in OperationMessage : OnWebSocketText(m)
<1> SUFFICES ASSUME NEW m \in ClientFrames, NEW id \in sanitizeMessageId(m.id),
                    OnWebSocketText([m EXCEPT !.id = id])
             PROVE  \E o \in OperationMessage : OnWebSocketText(o)
  BY DEF ClientStep
<1>1. m \in WireMessage
  BY FramesAssumption
<1>2. id \in Ids \cup {NoId}
  BY <1>1, IdsAssumption DEF sanitizeMessageId, WireMessage
<1>3. [m EXCEPT !.id = id] \in OperationMessage
  BY <1>1, <1>2 DEF WireMessage, OperationMessage
<1>4. QED
  BY <1>3

(* Every step keeps the types.                                             *)
LEMMA TypeStep ==
  ASSUME TypeOK, EventsPending, OnlySuspendedSenders, QueriesHaveIds, [Next]_vars
  PROVE  TypeOK'
<1> USE BoundsAssumption, FramesAssumption, ConstantsLemma
    DEF sessionVars, adapterVars, channelVars, consumerVars, tableVars, queryVars, timerVars,
        history
<1>1. ASSUME OnWebSocketOpen PROVE TypeOK'
  BY <1>1
  DEF TypeOK, OnWebSocketOpen
<1>2. ASSUME NEW m \in OperationMessage, OnWebSocketText(m) PROVE TypeOK'
  <2>1. received + 1 \in Frames /\ received' \in 0..MaxFrames
    BY <1>2 DEF TypeOK, OnWebSocketText, Frames
  <2>2. QED
    BY <1>2, <2>1 DEF TypeOK, OnWebSocketText
<1>3. ASSUME NEW n \in Frames, ForwardFrame(n) PROVE TypeOK'
  <2>1. FrameOffer(n) \in Offer
    BY <1>3, OfferLemma DEF ForwardFrame
  <2>2. CASE HandOver(FrameOffer(n))
    BY <1>3, <2>1, <2>2 DEF TypeOK, ForwardFrame, HandOver
  <2>3. CASE Suspend(FrameOffer(n))
    <3>1. chan' \in Seq(Offer) /\ UNCHANGED consumerVars
      BY <2>1, <2>3, SuspendLemma DEF TypeOK, Suspend
    <3>2. framePc' \in [Frames -> {"new", "received", "sending", "finally", "demanding", "done"}]
      BY <1>3 DEF TypeOK, ForwardFrame
    <3>3. QED
      BY <1>3, <3>1, <3>2 DEF TypeOK, ForwardFrame
  <2>4. QED
    BY <1>3, <2>2, <2>3 DEF ForwardFrame
<1>4. ASSUME NEW n \in Frames, RejectFrame(n) PROVE TypeOK'
  BY <1>4, AnswerOrCloseLemma
  DEF TypeOK, RejectFrame, onInvalidMessage
<1>5. ASSUME NEW n \in Frames, AbandonFrame(n) PROVE TypeOK'
  BY <1>5
  DEF TypeOK, AbandonFrame
<1>6. ASSUME NEW n \in Frames, CheckDemand(n) PROVE TypeOK'
  BY <1>6
  DEF TypeOK, CheckDemand
<1>7. ASSUME NEW n \in Frames, Demand(n) PROVE TypeOK'
  BY <1>7
  DEF TypeOK, Demand
<1>8. ASSUME OnWebSocketClose PROVE TypeOK'
  BY <1>8
  DEF TypeOK, OnWebSocketClose
<1>9. ASSUME CancelOnClose PROVE TypeOK'
  BY <1>9
  DEF TypeOK, CancelOnClose, CancelScope
<1>10. ASSUME Receive PROVE TypeOK'
  <2>1. Head(chan) \in Offer /\ Tail(chan) \in Seq(Offer)
    BY <1>10, HeadTailProperties DEF TypeOK, Receive
  <2>2. Head(chan) = chan[1] /\ 1 \in DOMAIN chan
    BY <1>10, EmptySeq, LenProperties DEF TypeOK, Receive
  <2>3. /\ framePc' \in [Frames -> {"new", "received", "sending", "finally", "demanding", "done"}]
        /\ job' \in [Frames -> {"none", "collecting", "caught", "ready", "sending", "ended"}]
        /\ event' \in [Frames -> Events \cup {"none"}]
        /\ keepAlive' \in {"off", "delaying", "sending"}
    <3>1. CASE Head(chan).kind = "frame"
      BY <1>10, <2>2, <3>1 DEF TypeOK, OnlySuspendedSenders, Receive
    <3>2. CASE Head(chan).kind = "query"
      <4>1. Head(chan).n \in Frames /\ event[Head(chan).n] \in Events
        BY <2>2, <3>2 DEF OnlySuspendedSenders, EventsPending
      <4>2. ResumeAt[event[Head(chan).n]] \in {"collecting", "caught", "ended"}
        BY <4>1
      <4>3. /\ UNCHANGED <<framePc, keepAlive>>
            /\ job' = [job EXCEPT ![Head(chan).n] = ResumeAt[event[Head(chan).n]]]
            /\ event' = [event EXCEPT ![Head(chan).n] = "none"]
        BY <1>10, <3>2 DEF Receive, Sent
      <4>4. QED
        BY <4>2, <4>3 DEF TypeOK
    <3>3. CASE Head(chan).kind = "keepalive"
      BY <1>10, <3>3 DEF TypeOK, Receive
    <3>4. QED
      BY <1>10, <3>1, <3>2, <3>3 DEF Receive
  <2>4. QED
    BY <1>10, <2>1, <2>3 DEF TypeOK, Receive
<1>11. ASSUME ConsumerFinishes PROVE TypeOK'
  BY <1>11
  DEF TypeOK, ConsumerFinishes
<1>12. ASSUME NEW n \in Frames, NEW verdict \in Verdicts, handleConnectionInit(n, verdict) PROVE TypeOK'
  <2>1. consumer' \in {"consuming", "finished"} /\ current' = NoOffer
    BY <1>12, HandledLemma DEF handleConnectionInit
  <2>2. /\ session' \in {"connecting", "open", "closing", "closed"}
        /\ closeReason' \in GraphQLWebSocketCloseReason \cup {"none"}
        /\ replies' \in [Frames -> Seq(OperationTypes)]
    <3>1. CASE onDuplicateInit(n)
      BY <3>1, AnswerOrCloseLemma DEF onDuplicateInit
    <3>2. CASE sendMessage(n, "error") /\ UNCHANGED sessionVars
      BY <3>2, ReplyLemma DEF TypeOK
    <3>3. CASE close("UNAUTHORIZED") /\ UNCHANGED replies
      BY <3>3, CloseLemma DEF TypeOK
    <3>4. CASE sendMessage(n, "connection_ack") /\ UNCHANGED sessionVars
      BY <3>4, ReplyLemma DEF TypeOK
    <3>5. CASE sendMessages(n, "connection_ack", "ka") /\ UNCHANGED sessionVars
      BY <3>5, RepliesLemma DEF TypeOK
    <3>6. QED
      BY <1>12, <3>1, <3>2, <3>3, <3>4, <3>5 DEF handleConnectionInit, acknowledge
  <2>3. /\ keepAliveStarted' \in BOOLEAN /\ keepAliveMessage' \in 0..MaxFrames
        /\ keepAlive' \in {"off", "delaying", "sending"}
    BY <1>12, TableLemma DEF TypeOK, handleConnectionInit, acknowledge
  <2>4. QED
    BY <1>12, <2>1, <2>2, <2>3 DEF TypeOK, handleConnectionInit
<1>13. ASSUME NEW n \in Frames, handleConnectionTerminate(n) PROVE TypeOK'
  BY <1>13, HandledLemma, CloseLemma
  DEF TypeOK, handleConnectionTerminate
<1>14. ASSUME NEW n \in Frames, NEW verdict \in Verdicts, handleQueryStart(n, verdict) PROVE TypeOK'
  <2>1. consumer' \in {"consuming", "finished"} /\ current' = NoOffer
    BY <1>14, HandledLemma DEF handleQueryStart
  <2>2. /\ session' \in {"connecting", "open", "closing", "closed"}
        /\ closeReason' \in GraphQLWebSocketCloseReason \cup {"none"}
        /\ replies' \in [Frames -> Seq(OperationTypes)]
    <3>1. CASE onInvalidMessage(n) \/ onDuplicateQuery(n)
      BY <3>1, AnswerOrCloseLemma DEF onInvalidMessage, onDuplicateQuery
    <3>2. CASE sendMessage(n, "error") /\ UNCHANGED sessionVars
      BY <3>2, ReplyLemma DEF TypeOK
    <3>3. CASE close("UNAUTHORIZED") /\ UNCHANGED replies
      BY <3>3, CloseLemma DEF TypeOK
    <3>4. CASE UNCHANGED <<sessionVars, replies>>
      BY <3>4 DEF TypeOK
    <3>5. QED
      BY <1>14, <3>1, <3>2, <3>3, <3>4 DEF handleQueryStart
  <2>3. /\ job' \in [Frames -> {"none", "collecting", "caught", "ready", "sending", "ended"}]
        /\ queries' \in [Ids -> 0..MaxFrames]
    <3>1. CASE UNCHANGED <<job, queries>>
      BY <3>1 DEF TypeOK
    <3>2. CASE QueryStartBranch(n, verdict) = "launch" /\ launchQuery(n)
      <4>1. frameMsg[n].id # NoId
        BY <3>2 DEF QueryStartBranch
      <4>2. frameMsg[n].id \in Ids /\ n \in 0..MaxFrames
        BY <4>1, TableLemma
      <4>3. QED
        BY <3>2, <4>2 DEF TypeOK, launchQuery
    <3>3. QED
      BY <1>14, <3>1, <3>2 DEF handleQueryStart
  <2>4. QED
    BY <1>14, <2>1, <2>2, <2>3 DEF TypeOK, handleQueryStart
<1>15. ASSUME NEW n \in Frames, handleQueryStop(n) PROVE TypeOK'
  <2> DEFINE toStop == RunningQuery(frameMsg[n].id)
  <2>1. consumer' \in {"consuming", "finished"} /\ current' = NoOffer
    BY <1>15, HandledLemma DEF handleQueryStop
  <2>2. CASE toStop # 0
    <3>1. toStop \in Frames
      <4>1. frameMsg[n].id \in Ids /\ toStop = queries[frameMsg[n].id]
        BY <2>2, TableLemma DEF RunningQuery
      <4>2. QED
        BY <2>2, <4>1, TableLemma DEF TypeOK
    <3>2. CancelQuery(toStop) /\ sendMessage(toStop, "complete")
      BY <1>15, <2>2 DEF handleQueryStop
    <3>3. replies' \in [Frames -> Seq(OperationTypes)]
      BY <3>1, <3>2, ReplyLemma
    <3>4. /\ chan' \in Seq(Offer)
          /\ job' \in [Frames -> {"none", "collecting", "caught", "ready", "sending", "ended"}]
          /\ event' \in [Frames -> Events \cup {"none"}]
          /\ cancelled' \subseteq Frames
      BY <3>1, <3>2, CancelQueryLemma
    <3>5. queries' \in [Ids -> 0..MaxFrames]
      <4>1. frameMsg[n].id \in Ids
        BY <2>2, TableLemma DEF RunningQuery
      <4>2. QED
        BY <1>15, <2>2, <4>1, TableLemma DEF TypeOK, handleQueryStop
    <3>6. QED
      BY <1>15, <2>1, <3>3, <3>4, <3>5 DEF TypeOK, handleQueryStop
  <2>3. CASE toStop = 0
    <3>1. sendMessage(n, "error") /\ UNCHANGED <<chan, job, event, cancelled, queries>>
      BY <1>15, <2>3 DEF handleQueryStop
    <3>2. replies' \in [Frames -> Seq(OperationTypes)]
      BY <3>1, ReplyLemma
    <3>3. QED
      BY <1>15, <2>1, <3>1, <3>2 DEF TypeOK, handleQueryStop
  <2>4. QED
    BY <2>2, <2>3
<1>16. ASSUME NEW n \in Frames, handlePing(n) PROVE TypeOK'
  BY <1>16, HandledLemma, ReplyLemma
  DEF TypeOK, handlePing
<1>17. ASSUME NEW n \in Frames, handlePong(n) PROVE TypeOK'
  BY <1>17, HandledLemma
  DEF TypeOK, handlePong
<1>18. ASSUME NEW n \in Frames, handleQueryData(n) PROVE TypeOK'
  <2>1. consumer' \in {"consuming", "finished"} /\ current' = NoOffer
    BY <1>18, HandledLemma DEF handleQueryData
  <2>2. replies' \in [Frames -> Seq(OperationTypes)] /\ late' \in [Frames -> Nat]
    BY <1>18, ClientBoundLemma DEF handleQueryData, NoOffer
  <2>3. QED
    BY <1>18, <2>1, <2>2 DEF TypeOK, handleQueryData
<1>19. ASSUME NEW n \in Frames, handleQueryEnd(n) PROVE TypeOK'
  <2> DEFINE q == queries[frameMsg[n].id]
  <2>1. consumer' \in {"consuming", "finished"} /\ current' = NoOffer
    BY <1>19, HandledLemma DEF handleQueryEnd
  <2>2. replies' \in [Frames -> Seq(OperationTypes)] /\ late' \in [Frames -> Nat]
    BY <1>19, ClientBoundLemma DEF handleQueryEnd, NoOffer
  <2>3. queries' \in [Ids -> 0..MaxFrames]
    BY <1>19, TableLemma DEF TypeOK, handleQueryEnd
  <2>4. /\ chan' \in Seq(Offer)
        /\ job' \in [Frames -> {"none", "collecting", "caught", "ready", "sending", "ended"}]
        /\ event' \in [Frames -> Events \cup {"none"}]
        /\ cancelled' \subseteq Frames
    <3>1. CASE q \in Frames /\ CancelQuery(q)
      BY <3>1, CancelQueryLemma
    <3>2. CASE UNCHANGED <<chan, job, event, cancelled>>
      BY <3>2 DEF TypeOK
    <3>3. frameMsg[n].id \in Ids
      BY <1>19 DEF handleQueryEnd, QueriesHaveIds
    <3>4. QED
      <4>1. q \in 0..MaxFrames
        BY <3>3 DEF TypeOK
      <4>2. q # 0 => q \in Frames
        BY <4>1, TableLemma
      <4>3. \/ q # 0 /\ CancelQuery(q)
            \/ UNCHANGED <<chan, job, event, cancelled>>
        BY <1>19 DEF handleQueryEnd
      <4>4. QED
        BY <3>1, <3>2, <4>2, <4>3
  <2>5. QED
    BY <1>19, <2>1, <2>2, <2>3, <2>4 DEF TypeOK, handleQueryEnd
<1>20. ASSUME handleKeepAlive PROVE TypeOK'
  BY <1>20, HandledLemma, ReplyLemma
  DEF TypeOK, handleKeepAlive
<1>21. ASSUME NEW n \in Frames, NEW e \in Events, QueryEvent(n, e) PROVE TypeOK'
  <2>1. emitted' \in [Frames -> 0..MaxData]
    <3>1. CASE UNCHANGED emitted
      BY <3>1 DEF TypeOK
    <3>2. CASE emitted[n] < MaxData /\ emitted' = [emitted EXCEPT ![n] = @ + 1]
      <4>1. emitted[n] + 1 \in 0..MaxData
        BY <3>2 DEF TypeOK
      <4>2. QED
        BY <3>2, <4>1 DEF TypeOK
    <3>3. QED
      BY <1>21, <3>1, <3>2 DEF QueryEvent
  <2>2. /\ job' = [job EXCEPT ![n] = "ready"]
        /\ event' = [event EXCEPT ![n] = e]
        /\ UNCHANGED <<sessionVars, adapterVars, channelVars, consumerVars, tableVars, cancelled,
                       timerVars, history>>
    BY <1>21 DEF QueryEvent
  <2>3. QED
    BY <2>1, <2>2 DEF TypeOK
<1>22. ASSUME NEW n \in Frames, QuerySends(n) PROVE TypeOK'
  <2>1. event[n] \in Events /\ QueryOffer(n) \in Offer
    BY <1>22, OfferLemma DEF EventsPending, QuerySends
  <2>2. /\ chan' \in Seq(Offer)
        /\ consumer' \in {"consuming", "finished"}
        /\ current' \in Offer \cup {NoOffer}
    <3>1. CASE HandOver(QueryOffer(n))
      BY <2>1, <3>1 DEF TypeOK, HandOver
    <3>2. CASE Suspend(QueryOffer(n))
      BY <2>1, <3>2, SuspendLemma DEF TypeOK, Suspend
    <3>3. CASE UNCHANGED <<chan, consumerVars>>
      BY <3>3 DEF TypeOK
    <3>4. QED
      BY <1>22, <3>1, <3>2, <3>3 DEF QuerySends
  <2>3. /\ job' \in [Frames -> {"none", "collecting", "caught", "ready", "sending", "ended"}]
        /\ event' \in [Frames -> Events \cup {"none"}]
    <3>1. CASE Sent(n)
      <4>1. ResumeAt[event[n]] \in {"collecting", "caught", "ended"}
        BY <2>1
      <4>2. QED
        BY <3>1, <4>1 DEF TypeOK, Sent
    <3>2. CASE job' = [job EXCEPT ![n] = "sending"] /\ UNCHANGED event
      BY <3>2 DEF TypeOK
    <3>3. CASE job' = [job EXCEPT ![n] = "ended"] /\ event' = [event EXCEPT ![n] = "none"]
      BY <3>3 DEF TypeOK
    <3>4. QED
      BY <1>22, <3>1, <3>2, <3>3 DEF QuerySends
  <2>4. QED
    BY <1>22, <2>2, <2>3 DEF TypeOK, QuerySends
<1>23. ASSUME NEW n \in Frames, QueryCancelled(n) PROVE TypeOK'
  BY <1>23
  DEF TypeOK, QueryCancelled
<1>24. ASSUME NEW n \in Frames, QuerySetupFails(n) PROVE TypeOK'
  BY <1>24
  DEF TypeOK, QuerySetupFails, CancelScope
<1>25. ASSUME KeepAliveTick PROVE TypeOK'
  <2>1. /\ chan' \in Seq(Offer)
        /\ consumer' \in {"consuming", "finished"}
        /\ current' \in Offer \cup {NoOffer}
        /\ keepAlive' \in {"off", "delaying", "sending"}
    <3>1. CASE HandOver(KeepAliveOffer) /\ UNCHANGED keepAlive
      BY <3>1, OfferLemma DEF TypeOK, HandOver
    <3>2. CASE Suspend(KeepAliveOffer) /\ keepAlive' = "sending"
      BY <3>2, OfferLemma, SuspendLemma DEF TypeOK, Suspend
    <3>3. QED
      BY <1>25, <3>1, <3>2 DEF KeepAliveTick
  <2>2. QED
    BY <1>25, <2>1 DEF TypeOK, KeepAliveTick
<1>26. ASSUME InitTimerExpires PROVE TypeOK'
  BY <1>26
  DEF TypeOK, InitTimerExpires
<1>27. ASSUME InitTimerCloses PROVE TypeOK'
  BY <1>27, CloseLemma
  DEF TypeOK, InitTimerCloses
<1>28. CASE UNCHANGED vars
  BY <1>28 DEF TypeOK, vars
<1>29. QED
  BY ClientLemma, <1>1, <1>2, <1>3, <1>4, <1>5, <1>6, <1>7, <1>8, <1>9, <1>10,
     <1>11, <1>12, <1>13, <1>14, <1>15, <1>16, <1>17, <1>18, <1>19, <1>20, <1>21, <1>22, <1>23, <1>24, <1>25, <1>26, <1>27, <1>28
  DEF Next, FrameStep, QueryStep, ConsumerStep, HandleFrame, TimerStep

-----------------------------------------------------------------------------
(* What the steps that touch the channel, the frames and the queries do,   *)
(* without what the invariants do not look at.                             *)

(* The variables that only timers, callbacks and acknowledgements change.  *)
surroundings ==
  <<session, demanded, received, frameMsg, scope, keepAliveStarted, keepAliveMessage>>

LEMMA ForwardLemma ==
  ASSUME TypeOK, NEW n \in Frames, ForwardFrame(n)
  PROVE  /\ framePc[n] = "received" /\ scope = "active"
         /\ FrameOffer(n) \in Offer /\ FrameOffer(n).kind = "frame" /\ FrameOffer(n).n = n
         /\ UNCHANGED <<surroundings, keepAlive, queries, job, event, cancelled>>
         /\ \/ /\ chan' = chan
               /\ current' = FrameOffer(n)
               /\ framePc' = [framePc EXCEPT ![n] = "finally"]
            \/ /\ chan' = Append(chan, FrameOffer(n))
               /\ current' = current
               /\ framePc' = [framePc EXCEPT ![n] = "sending"]
<1>1. FrameOffer(n) \in Offer /\ FrameOffer(n).kind = "frame" /\ FrameOffer(n).n = n
  BY OfferLemma DEF ForwardFrame, FrameOffer
<1>2. QED
  BY <1>1 DEF ForwardFrame, HandOver, Suspend, surroundings, sessionVars, consumerVars, tableVars,
              queryVars, timerVars

LEMMA SendsLemma ==
  ASSUME TypeOK, EventsPending, NEW n \in Frames, QuerySends(n)
  PROVE  /\ job[n] = "ready"
         /\ QueryOffer(n) \in Offer /\ QueryOffer(n).kind = "query" /\ QueryOffer(n).n = n
         /\ UNCHANGED <<surroundings, framePc, keepAlive, queries, cancelled>>
         /\ \/ /\ chan' = chan
               /\ current' \in {current, QueryOffer(n)}
               /\ \E r \in {"collecting", "caught", "ended"} : job' = [job EXCEPT ![n] = r]
               /\ event' = [event EXCEPT ![n] = "none"]
            \/ /\ n \notin cancelled
               /\ chan' = Append(chan, QueryOffer(n))
               /\ current' = current
               /\ job' = [job EXCEPT ![n] = "sending"]
               /\ event' = event
<1>1. event[n] \in Events /\ QueryOffer(n) \in Offer
  BY OfferLemma DEF EventsPending, QuerySends
<1>2. QueryOffer(n).kind = "query" /\ QueryOffer(n).n = n
  BY DEF QueryOffer
<1>3. ResumeAt[event[n]] \in {"collecting", "caught", "ended"}
  BY <1>1, ConstantsLemma
<1>4. job[n] = "ready" /\ UNCHANGED <<surroundings, framePc, keepAlive, queries, cancelled>>
  BY DEF QuerySends, surroundings, sessionVars, adapterVars, tableVars, timerVars
<1>5. \/ Sent(n) /\ chan' = chan /\ current' \in {current, QueryOffer(n)}
      \/ /\ Suspend(QueryOffer(n)) /\ n \notin cancelled
         /\ job' = [job EXCEPT ![n] = "sending"]
         /\ event' = event
      \/ /\ job' = [job EXCEPT ![n] = "ended"]
         /\ event' = [event EXCEPT ![n] = "none"]
         /\ chan' = chan /\ current' = current
  BY DEF QuerySends, HandOver, consumerVars
<1>6. QED
  BY <1>1, <1>2, <1>3, <1>4, <1>5 DEF Sent, Suspend, consumerVars

LEMMA TickLemma ==
  ASSUME TypeOK, KeepAliveTick
  PROVE  /\ keepAlive = "delaying"
         /\ KeepAliveOffer \in Offer /\ KeepAliveOffer.kind = "keepalive"
         /\ UNCHANGED <<surroundings, framePc, queries, job, event, cancelled>>
         /\ \/ chan' = chan /\ current' = KeepAliveOffer /\ keepAlive' = keepAlive
            \/ /\ chan' = Append(chan, KeepAliveOffer)
               /\ current' = current
               /\ keepAlive' = "sending"
<1>1. KeepAliveOffer \in Offer /\ KeepAliveOffer.kind = "keepalive"
  BY OfferLemma DEF KeepAliveOffer
<1>2. QED
  BY <1>1 DEF KeepAliveTick, HandOver, Suspend, surroundings, sessionVars, adapterVars, consumerVars,
              tableVars, queryVars

LEMMA ReceiveLemma ==
  ASSUME TypeOK, EventsPending, OnlySuspendedSenders, Receive
  PROVE  /\ 1 \in DOMAIN chan /\ current' = chan[1] /\ chan[1] \in Offer
         /\ chan' \in Seq(Offer)
         /\ \A i \in DOMAIN chan' : i + 1 \in DOMAIN chan /\ chan'[i] = chan[i + 1]
         /\ UNCHANGED <<surroundings, queries, cancelled>>
         /\ \/ /\ chan[1].kind = "frame" /\ chan[1].n \in Frames
               /\ framePc[chan[1].n] = "sending"
               /\ framePc' = [framePc EXCEPT ![chan[1].n] = "finally"]
               /\ UNCHANGED <<job, event, keepAlive>>
            \/ /\ chan[1].kind = "query" /\ chan[1].n \in Frames
               /\ job[chan[1].n] = "sending"
               /\ \E r \in {"collecting", "caught", "ended"} : job' = [job EXCEPT ![chan[1].n] = r]
               /\ event' = [event EXCEPT ![chan[1].n] = "none"]
               /\ UNCHANGED <<framePc, keepAlive>>
            \/ /\ chan[1].kind = "keepalive"
               /\ keepAlive' = "delaying"
               /\ UNCHANGED <<framePc, job, event>>
<1>1. chan \in Seq(Offer) /\ chan # <<>>
  BY DEF TypeOK, Receive
<1>2. 1 \in DOMAIN chan /\ Head(chan) = chan[1] /\ chan[1] \in Offer
  BY <1>1, EmptySeq, LenProperties, ElementOfSeq
<1>3. /\ Tail(chan) \in Seq(Offer)
      /\ \A i \in DOMAIN Tail(chan) : i + 1 \in DOMAIN chan /\ Tail(chan)[i] = chan[i + 1]
  BY <1>1, HeadTailProperties, LenProperties
<1>4. /\ current' = chan[1] /\ chan' = Tail(chan)
      /\ UNCHANGED <<surroundings, queries, cancelled>>
  BY <1>2 DEF Receive, surroundings, sessionVars, tableVars
<1>5. \/ /\ chan[1].kind = "frame"
         /\ framePc' = [framePc EXCEPT ![chan[1].n] = "finally"]
         /\ UNCHANGED <<job, event, keepAlive>>
      \/ /\ chan[1].kind = "query"
         /\ Sent(chan[1].n)
         /\ UNCHANGED <<framePc, keepAlive>>
      \/ /\ chan[1].kind = "keepalive"
         /\ keepAlive' = "delaying"
         /\ UNCHANGED <<framePc, job, event>>
  BY <1>2 DEF Receive
<1>6. /\ chan[1].kind = "frame" => chan[1].n \in Frames /\ framePc[chan[1].n] = "sending"
      /\ chan[1].kind = "query" => chan[1].n \in Frames /\ job[chan[1].n] = "sending"
  BY <1>2 DEF OnlySuspendedSenders
<1>7. CASE chan[1].kind = "query" /\ Sent(chan[1].n) /\ UNCHANGED <<framePc, keepAlive>>
  <2>1. event[chan[1].n] \in Events
    BY <1>6, <1>7 DEF EventsPending
  <2>2. ResumeAt[event[chan[1].n]] \in {"collecting", "caught", "ended"}
    BY <2>1, ConstantsLemma
  <2>3. QED
    BY <1>2, <1>3, <1>4, <1>6, <1>7, <2>2 DEF Sent
<1>8. QED
  BY <1>2, <1>3, <1>4, <1>5, <1>6, <1>7

LEMMA LaunchLemma ==
  ASSUME TypeOK, NEW n \in Frames, NEW verdict \in Verdicts, handleQueryStart(n, verdict)
  PROVE  /\ current.kind = "frame" /\ current.n = n /\ current' = NoOffer
         /\ UNCHANGED <<demanded, received, frameMsg, framePc, scope, chan, keepAliveStarted,
                        keepAliveMessage, keepAlive, event, cancelled>>
         /\ session' = "connecting" => session = "connecting"
         /\ \/ UNCHANGED <<job, queries>>
            \/ /\ frameMsg[n].id \in Ids
               /\ queries[frameMsg[n].id] = 0
               /\ queries' = [queries EXCEPT ![frameMsg[n].id] = n]
               /\ job' = [job EXCEPT ![n] = IF scope = "active" THEN "collecting" ELSE "ended"]
<1>1. /\ current.kind = "frame" /\ current.n = n /\ current' = NoOffer
      /\ UNCHANGED <<demanded, received, frameMsg, framePc, scope, chan, keepAliveStarted,
                     keepAliveMessage, keepAlive, event, cancelled>>
  BY DEF handleQueryStart, HandlingFrame, Handled, adapterVars, channelVars, timerVars
<1>2. session' = "connecting" => session = "connecting"
  BY DEF handleQueryStart, onInvalidMessage, onDuplicateQuery, AnswerOrClose, close, sessionVars
<1>3. CASE UNCHANGED <<job, queries>>
  BY <1>1, <1>2, <1>3
<1>4. CASE QueryStartBranch(n, verdict) = "launch" /\ launchQuery(n)
  <2>1. frameMsg[n].id # NoId /\ queries[frameMsg[n].id] = 0
    BY <1>4 DEF QueryStartBranch
  <2>2. frameMsg[n].id \in Ids
    BY <2>1, TableLemma
  <2>3. QED
    BY <1>1, <1>2, <1>4, <2>1, <2>2 DEF launchQuery
<1>5. QED
  BY <1>3, <1>4 DEF handleQueryStart

LEMMA WithdrawLemma ==
  ASSUME TypeOK, NEW q \in Frames, CancelQuery(q)
  PROVE  /\ cancelled' = cancelled \cup {q}
         /\ \/ /\ job[q] = "sending"
               /\ \E i \in DOMAIN chan :
                    /\ chan[i].kind = "query" /\ chan[i].n = q
                    /\ \A j \in DOMAIN chan' :
                         LET k == IF j < i THEN j ELSE j + 1
                         IN  j \in Nat /\ i \in Nat /\ k \in DOMAIN chan /\ chan'[j] = chan[k]
               /\ job' = [job EXCEPT ![q] = "ended"]
               /\ event' = [event EXCEPT ![q] = "none"]
            \/ UNCHANGED <<chan, job, event>>
<1>1. ASSUME NEW i \in DOMAIN chan, chan' = RemoveAt(chan, i)
      PROVE  \A j \in DOMAIN chan' :
               LET k == IF j < i THEN j ELSE j + 1
               IN  j \in Nat /\ i \in Nat /\ k \in DOMAIN chan /\ chan'[j] = chan[k]
  <2>1. chan \in Seq(Offer)
    BY DEF TypeOK
  <2>2. /\ chan' \in Seq(Offer) /\ Len(chan') = Len(chan) - 1
        /\ \A j \in DOMAIN chan' : chan'[j] = chan[IF j < i THEN j ELSE j + 1]
    BY <1>1, <2>1, RemoveAtLemma
  <2>3. DOMAIN chan' = 1..(Len(chan) - 1) /\ DOMAIN chan = 1..Len(chan) /\ Len(chan) \in Nat
    BY <2>1, <2>2, LenProperties
  <2>4. QED
    BY <2>2, <2>3
<1>2. QED
  BY <1>1 DEF CancelQuery

LEMMA EndLemma ==
  ASSUME TypeOK, QueriesHaveIds, NEW n \in Frames, handleQueryStop(n) \/ handleQueryEnd(n)
  PROVE  /\ current' = NoOffer
         /\ UNCHANGED <<surroundings, framePc, keepAlive>>
         /\ \/ \E id \in Ids : /\ queries[id] \in Frames /\ CancelQuery(queries[id])
                               /\ queries' = [queries EXCEPT ![id] = 0]
            \/ UNCHANGED <<chan, job, event, cancelled, queries>>
<1>1. current' = NoOffer /\ UNCHANGED <<surroundings, framePc, keepAlive>>
  BY DEF handleQueryStop, handleQueryEnd, Handled, surroundings, sessionVars, adapterVars, timerVars
<1>2. ASSUME NEW id \in Ids
      PROVE  queries[id] # 0 => queries[id] \in Frames
  <2>1. queries[id] \in 0..MaxFrames
    BY DEF TypeOK
  <2>2. QED
    BY <2>1, TableLemma
<1>3. ASSUME NEW id \in Ids, queries[id] = 0
      PROVE  [queries EXCEPT ![id] = 0] = queries
  BY <1>3 DEF TypeOK
<1>4. CASE handleQueryStop(n)
  <2>1. RunningQuery(frameMsg[n].id) # 0 => frameMsg[n].id \in Ids
    BY TableLemma DEF RunningQuery
  <2>2. QED
    BY <1>1, <1>2, <1>4, <2>1 DEF handleQueryStop, RunningQuery
<1>5. CASE handleQueryEnd(n)
  <2>1. frameMsg[n].id \in Ids
    BY <1>5 DEF handleQueryEnd, QueriesHaveIds
  <2>2. QED
    BY <1>1, <1>2, <1>3, <1>5, <2>1 DEF handleQueryEnd
<1>6. QED
  BY <1>4, <1>5

-----------------------------------------------------------------------------
(* Frames are numbered in the order of their delivery.                     *)
FramesCounted ==
  /\ \A n \in Frames : framePc[n] # "new" <=> n <= received
  /\ session = "connecting" => received = 0

(* A frame starts its query once, after it went through the channel.       *)
FrameSettled(n) == framePc[n] \notin {"new", "received", "sending"}

FramesHandledOnce ==
  /\ \A n \in Frames : job[n] # "none" => FrameSettled(n)
  /\ \A n \in Frames : current.kind = "frame" /\ current.n = n => job[n] = "none" /\ FrameSettled(n)

(* A cancelled scope has no sender left and runs no uncancelled query.     *)
ScopeEnds ==
  scope = "cancelled" =>
    /\ chan = <<>>
    /\ keepAlive = "off"
    /\ \A n \in Frames : LiveQuery(n) => n \in cancelled

(* The keepalive coroutine runs only once the connection is acknowledged.  *)
KeepAliveOnce == keepAlive # "off" => keepAliveStarted

(* The inductive invariant.                                                *)
IInv ==
  /\ TypeOK
  /\ EventsPending
  /\ KeepAliveOnce
  /\ QueriesHaveIds
  /\ OnlySuspendedSenders
  /\ FramesCounted
  /\ FramesHandledOnce
  /\ ScopeEnds
  /\ OneFrameInFlight
  /\ FramesInOrder
  /\ NoOrphanQuery

-----------------------------------------------------------------------------
(* The steps that leave frames, channel and queries alone.                 *)
QuietStep ==
  \/ OnWebSocketOpen
  \/ OnWebSocketClose
  \/ TimerStep
  \/ ConsumerFinishes
  \/ handleKeepAlive
  \/ \E n \in Frames :
       \/ \E verdict \in Verdicts : handleConnectionInit(n, verdict)
       \/ handleConnectionTerminate(n) \/ handlePing(n) \/ handlePong(n) \/ handleQueryData(n)
  \/ UNCHANGED vars

(* What quiet steps may change.                                            *)
LEMMA QuietLemma ==
  ASSUME QuietStep
  PROVE  /\ UNCHANGED <<received, frameMsg, framePc, scope, chan, queries, job, event, cancelled>>
         /\ current' \in {current, NoOffer}
         /\ demanded' = demanded \/ session = "connecting"
         /\ session' = "connecting" => session = "connecting"
         /\ keepAliveStarted => keepAliveStarted'
         /\ \/ keepAlive' = keepAlive
            \/ keepAlive' = "delaying" /\ scope = "active" /\ ~keepAliveStarted /\ keepAliveStarted'
<1> USE DEF sessionVars, adapterVars, channelVars, consumerVars, tableVars, queryVars, timerVars,
            history, Handled
<1>1. CASE OnWebSocketOpen
  BY <1>1 DEF OnWebSocketOpen
<1>2. CASE OnWebSocketClose
  BY <1>2 DEF OnWebSocketClose
<1>3. CASE TimerStep
  BY <1>3 DEF TimerStep, InitTimerExpires, InitTimerCloses, close
<1>4. CASE ConsumerFinishes
  BY <1>4 DEF ConsumerFinishes
<1>5. CASE handleKeepAlive
  BY <1>5 DEF handleKeepAlive
<1>6. ASSUME NEW n \in Frames, NEW verdict \in Verdicts, handleConnectionInit(n, verdict)
      PROVE  QuietLemma!2
  BY <1>6 DEF handleConnectionInit, acknowledge, close, onDuplicateInit, AnswerOrClose
<1>7. ASSUME NEW n \in Frames,
             handleConnectionTerminate(n) \/ handlePing(n) \/ handlePong(n) \/ handleQueryData(n)
      PROVE  QuietLemma!2
  BY <1>7 DEF handleConnectionTerminate, handlePing, handlePong, handleQueryData, close
<1>8. CASE UNCHANGED vars
  BY <1>8 DEF vars
<1>9. QED
  BY <1>1, <1>2, <1>3, <1>4, <1>5, <1>6, <1>7, <1>8 DEF QuietStep

-----------------------------------------------------------------------------
(* A new sender that was not in the channel, the others still suspended.   *)
LEMMA OneMoreSender ==
  ASSUME OnlySuspendedSenders, chan \in Seq(Offer), NEW m \in Offer, chan' = Append(chan, m),
         \A i \in DOMAIN chan :
           chan[i].kind # m.kind \/ (chan[i].n # m.n /\ m.kind # "keepalive"),
         m.kind = "frame" => m.n \in Frames /\ framePc'[m.n] = "sending",
         m.kind = "query" => m.n \in Frames /\ job'[m.n] = "sending",
         m.kind = "keepalive" => keepAlive' = "sending",
         \A n \in Frames : framePc[n] = "sending" => framePc'[n] = "sending",
         \A n \in Frames : job[n] = "sending" => job'[n] = "sending",
         keepAlive = "sending" => keepAlive' = "sending"
  PROVE  OnlySuspendedSenders'
<1>1. /\ \A i \in DOMAIN chan' : i # Len(chan') => i \in DOMAIN chan /\ chan'[i] = chan[i]
      /\ chan'[Len(chan')] = m
  BY SuspendLemma
<1>2. ASSUME NEW i \in DOMAIN chan'
      PROVE  /\ chan'[i].kind = "frame" => chan'[i].n \in Frames /\ framePc'[chan'[i].n] = "sending"
             /\ chan'[i].kind = "query" => chan'[i].n \in Frames /\ job'[chan'[i].n] = "sending"
             /\ chan'[i].kind = "keepalive" => keepAlive' = "sending"
  <2>1. CASE i = Len(chan')
    BY <1>1, <2>1
  <2>2. CASE i # Len(chan')
    BY <1>1, <2>2 DEF OnlySuspendedSenders
  <2>3. QED
    BY <2>1, <2>2
<1>3. ASSUME NEW i \in DOMAIN chan', NEW j \in DOMAIN chan', i # j
      PROVE  \/ chan'[i].kind # chan'[j].kind
             \/ chan'[i].n # chan'[j].n /\ chan'[i].kind # "keepalive"
  <2>1. CASE i = Len(chan')
    BY <1>1, <1>3, <2>1
  <2>2. CASE j = Len(chan')
    BY <1>1, <1>3, <2>2
  <2>3. CASE i # Len(chan') /\ j # Len(chan')
    BY <1>1, <1>3, <2>3 DEF OnlySuspendedSenders
  <2>4. QED
    BY <2>1, <2>2, <2>3
<1>4. QED
  BY <1>2, <1>3 DEF OnlySuspendedSenders

(* Some senders left the channel, those that remain are still suspended.   *)
LEMMA FewerSenders ==
  ASSUME OnlySuspendedSenders, NEW f,
         \A j \in DOMAIN chan' : f[j] \in DOMAIN chan /\ chan'[j] = chan[f[j]],
         \A i, j \in DOMAIN chan' : i # j => f[i] # f[j],
         \A j \in DOMAIN chan' :
           /\ chan[f[j]].kind = "frame" => framePc'[chan[f[j]].n] = framePc[chan[f[j]].n]
           /\ chan[f[j]].kind = "query" => job'[chan[f[j]].n] = job[chan[f[j]].n]
           /\ chan[f[j]].kind = "keepalive" => keepAlive' = keepAlive
  PROVE  OnlySuspendedSenders'
<1>1. ASSUME NEW i \in DOMAIN chan'
      PROVE  /\ chan'[i].kind = "frame" => chan'[i].n \in Frames /\ framePc'[chan'[i].n] = "sending"
             /\ chan'[i].kind = "query" => chan'[i].n \in Frames /\ job'[chan'[i].n] = "sending"
             /\ chan'[i].kind = "keepalive" => keepAlive' = "sending"
  BY DEF OnlySuspendedSenders
<1>2. ASSUME NEW i \in DOMAIN chan', NEW j \in DOMAIN chan', i # j
      PROVE  \/ chan'[i].kind # chan'[j].kind
             \/ chan'[i].n # chan'[j].n /\ chan'[i].kind # "keepalive"
  BY <1>2 DEF OnlySuspendedSenders
<1>3. QED
  BY <1>1, <1>2 DEF OnlySuspendedSenders

(* A coroutine about to send has picked its event.                         *)
LEMMA EventsStep ==
  ASSUME IInv, [Next]_vars
  PROVE  EventsPending'
<1> USE BoundsAssumption
    DEF sessionVars, adapterVars, channelVars, consumerVars, tableVars, queryVars, timerVars,
        history, Frames, IInv
<1>0. /\ job \in [Frames -> {"none", "collecting", "caught", "ready", "sending", "ended"}]
      /\ event \in [Frames -> Events \cup {"none"}]
  BY DEF TypeOK
<1>1. ASSUME QuietStep PROVE EventsPending'
  BY <1>1, QuietLemma DEF EventsPending
<1>2. ASSUME NEW m \in OperationMessage, OnWebSocketText(m) PROVE EventsPending'
  BY <1>2 DEF EventsPending, OnWebSocketText
<1>3. ASSUME NEW n \in Frames, ForwardFrame(n) PROVE EventsPending'
  BY <1>3, ForwardLemma DEF EventsPending
<1>4. ASSUME NEW n \in Frames, RejectFrame(n) PROVE EventsPending'
  BY <1>4 DEF EventsPending, RejectFrame
<1>5. ASSUME NEW n \in Frames, AbandonFrame(n) PROVE EventsPending'
  BY <1>5 DEF EventsPending, AbandonFrame
<1>6. ASSUME NEW n \in Frames, CheckDemand(n) PROVE EventsPending'
  BY <1>6 DEF EventsPending, CheckDemand
<1>7. ASSUME NEW n \in Frames, Demand(n) PROVE EventsPending'
  BY <1>7 DEF EventsPending, Demand
<1>8. ASSUME CancelOnClose PROVE EventsPending'
  BY <1>8 DEF EventsPending, CancelOnClose, CancelScope
<1>9. ASSUME Receive PROVE EventsPending'
  BY <1>0, <1>9, ReceiveLemma DEF EventsPending
<1>10. ASSUME NEW n \in Frames, NEW verdict \in Verdicts, handleQueryStart(n, verdict)
       PROVE  EventsPending'
  <2>1. CASE UNCHANGED <<job, queries>>
    BY <1>10, <2>1, LaunchLemma DEF EventsPending
  <2>2. CASE /\ frameMsg[n].id \in Ids
             /\ queries[frameMsg[n].id] = 0
             /\ queries' = [queries EXCEPT ![frameMsg[n].id] = n]
             /\ job' = [job EXCEPT ![n] = IF scope = "active" THEN "collecting" ELSE "ended"]
    <3>1. /\ job'[n] \in {"collecting", "ended"}
          /\ \A q \in Frames : q # n => job'[q] = job[q]
      BY <1>0, <2>2
    <3>2. /\ current.kind = "frame" /\ current.n = n /\ current' = NoOffer
          /\ UNCHANGED <<received, frameMsg, framePc, scope, chan, keepAlive, event, cancelled>>
      BY <1>10, LaunchLemma
    <3>3. QED
      BY <2>2, <3>1, <3>2 DEF EventsPending
  <2>3. QED
    BY <1>10, <2>1, <2>2, LaunchLemma
<1>11. ASSUME NEW n \in Frames, handleQueryStop(n) \/ handleQueryEnd(n) PROVE EventsPending'
  <2>1. CASE UNCHANGED <<chan, job, event, cancelled, queries>>
    BY <1>11, <2>1 DEF EventsPending
  <2>2. ASSUME NEW id \in Ids, queries[id] \in Frames, CancelQuery(queries[id])
        PROVE  EventsPending'
    BY <1>0, <1>11, <2>2, WithdrawLemma DEF EventsPending
  <2>3. QED
    BY <1>11, <2>1, <2>2, EndLemma
<1>12. ASSUME NEW n \in Frames, NEW e \in Events, QueryEvent(n, e) PROVE EventsPending'
  BY <1>0, <1>12 DEF EventsPending, QueryEvent
<1>13. ASSUME NEW n \in Frames, QuerySends(n) PROVE EventsPending'
  BY <1>0, <1>13, SendsLemma DEF EventsPending
<1>14. ASSUME NEW n \in Frames, QueryCancelled(n) PROVE EventsPending'
  BY <1>14 DEF EventsPending, QueryCancelled
<1>15. ASSUME NEW n \in Frames, QuerySetupFails(n) PROVE EventsPending'
  BY <1>15 DEF EventsPending, QuerySetupFails, CancelScope
<1>16. ASSUME KeepAliveTick PROVE EventsPending'
  BY <1>16, TickLemma DEF EventsPending
<1>17. QED
  BY ClientLemma, <1>1, <1>2, <1>3, <1>4, <1>5, <1>6, <1>7, <1>8, <1>9, <1>10, <1>11, <1>12, <1>13, <1>14, <1>15,
     <1>16
  DEF QuietStep, Next, FrameStep, QueryStep, ConsumerStep, HandleFrame

(* The keepalive coroutine starts with the acknowledgement.                *)
LEMMA KeepAliveStep ==
  ASSUME IInv, [Next]_vars
  PROVE  KeepAliveOnce'
<1> USE BoundsAssumption
    DEF sessionVars, adapterVars, channelVars, consumerVars, tableVars, queryVars, timerVars,
        history, Frames, IInv
<1>0. /\ keepAlive \in {"off", "delaying", "sending"}
  BY DEF TypeOK
<1>1. ASSUME QuietStep PROVE KeepAliveOnce'
  BY <1>1, QuietLemma DEF KeepAliveOnce
<1>2. ASSUME NEW m \in OperationMessage, OnWebSocketText(m) PROVE KeepAliveOnce'
  BY <1>2 DEF KeepAliveOnce, OnWebSocketText
<1>3. ASSUME NEW n \in Frames, ForwardFrame(n) PROVE KeepAliveOnce'
  BY <1>3, ForwardLemma DEF KeepAliveOnce, surroundings
<1>4. ASSUME NEW n \in Frames, RejectFrame(n) PROVE KeepAliveOnce'
  BY <1>4 DEF KeepAliveOnce, RejectFrame
<1>5. ASSUME NEW n \in Frames, AbandonFrame(n) PROVE KeepAliveOnce'
  BY <1>5 DEF KeepAliveOnce, AbandonFrame
<1>6. ASSUME NEW n \in Frames, CheckDemand(n) PROVE KeepAliveOnce'
  BY <1>6 DEF KeepAliveOnce, CheckDemand
<1>7. ASSUME NEW n \in Frames, Demand(n) PROVE KeepAliveOnce'
  BY <1>7 DEF KeepAliveOnce, Demand
<1>8. ASSUME CancelOnClose PROVE KeepAliveOnce'
  BY <1>8 DEF KeepAliveOnce, CancelOnClose, CancelScope
<1>9. ASSUME Receive PROVE KeepAliveOnce'
  BY <1>9, ReceiveLemma DEF KeepAliveOnce, OnlySuspendedSenders, surroundings
<1>10. ASSUME NEW n \in Frames, NEW verdict \in Verdicts, handleQueryStart(n, verdict)
       PROVE  KeepAliveOnce'
  BY <1>10, LaunchLemma DEF KeepAliveOnce
<1>11. ASSUME NEW n \in Frames, handleQueryStop(n) \/ handleQueryEnd(n) PROVE KeepAliveOnce'
  BY <1>11, EndLemma DEF KeepAliveOnce, surroundings
<1>12. ASSUME NEW n \in Frames, NEW e \in Events, QueryEvent(n, e) PROVE KeepAliveOnce'
  BY <1>12 DEF KeepAliveOnce, QueryEvent
<1>13. ASSUME NEW n \in Frames, QuerySends(n) PROVE KeepAliveOnce'
  BY <1>13, SendsLemma DEF KeepAliveOnce, surroundings
<1>14. ASSUME NEW n \in Frames, QueryCancelled(n) PROVE KeepAliveOnce'
  BY <1>14 DEF KeepAliveOnce, QueryCancelled
<1>15. ASSUME NEW n \in Frames, QuerySetupFails(n) PROVE KeepAliveOnce'
  BY <1>15 DEF KeepAliveOnce, QuerySetupFails, CancelScope
<1>16. ASSUME KeepAliveTick PROVE KeepAliveOnce'
  BY <1>16, TickLemma DEF KeepAliveOnce, surroundings
<1>17. QED
  BY ClientLemma, <1>1, <1>2, <1>3, <1>4, <1>5, <1>6, <1>7, <1>8, <1>9, <1>10, <1>11, <1>12, <1>13, <1>14, <1>15,
     <1>16
  DEF QuietStep, Next, FrameStep, QueryStep, ConsumerStep, HandleFrame

(* A query has an id.                                                      *)
LEMMA IdsStep ==
  ASSUME IInv, [Next]_vars
  PROVE  QueriesHaveIds'
<1> USE BoundsAssumption
    DEF sessionVars, adapterVars, channelVars, consumerVars, tableVars, queryVars, timerVars,
        history, Frames, IInv
<1>0. /\ job \in [Frames -> {"none", "collecting", "caught", "ready", "sending", "ended"}]
      /\ frameMsg \in [Frames -> OperationMessage \cup {NoFrame}]
      /\ received \in 0..MaxFrames
  BY DEF TypeOK
<1>1. ASSUME QuietStep PROVE QueriesHaveIds'
  BY <1>1, QuietLemma DEF QueriesHaveIds, NoOffer
<1>2. ASSUME NEW m \in OperationMessage, OnWebSocketText(m) PROVE QueriesHaveIds'
  BY <1>0, <1>2 DEF QueriesHaveIds, FramesCounted, FramesHandledOnce, FrameSettled, OnWebSocketText
<1>3. ASSUME NEW n \in Frames, ForwardFrame(n) PROVE QueriesHaveIds'
  BY <1>3, ForwardLemma DEF QueriesHaveIds, surroundings
<1>4. ASSUME NEW n \in Frames, RejectFrame(n) PROVE QueriesHaveIds'
  BY <1>4 DEF QueriesHaveIds, RejectFrame
<1>5. ASSUME NEW n \in Frames, AbandonFrame(n) PROVE QueriesHaveIds'
  BY <1>5 DEF QueriesHaveIds, AbandonFrame
<1>6. ASSUME NEW n \in Frames, CheckDemand(n) PROVE QueriesHaveIds'
  BY <1>6 DEF QueriesHaveIds, CheckDemand
<1>7. ASSUME NEW n \in Frames, Demand(n) PROVE QueriesHaveIds'
  BY <1>7 DEF QueriesHaveIds, Demand
<1>8. ASSUME CancelOnClose PROVE QueriesHaveIds'
  BY <1>8 DEF QueriesHaveIds, CancelOnClose, CancelScope
<1>9. ASSUME Receive PROVE QueriesHaveIds'
  BY <1>0, <1>9, ReceiveLemma DEF QueriesHaveIds, surroundings
<1>10. ASSUME NEW n \in Frames, NEW verdict \in Verdicts, handleQueryStart(n, verdict)
       PROVE  QueriesHaveIds'
  <2>1. CASE UNCHANGED <<job, queries>>
    BY <1>10, <2>1, LaunchLemma DEF QueriesHaveIds, NoOffer
  <2>2. CASE /\ frameMsg[n].id \in Ids
             /\ queries[frameMsg[n].id] = 0
             /\ queries' = [queries EXCEPT ![frameMsg[n].id] = n]
             /\ job' = [job EXCEPT ![n] = IF scope = "active" THEN "collecting" ELSE "ended"]
    <3>1. /\ job'[n] \in {"collecting", "ended"}
          /\ \A q \in Frames : q # n => job'[q] = job[q]
      BY <1>0, <2>2
    <3>2. /\ current.kind = "frame" /\ current.n = n /\ current' = NoOffer
          /\ UNCHANGED <<received, frameMsg, framePc, scope, chan, keepAlive, event, cancelled>>
      BY <1>10, LaunchLemma
    <3>3. QED
      BY <2>2, <3>1, <3>2 DEF QueriesHaveIds, NoOffer
  <2>3. QED
    BY <1>10, <2>1, <2>2, LaunchLemma
<1>11. ASSUME NEW n \in Frames, handleQueryStop(n) \/ handleQueryEnd(n) PROVE QueriesHaveIds'
  <2>1. /\ current' = NoOffer /\ frameMsg' = frameMsg
        /\ \A q \in Frames : job'[q] # "none" => job[q] # "none"
    <3>1. ASSUME NEW q \in Frames, CancelQuery(q)
          PROVE  \A p \in Frames : job[p] = "none" <=> job'[p] = "none"
      BY <1>0, <3>1, WithdrawLemma
    <3>2. QED
      BY <1>11, <3>1, EndLemma DEF surroundings
  <2>2. QED
    BY <2>1 DEF QueriesHaveIds, NoOffer
<1>12. ASSUME NEW n \in Frames, NEW e \in Events, QueryEvent(n, e) PROVE QueriesHaveIds'
  BY <1>12 DEF QueriesHaveIds, QueryEvent
<1>13. ASSUME NEW n \in Frames, QuerySends(n) PROVE QueriesHaveIds'
  <2>1. PICK r \in {"collecting", "caught", "ended", "sending"} : job' = [job EXCEPT ![n] = r]
    BY <1>13, SendsLemma
  <2>2. /\ job[n] = "ready"
        /\ current' \in {current, QueryOffer(n)} /\ QueryOffer(n).kind = "query" /\ QueryOffer(n).n = n
        /\ UNCHANGED <<received, frameMsg, framePc, queries, cancelled>>
    BY <1>13, SendsLemma DEF surroundings
  <2>3. QED
    BY <2>1, <2>2 DEF QueriesHaveIds
<1>14. ASSUME NEW n \in Frames, QueryCancelled(n) PROVE QueriesHaveIds'
  BY <1>14 DEF QueriesHaveIds, QueryCancelled
<1>15. ASSUME NEW n \in Frames, QuerySetupFails(n) PROVE QueriesHaveIds'
  BY <1>15 DEF QueriesHaveIds, QuerySetupFails, CancelScope
<1>16. ASSUME KeepAliveTick PROVE QueriesHaveIds'
  BY <1>16, TickLemma DEF QueriesHaveIds, surroundings
<1>17. QED
  BY ClientLemma, <1>1, <1>2, <1>3, <1>4, <1>5, <1>6, <1>7, <1>8, <1>9, <1>10, <1>11, <1>12, <1>13, <1>14, <1>15,
     <1>16
  DEF QuietStep, Next, FrameStep, QueryStep, ConsumerStep, HandleFrame

(* The channel holds the messages of suspended senders.                    *)
LEMMA SendersStep ==
  ASSUME IInv, [Next]_vars
  PROVE  OnlySuspendedSenders'
<1> USE BoundsAssumption
    DEF sessionVars, adapterVars, channelVars, consumerVars, tableVars, queryVars, timerVars,
        history, Frames, IInv
<1>0. /\ framePc \in [Frames -> {"new", "received", "sending", "finally", "demanding", "done"}]
      /\ job \in [Frames -> {"none", "collecting", "caught", "ready", "sending", "ended"}]
      /\ chan \in Seq(Offer)
  BY DEF TypeOK
<1>1. ASSUME QuietStep PROVE OnlySuspendedSenders'
  BY <1>1, QuietLemma DEF OnlySuspendedSenders, KeepAliveOnce
<1>2. ASSUME NEW m \in OperationMessage, OnWebSocketText(m) PROVE OnlySuspendedSenders'
  <2>1. framePc[received + 1] = "new" /\ received + 1 \in Frames
    <3>1. received \in 0..MaxFrames /\ received < MaxFrames
      BY <1>2 DEF OnWebSocketText, TypeOK
    <3>2. QED
      BY <3>1 DEF FramesCounted
  <2>2. /\ framePc' = [framePc EXCEPT ![received + 1] = IF scope = "active" THEN "received" ELSE "done"]
        /\ UNCHANGED <<chan, job, keepAlive>>
    BY <1>2 DEF OnWebSocketText
  <2>3. QED
    BY <2>1, <2>2 DEF OnlySuspendedSenders
<1>3. ASSUME NEW n \in Frames, ForwardFrame(n) PROVE OnlySuspendedSenders'
  <2>1. CASE chan' = chan
    BY <1>0, <1>3, <2>1, ForwardLemma DEF OnlySuspendedSenders
  <2>2. CASE chan' = Append(chan, FrameOffer(n)) /\ framePc' = [framePc EXCEPT ![n] = "sending"]
    <3>1. \A i \in DOMAIN chan : chan[i].kind # "frame" \/ chan[i].n # n
      BY <1>3, ForwardLemma DEF OnlySuspendedSenders
    <3>2. QED
      <4>1. /\ FrameOffer(n) \in Offer /\ FrameOffer(n).kind = "frame" /\ FrameOffer(n).n = n
            /\ UNCHANGED <<job, keepAlive>>
        BY <1>3, ForwardLemma
      <4>2. QED
        BY <1>0, <2>2, <3>1, <4>1, OneMoreSender
  <2>3. QED
    BY <1>3, <2>1, <2>2, ForwardLemma
<1>4. ASSUME NEW n \in Frames, RejectFrame(n) PROVE OnlySuspendedSenders'
  BY <1>4 DEF OnlySuspendedSenders, RejectFrame
<1>5. ASSUME NEW n \in Frames, AbandonFrame(n) PROVE OnlySuspendedSenders'
  BY <1>5 DEF OnlySuspendedSenders, ScopeEnds, AbandonFrame
<1>6. ASSUME NEW n \in Frames, CheckDemand(n) PROVE OnlySuspendedSenders'
  BY <1>6 DEF OnlySuspendedSenders, CheckDemand
<1>7. ASSUME NEW n \in Frames, Demand(n) PROVE OnlySuspendedSenders'
  BY <1>7 DEF OnlySuspendedSenders, Demand
<1>8. ASSUME CancelOnClose PROVE OnlySuspendedSenders'
  BY <1>8 DEF OnlySuspendedSenders, CancelOnClose, CancelScope
<1>9. ASSUME Receive PROVE OnlySuspendedSenders'
  <2> DEFINE f == [i \in DOMAIN chan' |-> i + 1]
  <2>1. /\ \A j \in DOMAIN chan' : f[j] \in DOMAIN chan /\ chan'[j] = chan[f[j]] /\ f[j] # 1
        /\ \A i, j \in DOMAIN chan' : i # j => f[i] # f[j]
    <3>1. DOMAIN chan' \subseteq Nat \ {0}
      BY <1>9, LenProperties
    <3>2. QED
      BY <1>9, <3>1, ReceiveLemma
  <2> HIDE DEF f
  <2>2. \A j \in DOMAIN chan' :
          /\ chan[f[j]].kind = "frame" => framePc'[chan[f[j]].n] = framePc[chan[f[j]].n]
          /\ chan[f[j]].kind = "query" => job'[chan[f[j]].n] = job[chan[f[j]].n]
          /\ chan[f[j]].kind = "keepalive" => keepAlive' = keepAlive
    <3> SUFFICES ASSUME NEW j \in DOMAIN chan'
                 PROVE  /\ chan[f[j]].kind = "frame" => framePc'[chan[f[j]].n] = framePc[chan[f[j]].n]
                        /\ chan[f[j]].kind = "query" => job'[chan[f[j]].n] = job[chan[f[j]].n]
                        /\ chan[f[j]].kind = "keepalive" => keepAlive' = keepAlive
      OBVIOUS
    <3>1. \/ chan[f[j]].kind # chan[1].kind
          \/ chan[f[j]].n # chan[1].n /\ chan[1].kind # "keepalive"
      BY <1>9, <2>1, ReceiveLemma DEF OnlySuspendedSenders
    <3>2. QED
      <4>1. CASE chan[1].kind = "frame"
        <5>1. /\ framePc' = [framePc EXCEPT ![chan[1].n] = "finally"]
              /\ UNCHANGED <<job, keepAlive>>
          BY <1>9, <4>1, ReceiveLemma
        <5>2. chan[f[j]].kind = "frame" => chan[f[j]].n \in Frames
          BY <2>1 DEF OnlySuspendedSenders
        <5>3. QED
          BY <3>1, <4>1, <5>1, <5>2
      <4>2. CASE chan[1].kind = "query"
        <5>1. PICK r \in {"collecting", "caught", "ended"} : job' = [job EXCEPT ![chan[1].n] = r]
          BY <1>9, <4>2, ReceiveLemma
        <5>2. UNCHANGED <<framePc, keepAlive>>
          BY <1>9, <4>2, ReceiveLemma
        <5>3. chan[f[j]].kind = "query" => chan[f[j]].n \in Frames
          BY <2>1 DEF OnlySuspendedSenders
        <5>4. QED
          BY <3>1, <4>2, <5>1, <5>2, <5>3
      <4>3. CASE chan[1].kind = "keepalive"
        BY <1>9, <3>1, <4>3, ReceiveLemma
      <4>4. QED
        BY <1>9, <4>1, <4>2, <4>3, ReceiveLemma
  <2>3. QED
    BY <2>1, <2>2, FewerSenders
<1>10. ASSUME NEW n \in Frames, NEW verdict \in Verdicts, handleQueryStart(n, verdict)
       PROVE  OnlySuspendedSenders'
  <2>1. UNCHANGED <<chan, framePc, keepAlive>>
    BY <1>10, LaunchLemma
  <2>2. \A q \in Frames : job[q] = "sending" => job'[q] = "sending"
    <3>1. job[n] = "none" /\ \A q \in Frames : q # n => job'[q] = job[q]
      BY <1>0, <1>10, LaunchLemma DEF FramesHandledOnce
    <3>2. QED
      BY <3>1
  <2>3. QED
    BY <2>1, <2>2 DEF OnlySuspendedSenders
<1>11. ASSUME NEW n \in Frames, handleQueryStop(n) \/ handleQueryEnd(n) PROVE OnlySuspendedSenders'
  <2>1. CASE UNCHANGED <<chan, job>>
    BY <1>11, <2>1, EndLemma DEF OnlySuspendedSenders
  <2>2. ASSUME NEW q \in Frames, CancelQuery(q), job[q] = "sending", ~UNCHANGED <<chan, job, event>>
        PROVE  OnlySuspendedSenders'
    <3>1. PICK i \in DOMAIN chan :
            /\ chan[i].kind = "query" /\ chan[i].n = q
            /\ \A j \in DOMAIN chan' :
                 LET k == IF j < i THEN j ELSE j + 1
                 IN  j \in Nat /\ i \in Nat /\ k \in DOMAIN chan /\ chan'[j] = chan[k]
      BY <2>2, WithdrawLemma
    <3> DEFINE f == [j \in DOMAIN chan' |-> IF j < i THEN j ELSE j + 1]
    <3>2. /\ \A j \in DOMAIN chan' : f[j] \in DOMAIN chan /\ chan'[j] = chan[f[j]] /\ f[j] # i
          /\ \A j, k \in DOMAIN chan' : j # k => f[j] # f[k]
      BY <3>1
    <3> HIDE DEF f
    <3>3. job' = [job EXCEPT ![q] = "ended"] /\ UNCHANGED <<framePc, keepAlive>>
      BY <1>11, <2>2, WithdrawLemma, EndLemma
    <3>4. \A j \in DOMAIN chan' : chan[f[j]].kind = "query" => chan[f[j]].n # q
      BY <3>1, <3>2 DEF OnlySuspendedSenders
    <3>5. \A j \in DOMAIN chan' : chan[f[j]].kind = "query" => job'[chan[f[j]].n] = job[chan[f[j]].n]
      BY <3>2, <3>3, <3>4
    <3>6. QED
      BY <3>2, <3>3, <3>5, FewerSenders
  <2>3. QED
    <3>1. CASE UNCHANGED <<chan, job, event, cancelled, queries>>
      BY <2>1, <3>1
    <3>2. ASSUME NEW id \in Ids, queries[id] \in Frames, CancelQuery(queries[id])
          PROVE  OnlySuspendedSenders'
      BY <2>1, <2>2, <3>2, WithdrawLemma
    <3>3. QED
      BY <1>11, <3>1, <3>2, EndLemma
<1>12. ASSUME NEW n \in Frames, NEW e \in Events, QueryEvent(n, e) PROVE OnlySuspendedSenders'
  BY <1>12 DEF OnlySuspendedSenders, QueryEvent
<1>13. ASSUME NEW n \in Frames, QuerySends(n) PROVE OnlySuspendedSenders'
  <2>1. CASE chan' = chan
    <3>1. \A q \in Frames : job[q] = "sending" => job'[q] = "sending"
      BY <1>0, <1>13, SendsLemma
    <3>2. QED
      BY <1>13, <2>1, <3>1, SendsLemma DEF OnlySuspendedSenders
  <2>2. CASE chan' = Append(chan, QueryOffer(n)) /\ job' = [job EXCEPT ![n] = "sending"]
    <3>1. \A i \in DOMAIN chan : chan[i].kind # "query" \/ chan[i].n # n
      BY <1>13, SendsLemma DEF OnlySuspendedSenders
    <3>2. QED
      <4>1. /\ QueryOffer(n) \in Offer /\ QueryOffer(n).kind = "query" /\ QueryOffer(n).n = n
            /\ UNCHANGED <<framePc, keepAlive>>
        BY <1>13, SendsLemma
      <4>2. QED
        BY <1>0, <2>2, <3>1, <4>1, OneMoreSender
  <2>3. QED
    BY <1>13, <2>1, <2>2, SendsLemma
<1>14. ASSUME NEW n \in Frames, QueryCancelled(n) PROVE OnlySuspendedSenders'
  BY <1>14 DEF OnlySuspendedSenders, QueryCancelled
<1>15. ASSUME NEW n \in Frames, QuerySetupFails(n) PROVE OnlySuspendedSenders'
  BY <1>15 DEF OnlySuspendedSenders, QuerySetupFails, CancelScope
<1>16. ASSUME KeepAliveTick PROVE OnlySuspendedSenders'
  <2>1. CASE chan' = chan /\ keepAlive' = keepAlive
    BY <1>16, <2>1, TickLemma DEF OnlySuspendedSenders
  <2>2. CASE chan' = Append(chan, KeepAliveOffer) /\ keepAlive' = "sending"
    <3>1. \A i \in DOMAIN chan : chan[i].kind # "keepalive"
      BY <1>16, TickLemma DEF OnlySuspendedSenders
    <3>2. QED
      BY <1>0, <1>16, <2>2, <3>1, TickLemma, OneMoreSender
  <2>3. QED
    BY <1>16, <2>1, <2>2, TickLemma
<1>17. QED
  BY ClientLemma, <1>1, <1>2, <1>3, <1>4, <1>5, <1>6, <1>7, <1>8, <1>9, <1>10, <1>11, <1>12, <1>13, <1>14, <1>15,
     <1>16
  DEF QuietStep, Next, FrameStep, QueryStep, ConsumerStep, HandleFrame

(* A cancelled scope stays empty.                                          *)
LEMMA ScopeStep ==
  ASSUME IInv, [Next]_vars
  PROVE  ScopeEnds'
<1> USE BoundsAssumption
    DEF sessionVars, adapterVars, channelVars, consumerVars, tableVars, queryVars, timerVars,
        history, Frames, IInv
<1>0. /\ job \in [Frames -> {"none", "collecting", "caught", "ready", "sending", "ended"}]
      /\ chan \in Seq(Offer)
      /\ cancelled \subseteq Frames
  BY DEF TypeOK
<1>1. ASSUME QuietStep PROVE ScopeEnds'
  BY <1>1, QuietLemma DEF ScopeEnds, LiveQuery
<1>2. ASSUME NEW m \in OperationMessage, OnWebSocketText(m) PROVE ScopeEnds'
  BY <1>2 DEF ScopeEnds, LiveQuery, OnWebSocketText
<1>3. ASSUME NEW n \in Frames, ForwardFrame(n) PROVE ScopeEnds'
  BY <1>3, ForwardLemma DEF ScopeEnds, surroundings
<1>4. ASSUME NEW n \in Frames, RejectFrame(n) PROVE ScopeEnds'
  BY <1>4 DEF ScopeEnds, LiveQuery, RejectFrame
<1>5. ASSUME NEW n \in Frames, AbandonFrame(n) PROVE ScopeEnds'
  BY <1>5 DEF ScopeEnds, LiveQuery, AbandonFrame
<1>6. ASSUME NEW n \in Frames, CheckDemand(n) PROVE ScopeEnds'
  BY <1>6 DEF ScopeEnds, LiveQuery, CheckDemand
<1>7. ASSUME NEW n \in Frames, Demand(n) PROVE ScopeEnds'
  BY <1>7 DEF ScopeEnds, LiveQuery, Demand
<1>8. ASSUME CancelOnClose PROVE ScopeEnds'
  BY <1>8 DEF ScopeEnds, LiveQuery, CancelOnClose, CancelScope
<1>9. ASSUME Receive PROVE ScopeEnds'
  BY <1>9, ReceiveLemma DEF ScopeEnds, surroundings
<1>10. ASSUME NEW n \in Frames, NEW verdict \in Verdicts, handleQueryStart(n, verdict)
       PROVE  ScopeEnds'
  <2>1. CASE UNCHANGED <<job, queries>>
    BY <1>10, <2>1, LaunchLemma DEF ScopeEnds, LiveQuery
  <2>2. CASE /\ frameMsg[n].id \in Ids
             /\ queries[frameMsg[n].id] = 0
             /\ queries' = [queries EXCEPT ![frameMsg[n].id] = n]
             /\ job' = [job EXCEPT ![n] = IF scope = "active" THEN "collecting" ELSE "ended"]
    <3>1. /\ job'[n] \in {"collecting", "ended"}
          /\ \A q \in Frames : q # n => job'[q] = job[q]
      BY <1>0, <2>2
    <3>2. /\ current.kind = "frame" /\ current.n = n /\ current' = NoOffer
          /\ UNCHANGED <<received, frameMsg, framePc, scope, chan, keepAlive, event, cancelled>>
      BY <1>10, LaunchLemma
    <3>3. QED
      BY <2>2, <3>1, <3>2 DEF ScopeEnds, LiveQuery
  <2>3. QED
    BY <1>10, <2>1, <2>2, LaunchLemma
<1>11. ASSUME NEW n \in Frames, handleQueryStop(n) \/ handleQueryEnd(n) PROVE ScopeEnds'
  <2>1. CASE UNCHANGED <<chan, job, event, cancelled, queries>>
    BY <1>11, <2>1, EndLemma DEF ScopeEnds, LiveQuery, surroundings
  <2>2. ASSUME NEW id \in Ids, queries[id] \in Frames, CancelQuery(queries[id])
        PROVE  ScopeEnds'
    BY <1>11, <2>2, EndLemma, WithdrawLemma DEF ScopeEnds, LiveQuery, surroundings
  <2>3. QED
    BY <1>11, <2>1, <2>2, EndLemma
<1>12. ASSUME NEW n \in Frames, NEW e \in Events, QueryEvent(n, e) PROVE ScopeEnds'
  BY <1>12 DEF ScopeEnds, LiveQuery, QueryEvent
<1>13. ASSUME NEW n \in Frames, QuerySends(n) PROVE ScopeEnds'
  BY <1>0, <1>13, SendsLemma DEF ScopeEnds, LiveQuery, surroundings
<1>14. ASSUME NEW n \in Frames, QueryCancelled(n) PROVE ScopeEnds'
  BY <1>14 DEF ScopeEnds, LiveQuery, QueryCancelled
<1>15. ASSUME NEW n \in Frames, QuerySetupFails(n) PROVE ScopeEnds'
  BY <1>15 DEF ScopeEnds, LiveQuery, QuerySetupFails, CancelScope
<1>16. ASSUME KeepAliveTick PROVE ScopeEnds'
  BY <1>16, TickLemma DEF ScopeEnds, surroundings
<1>17. QED
  BY ClientLemma, <1>1, <1>2, <1>3, <1>4, <1>5, <1>6, <1>7, <1>8, <1>9, <1>10, <1>11, <1>12, <1>13, <1>14, <1>15,
     <1>16
  DEF QuietStep, Next, FrameStep, QueryStep, ConsumerStep, HandleFrame

(* Frames stay counted.                                                    *)
LEMMA CountedStep ==
  ASSUME IInv, [Next]_vars
  PROVE  FramesCounted'
<1> USE BoundsAssumption
    DEF sessionVars, adapterVars, channelVars, consumerVars, tableVars, queryVars, timerVars,
        history, Frames, IInv
<1>0. /\ framePc \in [Frames -> {"new", "received", "sending", "finally", "demanding", "done"}]
      /\ received \in 0..MaxFrames
  BY DEF TypeOK
<1>1. ASSUME QuietStep PROVE FramesCounted'
  BY <1>1, QuietLemma DEF FramesCounted
<1>2. ASSUME NEW m \in OperationMessage, OnWebSocketText(m) PROVE FramesCounted'
  BY <1>0, <1>2 DEF FramesCounted, OnWebSocketText
<1>3. ASSUME NEW n \in Frames, ForwardFrame(n) PROVE FramesCounted'
  BY <1>0, <1>3, ForwardLemma DEF FramesCounted, surroundings
<1>4. ASSUME NEW n \in Frames, RejectFrame(n) PROVE FramesCounted'
  <2>1. session' = "connecting" => session = "connecting"
    BY <1>4 DEF RejectFrame, onInvalidMessage, AnswerOrClose, close
  <2>2. QED
    BY <1>4, <2>1 DEF FramesCounted, RejectFrame
<1>5. ASSUME NEW n \in Frames, AbandonFrame(n) PROVE FramesCounted'
  BY <1>5 DEF FramesCounted, AbandonFrame
<1>6. ASSUME NEW n \in Frames, CheckDemand(n) PROVE FramesCounted'
  BY <1>6 DEF FramesCounted, CheckDemand
<1>7. ASSUME NEW n \in Frames, Demand(n) PROVE FramesCounted'
  BY <1>7 DEF FramesCounted, Demand
<1>8. ASSUME CancelOnClose PROVE FramesCounted'
  BY <1>8 DEF FramesCounted, CancelOnClose
<1>9. ASSUME Receive PROVE FramesCounted'
  BY <1>0, <1>9, ReceiveLemma DEF FramesCounted, surroundings
<1>10. ASSUME NEW n \in Frames, NEW verdict \in Verdicts, handleQueryStart(n, verdict)
       PROVE  FramesCounted'
  BY <1>10, LaunchLemma DEF FramesCounted
<1>11. ASSUME NEW n \in Frames, handleQueryStop(n) \/ handleQueryEnd(n) PROVE FramesCounted'
  BY <1>11, EndLemma DEF FramesCounted, surroundings
<1>12. ASSUME NEW n \in Frames, NEW e \in Events, QueryEvent(n, e) PROVE FramesCounted'
  BY <1>12 DEF FramesCounted, QueryEvent
<1>13. ASSUME NEW n \in Frames, QuerySends(n) PROVE FramesCounted'
  BY <1>13, SendsLemma DEF FramesCounted, surroundings
<1>14. ASSUME NEW n \in Frames, QueryCancelled(n) PROVE FramesCounted'
  BY <1>14 DEF FramesCounted, QueryCancelled
<1>15. ASSUME NEW n \in Frames, QuerySetupFails(n) PROVE FramesCounted'
  BY <1>15 DEF FramesCounted, QuerySetupFails
<1>16. ASSUME KeepAliveTick PROVE FramesCounted'
  BY <1>16, TickLemma DEF FramesCounted, surroundings
<1>17. QED
  BY ClientLemma, <1>1, <1>2, <1>3, <1>4, <1>5, <1>6, <1>7, <1>8, <1>9, <1>10, <1>11, <1>12, <1>13, <1>14, <1>15,
     <1>16
  DEF QuietStep, Next, FrameStep, QueryStep, ConsumerStep, HandleFrame

(* A frame starts a query once.                                            *)
LEMMA HandledOnceStep ==
  ASSUME IInv, [Next]_vars
  PROVE  FramesHandledOnce'
<1> USE BoundsAssumption
    DEF sessionVars, adapterVars, channelVars, consumerVars, tableVars, queryVars, timerVars,
        history, Frames, IInv
<1>0. /\ framePc \in [Frames -> {"new", "received", "sending", "finally", "demanding", "done"}]
      /\ job \in [Frames -> {"none", "collecting", "caught", "ready", "sending", "ended"}]
      /\ received \in 0..MaxFrames
  BY DEF TypeOK
<1>1. ASSUME QuietStep PROVE FramesHandledOnce'
  BY <1>1, QuietLemma DEF FramesHandledOnce, FrameSettled, NoOffer
<1>2. ASSUME NEW m \in OperationMessage, OnWebSocketText(m) PROVE FramesHandledOnce'
  BY <1>0, <1>2 DEF FramesCounted, FramesHandledOnce, FrameSettled, OnWebSocketText
<1>3. ASSUME NEW n \in Frames, ForwardFrame(n) PROVE FramesHandledOnce'
  BY <1>0, <1>3, ForwardLemma DEF FramesHandledOnce, FrameSettled
<1>4. ASSUME NEW n \in Frames, RejectFrame(n) PROVE FramesHandledOnce'
  BY <1>4 DEF FramesHandledOnce, FrameSettled, RejectFrame
<1>5. ASSUME NEW n \in Frames, AbandonFrame(n) PROVE FramesHandledOnce'
  BY <1>5 DEF FramesHandledOnce, FrameSettled, AbandonFrame
<1>6. ASSUME NEW n \in Frames, CheckDemand(n) PROVE FramesHandledOnce'
  BY <1>6 DEF FramesHandledOnce, FrameSettled, CheckDemand
<1>7. ASSUME NEW n \in Frames, Demand(n) PROVE FramesHandledOnce'
  BY <1>7 DEF FramesHandledOnce, FrameSettled, Demand
<1>8. ASSUME CancelOnClose PROVE FramesHandledOnce'
  BY <1>8 DEF FramesHandledOnce, FrameSettled, CancelOnClose, CancelScope
<1>9. ASSUME Receive PROVE FramesHandledOnce'
  <2>1. CASE chan[1].kind = "frame"
    <3>1. /\ chan[1].n \in Frames /\ framePc[chan[1].n] = "sending"
          /\ framePc' = [framePc EXCEPT ![chan[1].n] = "finally"]
          /\ current' = chan[1] /\ job' = job
      BY <1>9, <2>1, ReceiveLemma
    <3>2. QED
      BY <1>0, <3>1 DEF FramesHandledOnce, FrameSettled
  <2>2. CASE chan[1].kind = "query"
    <3>1. PICK r \in {"collecting", "caught", "ended"} : job' = [job EXCEPT ![chan[1].n] = r]
      BY <1>9, <2>2, ReceiveLemma
    <3>2. QED
      BY <1>9, <2>2, <3>1, ReceiveLemma DEF FramesHandledOnce, FrameSettled
  <2>3. CASE chan[1].kind = "keepalive"
    BY <1>9, <2>3, ReceiveLemma DEF FramesHandledOnce, FrameSettled
  <2>4. QED
    BY <1>9, <2>1, <2>2, <2>3, ReceiveLemma
<1>10. ASSUME NEW n \in Frames, NEW verdict \in Verdicts, handleQueryStart(n, verdict)
       PROVE  FramesHandledOnce'
  <2>1. CASE UNCHANGED <<job, queries>>
    BY <1>10, <2>1, LaunchLemma DEF FramesHandledOnce, FrameSettled, NoOffer
  <2>2. CASE /\ frameMsg[n].id \in Ids
             /\ queries[frameMsg[n].id] = 0
             /\ queries' = [queries EXCEPT ![frameMsg[n].id] = n]
             /\ job' = [job EXCEPT ![n] = IF scope = "active" THEN "collecting" ELSE "ended"]
    <3>1. /\ job'[n] \in {"collecting", "ended"}
          /\ \A q \in Frames : q # n => job'[q] = job[q]
      BY <1>0, <2>2
    <3>2. /\ current.kind = "frame" /\ current.n = n /\ current' = NoOffer
          /\ UNCHANGED <<received, frameMsg, framePc, scope, chan, keepAlive, event, cancelled>>
      BY <1>10, LaunchLemma
    <3>3. QED
      BY <2>2, <3>1, <3>2 DEF FramesHandledOnce, FrameSettled, NoOffer
  <2>3. QED
    BY <1>10, <2>1, <2>2, LaunchLemma
<1>11. ASSUME NEW n \in Frames, handleQueryStop(n) \/ handleQueryEnd(n) PROVE FramesHandledOnce'
  BY <1>0, <1>11, EndLemma, WithdrawLemma DEF FramesHandledOnce, FrameSettled, NoOffer
<1>12. ASSUME NEW n \in Frames, NEW e \in Events, QueryEvent(n, e) PROVE FramesHandledOnce'
  BY <1>12 DEF FramesHandledOnce, FrameSettled, QueryEvent
<1>13. ASSUME NEW n \in Frames, QuerySends(n) PROVE FramesHandledOnce'
  <2>1. PICK r \in {"collecting", "caught", "ended", "sending"} : job' = [job EXCEPT ![n] = r]
    BY <1>13, SendsLemma
  <2>2. /\ job[n] = "ready"
        /\ current' \in {current, QueryOffer(n)} /\ QueryOffer(n).kind = "query" /\ QueryOffer(n).n = n
        /\ UNCHANGED <<received, frameMsg, framePc, queries, cancelled>>
    BY <1>13, SendsLemma DEF surroundings
  <2>3. QED
    BY <2>1, <2>2 DEF FramesHandledOnce, FrameSettled
<1>14. ASSUME NEW n \in Frames, QueryCancelled(n) PROVE FramesHandledOnce'
  BY <1>14 DEF FramesHandledOnce, FrameSettled, QueryCancelled
<1>15. ASSUME NEW n \in Frames, QuerySetupFails(n) PROVE FramesHandledOnce'
  BY <1>15 DEF FramesHandledOnce, FrameSettled, QuerySetupFails, CancelScope
<1>16. ASSUME KeepAliveTick PROVE FramesHandledOnce'
  BY <1>16, TickLemma DEF FramesHandledOnce, FrameSettled
<1>17. QED
  BY ClientLemma, <1>1, <1>2, <1>3, <1>4, <1>5, <1>6, <1>7, <1>8, <1>9, <1>10, <1>11, <1>12, <1>13, <1>14, <1>15,
     <1>16
  DEF QuietStep, Next, FrameStep, QueryStep, ConsumerStep, HandleFrame

(* One frame at a time.                                                    *)
LEMMA OneFrameStep ==
  ASSUME IInv, [Next]_vars
  PROVE  OneFrameInFlight'
<1> USE BoundsAssumption
    DEF sessionVars, adapterVars, channelVars, consumerVars, tableVars, queryVars, timerVars,
        history, Frames, IInv
<1>0. /\ framePc \in [Frames -> {"new", "received", "sending", "finally", "demanding", "done"}]
      /\ received \in 0..MaxFrames
  BY DEF TypeOK
<1>1. ASSUME QuietStep PROVE OneFrameInFlight'
  BY <1>1, QuietLemma DEF FramesCounted, OneFrameInFlight, LiveFrame
<1>2. ASSUME NEW m \in OperationMessage, OnWebSocketText(m) PROVE OneFrameInFlight'
  BY <1>2 DEF OneFrameInFlight, LiveFrame, OnWebSocketText
<1>3. ASSUME NEW n \in Frames, ForwardFrame(n) PROVE OneFrameInFlight'
  BY <1>0, <1>3, ForwardLemma DEF OneFrameInFlight, LiveFrame, surroundings
<1>4. ASSUME NEW n \in Frames, RejectFrame(n) PROVE OneFrameInFlight'
  BY <1>4 DEF OneFrameInFlight, LiveFrame, RejectFrame
<1>5. ASSUME NEW n \in Frames, AbandonFrame(n) PROVE OneFrameInFlight'
  BY <1>5 DEF OneFrameInFlight, LiveFrame, AbandonFrame
<1>6. ASSUME NEW n \in Frames, CheckDemand(n) PROVE OneFrameInFlight'
  BY <1>6 DEF OneFrameInFlight, LiveFrame, CheckDemand
<1>7. ASSUME NEW n \in Frames, Demand(n) PROVE OneFrameInFlight'
  BY <1>0, <1>7 DEF OneFrameInFlight, LiveFrame, Demand
<1>8. ASSUME CancelOnClose PROVE OneFrameInFlight'
  BY <1>8 DEF OneFrameInFlight, LiveFrame, CancelOnClose
<1>9. ASSUME Receive PROVE OneFrameInFlight'
  BY <1>0, <1>9, ReceiveLemma DEF OneFrameInFlight, LiveFrame, surroundings
<1>10. ASSUME NEW n \in Frames, NEW verdict \in Verdicts, handleQueryStart(n, verdict)
       PROVE  OneFrameInFlight'
  BY <1>10, LaunchLemma DEF OneFrameInFlight, LiveFrame
<1>11. ASSUME NEW n \in Frames, handleQueryStop(n) \/ handleQueryEnd(n) PROVE OneFrameInFlight'
  BY <1>11, EndLemma DEF OneFrameInFlight, LiveFrame, surroundings
<1>12. ASSUME NEW n \in Frames, NEW e \in Events, QueryEvent(n, e) PROVE OneFrameInFlight'
  BY <1>12 DEF OneFrameInFlight, LiveFrame, QueryEvent
<1>13. ASSUME NEW n \in Frames, QuerySends(n) PROVE OneFrameInFlight'
  BY <1>13, SendsLemma DEF OneFrameInFlight, LiveFrame, surroundings
<1>14. ASSUME NEW n \in Frames, QueryCancelled(n) PROVE OneFrameInFlight'
  BY <1>14 DEF OneFrameInFlight, LiveFrame, QueryCancelled
<1>15. ASSUME NEW n \in Frames, QuerySetupFails(n) PROVE OneFrameInFlight'
  BY <1>15 DEF OneFrameInFlight, LiveFrame, QuerySetupFails
<1>16. ASSUME KeepAliveTick PROVE OneFrameInFlight'
  BY <1>16, TickLemma DEF OneFrameInFlight, LiveFrame, surroundings
<1>17. QED
  BY ClientLemma, <1>1, <1>2, <1>3, <1>4, <1>5, <1>6, <1>7, <1>8, <1>9, <1>10, <1>11, <1>12, <1>13, <1>14, <1>15,
     <1>16
  DEF QuietStep, Next, FrameStep, QueryStep, ConsumerStep, HandleFrame

(* Frames are handled in order.                                            *)
LEMMA OrderStep ==
  ASSUME IInv, [Next]_vars
  PROVE  FramesInOrder'
<1> USE BoundsAssumption
    DEF sessionVars, adapterVars, channelVars, consumerVars, tableVars, queryVars, timerVars,
        history, Frames, IInv
<1>0. /\ framePc \in [Frames -> {"new", "received", "sending", "finally", "demanding", "done"}]
      /\ received \in 0..MaxFrames
  BY DEF TypeOK
<1>1. ASSUME QuietStep PROVE FramesInOrder'
  BY <1>1, QuietLemma DEF FramesInOrder, NoOffer
<1>2. ASSUME NEW m \in OperationMessage, OnWebSocketText(m) PROVE FramesInOrder'
  BY <1>0, <1>2 DEF FramesCounted, OneFrameInFlight, FramesInOrder, LiveFrame, OnWebSocketText
<1>3. ASSUME NEW n \in Frames, ForwardFrame(n) PROVE FramesInOrder'
  BY <1>0, <1>3, ForwardLemma DEF FramesInOrder
<1>4. ASSUME NEW n \in Frames, RejectFrame(n) PROVE FramesInOrder'
  BY <1>4 DEF FramesInOrder, RejectFrame
<1>5. ASSUME NEW n \in Frames, AbandonFrame(n) PROVE FramesInOrder'
  BY <1>5 DEF FramesInOrder, AbandonFrame
<1>6. ASSUME NEW n \in Frames, CheckDemand(n) PROVE FramesInOrder'
  BY <1>6 DEF FramesInOrder, CheckDemand
<1>7. ASSUME NEW n \in Frames, Demand(n) PROVE FramesInOrder'
  BY <1>7 DEF FramesInOrder, Demand
<1>8. ASSUME CancelOnClose PROVE FramesInOrder'
  BY <1>8 DEF FramesInOrder, CancelOnClose
<1>9. ASSUME Receive PROVE FramesInOrder'
  BY <1>0, <1>9, ReceiveLemma DEF FramesInOrder
<1>10. ASSUME NEW n \in Frames, NEW verdict \in Verdicts, handleQueryStart(n, verdict)
       PROVE  FramesInOrder'
  BY <1>10, LaunchLemma DEF FramesInOrder, NoOffer
<1>11. ASSUME NEW n \in Frames, handleQueryStop(n) \/ handleQueryEnd(n) PROVE FramesInOrder'
  BY <1>11, EndLemma DEF FramesInOrder, NoOffer
<1>12. ASSUME NEW n \in Frames, NEW e \in Events, QueryEvent(n, e) PROVE FramesInOrder'
  BY <1>12 DEF FramesInOrder, QueryEvent
<1>13. ASSUME NEW n \in Frames, QuerySends(n) PROVE FramesInOrder'
  BY <1>13, SendsLemma DEF FramesInOrder
<1>14. ASSUME NEW n \in Frames, QueryCancelled(n) PROVE FramesInOrder'
  BY <1>14 DEF FramesInOrder, QueryCancelled
<1>15. ASSUME NEW n \in Frames, QuerySetupFails(n) PROVE FramesInOrder'
  BY <1>15 DEF FramesInOrder, QuerySetupFails
<1>16. ASSUME KeepAliveTick PROVE FramesInOrder'
  BY <1>16, TickLemma DEF FramesInOrder
<1>17. QED
  BY ClientLemma, <1>1, <1>2, <1>3, <1>4, <1>5, <1>6, <1>7, <1>8, <1>9, <1>10, <1>11, <1>12, <1>13, <1>14, <1>15,
     <1>16
  DEF QuietStep, Next, FrameStep, QueryStep, ConsumerStep, HandleFrame

(* The table leads to every running query.                                 *)
LEMMA OrphanStep ==
  ASSUME IInv, [Next]_vars
  PROVE  NoOrphanQuery'
<1> USE BoundsAssumption
    DEF sessionVars, adapterVars, channelVars, consumerVars, tableVars, queryVars, timerVars,
        history, Frames, IInv
<1>0. /\ job \in [Frames -> {"none", "collecting", "caught", "ready", "sending", "ended"}]
      /\ queries \in [Ids -> 0..MaxFrames]
      /\ frameMsg \in [Frames -> OperationMessage \cup {NoFrame}]
      /\ received \in 0..MaxFrames
  BY DEF TypeOK
<1>1. ASSUME QuietStep PROVE NoOrphanQuery'
  BY <1>1, QuietLemma DEF NoOrphanQuery, LiveQuery
<1>2. ASSUME NEW m \in OperationMessage, OnWebSocketText(m) PROVE NoOrphanQuery'
  BY <1>0, <1>2
  DEF FramesCounted, FramesHandledOnce, FrameSettled, NoOrphanQuery, LiveQuery, OnWebSocketText
<1>3. ASSUME NEW n \in Frames, ForwardFrame(n) PROVE NoOrphanQuery'
  BY <1>3, ForwardLemma DEF NoOrphanQuery, LiveQuery, surroundings
<1>4. ASSUME NEW n \in Frames, RejectFrame(n) PROVE NoOrphanQuery'
  BY <1>4 DEF NoOrphanQuery, LiveQuery, RejectFrame
<1>5. ASSUME NEW n \in Frames, AbandonFrame(n) PROVE NoOrphanQuery'
  BY <1>5 DEF NoOrphanQuery, LiveQuery, AbandonFrame
<1>6. ASSUME NEW n \in Frames, CheckDemand(n) PROVE NoOrphanQuery'
  BY <1>6 DEF NoOrphanQuery, LiveQuery, CheckDemand
<1>7. ASSUME NEW n \in Frames, Demand(n) PROVE NoOrphanQuery'
  BY <1>7 DEF NoOrphanQuery, LiveQuery, Demand
<1>8. ASSUME CancelOnClose PROVE NoOrphanQuery'
  BY <1>8 DEF NoOrphanQuery, LiveQuery, CancelOnClose, CancelScope
<1>9. ASSUME Receive PROVE NoOrphanQuery'
  BY <1>0, <1>9, ReceiveLemma DEF NoOrphanQuery, LiveQuery, surroundings
<1>10. ASSUME NEW n \in Frames, NEW verdict \in Verdicts, handleQueryStart(n, verdict)
       PROVE  NoOrphanQuery'
  <2>1. CASE UNCHANGED <<job, queries>>
    BY <1>10, <2>1, LaunchLemma DEF NoOrphanQuery, LiveQuery
  <2>2. CASE /\ frameMsg[n].id \in Ids
             /\ queries[frameMsg[n].id] = 0
             /\ queries' = [queries EXCEPT ![frameMsg[n].id] = n]
             /\ job' = [job EXCEPT ![n] = IF scope = "active" THEN "collecting" ELSE "ended"]
    <3>1. /\ job'[n] \in {"collecting", "ended"}
          /\ \A q \in Frames : q # n => job'[q] = job[q]
      BY <1>0, <2>2
    <3>2. /\ current.kind = "frame" /\ current.n = n /\ current' = NoOffer
          /\ UNCHANGED <<received, frameMsg, framePc, scope, chan, keepAlive, event, cancelled>>
      BY <1>10, LaunchLemma
    <3>3. QED
      BY <1>0, <2>2, <3>1, <3>2 DEF NoOrphanQuery, LiveQuery
  <2>3. QED
    BY <1>10, <2>1, <2>2, LaunchLemma
<1>11. ASSUME NEW n \in Frames, handleQueryStop(n) \/ handleQueryEnd(n) PROVE NoOrphanQuery'
  BY <1>0, <1>11, EndLemma, WithdrawLemma DEF NoOrphanQuery, LiveQuery, surroundings
<1>12. ASSUME NEW n \in Frames, NEW e \in Events, QueryEvent(n, e) PROVE NoOrphanQuery'
  BY <1>12 DEF NoOrphanQuery, LiveQuery, QueryEvent
<1>13. ASSUME NEW n \in Frames, QuerySends(n) PROVE NoOrphanQuery'
  <2>1. PICK r \in {"collecting", "caught", "ended", "sending"} : job' = [job EXCEPT ![n] = r]
    BY <1>13, SendsLemma
  <2>2. /\ job[n] = "ready"
        /\ current' \in {current, QueryOffer(n)} /\ QueryOffer(n).kind = "query" /\ QueryOffer(n).n = n
        /\ UNCHANGED <<received, frameMsg, framePc, queries, cancelled>>
    BY <1>13, SendsLemma DEF surroundings
  <2>3. QED
    BY <2>1, <2>2 DEF NoOrphanQuery, LiveQuery
<1>14. ASSUME NEW n \in Frames, QueryCancelled(n) PROVE NoOrphanQuery'
  BY <1>14 DEF NoOrphanQuery, LiveQuery, QueryCancelled
<1>15. ASSUME NEW n \in Frames, QuerySetupFails(n) PROVE NoOrphanQuery'
  BY <1>15 DEF NoOrphanQuery, LiveQuery, QuerySetupFails, CancelScope
<1>16. ASSUME KeepAliveTick PROVE NoOrphanQuery'
  BY <1>16, TickLemma DEF NoOrphanQuery, LiveQuery, surroundings
<1>17. QED
  BY ClientLemma, <1>1, <1>2, <1>3, <1>4, <1>5, <1>6, <1>7, <1>8, <1>9, <1>10, <1>11, <1>12, <1>13, <1>14, <1>15,
     <1>16
  DEF QuietStep, Next, FrameStep, QueryStep, ConsumerStep, HandleFrame

-----------------------------------------------------------------------------
LEMMA InitLemma == Init => IInv
<1> SUFFICES ASSUME Init PROVE IInv
  OBVIOUS
<1>1. TypeOK
  <2>1. /\ 0 \in 0..MaxFrames /\ 0 \in 0..MaxData
        /\ <<>> \in Seq(Offer) /\ <<>> \in Seq(OperationTypes)
    BY BoundsAssumption
  <2>2. QED
    BY <2>1 DEF Init, TypeOK
<1>2. QED
  BY <1>1
  DEF Init, IInv, EventsPending, KeepAliveOnce, QueriesHaveIds, OnlySuspendedSenders, FramesCounted,
      FramesHandledOnce, ScopeEnds, OneFrameInFlight, FramesInOrder, NoOrphanQuery, LiveFrame,
      LiveQuery, NoOffer, Frames

LEMMA StepLemma == IInv /\ [Next]_vars => IInv'
<1> SUFFICES ASSUME IInv, [Next]_vars PROVE IInv'
  OBVIOUS
<1>1. TypeOK'
  BY TypeStep DEF IInv
<1>2. QED
  BY <1>1, EventsStep, KeepAliveStep, IdsStep, SendersStep, ScopeStep, CountedStep, HandledOnceStep,
     OneFrameStep, OrderStep, OrphanStep
  DEF IInv

(* The inductive invariant holds in every reachable state.                 *)
THEOREM Invariance == Spec => []IInv
  BY InitLemma, StepLemma, PTL DEF Spec

(* Every variable keeps its type, however many frames the client sends and *)
(* however the threads of the connection interleave.                       *)
THEOREM TypeCorrect == Spec => []TypeOK
<1>1. IInv => TypeOK
  BY DEF IInv
<1>2. QED
  BY Invariance, <1>1, PTL

(* A cancelled query never leaves a message behind in the channel: the     *)
(* channel holds exactly the messages of coroutines suspended in send      *)
(* (queueMessage, the adapter's send and the keepalive's).                 *)
THEOREM SendersSuspended == Spec => []OnlySuspendedSenders
<1>1. IInv => OnlySuspendedSenders
  BY DEF IInv
<1>2. QED
  BY Invariance, <1>1, PTL

(* Demanding the next frame in the finally block of onWebSocketText keeps  *)
(* at most one frame between Jetty and the consumer.                       *)
THEOREM Backpressure == Spec => []OneFrameInFlight
<1>1. IInv => OneFrameInFlight
  BY DEF IInv
<1>2. QED
  BY Invariance, <1>1, PTL

(* The frames reach the consumer in the order the client sent them, each   *)
(* one after the coroutine of the one before it has finished.              *)
THEOREM Ordering == Spec => []FramesInOrder
<1>1. IInv => FramesInOrder
  BY DEF IInv
<1>2. QED
  BY Invariance, <1>1, PTL

(* The consumer's table of running queries leads to every query that runs  *)
(* and was not cancelled, so a stop or a completion always finds it.       *)
THEOREM Stoppable == Spec => []NoOrphanQuery
<1>1. IInv => NoOrphanQuery
  BY DEF IInv
<1>2. QED
  BY Invariance, <1>1, PTL

-----------------------------------------------------------------------------
(* The acknowledgement.  keepAliveStarted is set with the connection_ack   *)
(* and read by every connection_init and every query.                      *)
Acked(n) == \E i \in DOMAIN replies[n] : replies[n][i] = "connection_ack"

AckInv ==
  /\ keepAliveStarted => session # "connecting"
  /\ \A n \in Frames : Acked(n) => keepAliveStarted
  /\ \A m, n \in Frames : Acked(m) /\ Acked(n) => m = n
  /\ session = "open" /\ keepAliveStarted => \E n \in Frames : Acked(n)
  /\ Protocol = GRAPHQL_WS_PROTOCOL => \A n \in Frames : LiveQuery(n) => keepAliveStarted

(* A step that neither acknowledges nor starts a query.                    *)
NoNewQuery == \A n \in Frames : LiveQuery(n)' => LiveQuery(n)
SessionGoesOn ==
  /\ session' = "connecting" => session = "connecting"
  /\ session' = "open" => session \in {"connecting", "open"}
SameAcks == \A n \in Frames : Acked(n)' <=> Acked(n)

LEMMA CalmLemma ==
  ASSUME AckInv, UNCHANGED keepAliveStarted, SameAcks, NoNewQuery, SessionGoesOn
  PROVE  AckInv'
<1>1. /\ (keepAliveStarted => session # "connecting")'
      /\ (session = "open" /\ keepAliveStarted => \E n \in Frames : Acked(n))'
  BY DEF AckInv, SameAcks, SessionGoesOn
<1>2. /\ (\A n \in Frames : Acked(n) => keepAliveStarted)'
      /\ (\A m, n \in Frames : Acked(m) /\ Acked(n) => m = n)'
  BY DEF AckInv, SameAcks
<1>3. (Protocol = GRAPHQL_WS_PROTOCOL => \A n \in Frames : LiveQuery(n) => keepAliveStarted)'
  BY DEF AckInv, NoNewQuery
<1>4. QED
  BY <1>1, <1>2, <1>3 DEF AckInv

(* What a reply adds to what the client was sent.                          *)
LEMMA SentLemma ==
  ASSUME TypeOK, NEW n \in Frames, NEW type, sendMessage(n, type), session = "open"
  PROVE  /\ \A k \in Frames : k # n => (Acked(k)' <=> Acked(k))
         /\ Acked(n)' <=> Acked(n) \/ getServerToClientMessage(type) = "connection_ack"
<1> DEFINE said == getServerToClientMessage(type)
<1>1. /\ replies \in [Frames -> Seq(OperationTypes)]
      /\ replies' = [replies EXCEPT ![n] = Append(replies[n], said)]
  BY DEF TypeOK, sendMessage
<1> HIDE DEF said
<1>2. replies'[n] = Append(replies[n], said) /\ replies[n] \in Seq(OperationTypes)
  BY <1>1
<1>3. /\ DOMAIN replies'[n] = DOMAIN replies[n] \cup {Len(replies[n]) + 1}
      /\ \A i \in DOMAIN replies[n] : replies'[n][i] = replies[n][i]
      /\ replies'[n][Len(replies[n]) + 1] = said
  <2>1. Len(replies[n]) \in Nat /\ DOMAIN replies[n] = 1..Len(replies[n])
    BY <1>2
  <2>2. QED
    BY <1>2, <2>1
<1>4. \A k \in Frames : k # n => replies'[k] = replies[k]
  BY <1>1
<1>5. QED
  BY <1>3, <1>4 DEF Acked, said

LEMMA SentTwiceLemma ==
  ASSUME TypeOK, NEW n \in Frames, NEW first, NEW second, sendMessages(n, first, second),
         session = "open"
  PROVE  /\ \A k \in Frames : k # n => (Acked(k)' <=> Acked(k))
         /\ getServerToClientMessage(first) = "connection_ack" => Acked(n)'
<1> DEFINE one == getServerToClientMessage(first)
           two == getServerToClientMessage(second)
<1>1. /\ replies \in [Frames -> Seq(OperationTypes)]
      /\ replies' = [replies EXCEPT ![n] = Append(Append(replies[n], one), two)]
  BY DEF TypeOK, sendMessages
<1> HIDE DEF one, two
<1>2. replies'[n] = Append(Append(replies[n], one), two) /\ Len(replies[n]) \in Nat
  BY <1>1
<1>3. Len(replies[n]) + 1 \in DOMAIN replies'[n] /\ replies'[n][Len(replies[n]) + 1] = one
  BY <1>1, <1>2
<1>4. \A k \in Frames : k # n => replies'[k] = replies[k]
  BY <1>1
<1>5. QED
  BY <1>3, <1>4 DEF Acked, one

LEMMA OtherReplyLemma ==
  ASSUME TypeOK, NEW n, NEW type, type # "connection_ack", sendMessage(n, type)
  PROVE  SameAcks
<1>1. getServerToClientMessage(type) # "connection_ack"
  BY DEF getServerToClientMessage, getMessage, apolloToGraphQlWsMapping
<1>2. CASE session = "open" /\ n \in Frames
  BY <1>1, <1>2, SentLemma DEF SameAcks
<1>3. CASE session # "open" \/ n \notin Frames
  BY <1>3 DEF TypeOK, sendMessage, SameAcks, Acked
<1>4. QED
  BY <1>2, <1>3

LEMMA SameReplies ==
  ASSUME UNCHANGED replies
  PROVE  SameAcks
  BY DEF SameAcks, Acked

(* The session is open or was, and does not open again.                    *)
LEMMA ClosingLemma ==
  ASSUME TypeOK, NEW reason, close(reason) \/ UNCHANGED sessionVars
  PROVE  SessionGoesOn
  BY DEF TypeOK, close, sessionVars, SessionGoesOn

LEMMA AnswerKeepsAcks ==
  ASSUME TypeOK, NEW n \in Frames, NEW type \in {"error", "connection_error"}, NEW reason,
         AnswerOrClose(n, type, reason)
  PROVE  SameAcks /\ SessionGoesOn
  BY OtherReplyLemma, SameReplies, ClosingLemma DEF AnswerOrClose

(* Nothing is acknowledged before the session opened.                      *)
LEMMA AcknowledgeLemma ==
  ASSUME IInv, AckInv, NEW n \in Frames, HandlingFrame(n, "connection_init"), ~keepAliveStarted,
         acknowledge(n), UNCHANGED <<sessionVars, job>>
  PROVE  AckInv'
<1>1. session # "connecting"
  <2>1. framePc[n] # "new"
    BY DEF IInv, FramesHandledOnce, FrameSettled, HandlingFrame
  <2>2. n \in Nat /\ 1 <= n /\ n <= received /\ received \in Nat
    BY <2>1, BoundsAssumption DEF IInv, TypeOK, FramesCounted, Frames
  <2>3. QED
    BY <2>2 DEF IInv, FramesCounted
<1>2. /\ session' = session /\ keepAliveStarted' = TRUE
      /\ sendMessage(n, "connection_ack") \/ sendMessages(n, "connection_ack", "ka")
      /\ \A k \in Frames : ~Acked(k)
  BY DEF acknowledge, sessionVars, AckInv
<1>3. CASE session = "open"
  <2>1. /\ \A k \in Frames : k # n => ~Acked(k)'
        /\ Acked(n)'
    <3>1. getServerToClientMessage("connection_ack") = "connection_ack"
      BY DEF getServerToClientMessage, getMessage, apolloToGraphQlWsMapping
    <3>2. QED
      BY <1>2, <1>3, <3>1, SentLemma, SentTwiceLemma DEF IInv
  <2>2. QED
    BY <1>2, <1>3, <2>1 DEF AckInv
<1>4. CASE session # "open"
  <2>1. \A k \in Frames : ~Acked(k)'
    BY <1>2, <1>4 DEF sendMessage, sendMessages, Acked
  <2>2. QED
    BY <1>1, <1>2, <1>4, <2>1 DEF AckInv
<1>5. QED
  BY <1>3, <1>4

LEMMA AckStep ==
  ASSUME IInv, AckInv, [Next]_vars
  PROVE  AckInv'
<1>0. TypeOK /\ job \in [Frames -> {"none", "collecting", "caught", "ready", "sending", "ended"}]
  BY DEF IInv, TypeOK
<1>1. ASSUME UNCHANGED job
      PROVE  NoNewQuery
  BY <1>1 DEF NoNewQuery, LiveQuery
<1>2. ASSUME UNCHANGED sessionVars
      PROVE  SessionGoesOn
  BY <1>0, <1>2, ClosingLemma
<1>3. ASSUME UNCHANGED <<replies, keepAliveStarted>>, NoNewQuery, SessionGoesOn
      PROVE  AckInv'
  BY <1>3, SameReplies, CalmLemma
<1> USE DEF adapterVars, channelVars, consumerVars, tableVars, queryVars, timerVars, history
<1>4. CASE OnWebSocketOpen \/ OnWebSocketClose \/ TimerStep
  <2>1. SessionGoesOn
    BY <1>0, <1>4, ClosingLemma
    DEF OnWebSocketOpen, OnWebSocketClose, TimerStep, InitTimerExpires, InitTimerCloses,
        SessionGoesOn
  <2>2. UNCHANGED <<replies, keepAliveStarted, job>>
    BY <1>4 DEF OnWebSocketOpen, OnWebSocketClose, TimerStep, InitTimerExpires, InitTimerCloses
  <2>3. QED
    BY <1>1, <1>3, <2>1, <2>2
<1>5. CASE ClientStep \/ ConsumerFinishes \/ KeepAliveTick \/ UNCHANGED vars
  <2>1. UNCHANGED <<sessionVars, replies, keepAliveStarted, job>>
    BY ClientLemma, <1>5 DEF OnWebSocketText, ConsumerFinishes, KeepAliveTick, vars
  <2>2. QED
    BY <1>1, <1>2, <1>3, <2>1
<1>6. ASSUME NEW n \in Frames, FrameStep(n)
      PROVE  AckInv'
  <2>1. CASE RejectFrame(n)
    <3>1. SameAcks /\ SessionGoesOn
      BY <1>0, <2>1, AnswerKeepsAcks DEF RejectFrame, onInvalidMessage
    <3>2. UNCHANGED <<job, keepAliveStarted>>
      BY <2>1 DEF RejectFrame
    <3>3. QED
      BY <1>1, <3>1, <3>2, CalmLemma
  <2>2. CASE ForwardFrame(n) \/ AbandonFrame(n) \/ CheckDemand(n) \/ Demand(n)
    <3>1. UNCHANGED <<sessionVars, replies, keepAliveStarted, job>>
      BY <2>2 DEF ForwardFrame, AbandonFrame, CheckDemand, Demand
    <3>2. QED
      BY <1>1, <1>2, <1>3, <3>1
  <2>3. QED
    BY <1>6, <2>1, <2>2 DEF FrameStep
<1>7. CASE CancelOnClose \/ \E n \in Frames : QueryStep(n)
  <2>1. UNCHANGED <<sessionVars, replies, keepAliveStarted>>
    BY <1>7 DEF CancelOnClose, QueryStep, QueryEvent, QuerySends, QueryCancelled, QuerySetupFails
  <2>2. NoNewQuery
    <3>1. ASSUME NEW failed, CancelScope(failed)
          PROVE  NoNewQuery
      BY <3>1 DEF CancelScope, NoNewQuery, LiveQuery
    <3>2. ASSUME NEW n \in Frames, LiveQuery(n), \A k \in Frames : k # n => job'[k] = job[k]
          PROVE  NoNewQuery
      BY <3>2 DEF NoNewQuery, LiveQuery
    <3>3. ASSUME NEW n \in Frames,
                 (\E e \in Events : QueryEvent(n, e)) \/ QuerySends(n) \/ QueryCancelled(n)
          PROVE  NoNewQuery
      <4>1. LiveQuery(n) /\ \A k \in Frames : k # n => job'[k] = job[k]
        BY <1>0, <3>3 DEF QueryEvent, QuerySends, QueryCancelled, Sent, LiveQuery
      <4>2. QED
        BY <3>2, <4>1
    <3>4. QED
      BY <1>7, <3>1, <3>3 DEF CancelOnClose, QueryStep, QuerySetupFails
  <2>3. QED
    BY <1>2, <1>3, <2>1, <2>2
<1>8. CASE Receive
  <2>1. UNCHANGED <<sessionVars, replies, keepAliveStarted>>
    BY <1>8 DEF Receive
  <2>2. NoNewQuery
    <3>1. CASE UNCHANGED job
      BY <1>1, <3>1
    <3>2. CASE chan # <<>> /\ Head(chan).kind = "query" /\ Sent(Head(chan).n)
      <4>1. chan[1].kind = "query" /\ 1 \in DOMAIN chan /\ Head(chan) = chan[1]
        BY <1>0, <3>2 DEF TypeOK
      <4>2. Head(chan).n \in Frames /\ job[Head(chan).n] = "sending"
        BY <4>1 DEF IInv, OnlySuspendedSenders
      <4>3. QED
        BY <1>0, <3>2, <4>2 DEF Sent, NoNewQuery, LiveQuery
    <3>3. QED
      BY <1>8, <3>1, <3>2 DEF Receive
  <2>3. QED
    BY <1>2, <1>3, <2>1, <2>2
<1>9. ASSUME NEW n \in Frames, NEW verdict \in Verdicts, handleConnectionInit(n, verdict)
      PROVE  AckInv'
  <2>1. UNCHANGED job
    BY <1>9 DEF handleConnectionInit
  <2>2. CASE ~keepAliveStarted /\ acknowledge(n) /\ UNCHANGED sessionVars
    BY <1>9, <2>1, <2>2, AcknowledgeLemma DEF handleConnectionInit
  <2>3. CASE UNCHANGED keepAliveStarted /\ onDuplicateInit(n)
    BY <1>0, <1>1, <2>1, <2>3, AnswerKeepsAcks, CalmLemma DEF onDuplicateInit
  <2>4. CASE UNCHANGED <<keepAliveStarted, sessionVars>> /\ sendMessage(n, "error")
    BY <1>0, <1>1, <1>2, <2>1, <2>4, OtherReplyLemma, CalmLemma
  <2>5. CASE UNCHANGED <<keepAliveStarted, replies>> /\ close("UNAUTHORIZED")
    BY <1>0, <1>1, <1>3, <2>1, <2>5, ClosingLemma
  <2>6. QED
    BY <1>9, <2>2, <2>3, <2>4, <2>5 DEF handleConnectionInit
<1>10. ASSUME NEW n \in Frames, NEW verdict \in Verdicts, handleQueryStart(n, verdict)
       PROVE  AckInv'
  <2>1. UNCHANGED keepAliveStarted
    BY <1>10 DEF handleQueryStart
  <2>2. CASE UNCHANGED <<job, sessionVars>> /\ sendMessage(n, "error")
    BY <1>0, <1>1, <1>2, <2>1, <2>2, OtherReplyLemma, CalmLemma
  <2>3. CASE UNCHANGED <<job, replies>> /\ close("UNAUTHORIZED")
    BY <1>0, <1>1, <1>3, <2>1, <2>3, ClosingLemma
  <2>4. CASE UNCHANGED job /\ (onInvalidMessage(n) \/ onDuplicateQuery(n))
    BY <1>0, <1>1, <2>1, <2>4, AnswerKeepsAcks, CalmLemma DEF onInvalidMessage, onDuplicateQuery
  <2>5. CASE /\ QueryStartBranch(n, verdict) = "launch"
             /\ UNCHANGED <<sessionVars, replies>>
    <3>1. Protocol = GRAPHQL_WS_PROTOCOL => keepAliveStarted
      BY <2>5 DEF QueryStartBranch
    <3>2. SameAcks /\ SessionGoesOn
      BY <1>2, <2>5, SameReplies
    <3>3. QED
      BY <2>1, <3>1, <3>2 DEF AckInv, SameAcks, SessionGoesOn
  <2>6. QED
    BY <1>10, <2>2, <2>3, <2>4, <2>5 DEF handleQueryStart
<1>11. ASSUME NEW n \in Frames,
              handleConnectionTerminate(n) \/ handlePing(n) \/ handlePong(n) \/ handleQueryData(n)
       PROVE  AckInv'
  <2>1. UNCHANGED <<job, keepAliveStarted>>
    BY <1>11 DEF handleConnectionTerminate, handlePing, handlePong, handleQueryData
  <2>2. SessionGoesOn
    BY <1>0, <1>2, <1>11, ClosingLemma
    DEF handleConnectionTerminate, handlePing, handlePong, handleQueryData
  <2>3. SameAcks
    BY <1>0, <1>11, OtherReplyLemma, SameReplies
    DEF handleConnectionTerminate, handlePing, handlePong, handleQueryData, handleClientBoundMessage
  <2>4. QED
    BY <1>1, <2>1, <2>2, <2>3, CalmLemma
<1>12. ASSUME NEW n \in Frames, handleQueryStop(n) \/ handleQueryEnd(n)
       PROVE  AckInv'
  <2>1. UNCHANGED <<sessionVars, keepAliveStarted>>
    BY <1>12 DEF handleQueryStop, handleQueryEnd
  <2>2. NoNewQuery
    <3>1. ASSUME NEW q, CancelQuery(q)
          PROVE  NoNewQuery
      BY <1>0, <3>1 DEF CancelQuery, NoNewQuery, LiveQuery
    <3>2. QED
      BY <1>1, <1>12, <3>1 DEF handleQueryStop, handleQueryEnd
  <2>3. SameAcks
    <3>1. ASSUME NEW k \in 0..MaxFrames, k # 0
          PROVE  k \in Frames
      BY <3>1, BoundsAssumption DEF Frames
    <3>2. \A id \in Ids : queries[id] \in 0..MaxFrames
      BY <1>0 DEF TypeOK
    <3>3. RunningQuery(frameMsg[n].id) # 0 => RunningQuery(frameMsg[n].id) \in Frames
      BY <1>0, <3>1, <3>2, TableLemma DEF RunningQuery
    <3>4. CASE handleQueryStop(n)
      BY <1>0, <3>3, <3>4, OtherReplyLemma DEF handleQueryStop
    <3>5. CASE handleQueryEnd(n)
      BY <1>0, <3>5, OtherReplyLemma DEF handleQueryEnd, handleClientBoundMessage
    <3>6. QED
      BY <1>12, <3>4, <3>5
  <2>4. QED
    BY <1>2, <2>1, <2>2, <2>3, CalmLemma
<1>13. CASE handleKeepAlive
  <2>1. UNCHANGED <<sessionVars, keepAliveStarted, job>> /\ SameAcks
    BY <1>0, <1>13, OtherReplyLemma DEF handleKeepAlive
  <2>2. QED
    BY <1>1, <1>2, <2>1, CalmLemma
<1>14. QED
  BY <1>4, <1>5, <1>6, <1>7, <1>8, <1>9, <1>10, <1>11, <1>12, <1>13
  DEF Next, ConsumerStep, HandleFrame

LEMMA AckInvariance == Spec => []AckInv
<1>1. Init => AckInv
  BY DEF Init, AckInv, Acked, LiveQuery
<1>2. IInv /\ AckInv /\ [Next]_vars => AckInv'
  BY AckStep
<1>3. QED
  BY Invariance, <1>1, <1>2, PTL DEF Spec

(* A connection_init acknowledges a connection once, and under             *)
(* graphql-transport-ws handleQueryStart runs no query before that, for    *)
(* every client and every order of its frames and the timers.              *)
THEOREM Acknowledged == Spec => []AcknowledgedOnceAndFirst
<1>1. AckInv => AcknowledgedOnceAndFirst
  <2>1. \A n \in Frames : "connection_ack" \in Range(replies[n]) <=> Acked(n)
    BY DEF Range, Acked
  <2>2. QED
    BY <2>1 DEF AckInv, AcknowledgedOnceAndFirst
<1>2. QED
  BY AckInvariance, <1>1, PTL

-----------------------------------------------------------------------------
(* What InitDeadline rests on, but for the fairness.  A failure that       *)
(* cancels the scope takes the init timeout with it, and in the Apollo     *)
(* protocol a query may run, and fail so, on a connection that was never   *)
(* initialised: there the deadline may be lost.                            *)

(* The init timeout of an open connection ends only by closing it, or      *)
(* because the client has initialised it.                                  *)
DeadlineStands ==
  [][session = "open" /\ initTimer # "done"
       => initTimer' # "done" \/ keepAliveStarted' \/ session' # "open"]_vars

LEMMA DeadlineStep ==
  ASSUME AckInv, Next,
         Protocol = GRAPHQL_WS_PROTOCOL \/ "setupFails" \notin QueryEnds,
         session = "open", initTimer # "done"
  PROVE  initTimer' # "done" \/ keepAliveStarted' \/ session' # "open"
<1> DEFINE Stands == initTimer' # "done" \/ keepAliveStarted' \/ session' # "open"
<1> USE DEF sessionVars, adapterVars, channelVars, consumerVars, tableVars, queryVars, timerVars,
            history
<1>1. CASE TimerStep
  <2>1. CASE InitTimerExpires
    BY <2>1 DEF InitTimerExpires
  <2>2. CASE InitTimerCloses
    BY <2>2 DEF InitTimerCloses, close
  <2>3. QED
    BY <1>1, <2>1, <2>2 DEF TimerStep
<1>2. ASSUME NEW n \in Frames, QueryStep(n) PROVE Stands
  <2>1. CASE QuerySetupFails(n)
    <3>1. LiveQuery(n) /\ "setupFails" \in QueryEnds /\ keepAliveStarted' = keepAliveStarted
      BY <2>1 DEF QuerySetupFails, LiveQuery
    <3>2. QED
      BY <3>1 DEF AckInv
  <2>2. CASE (\E e \in Events : QueryEvent(n, e)) \/ QuerySends(n) \/ QueryCancelled(n)
    BY <2>2 DEF QueryEvent, QuerySends, QueryCancelled
  <2>3. QED
    BY <1>2, <2>1, <2>2 DEF QueryStep
<1>3. CASE CancelOnClose
  BY <1>3 DEF CancelOnClose
<1>4. CASE OnWebSocketOpen \/ ClientStep \/ OnWebSocketClose \/ KeepAliveTick
  BY ClientLemma, <1>4 DEF OnWebSocketOpen, OnWebSocketText, OnWebSocketClose, KeepAliveTick
<1>5. ASSUME NEW n \in Frames, FrameStep(n) PROVE Stands
  BY <1>5 DEF FrameStep, ForwardFrame, RejectFrame, AbandonFrame, CheckDemand, Demand
<1>6. CASE ConsumerStep
  <2>1. ASSUME NEW n \in Frames, HandleFrame(n) PROVE initTimer' = initTimer
    <3>1. ASSUME NEW verdict \in Verdicts,
                 handleConnectionInit(n, verdict) \/ handleQueryStart(n, verdict)
          PROVE  initTimer' = initTimer
      BY <3>1 DEF handleConnectionInit, handleQueryStart
    <3>2. QED
      BY <2>1, <3>1
      DEF HandleFrame, handleConnectionTerminate, handleQueryStop, handlePing, handlePong
  <2>2. QED
    BY <1>6, <2>1
    DEF ConsumerStep, Receive, ConsumerFinishes, handleQueryData, handleQueryEnd, handleKeepAlive
<1>7. QED
  BY <1>1, <1>2, <1>3, <1>4, <1>5, <1>6 DEF Next

(* The init timeout never lets a connection pass that is not initialised,  *)
(* whatever the consumer, which sets keepAliveStarted on another thread,   *)
(* and the queries do meanwhile: under graphql-transport-ws always, under  *)
(* the Apollo protocol if no query fails before it is set up.              *)
THEOREM DeadlineKept ==
  ASSUME Protocol = GRAPHQL_WS_PROTOCOL \/ "setupFails" \notin QueryEnds
  PROVE  Spec => DeadlineStands
<1>1. AckInv /\ [Next]_vars
        => [session = "open" /\ initTimer # "done"
              => initTimer' # "done" \/ keepAliveStarted' \/ session' # "open"]_vars
  BY DeadlineStep
<1>2. QED
  BY AckInvariance, <1>1, PTL DEF Spec, DeadlineStands
=============================================================================
