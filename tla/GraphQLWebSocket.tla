-------------------------- MODULE GraphQLWebSocket --------------------------
(***************************************************************************)
(* One GraphQL WebSocket connection: the Jetty listener                    *)
(* (GraphQLWebSocketAdapter), the consumer coroutine                       *)
(* (GraphQLWebSocketConsumer), one QueryCoroutine per accepted query, the  *)
(* KeepAliveCoroutine and the init-timeout coroutine, all sharing one      *)
(* rendezvous channel, one Session and one CoroutineScope.                 *)
(*                                                                         *)
(* Actors run on different threads; a step below is the work one of them   *)
(* does between two points where another can observe it.  Frames are       *)
(* numbered in the order Jetty delivers them, and a query has the number   *)
(* of the frame that started it.                                           *)
(***************************************************************************)
EXTENDS GraphQLWebSocketProtocol, SequencesExt

CONSTANTS
  ClientFrames,       (* the frames the client may send                    *)
  MaxFrames,          (* bound: frames delivered on the connection         *)
  MaxData,            (* bound: results a query's flow emits               *)
  MaxKeepAlives,      (* bound: keepalives after the one that goes with    *)
                      (* the acknowledgement                               *)
  Verdicts,           (* what an authentication may come to                *)
  QueryEnds,          (* the ways a query may end                          *)
  CheckAuthorization, (* graphQLConfig.checkAuthorization                  *)
  KeepAlive           (* graphQLConfig.keepAliveIntervalSeconds > 0        *)

ASSUME FramesAssumption == ClientFrames \subseteq WireMessage
ASSUME BoundsAssumption == MaxFrames \in Nat /\ MaxData \in Nat /\ MaxKeepAlives \in Nat
ASSUME VerdictsAssumption == Verdicts \subseteq {"principal", "none", "throws"}
ASSUME QueryEndsAssumption ==
  QueryEnds \subseteq {"completes", "flowFails", "executionFails", "cancels", "setupFails"}
ASSUME ConfigAssumption == CheckAuthorization \in BOOLEAN /\ KeepAlive \in BOOLEAN

Frames == 1..MaxFrames

(* Definitions named Fault... are mistakes the code could plausibly hold;  *)
(* nothing uses them, they are there to show that the properties notice.   *)

(* What a sender puts into the channel: who sends it, and its type.        *)
Offer == [kind : {"frame", "query", "keepalive"}, n : 0..MaxFrames, type : OperationTypes]
NoOffer == [kind |-> "none", n |-> 0, type |-> "none"]

NoFrame == [type |-> "none", id |-> NoId, payload |-> FALSE]

(* The message each event of a query's flow puts into the channel, and     *)
(* where the coroutine goes on once it is sent.  An error of the flow is   *)
(* swallowed by its catch operator, so onCompletion still runs; an error   *)
(* of executeAsync is caught outside the flow.                             *)
Events == {"data", "flowError", "executionError", "complete"}
EventType == [data |-> "data", flowError |-> "error", executionError |-> "error",
              complete |-> "complete"]
ResumeAt == [data |-> "collecting", flowError |-> "caught", executionError |-> "ended",
             complete |-> "ended"]

VARIABLES
  session,          (* the Jetty session                                   *)
  closeReason,      (* the reason the server closed it with                *)
  demanded,         (* Jetty may deliver one more frame                    *)
  received,         (* frames delivered                                    *)
  frameMsg,         (* the frames, under the ids the consumer reads        *)
  framePc,          (* the coroutine onWebSocketText launched for each     *)
  scope,            (* the adapter's CoroutineScope                        *)
  channelClosed,    (* channel.isClosedForSend                             *)
  chan,             (* the senders suspended in channel.send, in order     *)
  consumer,         (* the consumer coroutine                              *)
  current,          (* the message it is handling                          *)
  keepAliveStarted,
  keepAliveMessage, (* the frame keepalives are sent under, 0 for none     *)
  queries,          (* the running query of each id, 0 for none            *)
  job,              (* the QueryCoroutine of each started query            *)
  event,            (* what it is about to send                            *)
  emitted,          (* results its flow has emitted                        *)
  cancelled,        (* the jobs cancel() has been called on                *)
  keepAlive,        (* the KeepAliveCoroutine                              *)
  initTimer,        (* the init-timeout coroutine                          *)
  replies,          (* history: what the client was sent for each frame    *)
  late              (* history: messages of a query sent after its cancel  *)

sessionVars == <<session, closeReason>>
adapterVars == <<demanded, received, frameMsg, framePc>>
channelVars == <<chan, channelClosed, scope>>
consumerVars == <<consumer, current>>
tableVars == <<keepAliveStarted, keepAliveMessage, queries>>
queryVars == <<job, event, emitted, cancelled>>
timerVars == <<keepAlive, initTimer>>
history == <<replies, late>>

vars == <<sessionVars, adapterVars, channelVars, consumerVars, tableVars,
          queryVars, timerVars, history>>

(* createWebSocket has built the adapter and launched the consumer; Jetty  *)
(* has not called onWebSocketOpen yet.                                     *)
Init ==
  /\ session = "connecting"
  /\ closeReason = "none"
  /\ demanded = FALSE
  /\ received = 0
  /\ frameMsg = [n \in Frames |-> NoFrame]
  /\ framePc = [n \in Frames |-> "new"]
  /\ scope = "active"
  /\ channelClosed = FALSE
  /\ chan = <<>>
  /\ consumer = "consuming"
  /\ current = NoOffer
  /\ keepAliveStarted = FALSE
  /\ keepAliveMessage = 0
  /\ queries = [id \in Ids |-> 0]
  /\ job = [n \in Frames |-> "none"]
  /\ event = [n \in Frames |-> "none"]
  /\ emitted = [n \in Frames |-> 0]
  /\ cancelled = {}
  /\ keepAlive = "off"
  /\ initTimer = "armed"
  /\ replies = [n \in Frames |-> <<>>]
  /\ late = [n \in Frames |-> 0]

-----------------------------------------------------------------------------
(* Talking to the client.  Jetty drops what is sent on a session that is   *)
(* not open, and only the first close counts.                              *)

sendMessage(n, type) ==
  replies' = IF session = "open"
               THEN [replies EXCEPT ![n] = Append(@, getServerToClientMessage(type))]
               ELSE replies

(* Two messages in a row.                                                  *)
sendMessages(n, first, second) ==
  replies' = IF session = "open"
               THEN [replies EXCEPT ![n] =
                       Append(Append(@, getServerToClientMessage(first)),
                              getServerToClientMessage(second))]
               ELSE replies

close(reason) ==
  IF session = "open"
    THEN session' = "closing" /\ closeReason' = reason
    ELSE UNCHANGED sessionVars

(* The three callbacks of a sub-protocol: Apollo answers with an error,    *)
(* graphql-transport-ws closes the connection.                             *)
AnswerOrClose(n, type, reason) ==
  \/ /\ Protocol = APOLLO_PROTOCOL
     /\ sendMessage(n, type)
     /\ UNCHANGED sessionVars
  \/ /\ Protocol = GRAPHQL_WS_PROTOCOL
     /\ close(reason)
     /\ UNCHANGED replies

onInvalidMessage(n) == AnswerOrClose(n, "error", "INVALID_MESSAGE")
onDuplicateQuery(n) == AnswerOrClose(n, "error", "MULTIPLE_SUBSCRIBER")
onDuplicateInit(n) == AnswerOrClose(n, "connection_error", "MULTIPLE_INIT")

-----------------------------------------------------------------------------
(* The channel has no buffer: a message passes when a sender meets the     *)
(* consumer in receive().  A sender that finds it there hands over without *)
(* suspending, hence without looking at its own cancellation.              *)

Receiving == consumer = "consuming" /\ current = NoOffer
CanHandOver == Receiving /\ chan = <<>>

HandOver(m) ==
  /\ CanHandOver
  /\ current' = m
  /\ UNCHANGED <<chan, consumer>>

Suspend(m) ==
  /\ ~CanHandOver
  /\ chan' = Append(chan, m)
  /\ UNCHANGED consumerVars

QueryOffer(n) == [kind |-> "query", n |-> n, type |-> EventType[event[n]]]
KeepAliveOffer == [kind |-> "keepalive", n |-> keepAliveMessage, type |-> "ka"]

(* channel.send has returned in query n.                                   *)
Sent(n) ==
  /\ job' = [job EXCEPT ![n] = ResumeAt[event[n]]]
  /\ event' = [event EXCEPT ![n] = "none"]

(* The whole scope is cancelled: suspended senders are withdrawn, timers   *)
(* and the receiving consumer end.  Query `failed` (0 for none) is the one *)
(* whose failure did it.                                                   *)
CancelScope(failed) ==
  /\ scope' = "cancelled"
  /\ chan' = <<>>
  /\ consumer' = IF current = NoOffer THEN "finished" ELSE consumer
  /\ cancelled' = {n \in Frames : job[n] # "none"}
  /\ job' = [n \in Frames |-> IF n = failed \/ job[n] = "sending" THEN "ended" ELSE job[n]]
  /\ event' = [n \in Frames |-> IF job[n] = "sending" THEN "none" ELSE event[n]]
  /\ keepAlive' = "off"
  /\ initTimer' = IF initTimer = "armed" THEN "done" ELSE initTimer

-----------------------------------------------------------------------------
(* The adapter: Jetty's callbacks and the coroutine each frame gets.       *)

OnWebSocketOpen ==
  /\ session = "connecting"
  /\ session' = "open"
  /\ demanded' = TRUE
  /\ UNCHANGED <<closeReason, received, frameMsg, framePc, channelVars, consumerVars,
                 tableVars, queryVars, timerVars, history>>

(* The ids the consumer may read for an id of the wire: a blank one is     *)
(* replaced by a UUID of its own each time.  The consumer does it when it  *)
(* takes a message; nothing reads the id before, so a frame has it from    *)
(* its delivery.                                                           *)
sanitizeMessageId(id) ==
  IF id = BlankId
    THEN {uuid \in GeneratedIds : \A n \in Frames : frameMsg[n].id # uuid}
    ELSE {id}

(* Jetty still delivers a demanded frame after the server's own close. A   *)
(* coroutine launched on a cancelled scope never runs.                     *)
OnWebSocketText(m) ==
  /\ session \in {"open", "closing"}
  /\ demanded
  /\ received < MaxFrames
  /\ received' = received + 1
  /\ frameMsg' = [frameMsg EXCEPT ![received + 1] = m]
  /\ framePc' = [framePc EXCEPT ![received + 1] = IF scope = "active" THEN "received" ELSE "done"]
  /\ demanded' = FALSE
  /\ UNCHANGED <<sessionVars, channelVars, consumerVars, tableVars, queryVars, timerVars,
                 history>>

(* Fault: the filter on client sourced messages is missing.                *)
FaultNoFilter(n) == frameMsg[n].type # "unparseable"

IsClientSourced(n) ==
  getClientToServerMessage(frameMsg[n].type) \in CLIENT_SOURCED_MESSAGES

FrameOffer(n) ==
  [kind |-> "frame", n |-> n, type |-> getClientToServerMessage(frameMsg[n].type)]

(* Fault: the next frame is demanded before the channel took this one.     *)
FaultEagerDemand(n) ==
  /\ framePc[n] = "received"
  /\ scope = "active"
  /\ ~channelClosed
  /\ IsClientSourced(n)
  /\ demanded' = TRUE
  /\ \/ HandOver(FrameOffer(n)) /\ framePc' = [framePc EXCEPT ![n] = "done"]
     \/ Suspend(FrameOffer(n)) /\ framePc' = [framePc EXCEPT ![n] = "sending"]
  /\ UNCHANGED <<sessionVars, received, frameMsg, channelClosed, scope,
                 tableVars, queryVars, timerVars, history>>

ForwardFrame(n) ==
  /\ framePc[n] = "received"
  /\ scope = "active"
  /\ ~channelClosed
  /\ IsClientSourced(n)
  /\ \/ HandOver(FrameOffer(n)) /\ framePc' = [framePc EXCEPT ![n] = "finally"]
     \/ Suspend(FrameOffer(n)) /\ framePc' = [framePc EXCEPT ![n] = "sending"]
  /\ UNCHANGED <<sessionVars, demanded, received, frameMsg, channelClosed, scope,
                 tableVars, queryVars, timerVars, history>>

(* Fault: demand() follows the send instead of standing in the finally.    *)
FaultNoDemandOnError(n) ==
  /\ framePc[n] = "received"
  /\ ~IsClientSourced(n) \/ channelClosed
  /\ onInvalidMessage(n)
  /\ framePc' = [framePc EXCEPT ![n] = "done"]
  /\ UNCHANGED <<demanded, received, frameMsg, channelVars, consumerVars, tableVars,
                 queryVars, timerVars, late>>

(* A text that does not parse, a type a client may not send, or a send     *)
(* that throws because the channel was closed meanwhile.                   *)
RejectFrame(n) ==
  /\ framePc[n] = "received"
  /\ ~IsClientSourced(n) \/ channelClosed
  /\ onInvalidMessage(n)
  /\ framePc' = [framePc EXCEPT ![n] = "finally"]
  /\ UNCHANGED <<demanded, received, frameMsg, channelVars, consumerVars, tableVars,
                 queryVars, timerVars, late>>

(* The coroutine is cancelled before it starts, or while it is suspended.  *)
AbandonFrame(n) ==
  /\ framePc[n] \in {"received", "sending"}
  /\ scope = "cancelled"
  /\ framePc' = [framePc EXCEPT ![n] = "done"]
  /\ UNCHANGED <<sessionVars, demanded, received, frameMsg, channelVars, consumerVars,
                 tableVars, queryVars, timerVars, history>>

(* The test in the finally block, and the demand() it guards.              *)
CheckDemand(n) ==
  /\ framePc[n] = "finally"
  /\ framePc' = [framePc EXCEPT ![n] =
                   IF scope = "active" /\ ~channelClosed THEN "demanding" ELSE "done"]
  /\ UNCHANGED <<sessionVars, demanded, received, frameMsg, channelVars, consumerVars,
                 tableVars, queryVars, timerVars, history>>

Demand(n) ==
  /\ framePc[n] = "demanding"
  /\ framePc' = [framePc EXCEPT ![n] = "done"]
  /\ demanded' = TRUE
  /\ UNCHANGED <<sessionVars, received, frameMsg, channelVars, consumerVars, tableVars,
                 queryVars, timerVars, history>>

(* onWebSocketClose: the channel is closed first, the scope cancelled      *)
(* after the callback.  The client may go away at any time, and a close by *)
(* the server completes.                                                   *)
OnWebSocketClose ==
  /\ session \in {"open", "closing"}
  /\ session' = "closed"
  /\ channelClosed' = TRUE
  /\ UNCHANGED <<closeReason, adapterVars, chan, scope, consumerVars, tableVars, queryVars,
                 timerVars, history>>

(* Fault: onWebSocketClose closes the channel and forgets the scope.       *)
FaultNoCancel ==
  /\ session = "closed"
  /\ scope = "active"
  /\ UNCHANGED vars

CancelOnClose ==
  /\ session = "closed"
  /\ scope = "active"
  /\ CancelScope(0)
  /\ UNCHANGED <<sessionVars, adapterVars, channelClosed, current, tableVars, emitted, history>>

-----------------------------------------------------------------------------
(* The consumer: one message at a time, from receive() to receive().       *)

(* The next suspended sender is resumed and its message taken.             *)
Receive ==
  /\ Receiving
  /\ chan # <<>>
  /\ current' = Head(chan)
  /\ chan' = Tail(chan)
  /\ \/ /\ Head(chan).kind = "frame"
        /\ framePc' = [framePc EXCEPT ![Head(chan).n] = "finally"]
        /\ UNCHANGED <<job, event, keepAlive>>
     \/ /\ Head(chan).kind = "query"
        /\ Sent(Head(chan).n)
        /\ UNCHANGED <<framePc, keepAlive>>
     \/ /\ Head(chan).kind = "keepalive"
        /\ keepAlive' = "delaying"
        /\ UNCHANGED <<framePc, job, event>>
  /\ UNCHANGED <<sessionVars, demanded, received, frameMsg, channelClosed, scope, consumer,
                 tableVars, emitted, cancelled, initTimer, history>>

(* The closed channel has nothing left: collect returns.                   *)
ConsumerFinishes ==
  /\ CanHandOver
  /\ channelClosed
  /\ consumer' = "finished"
  /\ UNCHANGED <<sessionVars, adapterVars, channelVars, current, tableVars, queryVars,
                 timerVars, history>>

(* Back to receive(), which throws on a cancelled scope.                   *)
Handled ==
  /\ current' = NoOffer
  /\ consumer' = IF scope = "active" THEN "consuming" ELSE "finished"

HandlingFrame(n, type) == current.kind = "frame" /\ current.n = n /\ current.type = type

(* Fault: keepAliveStarted is left FALSE.                                  *)
FaultNotRecorded(n) ==
  /\ sendMessage(n, "connection_ack")
  /\ UNCHANGED <<keepAliveStarted, keepAliveMessage, keepAlive>>

(* The first keepalive goes with the acknowledgement, the others are the   *)
(* KeepAliveCoroutine's; all are sent under the id of the connection_init. *)
acknowledge(n) ==
  /\ keepAliveStarted' = TRUE
  /\ \/ /\ KeepAlive
        /\ sendMessages(n, "connection_ack", "ka")
        /\ keepAliveMessage' = n
        /\ keepAlive' = IF scope = "active" THEN "delaying" ELSE keepAlive
     \/ /\ ~KeepAlive
        /\ sendMessage(n, "connection_ack")
        /\ UNCHANGED <<keepAliveMessage, keepAlive>>

(* What getSocketPrincipal() comes to is the authenticator's choice.       *)
handleConnectionInit(n, verdict) ==
  /\ HandlingFrame(n, "connection_init")
  /\ Handled
  /\ \/ /\ keepAliveStarted
        /\ onDuplicateInit(n)
        /\ UNCHANGED <<keepAliveStarted, keepAliveMessage, keepAlive>>
     \/ /\ ~keepAliveStarted
        /\ verdict = "throws"
        /\ sendMessage(n, "error")
        /\ UNCHANGED <<sessionVars, keepAliveStarted, keepAliveMessage, keepAlive>>
     \/ /\ ~keepAliveStarted
        /\ verdict = "none"
        /\ CheckAuthorization
        /\ close("UNAUTHORIZED")
        /\ UNCHANGED <<keepAliveStarted, keepAliveMessage, keepAlive, replies>>
     \/ /\ ~keepAliveStarted
        /\ verdict = "principal" \/ (verdict = "none" /\ ~CheckAuthorization)
        /\ acknowledge(n)
        /\ UNCHANGED sessionVars
  /\ UNCHANGED <<adapterVars, channelVars, queries, queryVars, initTimer, late>>

handleConnectionTerminate(n) ==
  /\ HandlingFrame(n, "connection_terminate")
  /\ Handled
  /\ close("NORMAL")
  /\ UNCHANGED <<adapterVars, channelVars, tableVars, queryVars, timerVars, history>>

(* Fault: queries.containsKey is not consulted.                            *)
FaultNoDuplicateCheck(n, verdict) ==
  LET m == frameMsg[n] IN
  IF verdict = "throws" THEN "throws"
  ELSE IF ~keepAliveStarted /\ Protocol = GRAPHQL_WS_PROTOCOL THEN "unauthorized"
  ELSE IF m.id = NoId \/ ~m.payload THEN "invalid"
  ELSE IF verdict = "none" /\ CheckAuthorization THEN "unauthorized"
  ELSE "launch"

(* The branch handleQueryStart takes, tested in the order of the code.     *)
QueryStartBranch(n, verdict) ==
  LET m == frameMsg[n] IN
  IF verdict = "throws" THEN "throws"
  ELSE IF ~keepAliveStarted /\ Protocol = GRAPHQL_WS_PROTOCOL THEN "unauthorized"
  ELSE IF m.id = NoId \/ ~m.payload THEN "invalid"
  ELSE IF queries[m.id] # 0 THEN "duplicate"
  ELSE IF verdict = "none" /\ CheckAuthorization THEN "unauthorized"
  ELSE "launch"

(* A job launched on a cancelled scope never runs.                         *)
launchQuery(n) ==
  /\ job' = [job EXCEPT ![n] = IF scope = "active" THEN "collecting" ELSE "ended"]
  /\ queries' = [queries EXCEPT ![frameMsg[n].id] = n]

handleQueryStart(n, verdict) ==
  /\ HandlingFrame(n, "start")
  /\ Handled
  /\ \/ /\ QueryStartBranch(n, verdict) = "throws"
        /\ sendMessage(n, "error")
        /\ UNCHANGED <<sessionVars, job, queries>>
     \/ /\ QueryStartBranch(n, verdict) = "unauthorized"
        /\ close("UNAUTHORIZED")
        /\ UNCHANGED <<replies, job, queries>>
     \/ /\ QueryStartBranch(n, verdict) = "invalid"
        /\ onInvalidMessage(n)
        /\ UNCHANGED <<job, queries>>
     \/ /\ QueryStartBranch(n, verdict) = "duplicate"
        /\ onDuplicateQuery(n)
        /\ UNCHANGED <<job, queries>>
     \/ /\ QueryStartBranch(n, verdict) = "launch"
        /\ launchQuery(n)
        /\ UNCHANGED <<sessionVars, replies>>
  /\ UNCHANGED <<adapterVars, channelVars, keepAliveStarted, keepAliveMessage, event, emitted,
                 cancelled, timerVars, late>>

(* Fault: the job ends, and its message stays in the channel.              *)
FaultMessageLeft(q) ==
  /\ cancelled' = cancelled \cup {q}
  /\ job' = [job EXCEPT ![q] = IF @ = "sending" THEN "ended" ELSE @]
  /\ UNCHANGED <<chan, event>>

(* Job.cancel(): a sender suspended in channel.send is withdrawn, any      *)
(* other coroutine meets the cancellation at its next suspension point.    *)
CancelQuery(q) ==
  /\ cancelled' = cancelled \cup {q}
  /\ \/ /\ job[q] = "sending"
        /\ \E i \in DOMAIN chan :
             /\ chan[i].kind = "query"
             /\ chan[i].n = q
             /\ chan' = RemoveAt(chan, i)
        /\ job' = [job EXCEPT ![q] = "ended"]
        /\ event' = [event EXCEPT ![q] = "none"]
     \/ /\ job[q] # "sending"
        /\ UNCHANGED <<chan, job, event>>

RunningQuery(id) == IF id = NoId THEN 0 ELSE queries[id]

handleQueryStop(n) ==
  LET id == frameMsg[n].id
      toStop == RunningQuery(id)
  IN  /\ HandlingFrame(n, "stop")
      /\ Handled
      /\ \/ /\ toStop # 0
            /\ CancelQuery(toStop)
            /\ sendMessage(toStop, "complete")
            /\ queries' = [queries EXCEPT ![id] = 0]
         \/ /\ toStop = 0
            /\ sendMessage(n, "error")
            /\ UNCHANGED <<chan, job, event, cancelled, queries>>
      /\ UNCHANGED <<sessionVars, adapterVars, channelClosed, scope, keepAliveStarted,
                     keepAliveMessage, emitted, timerVars, late>>

(* A ping without a payload makes the cast throw, and the catch of         *)
(* handleMessage answers with an error.                                    *)
handlePing(n) ==
  /\ HandlingFrame(n, "ping")
  /\ Handled
  /\ sendMessage(n, IF frameMsg[n].payload THEN "pong" ELSE "error")
  /\ UNCHANGED <<sessionVars, adapterVars, channelVars, tableVars, queryVars, timerVars, late>>

handlePong(n) ==
  /\ HandlingFrame(n, "pong")
  /\ Handled
  /\ UNCHANGED <<sessionVars, adapterVars, channelVars, tableVars, queryVars, timerVars,
                 history>>

(* Fault: what a cancelled query says is dropped instead of sent.          *)
FaultDropLate(n) ==
  /\ IF n \in cancelled THEN UNCHANGED replies ELSE sendMessage(n, current.type)
  /\ UNCHANGED late

(* A message of query n goes to the client.                                *)
handleClientBoundMessage(n) ==
  /\ sendMessage(n, current.type)
  /\ late' = IF n \in cancelled /\ session = "open" THEN [late EXCEPT ![n] = @ + 1] ELSE late

handleQueryData(n) ==
  /\ current.kind = "query"
  /\ current.n = n
  /\ current.type = "data"
  /\ Handled
  /\ handleClientBoundMessage(n)
  /\ UNCHANGED <<sessionVars, adapterVars, channelVars, tableVars, queryVars, timerVars>>

(* Fault: the query stays in the table.                                    *)
FaultNoRemoval(n) ==
  /\ current.kind = "query"
  /\ current.n = n
  /\ current.type \in {"complete", "error"}
  /\ Handled
  /\ handleClientBoundMessage(n)
  /\ UNCHANGED <<sessionVars, adapterVars, channelVars, tableVars, queryVars, timerVars>>

(* queries.remove(id)?.cancel(): the message is found its query by id.     *)
handleQueryEnd(n) ==
  LET id == frameMsg[n].id IN
  /\ current.kind = "query"
  /\ current.n = n
  /\ current.type \in {"complete", "error"}
  /\ Handled
  /\ \/ queries[id] # 0 /\ CancelQuery(queries[id])
     \/ queries[id] = 0 /\ UNCHANGED <<chan, job, event, cancelled>>
  /\ queries' = [queries EXCEPT ![id] = 0]
  /\ handleClientBoundMessage(n)
  /\ UNCHANGED <<sessionVars, adapterVars, channelClosed, scope, keepAliveStarted,
                 keepAliveMessage, emitted, timerVars>>

handleKeepAlive ==
  /\ current.kind = "keepalive"
  /\ Handled
  /\ sendMessage(current.n, "ka")
  /\ UNCHANGED <<sessionVars, adapterVars, channelVars, tableVars, queryVars, timerVars, late>>

-----------------------------------------------------------------------------
(* A QueryCoroutine: each message is preceded by a yield() (or by the      *)
(* await() that failed), which lets a cancelled job go no further.         *)

(* Fault: there is no yield().                                             *)
FaultNoYield(n) == job[n] \in {"collecting", "caught"}

yield(n) == n \notin cancelled

QueryEvent(n, e) ==
  /\ yield(n)
  /\ job[n] = "collecting" \/ (job[n] = "caught" /\ e = "complete")
  /\ \/ /\ e = "data"
        /\ emitted[n] < MaxData
        /\ emitted' = [emitted EXCEPT ![n] = @ + 1]
     \/ /\ \/ e = "complete" /\ ("completes" \in QueryEnds \/ job[n] = "caught")
           \/ e = "flowError" /\ "flowFails" \in QueryEnds
           \/ e = "executionError" /\ "executionFails" \in QueryEnds /\ emitted[n] = 0
        /\ UNCHANGED emitted
  /\ job' = [job EXCEPT ![n] = "ready"]
  /\ event' = [event EXCEPT ![n] = e]
  /\ UNCHANGED <<sessionVars, adapterVars, channelVars, consumerVars, tableVars, cancelled,
                 timerVars, history>>

(* queueMessage.                                                           *)
QuerySends(n) ==
  /\ job[n] = "ready"
  /\ \/ /\ channelClosed
        /\ Sent(n)
        /\ UNCHANGED <<chan, consumerVars>>
     \/ /\ ~channelClosed
        /\ HandOver(QueryOffer(n))
        /\ Sent(n)
     \/ /\ ~channelClosed
        /\ n \notin cancelled
        /\ Suspend(QueryOffer(n))
        /\ job' = [job EXCEPT ![n] = "sending"]
        /\ UNCHANGED event
     \/ /\ ~channelClosed
        /\ n \in cancelled
        /\ ~CanHandOver
        /\ job' = [job EXCEPT ![n] = "ended"]
        /\ event' = [event EXCEPT ![n] = "none"]
        /\ UNCHANGED <<chan, consumerVars>>
  /\ UNCHANGED <<sessionVars, adapterVars, channelClosed, scope, tableVars, emitted, cancelled,
                 timerVars, history>>

(* A cancelled job ends at its suspension point.  So does a job whose own  *)
(* resolver throws a CancellationException, a timeout for instance.        *)
QueryCancelled(n) ==
  /\ \/ job[n] \in {"collecting", "caught"} /\ n \in cancelled
     \/ job[n] = "collecting" /\ "cancels" \in QueryEnds
  /\ job' = [job EXCEPT ![n] = "ended"]
  /\ UNCHANGED <<sessionVars, adapterVars, channelVars, consumerVars, tableVars, event, emitted,
                 cancelled, timerVars, history>>

(* The launched block throws before it enters QueryCoroutine.run: the      *)
(* failure of the child cancels the scope, and nobody closes the session.  *)
QuerySetupFails(n) ==
  /\ job[n] = "collecting"
  /\ n \notin cancelled
  /\ emitted[n] = 0
  /\ "setupFails" \in QueryEnds
  /\ CancelScope(n)
  /\ UNCHANGED <<sessionVars, adapterVars, channelClosed, current, tableVars, emitted, history>>

-----------------------------------------------------------------------------
(* The two timers.  On a closed channel a keepalive does nothing.  The     *)
(* init timeout runs on another thread: it reads keepAliveStarted in one   *)
(* step and closes the session in another; before onWebSocketOpen there is *)
(* no session to close.                                                    *)

KeepAliveTick ==
  /\ keepAlive = "delaying"
  /\ ~channelClosed
  /\ Len(replies[keepAliveMessage]) < 2 + MaxKeepAlives
  /\ \/ HandOver(KeepAliveOffer) /\ UNCHANGED keepAlive
     \/ Suspend(KeepAliveOffer) /\ keepAlive' = "sending"
  /\ UNCHANGED <<sessionVars, adapterVars, channelClosed, scope, tableVars, queryVars,
                 initTimer, history>>

(* Fault: the timeout closes the connections that were initialised.        *)
FaultInvertedTest ==
  /\ initTimer = "armed"
  /\ initTimer' = IF keepAliveStarted THEN "expired" ELSE "done"
  /\ UNCHANGED <<sessionVars, adapterVars, channelVars, consumerVars, tableVars, queryVars,
                 keepAlive, history>>

InitTimerExpires ==
  /\ initTimer = "armed"
  /\ initTimer' = IF keepAliveStarted THEN "done" ELSE "expired"
  /\ UNCHANGED <<sessionVars, adapterVars, channelVars, consumerVars, tableVars, queryVars,
                 keepAlive, history>>

InitTimerCloses ==
  /\ initTimer = "expired"
  /\ initTimer' = "done"
  /\ close("TIMEOUT_INIT")
  /\ UNCHANGED <<adapterVars, channelVars, consumerVars, tableVars, queryVars, keepAlive,
                 history>>

-----------------------------------------------------------------------------
ClientStep ==
  \E m \in ClientFrames : \E id \in sanitizeMessageId(m.id) : OnWebSocketText([m EXCEPT !.id = id])

FrameStep(n) ==
  ForwardFrame(n) \/ RejectFrame(n) \/ AbandonFrame(n) \/ CheckDemand(n) \/ Demand(n)

HandleFrame(n) ==
  \/ \E verdict \in Verdicts : handleConnectionInit(n, verdict) \/ handleQueryStart(n, verdict)
  \/ handleConnectionTerminate(n) \/ handleQueryStop(n) \/ handlePing(n) \/ handlePong(n)

ConsumerStep ==
  \/ Receive
  \/ ConsumerFinishes
  \/ \E n \in Frames : HandleFrame(n) \/ handleQueryData(n) \/ handleQueryEnd(n)
  \/ handleKeepAlive

QueryStep(n) ==
  \/ \E e \in Events : QueryEvent(n, e)
  \/ QuerySends(n) \/ QueryCancelled(n) \/ QuerySetupFails(n)

TimerStep == InitTimerExpires \/ InitTimerCloses

Next ==
  \/ OnWebSocketOpen
  \/ ClientStep
  \/ \E n \in Frames : FrameStep(n) \/ QueryStep(n)
  \/ ConsumerStep
  \/ OnWebSocketClose
  \/ CancelOnClose
  \/ KeepAliveTick
  \/ TimerStep

Spec == Init /\ [][Next]_vars

(* The dispatchers run every coroutine that can run, the flow of a query   *)
(* goes on until it ends, the timeout expires, and Jetty completes the     *)
(* opening and a close the server has begun.  The client owes nothing.     *)
Fairness ==
  /\ WF_vars(OnWebSocketOpen)
  /\ \A n \in Frames : WF_vars(FrameStep(n)) /\ WF_vars(QueryStep(n))
  /\ WF_vars(ConsumerStep)
  /\ WF_vars(session = "closing" /\ OnWebSocketClose)
  /\ WF_vars(CancelOnClose)
  /\ WF_vars(TimerStep)

FairSpec == Spec /\ Fairness

-----------------------------------------------------------------------------
(* Types of the state.                                                     *)
TypeOK ==
  /\ session \in {"connecting", "open", "closing", "closed"}
  /\ closeReason \in GraphQLWebSocketCloseReason \cup {"none"}
  /\ demanded \in BOOLEAN
  /\ received \in 0..MaxFrames
  /\ frameMsg \in [Frames -> OperationMessage \cup {NoFrame}]
  /\ framePc \in [Frames -> {"new", "received", "sending", "finally", "demanding", "done"}]
  /\ scope \in {"active", "cancelled"}
  /\ channelClosed \in BOOLEAN
  /\ chan \in Seq(Offer)
  /\ consumer \in {"consuming", "finished"}
  /\ current \in Offer \cup {NoOffer}
  /\ keepAliveStarted \in BOOLEAN
  /\ keepAliveMessage \in 0..MaxFrames
  /\ queries \in [Ids -> 0..MaxFrames]
  /\ job \in [Frames -> {"none", "collecting", "caught", "ready", "sending", "ended"}]
  /\ event \in [Frames -> Events \cup {"none"}]
  /\ emitted \in [Frames -> 0..MaxData]
  /\ cancelled \subseteq Frames
  /\ keepAlive \in {"off", "delaying", "sending"}
  /\ initTimer \in {"armed", "expired", "done"}
  /\ replies \in [Frames -> Seq(OperationTypes)]
  /\ late \in [Frames -> Nat]

LiveFrame(n) == framePc[n] \in {"received", "sending", "finally", "demanding"}
LiveQuery(n) == job[n] \notin {"none", "ended"}

(* The channel holds nothing but the messages of coroutines suspended in   *)
(* send, one for each of them: a cancel never leaves a message behind that *)
(* would reach the client although its query has ended.                    *)
OnlySuspendedSenders ==
  /\ \A i \in DOMAIN chan :
       /\ chan[i].kind = "frame" => chan[i].n \in Frames /\ framePc[chan[i].n] = "sending"
       /\ chan[i].kind = "query" => chan[i].n \in Frames /\ job[chan[i].n] = "sending"
       /\ chan[i].kind = "keepalive" => keepAlive = "sending"
  /\ \A i, j \in DOMAIN chan :
       i # j => chan[i].kind # chan[j].kind \/ (chan[i].n # chan[j].n /\ chan[i].kind # "keepalive")

(* Backpressure: one frame at most is between its delivery and the demand  *)
(* of the next one, whatever the consumer, the queries and a close do.     *)
OneFrameInFlight ==
  /\ \A m, n \in Frames : LiveFrame(m) /\ LiveFrame(n) => m = n
  /\ demanded => \A n \in Frames : ~LiveFrame(n)

(* The consumer handles frames in the order the client sent them, although *)
(* each is put into the channel by a coroutine of its own.                 *)
FramesInOrder ==
  \A m, n \in Frames :
    m < n /\ ((current.kind = "frame" /\ current.n = n) \/ framePc[n] # "new")
      => framePc[m] = "done"

(* A query that runs and has not been cancelled can be stopped: the table  *)
(* of running queries leads to it, so one query at most runs for an id.    *)
NoOrphanQuery ==
  \A n \in Frames :
    LiveQuery(n) /\ n \notin cancelled
      => frameMsg[n].id \in Ids /\ queries[frameMsg[n].id] = n

(* A connection is acknowledged once, and under graphql-transport-ws no    *)
(* query runs on a connection that was not.                                *)
AcknowledgedOnceAndFirst ==
  LET acked == {n \in Frames : "connection_ack" \in Range(replies[n])} IN
  /\ \A m, n \in acked : m = n
  /\ Protocol = GRAPHQL_WS_PROTOCOL =>
       \A n \in Frames : LiveQuery(n) /\ session = "open" => acked # {}

(* What the client sees of a query ends with its COMPLETE or its ERROR:    *)
(* one message at most can follow, which was on its way already when the   *)
(* query was cancelled, or which onCompletion sends after an error.        *)
RepliesEnd ==
  \A n \in Frames : job[n] # "none" =>
    \A i \in DOMAIN replies[n] :
      replies[n][i] \in {"complete", "error"} => Len(replies[n]) <= i + 1

(* A query leaves the table of running queries only by a step that sends   *)
(* the client a COMPLETE or an ERROR for its id.                           *)
RemovalIsAnnounced ==
  [][\A id \in Ids :
       queries[id] # 0 /\ queries'[id] = 0 /\ session = "open"
         => \E n \in Frames :
              /\ frameMsg[n].id = id
              /\ replies'[n] # replies[n]
              /\ Last(replies'[n]) \in {"complete", "error"}]_vars

(* The socket never wedges: while it stays open the next frame is demanded *)
(* again, even though the one before had to wait for the consumer.         *)
DemandReturns ==
  session = "open" /\ ~demanded ~> demanded \/ session # "open"

(* Every query that was accepted is answered: its id is free again after a *)
(* COMPLETE or an ERROR, unless the connection goes away first.            *)
QueriesAnswered ==
  \A id \in Ids : queries[id] # 0 ~> queries[id] = 0 \/ session # "open"

(* A connection the client does not initialise is closed.                  *)
InitDeadline ==
  session = "open" /\ initTimer # "done" ~> keepAliveStarted \/ session # "open"

(* Nothing outlives the socket: once onWebSocketClose has been called      *)
(* every coroutine of the connection ends.                                 *)
NothingOutlivesSocket ==
  session = "closed" ~>
    /\ consumer = "finished"
    /\ keepAlive = "off"
    /\ initTimer = "done"
    /\ \A n \in Frames : ~LiveFrame(n) /\ ~LiveQuery(n)

-----------------------------------------------------------------------------
(* What comments of the code say and the code does not do.                 *)

(* "Only send complete if there's no exception": no COMPLETE follows the   *)
(* ERROR of the same query.                                                *)
NoCompleteAfterError ==
  \A n \in Frames : \A i, j \in DOMAIN replies[n] :
    i < j => ~(replies[n][i] = "error" /\ replies[n][j] = "complete")
=============================================================================
