----------------------------- MODULE GraphQLSse -----------------------------
(***************************************************************************)
(* The graphql-sse endpoint (GraphQLSseResource).  In single connection    *)
(* mode a client reserves a stream token (PUT), opens the event stream     *)
(* (GET), and starts and cancels operations on it (POST, DELETE); every    *)
(* request runs on a thread of its own, and they meet in three concurrent  *)
(* maps.  In distinct connections mode one POST runs one operation.        *)
(***************************************************************************)
EXTENDS Naturals

CONSTANTS
  Tokens,             (* stream tokens, a fresh one for each reservation   *)
  OperationIds,       (* the operation ids clients use                     *)
  Connections,        (* the event streams that are requested              *)
  Posts,              (* the POST requests, and the operations they start  *)
  NoConnection, NoPost, NoMap, NoToken, NoId,
  QueryEnds,          (* the ways an operation may end                     *)
  CheckAuthorization  (* graphQLConfig.checkAuthorization                  *)

ASSUME AbsentAssumption ==
  NoConnection \notin Connections /\ NoPost \notin Posts /\ NoToken \notin Tokens
  /\ NoId \notin OperationIds /\ NoMap \notin [OperationIds -> Posts \cup {NoPost}]
ASSUME QueryEndsAssumption == QueryEnds \subseteq {"completes", "fails", "fatal"}
ASSUME AuthorizationAssumption == CheckAuthorization \in BOOLEAN

Principals == {"user", "anonymous"}

VARIABLES
  reservedStreams,    (* the principal of each reservation, or "none"      *)
  used,               (* the tokens that were handed out                   *)
  activeStreams,      (* the connection that serves each token             *)
  runningOperations,  (* for each token, the map from id to operation      *)
  connection,         (* where the request for each event stream stands    *)
  connToken,          (* its token                                         *)
  connPrincipal,      (* the principal of its reservation                  *)
  scope,              (* its coroutineScope                                *)
  sink,               (* its event sink                                    *)
  post,               (* where each POST, then its operation, stands       *)
  postToken,          (* its token                                         *)
  postId,             (* its operationId                                   *)
  postPrincipal,      (* the principal its operation runs with             *)
  postConn,           (* the connection it found, or is                    *)
  escaped,            (* an exception is leaving its coroutine             *)
  deleting,           (* the operations a DELETE has found, and not yet    *)
                      (* cancelled                                         *)
  cancelled,          (* the operations that were cancelled one by one     *)
  late                (* history: results sent after the cancellation      *)

tables == <<reservedStreams, used, activeStreams, runningOperations>>
connectionVars == <<connection, connToken, connPrincipal, scope, sink>>
requestVars == <<postToken, postId, postPrincipal, postConn>>
operationVars == <<escaped, deleting, cancelled, late>>

vars == <<tables, connectionVars, post, requestVars, operationVars>>

Init ==
  /\ reservedStreams = [t \in Tokens |-> "none"]
  /\ used = {}
  /\ activeStreams = [t \in Tokens |-> NoConnection]
  /\ runningOperations = [t \in Tokens |-> NoMap]
  /\ connection = [c \in Connections |-> "new"]
  /\ connToken = [c \in Connections |-> NoToken]
  /\ connPrincipal = [c \in Connections |-> "anonymous"]
  /\ scope = [c \in Connections |-> "active"]
  /\ sink = [c \in Connections |-> "open"]
  /\ post = [p \in Posts |-> "new"]
  /\ postToken = [p \in Posts |-> NoToken]
  /\ postId = [p \in Posts |-> NoId]
  /\ postPrincipal = [p \in Posts |-> "anonymous"]
  /\ postConn = [p \in Posts |-> NoConnection]
  /\ escaped = [p \in Posts |-> FALSE]
  /\ deleting = {} /\ cancelled = {}
  /\ late = [p \in Posts |-> 0]

-----------------------------------------------------------------------------
(* PUT: reserveEventStream.                                                *)
reserveEventStream(t, principal) ==
  /\ t \notin used
  /\ principal = "user" \/ ~CheckAuthorization
  /\ used' = used \cup {t}
  /\ reservedStreams' = [reservedStreams EXCEPT ![t] = principal]
  /\ UNCHANGED <<activeStreams, runningOperations, connectionVars, post, requestVars,
                 operationVars>>

-----------------------------------------------------------------------------
(* GET: eventStream.  Taking the reservation, publishing the stream and    *)
(* the two removals of the finally block are steps of their own.           *)

(* Fault: the reservation is looked up and not removed.                    *)
FaultReservationKept(c, t) ==
  /\ connection[c] = "new"
  /\ reservedStreams[t] # "none"
  /\ connection' = [connection EXCEPT ![c] = "claimed"]
  /\ connToken' = [connToken EXCEPT ![c] = t]
  /\ connPrincipal' = [connPrincipal EXCEPT ![c] = reservedStreams[t]]
  /\ UNCHANGED <<tables, scope, sink, post, requestVars, operationVars>>

ClaimReservation(c, t) ==
  /\ connection[c] = "new"
  /\ reservedStreams[t] # "none"
  /\ reservedStreams' = [reservedStreams EXCEPT ![t] = "none"]
  /\ connection' = [connection EXCEPT ![c] = "claimed"]
  /\ connToken' = [connToken EXCEPT ![c] = t]
  /\ connPrincipal' = [connPrincipal EXCEPT ![c] = reservedStreams[t]]
  /\ UNCHANGED <<used, activeStreams, runningOperations, scope, sink, post, requestVars,
                 operationVars>>

(* No token, or one that is not reserved: the sink is closed.              *)
RefuseStream(c) ==
  /\ connection[c] = "new"
  /\ connection' = [connection EXCEPT ![c] = "done"]
  /\ sink' = [sink EXCEPT ![c] = "closed"]
  /\ UNCHANGED <<tables, connToken, connPrincipal, scope, post, requestVars, operationVars>>

OpenStream(c) ==
  /\ connection[c] = "claimed"
  /\ connection' = [connection EXCEPT ![c] = "open"]
  /\ activeStreams' = [activeStreams EXCEPT ![connToken[c]] = c]
  /\ UNCHANGED <<reservedStreams, used, runningOperations, connToken, connPrincipal, scope, sink,
                 post, requestVars, operationVars>>

(* The operations that are children of a connection's scope.               *)
Underway == {"launched", "running", "sending", "completing", "unregistering"}
Children(c) == {p \in Posts : postConn[p] = c /\ post[p] \in Underway}

(* Fault: the streams are cleaned up on a disconnection, not after the     *)
(* scope has waited for its children.                                      *)
FaultNoJoin(c) ==
  /\ connection[c] = "open"
  /\ scope[c] = "cancelled"
  /\ connection' = [connection EXCEPT ![c] = "removing"]
  /\ activeStreams' = [activeStreams EXCEPT ![connToken[c]] = NoConnection]
  /\ UNCHANGED <<reservedStreams, used, runningOperations, connToken, connPrincipal, scope, sink,
                 post, requestVars, operationVars>>

(* coroutineScope returns when the scope is cancelled and its children are *)
(* done: the keepalive coroutine never ends by itself.                     *)
RemoveStream(c) ==
  /\ connection[c] = "open"
  /\ scope[c] = "cancelled"
  /\ Children(c) = {}
  /\ connection' = [connection EXCEPT ![c] = "removing"]
  /\ activeStreams' = [activeStreams EXCEPT ![connToken[c]] = NoConnection]
  /\ UNCHANGED <<reservedStreams, used, runningOperations, connToken, connPrincipal, scope, sink,
                 post, requestVars, operationVars>>

RemoveOperations(c) ==
  /\ connection[c] = "removing"
  /\ connection' = [connection EXCEPT ![c] = "done"]
  /\ runningOperations' = [runningOperations EXCEPT ![connToken[c]] = NoMap]
  /\ UNCHANGED <<reservedStreams, used, activeStreams, connToken, connPrincipal, scope, sink, post,
                 requestVars, operationVars>>

-----------------------------------------------------------------------------
(* The client goes away, and the server notices: jersey's connection       *)
(* callback cancels the coroutine, or the keepalive fails to send.         *)

ClientDisconnects(c) ==
  /\ connection[c] \in {"claimed", "open", "distinct"}
  /\ sink[c] = "open"
  /\ sink' = [sink EXCEPT ![c] = "closed"]
  /\ UNCHANGED <<tables, connection, connToken, connPrincipal, scope, post, requestVars,
                 operationVars>>

(* Fault: the disconnection of a client goes unnoticed.                    *)
FaultNotRegistered(c) == scope[c] = "cancelled" /\ UNCHANGED vars

DetectDisconnect(c) ==
  /\ connection[c] \in {"open", "distinct"}
  /\ sink[c] = "closed"
  /\ scope[c] = "active"
  /\ scope' = [scope EXCEPT ![c] = "cancelled"]
  /\ UNCHANGED <<tables, connection, connToken, connPrincipal, sink, post, requestVars,
                 operationVars>>

-----------------------------------------------------------------------------
(* POST: queryOpenStream reads activeStreams, then puts a map for the      *)
(* token if there is none, then launches the operation and answers 202.    *)

(* Fault: the reservation is looked up again, after it was claimed.        *)
FaultReadReservation(c, principal) ==
  IF principal = "anonymous" THEN reservedStreams[connToken[c]] ELSE principal

(* The principal of the request, or that of the reservation.               *)
ContextPrincipal(c, principal) ==
  IF principal = "anonymous" THEN connPrincipal[c] ELSE principal

Authorized(c, principal) ==
  ContextPrincipal(c, principal) # "anonymous" \/ ~CheckAuthorization

Find(p, t, id, principal) ==
  /\ post[p] = "new"
  /\ post' = [post EXCEPT ![p] = "found"]
  /\ postToken' = [postToken EXCEPT ![p] = t]
  /\ postId' = [postId EXCEPT ![p] = id]
  /\ postPrincipal' = [postPrincipal EXCEPT ![p] = principal]
  /\ postConn' = [postConn EXCEPT ![p] = activeStreams[t]]
  /\ UNCHANGED <<tables, connectionVars, operationVars>>

(* Fault: the reservation's principal counts for the check only.           *)
FaultOwnPrincipal(p, t, id, principal) ==
  /\ activeStreams[t] # NoConnection
  /\ Authorized(activeStreams[t], principal)
  /\ Find(p, t, id, principal)

FindStream(p, t, id, principal) ==
  /\ activeStreams[t] # NoConnection
  /\ Authorized(activeStreams[t], principal)
  /\ Find(p, t, id, ContextPrincipal(activeStreams[t], principal))

RejectPost(p, t, principal) ==
  /\ post[p] = "new"
  /\ activeStreams[t] # NoConnection => ~Authorized(activeStreams[t], principal)
  /\ post' = [post EXCEPT ![p] = "rejected"]
  /\ UNCHANGED <<tables, connectionVars, requestVars, operationVars>>

EmptyMap == [id \in OperationIds |-> NoPost]

(* Fault: put instead of putIfAbsent.                                      *)
FaultOverwriteMap(p) ==
  /\ post[p] = "found"
  /\ post' = [post EXCEPT ![p] = "mapped"]
  /\ runningOperations' = [runningOperations EXCEPT ![postToken[p]] = EmptyMap]
  /\ UNCHANGED <<reservedStreams, used, activeStreams, connectionVars, requestVars, operationVars>>

EnsureMap(p) ==
  /\ post[p] = "found"
  /\ post' = [post EXCEPT ![p] = "mapped"]
  /\ runningOperations' =
       [runningOperations EXCEPT ![postToken[p]] = IF @ = NoMap THEN EmptyMap ELSE @]
  /\ UNCHANGED <<reservedStreams, used, activeStreams, connectionVars, requestVars, operationVars>>

(* The client gets its 202 whether or not the scope is still active; a     *)
(* coroutine launched on a cancelled scope never runs.                     *)
LaunchOperation(p) ==
  /\ post[p] = "mapped"
  /\ post' = [post EXCEPT ![p] = IF scope[postConn[p]] = "active" THEN "launched" ELSE "lost"]
  /\ UNCHANGED <<tables, connectionVars, requestVars, operationVars>>

NeverRun(p) ==
  /\ post[p] = "launched"
  /\ scope[postConn[p]] = "cancelled"
  /\ post' = [post EXCEPT ![p] = "lost"]
  /\ UNCHANGED <<tables, connectionVars, requestVars, operationVars>>

(* queryMap[operationId] = this.                                           *)
StartOperation(p) ==
  /\ post[p] = "launched"
  /\ scope[postConn[p]] = "active"
  /\ post' = [post EXCEPT ![p] = "running"]
  /\ runningOperations' = [runningOperations EXCEPT ![postToken[p]][postId[p]] = p]
  /\ UNCHANGED <<reservedStreams, used, activeStreams, connectionVars, requestVars, operationVars>>

(* POST in distinct connections mode: querySse.                            *)
querySse(c, p, principal) ==
  /\ connection[c] = "new"
  /\ post[p] = "new"
  /\ connection' = [connection EXCEPT ![c] = "distinct"]
  /\ post' = [post EXCEPT ![p] = "running"]
  /\ postConn' = [postConn EXCEPT ![p] = c]
  /\ postPrincipal' = [postPrincipal EXCEPT ![p] = principal]
  /\ UNCHANGED <<tables, connToken, connPrincipal, scope, sink, postToken, postId, operationVars>>

-----------------------------------------------------------------------------
(* runQuery.  A send on a closed sink may throw or be swallowed; what the  *)
(* body throws is caught and sent as an error, cancellation included; what *)
(* the catch or the finally block throws leaves the coroutine.             *)

(* Fault: only the end of the stream interrupts an operation.              *)
FaultScopeOnly(p) == scope[postConn[p]] = "cancelled"

Cancelled(p) == p \in cancelled \/ scope[postConn[p]] = "cancelled"
SendMayThrow(p) == sink[postConn[p]] = "closed"

(* Fault: the query does not yield before a result.                        *)
FaultNoYield(p) ==
  /\ post[p] = "running"
  /\ post' = [post EXCEPT ![p] = "sending"]
  /\ UNCHANGED <<tables, connectionVars, requestVars, operationVars>>

(* The yield() before a result: if the operation is cancelled it throws.   *)
YieldNext(p) ==
  /\ post[p] = "running"
  /\ ~Cancelled(p)
  /\ post' = [post EXCEPT ![p] = "sending"]
  /\ UNCHANGED <<tables, connectionVars, requestVars, operationVars>>

(* The event of that result: a cancellation that has come meanwhile does   *)
(* not hold it back.                                                       *)
SendNext(p) ==
  /\ post[p] = "sending"
  /\ post' = [post EXCEPT ![p] = "running"]
  /\ late' = [late EXCEPT ![p] = IF Cancelled(p) THEN @ + 1 ELSE @]
  /\ UNCHANGED <<tables, connectionVars, requestVars, escaped, deleting, cancelled>>

BodyEnds(p, throws) ==
  /\ post' = [post EXCEPT ![p] = "completing"]
  /\ escaped' = [escaped EXCEPT ![p] = throws]
  /\ UNCHANGED <<tables, connectionVars, requestVars, deleting, cancelled, late>>

Completes(p) ==
  /\ post[p] = "running"
  /\ "completes" \in QueryEnds
  /\ BodyEnds(p, FALSE)

(* The query fails, where it suspends by its cancellation, or while it     *)
(* makes and sends an event; the catch block sends the error.              *)
Fails(p) ==
  /\ \/ post[p] = "running" /\ ("fails" \in QueryEnds \/ Cancelled(p))
     \/ post[p] = "sending" /\ ("fails" \in QueryEnds \/ SendMayThrow(p))
  /\ \E throws \in BOOLEAN : (throws => SendMayThrow(p)) /\ BodyEnds(p, throws)

(* A Throwable that is no Exception passes the catch block.                *)
FailsFatally(p) ==
  /\ post[p] \in {"running", "sending"}
  /\ "fatal" \in QueryEnds
  /\ BodyEnds(p, TRUE)

(* The finally block.                                                      *)
SendComplete(p) ==
  /\ post[p] = "completing"
  /\ post' = [post EXCEPT ![p] = "unregistering"]
  /\ \E throws \in BOOLEAN :
       /\ throws => SendMayThrow(p)
       /\ escaped' = [escaped EXCEPT ![p] = @ \/ throws]
  /\ UNCHANGED <<tables, connectionVars, requestVars, deleting, cancelled, late>>

(* Fault: the entry of an operation is not removed at its end.             *)
FaultNotUnregistered(p) ==
  /\ post[p] = "unregistering"
  /\ connection[postConn[p]] # "distinct"
  /\ post' = [post EXCEPT ![p] = "done"]
  /\ scope' = [scope EXCEPT ![postConn[p]] = IF escaped[p] THEN "cancelled" ELSE @]
  /\ UNCHANGED <<tables, connection, connToken, connPrincipal, sink, requestVars, operationVars>>

(* What the coroutine of an operation throws cancels the whole stream.     *)
EndOperation(p) ==
  /\ post[p] = "unregistering"
  /\ connection[postConn[p]] # "distinct"
  /\ post' = [post EXCEPT ![p] = "done"]
  /\ runningOperations' = [runningOperations EXCEPT ![postToken[p]][postId[p]] = NoPost]
  /\ scope' = [scope EXCEPT ![postConn[p]] = IF escaped[p] THEN "cancelled" ELSE @]
  /\ UNCHANGED <<reservedStreams, used, activeStreams, connection, connToken, connPrincipal, sink,
                 requestVars, operationVars>>

(* The end of querySse: the keepalive is cancelled and the sink closed.    *)
EndDistinct(p) ==
  LET c == postConn[p] IN
  /\ post[p] = "unregistering"
  /\ connection[c] = "distinct"
  /\ post' = [post EXCEPT ![p] = "done"]
  /\ connection' = [connection EXCEPT ![c] = "done"]
  /\ sink' = [sink EXCEPT ![c] = "closed"]
  /\ UNCHANGED <<tables, connToken, connPrincipal, scope, requestVars, operationVars>>

-----------------------------------------------------------------------------
(* DELETE: cancelOperation.  The operation may end, and another take its   *)
(* id, between the look into the map and the cancel().                     *)
Registered(t, id) ==
  IF runningOperations[t] = NoMap THEN {} ELSE {runningOperations[t][id]} \ {NoPost}

cancelOperation(t, id) ==
  /\ deleting' = deleting \cup Registered(t, id)
  /\ UNCHANGED <<tables, connectionVars, post, requestVars, escaped, cancelled, late>>

CancelFound(p) ==
  /\ p \in deleting
  /\ deleting' = deleting \ {p}
  /\ cancelled' = cancelled \cup {p}
  /\ UNCHANGED <<tables, connectionVars, post, requestVars, escaped, late>>

-----------------------------------------------------------------------------
ConnectionStep(c) ==
  OpenStream(c) \/ RemoveStream(c) \/ RemoveOperations(c) \/ DetectDisconnect(c)

PostStep(p) == EnsureMap(p) \/ LaunchOperation(p)

OperationStep(p) ==
  \/ NeverRun(p) \/ StartOperation(p)
  \/ YieldNext(p) \/ SendNext(p) \/ Completes(p) \/ Fails(p) \/ FailsFatally(p)
  \/ SendComplete(p) \/ EndOperation(p) \/ EndDistinct(p)

ClientStep ==
  \/ \E t \in Tokens, principal \in Principals : reserveEventStream(t, principal)
  \/ \E c \in Connections :
       \/ \E t \in Tokens : ClaimReservation(c, t)
       \/ RefuseStream(c)
       \/ ClientDisconnects(c)
       \/ \E p \in Posts, principal \in Principals : querySse(c, p, principal)
  \/ \E p \in Posts, t \in Tokens, principal \in Principals :
       \/ \E id \in OperationIds : FindStream(p, t, id, principal)
       \/ RejectPost(p, t, principal)
  \/ \E t \in Tokens, id \in OperationIds : cancelOperation(t, id)

Next ==
  \/ ClientStep
  \/ \E c \in Connections : ConnectionStep(c)
  \/ \E p \in Posts : PostStep(p) \/ OperationStep(p) \/ CancelFound(p)

Spec == Init /\ [][Next]_vars

(* Request threads and coroutines run when they can, an operation goes on  *)
(* until it ends, and a disconnection is noticed, because the keepalive    *)
(* fails to send: keepAliveIntervalSeconds is positive, as it is by        *)
(* default.  Clients owe nothing.                                          *)
Fairness ==
  /\ \A c \in Connections : WF_vars(ConnectionStep(c))
  /\ \A p \in Posts :
       WF_vars(PostStep(p)) /\ WF_vars(OperationStep(p)) /\ WF_vars(CancelFound(p))

FairSpec == Spec /\ Fairness

-----------------------------------------------------------------------------
(* Types of the state.                                                     *)
TypeOK ==
  /\ reservedStreams \in [Tokens -> Principals \cup {"none"}]
  /\ used \subseteq Tokens
  /\ activeStreams \in [Tokens -> Connections \cup {NoConnection}]
  /\ runningOperations \in [Tokens -> [OperationIds -> Posts \cup {NoPost}] \cup {NoMap}]
  /\ connection \in
       [Connections -> {"new", "claimed", "open", "removing", "done", "distinct"}]
  /\ connToken \in [Connections -> Tokens \cup {NoToken}]
  /\ connPrincipal \in [Connections -> Principals]
  /\ scope \in [Connections -> {"active", "cancelled"}]
  /\ sink \in [Connections -> {"open", "closed"}]
  /\ post \in [Posts -> Underway \cup {"new", "found", "mapped", "rejected", "lost", "done"}]
  /\ postToken \in [Posts -> Tokens \cup {NoToken}]
  /\ postId \in [Posts -> OperationIds \cup {NoId}]
  /\ postPrincipal \in [Posts -> Principals]
  /\ postConn \in [Posts -> Connections \cup {NoConnection}]
  /\ escaped \in [Posts -> BOOLEAN]
  /\ deleting \subseteq Posts /\ cancelled \subseteq Posts
  /\ late \in [Posts -> Nat]

(* A reservation opens one stream: two requests that race for the same     *)
(* token are never both served.                                            *)
OneStreamPerToken ==
  \A c, d \in Connections :
    connection[c] \in {"claimed", "open", "removing"}
      /\ connection[d] \in {"claimed", "open", "removing"}
      /\ connToken[c] = connToken[d]
    => c = d

Running(p) == post[p] \in {"running", "sending", "completing", "unregistering"}
Single(p) == postToken[p] # NoToken

(* Structured concurrency: an operation runs only while the stream that    *)
(* receives its events is published under its token.                       *)
OperationsHaveStream ==
  \A p \in Posts :
    Running(p) /\ Single(p)
      => /\ connection[postConn[p]] = "open"
         /\ activeStreams[postToken[p]] = postConn[p]

(* An operation that runs can be cancelled: its token and its id lead to   *)
(* it, unless another one was started under the same id.                   *)
OperationsReachable ==
  \A p \in Posts :
    Running(p) /\ Single(p)
      /\ (\A q \in Posts \ {p} : postToken[q] = postToken[p] => postId[q] # postId[p])
    => /\ runningOperations[postToken[p]] # NoMap
       /\ runningOperations[postToken[p]][postId[p]] = p

(* The credentials of the reservation request are carried over: where      *)
(* authorization is checked, every operation of a stream runs with a       *)
(* principal.                                                              *)
OperationsAuthorized ==
  \A p \in Posts :
    Running(p) /\ Single(p) /\ CheckAuthorization => postPrincipal[p] = "user"

(* After the client has gone its stream and its operations end, in both    *)
(* modes.                                                                  *)
StreamsEnd ==
  \A c \in Connections :
    connection[c] # "new" /\ sink[c] = "closed" ~> connection[c] = "done" /\ Children(c) = {}

(* What the DELETE of a client finds ends, and its entry is removed,       *)
(* whatever the query goes on to produce.                                  *)
CancelledEnd ==
  \A p \in Posts :
    p \in deleting
      ~> post[p] = "done" /\ \A t \in Tokens, id \in OperationIds : p \notin Registered(t, id)

-----------------------------------------------------------------------------
(* What a test says and the code does not do.                              *)

(* Once a stream is gone, nothing is left of its operations.               *)
NoLeftovers ==
  \A c \in Connections :
    connection[c] = "done" /\ connToken[c] # NoToken
      => runningOperations[connToken[c]] = NoMap
=============================================================================
