-------------------------- MODULE GraphQLSseProofs --------------------------
(***************************************************************************)
(* Proofs about the graphql-sse endpoint (GraphQLSse), for any number of   *)
(* tokens, connections, requests and operation ids.  A token is reserved,  *)
(* or held by one connection, and never both; a request that has found its *)
(* stream stays bound to the connection it found; and a connection leaves  *)
(* "open" only when none of its operations is underway.                    *)
(***************************************************************************)
EXTENDS GraphQLSseLifecycle, TLAPS

Holds(c) == connToken[c] # NoToken

(* A token that was taken is not reserved again, and has one connection.   *)
TokensInv ==
  /\ \A t \in Tokens : reservedStreams[t] # "none" => t \in used
  /\ \A c \in Connections :
       /\ connection[c] \in {"new", "distinct"} => ~Holds(c)
       /\ connection[c] \in {"claimed", "open", "removing"} => Holds(c)
       /\ Holds(c) => connToken[c] \in used /\ reservedStreams[connToken[c]] = "none"
  /\ \A c, d \in Connections : Holds(c) /\ connToken[c] = connToken[d] => c = d

(* The open streams, and only they, are published under their tokens.      *)
StreamsInv ==
  /\ \A t \in Tokens :
       activeStreams[t] # NoConnection
         => connection[activeStreams[t]] = "open" /\ connToken[activeStreams[t]] = t
  /\ \A c \in Connections : connection[c] = "open" => activeStreams[connToken[c]] = c

(* A request keeps the connection it found, which is open for as long as   *)
(* its scope is active, and for as long as the operation is underway.      *)
PostsInv ==
  \A p \in Posts :
    /\ post[p] = "new" => ~Single(p)
    /\ post[p] \in {"found", "mapped", "launched"} => Single(p)
    /\ Single(p) =>
         /\ postConn[p] \in Connections /\ postId[p] \in OperationIds
         /\ connToken[postConn[p]] = postToken[p]
         /\ connection[postConn[p]] \in {"open", "removing", "done"}
         /\ post[p] \in {"found", "mapped"} /\ scope[postConn[p]] = "active"
              => connection[postConn[p]] = "open"
         /\ post[p] \in Underway => connection[postConn[p]] = "open"

(* The map of a token exists for as long as an operation may use it.       *)
MapsInv ==
  \A p \in Posts :
    Single(p) /\ post[p] \in Underway \cup {"mapped"} /\ connection[postConn[p]] = "open"
      => runningOperations[postToken[p]] # NoMap

(* A reservation is made with a principal, and everything inherits it.     *)
PrincipalsInv ==
  CheckAuthorization =>
    /\ \A t \in Tokens : reservedStreams[t] \in {"user", "none"}
    /\ \A c \in Connections : Holds(c) => connPrincipal[c] = "user"
    /\ \A p \in Posts : Single(p) => postPrincipal[p] = "user"

Inv ==
  /\ TypeOK /\ TokensInv /\ StreamsInv /\ PostsInv /\ MapsInv /\ PrincipalsInv
  /\ OperationsReachable

-----------------------------------------------------------------------------
(* Reserving a stream, and what connections do.                            *)

LEMMA ReserveEventStreamStep ==
  ASSUME Inv, NEW t \in Tokens, NEW principal \in Principals, reserveEventStream(t,
         principal)
  PROVE  Inv'
<1> USE DEF Inv, reserveEventStream, tables, connectionVars, requestVars, operationVars
<1>1. TypeOK'
  BY AbsentAssumption DEF TypeOK, Principals, Underway
<1>2. TokensInv'
  BY AbsentAssumption DEF TypeOK, Principals, Underway, TokensInv, Holds
<1>3. PrincipalsInv'
  BY AbsentAssumption DEF TypeOK, Principals, Underway, PrincipalsInv, Holds, Single,
      PostsInv
<1>4. StreamsInv' /\ PostsInv' /\ MapsInv' /\ OperationsReachable'
  BY DEF StreamsInv, PostsInv, Single, Underway, MapsInv, OperationsReachable, Running
<1> QED
  BY <1>1, <1>2, <1>3, <1>4 DEF Inv

LEMMA ClaimReservationStep ==
  ASSUME Inv, NEW c \in Connections, NEW t \in Tokens, ClaimReservation(c, t)
  PROVE  Inv'
<1> USE DEF Inv, ClaimReservation, tables, connectionVars, requestVars, operationVars
<1>1. TypeOK'
  BY AbsentAssumption DEF TypeOK, Principals, Underway
<1>2. TokensInv'
  BY AbsentAssumption DEF TypeOK, Principals, Underway, TokensInv, Holds
<1>3. StreamsInv'
  BY AbsentAssumption DEF TypeOK, Principals, Underway, StreamsInv, TokensInv, Holds
<1>4. PostsInv'
  BY AbsentAssumption DEF TypeOK, Principals, Underway, PostsInv, Single, TokensInv, Holds,
      StreamsInv
<1>5. MapsInv'
  BY AbsentAssumption DEF TypeOK, Principals, Underway, MapsInv, Single, PostsInv,
      TokensInv, Holds
<1>6. PrincipalsInv'
  BY AbsentAssumption DEF TypeOK, Principals, Underway, PrincipalsInv, Holds, Single,
      PostsInv
<1>7. OperationsReachable'
  BY DEF OperationsReachable, Running, Single
<1> QED
  BY <1>1, <1>2, <1>3, <1>4, <1>5, <1>6, <1>7 DEF Inv

LEMMA RefuseStreamStep ==
  ASSUME Inv, NEW c \in Connections, RefuseStream(c)
  PROVE  Inv'
<1> USE DEF Inv, RefuseStream, tables, connectionVars, requestVars, operationVars
<1>1. TypeOK'
  BY AbsentAssumption DEF TypeOK, Principals, Underway
<1>2. TokensInv'
  BY AbsentAssumption DEF TypeOK, Principals, Underway, TokensInv, Holds
<1>3. StreamsInv'
  BY AbsentAssumption DEF TypeOK, Principals, Underway, StreamsInv, TokensInv, Holds
<1>4. PostsInv'
  BY AbsentAssumption DEF TypeOK, Principals, Underway, PostsInv, Single, TokensInv, Holds,
      StreamsInv
<1>5. MapsInv'
  BY AbsentAssumption DEF TypeOK, Principals, Underway, MapsInv, Single, PostsInv,
      TokensInv, Holds
<1>6. PrincipalsInv' /\ OperationsReachable'
  BY DEF PrincipalsInv, Holds, Single, OperationsReachable, Running
<1> QED
  BY <1>1, <1>2, <1>3, <1>4, <1>5, <1>6 DEF Inv

LEMMA OpenStreamStep ==
  ASSUME Inv, NEW c \in Connections, OpenStream(c)
  PROVE  Inv'
<1> USE DEF Inv, OpenStream, tables, connectionVars, requestVars, operationVars
<1>1. TypeOK'
  BY AbsentAssumption DEF TypeOK, Principals, Underway
<1>2. TokensInv'
  BY AbsentAssumption DEF TypeOK, Principals, Underway, TokensInv, Holds
<1>3. StreamsInv'
  BY AbsentAssumption DEF TypeOK, Principals, Underway, StreamsInv, TokensInv, Holds
<1>4. PostsInv'
  BY AbsentAssumption DEF TypeOK, Principals, Underway, PostsInv, Single, TokensInv, Holds,
      StreamsInv
<1>5. MapsInv'
  BY AbsentAssumption DEF TypeOK, Principals, Underway, MapsInv, Single, PostsInv,
      TokensInv, Holds
<1>6. PrincipalsInv' /\ OperationsReachable'
  BY DEF PrincipalsInv, Holds, Single, OperationsReachable, Running
<1> QED
  BY <1>1, <1>2, <1>3, <1>4, <1>5, <1>6 DEF Inv

LEMMA RemoveStreamStep ==
  ASSUME Inv, NEW c \in Connections, RemoveStream(c)
  PROVE  Inv'
<1> USE DEF Inv, RemoveStream, Children, tables, connectionVars, requestVars, operationVars
<1>1. TypeOK'
  BY AbsentAssumption DEF TypeOK, Principals, Underway
<1>2. TokensInv'
  BY AbsentAssumption DEF TypeOK, Principals, Underway, TokensInv, Holds
<1>3. StreamsInv'
  BY AbsentAssumption DEF TypeOK, Principals, Underway, StreamsInv, TokensInv, Holds
<1>4. PostsInv'
  BY AbsentAssumption DEF TypeOK, Principals, Underway, PostsInv, Single, TokensInv, Holds,
      StreamsInv
<1>5. MapsInv'
  BY AbsentAssumption DEF TypeOK, Principals, Underway, MapsInv, Single, PostsInv,
      TokensInv, Holds
<1>6. PrincipalsInv' /\ OperationsReachable'
  BY DEF PrincipalsInv, Holds, Single, OperationsReachable, Running
<1> QED
  BY <1>1, <1>2, <1>3, <1>4, <1>5, <1>6 DEF Inv

LEMMA RemoveOperationsStep ==
  ASSUME Inv, NEW c \in Connections, RemoveOperations(c)
  PROVE  Inv'
<1> USE DEF Inv, RemoveOperations, tables, connectionVars, requestVars, operationVars
<1>1. TypeOK'
  BY AbsentAssumption DEF TypeOK, Principals, Underway, TokensInv, Holds
<1>2. TokensInv'
  BY AbsentAssumption DEF TypeOK, Principals, Underway, TokensInv, Holds
<1>3. StreamsInv'
  BY AbsentAssumption DEF TypeOK, Principals, Underway, StreamsInv, TokensInv, Holds
<1>4. PostsInv'
  BY AbsentAssumption DEF TypeOK, Principals, Underway, PostsInv, Single, TokensInv, Holds,
      StreamsInv
<1>5. MapsInv'
  BY AbsentAssumption DEF TypeOK, Principals, Underway, MapsInv, Single, PostsInv,
      TokensInv, Holds
<1>6. OperationsReachable'
  BY AbsentAssumption DEF TypeOK, Principals, Underway, OperationsReachable, TokensInv, Holds, Running,
      Single, PostsInv, MapsInv
<1>7. PrincipalsInv'
  BY DEF PrincipalsInv, Holds, Single
<1> QED
  BY <1>1, <1>2, <1>3, <1>4, <1>5, <1>6, <1>7 DEF Inv

LEMMA ClientDisconnectsStep ==
  ASSUME Inv, NEW c \in Connections, ClientDisconnects(c)
  PROVE  Inv'
<1> USE DEF Inv, ClientDisconnects, tables, connectionVars, requestVars, operationVars
<1>1. TypeOK'
  BY AbsentAssumption DEF TypeOK, Principals, Underway
<1>2. TokensInv' /\ StreamsInv' /\ PostsInv' /\ MapsInv' /\ PrincipalsInv' /\ OperationsReachable'
  BY DEF TokensInv, Holds, StreamsInv, PostsInv, Single, Underway, MapsInv, PrincipalsInv,
      OperationsReachable, Running
<1> QED
  BY <1>1, <1>2 DEF Inv

LEMMA DetectDisconnectStep ==
  ASSUME Inv, NEW c \in Connections, DetectDisconnect(c)
  PROVE  Inv'
<1> USE DEF Inv, DetectDisconnect, tables, connectionVars, requestVars, operationVars
<1>1. TypeOK'
  BY AbsentAssumption DEF TypeOK, Principals, Underway
<1>2. PostsInv'
  BY AbsentAssumption DEF TypeOK, Principals, Underway, PostsInv, Single, TokensInv, Holds,
      StreamsInv
<1>3. TokensInv' /\ StreamsInv' /\ MapsInv' /\ PrincipalsInv' /\ OperationsReachable'
  BY DEF TokensInv, Holds, StreamsInv, MapsInv, Single, Underway, PrincipalsInv,
      OperationsReachable, Running
<1> QED
  BY <1>1, <1>2, <1>3 DEF Inv

-----------------------------------------------------------------------------
(* Requests that find their stream and launch an operation, or cancel one. *)

LEMMA FindStreamStep ==
  ASSUME Inv, NEW p \in Posts, NEW t \in Tokens, NEW id \in OperationIds, NEW
         principal \in Principals, FindStream(p, t, id, principal)
  PROVE  Inv'
<1> USE DEF Inv, FindStream, Find, Authorized, ContextPrincipal, tables, connectionVars,
            requestVars, operationVars
<1>1. TypeOK'
  BY AbsentAssumption DEF TypeOK, Principals, Underway
<1>2. PostsInv'
  BY AbsentAssumption DEF TypeOK, Principals, Underway, PostsInv, Single, TokensInv, Holds,
      StreamsInv
<1>3. MapsInv'
  BY AbsentAssumption DEF TypeOK, Principals, Underway, MapsInv, Single, PostsInv,
      TokensInv, Holds
<1>4. PrincipalsInv'
  BY AbsentAssumption DEF TypeOK, Principals, Underway, PrincipalsInv, Holds, Single,
      PostsInv
<1>5. OperationsReachable'
  BY AbsentAssumption DEF TypeOK, Principals, Underway, OperationsReachable, Running,
      Single, PostsInv, MapsInv
<1>6. TokensInv' /\ StreamsInv'
  BY DEF TokensInv, Holds, StreamsInv
<1> QED
  BY <1>1, <1>2, <1>3, <1>4, <1>5, <1>6 DEF Inv

LEMMA RejectPostStep ==
  ASSUME Inv, NEW p \in Posts, NEW t \in Tokens, NEW principal \in Principals,
         RejectPost(p, t, principal)
  PROVE  Inv'
<1> USE DEF Inv, RejectPost, tables, connectionVars, requestVars, operationVars
<1>1. TypeOK'
  BY AbsentAssumption DEF TypeOK, Principals, Underway
<1>2. PostsInv'
  BY AbsentAssumption DEF TypeOK, Principals, Underway, PostsInv, Single, TokensInv, Holds,
      StreamsInv
<1>3. MapsInv'
  BY AbsentAssumption DEF TypeOK, Principals, Underway, MapsInv, Single, PostsInv,
      TokensInv, Holds
<1>4. OperationsReachable'
  BY AbsentAssumption DEF TypeOK, Principals, Underway, OperationsReachable, Running,
      Single, PostsInv, MapsInv
<1>5. TokensInv' /\ StreamsInv' /\ PrincipalsInv'
  BY DEF TokensInv, Holds, StreamsInv, PrincipalsInv, Single
<1> QED
  BY <1>1, <1>2, <1>3, <1>4, <1>5 DEF Inv

LEMMA QuerySseStep ==
  ASSUME Inv, NEW c \in Connections, NEW p \in Posts, NEW principal \in Principals,
         querySse(c, p, principal)
  PROVE  Inv'
<1> USE DEF Inv, querySse, tables, connectionVars, requestVars, operationVars
<1>1. TypeOK'
  BY AbsentAssumption DEF TypeOK, Principals, Underway
<1>2. TokensInv'
  BY AbsentAssumption DEF TypeOK, Principals, Underway, TokensInv, Holds
<1>3. StreamsInv'
  BY AbsentAssumption DEF TypeOK, Principals, Underway, StreamsInv, TokensInv, Holds
<1>4. PostsInv'
  BY AbsentAssumption DEF TypeOK, Principals, Underway, PostsInv, Single, TokensInv, Holds,
      StreamsInv
<1>5. MapsInv'
  BY AbsentAssumption DEF TypeOK, Principals, Underway, MapsInv, Single, PostsInv,
      TokensInv, Holds
<1>6. PrincipalsInv'
  BY AbsentAssumption DEF TypeOK, Principals, Underway, PrincipalsInv, Holds, Single,
      PostsInv
<1>7. OperationsReachable'
  BY AbsentAssumption DEF TypeOK, Principals, Underway, OperationsReachable, Running,
      Single, PostsInv, MapsInv
<1> QED
  BY <1>1, <1>2, <1>3, <1>4, <1>5, <1>6, <1>7 DEF Inv

LEMMA EnsureMapStep ==
  ASSUME Inv, NEW p \in Posts, EnsureMap(p)
  PROVE  Inv'
<1> USE DEF Inv, EnsureMap, EmptyMap, tables, connectionVars, requestVars, operationVars
<1>1. TypeOK'
  BY AbsentAssumption DEF TypeOK, Principals, Underway, PostsInv, Single, MapsInv
<1>2. PostsInv'
  BY AbsentAssumption DEF TypeOK, Principals, Underway, PostsInv, Single, TokensInv, Holds,
      StreamsInv
<1>3. MapsInv'
  BY AbsentAssumption DEF TypeOK, Principals, Underway, MapsInv, Single, PostsInv,
      TokensInv, Holds
<1>4. OperationsReachable'
  BY AbsentAssumption DEF TypeOK, Principals, Underway, OperationsReachable, Running,
      Single, PostsInv, MapsInv
<1>5. TokensInv' /\ StreamsInv' /\ PrincipalsInv'
  BY DEF TokensInv, Holds, StreamsInv, PrincipalsInv, Single
<1> QED
  BY <1>1, <1>2, <1>3, <1>4, <1>5 DEF Inv

LEMMA LaunchOperationStep ==
  ASSUME Inv, NEW p \in Posts, LaunchOperation(p)
  PROVE  Inv'
<1> USE DEF Inv, LaunchOperation, tables, connectionVars, requestVars, operationVars
<1>1. TypeOK'
  BY AbsentAssumption DEF TypeOK, Principals, Underway
<1>2. PostsInv'
  BY AbsentAssumption DEF TypeOK, Principals, Underway, PostsInv, Single, TokensInv, Holds,
      StreamsInv
<1>3. MapsInv'
  BY AbsentAssumption DEF TypeOK, Principals, Underway, MapsInv, Single, PostsInv,
      TokensInv, Holds
<1>4. OperationsReachable'
  BY AbsentAssumption DEF TypeOK, Principals, Underway, OperationsReachable, Running,
      Single, PostsInv, MapsInv
<1>5. TokensInv' /\ StreamsInv' /\ PrincipalsInv'
  BY DEF TokensInv, Holds, StreamsInv, PrincipalsInv, Single
<1> QED
  BY <1>1, <1>2, <1>3, <1>4, <1>5 DEF Inv

LEMMA CancelOperationStep ==
  ASSUME Inv,
         \/ \E t \in Tokens, id \in OperationIds : cancelOperation(t, id)
         \/ \E p \in Posts : CancelFound(p)
  PROVE  Inv'
<1> USE DEF Inv, cancelOperation, CancelFound, Registered, tables, connectionVars, requestVars,
            operationVars
<1>1. TypeOK'
  BY AbsentAssumption DEF TypeOK, Principals, Underway
<1>2. TokensInv' /\ StreamsInv' /\ PostsInv' /\ MapsInv' /\ PrincipalsInv' /\ OperationsReachable'
  BY DEF TokensInv, Holds, StreamsInv, PostsInv, Single, Underway, MapsInv, PrincipalsInv,
      OperationsReachable, Running
<1> QED
  BY <1>1, <1>2 DEF Inv

-----------------------------------------------------------------------------
(* What the coroutine of an operation does.                                *)

LEMMA NeverRunStep ==
  ASSUME Inv, NEW p \in Posts, NeverRun(p)
  PROVE  Inv'
<1> USE DEF Inv, NeverRun, tables, connectionVars, requestVars, operationVars
<1>1. TypeOK'
  BY AbsentAssumption DEF TypeOK, Principals, Underway
<1>2. PostsInv'
  BY AbsentAssumption DEF TypeOK, Principals, Underway, PostsInv, Single, TokensInv, Holds,
      StreamsInv
<1>3. MapsInv'
  BY AbsentAssumption DEF TypeOK, Principals, Underway, MapsInv, Single, PostsInv,
      TokensInv, Holds
<1>4. OperationsReachable'
  BY AbsentAssumption DEF TypeOK, Principals, Underway, OperationsReachable, Running,
      Single, PostsInv, MapsInv
<1>5. TokensInv' /\ StreamsInv' /\ PrincipalsInv'
  BY DEF TokensInv, Holds, StreamsInv, PrincipalsInv, Single
<1> QED
  BY <1>1, <1>2, <1>3, <1>4, <1>5 DEF Inv

LEMMA StartOperationStep ==
  ASSUME Inv, NEW p \in Posts, StartOperation(p)
  PROVE  Inv'
<1> USE DEF Inv, StartOperation, tables, connectionVars, requestVars, operationVars
<1>1. TypeOK'
  BY AbsentAssumption DEF TypeOK, Principals, Underway, PostsInv, Single, MapsInv
<1>2. PostsInv'
  BY AbsentAssumption DEF TypeOK, Principals, Underway, PostsInv, Single, TokensInv, Holds,
      StreamsInv
<1>3. MapsInv'
  BY AbsentAssumption DEF TypeOK, Principals, Underway, MapsInv, Single, PostsInv,
      TokensInv, Holds
<1>4. OperationsReachable'
  BY AbsentAssumption DEF TypeOK, Principals, Underway, OperationsReachable, Running,
      Single, PostsInv, MapsInv
<1>5. TokensInv' /\ StreamsInv' /\ PrincipalsInv'
  BY DEF TokensInv, Holds, StreamsInv, PrincipalsInv, Single
<1> QED
  BY <1>1, <1>2, <1>3, <1>4, <1>5 DEF Inv

LEMMA YieldNextStep ==
  ASSUME Inv, NEW p \in Posts, YieldNext(p)
  PROVE  Inv'
<1> USE DEF Inv, YieldNext, tables, connectionVars, requestVars, operationVars
<1>1. TypeOK'
  BY AbsentAssumption DEF TypeOK, Principals, Underway
<1>2. PostsInv'
  BY AbsentAssumption DEF TypeOK, Principals, Underway, PostsInv, Single, TokensInv, Holds,
      StreamsInv
<1>3. MapsInv'
  BY AbsentAssumption DEF TypeOK, Principals, Underway, MapsInv, Single, PostsInv,
      TokensInv, Holds
<1>4. OperationsReachable'
  BY AbsentAssumption DEF TypeOK, Principals, Underway, OperationsReachable, Running,
      Single, PostsInv, MapsInv
<1>5. TokensInv' /\ StreamsInv' /\ PrincipalsInv'
  BY DEF TokensInv, Holds, StreamsInv, PrincipalsInv, Single
<1> QED
  BY <1>1, <1>2, <1>3, <1>4, <1>5 DEF Inv

LEMMA SendNextStep ==
  ASSUME Inv, NEW p \in Posts, SendNext(p)
  PROVE  Inv'
<1> USE DEF Inv, SendNext, tables, connectionVars, requestVars, operationVars
<1>1. TypeOK'
  BY AbsentAssumption DEF TypeOK, Principals, Underway
<1>2. PostsInv'
  BY AbsentAssumption DEF TypeOK, Principals, Underway, PostsInv, Single, TokensInv, Holds,
      StreamsInv
<1>3. MapsInv'
  BY AbsentAssumption DEF TypeOK, Principals, Underway, MapsInv, Single, PostsInv,
      TokensInv, Holds
<1>4. OperationsReachable'
  BY AbsentAssumption DEF TypeOK, Principals, Underway, OperationsReachable, Running,
      Single, PostsInv, MapsInv
<1>5. TokensInv' /\ StreamsInv' /\ PrincipalsInv'
  BY DEF TokensInv, Holds, StreamsInv, PrincipalsInv, Single
<1> QED
  BY <1>1, <1>2, <1>3, <1>4, <1>5 DEF Inv

LEMMA CompletesStep ==
  ASSUME Inv, NEW p \in Posts, Completes(p)
  PROVE  Inv'
<1> USE DEF Inv, Completes, BodyEnds, tables, connectionVars, requestVars, operationVars
<1>1. TypeOK'
  BY AbsentAssumption DEF TypeOK, Principals, Underway
<1>2. PostsInv'
  BY AbsentAssumption DEF TypeOK, Principals, Underway, PostsInv, Single, TokensInv, Holds,
      StreamsInv
<1>3. MapsInv'
  BY AbsentAssumption DEF TypeOK, Principals, Underway, MapsInv, Single, PostsInv,
      TokensInv, Holds
<1>4. OperationsReachable'
  BY AbsentAssumption DEF TypeOK, Principals, Underway, OperationsReachable, Running,
      Single, PostsInv, MapsInv
<1>5. TokensInv' /\ StreamsInv' /\ PrincipalsInv'
  BY DEF TokensInv, Holds, StreamsInv, PrincipalsInv, Single
<1> QED
  BY <1>1, <1>2, <1>3, <1>4, <1>5 DEF Inv

LEMMA FailsStep ==
  ASSUME Inv, NEW p \in Posts, Fails(p)
  PROVE  Inv'
<1> USE DEF Inv, Fails, BodyEnds, tables, connectionVars, requestVars, operationVars
<1>1. TypeOK'
  BY AbsentAssumption DEF TypeOK, Principals, Underway
<1>2. PostsInv'
  BY AbsentAssumption DEF TypeOK, Principals, Underway, PostsInv, Single, TokensInv, Holds,
      StreamsInv
<1>3. MapsInv'
  BY AbsentAssumption DEF TypeOK, Principals, Underway, MapsInv, Single, PostsInv,
      TokensInv, Holds
<1>4. OperationsReachable'
  BY AbsentAssumption DEF TypeOK, Principals, Underway, OperationsReachable, Running,
      Single, PostsInv, MapsInv
<1>5. TokensInv' /\ StreamsInv' /\ PrincipalsInv'
  BY DEF TokensInv, Holds, StreamsInv, PrincipalsInv, Single
<1> QED
  BY <1>1, <1>2, <1>3, <1>4, <1>5 DEF Inv

LEMMA FailsFatallyStep ==
  ASSUME Inv, NEW p \in Posts, FailsFatally(p)
  PROVE  Inv'
<1> USE DEF Inv, FailsFatally, BodyEnds, tables, connectionVars, requestVars, operationVars
<1>1. TypeOK'
  BY AbsentAssumption DEF TypeOK, Principals, Underway
<1>2. PostsInv'
  BY AbsentAssumption DEF TypeOK, Principals, Underway, PostsInv, Single, TokensInv, Holds,
      StreamsInv
<1>3. MapsInv'
  BY AbsentAssumption DEF TypeOK, Principals, Underway, MapsInv, Single, PostsInv,
      TokensInv, Holds
<1>4. OperationsReachable'
  BY AbsentAssumption DEF TypeOK, Principals, Underway, OperationsReachable, Running,
      Single, PostsInv, MapsInv
<1>5. TokensInv' /\ StreamsInv' /\ PrincipalsInv'
  BY DEF TokensInv, Holds, StreamsInv, PrincipalsInv, Single
<1> QED
  BY <1>1, <1>2, <1>3, <1>4, <1>5 DEF Inv

LEMMA SendCompleteStep ==
  ASSUME Inv, NEW p \in Posts, SendComplete(p)
  PROVE  Inv'
<1> USE DEF Inv, SendComplete, tables, connectionVars, requestVars, operationVars
<1>1. TypeOK'
  BY AbsentAssumption DEF TypeOK, Principals, Underway
<1>2. PostsInv'
  BY AbsentAssumption DEF TypeOK, Principals, Underway, PostsInv, Single, TokensInv, Holds,
      StreamsInv
<1>3. MapsInv'
  BY AbsentAssumption DEF TypeOK, Principals, Underway, MapsInv, Single, PostsInv,
      TokensInv, Holds
<1>4. OperationsReachable'
  BY AbsentAssumption DEF TypeOK, Principals, Underway, OperationsReachable, Running,
      Single, PostsInv, MapsInv
<1>5. TokensInv' /\ StreamsInv' /\ PrincipalsInv'
  BY DEF TokensInv, Holds, StreamsInv, PrincipalsInv, Single
<1> QED
  BY <1>1, <1>2, <1>3, <1>4, <1>5 DEF Inv

LEMMA EndOperationStep ==
  ASSUME Inv, NEW p \in Posts, EndOperation(p)
  PROVE  Inv'
<1> USE DEF Inv, EndOperation, tables, connectionVars, requestVars, operationVars
<1>1. TypeOK'
  <2>1. runningOperations' \in [Tokens -> [OperationIds -> Posts \cup {NoPost}] \cup {NoMap}]
    <3>1. CASE Single(p)
      <4>1. runningOperations[postToken[p]] \in [OperationIds -> Posts \cup {NoPost}]
        BY <3>1 DEF TypeOK, PostsInv, Single, MapsInv, Underway
      <4> QED
        BY <4>1 DEF TypeOK
    <3>2. CASE ~Single(p)
      <4>1. postToken[p] \notin Tokens
        BY <3>2, AbsentAssumption DEF Single
      <4> DEFINE end == [runningOperations[postToken[p]] EXCEPT ![postId[p]] = NoPost]
      <4>2. runningOperations' = [runningOperations EXCEPT ![postToken[p]] = end]
        OBVIOUS
      <4> HIDE DEF end
      <4> QED
        BY <4>1, <4>2 DEF TypeOK
    <3> QED
      BY <3>1, <3>2
  <2>2. scope' \in [Connections -> {"active", "cancelled"}]
    BY DEF TypeOK
  <2> QED
    BY <2>1, <2>2 DEF TypeOK, Underway
<1>2. PostsInv'
  BY AbsentAssumption DEF TypeOK, Principals, Underway, PostsInv, Single, TokensInv, Holds,
      StreamsInv
<1>3. MapsInv'
  BY AbsentAssumption DEF TypeOK, Principals, Underway, MapsInv, Single, PostsInv,
      TokensInv, Holds
<1>4. OperationsReachable'
  BY AbsentAssumption DEF TypeOK, Principals, Underway, OperationsReachable, Running,
      Single, PostsInv, MapsInv
<1>5. TokensInv' /\ StreamsInv' /\ PrincipalsInv'
  BY DEF TokensInv, Holds, StreamsInv, PrincipalsInv, Single
<1> QED
  BY <1>1, <1>2, <1>3, <1>4, <1>5 DEF Inv

LEMMA EndDistinctStep ==
  ASSUME Inv, NEW p \in Posts, EndDistinct(p)
  PROVE  Inv'
<1> USE DEF Inv, EndDistinct, tables, connectionVars, requestVars, operationVars
<1>1. TypeOK'
  BY AbsentAssumption DEF TypeOK, Principals, Underway
<1>2. TokensInv'
  BY AbsentAssumption DEF TypeOK, Principals, Underway, TokensInv, Holds
<1>3. StreamsInv'
  BY AbsentAssumption DEF TypeOK, Principals, Underway, StreamsInv, TokensInv, Holds
<1>4. PostsInv'
  BY AbsentAssumption DEF TypeOK, Principals, Underway, PostsInv, Single, TokensInv, Holds,
      StreamsInv
<1>5. MapsInv'
  BY AbsentAssumption DEF TypeOK, Principals, Underway, MapsInv, Single, PostsInv,
      TokensInv, Holds
<1>6. OperationsReachable'
  BY AbsentAssumption DEF TypeOK, Principals, Underway, OperationsReachable, Running,
      Single, PostsInv, MapsInv
<1>7. PrincipalsInv'
  BY DEF PrincipalsInv, Holds, Single
<1> QED
  BY <1>1, <1>2, <1>3, <1>4, <1>5, <1>6, <1>7 DEF Inv

-----------------------------------------------------------------------------
(* The invariant holds in the initial states.                              *)
LEMMA InitInv == Init => Inv
<1> SUFFICES ASSUME Init PROVE Inv
  OBVIOUS
<1> USE AbsentAssumption DEF Init
<1>1. TypeOK
  BY DEF TypeOK, Principals
<1>2. TokensInv /\ StreamsInv
  BY DEF TokensInv, Holds, StreamsInv
<1>3. PostsInv /\ MapsInv /\ OperationsReachable
  BY DEF PostsInv, MapsInv, OperationsReachable, Running, Single
<1>4. PrincipalsInv
  BY DEF PrincipalsInv, Holds, Single
<1> QED
  BY <1>1, <1>2, <1>3, <1>4 DEF Inv

(* It is preserved by what clients do ...                                  *)
LEMMA ClientStepInv == Inv /\ ClientStep => Inv'
  BY ReserveEventStreamStep, ClaimReservationStep, RefuseStreamStep, ClientDisconnectsStep,
     QuerySseStep, FindStreamStep, RejectPostStep, CancelOperationStep
  DEF ClientStep

(* ... and by every step.                                                  *)
LEMMA NextInv == Inv /\ [Next]_vars => Inv'
<1> SUFFICES ASSUME Inv, [Next]_vars PROVE Inv'
  OBVIOUS
<1>1. CASE ClientStep
  BY <1>1, ClientStepInv
<1>2. ASSUME NEW c \in Connections, ConnectionStep(c) PROVE Inv'
  BY <1>2, OpenStreamStep, RemoveStreamStep, RemoveOperationsStep, DetectDisconnectStep
  DEF ConnectionStep
<1>3. ASSUME NEW p \in Posts, PostStep(p) PROVE Inv'
  BY <1>3, EnsureMapStep, LaunchOperationStep DEF PostStep
<1>4. ASSUME NEW p \in Posts, OperationStep(p) PROVE Inv'
  BY <1>4, NeverRunStep, StartOperationStep, YieldNextStep, SendNextStep, CompletesStep,
     FailsStep, FailsFatallyStep, SendCompleteStep, EndOperationStep, EndDistinctStep
  DEF OperationStep
<1>5. CASE UNCHANGED vars
  <2> USE <1>5 DEF Inv, vars, tables, connectionVars, requestVars, operationVars
  <2>1. TypeOK' /\ TokensInv' /\ StreamsInv'
    BY DEF TypeOK, TokensInv, Holds, StreamsInv
  <2>2. PostsInv' /\ MapsInv' /\ OperationsReachable'
    BY DEF PostsInv, MapsInv, OperationsReachable, Running, Single
  <2>3. PrincipalsInv'
    BY DEF PrincipalsInv, Holds, Single
  <2> QED
    BY <2>1, <2>2, <2>3
<1>6. ASSUME NEW p \in Posts, CancelFound(p) PROVE Inv'
  BY <1>6, CancelOperationStep
<1> QED
  BY <1>1, <1>2, <1>3, <1>4, <1>5, <1>6 DEF Next

(* The inductive invariant of the endpoint: who holds each token, which    *)
(* stream is published, and where the operations of a stream may stand.    *)
THEOREM Invariance == Spec => []Inv
  BY InitInv, NextInv, PTL DEF Spec

(* Every state is well typed, for any number of clients and streams.       *)
THEOREM TypeCorrect == Spec => []TypeOK
<1>1. Inv => TypeOK
  BY DEF Inv
<1> QED
  BY <1>1, Invariance, PTL

(* Two requests that race for a reservation (reservedStreams.remove in     *)
(* eventStream) are never both served.                                     *)
THEOREM OneStream == Spec => []OneStreamPerToken
<1>1. Inv => OneStreamPerToken
  BY DEF Inv, TokensInv, Holds, OneStreamPerToken
<1> QED
  BY <1>1, Invariance, PTL

(* Structured concurrency: the finally block of eventStream unregisters a  *)
(* stream only after the last of its operations, although requests launch  *)
(* on a scope that they read before.                                       *)
THEOREM StreamOutlives == Spec => []OperationsHaveStream
<1>1. Inv => OperationsHaveStream
  BY DEF Inv, PostsInv, StreamsInv, OperationsHaveStream, Running, Single, Underway
<1> QED
  BY <1>1, Invariance, PTL

(* An operation that runs under an id of its own is found by DELETE.       *)
THEOREM Reachable == Spec => []OperationsReachable
<1>1. Inv => OperationsReachable
  BY DEF Inv
<1> QED
  BY <1>1, Invariance, PTL

(* Where authorization is checked, no operation of a stream runs without   *)
(* a principal, whatever the POST that started it carried.                 *)
THEOREM Authorization == Spec => []OperationsAuthorized
<1>1. Inv => OperationsAuthorized
  BY DEF Inv, PrincipalsInv, OperationsAuthorized, Running, Single
<1> QED
  BY <1>1, Invariance, PTL

-----------------------------------------------------------------------------
(* What the steps of the endpoint look like to StreamLifecycle.            *)

(* An operation of a stream of its own has it for itself.                  *)
ServedInv ==
  \A p \in Posts :
    Running(p) /\ ~Single(p) =>
      /\ postConn[p] \in Connections /\ connection[postConn[p]] = "distinct"
      /\ \A q \in Posts : Running(q) /\ postConn[q] = postConn[p] => q = p

(* A request has no operationId before it has found a stream.              *)
UnnamedInv == \A p \in Posts : post[p] = "new" => postId[p] = NoId

(* A result is late once at most: the yield() that comes before the next   *)
(* one throws.                                                             *)
LateInv ==
  \A p \in Posts :
    late[p] # 0 =>
      /\ late[p] = 1 /\ Started(p) /\ post[p] # "sending"
      /\ postConn[p] \in Connections /\ Cancelled(p)

RInv == Inv /\ ServedInv /\ UnnamedInv /\ EntriesRun /\ LateInv

(* Where the operations that are underway belong.                          *)
LEMMA UnderwayLemma ==
  ASSUME RInv, NEW p \in Posts, post[p] \in Underway
  PROVE  /\ postConn[p] \in Connections
         /\ Single(p) => connection[postConn[p]] = "open"
         /\ ~Single(p) => connection[postConn[p]] = "distinct" /\ Running(p)
BY DEF RInv, Inv, PostsInv, ServedInv, Running, Underway

(* An entry that is no operation leads nowhere.                            *)
LEMMA RegisteredLemma ==
  ASSUME TypeOK, NEW t \in Tokens, NEW id \in OperationIds
  PROVE  /\ lifecycleLeads[t][id] \in Posts \cup {NoPost}
         /\ Registered(t, id) = {lifecycleLeads[t][id]} \ {NoPost}
BY AbsentAssumption DEF TypeOK, Registered, lifecycleLeads, EmptyMap

LEMMA ServedInvStep ==
  ASSUME RInv, [Next]_vars
  PROVE  ServedInv'
<1> USE AbsentAssumption
    DEF RInv, Inv, tables, connectionVars, requestVars, operationVars
<1>0. /\ post \in [Posts -> Underway \cup {"new", "found", "mapped", "rejected", "lost", "done"}]
      /\ postToken \in [Posts -> Tokens \cup {NoToken}]
      /\ postConn \in [Posts -> Connections \cup {NoConnection}]
      /\ connection \in
           [Connections -> {"new", "claimed", "open", "removing", "done", "distinct"}]
  BY DEF TypeOK
<1>1. ASSUME NEW c \in Connections, connection[c] # "distinct",
             \A d \in Connections : d # c => connection'[d] = connection[d],
             UNCHANGED <<post, postToken, postConn>>
      PROVE  ServedInv'
  BY <1>1 DEF ServedInv, Running, Single
<1>2. ASSUME NEW p \in Posts, NEW s, post' = [post EXCEPT ![p] = s],
             s \in {"running", "sending", "completing", "unregistering"} => Running(p),
             UNCHANGED <<postToken, postConn, connection>>
      PROVE  ServedInv'
  BY <1>0, <1>2 DEF ServedInv, Running, Single
<1>3. ASSUME UNCHANGED <<connection, post, postToken, postConn>> PROVE ServedInv'
  BY <1>3 DEF ServedInv, Running, Single
<1>4. ASSUME NEW t \in Tokens, NEW principal \in Principals, reserveEventStream(t, principal)
      PROVE  ServedInv'
  BY <1>3, <1>4 DEF reserveEventStream
<1>5. ASSUME NEW c \in Connections, NEW t \in Tokens, ClaimReservation(c, t) PROVE ServedInv'
  BY <1>0, <1>1, <1>5 DEF ClaimReservation
<1>6. ASSUME NEW c \in Connections, RefuseStream(c) \/ ConnectionStep(c) PROVE ServedInv'
  <2>1. CASE RefuseStream(c) \/ OpenStream(c) \/ RemoveStream(c) \/ RemoveOperations(c)
    BY <1>0, <1>1, <2>1 DEF RefuseStream, OpenStream, RemoveStream, RemoveOperations
  <2>2. CASE DetectDisconnect(c)
    BY <1>3, <2>2 DEF DetectDisconnect
  <2>3. QED
    BY <1>6, <2>1, <2>2 DEF ConnectionStep
<1>7. ASSUME NEW c \in Connections, ClientDisconnects(c) PROVE ServedInv'
  BY <1>3, <1>7 DEF ClientDisconnects
<1>8. ASSUME NEW c \in Connections, NEW p \in Posts, NEW principal \in Principals,
             querySse(c, p, principal)
      PROVE  ServedInv'
  <2>1. \A q \in Posts : Running(q) => postConn[q] # c
    BY <1>0, <1>8 DEF querySse, PostsInv, ServedInv, Running, Underway
  <2>2. QED
    BY <1>0, <1>8, <2>1 DEF querySse, ServedInv, Running, Single
<1>9. ASSUME NEW p \in Posts, NEW t \in Tokens, NEW principal \in Principals,
             RejectPost(p, t, principal)
      PROVE  ServedInv'
  BY <1>2, <1>9 DEF RejectPost
<1>10. ASSUME NEW p \in Posts, NEW t \in Tokens, NEW principal \in Principals,
              NEW id \in OperationIds, FindStream(p, t, id, principal)
       PROVE  ServedInv'
  BY <1>0, <1>10 DEF FindStream, Find, ServedInv, Running, Single
<1>11. ASSUME NEW t \in Tokens, NEW id \in OperationIds, cancelOperation(t, id)
       PROVE  ServedInv'
  BY <1>3, <1>11 DEF cancelOperation
<1>12. ASSUME NEW p \in Posts, PostStep(p) PROVE ServedInv'
  BY <1>2, <1>12 DEF PostStep, EnsureMap, LaunchOperation
<1>13. ASSUME NEW p \in Posts, OperationStep(p) PROVE ServedInv'
  <2>1. CASE StartOperation(p)
    <3>1. Single(p) /\ connection[postConn[p]] = "open" /\ postConn[p] \in Connections
      BY <1>0, <2>1 DEF StartOperation, PostsInv, Underway
    <3>2. QED
      BY <1>0, <2>1, <3>1 DEF StartOperation, ServedInv, Running, Single
  <2>2. CASE NeverRun(p) \/ EndOperation(p)
    BY <1>2, <2>2 DEF NeverRun, EndOperation
  <2>3. CASE YieldNext(p) \/ SendNext(p)
    BY <1>2, <2>3 DEF YieldNext, SendNext, Running
  <2>4. CASE Completes(p) \/ Fails(p) \/ FailsFatally(p) \/ SendComplete(p)
    BY <1>2, <2>4 DEF Completes, Fails, FailsFatally, SendComplete, BodyEnds, Running
  <2>5. CASE EndDistinct(p)
    <3>1. Running(p) /\ ~Single(p)
      BY <1>0, <2>5 DEF EndDistinct, Running, PostsInv
    <3>2. \A q \in Posts \ {p} : Running(q) => postConn[q] # postConn[p]
      BY <3>1 DEF ServedInv
    <3>3. QED
      BY <1>0, <2>5, <3>2 DEF EndDistinct, ServedInv, Running, Single
  <2>6. QED
    BY <1>13, <2>1, <2>2, <2>3, <2>4, <2>5 DEF OperationStep
<1>14. CASE UNCHANGED vars
  BY <1>3, <1>14 DEF vars
<1>15. ASSUME NEW p \in Posts, CancelFound(p) PROVE ServedInv'
  BY <1>3, <1>15 DEF CancelFound
<1>16. QED
  BY <1>4, <1>5, <1>6, <1>7, <1>8, <1>9, <1>10, <1>11, <1>12, <1>13, <1>14, <1>15 DEF Next, ClientStep

LEMMA EntriesRunStep ==
  ASSUME RInv, [Next]_vars
  PROVE  EntriesRun'
<1> USE AbsentAssumption
    DEF RInv, Inv, tables, connectionVars, requestVars, operationVars
<1>0. /\ post \in [Posts -> Underway \cup {"new", "found", "mapped", "rejected", "lost", "done"}]
      /\ postToken \in [Posts -> Tokens \cup {NoToken}]
      /\ postId \in [Posts -> OperationIds \cup {NoId}]
      /\ postConn \in [Posts -> Connections \cup {NoConnection}]
      /\ runningOperations \in [Tokens -> [OperationIds -> Posts \cup {NoPost}] \cup {NoMap}]
  BY DEF TypeOK
<1>1. ASSUME UNCHANGED <<runningOperations, post, postToken, postId>> PROVE EntriesRun'
  BY <1>1 DEF EntriesRun, Registered, Running
<1>2. ASSUME NEW p \in Posts, NEW s, post' = [post EXCEPT ![p] = s],
             Running(p) => s \in {"running", "sending", "completing", "unregistering"},
             UNCHANGED <<runningOperations, postToken, postId>>
      PROVE  EntriesRun'
  BY <1>0, <1>2 DEF EntriesRun, Registered, Running
<1>3. ASSUME NEW p \in Posts, post[p] = "new",
             \A q \in Posts : q # p => /\ post'[q] = post[q]
                                       /\ postToken'[q] = postToken[q] /\ postId'[q] = postId[q],
             UNCHANGED runningOperations
      PROVE  EntriesRun'
  BY <1>0, <1>3 DEF EntriesRun, Registered, Running
<1>4. ASSUME NEW t \in Tokens, NEW principal \in Principals, reserveEventStream(t, principal)
      PROVE  EntriesRun'
  BY <1>1, <1>4 DEF reserveEventStream
<1>5. ASSUME NEW c \in Connections, NEW t \in Tokens, ClaimReservation(c, t) PROVE EntriesRun'
  BY <1>1, <1>5 DEF ClaimReservation
<1>6. ASSUME NEW c \in Connections, ConnectionStep(c) PROVE EntriesRun'
  <2>1. CASE RemoveOperations(c)
    <3>1. connToken[c] \in Tokens
      BY <2>1 DEF RemoveOperations, TokensInv, Holds, TypeOK
    <3>2. \A t \in Tokens : runningOperations'[t] \in {runningOperations[t], NoMap}
      BY <1>0, <2>1, <3>1 DEF RemoveOperations
    <3>3. UNCHANGED <<post, postToken, postId>>
      BY <2>1 DEF RemoveOperations
    <3>4. QED
      BY <3>2, <3>3 DEF EntriesRun, Registered, Running
  <2>2. CASE OpenStream(c) \/ RemoveStream(c) \/ DetectDisconnect(c)
    BY <1>1, <2>2 DEF OpenStream, RemoveStream, DetectDisconnect
  <2>3. QED
    BY <1>6, <2>1, <2>2 DEF ConnectionStep
<1>7. ASSUME NEW c \in Connections, RefuseStream(c) \/ ClientDisconnects(c) PROVE EntriesRun'
  BY <1>1, <1>7 DEF RefuseStream, ClientDisconnects
<1>8. ASSUME NEW c \in Connections, NEW p \in Posts, NEW principal \in Principals,
             querySse(c, p, principal)
      PROVE  EntriesRun'
  BY <1>0, <1>3, <1>8 DEF querySse
<1>9. ASSUME NEW p \in Posts, NEW t \in Tokens, NEW principal \in Principals,
             RejectPost(p, t, principal)
      PROVE  EntriesRun'
  BY <1>0, <1>3, <1>9 DEF RejectPost
<1>10. ASSUME NEW p \in Posts, NEW t \in Tokens, NEW principal \in Principals,
              NEW id \in OperationIds, FindStream(p, t, id, principal)
       PROVE  EntriesRun'
  BY <1>0, <1>3, <1>10 DEF FindStream, Find
<1>11. ASSUME NEW t \in Tokens, NEW id \in OperationIds, cancelOperation(t, id)
       PROVE  EntriesRun'
  BY <1>1, <1>11 DEF cancelOperation
<1>12. ASSUME NEW p \in Posts, PostStep(p) PROVE EntriesRun'
  <2>1. CASE EnsureMap(p)
    <3>1. postToken[p] \in Tokens
      BY <1>0, <2>1 DEF EnsureMap, PostsInv, Single
    <3>2. \A t \in Tokens : \/ runningOperations'[t] = runningOperations[t]
                            \/ runningOperations'[t] = EmptyMap
      BY <1>0, <2>1, <3>1 DEF EnsureMap
    <3>3. EmptyMap # NoMap
      BY DEF EmptyMap
    <3>4. \A t \in Tokens, id \in OperationIds : Registered(t, id)' \subseteq Registered(t, id)
      BY <3>2, <3>3 DEF Registered, EmptyMap
    <3>5. \A q \in Posts : Running(q) => Running(q)'
      BY <1>0, <2>1 DEF EnsureMap, Running
    <3>6. UNCHANGED <<postToken, postId>>
      BY <2>1 DEF EnsureMap
    <3>7. QED
      BY <1>0, <3>4, <3>5, <3>6 DEF EntriesRun, Registered
  <2>2. CASE LaunchOperation(p)
    BY <1>2, <2>2 DEF LaunchOperation, Running
  <2>3. QED
    BY <1>12, <2>1, <2>2 DEF PostStep
<1>13. ASSUME NEW p \in Posts, OperationStep(p) PROVE EntriesRun'
  <2>1. CASE StartOperation(p)
    <3>1. /\ postToken[p] \in Tokens /\ postId[p] \in OperationIds
          /\ runningOperations[postToken[p]] # NoMap
      BY <1>0, <2>1 DEF StartOperation, PostsInv, MapsInv, Single, Underway
    <3>2. \A t \in Tokens, id \in OperationIds :
            Registered(t, id)' =
              IF t = postToken[p] /\ id = postId[p] THEN {p} ELSE Registered(t, id)
      <4> DEFINE map == [runningOperations[postToken[p]] EXCEPT ![postId[p]] = p]
      <4>1. map \in [OperationIds -> Posts \cup {NoPost}] /\ map # NoMap
        BY <1>0, <3>1
      <4>2. \A id \in OperationIds :
              map[id] = IF id = postId[p] THEN p ELSE runningOperations[postToken[p]][id]
        BY <1>0, <3>1
      <4>3. runningOperations' = [runningOperations EXCEPT ![postToken[p]] = map]
        BY <2>1 DEF StartOperation
      <4> HIDE DEF map
      <4>4. \A t \in Tokens :
              runningOperations'[t] = IF t = postToken[p] THEN map ELSE runningOperations[t]
        BY <1>0, <4>3
      <4>5. QED
        BY <3>1, <4>1, <4>2, <4>4 DEF Registered
    <3>3. \A q \in Posts : Running(q)' <=> Running(q) \/ q = p
      BY <1>0, <2>1 DEF StartOperation, Running
    <3>4. UNCHANGED <<postToken, postId>>
      BY <2>1 DEF StartOperation
    <3>5. \A t \in Tokens, id \in OperationIds : \A q \in Registered(t, id) : q \in Posts
      BY <1>0 DEF Registered
    <3>6. QED
      BY <3>1, <3>2, <3>3, <3>4, <3>5 DEF EntriesRun
  <2>2. CASE NeverRun(p) \/ Completes(p) \/ Fails(p) \/ FailsFatally(p) \/ SendComplete(p)
    BY <1>2, <2>2 DEF NeverRun, Completes, Fails, FailsFatally, SendComplete, BodyEnds, Running
  <2>3. CASE YieldNext(p) \/ SendNext(p)
    BY <1>2, <2>3 DEF YieldNext, SendNext, Running
  <2>4. CASE EndOperation(p)
    <3>0. Running(p) /\ post'[p] = "done" /\ \A q \in Posts : q # p => post'[q] = post[q]
      BY <1>0, <2>4 DEF EndOperation, Running
    <3>1. Single(p)
      BY <2>4, <3>0 DEF EndOperation, ServedInv
    <3>2. /\ postToken[p] \in Tokens /\ postId[p] \in OperationIds
          /\ runningOperations[postToken[p]] # NoMap
      BY <1>0, <2>4, <3>1 DEF EndOperation, PostsInv, MapsInv, Single, Underway
    <3>3. \A t \in Tokens, id \in OperationIds :
            Registered(t, id)' =
              IF t = postToken[p] /\ id = postId[p] THEN {} ELSE Registered(t, id)
      <4> DEFINE map == [runningOperations[postToken[p]] EXCEPT ![postId[p]] = NoPost]
      <4>1. map \in [OperationIds -> Posts \cup {NoPost}] /\ map # NoMap
        BY <1>0, <3>2
      <4>2. \A id \in OperationIds :
              map[id] = IF id = postId[p] THEN NoPost ELSE runningOperations[postToken[p]][id]
        BY <1>0, <3>2
      <4>3. runningOperations' = [runningOperations EXCEPT ![postToken[p]] = map]
        BY <2>4 DEF EndOperation
      <4> HIDE DEF map
      <4>4. \A t \in Tokens :
              runningOperations'[t] = IF t = postToken[p] THEN map ELSE runningOperations[t]
        BY <1>0, <4>3
      <4>5. QED
        BY <3>2, <4>1, <4>2, <4>4 DEF Registered
    <3>4. UNCHANGED <<postToken, postId>>
      BY <2>4 DEF EndOperation
    <3>5. \A t \in Tokens, id \in OperationIds : \A q \in Registered(t, id) : q \in Posts
      BY <1>0 DEF Registered
    <3>6. \A q \in Posts \ {p} : Running(q) => Running(q)'
      BY <3>0 DEF Running
    <3>7. QED
      BY <3>3, <3>4, <3>5, <3>6 DEF EntriesRun
  <2>5. CASE EndDistinct(p)
    <3>1. Running(p) /\ ~Single(p)
      BY <1>0, <2>5 DEF EndDistinct, Running, PostsInv
    <3>2. \A q \in Posts : q # p => post'[q] = post[q]
      BY <1>0, <2>5 DEF EndDistinct
    <3>3. \A t \in Tokens, id \in OperationIds : \A q \in Registered(t, id) : q \in Posts \ {p}
      BY <1>0, <3>1 DEF Registered, EntriesRun, Single
    <3>4. UNCHANGED <<runningOperations, postToken, postId>>
      BY <2>5 DEF EndDistinct
    <3>5. QED
      BY <3>2, <3>3, <3>4 DEF EntriesRun, Registered, Running
  <2>6. QED
    BY <1>13, <2>1, <2>2, <2>3, <2>4, <2>5 DEF OperationStep
<1>14. CASE UNCHANGED vars
  BY <1>1, <1>14 DEF vars
<1>15. ASSUME NEW p \in Posts, CancelFound(p) PROVE EntriesRun'
  BY <1>1, <1>15 DEF CancelFound
<1>16. QED
  BY <1>4, <1>5, <1>6, <1>7, <1>8, <1>9, <1>10, <1>11, <1>12, <1>13, <1>14, <1>15 DEF Next, ClientStep

LEMMA UnnamedInvStep ==
  ASSUME RInv, [Next]_vars
  PROVE  UnnamedInv'
<1> USE DEF UnnamedInv, RInv, Inv, tables, connectionVars, requestVars, operationVars
<1>0. /\ post \in [Posts -> Underway \cup {"new", "found", "mapped", "rejected", "lost", "done"}]
      /\ postId \in [Posts -> OperationIds \cup {NoId}]
  BY DEF TypeOK
<1>1. ASSUME UNCHANGED <<post, postId>> PROVE UnnamedInv'
  BY <1>1
<1>2. ASSUME NEW p \in Posts, post'[p] # "new",
             \A q \in Posts : q # p => post'[q] = post[q] /\ postId'[q] = postId[q]
      PROVE  UnnamedInv'
  BY <1>2
<1>3. ASSUME NEW c \in Connections, NEW p \in Posts, NEW principal \in Principals,
             querySse(c, p, principal)
      PROVE  UnnamedInv'
  BY <1>0, <1>2, <1>3 DEF querySse
<1>4. ASSUME NEW p \in Posts, NEW t \in Tokens, NEW principal \in Principals,
             RejectPost(p, t, principal) \/ \E id \in OperationIds : FindStream(p, t, id, principal)
      PROVE  UnnamedInv'
  BY <1>0, <1>2, <1>4 DEF RejectPost, FindStream, Find
<1>5. ASSUME NEW p \in Posts, PostStep(p) PROVE UnnamedInv'
  BY <1>0, <1>2, <1>5 DEF PostStep, EnsureMap, LaunchOperation
<1>6. ASSUME NEW p \in Posts, OperationStep(p) PROVE UnnamedInv'
  <2>1. CASE YieldNext(p) \/ SendNext(p)
    BY <1>0, <1>2, <2>1 DEF YieldNext, SendNext
  <2>2. CASE NeverRun(p) \/ StartOperation(p) \/ EndOperation(p) \/ EndDistinct(p)
    BY <1>0, <1>2, <2>2 DEF NeverRun, StartOperation, EndOperation, EndDistinct
  <2>3. CASE Completes(p) \/ Fails(p) \/ FailsFatally(p) \/ SendComplete(p)
    BY <1>0, <1>2, <2>3 DEF Completes, Fails, FailsFatally, SendComplete, BodyEnds
  <2>4. QED
    BY <1>6, <2>1, <2>2, <2>3 DEF OperationStep
<1>7. ASSUME NEW c \in Connections,
             ConnectionStep(c) \/ RefuseStream(c) \/ ClientDisconnects(c)
      PROVE  UnnamedInv'
  BY <1>1, <1>7 DEF ConnectionStep, OpenStream, RemoveStream, RemoveOperations, DetectDisconnect,
                    RefuseStream, ClientDisconnects
<1>8. ASSUME NEW t \in Tokens,
             \/ \E principal \in Principals : reserveEventStream(t, principal)
             \/ \E c \in Connections : ClaimReservation(c, t)
             \/ \E id \in OperationIds : cancelOperation(t, id)
      PROVE  UnnamedInv'
  BY <1>1, <1>8 DEF reserveEventStream, ClaimReservation, cancelOperation
<1>9. CASE UNCHANGED vars
  BY <1>1, <1>9 DEF vars
<1>10. ASSUME NEW p \in Posts, CancelFound(p) PROVE UnnamedInv'
  BY <1>1, <1>10 DEF CancelFound
<1>11. QED
  BY <1>3, <1>4, <1>5, <1>6, <1>7, <1>8, <1>9, <1>10 DEF Next, ClientStep

LEMMA LateInvStep ==
  ASSUME RInv, [Next]_vars
  PROVE  LateInv'
<1> USE AbsentAssumption
    DEF RInv, Inv, tables, connectionVars, requestVars, operationVars
<1>0. /\ post \in [Posts -> Underway \cup {"new", "found", "mapped", "rejected", "lost", "done"}]
      /\ postConn \in [Posts -> Connections \cup {NoConnection}]
      /\ scope \in [Connections -> {"active", "cancelled"}]
      /\ late \in [Posts -> Nat]
  BY DEF TypeOK
<1> DEFINE Stays == /\ cancelled \subseteq cancelled'
                    /\ \A c \in Connections : scope[c] = "cancelled" => scope'[c] = "cancelled"
<1>1. ASSUME UNCHANGED <<post, postConn, late>>, Stays PROVE LateInv'
  BY <1>1 DEF LateInv, Started, Running, Cancelled
<1>2. ASSUME NEW p \in Posts, NEW s, post' = [post EXCEPT ![p] = s],
             Started(p) => /\ s \in {"running", "completing", "unregistering", "done"}
                           /\ postConn'[p] = postConn[p],
             \A q \in Posts : q # p => postConn'[q] = postConn[q],
             UNCHANGED late, Stays
      PROVE  LateInv'
  BY <1>0, <1>2 DEF LateInv, Started, Running, Cancelled
<1>3. ASSUME NEW t \in Tokens,
             \/ \E principal \in Principals : reserveEventStream(t, principal)
             \/ \E c \in Connections : ClaimReservation(c, t)
             \/ \E id \in OperationIds : cancelOperation(t, id)
      PROVE  LateInv'
  BY <1>1, <1>3 DEF reserveEventStream, ClaimReservation, cancelOperation
<1>4. ASSUME NEW c \in Connections,
             ConnectionStep(c) \/ RefuseStream(c) \/ ClientDisconnects(c)
      PROVE  LateInv'
  <2>1. /\ UNCHANGED <<post, postConn, late, cancelled>>
        /\ UNCHANGED scope \/ scope' = [scope EXCEPT ![c] = "cancelled"]
    BY <1>4 DEF ConnectionStep, OpenStream, RemoveStream, RemoveOperations, DetectDisconnect,
                RefuseStream, ClientDisconnects
  <2>2. Stays
    BY <1>0, <2>1
  <2>3. QED
    BY <1>1, <2>1, <2>2
<1>5. ASSUME NEW c \in Connections, NEW p \in Posts, NEW principal \in Principals,
             querySse(c, p, principal)
      PROVE  LateInv'
  BY <1>0, <1>2, <1>5 DEF querySse, Started, Running
<1>6. ASSUME NEW p \in Posts, NEW t \in Tokens, NEW principal \in Principals,
             RejectPost(p, t, principal) \/ \E id \in OperationIds : FindStream(p, t, id, principal)
      PROVE  LateInv'
  <2>1. /\ ~Started(p)
        /\ post' = [post EXCEPT ![p] = "rejected"] \/ post' = [post EXCEPT ![p] = "found"]
        /\ \A q \in Posts : q # p => postConn'[q] = postConn[q]
        /\ UNCHANGED <<late, cancelled, scope>>
    BY <1>0, <1>6 DEF RejectPost, FindStream, Find, Started, Running
  <2>2. QED
    BY <1>2, <2>1
<1>7. ASSUME NEW p \in Posts, PostStep(p) PROVE LateInv'
  BY <1>2, <1>7 DEF PostStep, EnsureMap, LaunchOperation, Started, Running
<1>8. ASSUME NEW p \in Posts, OperationStep(p) PROVE LateInv'
  <2>1. CASE NeverRun(p) \/ StartOperation(p)
    BY <1>2, <2>1 DEF NeverRun, StartOperation, Started, Running
  <2>2. CASE YieldNext(p)
    BY <1>0, <2>2 DEF YieldNext, LateInv, Started, Running, Cancelled
  <2>3. CASE SendNext(p)
    <3>1. /\ post[p] = "sending" /\ late[p] = 0 /\ postConn[p] \in Connections
          /\ post' = [post EXCEPT ![p] = "running"]
          /\ late' = [late EXCEPT ![p] = IF Cancelled(p) THEN late[p] + 1 ELSE late[p]]
          /\ UNCHANGED <<postConn, scope, cancelled>>
      BY <2>3, UnderwayLemma DEF SendNext, LateInv, Underway
    <3>2. QED
      BY <1>0, <3>1 DEF LateInv, Started, Running, Cancelled
  <2>4. CASE Completes(p) \/ Fails(p) \/ FailsFatally(p) \/ SendComplete(p)
    BY <1>2, <2>4 DEF Completes, Fails, FailsFatally, SendComplete, BodyEnds
  <2>5. CASE EndOperation(p) \/ EndDistinct(p)
    <3>1. /\ post' = [post EXCEPT ![p] = "done"]
          /\ UNCHANGED <<postConn, late, cancelled>>
          /\ \A c \in Connections : scope[c] = "cancelled" => scope'[c] = "cancelled"
      BY <1>0, <2>5 DEF EndOperation, EndDistinct
    <3>2. QED
      BY <1>2, <3>1
  <2>6. QED
    BY <1>8, <2>1, <2>2, <2>3, <2>4, <2>5 DEF OperationStep
<1>9. ASSUME NEW p \in Posts, CancelFound(p) PROVE LateInv'
  BY <1>1, <1>9 DEF CancelFound
<1>10. CASE UNCHANGED vars
  BY <1>1, <1>10 DEF vars
<1>11. QED
  BY <1>3, <1>4, <1>5, <1>6, <1>7, <1>8, <1>9, <1>10 DEF Next, ClientStep

LEMMA RInvInductive == (Init => RInv) /\ (RInv /\ [Next]_vars => RInv')
<1>1. Init => ServedInv /\ UnnamedInv /\ EntriesRun /\ LateInv
  BY DEF Init, ServedInv, UnnamedInv, EntriesRun, LateInv, Registered, Running
<1>2. QED
  BY <1>1, InitInv, NextInv, ServedInvStep, UnnamedInvStep, EntriesRunStep, LateInvStep DEF RInv

(* The inductive invariant of the refinement: an operation of a stream of  *)
(* its own has it for itself, every entry of runningOperations leads to an *)
(* operation that runs, and an operation that has sent its late result is  *)
(* cancelled and not about to send another.                                *)
THEOREM RInvariance == Spec => []RInv
  BY RInvInductive, PTL DEF Spec

(* A DELETE finds what runs and nothing that has ended (queryMap.remove in *)
(* the finally block of the operation, runningOperations.remove in that of *)
(* the stream, and the requests that write the same maps meanwhile).       *)
THEOREM Entries == Spec => []EntriesRun
<1>1. RInv => EntriesRun
  BY DEF RInv
<1> QED
  BY <1>1, RInvariance, PTL

(* However an operation is cancelled, and wherever runQuery stands, one    *)
(* result at most is sent after it.                                        *)
OneLateResult == \A p \in Posts : late[p] <= 1

(* The yield() of runQuery stops a cancelled operation before its second   *)
(* late result.                                                            *)
THEOREM OneLate == Spec => []OneLateResult
<1>1. RInv => OneLateResult
  BY DEF RInv, Inv, TypeOK, LateInv, OneLateResult
<1> QED
  BY <1>1, RInvariance, PTL

-----------------------------------------------------------------------------
(* The endpoint implements StreamLifecycle, step by step.                  *)

(* What StreamLifecycle sees of the endpoint.                              *)
LEMMA Seen ==
  ASSUME TypeOK
  PROVE  /\ lifecycleReserved \subseteq Tokens /\ lifecycleInterrupted \subseteq Connections
         /\ connToken \in [Connections -> Tokens \cup {NoToken}]
         /\ lifecycleStream \in [Connections -> {"new", "open", "closed"}]
         /\ lifecycleOperation \in [Posts -> {"new", "running", "over"}]
         /\ lifecycleStreamOf \in [Posts -> Connections \cup {NoConnection}]
         /\ lifecycleIdOf \in [Posts -> OperationIds \cup {NoId}]
         /\ lifecycleLeads \in [Tokens -> [OperationIds -> Posts \cup {NoPost}]]
BY DEF TypeOK, lifecycleReserved, lifecycleInterrupted, lifecycleStream, lifecycleOperation,
       lifecycleStreamOf, lifecycleIdOf, lifecycleLeads, EmptyMap

(* A step of a connection, as far as its stream is concerned.              *)
LEMMA StreamLemma ==
  ASSUME TypeOK, NEW c \in Connections, NEW s, connection' = [connection EXCEPT ![c] = s]
  PROVE  /\ s \in {"claimed", "open", "distinct"}
              => lifecycleStream' = [lifecycleStream EXCEPT ![c] = "open"]
         /\ s \in {"removing", "done"}
              => lifecycleStream' = [lifecycleStream EXCEPT ![c] = "closed"]
BY DEF TypeOK, lifecycleStream, StreamOpen

(* A step of a request before its operation starts is not seen.            *)
LEMMA BeforeStartLemma ==
  ASSUME TypeOK, NEW p \in Posts, ~Started(p), ~Started(p)',
         \A q \in Posts : q # p => /\ post'[q] = post[q]
                                   /\ postConn'[q] = postConn[q] /\ postId'[q] = postId[q]
  PROVE  UNCHANGED <<lifecycleOperation, lifecycleStreamOf, lifecycleIdOf>>
BY DEF lifecycleOperation, lifecycleStreamOf, lifecycleIdOf, Started, Running

(* A running operation goes from one step of runQuery to the next.         *)
LEMMA GoesOnLemma ==
  ASSUME TypeOK, NEW p \in Posts, Running(p),
         NEW s \in {"running", "sending", "completing", "unregistering"},
         post' = [post EXCEPT ![p] = s], UNCHANGED <<postConn, postId>>
  PROVE  UNCHANGED <<lifecycleOperation, lifecycleStreamOf, lifecycleIdOf>>
BY DEF TypeOK, lifecycleOperation, lifecycleStreamOf, lifecycleIdOf, Started, Running

(* The end of an operation.                                                *)
LEMMA OverLemma ==
  ASSUME TypeOK, NEW p \in Posts, Running(p), post' = [post EXCEPT ![p] = "done"],
         UNCHANGED <<postConn, postId>>
  PROVE  /\ lifecycleOperation' = [lifecycleOperation EXCEPT ![p] = "over"]
         /\ UNCHANGED <<lifecycleStreamOf, lifecycleIdOf>>
BY DEF TypeOK, lifecycleOperation, lifecycleStreamOf, lifecycleIdOf, Started, Running

LEMMA SimulationInit == Init => Lifecycle!Init
<1> SUFFICES ASSUME Init PROVE Lifecycle!Init
  OBVIOUS
<1>1. lifecycleReserved = {} /\ lifecycleInterrupted = {}
  BY DEF Init, lifecycleReserved, lifecycleInterrupted
<1>2. lifecycleStream = [c \in Connections |-> "new"]
  BY DEF Init, lifecycleStream
<1>3. \A p \in Posts : ~Started(p) /\ ~Running(p)
  BY DEF Init, Started, Running
<1>4. /\ lifecycleOperation = [p \in Posts |-> "new"]
      /\ lifecycleStreamOf = [p \in Posts |-> NoConnection]
      /\ lifecycleIdOf = [p \in Posts |-> NoId]
  BY <1>3 DEF lifecycleOperation, lifecycleStreamOf, lifecycleIdOf
<1>5. lifecycleLeads = [t \in Tokens |-> Lifecycle!Nothing]
  BY DEF Init, lifecycleLeads, EmptyMap, Lifecycle!Nothing
<1>6. QED
  BY <1>1, <1>2, <1>4, <1>5 DEF Init, Lifecycle!Init

LEMMA StreamSimulation ==
  ASSUME RInv, NEW c \in Connections,
         \/ \E t \in Tokens : ClaimReservation(c, t)
         \/ RefuseStream(c) \/ ClientDisconnects(c) \/ ConnectionStep(c)
  PROVE  [Lifecycle!Next]_(Lifecycle!vars)
<1> USE AbsentAssumption
    DEF RInv, Inv, tables, connectionVars, requestVars, operationVars, Lifecycle!streamVars,
        Lifecycle!operationVars, Lifecycle!orders, Lifecycle!vars
<1>1. /\ connection \in
           [Connections -> {"new", "claimed", "open", "removing", "done", "distinct"}]
      /\ scope \in [Connections -> {"active", "cancelled"}]
  BY DEF TypeOK
<1>2. /\ UNCHANGED <<post, postConn, postId>>
           => UNCHANGED <<lifecycleOperation, lifecycleStreamOf, lifecycleIdOf>>
      /\ UNCHANGED reservedStreams => UNCHANGED lifecycleReserved
      /\ UNCHANGED scope => UNCHANGED lifecycleInterrupted
      /\ UNCHANGED connection => UNCHANGED lifecycleStream
      /\ UNCHANGED runningOperations => UNCHANGED lifecycleLeads
  BY DEF lifecycleOperation, lifecycleStreamOf, lifecycleIdOf, Started, Running,
         lifecycleReserved, lifecycleInterrupted, lifecycleStream, StreamOpen, lifecycleLeads
<1>3. lifecycleStream[c] = IF connection[c] = "new" THEN "new"
                           ELSE IF StreamOpen(c) THEN "open" ELSE "closed"
  BY DEF lifecycleStream
<1>4. ASSUME NEW t \in Tokens, ClaimReservation(c, t) PROVE Lifecycle!Open(c, t)
  <2>1. t \in lifecycleReserved /\ lifecycleReserved' = lifecycleReserved \ {t}
    BY <1>4 DEF ClaimReservation, lifecycleReserved, TypeOK, Principals
  <2>2. lifecycleStream' = [lifecycleStream EXCEPT ![c] = "open"]
    BY <1>4, StreamLemma DEF ClaimReservation
  <2>3. QED
    BY <1>2, <1>3, <1>4, <2>1, <2>2 DEF ClaimReservation, Lifecycle!Open
<1>5. CASE RefuseStream(c)
  <2>1. lifecycleStream' = [lifecycleStream EXCEPT ![c] = "closed"]
    BY <1>5, StreamLemma DEF RefuseStream
  <2>2. Lifecycle!Refuse(c)
    BY <1>2, <1>3, <1>5, <2>1 DEF RefuseStream, Lifecycle!Refuse
  <2>3. QED
    BY <2>2 DEF Lifecycle!Next
<1>6. CASE OpenStream(c) \/ RemoveOperations(c)
  <2>1. UNCHANGED lifecycleStream
    BY <1>1, <1>6, StreamLemma DEF OpenStream, RemoveOperations, lifecycleStream, StreamOpen
  <2>2. UNCHANGED lifecycleLeads
    <3>1. CASE OpenStream(c)
      BY <1>2, <3>1 DEF OpenStream
    <3>2. CASE RemoveOperations(c)
      <4>1. connToken[c] \in Tokens
        BY <3>2 DEF RemoveOperations, TokensInv, Holds, TypeOK
      <4>2. \A p \in Posts : Running(p) /\ Single(p) => postToken[p] # connToken[c]
        BY <3>2 DEF RemoveOperations, PostsInv, TokensInv, Holds, Single, Running, Underway
      <4>3. \A id \in OperationIds : Registered(connToken[c], id) = {}
        BY <4>1, <4>2 DEF EntriesRun, Registered, Single, TypeOK
      <4>4. lifecycleLeads[connToken[c]] = EmptyMap
        <5>1. \A id \in OperationIds : lifecycleLeads[connToken[c]][id] = NoPost
          <6>1. TypeOK
            OBVIOUS
          <6>2. QED
            BY ONLY <4>1, <4>3, <6>1, RegisteredLemma
        <5>2. QED
          BY <4>1, <5>1, Seen DEF EmptyMap
      <4>5. lifecycleLeads' = [lifecycleLeads EXCEPT ![connToken[c]] = EmptyMap]
        BY <3>2, <4>1 DEF RemoveOperations, lifecycleLeads, TypeOK
      <4>6. QED
        BY <4>1, <4>4, <4>5, Seen
    <3>3. QED
      BY <1>6, <3>1, <3>2
  <2>3. QED
    BY <1>2, <1>6, <2>1, <2>2 DEF OpenStream, RemoveOperations
<1>7. CASE RemoveStream(c)
  <2>1. lifecycleStream' = [lifecycleStream EXCEPT ![c] = "closed"]
    BY <1>7, StreamLemma DEF RemoveStream
  <2>2. Lifecycle!RunningIn(c) = {}
    BY <1>7 DEF RemoveStream, Children, Underway, Lifecycle!RunningIn, lifecycleOperation,
                lifecycleStreamOf, Started, Running
  <2>3. connToken[c] # NoToken /\ c \in lifecycleInterrupted
    BY <1>7 DEF RemoveStream, TokensInv, Holds, lifecycleInterrupted
  <2>4. Lifecycle!Close(c)
    BY <1>2, <1>3, <1>7, <2>1, <2>2, <2>3 DEF RemoveStream, StreamOpen, Lifecycle!Close
  <2>5. QED
    BY <2>4 DEF Lifecycle!Next
<1>8. CASE ClientDisconnects(c)
  BY <1>2, <1>8 DEF ClientDisconnects
<1>9. CASE DetectDisconnect(c)
  <2>1. lifecycleInterrupted' = lifecycleInterrupted \cup {c}
    BY <1>1, <1>9 DEF DetectDisconnect, lifecycleInterrupted
  <2>2. Lifecycle!Interrupt(c)
    BY <1>2, <1>3, <1>9, <2>1 DEF DetectDisconnect, StreamOpen, Lifecycle!Interrupt
  <2>3. QED
    BY <2>2 DEF Lifecycle!Next
<1>10. QED
  BY <1>4, <1>5, <1>6, <1>7, <1>8, <1>9 DEF ConnectionStep, Lifecycle!Next

(* One entry of the map of a token is written.                             *)
LEMMA EntryLemma ==
  ASSUME TypeOK, NEW t \in Tokens, NEW id \in OperationIds, NEW q \in Posts \cup {NoPost},
         runningOperations[t] # NoMap,
         runningOperations' = [runningOperations EXCEPT ![t][id] = q]
  PROVE  lifecycleLeads' = [lifecycleLeads EXCEPT ![t][id] = q]
<1> DEFINE map == [runningOperations[t] EXCEPT ![id] = q]
<1>1. runningOperations[t] \in [OperationIds -> Posts \cup {NoPost}]
  BY DEF TypeOK
<1>2. map # NoMap
  BY <1>1, AbsentAssumption
<1>3. runningOperations' = [runningOperations EXCEPT ![t] = map]
  OBVIOUS
<1>4. [lifecycleLeads EXCEPT ![t][id] = q] = [lifecycleLeads EXCEPT ![t] = map]
  BY DEF lifecycleLeads
<1> HIDE DEF map
<1>5. QED
  BY <1>2, <1>3, <1>4 DEF TypeOK, lifecycleLeads

LEMMA RequestSimulation ==
  ASSUME RInv, ClientStep \/ \E p \in Posts : PostStep(p) \/ NeverRun(p)
  PROVE  [Lifecycle!Next]_(Lifecycle!vars)
<1> USE AbsentAssumption
    DEF RInv, Inv, tables, connectionVars, requestVars, operationVars, Lifecycle!streamVars,
        Lifecycle!operationVars, Lifecycle!orders, Lifecycle!vars
<1>1. /\ post \in [Posts -> Underway \cup {"new", "found", "mapped", "rejected", "lost", "done"}]
      /\ runningOperations \in [Tokens -> [OperationIds -> Posts \cup {NoPost}] \cup {NoMap}]
  BY DEF TypeOK
<1>2. /\ UNCHANGED <<post, postConn, postId>>
           => UNCHANGED <<lifecycleOperation, lifecycleStreamOf, lifecycleIdOf>>
      /\ UNCHANGED reservedStreams => UNCHANGED lifecycleReserved
      /\ UNCHANGED scope => UNCHANGED lifecycleInterrupted
      /\ UNCHANGED connection => UNCHANGED lifecycleStream
      /\ UNCHANGED runningOperations => UNCHANGED lifecycleLeads
  BY DEF lifecycleOperation, lifecycleStreamOf, lifecycleIdOf, Started, Running,
         lifecycleReserved, lifecycleInterrupted, lifecycleStream, StreamOpen, lifecycleLeads
<1>3. ASSUME NEW t \in Tokens, NEW principal \in Principals, reserveEventStream(t, principal)
      PROVE  Lifecycle!Reserve(t)
  <2>1. t \notin lifecycleReserved /\ \A c \in Connections : connToken[c] # t
    BY <1>3 DEF reserveEventStream, TokensInv, Holds, lifecycleReserved
  <2>2. lifecycleReserved' = lifecycleReserved \cup {t}
    BY <1>3 DEF reserveEventStream, lifecycleReserved, TypeOK, Principals
  <2>3. QED
    BY <1>2, <1>3, <2>1, <2>2 DEF reserveEventStream, Lifecycle!Reserve
<1>4. ASSUME NEW c \in Connections, NEW p \in Posts, NEW principal \in Principals,
             querySse(c, p, principal)
      PROVE  Lifecycle!Serve(c, p)
  <2>1. lifecycleStream' = [lifecycleStream EXCEPT ![c] = "open"] /\ lifecycleStream[c] = "new"
    BY <1>4, StreamLemma DEF querySse, lifecycleStream
  <2>2. /\ post[p] = "new" /\ post' = [post EXCEPT ![p] = "running"]
        /\ postConn' = [postConn EXCEPT ![p] = c] /\ UNCHANGED postId /\ postId[p] = NoId
    BY <1>4 DEF querySse, UnnamedInv
  <2>3. /\ lifecycleOperation[p] = "new"
        /\ lifecycleOperation' = [lifecycleOperation EXCEPT ![p] = "running"]
        /\ lifecycleStreamOf' = [lifecycleStreamOf EXCEPT ![p] = c]
        /\ UNCHANGED lifecycleIdOf
    BY <1>1, <2>2 DEF TypeOK, lifecycleOperation, lifecycleStreamOf, lifecycleIdOf, Started, Running
  <2>4. QED
    BY <1>2, <1>4, <2>1, <2>3 DEF querySse, Lifecycle!Serve
<1>5. ASSUME NEW p \in Posts, ~Started(p), ~Started(p)',
             \A q \in Posts : q # p => /\ post'[q] = post[q]
                                       /\ postConn'[q] = postConn[q] /\ postId'[q] = postId[q],
             UNCHANGED lifecycleLeads,
             UNCHANGED <<reservedStreams, connectionVars, deleting, cancelled, late>>
      PROVE  UNCHANGED Lifecycle!vars
  BY <1>2, <1>5, BeforeStartLemma
<1>6. ASSUME NEW p \in Posts, NEW t \in Tokens, NEW principal \in Principals,
             RejectPost(p, t, principal)
      PROVE  UNCHANGED Lifecycle!vars
  BY <1>1, <1>2, <1>5, <1>6 DEF RejectPost, Started, Running
<1>7. ASSUME NEW p \in Posts, NEW t \in Tokens, NEW principal \in Principals,
             NEW id \in OperationIds, FindStream(p, t, id, principal)
      PROVE  UNCHANGED Lifecycle!vars
  <2>1. /\ post[p] = "new" /\ post' = [post EXCEPT ![p] = "found"]
        /\ \A q \in Posts : q # p => postConn'[q] = postConn[q] /\ postId'[q] = postId[q]
        /\ UNCHANGED <<tables, connectionVars, operationVars>>
    BY <1>7 DEF FindStream, Find, TypeOK
  <2>2. QED
    BY <1>1, <1>2, <1>5, <2>1 DEF Started, Running
<1>8. ASSUME NEW p \in Posts, PostStep(p) PROVE UNCHANGED Lifecycle!vars
  <2>1. CASE EnsureMap(p)
    <3>1. postToken[p] \in Tokens
      BY <2>1 DEF EnsureMap, PostsInv, Single, TypeOK
    <3>2. UNCHANGED lifecycleLeads
      BY <1>1, <2>1, <3>1 DEF EnsureMap, lifecycleLeads, EmptyMap
    <3>3. QED
      BY <1>1, <1>5, <2>1, <3>2 DEF EnsureMap, Started, Running
  <2>2. CASE LaunchOperation(p)
    BY <1>1, <1>2, <1>5, <2>2 DEF LaunchOperation, Started, Running
  <2>3. QED
    BY <1>8, <2>1, <2>2 DEF PostStep
<1>9. ASSUME NEW p \in Posts, NeverRun(p) PROVE UNCHANGED Lifecycle!vars
  BY <1>1, <1>2, <1>5, <1>9 DEF NeverRun, Started, Running
<1>10. ASSUME NEW t \in Tokens, NEW id \in OperationIds, cancelOperation(t, id)
       PROVE  Lifecycle!Order(t, id) \/ UNCHANGED Lifecycle!vars
  BY <1>2, <1>10, RegisteredLemma DEF cancelOperation, Lifecycle!Order, Lifecycle!orders
<1>11. QED
  BY <1>3, <1>4, <1>6, <1>7, <1>8, <1>9, <1>10, StreamSimulation DEF ClientStep, Lifecycle!Next

LEMMA OperationSimulation ==
  ASSUME RInv, NEW p \in Posts, OperationStep(p)
  PROVE  [Lifecycle!Next]_(Lifecycle!vars)
<1> USE AbsentAssumption
    DEF RInv, Inv, tables, connectionVars, requestVars, operationVars, Lifecycle!streamVars,
        Lifecycle!operationVars, Lifecycle!orders, Lifecycle!vars
<1>1. /\ post \in [Posts -> Underway \cup {"new", "found", "mapped", "rejected", "lost", "done"}]
      /\ scope \in [Connections -> {"active", "cancelled"}]
      /\ runningOperations \in [Tokens -> [OperationIds -> Posts \cup {NoPost}] \cup {NoMap}]
      /\ postToken \in [Posts -> Tokens \cup {NoToken}]
      /\ postConn \in [Posts -> Connections \cup {NoConnection}]
      /\ postId \in [Posts -> OperationIds \cup {NoId}]
  BY DEF TypeOK
<1>2. /\ UNCHANGED reservedStreams => UNCHANGED lifecycleReserved
      /\ UNCHANGED scope => UNCHANGED lifecycleInterrupted
      /\ UNCHANGED connection => UNCHANGED lifecycleStream
      /\ UNCHANGED runningOperations => UNCHANGED lifecycleLeads
  BY DEF lifecycleReserved, lifecycleInterrupted, lifecycleStream, StreamOpen, lifecycleLeads
<1> DEFINE c == postConn[p]
           t == postToken[p]
           id == postId[p]
<1>3. Running(p) => /\ c \in Connections
                    /\ lifecycleStreamOf[p] = c /\ lifecycleIdOf[p] = id
                    /\ lifecycleOperation[p] = "running"
  BY DEF PostsInv, ServedInv, lifecycleStreamOf, lifecycleIdOf, lifecycleOperation, Started
<1>4. CASE StartOperation(p)
  <2>1. /\ Single(p) /\ c \in Connections /\ t \in Tokens /\ id \in OperationIds
        /\ connToken[c] = t /\ connection[c] = "open" /\ runningOperations[t] # NoMap
    BY <1>1, <1>4 DEF StartOperation, PostsInv, MapsInv, Single, Underway
  <2>2. lifecycleStream[c] = "open" /\ c \notin lifecycleInterrupted /\ connToken[c] # NoToken
    BY <1>4, <2>1 DEF StartOperation, lifecycleStream, StreamOpen, lifecycleInterrupted, Single
  <2>3. /\ lifecycleOperation[p] = "new"
        /\ lifecycleOperation' = [lifecycleOperation EXCEPT ![p] = "running"]
        /\ lifecycleStreamOf' = [lifecycleStreamOf EXCEPT ![p] = c]
        /\ lifecycleIdOf' = [lifecycleIdOf EXCEPT ![p] = id]
    BY <1>1, <1>4 DEF StartOperation, lifecycleOperation, lifecycleStreamOf, lifecycleIdOf,
                      Started, Running
  <2>4. lifecycleLeads' = [lifecycleLeads EXCEPT ![t][id] = p]
    BY <1>1, <1>4, <2>1, EntryLemma DEF StartOperation
  <2>5. Lifecycle!Start(c, p, id)
    BY <1>2, <1>4, <2>1, <2>2, <2>3, <2>4 DEF StartOperation, Lifecycle!Start
  <2>6. QED
    BY <2>1, <2>5 DEF Lifecycle!Next
<1>5. CASE YieldNext(p) \/ SendNext(p)
  <2>1. /\ Running(p)
        /\ \/ post' = [post EXCEPT ![p] = "running"]
           \/ post' = [post EXCEPT ![p] = "sending"]
        /\ UNCHANGED <<tables, connectionVars, requestVars, deleting, cancelled>>
    BY <1>5 DEF YieldNext, SendNext, Running
  <2>2. UNCHANGED <<lifecycleOperation, lifecycleStreamOf, lifecycleIdOf>>
    BY <2>1, GoesOnLemma
  <2>3. CASE UNCHANGED late
    BY <1>2, <2>1, <2>2, <2>3
  <2>4. CASE late' # late
    <3>1. /\ SendNext(p) /\ Cancelled(p) /\ late[p] = 0 /\ late' = [late EXCEPT ![p] = 1]
      <4>1. SendNext(p)
        BY <1>5, <2>4 DEF YieldNext
      <4>2. late[p] = 0 /\ late \in [Posts -> Nat]
        BY <4>1 DEF SendNext, LateInv, TypeOK
      <4>3. late' = [late EXCEPT ![p] = IF Cancelled(p) THEN late[p] + 1 ELSE late[p]]
        BY <4>1 DEF SendNext
      <4>4. Cancelled(p)
        BY <2>4, <4>2, <4>3
      <4>5. QED
        BY <4>1, <4>2, <4>3, <4>4
    <3>2. Lifecycle!ToEnd(p)
      BY <1>3, <2>1, <3>1 DEF Cancelled, lifecycleInterrupted, Lifecycle!ToEnd
    <3>3. Lifecycle!LateResult(p)
      BY <1>2, <1>3, <2>1, <2>2, <3>1, <3>2 DEF Lifecycle!LateResult
    <3>4. QED
      BY <3>3 DEF Lifecycle!Next
  <2>5. QED
    BY <2>3, <2>4
<1>6. CASE Completes(p) \/ Fails(p) \/ FailsFatally(p) \/ SendComplete(p)
  <2>1. /\ Running(p)
        /\ \/ post' = [post EXCEPT ![p] = "completing"]
           \/ post' = [post EXCEPT ![p] = "unregistering"]
        /\ UNCHANGED <<tables, connectionVars, requestVars, deleting, cancelled, late>>
    BY <1>6 DEF Completes, Fails, FailsFatally, SendComplete, BodyEnds, Running
  <2>2. UNCHANGED <<lifecycleOperation, lifecycleStreamOf, lifecycleIdOf>>
    BY <2>1, GoesOnLemma
  <2>3. QED
    BY <1>2, <2>1, <2>2
<1>7. CASE EndOperation(p)
  <2>1. Running(p) /\ Single(p)
    BY <1>7 DEF EndOperation, Running, ServedInv
  <2>2. /\ t \in Tokens /\ id \in OperationIds
        /\ connToken[c] = t /\ connToken[c] # NoToken /\ runningOperations[t] # NoMap
    BY <1>1, <1>7, <2>1 DEF EndOperation, PostsInv, MapsInv, Single, Underway
  <2>3. lifecycleLeads' = [lifecycleLeads EXCEPT ![t][id] = NoPost]
    BY <1>1, <1>7, <2>2, EntryLemma DEF EndOperation
  <2>4. \E casualties \in SUBSET {c} : lifecycleInterrupted' = lifecycleInterrupted \cup casualties
    <3>1. CASE escaped[p]
      <4>1. lifecycleInterrupted' = lifecycleInterrupted \cup {c}
        BY <1>1, <1>3, <1>7, <2>1, <3>1 DEF EndOperation, lifecycleInterrupted
      <4>2. QED
        BY <4>1
    <3>2. CASE ~escaped[p]
      <4>1. lifecycleInterrupted' = lifecycleInterrupted \cup {}
        BY <1>1, <1>3, <1>7, <2>1, <3>2 DEF EndOperation, lifecycleInterrupted
      <4>2. QED
        BY <4>1
    <3>3. QED
      BY <3>1, <3>2
  <2>5. /\ lifecycleOperation' = [lifecycleOperation EXCEPT ![p] = "over"]
        /\ UNCHANGED <<lifecycleStreamOf, lifecycleIdOf>>
    BY <1>7, <2>1, OverLemma DEF EndOperation
  <2>6. Lifecycle!End(p)
    BY <1>2, <1>3, <1>7, <2>1, <2>2, <2>3, <2>4, <2>5 DEF EndOperation, Lifecycle!End
  <2>7. QED
    BY <2>6 DEF Lifecycle!Next
<1>8. CASE EndDistinct(p)
  <2>1. Running(p) /\ ~Single(p) /\ connToken[c] = NoToken
    BY <1>1, <1>3, <1>8 DEF EndDistinct, Running, PostsInv, TokensInv, Holds
  <2>2. lifecycleStream' = [lifecycleStream EXCEPT ![c] = "closed"]
    BY <1>3, <1>8, <2>1, StreamLemma DEF EndDistinct
  <2>3. /\ lifecycleOperation' = [lifecycleOperation EXCEPT ![p] = "over"]
        /\ UNCHANGED <<lifecycleStreamOf, lifecycleIdOf>>
    BY <1>8, <2>1, OverLemma DEF EndDistinct
  <2>4. Lifecycle!EndServed(p)
    BY <1>2, <1>3, <1>8, <2>1, <2>2, <2>3 DEF EndDistinct, Lifecycle!EndServed
  <2>5. QED
    BY <2>4 DEF Lifecycle!Next
<1>9. CASE NeverRun(p)
  BY <1>9, RequestSimulation
<1>10. QED
  BY <1>4, <1>5, <1>6, <1>7, <1>8, <1>9 DEF OperationStep

LEMMA StopSimulation ==
  ASSUME RInv, NEW p \in Posts, CancelFound(p)
  PROVE  Lifecycle!Stop(p)
<1>1. UNCHANGED <<lifecycleReserved, lifecycleStream, lifecycleInterrupted, lifecycleOperation,
                  lifecycleStreamOf, lifecycleIdOf, lifecycleLeads, connToken, late>>
  BY DEF CancelFound, tables, connectionVars, requestVars, lifecycleReserved, lifecycleStream,
         StreamOpen, lifecycleInterrupted, lifecycleOperation, lifecycleStreamOf, lifecycleIdOf,
         lifecycleLeads, Started, Running
<1>2. QED
  BY <1>1 DEF CancelFound, Lifecycle!Stop, Lifecycle!streamVars

(* The endpoint implements its abstraction, for any number of tokens,      *)
(* streams, requests and ids: the steps by which eventStream claims,       *)
(* publishes and unregisters a stream, and queryOpenStream finds a stream, *)
(* maps its token and launches a coroutine, add up to one step each, and   *)
(* one result at most follows the order to stop.                           *)
THEOREM Implements == Spec => ImplementsStreamLifecycle
<1>1. RInv /\ [Next]_vars => [Lifecycle!Next]_(Lifecycle!vars)
  <2> SUFFICES ASSUME RInv, [Next]_vars PROVE [Lifecycle!Next]_(Lifecycle!vars)
    OBVIOUS
  <2>1. CASE UNCHANGED vars
    BY <2>1
    DEF vars, tables, connectionVars, requestVars, operationVars, Lifecycle!streamVars,
        Lifecycle!operationVars, Lifecycle!orders, Lifecycle!vars, lifecycleReserved,
        lifecycleInterrupted, lifecycleStream, StreamOpen, lifecycleOperation, lifecycleStreamOf, lifecycleIdOf,
        lifecycleLeads, Started, Running
  <2>2. QED
    BY <2>1, StreamSimulation, RequestSimulation, OperationSimulation, StopSimulation
    DEF Next, Lifecycle!Next
<1>2. QED
  BY <1>1, SimulationInit, RInvariance, PTL DEF Spec, ImplementsStreamLifecycle, Lifecycle!Spec

-----------------------------------------------------------------------------
(* What StreamsEnd and CancelledEnd rest on, but for the fairness.         *)

(* A stream of its own is there for an operation that is not over, which   *)
(* will end it.                                                            *)
DistinctServes ==
  \A c \in Connections :
    connection[c] = "distinct" => \E p \in Posts : postConn[p] = c /\ Running(p)

(* Only a stream that was opened is lost or cancelled, and only an         *)
(* operation that was started is found and cancelled by its id.            *)
CancelledOpened ==
  /\ \A c \in Connections :
       /\ connection[c] = "new" => sink[c] = "open"
       /\ scope[c] = "cancelled" => connection[c] \notin {"new", "claimed"}
  /\ \A p \in deleting \cup cancelled : Started(p)

(* A stream that has ended has no operation underway.                      *)
EndedAlone == \A c \in Connections : connection[c] = "done" => Children(c) = {}

LInv == RInv /\ DistinctServes /\ CancelledOpened

(* Steps left to a stream whose client has gone.                           *)
StreamStepsLeft(c) ==
  (CASE connection[c] = "claimed" -> 3 [] connection[c] = "open" -> 2
     [] connection[c] \in {"removing", "distinct"} -> 1 [] OTHER -> 0)
  + (IF scope[c] = "active" THEN 1 ELSE 0)

(* A client that has gone does not come back: what its stream still does   *)
(* brings it nearer to its end, and from the moment its scope is cancelled *)
(* no operation is added to those that it waits for.                       *)
StreamWindsDown ==
  \A c \in Connections :
    /\ connection[c] # "new" /\ sink[c] = "closed" =>
         /\ connection'[c] # "new" /\ sink'[c] = "closed"
         /\ <<connection[c], scope[c]>>' # <<connection[c], scope[c]>>
              => StreamStepsLeft(c)' < StreamStepsLeft(c)
    /\ scope[c] = "cancelled" => scope'[c] = "cancelled" /\ Children(c)' \subseteq Children(c)

(* Steps left to an operation that is to stop.                             *)
OperationStepsLeft(p) ==
  CASE post[p] = "launched" -> 4 [] post[p] = "sending" -> 4 [] post[p] = "running" -> 3
    [] post[p] = "completing" -> 2 [] post[p] = "unregistering" -> 1 [] OTHER -> 0

(* An operation that is cancelled, by its id or with its stream, sends one *)
(* result at most, that which was past its yield(); every step brings it   *)
(* nearer to its end, and the cancellation is not undone on the way.       *)
OperationWindsDown ==
  \A p \in Posts :
    post[p] \in Underway /\ Cancelled(p) =>
      /\ late'[p] # late[p] => post[p] = "sending" /\ late[p] = 0 /\ late'[p] = 1
      /\ postConn'[p] = postConn[p]
      /\ Cancelled(p)'
      /\ post'[p] # post[p] => OperationStepsLeft(p)' < OperationStepsLeft(p)

LEMMA EndedAloneLemma ==
  ASSUME RInv
  PROVE  EndedAlone
BY UnderwayLemma DEF EndedAlone, Children

LEMMA DistinctServesStep ==
  ASSUME LInv, [Next]_vars
  PROVE  DistinctServes'
<1> USE AbsentAssumption
    DEF LInv, RInv, Inv, tables, connectionVars, requestVars, operationVars
<1>0. /\ post \in [Posts -> Underway \cup {"new", "found", "mapped", "rejected", "lost", "done"}]
      /\ postConn \in [Posts -> Connections \cup {NoConnection}]
      /\ connection \in
           [Connections -> {"new", "claimed", "open", "removing", "done", "distinct"}]
  BY DEF TypeOK
<1>1. ASSUME NEW c \in Connections, NEW s, s # "distinct",
             connection' = [connection EXCEPT ![c] = s], UNCHANGED <<post, postConn>>
      PROVE  DistinctServes'
  BY <1>0, <1>1 DEF DistinctServes, Running
<1>2. ASSUME NEW p \in Posts, NEW s, post' = [post EXCEPT ![p] = s],
             Running(p) => s \in {"running", "sending", "completing", "unregistering"},
             UNCHANGED <<postConn, connection>>
      PROVE  DistinctServes'
  BY <1>0, <1>2 DEF DistinctServes, Running
<1>3. ASSUME UNCHANGED <<connection, post, postConn>> PROVE DistinctServes'
  BY <1>3 DEF DistinctServes, Running
<1>4. ASSUME NEW t \in Tokens, NEW principal \in Principals, reserveEventStream(t, principal)
      PROVE  DistinctServes'
  BY <1>3, <1>4 DEF reserveEventStream
<1>5. ASSUME NEW c \in Connections, NEW t \in Tokens, ClaimReservation(c, t) PROVE DistinctServes'
  BY <1>1, <1>5 DEF ClaimReservation
<1>6. ASSUME NEW c \in Connections, RefuseStream(c) \/ ConnectionStep(c) PROVE DistinctServes'
  <2>1. CASE RefuseStream(c) \/ OpenStream(c) \/ RemoveStream(c) \/ RemoveOperations(c)
    BY <1>1, <2>1 DEF RefuseStream, OpenStream, RemoveStream, RemoveOperations
  <2>2. CASE DetectDisconnect(c)
    BY <1>3, <2>2 DEF DetectDisconnect
  <2>3. QED
    BY <1>6, <2>1, <2>2 DEF ConnectionStep
<1>7. ASSUME NEW c \in Connections, ClientDisconnects(c) PROVE DistinctServes'
  BY <1>3, <1>7 DEF ClientDisconnects
<1>8. ASSUME NEW c \in Connections, NEW p \in Posts, NEW principal \in Principals,
             querySse(c, p, principal)
      PROVE  DistinctServes'
  BY <1>0, <1>8 DEF querySse, DistinctServes, Running
<1>9. ASSUME NEW p \in Posts, NEW t \in Tokens, NEW principal \in Principals,
             RejectPost(p, t, principal)
      PROVE  DistinctServes'
  BY <1>2, <1>9 DEF RejectPost, Running
<1>10. ASSUME NEW p \in Posts, NEW t \in Tokens, NEW principal \in Principals,
              NEW id \in OperationIds, FindStream(p, t, id, principal)
       PROVE  DistinctServes'
  BY <1>0, <1>10 DEF FindStream, Find, DistinctServes, Running
<1>11. ASSUME NEW t \in Tokens, NEW id \in OperationIds, cancelOperation(t, id)
       PROVE  DistinctServes'
  BY <1>3, <1>11 DEF cancelOperation
<1>12. ASSUME NEW p \in Posts, PostStep(p) PROVE DistinctServes'
  BY <1>2, <1>12 DEF PostStep, EnsureMap, LaunchOperation, Running
<1>13. ASSUME NEW p \in Posts, OperationStep(p) PROVE DistinctServes'
  <2>1. CASE NeverRun(p) \/ StartOperation(p)
    BY <1>2, <2>1 DEF NeverRun, StartOperation, Running
  <2>2. CASE YieldNext(p) \/ SendNext(p)
    BY <1>2, <2>2 DEF YieldNext, SendNext, Running
  <2>3. CASE Completes(p) \/ Fails(p) \/ FailsFatally(p) \/ SendComplete(p)
    BY <1>2, <2>3 DEF Completes, Fails, FailsFatally, SendComplete, BodyEnds, Running
  <2>4. CASE EndOperation(p)
    BY <1>0, <2>4 DEF EndOperation, DistinctServes, Running
  <2>5. CASE EndDistinct(p)
    <3>1. connection' = [connection EXCEPT ![postConn[p]] = "done"] /\ postConn' = postConn
          /\ post' = [post EXCEPT ![p] = "done"]
      BY <2>5 DEF EndDistinct
    <3>2. QED
      BY <1>0, <3>1 DEF DistinctServes, Running
  <2>6. QED
    BY <1>13, <2>1, <2>2, <2>3, <2>4, <2>5 DEF OperationStep
<1>14. CASE UNCHANGED vars
  BY <1>3, <1>14 DEF vars
<1>15. ASSUME NEW p \in Posts, CancelFound(p) PROVE DistinctServes'
  BY <1>3, <1>15 DEF CancelFound
<1>16. QED
  BY <1>4, <1>5, <1>6, <1>7, <1>8, <1>9, <1>10, <1>11, <1>12, <1>13, <1>14, <1>15 DEF Next, ClientStep

LEMMA CancelledOpenedStep ==
  ASSUME LInv, [Next]_vars
  PROVE  CancelledOpened'
<1> USE AbsentAssumption
    DEF LInv, RInv, Inv, tables, connectionVars, requestVars, operationVars
<1>0. /\ post \in [Posts -> Underway \cup {"new", "found", "mapped", "rejected", "lost", "done"}]
      /\ connection \in
           [Connections -> {"new", "claimed", "open", "removing", "done", "distinct"}]
      /\ scope \in [Connections -> {"active", "cancelled"}]
      /\ sink \in [Connections -> {"open", "closed"}]
      /\ deleting \subseteq Posts /\ cancelled \subseteq Posts
  BY DEF TypeOK
<1>1. ASSUME NEW p \in Posts, NEW s, post' = [post EXCEPT ![p] = s],
             Started(p) => s \in {"running", "sending", "completing", "unregistering", "done"},
             UNCHANGED <<connection, scope, sink, deleting, cancelled>>
      PROVE  CancelledOpened'
  BY <1>0, <1>1 DEF CancelledOpened, Started, Running
<1>2. ASSUME UNCHANGED <<connection, scope, sink, post, deleting, cancelled>> PROVE CancelledOpened'
  BY <1>2 DEF CancelledOpened, Started, Running
<1>3. ASSUME NEW t \in Tokens, NEW principal \in Principals, reserveEventStream(t, principal)
      PROVE  CancelledOpened'
  BY <1>2, <1>3 DEF reserveEventStream
<1>4. ASSUME NEW c \in Connections, NEW t \in Tokens, ClaimReservation(c, t) PROVE CancelledOpened'
  BY <1>0, <1>4 DEF ClaimReservation, CancelledOpened, Started, Running
<1>5. ASSUME NEW c \in Connections, RefuseStream(c) \/ ConnectionStep(c) PROVE CancelledOpened'
  BY <1>0, <1>5
     DEF RefuseStream, ConnectionStep, OpenStream, RemoveStream, RemoveOperations,
         DetectDisconnect, CancelledOpened, Started, Running
<1>6. ASSUME NEW c \in Connections, ClientDisconnects(c) PROVE CancelledOpened'
  BY <1>0, <1>6 DEF ClientDisconnects, CancelledOpened, Started, Running
<1>7. ASSUME NEW c \in Connections, NEW p \in Posts, NEW principal \in Principals,
             querySse(c, p, principal)
      PROVE  CancelledOpened'
  BY <1>0, <1>7 DEF querySse, CancelledOpened, Started, Running
<1>8. ASSUME NEW p \in Posts, NEW t \in Tokens, NEW principal \in Principals,
             RejectPost(p, t, principal)
      PROVE  CancelledOpened'
  BY <1>1, <1>8 DEF RejectPost, Started, Running
<1>9. ASSUME NEW p \in Posts, NEW t \in Tokens, NEW principal \in Principals,
             NEW id \in OperationIds, FindStream(p, t, id, principal)
      PROVE  CancelledOpened'
  BY <1>1, <1>9 DEF FindStream, Find, Started, Running
<1>10. ASSUME NEW t \in Tokens, NEW id \in OperationIds, cancelOperation(t, id)
       PROVE  CancelledOpened'
  <2>1. \A p \in Registered(t, id) : Running(p)
    BY DEF EntriesRun
  <2>2. QED
    BY <1>0, <1>10, <2>1 DEF cancelOperation, CancelledOpened, Started, Running
<1>11. ASSUME NEW p \in Posts, PostStep(p) PROVE CancelledOpened'
  BY <1>1, <1>11 DEF PostStep, EnsureMap, LaunchOperation, Started, Running
<1>12. ASSUME NEW p \in Posts, OperationStep(p) PROVE CancelledOpened'
  <2>1. CASE NeverRun(p) \/ StartOperation(p)
    BY <1>1, <2>1 DEF NeverRun, StartOperation, Started, Running
  <2>2. CASE YieldNext(p) \/ SendNext(p)
    BY <1>1, <2>2 DEF YieldNext, SendNext
  <2>3. CASE Completes(p) \/ Fails(p) \/ FailsFatally(p) \/ SendComplete(p)
    BY <1>1, <2>3 DEF Completes, Fails, FailsFatally, SendComplete, BodyEnds
  <2>4. CASE EndOperation(p)
    <3>1. postConn[p] \in Connections /\ connection[postConn[p]] = "open"
      BY <2>4, UnderwayLemma DEF EndOperation, Underway
    <3>2. QED
      BY <1>0, <2>4, <3>1 DEF EndOperation, CancelledOpened, Started, Running
  <2>5. CASE EndDistinct(p)
    BY <1>0, <2>5 DEF EndDistinct, CancelledOpened, Started, Running
  <2>6. QED
    BY <1>12, <2>1, <2>2, <2>3, <2>4, <2>5 DEF OperationStep
<1>13. CASE UNCHANGED vars
  BY <1>2, <1>13 DEF vars
<1>14. ASSUME NEW p \in Posts, CancelFound(p) PROVE CancelledOpened'
  BY <1>0, <1>14 DEF CancelFound, CancelledOpened, Started, Running
<1>15. QED
  BY <1>3, <1>4, <1>5, <1>6, <1>7, <1>8, <1>9, <1>10, <1>11, <1>12, <1>13, <1>14 DEF Next, ClientStep

LEMMA LInvInductive == (Init => LInv) /\ (LInv /\ [Next]_vars => LInv')
<1>1. Init => DistinctServes /\ CancelledOpened
  BY DEF Init, DistinctServes, CancelledOpened
<1>2. QED
  BY <1>1, RInvInductive, DistinctServesStep, CancelledOpenedStep DEF LInv

LEMMA StreamWindingStep ==
  ASSUME LInv, Next
  PROVE  StreamWindsDown
<1> USE AbsentAssumption
    DEF LInv, RInv, Inv, tables, connectionVars, requestVars, operationVars
<1>0. /\ post \in [Posts -> Underway \cup {"new", "found", "mapped", "rejected", "lost", "done"}]
      /\ postConn \in [Posts -> Connections \cup {NoConnection}]
      /\ connection \in
           [Connections -> {"new", "claimed", "open", "removing", "done", "distinct"}]
      /\ scope \in [Connections -> {"active", "cancelled"}]
      /\ sink \in [Connections -> {"open", "closed"}]
  BY DEF TypeOK
<1>1. ASSUME UNCHANGED <<post, postConn, scope>>,
             \A c \in Connections :
               connection[c] # "new" /\ sink[c] = "closed" =>
                 /\ connection'[c] # "new" /\ sink'[c] = "closed"
                 /\ connection'[c] # connection[c] => StreamStepsLeft(c)' < StreamStepsLeft(c)
      PROVE  StreamWindsDown
  BY <1>1 DEF StreamWindsDown, Children
<1>2. ASSUME NEW p \in Posts, NEW s, post' = [post EXCEPT ![p] = s],
             s \in Underway =>
               post[p] \in Underway \/ (postConn[p] \in Connections /\ scope[postConn[p]] = "active"),
             UNCHANGED <<postConn, connection, scope, sink>>
      PROVE  StreamWindsDown
  BY <1>0, <1>2 DEF StreamWindsDown, Children
<1>3. ASSUME UNCHANGED <<connection, scope, sink, post, postConn>> PROVE StreamWindsDown
  BY <1>3 DEF StreamWindsDown, Children
<1>4. ASSUME NEW t \in Tokens, NEW principal \in Principals, reserveEventStream(t, principal)
      PROVE  StreamWindsDown
  BY <1>3, <1>4 DEF reserveEventStream
<1>5. ASSUME NEW c \in Connections, NEW t \in Tokens, ClaimReservation(c, t) PROVE StreamWindsDown
  BY <1>0, <1>1, <1>5 DEF ClaimReservation, StreamStepsLeft
<1>6. ASSUME NEW c \in Connections, RefuseStream(c) \/ ConnectionStep(c) PROVE StreamWindsDown
  <2>1. CASE RefuseStream(c) \/ OpenStream(c) \/ RemoveStream(c) \/ RemoveOperations(c)
    BY <1>0, <1>1, <2>1
       DEF RefuseStream, OpenStream, RemoveStream, RemoveOperations, StreamStepsLeft
  <2>2. CASE DetectDisconnect(c)
    BY <1>0, <2>2 DEF DetectDisconnect, StreamWindsDown, StreamStepsLeft, Children
  <2>3. QED
    BY <1>6, <2>1, <2>2 DEF ConnectionStep
<1>7. ASSUME NEW c \in Connections, ClientDisconnects(c) PROVE StreamWindsDown
  BY <1>0, <1>7 DEF ClientDisconnects, StreamWindsDown, Children
<1>8. ASSUME NEW c \in Connections, NEW p \in Posts, NEW principal \in Principals,
             querySse(c, p, principal)
      PROVE  StreamWindsDown
  <2>1. connection[c] = "new" /\ scope[c] = "active" /\ sink[c] = "open"
    BY <1>0, <1>8 DEF querySse, CancelledOpened
  <2>2. QED
    BY <1>0, <1>8, <2>1 DEF querySse, StreamWindsDown, Children, Underway
<1>9. ASSUME NEW p \in Posts, NEW t \in Tokens, NEW principal \in Principals,
             RejectPost(p, t, principal)
      PROVE  StreamWindsDown
  BY <1>2, <1>9 DEF RejectPost, Underway
<1>10. ASSUME NEW p \in Posts, NEW t \in Tokens, NEW principal \in Principals,
              NEW id \in OperationIds, FindStream(p, t, id, principal)
       PROVE  StreamWindsDown
  BY <1>0, <1>10 DEF FindStream, Find, StreamWindsDown, Children, Underway
<1>11. ASSUME NEW t \in Tokens, NEW id \in OperationIds, cancelOperation(t, id)
       PROVE  StreamWindsDown
  BY <1>3, <1>11 DEF cancelOperation
<1>12. ASSUME NEW p \in Posts, PostStep(p) PROVE StreamWindsDown
  <2>1. CASE EnsureMap(p)
    BY <1>2, <2>1 DEF EnsureMap, Underway
  <2>2. CASE LaunchOperation(p)
    <3>1. postConn[p] \in Connections
      BY <2>2 DEF LaunchOperation, PostsInv
    <3>2. QED
      BY <1>2, <2>2, <3>1 DEF LaunchOperation, Underway
  <2>3. QED
    BY <1>12, <2>1, <2>2 DEF PostStep
<1>13. ASSUME NEW p \in Posts, OperationStep(p) PROVE StreamWindsDown
  <2>1. CASE NeverRun(p) \/ StartOperation(p)
    BY <1>2, <2>1 DEF NeverRun, StartOperation, Underway
  <2>2. CASE YieldNext(p) \/ SendNext(p)
    BY <1>2, <2>2 DEF YieldNext, SendNext, Underway
  <2>3. CASE Completes(p) \/ Fails(p) \/ FailsFatally(p) \/ SendComplete(p)
    BY <1>2, <2>3 DEF Completes, Fails, FailsFatally, SendComplete, BodyEnds, Underway
  <2>4. CASE EndOperation(p)
    BY <1>0, <2>4
       DEF EndOperation, StreamWindsDown, StreamStepsLeft, Children, Underway
  <2>5. CASE EndDistinct(p)
    BY <1>0, <2>5 DEF EndDistinct, StreamWindsDown, StreamStepsLeft, Children, Underway
  <2>6. QED
    BY <1>13, <2>1, <2>2, <2>3, <2>4, <2>5 DEF OperationStep
<1>14. ASSUME NEW p \in Posts, CancelFound(p) PROVE StreamWindsDown
  BY <1>3, <1>14 DEF CancelFound
<1>15. QED
  BY <1>4, <1>5, <1>6, <1>7, <1>8, <1>9, <1>10, <1>11, <1>12, <1>13, <1>14 DEF Next, ClientStep

LEMMA OperationWindingStep ==
  ASSUME LInv, Next
  PROVE  OperationWindsDown
<1> USE AbsentAssumption
    DEF LInv, RInv, Inv, tables, connectionVars, requestVars, operationVars
<1>0. /\ post \in [Posts -> Underway \cup {"new", "found", "mapped", "rejected", "lost", "done"}]
      /\ postConn \in [Posts -> Connections \cup {NoConnection}]
      /\ connection \in
           [Connections -> {"new", "claimed", "open", "removing", "done", "distinct"}]
      /\ scope \in [Connections -> {"active", "cancelled"}]
      /\ deleting \subseteq Posts /\ cancelled \subseteq Posts
  BY DEF TypeOK
<1>1. \A p \in Posts : post[p] \in Underway => postConn[p] \in Connections
  BY UnderwayLemma
<1>2. ASSUME UNCHANGED <<post, postConn, late>>, cancelled \subseteq cancelled',
             \A c \in Connections : scope[c] = "cancelled" => scope'[c] = "cancelled"
      PROVE  OperationWindsDown
  BY <1>1, <1>2 DEF OperationWindsDown, Cancelled
<1>3. ASSUME NEW p \in Posts, NEW s, post' = [post EXCEPT ![p] = s],
             post[p] \in Underway /\ Cancelled(p) => OperationStepsLeft(p)' < OperationStepsLeft(p),
             \A q \in Posts : q # p => late'[q] = late[q] /\ postConn'[q] = postConn[q],
             post[p] \in Underway => late'[p] = late[p] /\ postConn'[p] = postConn[p],
             cancelled \subseteq cancelled',
             \A c \in Connections : scope[c] = "cancelled" => scope'[c] = "cancelled"
      PROVE  OperationWindsDown
  BY <1>0, <1>1, <1>3 DEF OperationWindsDown, Cancelled
<1>4. ASSUME NEW t \in Tokens, NEW principal \in Principals, reserveEventStream(t, principal)
      PROVE  OperationWindsDown
  BY <1>2, <1>4 DEF reserveEventStream
<1>5. ASSUME NEW c \in Connections, NEW t \in Tokens, ClaimReservation(c, t) PROVE OperationWindsDown
  BY <1>2, <1>5 DEF ClaimReservation
<1>6. ASSUME NEW c \in Connections, RefuseStream(c) \/ ConnectionStep(c) PROVE OperationWindsDown
  BY <1>0, <1>2, <1>6
     DEF RefuseStream, ConnectionStep, OpenStream, RemoveStream, RemoveOperations, DetectDisconnect
<1>7. ASSUME NEW c \in Connections, ClientDisconnects(c) PROVE OperationWindsDown
  BY <1>2, <1>7 DEF ClientDisconnects
<1>8. ASSUME NEW c \in Connections, NEW p \in Posts, NEW principal \in Principals,
             querySse(c, p, principal)
      PROVE  OperationWindsDown
  BY <1>0, <1>3, <1>8 DEF querySse, Underway
<1>9. ASSUME NEW p \in Posts, NEW t \in Tokens, NEW principal \in Principals,
             RejectPost(p, t, principal)
      PROVE  OperationWindsDown
  BY <1>0, <1>3, <1>9 DEF RejectPost, Underway
<1>10. ASSUME NEW p \in Posts, NEW t \in Tokens, NEW principal \in Principals,
              NEW id \in OperationIds, FindStream(p, t, id, principal)
       PROVE  OperationWindsDown
  BY <1>0, <1>3, <1>10 DEF FindStream, Find, Underway
<1>11. ASSUME NEW t \in Tokens, NEW id \in OperationIds, cancelOperation(t, id)
       PROVE  OperationWindsDown
  BY <1>2, <1>11 DEF cancelOperation
<1>12. ASSUME NEW p \in Posts, PostStep(p) PROVE OperationWindsDown
  BY <1>0, <1>3, <1>12 DEF PostStep, EnsureMap, LaunchOperation, Underway
<1>13. ASSUME NEW p \in Posts, OperationStep(p) PROVE OperationWindsDown
  <2>1. CASE NeverRun(p) \/ StartOperation(p)
    BY <1>0, <1>3, <2>1 DEF NeverRun, StartOperation, OperationStepsLeft
  <2>2. CASE YieldNext(p)
    BY <1>0, <1>3, <2>2 DEF YieldNext
  <2>3. CASE SendNext(p)
    <3>1. /\ post[p] = "sending" /\ late[p] = 0 /\ late \in [Posts -> Nat]
          /\ post' = [post EXCEPT ![p] = "running"]
          /\ late' = [late EXCEPT ![p] = IF Cancelled(p) THEN late[p] + 1 ELSE late[p]]
          /\ UNCHANGED <<postConn, scope, cancelled>>
      BY <2>3 DEF SendNext, LateInv, TypeOK
    <3>2. OperationStepsLeft(p)' < OperationStepsLeft(p)
      BY <1>0, <3>1 DEF OperationStepsLeft
    <3>3. QED
      BY <1>0, <1>1, <3>1, <3>2 DEF OperationWindsDown, Cancelled
  <2>4. CASE Completes(p) \/ Fails(p) \/ FailsFatally(p) \/ SendComplete(p)
    BY <1>0, <1>3, <2>4 DEF Completes, Fails, FailsFatally, SendComplete, BodyEnds, OperationStepsLeft
  <2>5. CASE EndOperation(p)
    <3>1. post[p] = "unregistering" /\ post' = [post EXCEPT ![p] = "done"]
          /\ UNCHANGED <<postConn, late, cancelled>>
          /\ \A c \in Connections : scope[c] = "cancelled" => scope'[c] = "cancelled"
      BY <1>0, <2>5 DEF EndOperation
    <3>2. OperationStepsLeft(p)' < OperationStepsLeft(p)
      BY <1>0, <3>1 DEF OperationStepsLeft
    <3>3. QED
      BY <1>3, <3>1, <3>2
  <2>6. CASE EndDistinct(p)
    <3>1. post[p] = "unregistering" /\ post' = [post EXCEPT ![p] = "done"]
          /\ UNCHANGED <<postConn, late, cancelled, scope>>
      BY <2>6 DEF EndDistinct
    <3>2. OperationStepsLeft(p)' < OperationStepsLeft(p)
      BY <1>0, <3>1 DEF OperationStepsLeft
    <3>3. QED
      BY <1>3, <3>1, <3>2
  <2>7. QED
    BY <1>13, <2>1, <2>2, <2>3, <2>4, <2>5, <2>6 DEF OperationStep
<1>14. ASSUME NEW p \in Posts, CancelFound(p) PROVE OperationWindsDown
  BY <1>2, <1>14 DEF CancelFound
<1>15. QED
  BY <1>4, <1>5, <1>6, <1>7, <1>8, <1>9, <1>10, <1>11, <1>12, <1>13, <1>14 DEF Next, ClientStep

(* A stream of its own is never left without the operation that ends it,   *)
(* and only what was started is ever cancelled.                            *)
THEOREM LInvariance == Spec => []LInv
<1>1. (Init => LInv) /\ (LInv /\ [Next]_vars => LInv')
  BY LInvInductive
<1>2. QED
  BY <1>1, PTL DEF Spec

(* A stream that has ended left none of its operations behind.             *)
THEOREM StreamsEndAlone == Spec => []EndedAlone
<1>1. RInv => EndedAlone
  BY EndedAloneLemma
<1>2. QED
  BY <1>1, RInvariance, PTL

(* Once the client of a stream is gone, every step the stream takes leads  *)
(* to its end, and none of the requests that race with it adds operations. *)
THEOREM StreamsWindDown == Spec => [][StreamWindsDown]_vars
<1>1. LInv /\ [Next]_vars => [StreamWindsDown]_vars
  BY StreamWindingStep
<1>2. QED
  BY <1>1, LInvariance, PTL DEF Spec

(* A cancelled operation sends a result only if that result was past the   *)
(* yield() of runQuery, and has four steps left at most, whichever way it  *)
(* was cancelled and whatever its query does.                              *)
THEOREM OperationsWindDown == Spec => [][OperationWindsDown]_vars
<1>1. LInv /\ [Next]_vars => [OperationWindsDown]_vars
  BY OperationWindingStep
<1>2. QED
  BY <1>1, LInvariance, PTL DEF Spec
=============================================================================
