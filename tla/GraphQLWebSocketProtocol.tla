---------------------- MODULE GraphQLWebSocketProtocol ----------------------
(***************************************************************************)
(* The vocabulary of the GraphQL WebSocket endpoint: the frames a client   *)
(* may send, the message types the server works with internally, and the   *)
(* translation between the two that each sub-protocol performs             *)
(* (GraphQLWebSocketProtocol.kt).  The consumer always works on the Apollo *)
(* vocabulary; the adapter translates on the way in and on the way out.    *)
(***************************************************************************)
EXTENDS Integers, Sequences

CONSTANTS
  Protocol,       (* the sub-protocol agreed on at the upgrade request     *)
  Ids,            (* the message ids, without their control characters     *)
  GeneratedIds,   (* those of them the server may generate                 *)
  BlankId,        (* an id of which nothing is left without them           *)
  NoId            (* an absent id                                          *)

APOLLO_PROTOCOL == "graphql-ws"
GRAPHQL_WS_PROTOCOL == "graphql-transport-ws"

ASSUME ProtocolAssumption == Protocol \in {APOLLO_PROTOCOL, GRAPHQL_WS_PROTOCOL}
ASSUME IdsAssumption ==
  GeneratedIds \subseteq Ids /\ NoId \notin Ids /\ BlankId \notin Ids \cup {NoId}

(* The type a frame carries on the wire.  "unparseable" is a text that      *)
(* Jackson rejects, "unknown" a type string that names no OperationType.    *)
OperationTypes ==
  {"connection_init", "start", "subscribe", "stop", "connection_terminate",
   "connection_error", "connection_ack", "data", "next", "error", "ka",
   "ping", "pong", "complete"}

WireTypes == OperationTypes \cup {"unknown", "unparseable"}

(* A client's frame.  "payload" says whether it carries a payload of the    *)
(* type the operation wants; everything else about the payload is data.     *)
(* Its id may be blank on the wire, and is not for the consumer.            *)
WireMessage == [type : WireTypes, id : Ids \cup {NoId, BlankId}, payload : BOOLEAN]
OperationMessage == [type : WireTypes, id : Ids \cup {NoId}, payload : BOOLEAN]

CLIENT_SOURCED_MESSAGES ==
  {"connection_init", "start", "stop", "connection_terminate", "ping", "pong"}

(* messageMapping of GRAPHQL_WS_PROTOCOL.                                   *)
apolloToGraphQlWsMapping ==
  [start |-> "subscribe", data |-> "next", stop |-> "complete", ka |-> "pong"]

(* Its inverse, without the entry that would read a client's pong as a      *)
(* keepalive.                                                               *)
graphQlWsToApolloMapping ==
  [subscribe |-> "start", next |-> "data", complete |-> "stop"]

getMessage(type, mapping) ==
  IF Protocol = GRAPHQL_WS_PROTOCOL /\ type \in DOMAIN mapping
    THEN mapping[type]
    ELSE type

getServerToClientMessage(type) == getMessage(type, apolloToGraphQlWsMapping)
getClientToServerMessage(type) == getMessage(type, graphQlWsToApolloMapping)

GraphQLWebSocketCloseReason ==
  {"NORMAL", "INVALID_MESSAGE", "UNAUTHORIZED", "TIMEOUT_INIT",
   "MULTIPLE_SUBSCRIBER", "MULTIPLE_INIT"}
=============================================================================
