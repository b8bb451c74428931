------------------------- MODULE MCGraphQLWebSocket -------------------------
(***************************************************************************)
(* Instances of GraphQLWebSocket for TLC: the frames the client of each    *)
(* run may send.                                                           *)
(***************************************************************************)
EXTENDS GraphQLWebSocketLifecycle

CONSTANTS
  a,        (* a message id of the client's choice *)
  uuid      (* a message id of the server's choice *)

OneId == {a}
Uuids == {uuid}
MCIds == OneId \cup Uuids
NoUuids == {}

Frame(type, id, payload) == [type |-> type, id |-> id, payload |-> payload]

InitFrame == Frame("connection_init", NoId, FALSE)
Starts(ids) == {Frame("start", id, TRUE) : id \in ids}
Stops(ids) == {Frame("stop", id, FALSE) : id \in ids}
Subscribes(ids) == {Frame("subscribe", id, TRUE) : id \in ids}
Completes(ids) == {Frame("complete", id, FALSE) : id \in ids}

(* One frame of each kind the code tells apart, as an Apollo client would  *)
(* send it.  It may stop a query it gave a blank id by the id the server   *)
(* answers under.                                                          *)
ApolloFrames ==
  {InitFrame, Frame("start", NoId, TRUE), Frame("start", a, FALSE), Frame("stop", NoId, FALSE),
   Frame("ping", NoId, TRUE), Frame("ping", NoId, FALSE), Frame("pong", NoId, FALSE),
   Frame("data", a, TRUE), Frame("unknown", a, TRUE), Frame("unparseable", NoId, FALSE),
   Frame("connection_terminate", NoId, FALSE)}
  \cup Starts({a, BlankId}) \cup Stops({uuid, BlankId})

(* Clients that start and stop queries, for the longer behaviours.         *)
QueryFrames == Starts({a}) \cup Stops({a})
TransportWsQueryFrames == {InitFrame} \cup Subscribes({a}) \cup Completes({a})
=============================================================================
