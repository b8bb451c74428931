---------------------- MODULE GraphQLWebSocketLifecycle ----------------------
(***************************************************************************)
(* A connection implements QueryLifecycle: its table of running queries is *)
(* the table of holders, and a query is as far as the table, the frame     *)
(* that started it and the messages sent after its cancel say.             *)
(***************************************************************************)
EXTENDS GraphQLWebSocket

Holds(n) == frameMsg[n].id \in Ids /\ queries[frameMsg[n].id] = n

StatusOf(n) ==
  IF job[n] = "none" THEN "new"
  ELSE IF Holds(n) THEN "running"
  ELSE IF late[n] = 0 THEN "ended"
  ELSE "over"

lifecycleClosed == session \in {"closing", "closed"}
lifecycleIdOf == [n \in Frames |-> IF job[n] = "none" THEN NoId ELSE frameMsg[n].id]
lifecycleStatus == [n \in Frames |-> StatusOf(n)]
lifecycleSaid == [n \in Frames |-> IF job[n] = "none" THEN <<>> ELSE replies[n]]

Lifecycle ==
  INSTANCE QueryLifecycle
    WITH Queries <- Frames, NoQuery <- 0, closed <- lifecycleClosed, holder <- queries,
         idOf <- lifecycleIdOf, status <- lifecycleStatus, said <- lifecycleSaid

(* Whatever its coroutines do, and in whatever order, a connection does    *)
(* for each id and each query what QueryLifecycle allows and nothing else: *)
(* an id is given to one query, taken back with an answer, and what        *)
(* follows the answer is one message at most.                              *)
ImplementsLifecycle == Lifecycle!Spec
=============================================================================
