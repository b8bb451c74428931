-------------------------- MODULE GraphQLSseLifecycle --------------------------
(***************************************************************************)
(* The endpoint implements StreamLifecycle: a stream is open from the      *)
(* moment its reservation is taken until it is unregistered, and an        *)
(* operation runs from its entry in the map of its token to the end of its *)
(* coroutine.  The steps of a POST before that are not seen by anybody.    *)
(***************************************************************************)
EXTENDS GraphQLSse

StreamOpen(c) == connection[c] \in {"claimed", "open", "distinct"}

lifecycleReserved == {t \in Tokens : reservedStreams[t] # "none"}
lifecycleStream ==
  [c \in Connections |->
     IF connection[c] = "new" THEN "new" ELSE IF StreamOpen(c) THEN "open" ELSE "closed"]
lifecycleInterrupted == {c \in Connections : scope[c] = "cancelled"}

Started(p) == Running(p) \/ post[p] = "done"

lifecycleOperation ==
  [p \in Posts |-> IF Running(p) THEN "running" ELSE IF Started(p) THEN "over" ELSE "new"]
lifecycleStreamOf == [p \in Posts |-> IF Started(p) THEN postConn[p] ELSE NoConnection]
lifecycleIdOf == [p \in Posts |-> IF Started(p) THEN postId[p] ELSE NoId]
lifecycleLeads ==
  [t \in Tokens |-> IF runningOperations[t] = NoMap THEN EmptyMap ELSE runningOperations[t]]

Lifecycle ==
  INSTANCE StreamLifecycle
    WITH Streams <- Connections, NoStream <- NoConnection, Operations <- Posts,
         NoOperation <- NoPost, reserved <- lifecycleReserved, tokenOf <- connToken,
         stream <- lifecycleStream, interrupted <- lifecycleInterrupted,
         operation <- lifecycleOperation, streamOf <- lifecycleStreamOf,
         idOf <- lifecycleIdOf, leads <- lifecycleLeads, doomed <- deleting,
         stopped <- cancelled, overdue <- late

(* However the threads of the requests and the coroutines of a stream      *)
(* interleave, a client sees a token spent on one stream, an operation     *)
(* that starts on an open stream in one step and ends before it, and a     *)
(* DELETE that stops the operation its id leads to, of which one result at *)
(* most is still sent (reservedStreams, activeStreams, runningOperations,  *)
(* each a map of its own, and the yield() of runQuery).                    *)
ImplementsStreamLifecycle == Lifecycle!Spec

(* Every entry of runningOperations is an operation that runs, under its   *)
(* own token and id: what has ended is never found by a DELETE.            *)
EntriesRun ==
  \A t \in Tokens, id \in OperationIds :
    \A p \in Registered(t, id) : Running(p) /\ postToken[p] = t /\ postId[p] = id
=============================================================================
