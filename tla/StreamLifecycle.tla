--------------------------- MODULE StreamLifecycle ---------------------------
(***************************************************************************)
(* What the graphql-sse endpoint promises its clients, whatever the        *)
(* threads that serve them do.  A token is reserved, then spent on one     *)
(* event stream.  An operation starts on an open stream, in one step, is   *)
(* found by its id while it runs and then stopped, and runs only as long   *)
(* as its stream is open.  A stream of its own serves one operation and    *)
(* ends with it.  One result at most is late.                              *)
(***************************************************************************)
EXTENDS Naturals

CONSTANTS
  Tokens,        (* stream tokens                                          *)
  Streams,       (* event streams                                          *)
  Operations,    (* operations                                             *)
  OperationIds,  (* the ids that clients give them                         *)
  NoToken, NoStream, NoOperation, NoId

VARIABLES
  reserved,      (* the tokens that wait for their stream                  *)
  tokenOf,       (* the token of each stream                               *)
  stream,        (* "new", "open" or "closed"                              *)
  interrupted,   (* the streams that are to be closed                      *)
  operation,     (* "new", "running" or "over"                             *)
  streamOf,      (* the stream of each operation                           *)
  idOf,          (* its id                                                 *)
  leads,         (* the operation each token and id lead to                *)
  doomed,        (* the operations that were found, and will be stopped    *)
  stopped,       (* the operations that were stopped                       *)
  overdue        (* the results each operation has sent after it was to    *)
                 (* end; those before are not counted                      *)

streamVars == <<reserved, tokenOf, stream, interrupted>>
orders == <<doomed, stopped>>
operationVars == <<operation, streamOf, idOf, leads, orders, overdue>>
vars == <<streamVars, operationVars>>

Nothing == [id \in OperationIds |-> NoOperation]

Init ==
  /\ reserved = {}
  /\ tokenOf = [c \in Streams |-> NoToken]
  /\ stream = [c \in Streams |-> "new"]
  /\ interrupted = {}
  /\ operation = [p \in Operations |-> "new"]
  /\ streamOf = [p \in Operations |-> NoStream]
  /\ idOf = [p \in Operations |-> NoId]
  /\ leads = [t \in Tokens |-> Nothing]
  /\ doomed = {} /\ stopped = {}
  /\ overdue = [p \in Operations |-> 0]

-----------------------------------------------------------------------------
(* Streams.                                                                *)

(* A token is used once.                                                   *)
Reserve(t) ==
  /\ t \notin reserved
  /\ \A c \in Streams : tokenOf[c] # t
  /\ reserved' = reserved \cup {t}
  /\ UNCHANGED <<tokenOf, stream, interrupted, operationVars>>

Open(c, t) ==
  /\ stream[c] = "new"
  /\ t \in reserved
  /\ reserved' = reserved \ {t}
  /\ tokenOf' = [tokenOf EXCEPT ![c] = t]
  /\ stream' = [stream EXCEPT ![c] = "open"]
  /\ UNCHANGED <<interrupted, operationVars>>

Refuse(c) ==
  /\ stream[c] = "new"
  /\ stream' = [stream EXCEPT ![c] = "closed"]
  /\ UNCHANGED <<reserved, tokenOf, interrupted, operationVars>>

Interrupt(c) ==
  /\ stream[c] = "open"
  /\ interrupted' = interrupted \cup {c}
  /\ UNCHANGED <<reserved, tokenOf, stream, operationVars>>

RunningIn(c) == {p \in Operations : operation[p] = "running" /\ streamOf[p] = c}

(* An interrupted stream is closed after its operations.                   *)
Close(c) ==
  /\ stream[c] = "open"
  /\ tokenOf[c] # NoToken
  /\ c \in interrupted
  /\ RunningIn(c) = {}
  /\ stream' = [stream EXCEPT ![c] = "closed"]
  /\ UNCHANGED <<reserved, tokenOf, interrupted, operationVars>>

-----------------------------------------------------------------------------
(* Operations.                                                             *)

(* The newest operation with an id is the one that its id leads to.        *)
Start(c, p, id) ==
  /\ stream[c] = "open"
  /\ tokenOf[c] # NoToken
  /\ c \notin interrupted
  /\ operation[p] = "new"
  /\ operation' = [operation EXCEPT ![p] = "running"]
  /\ streamOf' = [streamOf EXCEPT ![p] = c]
  /\ idOf' = [idOf EXCEPT ![p] = id]
  /\ leads' = [leads EXCEPT ![tokenOf[c]][id] = p]
  /\ UNCHANGED <<streamVars, orders, overdue>>

(* A stream of its own for one operation, which has no id.                 *)
Serve(c, p) ==
  /\ stream[c] = "new"
  /\ operation[p] = "new"
  /\ stream' = [stream EXCEPT ![c] = "open"]
  /\ operation' = [operation EXCEPT ![p] = "running"]
  /\ streamOf' = [streamOf EXCEPT ![p] = c]
  /\ UNCHANGED <<reserved, tokenOf, interrupted, idOf, leads, orders, overdue>>

ToEnd(p) == p \in stopped \/ streamOf[p] \in interrupted

(* One result may be on its way when the operation is told to end.         *)
LateResult(p) ==
  /\ operation[p] = "running"
  /\ ToEnd(p)
  /\ overdue[p] = 0
  /\ overdue' = [overdue EXCEPT ![p] = 1]
  /\ UNCHANGED <<streamVars, operation, streamOf, idOf, leads, orders>>

(* An operation takes with it what its id leads to, and may take its       *)
(* stream with it.                                                         *)
End(p) ==
  LET c == streamOf[p] IN
  /\ operation[p] = "running"
  /\ tokenOf[c] # NoToken
  /\ operation' = [operation EXCEPT ![p] = "over"]
  /\ leads' = [leads EXCEPT ![tokenOf[c]][idOf[p]] = NoOperation]
  /\ \E casualties \in SUBSET {c} : interrupted' = interrupted \cup casualties
  /\ UNCHANGED <<reserved, tokenOf, stream, streamOf, idOf, orders, overdue>>

EndServed(p) ==
  LET c == streamOf[p] IN
  /\ operation[p] = "running"
  /\ tokenOf[c] = NoToken
  /\ operation' = [operation EXCEPT ![p] = "over"]
  /\ stream' = [stream EXCEPT ![c] = "closed"]
  /\ UNCHANGED <<reserved, tokenOf, interrupted, streamOf, idOf, leads, orders, overdue>>

(* An order to stop names an operation by its id, and reaches it later.    *)
Order(t, id) ==
  /\ leads[t][id] # NoOperation
  /\ doomed' = doomed \cup {leads[t][id]}
  /\ UNCHANGED <<streamVars, operation, streamOf, idOf, leads, stopped, overdue>>

Stop(p) ==
  /\ p \in doomed
  /\ doomed' = doomed \ {p}
  /\ stopped' = stopped \cup {p}
  /\ UNCHANGED <<streamVars, operation, streamOf, idOf, leads, overdue>>

Next ==
  \/ \E t \in Tokens : Reserve(t) \/ \E id \in OperationIds : Order(t, id)
  \/ \E c \in Streams :
       \/ \E t \in Tokens : Open(c, t)
       \/ Refuse(c) \/ Interrupt(c) \/ Close(c)
       \/ \E p \in Operations : Serve(c, p) \/ \E id \in OperationIds : Start(c, p, id)
  \/ \E p \in Operations : LateResult(p) \/ End(p) \/ EndServed(p) \/ Stop(p)

Spec == Init /\ [][Next]_vars
=============================================================================
