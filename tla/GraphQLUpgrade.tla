--------------------------- MODULE GraphQLUpgrade ---------------------------
(***************************************************************************)
(* Who a WebSocket connection belongs to: the upgrade of a GET request     *)
(* (graphQLUpgrade, doWebSocketUpgrade, createWebSocket), and the          *)
(* authentication that each connection_init and each query asks for again  *)
(* (getSocketPrincipal), while credentials are revoked and accepted.       *)
(*                                                                         *)
(* Upgrade requests run on servlet threads of their own, each connection   *)
(* has a consumer of its own.  A credential stands for the principal it    *)
(* belongs to.  What a connection does with its queries is                 *)
(* GraphQLWebSocket's; Jetty's mappings, the container's authentication    *)
(* and the authenticator that knows the credentials are external.          *)
(***************************************************************************)
EXTENDS Integers, FiniteSets

CONSTANTS
  Upgrades,           (* the upgrade requests, and their connections       *)
  Credentials,        (* what a client may present                         *)
  NoCredential,       (* nothing presented, nobody authenticated           *)
  CheckAuthorization, (* graphQLConfig.checkAuthorization                  *)
  MaxMessages,        (* bound: messages sent on each connection           *)
  MaxChanges          (* bound: credentials revoked or accepted            *)

ASSUME NoCredentialAssumption == NoCredential \notin Credentials
ASSUME BoundsAssumption == MaxMessages \in [Upgrades -> Nat] /\ MaxChanges \in Nat

Unset == "unset"
Presented == Credentials \cup {NoCredential}

ASSUME UnsetAssumption == Unset \notin Presented

VARIABLES
  authFilter,       (* an AuthFilter is bound                              *)
  valid,            (* the credentials the AuthFilter accepts              *)
  changes,          (* how often that has changed                          *)
  mappings,         (* calls of addMapping for the path                    *)
  upgrade,          (* where each upgrade request is                       *)
  cookie,           (* the authorization cookie of each client             *)
  context,          (* upgradeContainerRequestContext: the credentials,    *)
  userPrincipal,    (* and the principal the container had authenticated   *)
  subProtocol,      (* the sub-protocol agreed on                          *)
  initRequest,      (* connectionInitContainerRequest                      *)
  keepAliveStarted, (* the connection has been acknowledged                *)
  message,          (* the message the consumer handles                    *)
  asking,           (* whom getSocketPrincipal() is about to ask           *)
  principal,        (* what it came to                                     *)
  outcome,          (* what came of the last message                       *)
  taken,            (* messages taken from the channel                     *)
  validSince,       (* history: credentials accepted, and                  *)
  invalidSince      (* refused, at some time while the message was handled *)

authVars == <<authFilter, valid, changes>>
upgradeVars == <<mappings, upgrade, cookie, context, userPrincipal, subProtocol>>
connectionVars == <<initRequest, keepAliveStarted>>
handlingVars == <<message, asking, principal, outcome, taken, validSince, invalidSince>>
vars == <<authVars, upgradeVars, connectionVars, handlingVars>>

Init ==
  /\ authFilter \in BOOLEAN
  /\ valid \in SUBSET Credentials
  /\ changes = 0
  /\ mappings = 0
  /\ upgrade = [u \in Upgrades |-> "new"]
  /\ cookie = [u \in Upgrades |-> NoCredential]
  /\ context = [u \in Upgrades |-> NoCredential]
  /\ userPrincipal = [u \in Upgrades |-> NoCredential]
  /\ subProtocol = [u \in Upgrades |-> "graphql-ws"]
  /\ initRequest = [u \in Upgrades |-> Unset]
  /\ keepAliveStarted = [u \in Upgrades |-> FALSE]
  /\ message = [u \in Upgrades |-> "none"]
  /\ asking = [u \in Upgrades |-> "nobody"]
  /\ principal = [u \in Upgrades |-> NoCredential]
  /\ outcome = [u \in Upgrades |-> "none"]
  /\ taken = [u \in Upgrades |-> 0]
  /\ validSince = [u \in Upgrades |-> {}]
  /\ invalidSince = [u \in Upgrades |-> {}]

-----------------------------------------------------------------------------
(* Credentials expire, are revoked, and are accepted again.                *)
Change(accepted) ==
  /\ changes < MaxChanges
  /\ valid' = accepted
  /\ changes' = changes + 1
  /\ validSince' = [u \in Upgrades |->
                      IF message[u] = "none" THEN validSince[u] ELSE validSince[u] \cup accepted]
  /\ invalidSince' = [u \in Upgrades |->
                        IF message[u] = "none" THEN invalidSince[u]
                        ELSE invalidSince[u] \cup (Presented \ accepted)]
  /\ UNCHANGED <<authFilter, upgradeVars, connectionVars, message, asking, principal, outcome,
                 taken>>

Revoke(c) == c \in valid /\ Change(valid \ {c})
Accept(c) == c \notin valid /\ Change(valid \cup {c})

(* GET /auth_cookie: what the client presented comes back as a cookie.     *)
setAuthCookie(u, c) ==
  /\ upgrade[u] = "new"
  /\ cookie' = [cookie EXCEPT ![u] = IF c = NoCredential THEN @ ELSE c]
  /\ UNCHANGED <<authVars, mappings, upgrade, context, userPrincipal, subProtocol,
                 connectionVars, handlingVars>>

-----------------------------------------------------------------------------
(* The upgrade.  The mapping of the path is added under a lock, after a    *)
(* test without and a test with it.                                        *)

MoveTo(u, from, to) ==
  /\ upgrade[u] = from
  /\ upgrade' = [upgrade EXCEPT ![u] = to]
  /\ UNCHANGED <<authVars, cookie, connectionVars, handlingVars>>

requestVars == <<context, userPrincipal, subProtocol>>

(* The origin is refused, or the path is looked up.                        *)
graphQLUpgrade(u) ==
  /\ \/ MoveTo(u, "new", "refused")
     \/ MoveTo(u, "new", IF mappings = 0 THEN "locking" ELSE "mapped")
  /\ UNCHANGED <<mappings, requestVars>>

EnterLock(u) ==
  /\ \A v \in Upgrades : upgrade[v] # "locked"
  /\ MoveTo(u, "locking", "locked")
  /\ UNCHANGED <<mappings, requestVars>>

(* Fault: the mapping is not looked up again.                              *)
FaultSingleCheck(u) ==
  /\ MoveTo(u, "locked", "mapped")
  /\ mappings' = mappings + 1
  /\ UNCHANGED requestVars

addMapping(u) ==
  /\ MoveTo(u, "locked", "mapped")
  /\ mappings' = IF mappings = 0 THEN 1 ELSE mappings
  /\ UNCHANGED requestVars

(* The negotiation fails.                                                  *)
NotAllowed(u) ==
  /\ MoveTo(u, "mapped", "refused")
  /\ UNCHANGED <<mappings, requestVars>>

(* Fault: the creator keeps the request context in a field of its own.     *)
FaultSharedContext(u, p, protocol) ==
  /\ MoveTo(u, "mapped", "upgraded")
  /\ context' = [v \in Upgrades |-> cookie[u]]
  /\ userPrincipal' = [userPrincipal EXCEPT ![u] = p]
  /\ subProtocol' = [subProtocol EXCEPT ![u] = protocol]
  /\ UNCHANGED mappings

(* createWebSocket: the headers of the request, its cookie among them, and *)
(* what the container knows of its sender go with the connection.          *)
createWebSocket(u, p, protocol) ==
  /\ MoveTo(u, "mapped", "upgraded")
  /\ context' = [context EXCEPT ![u] = cookie[u]]
  /\ userPrincipal' = [userPrincipal EXCEPT ![u] = p]
  /\ subProtocol' = [subProtocol EXCEPT ![u] = protocol]
  /\ UNCHANGED mappings

-----------------------------------------------------------------------------
(* The consumer takes a message and authenticates the connection.          *)

Take(u, type, whom) ==
  /\ upgrade[u] = "upgraded"
  /\ message[u] = "none"
  /\ taken[u] < MaxMessages[u]
  /\ taken' = [taken EXCEPT ![u] = @ + 1]
  /\ message' = [message EXCEPT ![u] = type]
  /\ asking' = [asking EXCEPT ![u] = whom]
  /\ outcome' = [outcome EXCEPT ![u] = "none"]
  /\ validSince' = [validSince EXCEPT ![u] = valid]
  /\ invalidSince' = [invalidSince EXCEPT ![u] = Presented \ valid]
  /\ UNCHANGED <<authVars, upgradeVars>>

(* A second init is answered without asking anybody.                       *)
ConnectionInit(u, c) ==
  \/ /\ ~keepAliveStarted[u]
     /\ initRequest' = [initRequest EXCEPT ![u] = c]
     /\ Take(u, "connection_init", "init")
     /\ UNCHANGED <<keepAliveStarted, principal>>
  \/ /\ keepAliveStarted[u]
     /\ Take(u, "none", "nobody")
     /\ UNCHANGED <<connectionVars, principal>>

(* Fault: the principal found first is kept.                               *)
FaultCached(u) ==
  /\ Take(u, "start", IF principal[u] # NoCredential THEN "nobody"
                      ELSE IF initRequest[u] = Unset THEN "upgrade" ELSE "init")
  /\ UNCHANGED <<connectionVars, principal>>

QueryStart(u) ==
  /\ Take(u, "start", IF initRequest[u] = Unset THEN "upgrade" ELSE "init")
  /\ UNCHANGED <<connectionVars, principal>>

(* The authenticator.  A filter that refuses throws, which means nobody;   *)
(* without a filter the principal is whom the container authenticated.     *)
invoke(u, c) ==
  IF ~authFilter THEN userPrincipal[u]
  ELSE IF c \in valid THEN c
  ELSE NoCredential

Ask(u, whom, found, next) ==
  /\ asking[u] = whom
  /\ principal' = [principal EXCEPT ![u] = found]
  /\ asking' = [asking EXCEPT ![u] = next]
  /\ UNCHANGED <<authVars, upgradeVars, connectionVars, message, outcome, taken, validSince,
                 invalidSince>>

(* Fault: the upgrade request is not asked.                                *)
FaultNoFallback(u) == Ask(u, "init", invoke(u, initRequest[u]), "nobody")

(* Fault: the credentials of the upgrade request come first.               *)
FaultUpgradeFirst(u) ==
  LET found == invoke(u, context[u])
  IN  Ask(u, "init", IF found = NoCredential THEN invoke(u, initRequest[u]) ELSE found, "nobody")

AskInit(u) ==
  LET found == invoke(u, initRequest[u])
  IN  Ask(u, "init", found, IF found = NoCredential THEN "upgrade" ELSE "nobody")

(* Fault: a sender nobody knows is whoever the init said it is.            *)
FaultUnknownSender(u) ==
  LET found == invoke(u, context[u])
  IN  Ask(u, "upgrade", IF found = NoCredential THEN initRequest[u] ELSE found, "nobody")

AskUpgrade(u) == Ask(u, "upgrade", invoke(u, context[u]), "nobody")

Decide(u, type, o) ==
  /\ message[u] = type
  /\ asking[u] = "nobody"
  /\ message' = [message EXCEPT ![u] = "none"]
  /\ outcome' = [outcome EXCEPT ![u] = o]
  /\ UNCHANGED <<authVars, upgradeVars, initRequest, asking, principal, taken, validSince,
                 invalidSince>>

Refused(u) == principal[u] = NoCredential /\ CheckAuthorization

handleConnectionInit(u) ==
  \/ /\ Refused(u)
     /\ Decide(u, "connection_init", "unauthorized")
     /\ UNCHANGED keepAliveStarted
  \/ /\ ~Refused(u)
     /\ Decide(u, "connection_init", "acknowledged")
     /\ keepAliveStarted' = [keepAliveStarted EXCEPT ![u] = TRUE]

(* A query of the newer protocol waits for the acknowledgement; a message  *)
(* that is not a query, or uses a running id, is answered with an error.   *)
handleQueryStart(u) ==
  LET early == ~keepAliveStarted[u] /\ subProtocol[u] = "graphql-transport-ws" IN
  /\ \/ early /\ Decide(u, "start", "too early")
     \/ ~early /\ Decide(u, "start", "invalid")
     \/ ~early /\ Refused(u) /\ Decide(u, "start", "unauthorized")
     \/ ~early /\ ~Refused(u) /\ Decide(u, "start", "running")
  /\ UNCHANGED keepAliveStarted

-----------------------------------------------------------------------------
Upgrade(u) ==
  \/ \E c \in Presented : setAuthCookie(u, c)
  \/ graphQLUpgrade(u) \/ EnterLock(u) \/ addMapping(u) \/ NotAllowed(u)
  \/ \E p \in {NoCredential, cookie[u]}, protocol \in {"graphql-ws", "graphql-transport-ws"} :
       createWebSocket(u, p, protocol)

Consume(u) ==
  \/ \E c \in Presented : ConnectionInit(u, c)
  \/ QueryStart(u) \/ AskInit(u) \/ AskUpgrade(u)
  \/ handleConnectionInit(u) \/ handleQueryStart(u)

Next ==
  \/ \E c \in Credentials : Revoke(c) \/ Accept(c)
  \/ \E u \in Upgrades : Upgrade(u) \/ Consume(u)

Spec == Init /\ [][Next]_vars

-----------------------------------------------------------------------------
(* Types of the state.                                                     *)
TypeOK ==
  /\ authFilter \in BOOLEAN
  /\ valid \subseteq Credentials
  /\ changes \in 0..MaxChanges
  /\ mappings \in Nat
  /\ upgrade \in [Upgrades -> {"new", "locking", "locked", "mapped", "upgraded", "refused"}]
  /\ cookie \in [Upgrades -> Presented]
  /\ context \in [Upgrades -> Presented]
  /\ userPrincipal \in [Upgrades -> Presented]
  /\ subProtocol \in [Upgrades -> {"graphql-ws", "graphql-transport-ws"}]
  /\ initRequest \in [Upgrades -> Presented \cup {Unset}]
  /\ keepAliveStarted \in [Upgrades -> BOOLEAN]
  /\ message \in [Upgrades -> {"none", "connection_init", "start"}]
  /\ asking \in [Upgrades -> {"nobody", "init", "upgrade"}]
  /\ principal \in [Upgrades -> Presented]
  /\ outcome \in [Upgrades -> {"none", "acknowledged", "unauthorized", "too early", "invalid", "running"}]
  /\ taken \in [Upgrades -> Nat]
  /\ validSince \in [Upgrades -> SUBSET Presented]
  /\ invalidSince \in [Upgrades -> SUBSET Presented]

(* Jetty throws when a path is mapped a second time: of all the upgrades   *)
(* that find no mapping one adds it.                                       *)
MappedOnce == mappings <= 1

(* "re-evaluate socket Principal on each query, in case creds have         *)
(* expired": a query runs for somebody whose credentials were accepted     *)
(* after the client sent it.                                               *)
QueriesAuthorized ==
  \A u \in Upgrades :
    outcome[u] = "running" /\ authFilter /\ CheckAuthorization => principal[u] \in validSince[u]

(* A query runs for the client of its own connection.                      *)
OwnCredentials ==
  \A u \in Upgrades :
    outcome[u] \in {"running", "acknowledged"}
      => principal[u] \in {initRequest[u], cookie[u], NoCredential}

(* The credentials of the connection_init come first: the others count     *)
(* when those have been refused.                                           *)
InitCredentialsFirst ==
  \A u \in Upgrades :
    /\ outcome[u] \in {"running", "acknowledged"} /\ authFilter
    /\ initRequest[u] \in Credentials \ invalidSince[u]
    => principal[u] = initRequest[u]

(* A client is turned away only when none of the credentials it has        *)
(* presented would do: those of its upgrade request are asked as well.     *)
RefusalsJustified ==
  \A u \in Upgrades :
    outcome[u] = "unauthorized" /\ authFilter
      => initRequest[u] \in invalidSince[u] \cup {Unset} /\ cookie[u] \in invalidSince[u]
=============================================================================
