------------------------ MODULE GraphQLUpgradeProofs ------------------------
(***************************************************************************)
(* Proofs about the upgrade and the authentication of WebSocket            *)
(* connections (GraphQLUpgrade), for any number of connections, messages,  *)
(* credentials and revocations.  The invariant is that of one connection:  *)
(* connections meet in the mapping of the path and in the credentials that *)
(* are accepted, and nowhere else.                                         *)
(***************************************************************************)
EXTENDS GraphQLUpgrade, TLAPS

(* Until it is upgraded a request has no connection; what the connection   *)
(* then keeps of the request is that request's own.                        *)
RequestInv(u) ==
  /\ upgrade[u] = "upgraded" => context[u] = cookie[u]
  /\ upgrade[u] # "upgraded" =>
       /\ message[u] = "none" /\ outcome[u] = "none" /\ asking[u] = "nobody"
       /\ initRequest[u] = Unset /\ principal[u] = NoCredential
       /\ userPrincipal[u] = NoCredential
  /\ userPrincipal[u] \in {cookie[u], NoCredential}

(* Only the handling of a message asks, and asks what there is.            *)
AskingInv(u) ==
  /\ asking[u] # "nobody" => message[u] # "none"
  /\ asking[u] = "init" => initRequest[u] # Unset
  /\ message[u] # "none" => outcome[u] = "none"

(* The history covers what was accepted and refused since the message was  *)
(* taken, the present included.                                            *)
HistoryInv(u) ==
  message[u] # "none"
    => valid \subseteq validSince[u] /\ Presented \ valid \subseteq invalidSince[u]

(* The principal is somebody the client of this connection presented ...   *)
OwnInv(u) ==
  asking[u] # "init" => principal[u] \in {initRequest[u], cookie[u], NoCredential}

(* ... and stands for what came of the credentials asked so far: those of  *)
(* the connection_init, and then those of the upgrade request.             *)
Failed(u) == initRequest[u] \in invalidSince[u] \cup {Unset}
Found(u) ==
  /\ principal[u] # NoCredential =>
       principal[u] \in validSince[u] /\ (principal[u] = initRequest[u] \/ Failed(u))
  /\ principal[u] = NoCredential => Failed(u) /\ cookie[u] \in invalidSince[u]

FoundInv(u) ==
  authFilter =>
    /\ asking[u] = "upgrade" => Failed(u)
    /\ message[u] # "none" /\ asking[u] = "nobody" => Found(u)
    /\ outcome[u] \in {"running", "acknowledged", "unauthorized"} => Found(u)

(* Who is authorized and who is not.                                       *)
OutcomeInv(u) ==
  /\ outcome[u] = "running" /\ CheckAuthorization => principal[u] # NoCredential
  /\ outcome[u] = "unauthorized" => principal[u] = NoCredential

ConnectionInv(u) ==
  /\ RequestInv(u) /\ AskingInv(u) /\ HistoryInv(u) /\ OwnInv(u) /\ FoundInv(u)
  /\ OutcomeInv(u)

Inv == TypeOK /\ MappedOnce /\ \A u \in Upgrades : ConnectionInv(u)

(* The part of the state one connection has to itself, and what it shares. *)
RequestOf(u) == <<upgrade[u], cookie[u], context[u], userPrincipal[u], initRequest[u]>>
HandlingOf(u) ==
  <<message[u], asking[u], principal[u], outcome[u], validSince[u], invalidSince[u]>>
Untouched(u) == UNCHANGED <<authFilter, valid, RequestOf(u), HandlingOf(u)>>

LEMMA UntouchedLemma ==
  ASSUME NEW u \in Upgrades, ConnectionInv(u), Untouched(u)
  PROVE  ConnectionInv(u)'
<1> USE DEF ConnectionInv, Untouched, RequestOf, HandlingOf
<1>1. RequestInv(u)' /\ AskingInv(u)' /\ HistoryInv(u)'
  BY DEF RequestInv, AskingInv, HistoryInv
<1>2. OwnInv(u)' /\ OutcomeInv(u)'
  BY DEF OwnInv, OutcomeInv
<1>3. FoundInv(u)'
  BY DEF FoundInv, Found, Failed
<1> QED
  BY <1>1, <1>2, <1>3

-----------------------------------------------------------------------------
(* Types.                                                                  *)
LEMMA TypeStep ==
  ASSUME TypeOK, [Next]_vars
  PROVE  TypeOK'
<1>0. /\ changes \in 0..MaxChanges /\ mappings \in Nat
      /\ taken \in [Upgrades -> Nat]
  BY DEF TypeOK
<1>1. ASSUME NEW accepted \in SUBSET Credentials, Change(accepted)
      PROVE  TypeOK'
  <2> USE <1>1 DEF Change
  <2>1. changes' \in 0..MaxChanges
    BY <1>0, BoundsAssumption
  <2>2. /\ validSince' \in [Upgrades -> SUBSET Presented]
        /\ invalidSince' \in [Upgrades -> SUBSET Presented]
    BY DEF TypeOK, Presented
  <2> QED
    BY <2>1, <2>2 DEF TypeOK, authVars, upgradeVars, connectionVars
<1>2. ASSUME NEW u \in Upgrades, Upgrade(u)
      PROVE  TypeOK'
  <2> USE DEF authVars, connectionVars, handlingVars
  <2>1. ASSUME NEW c \in Presented, setAuthCookie(u, c)
        PROVE  TypeOK'
    BY <2>1 DEF TypeOK, setAuthCookie
  <2>2. CASE graphQLUpgrade(u) \/ EnterLock(u) \/ addMapping(u) \/ NotAllowed(u)
    <3>1. /\ mappings' \in Nat
          /\ UNCHANGED requestVars
      BY <2>2, <1>0 DEF graphQLUpgrade, EnterLock, addMapping, NotAllowed
    <3>2. /\ upgrade' \in [Upgrades ->
                             {"new", "locking", "locked", "mapped", "upgraded", "refused"}]
          /\ UNCHANGED <<authVars, cookie, connectionVars, handlingVars>>
      BY <2>2 DEF graphQLUpgrade, EnterLock, addMapping, NotAllowed, MoveTo, TypeOK
    <3> QED
      BY <3>1, <3>2 DEF TypeOK, requestVars
  <2>3. ASSUME NEW p \in {NoCredential, cookie[u]},
               NEW protocol \in {"graphql-ws", "graphql-transport-ws"},
               createWebSocket(u, p, protocol)
        PROVE  TypeOK'
    <3>1. cookie[u] \in Presented /\ p \in Presented
      BY DEF TypeOK, Presented
    <3>2. /\ context' \in [Upgrades -> Presented]
          /\ userPrincipal' \in [Upgrades -> Presented]
          /\ subProtocol' \in [Upgrades -> {"graphql-ws", "graphql-transport-ws"}]
      BY <2>3, <3>1 DEF TypeOK, createWebSocket
    <3> QED
      BY <2>3, <3>2 DEF TypeOK, createWebSocket, MoveTo
  <2> QED
    BY <1>2, <2>1, <2>2, <2>3 DEF Upgrade
<1>3. ASSUME NEW u \in Upgrades, Consume(u)
      PROVE  TypeOK'
  <2>1. ASSUME NEW type \in {"none", "connection_init", "start"},
               NEW whom \in {"nobody", "init", "upgrade"}, Take(u, type, whom),
               initRequest' \in [Upgrades -> Presented \cup {Unset}],
               UNCHANGED <<keepAliveStarted, principal>>
        PROVE  TypeOK'
    <3>1. validSince' \in [Upgrades -> SUBSET Presented]
          /\ invalidSince' \in [Upgrades -> SUBSET Presented]
      BY <2>1 DEF TypeOK, Take, Presented
    <3>2. /\ message' \in [Upgrades -> {"none", "connection_init", "start"}]
          /\ asking' \in [Upgrades -> {"nobody", "init", "upgrade"}]
      BY <2>1 DEF TypeOK, Take
    <3>3. taken' \in [Upgrades -> Nat]
      BY <2>1, <1>0 DEF Take
    <3> QED
      BY <2>1, <3>1, <3>2, <3>3 DEF TypeOK, Take, authVars, upgradeVars
  <2>2. ASSUME NEW c \in Presented, ConnectionInit(u, c)
        PROVE  TypeOK'
    BY <2>1, <2>2 DEF TypeOK, ConnectionInit, connectionVars
  <2>3. CASE QueryStart(u)
    BY <2>1, <2>3 DEF TypeOK, QueryStart, connectionVars
  <2>4. ASSUME NEW whom, NEW found \in Presented, NEW next \in {"nobody", "init", "upgrade"},
               Ask(u, whom, found, next)
        PROVE  TypeOK'
    BY <2>4 DEF TypeOK, Ask, authVars, upgradeVars, connectionVars
  <2>5. \A c \in Presented \cup {Unset} : invoke(u, c) \in Presented
    BY DEF TypeOK, invoke, Presented
  <2>6. CASE AskInit(u)
    BY <2>4, <2>5, <2>6 DEF TypeOK, AskInit
  <2>7. CASE AskUpgrade(u)
    BY <2>4, <2>5, <2>7 DEF TypeOK, AskUpgrade
  <2>8. ASSUME NEW type,
               NEW o \in {"acknowledged", "unauthorized", "too early", "invalid", "running"},
               Decide(u, type, o), keepAliveStarted' \in [Upgrades -> BOOLEAN]
        PROVE  TypeOK'
    BY <2>8 DEF TypeOK, Decide, authVars, upgradeVars
  <2>9. CASE handleConnectionInit(u)
    <3>1. keepAliveStarted' \in [Upgrades -> BOOLEAN]
      BY <2>9 DEF TypeOK, handleConnectionInit
    <3> QED
      BY <2>8, <2>9, <3>1 DEF TypeOK, handleConnectionInit
  <2>10. CASE handleQueryStart(u)
    BY <2>8, <2>10 DEF TypeOK, handleQueryStart
  <2> QED
    BY <1>3, <2>2, <2>3, <2>6, <2>7, <2>9, <2>10 DEF Consume
<1>4. CASE UNCHANGED vars
  BY <1>4 DEF TypeOK, vars, authVars, upgradeVars, connectionVars, handlingVars
<1>5. ASSUME NEW c \in Credentials, Revoke(c) \/ Accept(c)
      PROVE  TypeOK'
  BY <1>5, <1>1 DEF TypeOK, Revoke, Accept
<1> QED
  BY <1>2, <1>3, <1>4, <1>5 DEF Next

-----------------------------------------------------------------------------
(* Connections.  Credentials change: the history grows with them.          *)
LEMMA ChangeLemma ==
  ASSUME TypeOK, NEW accepted \in SUBSET Credentials, Change(accepted),
         NEW u \in Upgrades, ConnectionInv(u)
  PROVE  ConnectionInv(u)'
<1>1. UNCHANGED <<authFilter, RequestOf(u), message[u], asking[u], principal[u], outcome[u]>>
  BY DEF Change, authVars, upgradeVars, connectionVars, RequestOf
<1>2. /\ valid' = accepted
      /\ validSince'[u] = IF message[u] = "none" THEN validSince[u]
                          ELSE validSince[u] \cup accepted
      /\ invalidSince'[u] = IF message[u] = "none" THEN invalidSince[u]
                            ELSE invalidSince[u] \cup (Presented \ accepted)
  BY DEF Change
<1> USE <1>1, <1>2 DEF ConnectionInv, RequestOf
<1>3. RequestInv(u)' /\ AskingInv(u)' /\ OwnInv(u)' /\ OutcomeInv(u)'
  BY DEF RequestInv, AskingInv, OwnInv, OutcomeInv
<1>4. HistoryInv(u)'
  BY DEF HistoryInv
<1>5. FoundInv(u)'
  BY DEF FoundInv, Found, Failed
<1> QED
  BY <1>3, <1>4, <1>5

(* A client that has not asked for the upgrade yet gets a cookie.          *)
LEMMA CookieLemma ==
  ASSUME TypeOK, NEW u \in Upgrades, NEW c \in Presented, setAuthCookie(u, c),
         ConnectionInv(u)
  PROVE  ConnectionInv(u)'
<1>1. /\ upgrade[u] = "new"
      /\ UNCHANGED <<authFilter, valid, upgrade[u], context[u], userPrincipal[u], initRequest[u],
                     HandlingOf(u)>>
  BY DEF setAuthCookie, authVars, connectionVars, handlingVars, HandlingOf
<1> USE <1>1 DEF ConnectionInv, RequestInv, HandlingOf
<1>2. RequestInv(u)' /\ AskingInv(u)' /\ HistoryInv(u)' /\ OwnInv(u)' /\ OutcomeInv(u)'
  BY DEF AskingInv, HistoryInv, OwnInv, OutcomeInv
<1>3. FoundInv(u)'
  BY DEF FoundInv
<1> QED
  BY <1>2, <1>3

(* Before the upgrade a request only moves.                                *)
LEMMA MoveLemma ==
  ASSUME TypeOK, NEW u \in Upgrades, ConnectionInv(u),
         graphQLUpgrade(u) \/ EnterLock(u) \/ addMapping(u) \/ NotAllowed(u)
  PROVE  ConnectionInv(u)'
<1>1. /\ upgrade[u] # "upgraded" /\ upgrade'[u] # "upgraded"
      /\ UNCHANGED <<authVars, cookie, requestVars, connectionVars, handlingVars>>
  BY DEF TypeOK, graphQLUpgrade, EnterLock, addMapping, NotAllowed, MoveTo
<1>2. UNCHANGED <<authFilter, valid, cookie[u], context[u], userPrincipal[u], initRequest[u],
                  HandlingOf(u)>>
  BY <1>1 DEF authVars, requestVars, connectionVars, handlingVars, HandlingOf
<1> USE <1>1, <1>2 DEF ConnectionInv, HandlingOf
<1>3. RequestInv(u)' /\ AskingInv(u)' /\ HistoryInv(u)' /\ OwnInv(u)' /\ OutcomeInv(u)'
  BY DEF RequestInv, AskingInv, HistoryInv, OwnInv, OutcomeInv
<1>4. FoundInv(u)'
  BY DEF FoundInv, Found, Failed
<1> QED
  BY <1>3, <1>4

(* The connection gets the cookie and the principal of its own request.    *)
LEMMA CreateLemma ==
  ASSUME TypeOK, NEW u \in Upgrades, ConnectionInv(u),
         NEW p \in {NoCredential, cookie[u]}, NEW protocol, createWebSocket(u, p, protocol)
  PROVE  ConnectionInv(u)'
<1>1. /\ upgrade[u] = "mapped" /\ upgrade'[u] = "upgraded"
      /\ context'[u] = cookie[u] /\ userPrincipal'[u] = p
      /\ UNCHANGED <<authVars, cookie, connectionVars, handlingVars>>
  BY DEF TypeOK, createWebSocket, MoveTo
<1>2. UNCHANGED <<authFilter, valid, cookie[u], initRequest[u], HandlingOf(u)>>
  BY <1>1 DEF authVars, connectionVars, handlingVars, HandlingOf
<1> USE <1>1, <1>2 DEF ConnectionInv, RequestInv, HandlingOf
<1>3. RequestInv(u)' /\ AskingInv(u)' /\ HistoryInv(u)' /\ OwnInv(u)' /\ OutcomeInv(u)'
  BY DEF AskingInv, HistoryInv, OwnInv, OutcomeInv
<1>4. FoundInv(u)'
  BY DEF FoundInv
<1> QED
  BY <1>3, <1>4

(* A message is taken: the history starts, and nobody has been asked.      *)
LEMMA TakeLemma ==
  ASSUME TypeOK, NEW u \in Upgrades, ConnectionInv(u), NEW type, NEW whom,
         Take(u, type, whom), UNCHANGED principal,
         \/ type = "connection_init" /\ whom = "init" /\ initRequest'[u] \in Presented
         \/ type = "none" /\ whom = "nobody" /\ UNCHANGED initRequest
         \/ type = "start" /\ UNCHANGED initRequest
              /\ whom = IF initRequest[u] = Unset THEN "upgrade" ELSE "init"
  PROVE  ConnectionInv(u)'
<1>1. /\ upgrade[u] = "upgraded" /\ message[u] = "none"
      /\ message'[u] = type /\ asking'[u] = whom /\ outcome'[u] = "none"
      /\ validSince'[u] = valid /\ invalidSince'[u] = Presented \ valid
      /\ principal'[u] = principal[u]
  BY DEF TypeOK, Take
<1>2. UNCHANGED <<authFilter, valid, upgrade[u], cookie[u], context[u], userPrincipal[u]>>
  BY DEF Take, authVars, upgradeVars
<1> USE <1>1, <1>2 DEF ConnectionInv
<1>3. RequestInv(u)' /\ HistoryInv(u)' /\ OutcomeInv(u)'
  BY DEF RequestInv, HistoryInv, OutcomeInv
<1>4. AskingInv(u)' /\ OwnInv(u)'
  BY UnsetAssumption DEF AskingInv, OwnInv
<1>5. FoundInv(u)'
  BY DEF FoundInv, Failed
<1> QED
  BY <1>3, <1>4, <1>5

(* What asking the authenticator comes to.                                 *)
LEMMA InvokeLemma ==
  ASSUME NEW u \in Upgrades, NEW c, ConnectionInv(u), valid \subseteq Credentials
  PROVE  /\ authFilter => invoke(u, c) \in {c, NoCredential}
         /\ authFilter => (invoke(u, c) # NoCredential <=> c \in valid)
         /\ ~authFilter => invoke(u, c) \in {cookie[u], NoCredential}
  BY NoCredentialAssumption DEF invoke, ConnectionInv, RequestInv

LEMMA AskInitLemma ==
  ASSUME TypeOK, NEW u \in Upgrades, ConnectionInv(u), AskInit(u)
  PROVE  ConnectionInv(u)'
<1> DEFINE found == invoke(u, initRequest[u])
<1>1. /\ asking[u] = "init" /\ principal'[u] = found
      /\ asking'[u] = IF found = NoCredential THEN "upgrade" ELSE "nobody"
  BY DEF TypeOK, AskInit, Ask
<1>2. UNCHANGED <<authFilter, valid, RequestOf(u), message[u], outcome[u], validSince[u],
                  invalidSince[u]>>
  BY DEF AskInit, Ask, authVars, upgradeVars, connectionVars, RequestOf
<1>3. /\ authFilter => found \in {initRequest[u], NoCredential}
      /\ authFilter => (found # NoCredential <=> initRequest[u] \in valid)
      /\ ~authFilter => found \in {cookie[u], NoCredential}
  BY InvokeLemma DEF TypeOK
<1>4. initRequest[u] \in Presented
  BY <1>1 DEF TypeOK, ConnectionInv, AskingInv
<1> HIDE DEF found
<1> USE <1>1, <1>2 DEF ConnectionInv, RequestOf, RequestInv, AskingInv
<1>5. RequestInv(u)' /\ AskingInv(u)' /\ HistoryInv(u)' /\ OutcomeInv(u)'
  BY DEF HistoryInv, OutcomeInv
<1>6. OwnInv(u)'
  BY <1>3 DEF OwnInv
<1>7. FoundInv(u)'
  BY <1>3, <1>4 DEF FoundInv, Found, Failed, HistoryInv
<1> QED
  BY <1>5, <1>6, <1>7

LEMMA AskUpgradeLemma ==
  ASSUME TypeOK, NEW u \in Upgrades, ConnectionInv(u), AskUpgrade(u)
  PROVE  ConnectionInv(u)'
<1> DEFINE found == invoke(u, context[u])
<1>1. asking[u] = "upgrade" /\ principal'[u] = found /\ asking'[u] = "nobody"
  BY DEF TypeOK, AskUpgrade, Ask
<1>2. UNCHANGED <<authFilter, valid, RequestOf(u), message[u], outcome[u], validSince[u],
                  invalidSince[u]>>
  BY DEF AskUpgrade, Ask, authVars, upgradeVars, connectionVars, RequestOf
<1>3. /\ authFilter => found \in {context[u], NoCredential}
      /\ authFilter => (found # NoCredential <=> context[u] \in valid)
      /\ ~authFilter => found \in {cookie[u], NoCredential}
  BY InvokeLemma DEF TypeOK
<1>4. context[u] = cookie[u] /\ cookie[u] \in Presented
  BY <1>1 DEF TypeOK, ConnectionInv, AskingInv, RequestInv
<1> HIDE DEF found
<1> USE <1>1, <1>2 DEF ConnectionInv, RequestOf, RequestInv, AskingInv
<1>5. RequestInv(u)' /\ AskingInv(u)' /\ HistoryInv(u)' /\ OutcomeInv(u)'
  BY DEF HistoryInv, OutcomeInv
<1>6. OwnInv(u)'
  BY <1>3, <1>4 DEF OwnInv
<1>7. FoundInv(u)'
  BY <1>3, <1>4 DEF FoundInv, Found, Failed, HistoryInv
<1> QED
  BY <1>5, <1>6, <1>7

(* The outcome says what was found.                                        *)
LEMMA DecideLemma ==
  ASSUME TypeOK, NEW u \in Upgrades, ConnectionInv(u),
         handleConnectionInit(u) \/ handleQueryStart(u)
  PROVE  ConnectionInv(u)'
<1>1. PICK type \in {"connection_init", "start"},
           o \in {"acknowledged", "unauthorized", "too early", "invalid", "running"} :
        /\ Decide(u, type, o)
        /\ o = "unauthorized" => Refused(u)
        /\ o = "running" => ~Refused(u)
  BY DEF handleConnectionInit, handleQueryStart
<1>2. /\ message[u] = type /\ asking[u] = "nobody"
      /\ message'[u] = "none" /\ outcome'[u] = o
  BY <1>1 DEF TypeOK, Decide
<1>3. UNCHANGED <<authFilter, valid, RequestOf(u), asking[u], principal[u], validSince[u],
                  invalidSince[u]>>
  BY <1>1 DEF Decide, authVars, upgradeVars, RequestOf
<1> USE <1>2, <1>3 DEF ConnectionInv, RequestOf
<1>4. RequestInv(u)' /\ AskingInv(u)' /\ HistoryInv(u)' /\ OwnInv(u)'
  BY DEF RequestInv, AskingInv, HistoryInv, OwnInv
<1>5. OutcomeInv(u)'
  BY <1>1 DEF OutcomeInv, Refused
<1>6. FoundInv(u)'
  BY DEF FoundInv, Found, Failed
<1> QED
  BY <1>4, <1>5, <1>6

-----------------------------------------------------------------------------
(* A step of one connection leaves the others alone.                       *)
LEMMA OthersLemma ==
  ASSUME TypeOK, NEW u \in Upgrades, Upgrade(u) \/ Consume(u),
         NEW v \in Upgrades \ {u}
  PROVE  Untouched(v)
<1> USE DEF TypeOK, Untouched, RequestOf, HandlingOf
<1>1. CASE \E c \in Presented : setAuthCookie(u, c)
  BY <1>1 DEF setAuthCookie, authVars, connectionVars, handlingVars
<1>2. CASE graphQLUpgrade(u) \/ EnterLock(u) \/ addMapping(u) \/ NotAllowed(u)
  BY <1>2 DEF graphQLUpgrade, EnterLock, addMapping, NotAllowed, MoveTo, requestVars, authVars,
              connectionVars, handlingVars
<1>3. CASE \E p \in {NoCredential, cookie[u]}, protocol \in {"graphql-ws", "graphql-transport-ws"} :
             createWebSocket(u, p, protocol)
  BY <1>3 DEF createWebSocket, MoveTo, authVars, connectionVars, handlingVars
<1>4. CASE (\E c \in Presented : ConnectionInit(u, c)) \/ QueryStart(u)
  <2>1. /\ UNCHANGED <<authVars, upgradeVars, principal>>
        /\ UNCHANGED initRequest[v]
    BY <1>4 DEF ConnectionInit, QueryStart, Take, connectionVars
  <2>2. PICK type, whom : Take(u, type, whom)
    BY <1>4 DEF ConnectionInit, QueryStart
  <2>3. UNCHANGED <<message[v], asking[v], outcome[v], validSince[v], invalidSince[v]>>
    BY <2>2 DEF Take
  <2> QED
    BY <2>1, <2>3 DEF authVars, upgradeVars
<1>5. CASE AskInit(u) \/ AskUpgrade(u)
  BY <1>5 DEF AskInit, AskUpgrade, Ask, authVars, upgradeVars, connectionVars
<1>6. CASE handleConnectionInit(u) \/ handleQueryStart(u)
  BY <1>6 DEF handleConnectionInit, handleQueryStart, Decide, authVars, upgradeVars
<1> QED
  BY <1>1, <1>2, <1>3, <1>4, <1>5, <1>6 DEF Upgrade, Consume

LEMMA OwnStepLemma ==
  ASSUME TypeOK, NEW u \in Upgrades, ConnectionInv(u), Upgrade(u) \/ Consume(u)
  PROVE  ConnectionInv(u)'
<1>1. CASE Upgrade(u)
  BY <1>1, CookieLemma, MoveLemma, CreateLemma DEF Upgrade
<1>2. ASSUME NEW c \in Presented, ConnectionInit(u, c)
      PROVE  ConnectionInv(u)'
  <2>1. CASE Take(u, "connection_init", "init") /\ UNCHANGED principal
               /\ initRequest' = [initRequest EXCEPT ![u] = c]
    <3>1. initRequest'[u] \in Presented
      BY <2>1 DEF TypeOK
    <3> QED
      BY <2>1, <3>1, TakeLemma
  <2>2. CASE Take(u, "none", "nobody") /\ UNCHANGED <<initRequest, principal>>
    BY <2>2, TakeLemma
  <2> QED
    BY <1>2, <2>1, <2>2 DEF ConnectionInit, connectionVars
<1>3. CASE QueryStart(u)
  BY <1>3, TakeLemma DEF QueryStart, connectionVars
<1>4. CASE Consume(u)
  BY <1>2, <1>3, <1>4, AskInitLemma, AskUpgradeLemma, DecideLemma DEF Consume
<1> QED
  BY <1>1, <1>4

(* The path is mapped once: the test is repeated under the lock.           *)
LEMMA MappedStep ==
  ASSUME TypeOK, MappedOnce, [Next]_vars
  PROVE  MappedOnce'
<1>1. mappings \in Nat
  BY DEF TypeOK
<1>2. UNCHANGED mappings \/ mappings' = (IF mappings = 0 THEN 1 ELSE mappings)
  <2>1. ASSUME NEW u \in Upgrades, Upgrade(u)
        PROVE  UNCHANGED mappings \/ mappings' = (IF mappings = 0 THEN 1 ELSE mappings)
    BY <2>1 DEF Upgrade, setAuthCookie, graphQLUpgrade, EnterLock, addMapping, NotAllowed,
                createWebSocket
  <2>2. ASSUME NEW u \in Upgrades, Consume(u)
        PROVE  UNCHANGED mappings
    BY <2>2 DEF Consume, ConnectionInit, QueryStart, AskInit, AskUpgrade, handleConnectionInit,
                handleQueryStart, Take, Ask, Decide, upgradeVars
  <2>3. ASSUME NEW c \in Credentials, Revoke(c) \/ Accept(c)
        PROVE  UNCHANGED mappings
    BY <2>3 DEF Revoke, Accept, Change, upgradeVars
  <2> QED
    BY <2>1, <2>2, <2>3 DEF Next, vars, upgradeVars
<1> QED
  BY <1>1, <1>2 DEF MappedOnce

-----------------------------------------------------------------------------
LEMMA InitInv == Init => Inv
<1> SUFFICES ASSUME Init PROVE Inv
  OBVIOUS
<1>1. TypeOK
  BY BoundsAssumption DEF Init, TypeOK, Presented
<1>2. MappedOnce
  BY DEF Init, MappedOnce
<1>3. ASSUME NEW u \in Upgrades
      PROVE  ConnectionInv(u)
  BY DEF Init, ConnectionInv, RequestInv, AskingInv, HistoryInv, OwnInv, FoundInv, OutcomeInv
<1> QED
  BY <1>1, <1>2, <1>3 DEF Inv

LEMMA NextInv == Inv /\ [Next]_vars => Inv'
<1> SUFFICES ASSUME Inv, [Next]_vars PROVE Inv'
  OBVIOUS
<1>1. TypeOK' /\ MappedOnce'
  BY TypeStep, MappedStep DEF Inv
<1>2. ASSUME NEW v \in Upgrades
      PROVE  ConnectionInv(v)'
  <2>1. CASE \E c \in Credentials : Revoke(c) \/ Accept(c)
    <3>1. PICK accepted \in SUBSET Credentials : Change(accepted)
      BY <2>1 DEF Revoke, Accept, Inv, TypeOK
    <3> QED
      BY <3>1, ChangeLemma DEF Inv
  <2>2. ASSUME NEW u \in Upgrades, Upgrade(u) \/ Consume(u)
        PROVE  ConnectionInv(v)'
    <3>1. CASE u = v
      BY <2>2, <3>1, OwnStepLemma DEF Inv
    <3>2. CASE u # v
      BY <2>2, <3>2, OthersLemma, UntouchedLemma DEF Inv
    <3> QED
      BY <3>1, <3>2
  <2>3. CASE UNCHANGED vars
    <3>1. Untouched(v)
      BY <2>3 DEF vars, authVars, upgradeVars, connectionVars, handlingVars, Untouched, RequestOf,
                  HandlingOf
    <3> QED
      BY <3>1, UntouchedLemma DEF Inv
  <2> QED
    BY <2>1, <2>2, <2>3 DEF Next
<1> QED
  BY <1>1, <1>2 DEF Inv

(* The inductive invariant: what a connection keeps of its upgrade, and    *)
(* what its principal says about the credentials asked so far.             *)
THEOREM Invariance == Spec => []Inv
  BY InitInv, NextInv, PTL DEF Spec

(* Every state is well typed.                                              *)
THEOREM TypeCorrect == Spec => []TypeOK
<1>1. Inv => TypeOK
  BY DEF Inv
<1> QED
  BY <1>1, Invariance, PTL

(* Of all the upgrades that find no mapping for the path one adds it       *)
(* (doWebSocketUpgrade).                                                   *)
THEOREM OneMapping == Spec => []MappedOnce
<1>1. Inv => MappedOnce
  BY DEF Inv
<1> QED
  BY <1>1, Invariance, PTL

(* Where an AuthFilter and checkAuthorization are set, a query runs for    *)
(* somebody accepted since the client sent it (getSocketPrincipal is       *)
(* evaluated for each query), however credentials are revoked meanwhile.   *)
THEOREM FreshPrincipal == Spec => []QueriesAuthorized
<1>1. Inv => QueriesAuthorized
  BY DEF Inv, ConnectionInv, FoundInv, Found, OutcomeInv, QueriesAuthorized
<1> QED
  BY <1>1, Invariance, PTL

(* A connection acts for nobody but its own client: the context object     *)
(* that createWebSocket builds is not shared.                              *)
THEOREM OwnPrincipal == Spec => []OwnCredentials
<1>1. Inv => OwnCredentials
  <2> SUFFICES ASSUME Inv, NEW u \in Upgrades, outcome[u] \in {"running", "acknowledged"}
               PROVE  principal[u] \in {initRequest[u], cookie[u], NoCredential}
    BY DEF OwnCredentials
  <2> QED
    BY DEF Inv, TypeOK, ConnectionInv, AskingInv, OwnInv
<1> QED
  BY <1>1, Invariance, PTL

(* The credentials of the connection_init take precedence ...              *)
THEOREM InitFirst == Spec => []InitCredentialsFirst
<1>1. Inv => InitCredentialsFirst
  BY UnsetAssumption DEF Inv, ConnectionInv, FoundInv, Found, Failed, InitCredentialsFirst, Presented
<1> QED
  BY <1>1, Invariance, PTL

(* ... and nobody is turned away before those of the upgrade request were  *)
(* asked too.                                                              *)
THEOREM Justified == Spec => []RefusalsJustified
<1>1. Inv => RefusalsJustified
  BY DEF Inv, ConnectionInv, FoundInv, Found, Failed, OutcomeInv, RefusalsJustified
<1> QED
  BY <1>1, Invariance, PTL
=============================================================================
