------------------------- MODULE ConnOwnership_proofs -------------------------
(***************************************************************************)
(* Who owns a connection, for every number of clients, slots and scripts:  *)
(* sockets, slots and timers, and the refinement of ConnLifecycle.         *)
(***************************************************************************)
EXTENDS HTTPdServer_proofs

\* The timer of a connection in the pool carries the slot it is in.
TimerIds == \A i \in Slots : pool[i] # NULL => tid[pool[i]] = i

USE ConnsAssumption

OwnInv == TInv /\ SocketOwnership /\ TimerIds

\* What ownership speaks of.
OwnSame == UNCHANGED <<pool, sock, acc, tid>>

\* Only four actions change who owns a connection.
LEMMA QuietSteps ==
  ASSUME [Next]_vars
  PROVE  \/ OwnSame
         \/ \E c \in Conns : AcceptOne(c) \/ Connect(c)
         \/ \E j \in Slots : AddClient(j)
         \/ VisitFlagged
<1> USE DEF OwnSame, vars, serverVars, timerVars, daemonVars, clientVars, historyVars
<1>1. CASE UNCHANGED vars \/ Halted
  BY <1>1 DEF Halted
<1>2. CASE ServerStart \/ AcceptNone \/ AddWait \/ SetOptions \/ MainLoopWakes
  BY <1>2 DEF ServerStart, AcceptNone, AddWait, SetOptions, MainLoopWakes
<1>3. CASE VisitEmpty \/ VisitHttp \/ VisitWebSocket
  BY <1>3 DEF VisitEmpty, VisitHttp, VisitWebSocket
<1>4. CASE HdrRequest \/ HdrTooLong \/ HdrBytes \/ HdrClientClose \/ HdrWait \/ HdrWakes
  BY <1>4 DEF HdrRequest, HdrTooLong, HdrBytes, HdrClientClose, HdrWait, HdrWakes
<1>5. CASE BodyData \/ BodyClientClose \/ BodyWait \/ BodyWakes
  BY <1>5 DEF BodyData, BodyClientClose, BodyWait, BodyWakes
<1>6. CASE Dispatch \/ Fallback
  BY <1>6 DEF Dispatch, Fallback
<1>7. CASE WsNoFrame \/ WsFrame \/ WsWakes \/ WsNoMemory \/ WsPayloadMissing
  BY <1>7 DEF WsNoFrame, WsFrame, WsWakes, WsNoMemory, WsPayloadMissing
<1>8. CASE WsPayloadEnd \/ WsMessage \/ WsServe
  BY <1>8 DEF WsPayloadEnd, WsMessage, WsServe
<1>9. CASE DaemonStep
  BY <1>9 DEF DaemonStep, DaemonCommand, TimeoutCB_Begin, TimeoutCB_Check, TimeoutCB_Write
<1>10. CASE \E c \in Conns : Send(c)
  BY <1>10 DEF Send
<1> QED BY <1>1, <1>2, <1>3, <1>4, <1>5, <1>6, <1>7, <1>8, <1>9, <1>10
        DEF Next, ServerStep, ClientStep

\* The server has accepted a connection exactly where acc is set.
LEMMA AccIsNull ==
  ASSUME TInv
  PROVE  /\ pc = "accept" => acc = NULL
         /\ pc = "add" => acc \in Conns
BY DEF TInv, TypeOK, PointersSet

\* Accepting: the connection was not in the pool, because it was not open.
LEMMA OwnAcceptOne ==
  ASSUME OwnInv, NEW c \in Conns, AcceptOne(c)
  PROVE  SocketOwnership' /\ TimerIds'
<1>1. /\ pool' = pool /\ tid' = tid /\ acc' = c /\ acc = NULL
      /\ sock[c] = "backlog" /\ sock' = [sock EXCEPT ![c] = "open"]
  BY AccIsNull DEF AcceptOne, At, OwnInv
<1>2. ~InPool(c)
  BY <1>1 DEF OwnInv, SocketOwnership
<1>3. \A d \in Conns : sock'[d] = "open" <=> (d = c \/ sock[d] = "open")
  BY <1>1 DEF OwnInv, TInv, TypeOK
<1>4. \A d \in Conns : sock[d] = "open" <=> InPool(d)
  BY <1>1 DEF OwnInv, SocketOwnership
<1>5. \A d \in Conns : sock'[d] = "open" <=> (d = acc' \/ InPool(d)')
  BY <1>1, <1>3, <1>4 DEF InPool
<1>6. \A i \in Slots : pool'[i] # NULL => pool'[i] # acc'
  BY <1>1, <1>2 DEF InPool
<1> QED BY <1>1, <1>5, <1>6 DEF OwnInv, SocketOwnership, TimerIds

\* Filling a slot: the slot was free and the connection had none.
LEMMA OwnAddClient ==
  ASSUME OwnInv, NEW j \in Slots, AddClient(j)
  PROVE  SocketOwnership' /\ TimerIds'
<1>1. /\ acc \in Conns /\ pool[j] = NULL /\ pool' = [pool EXCEPT ![j] = acc]
      /\ acc' = NULL /\ sock' = sock /\ tid' = [tid EXCEPT ![acc] = j]
  BY AccIsNull DEF AddClient, At, OwnInv, SetTimerId, clientVars
<1>2. /\ pool \in [Slots -> Conns \cup {NULL}] /\ tid \in [Conns -> Slots]
      /\ pool'[j] = acc /\ \A i \in Slots : i # j => pool'[i] = pool[i]
  BY <1>1 DEF OwnInv, TInv, TypeOK
<1>3. \A i \in Slots : pool[i] # NULL => pool[i] # acc
  BY DEF OwnInv, SocketOwnership
<1>4. ASSUME NEW d \in Conns
      PROVE  (\E i \in Slots : pool'[i] = d) <=> (d = acc \/ \E i \in Slots : pool[i] = d)
  <2>1. CASE d = acc
    BY <1>2, <2>1
  <2>2. CASE d # acc
    BY <1>1, <1>2, <2>2
  <2> QED BY <2>1, <2>2
<1>5. \A d \in Conns : sock'[d] = "open" <=> (d = acc' \/ InPool(d)')
  BY <1>1, <1>4 DEF OwnInv, SocketOwnership, InPool
<1>6. \A i, k \in Slots : pool'[i] = pool'[k] /\ pool'[i] # NULL => i = k
  BY <1>1, <1>2, <1>3 DEF OwnInv, SocketOwnership
<1>7. \A i \in Slots : pool'[i] # NULL => tid'[pool'[i]] = i
  BY <1>1, <1>2, <1>3 DEF OwnInv, TimerIds
<1> QED BY <1>1, <1>5, <1>6, <1>7 DEF SocketOwnership, TimerIds

\* Destroying a connection: no other slot holds it.
LEMMA OwnVisitFlagged ==
  ASSUME OwnInv, VisitFlagged
  PROVE  SocketOwnership' /\ TimerIds'
<1>1. /\ C \in Conns /\ cur \in Slots /\ pool' = [pool EXCEPT ![cur] = NULL]
      /\ acc' = acc /\ sock' = [sock EXCEPT ![C] = "closed"] /\ tid' = tid
  BY DEF VisitFlagged, CloseSocket, OwnInv, TInv, TypeOK, C
<1>a. pool \in [Slots -> Conns \cup {NULL}] /\ C = pool[cur] /\ C # NULL
  BY <1>1 DEF OwnInv, TInv, TypeOK, C
<1>2. /\ C = pool[cur] /\ C # NULL
      /\ pool'[cur] = NULL /\ \A i \in Slots : i # cur => pool'[i] = pool[i]
  BY <1>1, <1>a
<1>b. \A i \in Slots : pool[i] = C => i = cur
  BY <1>1, <1>2 DEF OwnInv, SocketOwnership
<1>3. \A d \in Conns :
        (\E i \in Slots : pool'[i] = d) <=> (d # C /\ \E i \in Slots : pool[i] = d)
  BY <1>1, <1>2, <1>b
<1>4. \A d \in Conns : sock'[d] = "open" <=> (d # C /\ sock[d] = "open")
  BY <1>1 DEF OwnInv, TInv, TypeOK
<1>5. C # acc
  BY <1>1, <1>2 DEF OwnInv, SocketOwnership
<1>6. \A d \in Conns : sock'[d] = "open" <=> (d = acc' \/ InPool(d)')
  BY <1>1, <1>3, <1>4, <1>5 DEF OwnInv, SocketOwnership, InPool
<1> QED BY <1>1, <1>2, <1>6 DEF OwnInv, SocketOwnership, TimerIds

\* A client that connects is not open yet.
LEMMA OwnConnect ==
  ASSUME OwnInv, NEW c \in Conns, Connect(c)
  PROVE  SocketOwnership' /\ TimerIds'
<1>1. /\ pool' = pool /\ acc' = acc /\ tid' = tid
      /\ sock[c] = "none" /\ sock' = [sock EXCEPT ![c] = "backlog"]
  BY DEF Connect, serverVars
<1>2. \A d \in Conns : sock'[d] = "open" <=> sock[d] = "open"
  BY <1>1 DEF OwnInv, TInv, TypeOK
<1> QED BY <1>1, <1>2 DEF OwnInv, SocketOwnership, TimerIds, InPool

\* A step that does not concern ownership.
LEMMA OwnQuiet ==
  ASSUME OwnInv, OwnSame
  PROVE  SocketOwnership' /\ TimerIds'
BY DEF OwnInv, OwnSame, SocketOwnership, TimerIds, InPool

LEMMA OwnInit == Init => OwnInv
<1> SUFFICES ASSUME Init PROVE OwnInv
  OBVIOUS
<1>1. TInv
  BY TypeInit
<1>2. acc = NULL /\ \A i \in Slots : pool[i] = NULL
  BY DEF Init
<1>3. \A c \in Conns : sock[c] = "none"
  BY DEF Init
<1>4. SocketOwnership /\ TimerIds
  BY <1>2, <1>3 DEF SocketOwnership, TimerIds, InPool
<1> QED BY <1>1, <1>4 DEF OwnInv

LEMMA OwnStep == OwnInv /\ [Next]_vars => OwnInv'
<1> SUFFICES ASSUME OwnInv, [Next]_vars PROVE OwnInv'
  OBVIOUS
<1>1. TInv'
  BY TypeStep DEF OwnInv
<1>2. SocketOwnership' /\ TimerIds'
  BY QuietSteps, OwnQuiet, OwnAcceptOne, OwnConnect, OwnAddClient, OwnVisitFlagged
<1> QED BY <1>1, <1>2 DEF OwnInv

\* No socket leaks and none is shared, whatever the callback and the clients
\* do: an open connection is in exactly one slot, or is the accepted one that
\* the server task is finding a slot for.
THEOREM OwnershipCorrect == Spec => []SocketOwnership
<1>1. Init => OwnInv
  BY OwnInit
<1>2. OwnInv /\ [Next]_vars => OwnInv'
  BY OwnStep
<1>3. OwnInv => SocketOwnership
  BY DEF OwnInv
<1> QED BY <1>1, <1>2, <1>3, PTL DEF Spec
-----------------------------------------------------------------------------
\* No step gives a full pool a free slot while the server holds a connection it has
\* no slot for: the sweep, which alone frees slots, does not run meanwhile.
LEMMA StuckStep ==
  ASSUME TInv, PoolFull, acc # NULL, [Next]_vars
  PROVE  PoolFull' /\ acc' # NULL
<1>1. pc \in {"add", "full"}
  BY DEF TInv, PointersSet
<1>2. CASE OwnSame
  BY <1>2 DEF OwnSame, PoolFull
<1>3. CASE \E c \in Conns : AcceptOne(c) \/ Connect(c)
  BY <1>1, <1>3 DEF AcceptOne, Connect, At, serverVars, PoolFull
<1>4. CASE (\E j \in Slots : AddClient(j)) \/ VisitFlagged
  BY <1>1, <1>4 DEF AddClient, VisitFlagged, At, PoolFull
<1> QED BY <1>2, <1>3, <1>4, QuietSteps

\* A client told to wait because the pool is full waits for ever, and so does the
\* server: whatever the capacity, and also when timeouts have flagged every
\* connection of the pool (the loop around "too many clients wait...").
THEOREM FullPoolIsFinal ==
  Spec => [](PoolFull /\ acc # NULL => [](PoolFull /\ pc \in {"add", "full"}))
<1>1. Init => TInv
  BY TypeInit
<1>2. TInv /\ [Next]_vars => TInv'
  BY TypeStep
<1>3. TInv /\ (PoolFull /\ acc # NULL) /\ [Next]_vars => (PoolFull /\ acc # NULL)'
  BY StuckStep
<1>4. TInv /\ (PoolFull /\ acc # NULL) => PoolFull /\ pc \in {"add", "full"}
  BY DEF TInv, PointersSet
<1> QED BY <1>1, <1>2, <1>3, <1>4, PTL DEF Spec

-----------------------------------------------------------------------------
(* The refinement of ConnLifecycle.                                        *)

Stages == {"outside", "waiting", "served", "closed"}

\* The refinement mapping, one connection at a time, and in the next state.
LEMMA MappingFacts ==
  ASSUME TypeOK
  PROVE  \A c \in Conns :
           /\ sock[c] \in {"none", "backlog"} => lifeOf[c] = "outside" /\ placeOf[c] = 0
           /\ sock[c] = "open" /\ c = acc => lifeOf[c] = "waiting" /\ placeOf[c] = 0
           /\ sock[c] = "open" /\ c # acc => lifeOf[c] = "served" /\ placeOf[c] = tid[c]
           /\ sock[c] = "closed" => lifeOf[c] = "closed" /\ placeOf[c] = 0
           /\ sock[c] \in {"none", "backlog", "open", "closed"}
BY DEF lifeOf, placeOf, TypeOK

LEMMA MappingFactsNext ==
  ASSUME TypeOK'
  PROVE  \A c \in Conns :
           /\ sock'[c] \in {"none", "backlog"} => lifeOf'[c] = "outside" /\ placeOf'[c] = 0
           /\ sock'[c] = "open" /\ c = acc' => lifeOf'[c] = "waiting" /\ placeOf'[c] = 0
           /\ sock'[c] = "open" /\ c # acc' => lifeOf'[c] = "served" /\ placeOf'[c] = tid'[c]
           /\ sock'[c] = "closed" => lifeOf'[c] = "closed" /\ placeOf'[c] = 0
           /\ sock'[c] \in {"none", "backlog", "open", "closed"}
BY DEF lifeOf, placeOf, TypeOK

LEMMA MappingFunctions ==
  ASSUME TypeOK, TypeOK'
  PROVE  /\ lifeOf \in [Conns -> Stages] /\ lifeOf' \in [Conns -> Stages]
         /\ placeOf \in [Conns -> Nat] /\ placeOf' \in [Conns -> Nat]
<1>1. lifeOf \in [Conns -> Stages]
  BY DEF lifeOf, Stages, TypeOK
<1>2. lifeOf' \in [Conns -> Stages]
  BY DEF lifeOf, Stages, TypeOK
<1>3. Slots \subseteq Nat
  BY ClientsAssumption DEF Slots
<1>4. placeOf \in [Conns -> Nat]
  BY <1>3 DEF placeOf, TypeOK
<1>5. placeOf' \in [Conns -> Nat]
  BY <1>3 DEF placeOf, TypeOK
<1> QED BY <1>1, <1>2, <1>4, <1>5

\* Two functions that differ at one argument.
LEMMA FunctionUpdate ==
  ASSUME NEW S, NEW U, NEW f \in [S -> U], NEW g \in [S -> U], NEW a \in S, NEW v,
         \A d \in S : g[d] = IF d = a THEN v ELSE f[d]
  PROVE  g = [f EXCEPT ![a] = v]
OBVIOUS

LEMMA FunctionSame ==
  ASSUME NEW S, NEW U, NEW f \in [S -> U], NEW g \in [S -> U], \A d \in S : g[d] = f[d]
  PROVE  g = f
OBVIOUS

\* Accepting a connection is the abstract Accept.
LEMMA RefineAcceptOne ==
  ASSUME OwnInv, OwnInv', NEW c \in Conns, AcceptOne(c)
  PROVE  Abstract!Accept(c)
<1>1. /\ acc = NULL /\ acc' = c /\ tid' = tid
      /\ sock[c] = "backlog" /\ sock' = [sock EXCEPT ![c] = "open"]
  BY AccIsNull DEF AcceptOne, At, OwnInv
<1>2. TypeOK /\ TypeOK'
  BY DEF OwnInv, TInv
<1>3. sock'[c] = "open" /\ \A d \in Conns : d # c => sock'[d] = sock[d]
  BY <1>1, <1>2 DEF TypeOK
<1>4. \A d \in Conns : d # acc
  BY <1>1
<1>5. lifeOf[c] = "outside" /\ \A d \in Conns : lifeOf[d] # "waiting"
  BY <1>1, <1>2, <1>4, MappingFacts
<1>6. ASSUME NEW d \in Conns
      PROVE  /\ lifeOf'[d] = IF d = c THEN "waiting" ELSE lifeOf[d]
             /\ placeOf'[d] = placeOf[d]
  BY <1>1, <1>2, <1>3, <1>4, MappingFacts, MappingFactsNext
<1>7. lifeOf' = [lifeOf EXCEPT ![c] = "waiting"] /\ placeOf' = placeOf
  BY <1>1, <1>2, <1>6, MappingFunctions, FunctionUpdate, FunctionSame
<1> QED BY <1>5, <1>7 DEF Abstract!Accept

\* Filling a slot is the abstract Admit.
LEMMA RefineAddClient ==
  ASSUME OwnInv, OwnInv', NEW j \in Slots, AddClient(j)
  PROVE  acc \in Conns /\ j \in Abstract!Places /\ Abstract!Admit(acc, j)
<1>1. /\ acc \in Conns /\ pool[j] = NULL /\ acc' = NULL /\ sock' = sock
      /\ tid' = [tid EXCEPT ![acc] = j]
  BY AccIsNull DEF AddClient, At, OwnInv, SetTimerId, clientVars
<1>2. TypeOK /\ TypeOK'
  BY DEF OwnInv, TInv
<1>3. tid'[acc] = j /\ \A d \in Conns : d # acc => tid'[d] = tid[d]
  BY <1>1, <1>2 DEF TypeOK
<1>4. sock[acc] = "open"
  BY <1>1 DEF OwnInv, SocketOwnership
<1>5. ASSUME NEW d \in Conns PROVE placeOf[d] # j
  <2>1. CASE sock[d] = "open" /\ d # acc
    <3>1. PICK i \in Slots : pool[i] = d
      BY <2>1 DEF OwnInv, SocketOwnership, InPool
    <3>2. tid[d] = i /\ i # j
      BY <3>1, <1>1 DEF OwnInv, TimerIds
    <3> QED BY <2>1, <3>2 DEF placeOf
  <2>2. CASE ~(sock[d] = "open" /\ d # acc)
    <3>1. placeOf[d] = 0
      BY <2>2 DEF placeOf
    <3> QED BY <3>1, ClientsAssumption DEF Slots
  <2> QED BY <2>1, <2>2
<1>6. ASSUME NEW d \in Conns
      PROVE  /\ lifeOf'[d] = IF d = acc THEN "served" ELSE lifeOf[d]
             /\ placeOf'[d] = IF d = acc THEN j ELSE placeOf[d]
  BY <1>1, <1>2, <1>3, <1>4, MappingFacts, MappingFactsNext
<1>7. /\ lifeOf' = [lifeOf EXCEPT ![acc] = "served"]
      /\ placeOf' = [placeOf EXCEPT ![acc] = j]
  BY <1>1, <1>2, <1>6, MappingFunctions, FunctionUpdate, FunctionSame
<1>8. lifeOf[acc] = "waiting"
  BY <1>1, <1>2, <1>4, MappingFacts
<1>9. j \in Abstract!Places
  BY DEF Abstract!Places, Slots
<1> QED BY <1>1, <1>5, <1>7, <1>8, <1>9 DEF Abstract!Admit

\* Destroying a connection is the abstract Close.
LEMMA RefineVisitFlagged ==
  ASSUME OwnInv, OwnInv', VisitFlagged
  PROVE  C \in Conns /\ Abstract!Close(C)
<1>1. /\ C \in Conns /\ cur \in Slots /\ acc' = acc /\ tid' = tid
      /\ sock' = [sock EXCEPT ![C] = "closed"]
  BY DEF VisitFlagged, CloseSocket, OwnInv, TInv, TypeOK, C
<1>2. TypeOK /\ TypeOK'
  BY DEF OwnInv, TInv
<1>3. sock[C] = "open" /\ C # acc
  BY <1>1 DEF OwnInv, SocketOwnership, InPool, C
<1>4. sock'[C] = "closed" /\ \A d \in Conns : d # C => sock'[d] = sock[d]
  BY <1>1, <1>2 DEF TypeOK
<1> DEFINE x == C
<1> HIDE DEF x
<1>a. x = C
  BY DEF x
<1>6. ASSUME NEW d \in Conns
      PROVE  /\ lifeOf'[d] = IF d = x THEN "closed" ELSE lifeOf[d]
             /\ placeOf'[d] = IF d = x THEN 0 ELSE placeOf[d]
  BY <1>1, <1>2, <1>4, <1>a, MappingFacts, MappingFactsNext
<1>7. lifeOf' = [lifeOf EXCEPT ![x] = "closed"] /\ placeOf' = [placeOf EXCEPT ![x] = 0]
  BY <1>1, <1>2, <1>6, MappingFunctions, FunctionUpdate, FunctionSame
<1>8. lifeOf[x] = "served"
  BY <1>1, <1>2, <1>3, <1>a, MappingFacts
<1> QED BY <1>1, <1>7, <1>8, <1>a DEF Abstract!Close

\* The other steps are invisible to the abstract specification.
LEMMA RefineQuiet ==
  ASSUME OwnSame
  PROVE  UNCHANGED <<lifeOf, placeOf>>
BY DEF OwnSame, lifeOf, placeOf

LEMMA RefineConnect ==
  ASSUME OwnInv, OwnInv', NEW c \in Conns, Connect(c)
  PROVE  UNCHANGED <<lifeOf, placeOf>>
<1>1. /\ acc' = acc /\ tid' = tid /\ sock[c] = "none"
      /\ sock' = [sock EXCEPT ![c] = "backlog"]
  BY DEF Connect, serverVars
<1>2. sock'[c] = "backlog" /\ \A d \in Conns : d # c => sock'[d] = sock[d]
  BY <1>1 DEF OwnInv, TInv, TypeOK
<1>t. TypeOK /\ TypeOK'
  BY DEF OwnInv, TInv
<1>3. ASSUME NEW d \in Conns PROVE lifeOf'[d] = lifeOf[d] /\ placeOf'[d] = placeOf[d]
  BY <1>1, <1>2, <1>t, MappingFacts, MappingFactsNext
<1> QED BY <1>3, <1>t, MappingFunctions, FunctionSame

LEMMA RefineInit == Init => Abstract!Init
BY DEF Init, Abstract!Init, lifeOf, placeOf

LEMMA RefineStep ==
  OwnInv /\ OwnInv' /\ [Next]_vars => [Abstract!Next]_<<lifeOf, placeOf>>
<1> SUFFICES ASSUME OwnInv, OwnInv', [Next]_vars
             PROVE  [Abstract!Next]_<<lifeOf, placeOf>>
  OBVIOUS
<1>1. CASE OwnSame
  BY <1>1, RefineQuiet
<1>2. CASE \E c \in Conns : AcceptOne(c)
  BY <1>2, RefineAcceptOne DEF Abstract!Next
<1>3. CASE \E c \in Conns : Connect(c)
  BY <1>3, RefineConnect
<1>4. CASE \E j \in Slots : AddClient(j)
  BY <1>4, RefineAddClient DEF Abstract!Next
<1>5. CASE VisitFlagged
  BY <1>5, RefineVisitFlagged DEF Abstract!Next
<1> QED BY <1>1, <1>2, <1>3, <1>4, <1>5, QuietSteps

\* The server task implements the abstract life cycle of connections, for
\* every number of clients and slots: accepted once, given a slot no other
\* connection has, closed once.
THEOREM LifecycleRefined == Spec => ImplementsLifecycle
<1>1. Init => OwnInv
  BY OwnInit
<1>2. OwnInv /\ [Next]_vars => OwnInv'
  BY OwnStep
<1>3. Init => Abstract!Init
  BY RefineInit
<1>4. OwnInv /\ OwnInv' /\ [Next]_vars => [Abstract!Next]_<<lifeOf, placeOf>>
  BY RefineStep
<1> QED BY <1>1, <1>2, <1>3, <1>4, PTL DEF Spec, ImplementsLifecycle, Abstract!Spec
=============================================================================
