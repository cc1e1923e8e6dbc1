-------------------------- MODULE TimerSafety_proofs --------------------------
(***************************************************************************)
(* The timers of connections, for every number of clients and slots and    *)
(* every length of the command queue: the timer of a connection in use is  *)
(* never deleted, that of a closed one is given back, and that of a client *)
(* the server waits for is armed.                                          *)
(***************************************************************************)
EXTENDS RequestSafety_proofs

\* A connection that never had a slot, hence no timer.
Fresh(c) == sock[c] \in {"none", "backlog"} \/ c = acc

\* A command that may be in the queue: its timer was created, and it is not
\* about to delete the timer of a connection in the pool.
GoodCmd(m) == ~Fresh(m.timer) /\ (m.op = "delete" => ~InPool(m.timer))

FreshHasNoTimer == \A c \in Conns : Fresh(c) => tmr[c] = "none"
QueueGood == \A k \in DOMAIN cmdq : GoodCmd(cmdq[k])
PooledHasTimer == \A c \in Conns : InPool(c) => tmr[c] \in {"dormant", "active"}
CallbackTimerMade == dt # NULL => ~Fresh(dt)

TimerInv == FreshHasNoTimer /\ QueueGood /\ PooledHasTimer /\ CallbackTimerMade

LInv == OwnInv /\ TimerInv

USE ConnsAssumption

-----------------------------------------------------------------------------
\* Posting commands of a set G to a queue of commands of G.
LEMMA PostKeeps ==
  ASSUME NEW G, cmdq \in Seq(Cmds), \A k \in DOMAIN cmdq : cmdq[k] \in G,
         NEW m \in Cmds, NEW n \in Cmds, m \in G, n \in G
  PROVE  /\ Post(m) => \A k \in DOMAIN cmdq' : cmdq'[k] \in G
         /\ Post2(m, n) => \A k \in DOMAIN cmdq' : cmdq'[k] \in G
<1>1. ASSUME NEW q \in Seq(Cmds), NEW x \in Cmds, x \in G, \A k \in DOMAIN q : q[k] \in G
      PROVE  /\ Enqueue(q, x) \in Seq(Cmds)
             /\ \A k \in DOMAIN Enqueue(q, x) : Enqueue(q, x)[k] \in G
  <2>1. \A k \in DOMAIN Enqueue(q, x) :
          Enqueue(q, x)[k] = x \/ (k \in DOMAIN q /\ Enqueue(q, x)[k] = q[k])
    BY EnqueueFacts
  <2>2. Enqueue(q, x) \in Seq(Cmds)
    BY EnqueueFacts
  <2> QED BY <1>1, <2>1, <2>2
<1>2. /\ Enqueue(cmdq, m) \in Seq(Cmds)
      /\ \A k \in DOMAIN Enqueue(cmdq, m) : Enqueue(cmdq, m)[k] \in G
  BY <1>1
<1>3. \A k \in DOMAIN Enqueue(Enqueue(cmdq, m), n) : Enqueue(Enqueue(cmdq, m), n)[k] \in G
  BY <1>1, <1>2
<1> QED BY <1>2, <1>3 DEF Post, Post2

\* Ownership and type facts in the form the steps below use.
LEMMA OwnFacts ==
  ASSUME OwnInv
  PROVE  /\ TimerTypeOK /\ cmdq \in Seq(Cmds) /\ tmr \in [Conns -> TmrStates]
         /\ \A c \in Conns : InPool(c) => sock[c] = "open" /\ c # acc /\ ~Fresh(c)
         /\ pc \in BusyPCs \/ (pc = "visit" /\ C # NULL) => C \in Conns /\ InPool(C)
         /\ cur \in Slots
<1>1. TypeOK /\ PointersSet /\ SocketOwnership
  BY DEF OwnInv, TInv
<1>2. \A c \in Conns : InPool(c) => sock[c] = "open" /\ c # acc
  BY <1>1 DEF SocketOwnership, InPool
<1>3. pc \in BusyPCs \/ (pc = "visit" /\ C # NULL) => C \in Conns /\ InPool(C)
  BY <1>1 DEF TypeOK, PointersSet, InPool, C
<1> QED BY <1>1, <1>2, <1>3 DEF TypeOK, TimerTypeOK, Fresh

\* In a step that leaves ownership alone, the notions above do not change.
LEMMA QuietNotions ==
  ASSUME OwnSame
  PROVE  /\ \A c : Fresh(c)' <=> Fresh(c)
         /\ \A c : InPool(c)' <=> InPool(c)
BY DEF OwnSame, Fresh, InPool

\* The server posts, at places where it serves connection C, commands that do
\* not delete C's timer.
LEMMA ServerPosts ==
  ASSUME LInv, OwnSame, tmr' = tmr, dt' = dt, C \in Conns, InPool(C),
         NEW m \in Cmds, NEW n \in Cmds, m.timer = C, n.timer = C,
         m.op # "delete", n.op # "delete",
         Post(m) \/ Post2(m, n) \/ cmdq' = cmdq
  PROVE  TimerInv'
<1> DEFINE G == {x \in Cmds : GoodCmd(x)}
<1>1. cmdq \in Seq(Cmds) /\ ~Fresh(C)
  BY OwnFacts DEF LInv
<1>2. \A k \in DOMAIN cmdq : cmdq[k] \in G
  BY <1>1 DEF LInv, TimerInv, QueueGood
<1>3. m \in G /\ n \in G
  BY <1>1 DEF GoodCmd
<1> HIDE DEF G
<1>4. \A k \in DOMAIN cmdq' : cmdq'[k] \in G
  BY <1>1, <1>2, <1>3, PostKeeps
<1>5. \A k \in DOMAIN cmdq' : GoodCmd(cmdq'[k])
  BY <1>4 DEF G
<1>6. QueueGood'
  BY <1>5, QuietNotions DEF QueueGood, GoodCmd
<1>7. FreshHasNoTimer' /\ PooledHasTimer' /\ CallbackTimerMade'
  BY QuietNotions DEF LInv, TimerInv, FreshHasNoTimer, PooledHasTimer, CallbackTimerMade
<1> QED BY <1>6, <1>7 DEF TimerInv

\* A step that neither posts nor executes commands.
LEMMA TimerQuiet ==
  ASSUME LInv, OwnSame, tmr' = tmr, cmdq' = cmdq, dt' = dt \/ dt' = NULL
  PROVE  TimerInv'
BY QuietNotions
   DEF LInv, TimerInv, FreshHasNoTimer, QueueGood, GoodCmd, PooledHasTimer, CallbackTimerMade

LEMMA StopTypes ==
  ASSUME NEW c \in Conns
  PROVE  /\ Start(c) \in Cmds /\ Start(c).timer = c /\ Start(c).op = "start"
         /\ ReStart(c) \in Cmds /\ ReStart(c).timer = c /\ ReStart(c).op = "start"
         /\ Stop(c) \in Cmds /\ Stop(c).timer = c /\ Stop(c).op = "stop"
         /\ Delete(c) \in Cmds /\ Delete(c).timer = c /\ Delete(c).op = "delete"
         /\ \A ms \in Nat : /\ ChangePeriod(c, ms) \in Cmds
                            /\ ChangePeriod(c, ms).timer = c
                            /\ ChangePeriod(c, ms).op = "change"
BY CommandTypes DEF Start, ReStart, Stop, Delete, ChangePeriod

-----------------------------------------------------------------------------
(* The steps.                                                              *)

\* SetOptions starts the timer of the new connection.
LEMMA TimerSetOptions ==
  ASSUME LInv, SetOptions
  PROVE  TimerInv'
<1>1. C \in Conns /\ InPool(C)
  BY OwnFacts DEF SetOptions, At, BusyPCs, LInv
<1>2. OwnSame /\ tmr' = tmr /\ dt' = dt /\ (Post(Start(C)) \/ cmdq' = cmdq)
  BY DEF SetOptions, StartTimeout, OwnSame, daemonVars, clientVars
<1> QED BY <1>1, <1>2, StopTypes, ServerPosts

\* HdrRequest stops the timer and may change its period.
LEMMA TimerHdrRequest ==
  ASSUME LInv, HdrRequest
  PROVE  TimerInv'
<1>1. C \in Conns /\ InPool(C) /\ rx[C] # << >>
  BY OwnFacts DEF HdrRequest, At, BusyPCs, LInv, Reads
<1>2. OwnSame /\ tmr' = tmr /\ dt' = dt
  BY DEF HdrRequest, OwnSame, daemonVars
<1>3. Head(rx[C]) \in Requests
  <2>1. rx[C] \in Seq(Tokens)
    BY <1>1 DEF LInv, OwnInv, TInv, TypeOK
  <2>2. Head(rx[C]) \in Tokens
    BY <2>1, <1>1, SeqFacts
  <2> QED BY <2>2, ReqToken DEF HdrRequest, Reads
<1> DEFINE q == Head(rx[C])
<1>4. \/ Post(Stop(C))
      \/ Post2(Stop(C), ChangePeriod(C, WEBSOCKET_TIMEOUT_TIMER_MS))
      \/ Post2(Stop(C), ChangePeriod(C, q.keepalive * 1000))
  BY DEF HdrRequest, HeaderCommands
<1>5. WEBSOCKET_TIMEOUT_TIMER_MS \in Nat /\ q.keepalive * 1000 \in Nat
  BY <1>3 DEF Requests, WEBSOCKET_TIMEOUT_TIMER_MS
<1> HIDE DEF q
<1>6. CASE Post(Stop(C))
  BY <1>1, <1>2, <1>6, StopTypes, ServerPosts
<1>7. CASE Post2(Stop(C), ChangePeriod(C, WEBSOCKET_TIMEOUT_TIMER_MS))
  BY <1>1, <1>2, <1>5, <1>7, StopTypes, ServerPosts
<1>8. CASE Post2(Stop(C), ChangePeriod(C, q.keepalive * 1000))
  BY <1>1, <1>2, <1>5, <1>8, StopTypes, ServerPosts
<1> QED BY <1>4, <1>6, <1>7, <1>8

\* Fallback stops the timer of a request that is done.
LEMMA TimerFallback ==
  ASSUME LInv, Fallback
  PROVE  TimerInv'
<1>1. C \in Conns /\ InPool(C)
  BY OwnFacts DEF Fallback, At, BusyPCs, LInv
<1>2. OwnSame /\ tmr' = tmr /\ dt' = dt /\ (Post(Stop(C)) \/ cmdq' = cmdq)
  BY DEF Fallback, OwnSame, daemonVars, clientVars
<1> QED BY <1>1, <1>2, StopTypes, ServerPosts

\* WsMessage stops the timer and WsServe restarts it.
LEMMA TimerWsFrame ==
  ASSUME LInv, WsMessage \/ WsServe
  PROVE  TimerInv'
<1>1. C \in Conns /\ InPool(C)
  BY OwnFacts DEF WsMessage, WsServe, At, BusyPCs, LInv
<1>2. /\ OwnSame /\ tmr' = tmr /\ dt' = dt
      /\ Post(Stop(C)) \/ Post(ReStart(C))
  BY DEF WsMessage, WsServe, OwnSame, daemonVars, clientVars
<1> QED BY <1>1, <1>2, StopTypes, ServerPosts

\* AddClient creates the timer; no command for it can be in the queue yet.
LEMMA TimerAddClient ==
  ASSUME LInv, NEW j \in Slots, AddClient(j)
  PROVE  TimerInv'
<1>1. /\ acc \in Conns /\ pool' = [pool EXCEPT ![j] = acc] /\ pool[j] = NULL
      /\ acc' = NULL /\ sock' = sock /\ dt' = dt
      /\ tmr' = [tmr EXCEPT ![acc] = "dormant"] /\ Post(Stop(acc))
  BY AccIsNull DEF AddClient, At, LInv, OwnInv, TimerCreate, clientVars, daemonVars
<1>2. /\ pool \in [Slots -> Conns \cup {NULL}] /\ cmdq \in Seq(Cmds)
      /\ tmr \in [Conns -> TmrStates] /\ sock[acc] = "open"
  BY <1>1, OwnFacts DEF LInv, OwnInv, TInv, TypeOK, SocketOwnership
<1>3. /\ pool'[j] = acc /\ \A i \in Slots : i # j => pool'[i] = pool[i]
      /\ tmr'[acc] = "dormant" /\ \A c \in Conns : c # acc => tmr'[c] = tmr[c]
  BY <1>1, <1>2
<1>4. \A c \in Conns : Fresh(c)' => Fresh(c) /\ c # acc
  BY <1>1, <1>2 DEF Fresh
<1>5. \A c \in Conns : InPool(c)' => c = acc \/ InPool(c)
  BY <1>1, <1>3 DEF InPool
<1>6. Fresh(acc)
  BY DEF Fresh
<1> DEFINE G == {x \in Cmds : ~Fresh(x.timer)' /\ (x.op = "delete" => ~InPool(x.timer)')}
<1>7. \A k \in DOMAIN cmdq : cmdq[k] \in G
  <2> SUFFICES ASSUME NEW k \in DOMAIN cmdq PROVE cmdq[k] \in G
    OBVIOUS
  <2>a. cmdq[k] \in Cmds
    BY <1>2
  <2>1. cmdq[k] \in Cmds /\ cmdq[k].timer \in Conns
    BY <2>a DEF Cmds
  <2>2. GoodCmd(cmdq[k])
    BY DEF LInv, TimerInv, QueueGood
  <2>3. cmdq[k].timer # acc
    BY <2>2, <1>6 DEF GoodCmd
  <2> QED BY <2>1, <2>2, <2>3, <1>4, <1>5 DEF GoodCmd
<1>8. Stop(acc) \in G
  BY <1>1, <1>4, StopTypes
<1> HIDE DEF G
<1>9. \A k \in DOMAIN cmdq' : cmdq'[k] \in G
  BY <1>1, <1>2, <1>7, <1>8, StopTypes, PostKeeps
<1>10. QueueGood'
  BY <1>9 DEF G, QueueGood, GoodCmd
<1>11. FreshHasNoTimer'
  BY <1>3, <1>4 DEF LInv, TimerInv, FreshHasNoTimer
<1>12. PooledHasTimer'
  BY <1>3, <1>5 DEF LInv, TimerInv, PooledHasTimer
<1>13. CallbackTimerMade'
  <2>1. dt \in Conns \cup {NULL}
    BY DEF LInv, OwnInv, TInv, TypeOK
  <2> QED BY <2>1, <1>1, <1>4 DEF LInv, TimerInv, CallbackTimerMade
<1> QED BY <1>10, <1>11, <1>12, <1>13 DEF TimerInv

\* VisitFlagged deletes the timer of the connection it takes out of the pool.
LEMMA TimerVisitFlagged ==
  ASSUME LInv, VisitFlagged
  PROVE  TimerInv'
<1>0. C \in Conns /\ InPool(C)
  BY OwnFacts DEF VisitFlagged, At, LInv
<1>z. PICK z \in Conns : z = C
  BY <1>0
<1>1. /\ cur \in Slots /\ pool' = [pool EXCEPT ![cur] = NULL]
      /\ acc' = acc /\ sock' = [sock EXCEPT ![z] = "closed"] /\ dt' = dt
      /\ tmr' = tmr /\ Post2(Stop(z), Delete(z)) /\ InPool(z) /\ pool[cur] = z
  BY <1>0, <1>z, OwnFacts DEF VisitFlagged, CloseSocket, ReleaseTimer, LInv, daemonVars, C
<1>2. /\ pool \in [Slots -> Conns \cup {NULL}] /\ cmdq \in Seq(Cmds)
      /\ \A i \in Slots : pool[i] = z => i = cur
      /\ z # NULL /\ z # acc /\ ~Fresh(z)
      /\ sock \in [Conns -> {"none", "backlog", "open", "closed"}]
  BY <1>1, OwnFacts DEF LInv, OwnInv, TInv, TypeOK, SocketOwnership
<1>3. /\ pool'[cur] = NULL /\ \A i \in Slots : i # cur => pool'[i] = pool[i]
      /\ sock'[z] = "closed" /\ \A c \in Conns : c # z => sock'[c] = sock[c]
  BY <1>1, <1>2
<1>4. \A c \in Conns : Fresh(c)' => Fresh(c)
  BY <1>1, <1>2, <1>3 DEF Fresh
<1>5. \A c \in Conns : InPool(c)' => c # z /\ InPool(c)
  BY <1>1, <1>2, <1>3 DEF InPool
<1> DEFINE G == {x \in Cmds : ~Fresh(x.timer)' /\ (x.op = "delete" => ~InPool(x.timer)')}
<1>7. \A k \in DOMAIN cmdq : cmdq[k] \in G
  <2> SUFFICES ASSUME NEW k \in DOMAIN cmdq PROVE cmdq[k] \in G
    OBVIOUS
  <2>a. cmdq[k] \in Cmds
    BY <1>2
  <2>1. cmdq[k] \in Cmds /\ cmdq[k].timer \in Conns
    BY <2>a DEF Cmds
  <2>2. GoodCmd(cmdq[k])
    BY DEF LInv, TimerInv, QueueGood
  <2> QED BY <2>1, <2>2, <1>4, <1>5 DEF GoodCmd
<1>8. Stop(z) \in G /\ Delete(z) \in G
  BY <1>2, <1>4, <1>5, StopTypes
<1> HIDE DEF G
<1>9. \A k \in DOMAIN cmdq' : cmdq'[k] \in G
  BY <1>1, <1>2, <1>7, <1>8, StopTypes, PostKeeps
<1>10. QueueGood'
  BY <1>9 DEF G, QueueGood, GoodCmd
<1>11. FreshHasNoTimer' /\ PooledHasTimer'
  BY <1>1, <1>4, <1>5 DEF LInv, TimerInv, FreshHasNoTimer, PooledHasTimer
<1>12. CallbackTimerMade'
  <2>1. dt \in Conns \cup {NULL}
    BY DEF LInv, OwnInv, TInv, TypeOK
  <2> QED BY <2>1, <1>1, <1>4 DEF LInv, TimerInv, CallbackTimerMade
<1> QED BY <1>10, <1>11, <1>12 DEF TimerInv

\* Accepting and connecting: a connection without a timer stays one.
LEMMA TimerAcceptOrConnect ==
  ASSUME LInv, NEW c \in Conns, AcceptOne(c) \/ Connect(c)
  PROVE  TimerInv'
<1>1. /\ pool' = pool /\ tmr' = tmr /\ cmdq' = cmdq /\ dt' = dt
      /\ \/ acc = NULL /\ acc' = c /\ sock[c] = "backlog" /\ sock' = [sock EXCEPT ![c] = "open"]
         \/ acc' = acc /\ sock[c] = "none" /\ sock' = [sock EXCEPT ![c] = "backlog"]
  BY AccIsNull DEF AcceptOne, Connect, At, LInv, OwnInv, timerVars, daemonVars, serverVars
<1>2. sock \in [Conns -> {"none", "backlog", "open", "closed"}]
  BY DEF LInv, OwnInv, TInv, TypeOK
<1>3. \A d \in Conns : Fresh(d)' <=> Fresh(d)
  BY <1>1, <1>2 DEF Fresh
<1>4. \A d \in Conns : InPool(d)' <=> InPool(d)
  BY <1>1 DEF InPool
<1>5. FreshHasNoTimer' /\ PooledHasTimer'
  BY <1>1, <1>3, <1>4 DEF LInv, TimerInv, FreshHasNoTimer, PooledHasTimer
<1>6. CallbackTimerMade'
  <2>1. dt \in Conns \cup {NULL}
    BY DEF LInv, OwnInv, TInv, TypeOK
  <2> QED BY <2>1, <1>1, <1>3 DEF LInv, TimerInv, CallbackTimerMade
<1>7. ASSUME NEW k \in DOMAIN cmdq PROVE GoodCmd(cmdq[k])'
  <2>1. cmdq[k] \in Cmds
    BY OwnFacts DEF LInv
  <2>2. cmdq[k].timer \in Conns
    BY <2>1 DEF Cmds
  <2>3. GoodCmd(cmdq[k]) /\ cmdq'[k] = cmdq[k]
    BY <1>1 DEF LInv, TimerInv, QueueGood
  <2> QED BY <2>2, <2>3, <1>3, <1>4 DEF GoodCmd
<1> QED BY <1>1, <1>5, <1>6, <1>7 DEF TimerInv, QueueGood

\* The callback starts for an active timer, which belongs to a connection that
\* has or had a slot.
LEMMA TimerBegin ==
  ASSUME LInv, NEW t \in Conns, TimeoutCB_Begin(t)
  PROVE  TimerInv'
<1>1. OwnSame /\ tmr' = tmr /\ dt' = t /\ Post(Stop(t)) /\ tmr[t] = "active"
  BY DEF TimeoutCB_Begin, OwnSame, serverVars, clientVars
<1>2. ~Fresh(t)
  BY <1>1 DEF LInv, TimerInv, FreshHasNoTimer
<1> DEFINE G == {x \in Cmds : GoodCmd(x)}
<1>3. cmdq \in Seq(Cmds)
  BY OwnFacts DEF LInv
<1>4. \A k \in DOMAIN cmdq : cmdq[k] \in G
  BY <1>3 DEF LInv, TimerInv, QueueGood
<1>5. Stop(t) \in G
  BY <1>2, StopTypes DEF GoodCmd
<1> HIDE DEF G
<1>6. \A k \in DOMAIN cmdq' : cmdq'[k] \in G
  BY <1>1, <1>3, <1>4, <1>5, StopTypes, PostKeeps
<1>7. QueueGood'
  BY <1>1, <1>6, QuietNotions DEF G, QueueGood, GoodCmd
<1>8. FreshHasNoTimer' /\ PooledHasTimer' /\ CallbackTimerMade'
  BY <1>1, <1>2, QuietNotions
     DEF LInv, TimerInv, FreshHasNoTimer, PooledHasTimer, CallbackTimerMade
<1> QED BY <1>7, <1>8 DEF TimerInv

\* The callback deletes a timer only when the slot its ID names is empty; the
\* slot of a connection in the pool is not.
LEMMA TimerCheck ==
  ASSUME LInv, TimeoutCB_Check
  PROVE  TimerInv'
<1>1. OwnSame /\ tmr' = tmr /\ dt \in Conns /\ (dt' = dt \/ dt' = NULL)
  BY DEF TimeoutCB_Check, OwnSame, serverVars, clientVars, LInv, OwnInv, TInv, TypeOK, PointersSet
<1>2. CASE cmdq' = cmdq
  BY <1>1, <1>2, TimerQuiet
<1>3. CASE pool[tid[dt]] = NULL /\ Post(Delete(dt))
  <2> DEFINE G == {x \in Cmds : GoodCmd(x)}
  <2>1. ~InPool(dt)
    BY <1>1, <1>3 DEF InPool, LInv, OwnInv, TimerIds
  <2>2. ~Fresh(dt)
    BY <1>1 DEF LInv, TimerInv, CallbackTimerMade
  <2>3. cmdq \in Seq(Cmds)
    BY OwnFacts DEF LInv
  <2>4. \A k \in DOMAIN cmdq : cmdq[k] \in G
    BY <2>3 DEF LInv, TimerInv, QueueGood
  <2>5. Delete(dt) \in G
    BY <1>1, <2>1, <2>2, StopTypes DEF GoodCmd
  <2> HIDE DEF G
  <2>6. \A k \in DOMAIN cmdq' : cmdq'[k] \in G
    BY <1>1, <1>3, <2>3, <2>4, <2>5, StopTypes, PostKeeps
  <2>7. QueueGood'
    BY <1>1, <2>6, QuietNotions DEF G, QueueGood, GoodCmd
  <2>8. FreshHasNoTimer' /\ PooledHasTimer' /\ CallbackTimerMade'
    BY <1>1, QuietNotions
       DEF LInv, TimerInv, FreshHasNoTimer, PooledHasTimer, CallbackTimerMade
  <2> QED BY <2>7, <2>8 DEF TimerInv
<1> QED BY <1>2, <1>3 DEF TimeoutCB_Check, SlotTaken

\* The daemon executes the oldest command, which is a good one.
LEMMA TimerCommand ==
  ASSUME LInv, DaemonCommand
  PROVE  TimerInv'
<1>1. /\ OwnSame /\ dt' = dt /\ cmdq # << >> /\ cmdq' = Tail(cmdq)
      /\ tmr' = tmr \/ tmr' = [tmr EXCEPT ![Head(cmdq).timer] = StateAfter(Head(cmdq).op)]
  BY DEF DaemonCommand, ProcessCommand, OwnSame, serverVars, clientVars
<1>2. cmdq \in Seq(Cmds) /\ tmr \in [Conns -> TmrStates]
  BY OwnFacts DEF LInv
<1> DEFINE m == Head(cmdq)
<1>3. m \in Cmds /\ 1 \in DOMAIN cmdq /\ cmdq[1] = m
  BY <1>1, <1>2, TailFacts
<1>4. GoodCmd(m)
  BY <1>3 DEF LInv, TimerInv, QueueGood
<1>5. m.timer \in Conns /\ m.op \in Ops
  BY <1>3 DEF Cmds
<1>6. \A k \in DOMAIN Tail(cmdq) : k + 1 \in DOMAIN cmdq /\ Tail(cmdq)[k] = cmdq[k + 1]
  BY <1>1, <1>2, TailFacts
<1>7. QueueGood'
  BY <1>1, <1>6, QuietNotions DEF LInv, TimerInv, QueueGood, GoodCmd
<1>8. \A c \in Conns : tmr'[c] = tmr[c] \/ (c = m.timer /\ tmr'[c] = StateAfter(m.op))
  BY <1>1, <1>2, <1>5
<1>9. m.op # "delete" => StateAfter(m.op) \in {"dormant", "active"}
  BY <1>5 DEF StateAfter, Ops
<1> HIDE DEF m
<1>10. FreshHasNoTimer'
  BY <1>1, <1>4, <1>8, QuietNotions DEF LInv, TimerInv, FreshHasNoTimer, GoodCmd
<1>11. PooledHasTimer'
  BY <1>1, <1>4, <1>8, <1>9, QuietNotions DEF LInv, TimerInv, PooledHasTimer, GoodCmd
<1>12. CallbackTimerMade'
  BY <1>1, QuietNotions DEF LInv, TimerInv, CallbackTimerMade
<1> QED BY <1>7, <1>10, <1>11, <1>12 DEF TimerInv

\* The steps that touch neither the timers nor the pool.
LEMMA OtherSteps ==
  ASSUME [Next]_vars
  PROVE  \/ OwnSame /\ UNCHANGED <<tmr, cmdq, lost>> /\ (dt' = dt \/ dt' = NULL)
         \/ \E c \in Conns : AcceptOne(c) \/ Connect(c) \/ TimeoutCB_Begin(c)
         \/ \E j \in Slots : AddClient(j)
         \/ SetOptions \/ VisitFlagged \/ HdrRequest \/ Fallback \/ WsMessage \/ WsServe
         \/ DaemonCommand \/ TimeoutCB_Check
<1> USE DEF OwnSame, vars, serverVars, timerVars, daemonVars, clientVars, historyVars
<1>1. CASE UNCHANGED vars \/ Halted
  BY <1>1 DEF Halted
<1>2. CASE ServerStart \/ AcceptNone \/ AddWait \/ MainLoopWakes
  BY <1>2 DEF ServerStart, AcceptNone, AddWait, MainLoopWakes
<1>3. CASE VisitEmpty \/ VisitHttp \/ VisitWebSocket
  BY <1>3 DEF VisitEmpty, VisitHttp, VisitWebSocket
<1>4. CASE HdrTooLong \/ HdrBytes \/ HdrClientClose \/ HdrWait \/ HdrWakes
  BY <1>4 DEF HdrTooLong, HdrBytes, HdrClientClose, HdrWait, HdrWakes
<1>5. CASE BodyData \/ BodyClientClose \/ BodyWait \/ BodyWakes \/ Dispatch
  BY <1>5 DEF BodyData, BodyClientClose, BodyWait, BodyWakes, Dispatch
<1>6. CASE WsNoFrame \/ WsFrame \/ WsWakes \/ WsNoMemory \/ WsPayloadMissing \/ WsPayloadEnd
  BY <1>6 DEF WsNoFrame, WsFrame, WsWakes, WsNoMemory, WsPayloadMissing, WsPayloadEnd
<1>7. CASE TimeoutCB_Write
  BY <1>7 DEF TimeoutCB_Write
<1>8. CASE \E c \in Conns : Send(c)
  BY <1>8 DEF Send
<1> QED BY <1>1, <1>2, <1>3, <1>4, <1>5, <1>6, <1>7, <1>8
        DEF Next, ServerStep, DaemonStep, ClientStep

-----------------------------------------------------------------------------
LEMMA TimerSafetyInit == Init => LInv
<1> SUFFICES ASSUME Init PROVE LInv
  OBVIOUS
<1>1. OwnInv
  BY OwnInit
<1>2. /\ \A c \in Conns : tmr[c] = "none" /\ sock[c] = "none"
      /\ cmdq = << >> /\ dt = NULL /\ \A i \in Slots : pool[i] = NULL
  BY DEF Init, TimerInit
<1>3. TimerInv
  BY <1>2 DEF TimerInv, FreshHasNoTimer, QueueGood, PooledHasTimer, CallbackTimerMade, InPool
<1> QED BY <1>1, <1>3 DEF LInv

LEMMA TimerSafetyStep == LInv /\ [Next]_vars => LInv'
<1> SUFFICES ASSUME LInv, [Next]_vars PROVE LInv'
  OBVIOUS
<1>1. OwnInv'
  BY OwnStep DEF LInv
<1>2. TimerInv'
  BY OtherSteps, TimerQuiet, TimerAcceptOrConnect, TimerBegin, TimerAddClient,
     TimerSetOptions, TimerVisitFlagged, TimerHdrRequest, TimerFallback,
     TimerWsFrame, TimerCommand, TimerCheck
<1> QED BY <1>1, <1>2 DEF LInv

\* The timer of a connection that holds a slot is never deleted and has no
\* delete command under way, for every pool, every queue length and every
\* interleaving of the server, the daemon's callback and the clients.
THEOREM LiveTimersKept == Spec => []LiveTimerKept
<1>1. Init => LInv
  BY TimerSafetyInit
<1>2. LInv /\ [Next]_vars => LInv'
  BY TimerSafetyStep
<1>3. LInv => LiveTimerKept
  BY DEF LInv, TimerInv, QueueGood, GoodCmd, PooledHasTimer, LiveTimerKept, HasCommand
<1> QED BY <1>1, <1>2, <1>3, PTL DEF Spec
-----------------------------------------------------------------------------
(* The timer of a closed connection is given back.                         *)

Deletes(q, c) == \E k \in DOMAIN q : q[k].timer = c /\ q[k].op = "delete"

Reclaimed(c) == tmr[c] = "freed" \/ Deletes(cmdq, c) \/ Delete(c) \in lost

LEMMA ReclaimedIsProperty ==
  TimersReclaimed <=> \A c \in Conns : sock[c] = "closed" => Reclaimed(c)
BY DEF TimersReclaimed, HasCommand, Reclaimed, Deletes

\* Posting keeps the delete commands that are in the queue and those that were refused.
LEMMA PostGrows ==
  ASSUME cmdq \in Seq(Cmds), NEW m \in Cmds, NEW n \in Cmds,
         Post(m) \/ Post2(m, n) \/ UNCHANGED <<cmdq, lost>>
  PROVE  lost \subseteq lost' /\ \A c : Deletes(cmdq, c) => Deletes(cmdq', c)
<1>1. ASSUME NEW q \in Seq(Cmds), NEW x \in Cmds, NEW c, Deletes(q, c)
      PROVE  Deletes(Enqueue(q, x), c)
  <2>1. \A k \in DOMAIN q : k \in DOMAIN Enqueue(q, x) /\ Enqueue(q, x)[k] = q[k]
    BY EnqueueFacts
  <2> QED BY <1>1, <2>1 DEF Deletes
<1>2. Enqueue(cmdq, m) \in Seq(Cmds)
  BY EnqueueFacts
<1>3. \A c : Deletes(cmdq, c) => /\ Deletes(Enqueue(cmdq, m), c)
                                 /\ Deletes(Enqueue(Enqueue(cmdq, m), n), c)
  BY <1>1, <1>2
<1> QED BY <1>3 DEF Post, Post2

\* A step that closes no connection and touches no timer of a closed one.
LEMMA ReclaimGrows ==
  ASSUME TimersReclaimed, cmdq \in Seq(Cmds), NEW m \in Cmds, NEW n \in Cmds,
         Post(m) \/ Post2(m, n) \/ UNCHANGED <<cmdq, lost>>,
         \A c \in Conns : sock'[c] = "closed" => sock[c] = "closed" /\ tmr'[c] = tmr[c]
  PROVE  TimersReclaimed'
<1>1. lost \subseteq lost' /\ \A c : Deletes(cmdq, c) => Deletes(cmdq', c)
  BY PostGrows
<1>2. \A c \in Conns : sock[c] = "closed" => Reclaimed(c)
  BY ReclaimedIsProperty
<1>3. \A c \in Conns : sock'[c] = "closed" => Reclaimed(c)'
  <2> TAKE c \in Conns
  <2> HAVE sock'[c] = "closed"
  <2>1. Reclaimed(c) /\ tmr'[c] = tmr[c]
    BY <1>2
  <2>2. Delete(c)' = Delete(c)
    BY DEF Delete
  <2> QED BY <1>1, <2>1, <2>2 DEF Reclaimed
<1> QED BY <1>3 DEF TimersReclaimed, HasCommand, Reclaimed, Deletes

\* Closing a connection posts the delete command, which is queued or refused.
LEMMA ReclaimVisitFlagged ==
  ASSUME LInv, TimersReclaimed, VisitFlagged
  PROVE  TimersReclaimed'
<1>0. C \in Conns
  BY OwnFacts DEF VisitFlagged, At, LInv
<1>z. PICK z \in Conns : z = C
  BY <1>0
<1>1. tmr' = tmr /\ sock' = [sock EXCEPT ![z] = "closed"] /\ Post2(Stop(z), Delete(z))
  BY <1>z DEF VisitFlagged, ReleaseTimer, CloseSocket
<1>2. cmdq \in Seq(Cmds) /\ Stop(z) \in Cmds /\ Delete(z) \in Cmds
  BY OwnFacts, StopTypes DEF LInv
<1>3. lost \subseteq lost' /\ \A c : Deletes(cmdq, c) => Deletes(cmdq', c)
  BY <1>1, <1>2, PostGrows
<1>4. Deletes(cmdq', z) \/ Delete(z) \in lost'
  <2> DEFINE q == Enqueue(cmdq, Stop(z))
  <2>1. cmdq' = Enqueue(q, Delete(z)) /\ Refused(q, Delete(z)) \subseteq lost'
    BY <1>1 DEF Post2
  <2>2. q \in Seq(Cmds)
    BY <1>2, EnqueueFacts
  <2> HIDE DEF q
  <2>3. \/ Delete(z) \in Refused(q, Delete(z))
        \/ \E k \in DOMAIN Enqueue(q, Delete(z)) : Enqueue(q, Delete(z))[k] = Delete(z)
    BY <1>2, <2>2, EnqueueFacts
  <2>4. Delete(z).timer = z /\ Delete(z).op = "delete"
    BY StopTypes
  <2> QED BY <2>1, <2>3, <2>4 DEF Deletes
<1>5. \A c \in Conns : sock[c] = "closed" => Reclaimed(c)
  BY ReclaimedIsProperty
<1>6. \A c \in Conns : sock'[c] = "closed" => Reclaimed(c)'
  <2> TAKE c \in Conns
  <2> HAVE sock'[c] = "closed"
  <2>1. Delete(c)' = Delete(c)
    BY DEF Delete
  <2>2. CASE c = z
    BY <1>4, <2>1, <2>2 DEF Reclaimed
  <2>3. CASE c # z
    <3>1. sock[c] = "closed"
      BY <1>1, <2>3
    <3> QED BY <1>1, <1>3, <1>5, <2>1, <3>1 DEF Reclaimed
  <2> QED BY <2>2, <2>3
<1> QED BY <1>6 DEF TimersReclaimed, HasCommand, Reclaimed, Deletes

\* The daemon frees the timer when it takes the delete command, and a freed timer
\* stays freed.
LEMMA ReclaimCommand ==
  ASSUME LInv, TimersReclaimed, DaemonCommand
  PROVE  TimersReclaimed'
<1> DEFINE m == Head(cmdq)
<1>1. /\ sock' = sock /\ lost' = lost /\ cmdq' = Tail(cmdq) /\ cmdq # << >>
      /\ tmr' = IF FaultOf(m) = "none" THEN [tmr EXCEPT ![m.timer] = StateAfter(m.op)] ELSE tmr
  BY DEF DaemonCommand, ProcessCommand, clientVars
<1>2. cmdq \in Seq(Cmds) /\ tmr \in [Conns -> TmrStates]
  BY OwnFacts DEF LInv
<1>3. m \in Cmds /\ m.timer \in Conns /\ m.op \in Ops
  BY <1>1, <1>2, TailFacts DEF Cmds
<1>4. m = cmdq[1]
  BY <1>1, <1>2, TailFacts
<1> HIDE DEF m
<1>5. \A c \in Conns : sock[c] = "closed" => Reclaimed(c)
  BY ReclaimedIsProperty
<1>6. ASSUME NEW c \in Conns, tmr[c] = "freed" PROVE tmr'[c] = "freed"
  <2>1. CASE m.timer = c
    <3>1. FaultOf(m) # "none"
      BY <1>6, <2>1 DEF FaultOf
    <3> QED BY <1>1, <1>6, <3>1
  <2>2. CASE m.timer # c
    BY <1>1, <1>2, <1>6, <2>2
  <2> QED BY <2>1, <2>2
<1>7. ASSUME NEW c \in Conns, Deletes(cmdq, c) PROVE tmr'[c] = "freed" \/ Deletes(cmdq', c)
  <2>1. PICK k \in DOMAIN cmdq : cmdq[k].timer = c /\ cmdq[k].op = "delete"
    BY <1>7 DEF Deletes
  <2>2. CASE k = 1
    <3>1. m.timer = c /\ m.op = "delete"
      BY <1>4, <2>1, <2>2
    <3>2. FaultOf(m) = "none" \/ tmr[c] = "freed"
      BY <3>1 DEF FaultOf
    <3>3. FaultOf(m) = "none" => tmr'[c] = "freed"
      BY <1>1, <1>2, <3>1 DEF StateAfter
    <3> QED BY <1>6, <3>2, <3>3
  <2>3. CASE k # 1
    <3>1. k - 1 \in DOMAIN Tail(cmdq) /\ Tail(cmdq)[k - 1] = cmdq[k]
      BY <1>1, <1>2, <2>3, TailFacts
    <3> QED BY <1>1, <2>1, <3>1 DEF Deletes
  <2> QED BY <2>2, <2>3
<1>8. \A c \in Conns : sock'[c] = "closed" => Reclaimed(c)'
  <2> TAKE c \in Conns
  <2> HAVE sock'[c] = "closed"
  <2>1. Delete(c)' = Delete(c)
    BY DEF Delete
  <2> QED BY <1>1, <1>5, <1>6, <1>7, <2>1 DEF Reclaimed
<1> QED BY <1>8 DEF TimersReclaimed, HasCommand, Reclaimed, Deletes

\* The other steps post commands or leave the timers alone.
LEMMA ReclaimPosts ==
  ASSUME LInv, [Next]_vars, ~VisitFlagged, ~DaemonCommand
  PROVE  /\ \A c \in Conns : sock'[c] = "closed" => sock[c] = "closed" /\ tmr'[c] = tmr[c]
         /\ \/ UNCHANGED <<cmdq, lost>>
            \/ \E m, n \in Cmds : Post(m) \/ Post2(m, n)
<1>1. CASE UNCHANGED timerVars
  <2>1. \A c \in Conns : sock'[c] = "closed" => sock[c] = "closed"
    <3>1. \/ sock' = sock
          \/ \E c \in Conns : AcceptOne(c) \/ Connect(c)
          \/ \E j \in Slots : AddClient(j)
      BY QuietSteps DEF OwnSame
    <3>2. sock \in [Conns -> {"none", "backlog", "open", "closed"}]
      BY DEF LInv, OwnInv, TInv, TypeOK
    <3> QED BY <3>1, <3>2 DEF AcceptOne, Connect, AddClient, clientVars
  <2> QED BY <1>1, <2>1 DEF timerVars
<1>2. ASSUME NEW j \in Slots, AddClient(j)
      PROVE  /\ \A c \in Conns : sock'[c] = "closed" => sock[c] = "closed" /\ tmr'[c] = tmr[c]
             /\ acc \in Conns /\ Post(Stop(acc))
  <2>1. /\ acc \in Conns /\ sock' = sock /\ tmr' = [tmr EXCEPT ![acc] = "dormant"]
        /\ Post(Stop(acc))
    BY <1>2, AccIsNull DEF AddClient, At, LInv, OwnInv, TimerCreate, clientVars
  <2>2. sock[acc] = "open" /\ tmr \in [Conns -> TmrStates]
    BY <2>1, OwnFacts DEF LInv, OwnInv, SocketOwnership
  <2> QED BY <2>1, <2>2
<1>3. CASE SetOptions \/ HdrRequest \/ Fallback \/ WsMessage \/ WsServe
  <2>1. C \in Conns /\ UNCHANGED <<sock, tmr>>
    BY <1>3, OwnFacts DEF LInv, At, BusyPCs, SetOptions, HdrRequest, Fallback, WsMessage,
       WsServe, clientVars
  <2>2. \/ UNCHANGED <<cmdq, lost>> \/ Post(Start(C)) \/ Post(Stop(C))
        \/ Post(ReStart(C))
        \/ HdrRequest /\ HeaderCommands(C, Head(rx[C]))
    BY <1>3 DEF SetOptions, StartTimeout, HdrRequest, Fallback, WsMessage, WsServe
  <2>3. CASE HdrRequest /\ HeaderCommands(C, Head(rx[C]))
    <3>1. rx[C] \in Seq(Tokens) /\ rx[C] # << >>
      BY <2>1, <2>3 DEF HdrRequest, Reads, LInv, OwnInv, TInv, TypeOK
    <3>2. Head(rx[C]) \in Tokens
      BY <3>1, SeqFacts
    <3>3. Head(rx[C]) \in Requests
      BY <2>3, <3>2, ReqToken DEF HdrRequest, Reads
    <3>4. WEBSOCKET_TIMEOUT_TIMER_MS \in Nat /\ Head(rx[C]).keepalive * 1000 \in Nat
      BY <3>3 DEF Requests, WEBSOCKET_TIMEOUT_TIMER_MS
    <3>5. \/ Post(Stop(C))
          \/ Post2(Stop(C), ChangePeriod(C, WEBSOCKET_TIMEOUT_TIMER_MS))
          \/ Post2(Stop(C), ChangePeriod(C, Head(rx[C]).keepalive * 1000))
      BY <2>3 DEF HeaderCommands
    <3> QED BY <2>1, <3>4, <3>5, StopTypes
  <2> QED BY <2>1, <2>2, <2>3, StopTypes
<1>4. CASE (\E t \in Conns : TimeoutCB_Begin(t)) \/ TimeoutCB_Check
  <2>1. UNCHANGED <<sock, tmr>>
    BY <1>4 DEF TimeoutCB_Begin, TimeoutCB_Check, clientVars
  <2>2. \/ UNCHANGED <<cmdq, lost>>
        \/ \E t \in Conns : Post(Stop(t)) \/ Post(Delete(t))
    <3>1. TimeoutCB_Check => dt \in Conns
      BY DEF TimeoutCB_Check, LInv, OwnInv, TInv, TypeOK, PointersSet
    <3> QED BY <1>4, <3>1 DEF TimeoutCB_Begin, TimeoutCB_Check
  <2> QED BY <2>1, <2>2, StopTypes
<1>5. \/ UNCHANGED timerVars \/ (\E j \in Slots : AddClient(j))
      \/ SetOptions \/ HdrRequest \/ Fallback \/ WsMessage \/ WsServe
      \/ (\E t \in Conns : TimeoutCB_Begin(t)) \/ TimeoutCB_Check
  BY OtherSteps DEF AcceptOne, Connect, timerVars
<1> QED BY <1>1, <1>2, <1>3, <1>4, <1>5, StopTypes

\* The timer of a closed connection is freed, about to be freed, or its delete command
\* was refused by the full queue: no way to close a connection forgets its timer, and
\* none brings a freed timer back.
THEOREM TimersAlwaysReclaimed == Spec => []TimersReclaimed
<1>1. Init => TimersReclaimed
  BY DEF Init, TimersReclaimed
<1>2. LInv /\ TimersReclaimed /\ [Next]_vars => TimersReclaimed'
  <2> SUFFICES ASSUME LInv, TimersReclaimed, [Next]_vars PROVE TimersReclaimed'
    OBVIOUS
  <2>1. CASE VisitFlagged
    BY <2>1, ReclaimVisitFlagged
  <2>2. CASE DaemonCommand
    BY <2>2, ReclaimCommand
  <2>3. CASE ~VisitFlagged /\ ~DaemonCommand
    <3>1. cmdq \in Seq(Cmds)
      BY OwnFacts DEF LInv
    <3>2. CASE Conns = {}
      BY <3>2 DEF TimersReclaimed
    <3>3. CASE Conns # {}
      <4>1. \E m \in Cmds : TRUE
        BY <3>3, StopTypes
      <4> QED BY <2>3, <3>1, <4>1, ReclaimPosts, ReclaimGrows
    <3> QED BY <3>2, <3>3
  <2> QED BY <2>1, <2>2, <2>3
<1>3. Spec => []LInv
  BY TimerSafetyInit, TimerSafetyStep, PTL DEF Spec
<1> QED BY <1>1, <1>2, <1>3, PTL DEF Spec
-----------------------------------------------------------------------------
(* The watch-out timer of a client the server waits for is armed.          *)

Certain(c) == Armed(c) \/ StartRefused(c)

\* No answer is due to c, which may be silent as long as it likes.
Silent(c) ==
  /\ InPool(c) /\ ~con[c].flag
  /\ NoRequestYet(c) \/ con[c].auth
  /\ c = C => pc \notin BodyPCs \cup {"opts", "wsServe"}

\* The handshake of c is being answered, after which it is silent.
Upgrading(c) ==
  /\ InPool(c) /\ ~con[c].flag /\ con[c].ws
  /\ c = C /\ pc \in BodyPCs

\* Only WebSocket connections are authenticated, and headers are read only from
\* the others; a body is read only when it has a length; and only a handshake
\* leaves a connection without the stop of its timer.
HandshakeOrder ==
  /\ \A c \in Conns : con[c].auth => con[c].ws
  /\ pc \in {"hdr", "hdrSleep"} => ~con[C].ws
  /\ pc \in {"body", "bodySleep"} => con[C].len # 0
  /\ pc = "fallback" /\ r = "MORE" => con[C].ws

\* The callback is about to flag the connection whose timer expired.
CallbackPointer == dpc = "write" /\ InPool(dt) => dptr = dt

TrustedArmed ==
  fault = "none" => \A c \in Conns : Silent(c) \/ Upgrading(c) => Certain(c)

WatchInv == LInv /\ HandshakeOrder /\ CallbackPointer /\ TrustedArmed

\* The invariant is what the property needs.
LEMMA WatchImplies == WatchInv => WatchoutArmed
<1> SUFFICES ASSUME WatchInv, fault = "none", NEW c \in Conns, AwaitsClient(c),
                    pc \notin {"dispatch", "fallback"}
             PROVE  Certain(c)
  BY DEF WatchoutArmed, Certain
<1>1. CASE c = C /\ pc \in {"body", "bodySleep"}
  <2>1. con[c].auth /\ con[c].ws
    BY <1>1 DEF WatchInv, HandshakeOrder, AwaitsClient, NoRequestYet
  <2>2. Upgrading(c)
    BY <1>1, <2>1 DEF Upgrading, AwaitsClient, BodyPCs
  <2> QED BY <2>2 DEF WatchInv, TrustedArmed
<1>2. CASE ~(c = C /\ pc \in {"body", "bodySleep"})
  <2>1. Silent(c)
    BY <1>2 DEF Silent, AwaitsClient, BodyPCs
  <2> QED BY <2>1 DEF WatchInv, TrustedArmed
<1> QED BY <1>1, <1>2

\* What a certain timeout means for the queue, now and in the next state.
LEMMA CertainMeans ==
  ASSUME cmdq \in Seq(Cmds), NEW c
  PROVE  Certain(c) <=> \/ tmr[c] = "active" /\ ~Mentions(cmdq, c)
                        \/ EndsStarting(cmdq, c)
                        \/ dpc \in {"check", "write"} /\ dt = c
                        \/ StartRefused(c)
<1>1. \A k \in DOMAIN cmdq : cmdq[k].op \in Ops
  <2>1. \A k \in DOMAIN cmdq : cmdq[k] \in Cmds
    OBVIOUS
  <2> QED BY <2>1 DEF Cmds
<1>2. HasCommand(c, Ops) <=> Mentions(cmdq, c)
  BY <1>1 DEF HasCommand, Mentions
<1>3. LastCommandStarts(c) <=> EndsStarting(cmdq, c)
  BY DEF LastCommandStarts, EndsStarting, Starts
<1> QED BY <1>2, <1>3 DEF Certain, Armed

LEMMA CertainMeansNext ==
  ASSUME cmdq' \in Seq(Cmds), NEW c
  PROVE  Certain(c)' <=> \/ tmr'[c] = "active" /\ ~Mentions(cmdq', c)
                         \/ EndsStarting(cmdq', c)
                         \/ dpc' \in {"check", "write"} /\ dt' = c
                         \/ StartRefused(c)'
<1>1. \A k \in DOMAIN cmdq' : cmdq'[k].op \in Ops
  <2>1. \A k \in DOMAIN cmdq' : cmdq'[k] \in Cmds
    OBVIOUS
  <2> QED BY <2>1 DEF Cmds
<1>2. HasCommand(c, Ops)' <=> Mentions(cmdq', c)
  BY <1>1 DEF HasCommand, Mentions
<1>3. LastCommandStarts(c)' <=> EndsStarting(cmdq', c)
  BY DEF LastCommandStarts, EndsStarting, Starts
<1> QED BY <1>2, <1>3 DEF Certain, Armed

\* Commands for timer x only.
PostsFor(x) ==
  \/ UNCHANGED <<cmdq, lost>>
  \/ \E m, n \in Cmds : m.timer = x /\ n.timer = x /\ (Post(m) \/ Post2(m, n))

\* They leave the timeout of every other connection certain.
LEMMA CertainKept ==
  ASSUME cmdq \in Seq(Cmds), NEW x, NEW c, c # x, PostsFor(x), tmr'[c] = tmr[c],
         dpc \in {"check", "write"} /\ dt = c => dpc' \in {"check", "write"} /\ dt' = c,
         Certain(c)
  PROVE  Certain(c)'
<1>1. /\ cmdq' \in Seq(Cmds) /\ lost \subseteq lost'
      /\ Mentions(cmdq', c) => Mentions(cmdq, c)
      /\ EndsStarting(cmdq, c) => EndsStarting(cmdq', c)
  <2>1. CASE UNCHANGED <<cmdq, lost>>
    BY <2>1
  <2>2. ASSUME NEW m \in Cmds, NEW n \in Cmds, m.timer = x, n.timer = x, Post(m) \/ Post2(m, n)
        PROVE  <1>1
    <3> DEFINE q == Enqueue(cmdq, m)
    <3>1. /\ q \in Seq(Cmds)
          /\ Mentions(q, c) => Mentions(cmdq, c)
          /\ EndsStarting(cmdq, c) => EndsStarting(q, c)
      BY <2>2, EnqueueFacts, EnqueueOther
    <3>2. /\ cmdq' = q \/ cmdq' = Enqueue(q, n)
          /\ lost \subseteq lost'
      BY <2>2 DEF Post, Post2
    <3> HIDE DEF q
    <3>3. /\ Enqueue(q, n) \in Seq(Cmds)
          /\ Mentions(Enqueue(q, n), c) => Mentions(q, c)
          /\ EndsStarting(q, c) => EndsStarting(Enqueue(q, n), c)
      BY <2>2, <3>1, EnqueueFacts, EnqueueOther
    <3> QED BY <3>1, <3>2, <3>3
  <2> QED BY <2>1, <2>2 DEF PostsFor
<1>2. StartRefused(c) => StartRefused(c)'
  BY <1>1 DEF StartRefused
<1> QED BY <1>1, <1>2, CertainMeans, CertainMeansNext

\* A stop followed by a start or a change, or a start alone, makes it certain.
LEMMA CertainStarts ==
  ASSUME cmdq \in Seq(Cmds), NEW c, NEW m \in Cmds, NEW n \in Cmds, n.timer = c,
         n.op \in Starts, Post(n) \/ Post2(m, n)
  PROVE  Certain(c)'
<1> DEFINE q == IF Post(n) THEN cmdq ELSE Enqueue(cmdq, m)
<1>1. /\ q \in Seq(Cmds) /\ cmdq' = Enqueue(q, n) /\ Refused(q, n) \subseteq lost'
  BY EnqueueFacts DEF Post, Post2
<1> HIDE DEF q
<1>2. cmdq' \in Seq(Cmds)
  BY <1>1, EnqueueFacts
<1>3. EndsStarting(cmdq', c) \/ n \in lost'
  BY <1>1, EnqueueStart
<1>4. n \in lost' => StartRefused(c)'
  BY DEF StartRefused, Starts
<1> QED BY <1>2, <1>3, <1>4, CertainMeansNext

\* A step that serves at most connection x makes no other connection one whose
\* timer has to be armed.
LEMMA OthersCarried ==
  ASSUME NEW x,
         \A c \in Conns : c # x /\ InPool(c)' => InPool(c) /\ Carries(con[c], con'[c]),
         \/ pc \notin BodyPCs \cup {"opts", "wsServe"} /\ pc' \notin BodyPCs
         \/ C' = C /\ pc' = pc
         \/ C' = C /\ pc \in BodyPCs /\ pc' \in BodyPCs
         \/ x = C /\ C' = C
         \/ x = C /\ pc' \notin BodyPCs \cup {"opts", "wsServe"}
  PROVE  \A c \in Conns : c # x /\ (Silent(c) \/ Upgrading(c))' => Silent(c) \/ Upgrading(c)
<1> SUFFICES ASSUME NEW c \in Conns, c # x, Silent(c)' \/ Upgrading(c)'
             PROVE  Silent(c) \/ Upgrading(c)
  OBVIOUS
<1>1. InPool(c) /\ Carries(con[c], con'[c]) /\ ~con[c].flag
  BY DEF Silent, Upgrading, Carries
<1>2. Silent(c)' => NoRequestYet(c) \/ con[c].auth
  BY <1>1 DEF Silent, NoRequestYet, Carries
<1>3. Upgrading(c)' => con[c].ws /\ c = C' /\ pc' \in BodyPCs
  BY <1>1 DEF Upgrading, Carries
<1>4. Silent(c)' => (c = C' => pc' \notin BodyPCs \cup {"opts", "wsServe"})
  BY DEF Silent
<1> QED BY <1>1, <1>2, <1>3, <1>4 DEF Silent, Upgrading

\* The timers stay armed in a step that serves at most connection x.
LEMMA WatchKept ==
  ASSUME WatchInv, NEW x, UNCHANGED <<fault, dpc, dt>>, PostsFor(x),
         \A c \in Conns : c # x => tmr'[c] = tmr[c],
         \A c \in Conns : c # x /\ (Silent(c) \/ Upgrading(c))' => Silent(c) \/ Upgrading(c),
         fault = "none" /\ x \in Conns /\ (Silent(x)' \/ Upgrading(x)') => Certain(x)'
  PROVE  TrustedArmed'
<1> SUFFICES ASSUME fault = "none", NEW c \in Conns, Silent(c)' \/ Upgrading(c)'
             PROVE  Certain(c)'
  BY DEF TrustedArmed
<1>1. CASE c = x
  BY <1>1
<1>2. CASE c # x
  <2>1. Certain(c)
    BY <1>2 DEF WatchInv, TrustedArmed
  <2>2. cmdq \in Seq(Cmds)
    BY OwnFacts DEF WatchInv, LInv
  <2> QED BY <1>2, <2>1, <2>2, CertainKept
<1> QED BY <1>1, <1>2

-----------------------------------------------------------------------------
(* The order of a handshake.                                               *)

\* A step that neither begins a header or a body nor dispatches a request.
LEMMA HandshakeQuiet ==
  ASSUME HandshakeOrder, \A c \in Conns : Carries(con[c], con'[c]),
         \/ pc' \notin {"hdr", "hdrSleep", "body", "bodySleep", "fallback"}
         \/ /\ C \in Conns /\ C' = C /\ r' = r
            /\ pc' \in {"hdr", "hdrSleep"} => pc \in {"hdr", "hdrSleep"}
            /\ pc' \in {"body", "bodySleep"} => pc \in {"body", "bodySleep"}
            /\ pc' = "fallback" => pc = "fallback"
  PROVE  HandshakeOrder'
<1>1. \A c \in Conns : con'[c].auth => con'[c].ws
  BY DEF HandshakeOrder, Carries
<1>2. CASE pc' \notin {"hdr", "hdrSleep", "body", "bodySleep", "fallback"}
  BY <1>1, <1>2 DEF HandshakeOrder
<1>3. CASE pc' \in {"hdr", "hdrSleep", "body", "bodySleep", "fallback"}
  <2>1. C \in Conns /\ C' = C /\ Carries(con[C], con'[C]) /\ r' = r
    BY <1>3
  <2> QED BY <1>1, <1>3, <2>1 DEF HandshakeOrder, Carries
<1> QED BY <1>2, <1>3

\* The header of a request: only now may the connection become a WebSocket.
LEMMA HandshakeHdrRequest ==
  ASSUME TInv, HandshakeOrder, HdrRequest
  PROVE  HandshakeOrder'
<1> DEFINE q == Head(rx[C])
           s == ParseHeaders(con[C], q)
<1>1. /\ pc = "hdr" /\ C \in Conns /\ con[C] \in ConnStruct /\ pool' = pool
      /\ con \in [Conns -> ConnStruct]
  BY Typing DEF HdrRequest, At, BusyPCs
<1>2. s.auth = con[C].auth /\ (con[C].ws => s.ws)
  BY <1>1 DEF ParseHeaders, ConnStruct
<1>3. \/ pc' \in {"dispatch", "visit", "accept"} /\ con' = [con EXCEPT ![C] = s]
      \/ /\ pc' = "body" /\ cur' = cur /\ s.len \in 1..MaxBody
         /\ con' = [con EXCEPT ![C] = [s EXCEPT !.buf = TRUE]]
  BY DEF HdrRequest, NextSlot
<1>4. s \in ConnStruct
  <2>1. q \in Requests
    BY <1>1, Typing, ConsumeFacts, ReqToken DEF HdrRequest, Reads
  <2> QED BY <1>1, <2>1, ParseType
<1> HIDE DEF s
<1>5. CASE pc' \in {"dispatch", "visit", "accept"} /\ con' = [con EXCEPT ![C] = s]
  <2>1. \A c \in Conns : con'[c].auth => con'[c].ws
    BY <1>1, <1>2, <1>5 DEF HandshakeOrder
  <2> QED BY <1>5, <2>1 DEF HandshakeOrder
<1>6. CASE /\ pc' = "body" /\ cur' = cur /\ s.len \in 1..MaxBody
           /\ con' = [con EXCEPT ![C] = [s EXCEPT !.buf = TRUE]]
  <2> DEFINE e == [s EXCEPT !.buf = TRUE]
  <2>1. e.auth = s.auth /\ e.ws = s.ws /\ e.len = s.len
    BY <1>4 DEF ConnStruct
  <2>2. con' = [con EXCEPT ![C] = e]
    BY <1>6
  <2> HIDE DEF e
  <2>3. con'[C] = e /\ \A c \in Conns : c # C => con'[c] = con[c]
    BY <1>1, <2>2
  <2>4. \A c \in Conns : con'[c].auth => con'[c].ws
    BY <1>1, <1>2, <2>1, <2>3 DEF HandshakeOrder
  <2>5. C' = C
    BY <1>1, <1>6 DEF C
  <2>6. s.len # 0
    BY <1>6, BodyAssumption
  <2> QED BY <1>6, <2>1, <2>3, <2>4, <2>5, <2>6 DEF HandshakeOrder
<1> QED BY <1>3, <1>5, <1>6

\* The handlers: only the handshake, of a WebSocket, authenticates and asks for more.
LEMMA HandshakeDispatch ==
  ASSUME TInv, HandshakeOrder, Dispatch
  PROVE  HandshakeOrder'
<1>1. /\ C \in Conns /\ con \in [Conns -> ConnStruct] /\ C' = C /\ pc' = "fallback"
  BY Typing DEF Dispatch, At, BusyPCs, C
<1>2. CASE DispatchHandshake
  <2>1. con[C].ws /\ (con' = con \/ con' = [con EXCEPT ![C].auth = TRUE])
    BY <1>2 DEF DispatchHandshake
  <2>2. \A c \in Conns : con'[c].ws = con[c].ws /\ (con'[c].auth => con[c].auth \/ c = C)
    BY <1>1, <2>1, Writes DEF Becomes
  <2> QED BY <1>1, <2>1, <2>2 DEF HandshakeOrder
<1>3. CASE DispatchPost \/ DispatchCgi \/ DispatchOther
  <2>1. r' = "DONE"
    BY <1>3 DEF DispatchPost, DispatchCgi, DispatchOther
  <2>2. \/ con' = con \/ con' = [con EXCEPT ![C].cgi = TRUE]
        \/ con' = [con EXCEPT ![C].cgi = FALSE]
    BY <1>3 DEF DispatchPost, DispatchCgi, RunCgi, DispatchOther
  <2>3. \A c \in Conns : Carries(con[c], con'[c])
    BY <1>1, <2>2, KeepsSession
  <2> QED BY <1>1, <2>1, <2>3 DEF HandshakeOrder, Carries
<1> QED BY <1>2, <1>3 DEF Dispatch

LEMMA HandshakeStep ==
  ASSUME TInv, HandshakeOrder, [Next]_vars
  PROVE  HandshakeOrder'
<1> USE Typing DEF At
<1>1. CASE [DaemonStep \/ ClientStep \/ Halted]_vars
  <2>1. UNCHANGED <<pool, serverVars>> /\ \A c \in Conns : Carries(con[c], con'[c])
    BY <1>1, OthersFlag DEF Carries
  <2>2. UNCHANGED <<pc, r>> /\ C' = C
    BY <2>1 DEF serverVars, C
  <2>3. pc \in {"hdr", "hdrSleep", "body", "bodySleep", "fallback"} => C \in Conns
    BY DEF BusyPCs
  <2> QED BY <2>1, <2>2, <2>3, HandshakeQuiet
<1>2. CASE \/ ServerStart \/ AcceptNone \/ (\E c \in Conns : AcceptOne(c)) \/ AddWait
           \/ MainLoopWakes \/ VisitEmpty \/ VisitWebSocket \/ HdrTooLong \/ BodyData
           \/ WsNoFrame \/ WsFrame \/ WsWakes \/ WsNoMemory \/ WsPayloadMissing
  <2>1. con' = con /\ pc' \notin {"hdr", "hdrSleep", "body", "bodySleep", "fallback"}
    BY <1>2 DEF ServerStart, AcceptNone, AcceptOne, AddWait, MainLoopWakes, VisitEmpty,
       VisitWebSocket, HdrTooLong, BodyData, WsNoFrame, WsFrame, WsWakes, WsNoMemory,
       WsPayloadMissing, NextSlot, BeginSweep
  <2>2. \A c \in Conns : Carries(con[c], con'[c])
    BY <2>1 DEF Carries
  <2> QED BY <2>1, <2>2, HandshakeQuiet
<1>3. CASE \/ SetOptions \/ HdrClientClose \/ BodyClientClose \/ Fallback \/ WsPayloadEnd
           \/ WsMessage \/ WsServe
  <2>1. C \in Conns /\ pc' \notin {"hdr", "hdrSleep", "body", "bodySleep", "fallback"}
    BY <1>3 DEF SetOptions, HdrClientClose, BodyClientClose, Fallback, WsPayloadEnd, WsMessage,
       WsServe, NextSlot, BeginSweep, BusyPCs
  <2>2. \/ con' = con \/ con' = [con EXCEPT ![C].flag = TRUE]
        \/ con' = [con EXCEPT ![C].flag = TRUE, ![C].buf = FALSE]
        \/ con' = [con EXCEPT ![C].buf = FALSE, ![C].flag = TRUE]
        \/ con' = [con EXCEPT ![C].buf = FALSE]
    BY <1>3 DEF SetOptions, HdrClientClose, BodyClientClose, DropBody, Fallback, WsPayloadEnd,
       WsMessage, WsServe
  <2>3. \A c \in Conns : Carries(con[c], con'[c])
    BY <2>1, <2>2, KeepsSession
  <2> QED BY <2>1, <2>3, HandshakeQuiet
<1>4. CASE (\E j \in Slots : AddClient(j)) \/ VisitFlagged
  <2>1. /\ pc' \notin {"hdr", "hdrSleep", "body", "bodySleep", "fallback"}
        /\ \E x \in Conns : con' = [con EXCEPT ![x] = FreshConn]
    BY <1>4 DEF AddClient, VisitFlagged, NextSlot
  <2>2. \A c \in Conns : con'[c].auth => con'[c].ws
    BY <2>1 DEF FreshConn, HandshakeOrder
  <2> QED BY <2>1, <2>2 DEF HandshakeOrder
<1>5. CASE VisitHttp
  <2>1. /\ con' = con /\ pool' = pool
        /\ pc' \in {"visit", "accept"} \/ (pc' = "hdr" /\ cur' = cur /\ ~con[C].ws)
    BY <1>5 DEF VisitHttp, NextSlot
  <2> QED BY <2>1 DEF HandshakeOrder, C
<1>6. CASE HdrBytes \/ HdrWait \/ HdrWakes \/ BodyWait \/ BodyWakes
  <2>1. /\ UNCHANGED <<con, pool, cur, r>> /\ C \in Conns
        /\ \/ pc \in {"hdr", "hdrSleep"} /\ pc' \in {"hdr", "hdrSleep"}
           \/ pc \in {"body", "bodySleep"} /\ pc' \in {"body", "bodySleep"}
    BY <1>6 DEF HdrBytes, HdrWait, HdrWakes, BodyWait, BodyWakes, serverVars, BusyPCs
  <2>2. C' = C /\ \A c \in Conns : Carries(con[c], con'[c])
    BY <2>1 DEF C, Carries
  <2> QED BY <2>1, <2>2, HandshakeQuiet
<1> QED BY <1>1, <1>2, <1>3, <1>4, <1>5, <1>6, HandshakeHdrRequest, HandshakeDispatch
        DEF Next, ServerStep

-----------------------------------------------------------------------------
(* The callback's pointer.                                                 *)

LEMMA ServerLeavesDaemon ==
  ASSUME ServerStep \/ ClientStep \/ Halted
  PROVE  UNCHANGED daemonVars
<1>1. CASE ServerStart \/ AcceptNone \/ (\E c \in Conns : AcceptOne(c)) \/ AddWait
  BY <1>1 DEF ServerStart, AcceptNone, AcceptOne, AddWait
<1>2. CASE (\E j \in Slots : AddClient(j)) \/ SetOptions \/ MainLoopWakes \/ VisitFlagged
  BY <1>2 DEF AddClient, SetOptions, MainLoopWakes, VisitFlagged
<1>3. CASE VisitEmpty \/ VisitHttp \/ VisitWebSocket \/ HdrRequest \/ HdrTooLong
  BY <1>3 DEF VisitEmpty, VisitHttp, VisitWebSocket, HdrRequest, HdrTooLong
<1>4. CASE HdrBytes \/ HdrClientClose \/ HdrWait \/ HdrWakes
  BY <1>4 DEF HdrBytes, HdrClientClose, HdrWait, HdrWakes
<1>5. CASE BodyData \/ BodyClientClose \/ BodyWait \/ BodyWakes \/ Dispatch \/ Fallback
  BY <1>5 DEF BodyData, BodyClientClose, BodyWait, BodyWakes, Dispatch, Fallback
<1>6. CASE WsNoFrame \/ WsFrame \/ WsWakes \/ WsNoMemory
  BY <1>6 DEF WsNoFrame, WsFrame, WsWakes, WsNoMemory
<1>7. CASE WsPayloadMissing \/ WsPayloadEnd \/ WsMessage \/ WsServe
  BY <1>7 DEF WsPayloadMissing, WsPayloadEnd, WsMessage, WsServe, clientVars
<1>8. CASE ClientStep \/ Halted
  BY <1>8 DEF ClientStep, Connect, Send, Halted, vars
<1> QED BY <1>1, <1>2, <1>3, <1>4, <1>5, <1>6, <1>7, <1>8 DEF ServerStep

\* Only the accepted connection enters the pool.
LEMMA PoolGrows ==
  ASSUME LInv, [Next]_vars
  PROVE  \A c \in Conns : InPool(c)' => InPool(c) \/ c = acc
<1>1. CASE pool' = pool
  BY <1>1 DEF InPool
<1>2. ASSUME NEW j \in Slots, AddClient(j)
      PROVE  \A c \in Conns : InPool(c)' => InPool(c) \/ c = acc
  BY <1>2 DEF AddClient, InPool, LInv, OwnInv, TInv, TypeOK
<1>3. CASE VisitFlagged
  BY <1>3 DEF VisitFlagged, InPool, LInv, OwnInv, TInv, TypeOK
<1> QED BY <1>1, <1>2, <1>3, QuietSteps DEF OwnSame, AcceptOne, Connect

\* The slot of a timer's ID holds the timer's connection while that is in the pool.
LEMMA SlotOfTimer ==
  ASSUME LInv, NEW c \in Conns, InPool(c)
  PROVE  pool[tid[c]] = c
<1>1. PICK i \in Slots : pool[i] = c
  BY DEF InPool
<1>2. tid[pool[i]] = i
  BY <1>1 DEF LInv, OwnInv, TimerIds
<1> QED BY <1>1, <1>2

LEMMA CallbackStep ==
  ASSUME LInv, CallbackPointer, [Next]_vars
  PROVE  CallbackPointer'
<1>1. CASE TimeoutCB_Check
  <2>1. pool' = pool /\ dt \in Conns
    BY <1>1 DEF TimeoutCB_Check, LInv, OwnInv, TInv, TypeOK, PointersSet
  <2>2. dpc' = "write" => dptr' = pool[tid[dt]] /\ dt' = dt
    BY <1>1 DEF TimeoutCB_Check, AfterCallback
  <2> QED BY <2>1, <2>2, SlotOfTimer DEF CallbackPointer, InPool
<1>2. CASE ~TimeoutCB_Check
  <2>1. dpc' = "write" => dpc = "write" /\ dt' = dt /\ dptr' = dptr
    <3>1. CASE ServerStep \/ ClientStep \/ Halted
      BY <3>1, ServerLeavesDaemon DEF daemonVars
    <3>2. CASE UNCHANGED vars
      BY <3>2 DEF vars, daemonVars
    <3>3. CASE DaemonStep
      BY <1>2, <3>3 DEF DaemonStep, DaemonCommand, TimeoutCB_Begin, TimeoutCB_Write, AfterCallback
    <3> QED BY <3>1, <3>2, <3>3 DEF Next
  <2>2. dpc = "write" => dt \in Conns /\ dt # acc
    <3>1. dpc = "write" => dt \in Conns /\ ~Fresh(dt)
      BY DEF LInv, OwnInv, TInv, TypeOK, PointersSet, TimerInv, CallbackTimerMade
    <3> QED BY <3>1 DEF Fresh
  <2>3. dpc' = "write" => (InPool(dt)' => InPool(dt))
    BY <2>1, <2>2, PoolGrows DEF InPool
  <2> QED BY <2>1, <2>3 DEF CallbackPointer, InPool
<1> QED BY <1>1, <1>2

-----------------------------------------------------------------------------
(* The steps keep the timers of silent clients armed.                      *)

\* A connection in the pool, and one of the server's steps at C.
LEMMA AtC ==
  ASSUME WatchInv, pc \in BusyPCs
  PROVE  C \in Conns /\ con \in [Conns -> ConnStruct] /\ cmdq \in Seq(Cmds)
BY OwnFacts, Typing DEF WatchInv, LInv, OwnInv

\* The steps that post nothing and change no session.
LEMMA WatchQuiet ==
  ASSUME WatchInv, UNCHANGED <<fault, dpc, dt, tmr, cmdq, lost>>,
         \A c \in Conns : InPool(c)' => InPool(c),
         \A c \in Conns : Carries(con[c], con'[c]),
         \/ pc \notin BodyPCs \cup {"opts", "wsServe"} /\ pc' \notin BodyPCs
         \/ C' = C /\ pc' = pc
         \/ C' = C /\ pc \in BodyPCs /\ pc' \in BodyPCs
  PROVE  TrustedArmed'
<1>1. NULL \notin Conns /\ PostsFor(NULL)
  BY DEF PostsFor
<1>2. \A c \in Conns : c # NULL /\ (Silent(c) \/ Upgrading(c))' => Silent(c) \/ Upgrading(c)
  BY OthersCarried
<1> QED BY <1>1, <1>2, WatchKept

LEMMA WatchQuietSteps ==
  ASSUME WatchInv,
         \/ [ClientStep \/ Halted]_vars
         \/ ServerStart \/ AcceptNone \/ (\E c \in Conns : AcceptOne(c)) \/ AddWait \/ MainLoopWakes
         \/ VisitEmpty \/ VisitHttp \/ VisitWebSocket \/ HdrTooLong \/ HdrBytes \/ HdrClientClose
         \/ HdrWait \/ HdrWakes \/ BodyData \/ BodyWait \/ BodyWakes
         \/ WsNoFrame \/ WsFrame \/ WsWakes \/ WsNoMemory \/ WsPayloadMissing \/ WsPayloadEnd
  PROVE  TrustedArmed'
<1> USE DEF At, timerVars, daemonVars, BodyPCs
<1>1. CASE [ClientStep \/ Halted]_vars
  <2>1. UNCHANGED <<fault, dpc, dt, tmr, cmdq, lost, pool, con, cur, pc>>
    BY <1>1 DEF ClientStep, Connect, Send, Halted, vars, serverVars
  <2> QED BY <2>1, WatchQuiet DEF Carries, C, InPool
<1>2. CASE ServerStart \/ AcceptNone \/ (\E c \in Conns : AcceptOne(c)) \/ AddWait \/ MainLoopWakes
  <2>1. /\ UNCHANGED <<fault, dpc, dt, tmr, cmdq, lost, pool, con>>
        /\ pc \notin BodyPCs \cup {"opts", "wsServe"} /\ pc' \notin BodyPCs
    BY <1>2 DEF ServerStart, AcceptNone, AcceptOne, AddWait, MainLoopWakes, BeginSweep
  <2> QED BY <2>1, WatchQuiet DEF Carries, InPool
<1>3. CASE \/ VisitEmpty \/ VisitHttp \/ VisitWebSocket \/ HdrTooLong \/ HdrBytes \/ HdrWait
           \/ HdrWakes
  <2>1. /\ UNCHANGED <<fault, dpc, dt, tmr, cmdq, lost, pool, con>>
        /\ pc \notin BodyPCs \cup {"opts", "wsServe"} /\ pc' \notin BodyPCs
    BY <1>3 DEF VisitEmpty, VisitHttp, VisitWebSocket, HdrTooLong, HdrBytes, HdrWait, HdrWakes,
       NextSlot, serverVars
  <2> QED BY <2>1, WatchQuiet DEF Carries, InPool
<1>4. CASE BodyData \/ BodyWait \/ BodyWakes
  <2>1. /\ UNCHANGED <<fault, dpc, dt, tmr, cmdq, lost, pool, con, cur>>
        /\ pc \in BodyPCs /\ pc' \in BodyPCs
    BY <1>4 DEF BodyData, BodyWait, BodyWakes
  <2> QED BY <2>1, WatchQuiet DEF Carries, C, InPool
<1>5. CASE WsNoFrame \/ WsFrame \/ WsWakes \/ WsNoMemory \/ WsPayloadMissing
  <2>1. /\ UNCHANGED <<fault, dpc, dt, tmr, cmdq, lost, pool, con>>
        /\ pc \notin BodyPCs \cup {"opts", "wsServe"} /\ pc' \notin BodyPCs
    BY <1>5 DEF WsNoFrame, WsFrame, WsWakes, WsNoMemory, WsPayloadMissing, NextSlot
  <2> QED BY <2>1, WatchQuiet DEF Carries, InPool
<1>6. CASE HdrClientClose \/ WsPayloadEnd
  <2>1. /\ UNCHANGED <<fault, dpc, dt, tmr, cmdq, lost, pool>> /\ pc \in BusyPCs
        /\ con' = [con EXCEPT ![C].flag = TRUE]
        /\ pc \notin BodyPCs \cup {"opts", "wsServe"} /\ pc' \notin BodyPCs
    BY <1>6 DEF HdrClientClose, WsPayloadEnd, NextSlot, BusyPCs
  <2>2. \A c \in Conns : Carries(con[c], con'[c])
    BY <2>1, AtC, KeepsSession
  <2> QED BY <2>1, <2>2, WatchQuiet DEF InPool
<1> QED BY <1>1, <1>2, <1>3, <1>4, <1>5, <1>6

\* Filling a slot: the new connection is not yet silent, its options are set first.
LEMMA WatchAddClient ==
  ASSUME WatchInv, NEW j \in Slots, AddClient(j)
  PROVE  TrustedArmed'
<1>1. /\ acc \in Conns /\ pc = "add" /\ pc' = "opts" /\ cur' = j
      /\ UNCHANGED <<fault, dpc, dt>> /\ Post(Stop(acc))
      /\ con' = [con EXCEPT ![acc] = FreshConn] /\ pool' = [pool EXCEPT ![j] = acc]
      /\ tmr' = [tmr EXCEPT ![acc] = "dormant"]
  BY AccIsNull DEF AddClient, At, daemonVars, WatchInv, LInv, OwnInv, TimerCreate
<1>2. /\ con \in [Conns -> ConnStruct] /\ pool \in [Slots -> Conns \cup {NULL}]
      /\ tmr \in [Conns -> TmrStates]
  BY Typing, OwnFacts DEF WatchInv, LInv, OwnInv
<1>3. C' = acc
  BY <1>1, <1>2 DEF C
<1>4. \A c \in Conns : c # acc /\ InPool(c)' => InPool(c) /\ Carries(con[c], con'[c])
  BY <1>1, <1>2 DEF InPool, Carries
<1>5. \A c \in Conns : c # acc /\ (Silent(c) \/ Upgrading(c))' => Silent(c) \/ Upgrading(c)
  BY <1>1, <1>4, OthersCarried DEF BodyPCs
<1>6. PostsFor(acc)
  BY <1>1, StopTypes DEF PostsFor
<1>z. PICK z \in Conns : z = acc
  BY <1>1
<1>7. ~Silent(z)' /\ ~Upgrading(z)'
  BY <1>1, <1>3, <1>z DEF Silent, Upgrading, BodyPCs
<1>8. \A c \in Conns : c # z => tmr'[c] = tmr[c]
  BY <1>1, <1>2, <1>z
<1> QED BY <1>1, <1>5, <1>6, <1>7, <1>8, <1>z, WatchKept

\* The options are set: the timer starts, or the connection is flagged.
LEMMA WatchSetOptions ==
  ASSUME WatchInv, SetOptions
  PROVE  TrustedArmed'
<1>1. /\ pc = "opts" /\ pc' \in {"accept", "visit", "idle"} /\ C \in Conns
      /\ UNCHANGED <<fault, dpc, dt, tmr, pool>>
      /\ con \in [Conns -> ConnStruct] /\ cmdq \in Seq(Cmds)
      /\ \/ con' = [con EXCEPT ![C].flag = TRUE] /\ UNCHANGED <<cmdq, lost>>
         \/ con' = con /\ Post(Start(C))
  BY AtC DEF SetOptions, At, StartTimeout, BeginSweep, BusyPCs, daemonVars
<1>z. PICK z \in Conns : z = C
  BY <1>1
<1>2. \A c \in Conns : Carries(con[c], con'[c])
  BY <1>1, KeepsSession
<1>3. \A c \in Conns : InPool(c)' => InPool(c)
  BY <1>1 DEF InPool
<1>4. \A c \in Conns : c # z /\ (Silent(c) \/ Upgrading(c))' => Silent(c) \/ Upgrading(c)
  BY <1>1, <1>2, <1>3, <1>z, OthersCarried DEF BodyPCs
<1>5. PostsFor(z)
  BY <1>1, <1>z, StopTypes DEF PostsFor
<1>6. CASE con' = [con EXCEPT ![C].flag = TRUE]
  <2>1. con'[z].flag
    BY <1>1, <1>6, <1>z, SetsFlag
  <2>2. ~Silent(z)' /\ ~Upgrading(z)'
    BY <2>1 DEF Silent, Upgrading
  <2> QED BY <1>1, <1>4, <1>5, <2>2, WatchKept
<1>7. CASE Post(Start(C))
  <2>1. Certain(z)'
    BY <1>1, <1>7, <1>z, StopTypes, CertainStarts DEF Starts
  <2> QED BY <1>1, <1>4, <1>5, <2>1, WatchKept
<1> QED BY <1>1, <1>6, <1>7

\* A flagged connection leaves the pool.
LEMMA WatchVisitFlagged ==
  ASSUME WatchInv, VisitFlagged
  PROVE  TrustedArmed'
<1>1. /\ pc = "visit" /\ pc' \in {"visit", "accept"} /\ C \in Conns
      /\ UNCHANGED <<fault, dpc, dt, tmr>> /\ con \in [Conns -> ConnStruct]
      /\ Post2(Stop(C), Delete(C)) /\ con' = [con EXCEPT ![C] = FreshConn]
      /\ pool' = [pool EXCEPT ![cur] = NULL] /\ pool \in [Slots -> Conns \cup {NULL}]
  BY OwnFacts, Typing
     DEF VisitFlagged, At, ReleaseTimer, NextSlot, daemonVars, WatchInv, LInv, OwnInv
<1>z. PICK z \in Conns : z = C
  BY <1>1
<1>2. pool[cur] = z /\ cur \in Slots
  BY <1>z, Typing DEF C, WatchInv, LInv, OwnInv
<1>3. \A i \in Slots : pool[i] = z => i = cur
  BY <1>2 DEF WatchInv, LInv, OwnInv, SocketOwnership
<1>4. /\ \A c \in Conns : InPool(c)' => InPool(c) /\ c # z
      /\ \A c \in Conns : c # z => Carries(con[c], con'[c])
  BY <1>1, <1>2, <1>3, <1>z DEF InPool, Carries
<1>5. \A c \in Conns : c # z /\ (Silent(c) \/ Upgrading(c))' => Silent(c) \/ Upgrading(c)
  BY <1>1, <1>4, OthersCarried DEF BodyPCs
<1>6. PostsFor(z)
  BY <1>1, <1>z, StopTypes DEF PostsFor
<1>7. ~Silent(z)' /\ ~Upgrading(z)'
  BY <1>4 DEF Silent, Upgrading
<1> QED BY <1>1, <1>5, <1>6, <1>7, WatchKept

\* A header is read: if it makes the connection a WebSocket, its timer was started
\* with the new period; one dropped for lack of memory has a length.
LEMMA WatchHdrRequest ==
  ASSUME WatchInv, HdrRequest
  PROVE  TrustedArmed'
<1> DEFINE q == Head(rx[C])
           s == ParseHeaders(con[C], q)
<1>1. /\ pc = "hdr" /\ C \in Conns /\ UNCHANGED <<fault, dpc, dt, tmr, pool>>
      /\ con \in [Conns -> ConnStruct] /\ con[C] \in ConnStruct /\ cmdq \in Seq(Cmds)
      /\ ~con[C].ws /\ HeaderCommands(C, q)
  BY AtC DEF HdrRequest, At, BusyPCs, daemonVars, WatchInv, HandshakeOrder
<1>2. q \in Requests
  <2>1. rx \in [Conns -> Seq(Tokens)] /\ rx[C] # << >> /\ Consume(C) /\ q.kind = "req"
    BY Typing DEF HdrRequest, Reads, WatchInv, LInv, OwnInv
  <2> QED BY <1>1, <2>1, ConsumeFacts, ReqToken
<1>3. /\ s \in ConnStruct /\ s.auth = con[C].auth
      /\ s.ws => q.method # "UNKNOWN" /\ q.connection = "upgrade"
  <2>1. s \in ConnStruct
    BY <1>1, <1>2, ParseType
  <2>2. s.auth = con[C].auth
    BY <1>1 DEF ParseHeaders, ConnStruct
  <2>3. s.ws => q.method # "UNKNOWN" /\ q.connection = "upgrade"
    BY <1>1 DEF ParseHeaders, ConnStruct
  <2> QED BY <2>1, <2>2, <2>3
<1>4. ~s.auth
  BY <1>1, <1>3 DEF WatchInv, HandshakeOrder
<1>5. \/ con' = [con EXCEPT ![C] = s] /\ pc' = "dispatch" /\ cur' = cur
      \/ con' = [con EXCEPT ![C] = [s EXCEPT !.buf = TRUE]] /\ pc' = "body" /\ cur' = cur
      \/ con' = [con EXCEPT ![C] = s] /\ pc' \in {"visit", "accept"} /\ s.len \in 1..MaxBody
  BY DEF HdrRequest, NextSlot
<1>z. PICK z \in Conns : z = C
  BY <1>1
<1>6. /\ PostsFor(z)
      /\ q.method # "UNKNOWN" /\ q.connection = "upgrade" => Certain(z)'
  <2>1. /\ WEBSOCKET_TIMEOUT_TIMER_MS \in Nat /\ q.keepalive * 1000 \in Nat
    BY <1>2 DEF Requests, WEBSOCKET_TIMEOUT_TIMER_MS
  <2> DEFINE w == ChangePeriod(z, WEBSOCKET_TIMEOUT_TIMER_MS)
             k == ChangePeriod(z, q.keepalive * 1000)
  <2>2. /\ Post(Stop(z)) \/ Post2(Stop(z), w) \/ Post2(Stop(z), k)
        /\ q.method # "UNKNOWN" /\ q.connection = "upgrade" => Post2(Stop(z), w)
    BY <1>1, <1>z DEF HeaderCommands
  <2>3. /\ w \in Cmds /\ w.timer = z /\ w.op \in Starts /\ k \in Cmds /\ k.timer = z
        /\ Stop(z) \in Cmds /\ Stop(z).timer = z
    BY <2>1, StopTypes DEF Starts
  <2> HIDE DEF w, k
  <2>4. PostsFor(z)
    BY <2>2, <2>3 DEF PostsFor
  <2>5. Post2(Stop(z), w) => Certain(z)'
    BY <1>1, <2>3, CertainStarts
  <2> QED BY <2>2, <2>4, <2>5
<1> HIDE DEF q, s
<1>7. \A c \in Conns : c # z /\ InPool(c)' => InPool(c) /\ Carries(con[c], con'[c])
  BY <1>1, <1>5, <1>z DEF InPool, Carries
<1>8. \A c \in Conns : c # z /\ (Silent(c) \/ Upgrading(c))' => Silent(c) \/ Upgrading(c)
  <2>1. cur' = cur => C' = C
    BY <1>1 DEF C
  <2>2. CASE C' = C
    BY <1>7, <1>z, <2>2, OthersCarried
  <2>3. CASE pc' \in {"visit", "accept"}
    BY <1>7, <1>z, <2>3, OthersCarried DEF BodyPCs
  <2> QED BY <1>5, <2>1, <2>2, <2>3
<1>9. Silent(z)' \/ Upgrading(z)' => Certain(z)'
  <2>1. CASE con'[z].ws
    <3>1. s.ws
      BY <1>1, <1>3, <1>5, <1>z, <2>1 DEF ConnStruct
    <3> QED BY <1>3, <1>6, <3>1
  <2>2. CASE ~con'[z].ws
    <3>1. ~Upgrading(z)'
      BY <2>2 DEF Upgrading
    <3>2. CASE cur' = cur /\ pc' \in {"dispatch", "body"}
      <4>1. C' = z
        BY <1>1, <1>z, <3>2 DEF C
      <4> QED BY <3>1, <3>2, <4>1 DEF Silent, BodyPCs
    <3>3. CASE con' = [con EXCEPT ![C] = s] /\ s.len \in 1..MaxBody
      <4>1. con'[z] = s /\ s.len # 0
        BY <1>1, <1>z, <3>3, BodyAssumption
      <4>2. ~Silent(z)'
        BY <1>4, <4>1 DEF Silent, NoRequestYet
      <4> QED BY <3>1, <4>2
    <3> QED BY <1>5, <3>2, <3>3
  <2> QED BY <2>1, <2>2
<1> QED BY <1>1, <1>6, <1>8, <1>9, WatchKept

\* The body does not come: the connection is flagged.
LEMMA WatchBodyClientClose ==
  ASSUME WatchInv, BodyClientClose
  PROVE  TrustedArmed'
<1>1. /\ pc = "body" /\ pc' \in {"visit", "accept"} /\ C \in Conns
      /\ UNCHANGED <<fault, dpc, dt, tmr, pool, cmdq, lost>> /\ con \in [Conns -> ConnStruct]
      /\ con' = [con EXCEPT ![C].flag = TRUE, ![C].buf = FALSE]
  BY AtC DEF BodyClientClose, DropBody, At, BusyPCs, NextSlot, daemonVars, timerVars
<1>z. PICK z \in Conns : z = C
  BY <1>1
<1>2. \A c \in Conns : Carries(con[c], con'[c])
  BY <1>1, KeepsSession
<1>3. con'[z].flag
  BY <1>1, <1>z, SetsFlag
<1>4. ~Silent(z)' /\ ~Upgrading(z)'
  BY <1>3 DEF Silent, Upgrading
<1>5. \A c \in Conns : c # z /\ (Silent(c) \/ Upgrading(c))' => Silent(c) \/ Upgrading(c)
  <2>1. \A c \in Conns : c # z /\ InPool(c)' => InPool(c) /\ Carries(con[c], con'[c])
    BY <1>1, <1>2 DEF InPool
  <2> QED BY <1>1, <1>z, <2>1, OthersCarried DEF BodyPCs
<1> QED BY <1>1, <1>4, <1>5, WatchKept DEF PostsFor

\* The handlers: the connection that becomes a WebSocket was upgrading before.
LEMMA WatchDispatch ==
  ASSUME WatchInv, Dispatch
  PROVE  TrustedArmed'
<1>1. /\ pc = "dispatch" /\ pc' = "fallback" /\ C \in Conns
      /\ UNCHANGED <<fault, dpc, dt, tmr, pool, cmdq, lost, cur>> /\ con \in [Conns -> ConnStruct]
      /\ \/ con' = con \/ con' = [con EXCEPT ![C].cgi = TRUE]
         \/ con' = [con EXCEPT ![C].cgi = FALSE] \/ con' = [con EXCEPT ![C].auth = TRUE]
  BY AtC DEF Dispatch, At, BusyPCs, daemonVars, timerVars, DispatchPost, DispatchCgi, RunCgi,
             DispatchHandshake, DispatchOther
<1>2. C' = C
  BY <1>1 DEF C
<1>z. PICK z \in Conns : z = C
  BY <1>1
<1>3. \A c \in Conns : /\ c # z => Carries(con[c], con'[c])
                       /\ con'[c].ws = con[c].ws /\ con'[c].flag = con[c].flag
  <2>1. CASE con' = [con EXCEPT ![C].auth = TRUE]
    <3>1. \A c \in Conns :
            Becomes(con[c], con'[c], con[c].flag, con[c].buf, con[c].cgi, con[c].auth \/ c = C)
      BY <1>1, <2>1, Writes
    <3>2. \A c \in Conns : c # z => con'[c] = con[c]
      BY <1>1, <1>z, <2>1
    <3> QED BY <3>1, <3>2 DEF Becomes, Carries
  <2>2. CASE \/ con' = [con EXCEPT ![C].cgi = TRUE] \/ con' = [con EXCEPT ![C].cgi = FALSE]
             \/ con' = con
    <3>1. \A c \in Conns : Carries(con[c], con'[c])
      BY <1>1, <2>2, KeepsSession
    <3>2. \A c \in Conns : con'[c].flag = con[c].flag
      BY <1>1, <2>2, Writes DEF Becomes
    <3> QED BY <3>1, <3>2 DEF Carries
  <2> QED BY <1>1, <2>1, <2>2
<1>4. \A c \in Conns : c # z /\ (Silent(c) \/ Upgrading(c))' => Silent(c) \/ Upgrading(c)
  <2>1. \A c \in Conns : c # z /\ InPool(c)' => InPool(c) /\ Carries(con[c], con'[c])
    BY <1>1, <1>3 DEF InPool
  <2> QED BY <1>2, <1>z, <2>1, OthersCarried
<1>5. Upgrading(z)' => Upgrading(z)
  BY <1>1, <1>2, <1>3, <1>z DEF Upgrading, InPool, BodyPCs
<1>6. ~Silent(z)'
  BY <1>1, <1>2, <1>z DEF Silent, BodyPCs
<1>7. \A c \in Conns : (Silent(c) \/ Upgrading(c))' => Silent(c) \/ Upgrading(c)
  BY <1>4, <1>5, <1>6
<1>8. NULL \notin Conns /\ PostsFor(NULL)
  BY <1>1 DEF PostsFor
<1> QED BY <1>1, <1>7, <1>8, WatchKept

\* The end of a request: a connection is flagged unless its handshake was answered.
LEMMA WatchFallback ==
  ASSUME WatchInv, Fallback
  PROVE  TrustedArmed'
<1>1. /\ pc = "fallback" /\ pc' \in {"visit", "accept"} /\ C \in Conns
      /\ UNCHANGED <<fault, dpc, dt, tmr, pool>> /\ con \in [Conns -> ConnStruct]
      /\ \/ con' = [con EXCEPT ![C].buf = FALSE, ![C].flag = TRUE] /\ Post(Stop(C))
         \/ /\ con' = [con EXCEPT ![C].buf = FALSE] /\ UNCHANGED <<cmdq, lost>>
            /\ r = "MORE"
  BY AtC, Typing
     DEF Fallback, At, BusyPCs, NextSlot, daemonVars, WatchInv, LInv, OwnInv, TInv, TypeOK
<1>z. PICK z \in Conns : z = C
  BY <1>1
<1>2. \A c \in Conns : Carries(con[c], con'[c])
  BY <1>1, KeepsSession
<1>3. \A c \in Conns : InPool(c)' => InPool(c)
  BY <1>1 DEF InPool
<1>4. \A c \in Conns : c # z /\ (Silent(c) \/ Upgrading(c))' => Silent(c) \/ Upgrading(c)
  BY <1>1, <1>2, <1>3, <1>z, OthersCarried DEF BodyPCs
<1>5. CASE con' = [con EXCEPT ![C].buf = FALSE, ![C].flag = TRUE] /\ Post(Stop(C))
  <2>1. con'[z].flag
    BY <1>1, <1>5, <1>z, SetsFlag
  <2>2. ~Silent(z)' /\ ~Upgrading(z)'
    BY <2>1 DEF Silent, Upgrading
  <2>3. PostsFor(z)
    BY <1>5, <1>z, StopTypes DEF PostsFor
  <2> QED BY <1>1, <1>4, <2>2, <2>3, WatchKept
<1>6. CASE UNCHANGED <<cmdq, lost>> /\ r = "MORE"
  <2>1. con[z].ws
    BY <1>1, <1>6, <1>z DEF WatchInv, HandshakeOrder
  <2>2. Silent(z)' \/ Upgrading(z)' => Upgrading(z)
    BY <1>1, <1>2, <1>3, <1>z, <2>1 DEF Silent, Upgrading, Carries, BodyPCs
  <2>3. \A c \in Conns : (Silent(c) \/ Upgrading(c))' => Silent(c) \/ Upgrading(c)
    BY <1>4, <2>2
  <2>4. NULL \notin Conns /\ PostsFor(NULL)
    BY <1>6 DEF PostsFor
  <2> QED BY <1>1, <2>3, <2>4, WatchKept
<1> QED BY <1>1, <1>5, <1>6

\* A frame came: the connection is flagged, or it is served.
LEMMA WatchWsMessage ==
  ASSUME WatchInv, WsMessage
  PROVE  TrustedArmed'
<1>1. /\ pc = "wsPayload" /\ C \in Conns /\ Post(Stop(C))
      /\ UNCHANGED <<fault, dpc, dt, tmr, pool>> /\ con \in [Conns -> ConnStruct]
      /\ cmdq \in Seq(Cmds)
      /\ \/ pc' \in {"visit", "accept"} /\ con' = [con EXCEPT ![C].flag = TRUE]
         \/ pc' = "wsServe" /\ cur' = cur /\ con' = con
  BY AtC DEF WsMessage, At, BusyPCs, NextSlot, daemonVars
<1>z. PICK z \in Conns : z = C
  BY <1>1
<1>2. \A c \in Conns : Carries(con[c], con'[c])
  BY <1>1, KeepsSession
<1>3. \A c \in Conns : InPool(c)' => InPool(c)
  BY <1>1 DEF InPool
<1>4. \A c \in Conns : c # z /\ (Silent(c) \/ Upgrading(c))' => Silent(c) \/ Upgrading(c)
  <2>1. pc' = "wsServe" => C' = C
    BY <1>1 DEF C
  <2> QED BY <1>1, <1>2, <1>3, <1>z, <2>1, OthersCarried DEF BodyPCs
<1>5. PostsFor(z)
  BY <1>1, <1>z, StopTypes DEF PostsFor
<1>6. CASE con' = [con EXCEPT ![C].flag = TRUE]
  <2>1. con'[z].flag
    BY <1>1, <1>6, <1>z, SetsFlag
  <2>2. ~Silent(z)' /\ ~Upgrading(z)'
    BY <2>1 DEF Silent, Upgrading
  <2> QED BY <1>1, <1>4, <1>5, <2>2, WatchKept
<1>7. CASE pc' = "wsServe" /\ cur' = cur
  <2>1. C' = C
    BY <1>1, <1>7 DEF C
  <2>2. ~Silent(z)' /\ ~Upgrading(z)'
    BY <1>7, <1>z, <2>1 DEF Silent, Upgrading, BodyPCs
  <2> QED BY <1>1, <1>4, <1>5, <2>2, WatchKept
<1> QED BY <1>1, <1>6, <1>7

\* A frame was served: the timer is started again.
LEMMA WatchWsServe ==
  ASSUME WatchInv, WsServe
  PROVE  TrustedArmed'
<1>1. /\ pc' \in {"visit", "accept"} /\ C \in Conns /\ Post(ReStart(C))
      /\ UNCHANGED <<fault, dpc, dt, tmr, pool, con>>
      /\ cmdq \in Seq(Cmds)
  BY AtC DEF WsServe, At, BusyPCs, NextSlot, daemonVars
<1>z. PICK z \in Conns : z = C
  BY <1>1
<1>2. \A c \in Conns : Carries(con[c], con'[c])
  BY <1>1 DEF Carries
<1>3. \A c \in Conns : InPool(c)' => InPool(c)
  BY <1>1 DEF InPool
<1>4. \A c \in Conns : c # z /\ (Silent(c) \/ Upgrading(c))' => Silent(c) \/ Upgrading(c)
  BY <1>1, <1>2, <1>3, <1>z, OthersCarried DEF BodyPCs
<1>5. PostsFor(z)
  BY <1>1, <1>z, StopTypes DEF PostsFor
<1>6. Certain(z)'
  BY <1>1, <1>z, StopTypes, CertainStarts DEF Starts
<1> QED BY <1>1, <1>4, <1>5, <1>6, WatchKept

-----------------------------------------------------------------------------
(* The daemon's steps.                                                     *)

\* None of them makes a connection silent.
LEMMA DaemonCarries ==
  ASSUME WatchInv, DaemonStep
  PROVE  /\ \A c \in Conns : (Silent(c) \/ Upgrading(c))' => Silent(c) \/ Upgrading(c)
         /\ Running /\ pool' = pool
<1>1. /\ UNCHANGED <<pool, serverVars>> /\ Running
      /\ \A c \in Conns : Carries(con[c], con'[c])
  BY OthersFlag DEF Carries, WatchInv, LInv, OwnInv, DaemonStep, DaemonCommand,
                    TimeoutCB_Begin, TimeoutCB_Check, TimeoutCB_Write
<1>2. C' = C /\ pc' = pc /\ \A c \in Conns : InPool(c)' => InPool(c)
  BY <1>1 DEF C, InPool, serverVars
<1>3. NULL \notin Conns
  OBVIOUS
<1>4. \A c \in Conns : c # NULL /\ (Silent(c) \/ Upgrading(c))' => Silent(c) \/ Upgrading(c)
  BY <1>1, <1>2, OthersCarried
<1> QED BY <1>1, <1>3, <1>4

\* A timer expires and reloads itself: its command is to stop it, but its timeout
\* is being served.
LEMMA WatchBegin ==
  ASSUME WatchInv, NEW t \in Conns, TimeoutCB_Begin(t)
  PROVE  TrustedArmed'
<1>1. /\ dpc = "timer" /\ dpc' = "check" /\ dt' = t /\ tmr' = tmr /\ Post(Stop(t))
      /\ cmdq \in Seq(Cmds) /\ fault = "none"
  BY OwnFacts DEF TimeoutCB_Begin, Running, WatchInv, LInv
<1>2. PostsFor(t) /\ cmdq' \in Seq(Cmds)
  <2>1. PostsFor(t)
    BY <1>1, StopTypes DEF PostsFor
  <2>2. cmdq' = Enqueue(cmdq, Stop(t))
    BY <1>1 DEF Post
  <2> QED BY <1>1, <2>1, <2>2, StopTypes, EnqueueFacts
<1>3. ASSUME NEW c \in Conns, Silent(c)' \/ Upgrading(c)'
      PROVE  Certain(c)'
  <2>1. Certain(c)
    BY <1>1, <1>3, DaemonCarries DEF DaemonStep, WatchInv, TrustedArmed
  <2>2. CASE c = t
    BY <1>1, <1>2, <2>2, CertainMeansNext
  <2>3. CASE c # t
    BY <1>1, <1>2, <2>1, <2>3, CertainKept
  <2> QED BY <2>2, <2>3
<1> QED BY <1>3 DEF TrustedArmed

\* The callback finds the slot of its timer taken, or its connection is gone.
LEMMA WatchCheck ==
  ASSUME WatchInv, TimeoutCB_Check
  PROVE  TrustedArmed'
<1>1. /\ dpc = "check" /\ tmr' = tmr /\ dt \in Conns /\ cmdq \in Seq(Cmds) /\ fault = "none"
      /\ \/ pool[tid[dt]] # NULL /\ dpc' = "write" /\ dt' = dt /\ UNCHANGED <<cmdq, lost>>
         \/ pool[tid[dt]] = NULL /\ Post(Delete(dt))
  BY OwnFacts
     DEF TimeoutCB_Check, SlotTaken, Running, WatchInv, LInv, OwnInv, TInv, TypeOK, PointersSet
<1>2. PostsFor(dt)
  BY <1>1, StopTypes DEF PostsFor
<1>3. ASSUME NEW c \in Conns, Silent(c)' \/ Upgrading(c)'
      PROVE  Certain(c)'
  <2>1. Certain(c) /\ InPool(c)
    BY <1>1, <1>3, DaemonCarries DEF DaemonStep, WatchInv, TrustedArmed, Silent, Upgrading
  <2>2. CASE c = dt
    <3>1. pool[tid[dt]] # NULL
      BY <1>1, <2>1, <2>2, SlotOfTimer DEF WatchInv
    <3>2. cmdq' \in Seq(Cmds) /\ dpc' = "write" /\ dt' = c
      BY <1>1, <2>2, <3>1
    <3> QED BY <3>2, CertainMeansNext
  <2>3. CASE c # dt
    BY <1>1, <1>2, <2>1, <2>3, CertainKept
  <2> QED BY <2>2, <2>3
<1> QED BY <1>3 DEF TrustedArmed

\* The callback flags the connection of its timer.
LEMMA WatchWrite ==
  ASSUME WatchInv, TimeoutCB_Write
  PROVE  TrustedArmed'
<1>1. /\ dpc = "write" /\ tmr' = tmr /\ dt \in Conns /\ cmdq \in Seq(Cmds) /\ fault = "none"
      /\ UNCHANGED <<cmdq, lost>> /\ con \in [Conns -> ConnStruct]
  BY OwnFacts
     DEF TimeoutCB_Write, Running, timerVars, WatchInv, LInv, OwnInv, TInv, TypeOK, PointersSet
<1>2. PostsFor(dt)
  BY <1>1 DEF PostsFor
<1>3. ASSUME fault' = "none", NEW c \in Conns, Silent(c)' \/ Upgrading(c)'
      PROVE  Certain(c)'
  <2>1. Certain(c) /\ InPool(c)
    BY <1>1, <1>3, DaemonCarries DEF DaemonStep, WatchInv, TrustedArmed, Silent, Upgrading
  <2>2. CASE c = dt
    <3>1. dptr = dt /\ pool[tid[dt]] = dt
      BY <1>1, <2>1, <2>2, SlotOfTimer DEF WatchInv, CallbackPointer
    <3>2. con' = [con EXCEPT ![dt].flag = TRUE]
      BY <1>3, <3>1 DEF TimeoutCB_Write
    <3>3. con'[c].flag
      BY <1>1, <2>2, <3>2, SetsFlag
    <3> QED BY <1>3, <3>3 DEF Silent, Upgrading
  <2>3. CASE c # dt
    BY <1>1, <1>2, <2>1, <2>3, CertainKept
  <2> QED BY <2>2, <2>3
<1> QED BY <1>3 DEF TrustedArmed

\* The daemon executes the oldest command: a start, if it was the last for its timer.
LEMMA WatchCommand ==
  ASSUME WatchInv, DaemonCommand
  PROVE  TrustedArmed'
<1> DEFINE m == Head(cmdq)
<1>1. /\ dpc \in {"timer", "drain"} /\ cmdq # << >> /\ cmdq' = Tail(cmdq) /\ lost' = lost
      /\ fault = "none" /\ fault' = FaultOf(m)
      /\ fault' = "none" => tmr' = [tmr EXCEPT ![m.timer] = StateAfter(m.op)]
      /\ cmdq \in Seq(Cmds) /\ tmr \in [Conns -> TmrStates]
  BY OwnFacts DEF DaemonCommand, ProcessCommand, Running, WatchInv, LInv
<1>2. m \in Cmds /\ 1 \in DOMAIN cmdq /\ cmdq[1] = m /\ cmdq' \in Seq(Cmds)
  BY <1>1, TailFacts
<1>3. m.timer \in Conns
  BY <1>2 DEF Cmds
<1>4. \A c : StartRefused(c) => StartRefused(c)'
  BY <1>1 DEF StartRefused
<1>5. ASSUME fault' = "none", NEW c \in Conns, Silent(c)' \/ Upgrading(c)'
      PROVE  Certain(c)'
  <2>1. Certain(c)
    BY <1>1, <1>5, DaemonCarries DEF DaemonStep, WatchInv, TrustedArmed
  <2>2. \/ tmr[c] = "active" /\ ~Mentions(cmdq, c)
        \/ EndsStarting(cmdq, c)
        \/ StartRefused(c)
    BY <1>1, <2>1, CertainMeans
  <2>3. CASE tmr[c] = "active" /\ ~Mentions(cmdq, c)
    <3>1. m.timer # c
      BY <1>2, <2>3 DEF Mentions
    <3>2. tmr'[c] = "active"
      BY <1>1, <1>5, <2>3, <3>1
    <3>3. ~Mentions(cmdq', c)
      BY <1>1, <2>3, TailStart
    <3> QED BY <1>2, <3>2, <3>3, CertainMeansNext
  <2>4. CASE EndsStarting(cmdq, c)
    <3>1. \/ EndsStarting(cmdq', c)
          \/ m.timer = c /\ m.op \in Starts /\ ~Mentions(cmdq', c)
      BY <1>1, <2>4, TailStart
    <3>2. m.timer = c /\ m.op \in Starts => tmr'[c] = "active"
      BY <1>1, <1>3, <1>5 DEF Starts, StateAfter
    <3> QED BY <1>2, <3>1, <3>2, CertainMeansNext
  <2>5. CASE StartRefused(c)
    BY <1>2, <1>4, <2>5, CertainMeansNext
  <2> QED BY <2>2, <2>3, <2>4, <2>5
<1> QED BY <1>5 DEF TrustedArmed

-----------------------------------------------------------------------------
LEMMA WatchStep ==
  ASSUME WatchInv, [Next]_vars
  PROVE  WatchInv'
<1>1. LInv' /\ HandshakeOrder' /\ CallbackPointer'
  BY TimerSafetyStep, HandshakeStep, CallbackStep DEF WatchInv, LInv, OwnInv
<1>2. TrustedArmed'
  <2>1. CASE DaemonStep
    BY <2>1, WatchBegin, WatchCheck, WatchWrite, WatchCommand DEF DaemonStep
  <2>2. CASE ServerStep
    BY <2>2, WatchQuietSteps, WatchAddClient, WatchSetOptions, WatchVisitFlagged, WatchHdrRequest,
       WatchBodyClientClose, WatchDispatch, WatchFallback, WatchWsMessage, WatchWsServe DEF ServerStep
  <2>3. CASE [ClientStep \/ Halted]_vars
    BY <2>3, WatchQuietSteps
  <2> QED BY <2>1, <2>2, <2>3 DEF Next
<1> QED BY <1>1, <1>2 DEF WatchInv

\* A client the server waits for without limit has its watch-out timer armed, or the
\* start of it was refused by the full queue: for every pool and queue length, and
\* however commands, expiries and the server's steps interleave.
THEOREM WatchoutAlwaysArmed == Spec => []WatchoutArmed
<1>1. Init => WatchInv
  <2> SUFFICES ASSUME Init PROVE WatchInv
    OBVIOUS
  <2>1. LInv
    BY TimerSafetyInit
  <2>2. /\ \A c \in Conns : ~con[c].auth
        /\ \A i \in Slots : pool[i] = NULL
        /\ pc = "start" /\ dpc = "timer"
    BY DEF Init, FreshConn
  <2>3. \A c \in Conns : ~InPool(c)
    BY <2>2 DEF InPool
  <2> QED BY <2>1, <2>2, <2>3
          DEF WatchInv, HandshakeOrder, CallbackPointer, TrustedArmed, Silent, Upgrading
<1>2. WatchInv /\ [Next]_vars => WatchInv'
  BY WatchStep
<1>3. WatchInv => WatchoutArmed
  BY WatchImplies
<1> QED BY <1>1, <1>2, <1>3, PTL DEF Spec
\* A timeout that finds its connection alive flags this connection and nothing else:
\* both pointers the compiled callback may use, the one it tested and a new load of the
\* slot, are then the connection's own (CallbackPointer, SlotOfTimer).
THEOREM TimeoutsFlagTheirOwn == Spec => TimeoutFlagsLiveConnection
<1> DEFINE Flags == dpc = "write" /\ dpc' # "write" /\ InPool(dt) =>
                      con' = [con EXCEPT ![dt].flag = TRUE] /\ fault' = fault
<1>1. Init => LInv /\ CallbackPointer
  <2> SUFFICES ASSUME Init PROVE LInv /\ CallbackPointer
    OBVIOUS
  <2>1. dpc = "timer"
    BY DEF Init
  <2> QED BY <2>1, TimerSafetyInit DEF CallbackPointer
<1>2. LInv /\ CallbackPointer /\ [Next]_vars => (LInv /\ CallbackPointer)'
  BY TimerSafetyStep, CallbackStep
<1>3. LInv /\ CallbackPointer /\ [Next]_vars => [Flags]_vars
  <2> SUFFICES ASSUME LInv, CallbackPointer, [Next]_vars,
                      dpc = "write", dpc' # "write", InPool(dt)
               PROVE  con' = [con EXCEPT ![dt].flag = TRUE] /\ fault' = fault
    OBVIOUS
  <2>1. TimeoutCB_Write
    <3>1. ServerStep \/ ClientStep \/ Halted => dpc' = dpc
      BY ServerLeavesDaemon DEF daemonVars
    <3>2. UNCHANGED vars => dpc' = dpc
      BY DEF vars, daemonVars
    <3>3. dpc \notin {"timer", "drain", "check"}
      OBVIOUS
    <3> QED BY <3>1, <3>2, <3>3
            DEF Next, DaemonStep, DaemonCommand, TimeoutCB_Begin, TimeoutCB_Check
  <2>2. dt \in Conns /\ dt # NULL
    BY DEF LInv, OwnInv, TInv, TypeOK, PointersSet
  <2>3. dptr = dt /\ pool[tid[dt]] = dt
    BY <2>2, SlotOfTimer DEF CallbackPointer
  <2> QED BY <2>1, <2>2, <2>3 DEF TimeoutCB_Write
<1> QED BY <1>1, <1>2, <1>3, PTL DEF Spec, TimeoutFlagsLiveConnection
=============================================================================
