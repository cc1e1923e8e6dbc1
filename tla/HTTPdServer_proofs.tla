-------------------------- MODULE HTTPdServer_proofs --------------------------
(***************************************************************************)
(* Theorems about HTTPdServer for every number of clients, slots and       *)
(* scripts and every length of the timer command queue.                    *)
(***************************************************************************)
EXTENDS HTTPdServer, NeonTimer_proofs

\* The server task works on the connection of slot cur at these places.
BusyPCs == {"opts", "hdr", "hdrSleep", "body", "bodySleep", "dispatch",
            "fallback", "ws", "wsPayload", "wsServe", "wsSleep"}

\* The pointers the three actors dereference are not null where they do so.
PointersSet ==
  /\ pc \in {"add", "full"} <=> acc # NULL
  /\ pc \in BusyPCs => pool[cur] # NULL
  /\ dpc \in {"check", "write"} => dt # NULL

TInv == TypeOK /\ PointersSet

USE ConnsAssumption, ClientsAssumption, BodyAssumption, QueueAssumption

\* Every kind of thing a client sends is a record with a kind.
LEMMA SeqFacts ==
  ASSUME NEW S, NEW s \in Seq(S)
  PROVE  /\ s # << >> => Head(s) \in S /\ Tail(s) \in Seq(S)
         /\ \A e \in S : Append(s, e) \in Seq(S)
         /\ << >> \in Seq(S)
OBVIOUS

\* One or two commands posted by any actor keep the timer service well typed.
LEMMA PostType ==
  ASSUME NEW m \in Cmds, NEW n \in Cmds, cmdq \in Seq(Cmds), lost \in SUBSET Cmds
  PROVE  /\ Post(m) => cmdq' \in Seq(Cmds) /\ lost' \in SUBSET Cmds
         /\ Post2(m, n) => cmdq' \in Seq(Cmds) /\ lost' \in SUBSET Cmds
<1>1. Enqueue(cmdq, m) \in Seq(Cmds) /\ Refused(cmdq, m) \subseteq {m}
  BY EnqueueFacts
<1>2. /\ Enqueue(Enqueue(cmdq, m), n) \in Seq(Cmds)
      /\ Refused(Enqueue(cmdq, m), n) \subseteq {n}
  BY EnqueueFacts, <1>1
<1> QED BY <1>1, <1>2 DEF Post, Post2

\* The structure of a connection after the headers were parsed is well typed.
LEMMA ParseType ==
  ASSUME NEW s \in ConnStruct, NEW q \in Requests
  PROVE  ParseHeaders(s, q) \in ConnStruct
BY DEF ParseHeaders, ConnStruct, Requests, NoLength, HasLength

LEMMA FreshType == FreshConn \in ConnStruct /\ NoReq \in Requests
BY DEF FreshConn, NoReq, ConnStruct, Requests, NoLength, Methods, ConnHeaders

\* A token of kind "req" is a request.
LEMMA ReqToken ==
  ASSUME NEW e \in Tokens, e.kind = "req"
  PROVE  e \in Requests
BY DEF Tokens, Plain, Frames, Requests

\* What HdrRequest posts keeps the timer service well typed.
LEMMA HeaderPostType ==
  ASSUME NEW c \in Conns, NEW q \in Requests, cmdq \in Seq(Cmds),
         lost \in SUBSET Cmds, HeaderCommands(c, q)
  PROVE  cmdq' \in Seq(Cmds) /\ lost' \in SUBSET Cmds
<1>1. /\ Stop(c) \in Cmds
      /\ ChangePeriod(c, WEBSOCKET_TIMEOUT_TIMER_MS) \in Cmds
      /\ ChangePeriod(c, q.keepalive * 1000) \in Cmds
  BY CommandTypes DEF Requests, WEBSOCKET_TIMEOUT_TIMER_MS
<1>2. \/ Post(Stop(c))
      \/ Post2(Stop(c), ChangePeriod(c, WEBSOCKET_TIMEOUT_TIMER_MS))
      \/ Post2(Stop(c), ChangePeriod(c, q.keepalive * 1000))
  BY DEF HeaderCommands
<1> QED BY <1>1, <1>2, PostType

\* Init satisfies the type invariant and its strengthening.
LEMMA TypeInit == Init => TInv
<1> SUFFICES ASSUME Init PROVE TInv
  OBVIOUS
<1>1. TimerTypeOK
  BY SeqFacts DEF Init, TimerInit, TimerTypeOK, TmrStates, Faults
<1>2. con \in [Conns -> ConnStruct]
  BY FreshType DEF Init
<1>3. script \in [Conns -> Seq(Tokens)] /\ rx \in [Conns -> Seq(Tokens)]
  BY SeqFacts DEF Init
<1>4. /\ 1 \in Slots
      /\ pool \in [Slots -> Conns \cup {NULL}] /\ tid \in [Conns -> Slots]
      /\ cur \in Slots /\ ran \in [Conns -> Nat]
  BY DEF Init, Slots
<1>5. pend \in [Conns -> BOOLEAN] /\ cmdbuf \in BOOLEAN /\ leaked \in BOOLEAN
  BY DEF Init
<1>6. TypeOK
  BY <1>1, <1>2, <1>3, <1>4, <1>5 DEF Init, TypeOK, PCs, WsOps
<1> QED BY <1>6 DEF Init, TInv, PointersSet, BusyPCs

\* Going to the next slot, or back to accept, stays inside the pool.
LEMMA NextSlotFacts ==
  ASSUME cur \in Slots, NextSlot
  PROVE  cur' \in Slots /\ pc' \in {"visit", "accept"}
BY DEF NextSlot, Slots

LEMMA BeginSweepFacts ==
  ASSUME BeginSweep
  PROVE  cur' \in Slots /\ pc' \in {"visit", "idle"}
BY DEF BeginSweep, Slots

\* Reading takes the first token of a stream.
LEMMA ConsumeFacts ==
  ASSUME NEW c \in Conns, rx \in [Conns -> Seq(Tokens)], rx[c] # << >>, Consume(c)
  PROVE  rx' \in [Conns -> Seq(Tokens)] /\ Head(rx[c]) \in Tokens
<1>1. Head(rx[c]) \in Tokens /\ Tail(rx[c]) \in Seq(Tokens)
  BY SeqFacts
<1> QED BY <1>1 DEF Consume

\* Setting a flag of a connection structure leaves it one.
LEMMA ConFacts ==
  ASSUME NEW c \in Conns, con \in [Conns -> ConnStruct]
  PROVE  /\ [con EXCEPT ![c].flag = TRUE] \in [Conns -> ConnStruct]
         /\ [con EXCEPT ![c].flag = TRUE, ![c].buf = FALSE] \in [Conns -> ConnStruct]
         /\ [con EXCEPT ![c].buf = FALSE, ![c].flag = TRUE] \in [Conns -> ConnStruct]
         /\ [con EXCEPT ![c].buf = FALSE] \in [Conns -> ConnStruct]
         /\ [con EXCEPT ![c].cgi = TRUE] \in [Conns -> ConnStruct]
         /\ [con EXCEPT ![c].cgi = FALSE] \in [Conns -> ConnStruct]
         /\ [con EXCEPT ![c].auth = TRUE] \in [Conns -> ConnStruct]
         /\ \A s \in ConnStruct : [con EXCEPT ![c] = s] \in [Conns -> ConnStruct]
<1> DEFINE d == con[c]
<1>1. /\ [d EXCEPT !.flag = TRUE] \in ConnStruct
      /\ [d EXCEPT !.buf = FALSE] \in ConnStruct
      /\ [d EXCEPT !.cgi = TRUE] \in ConnStruct
      /\ [d EXCEPT !.cgi = FALSE] \in ConnStruct
      /\ [d EXCEPT !.auth = TRUE] \in ConnStruct
  BY DEF ConnStruct
<1>2. /\ [[d EXCEPT !.flag = TRUE] EXCEPT !.buf = FALSE] \in ConnStruct
      /\ [[d EXCEPT !.buf = FALSE] EXCEPT !.flag = TRUE] \in ConnStruct
  BY DEF ConnStruct
<1>3. \A s \in ConnStruct : [con EXCEPT ![c] = s] \in [Conns -> ConnStruct]
  OBVIOUS
<1> QED BY <1>1, <1>2, <1>3

\* The opcode of a frame header.
LEMMA FrameToken ==
  ASSUME NEW e \in Tokens, e.kind = "frame"
  PROVE  e.op \in WsOps
BY DEF Tokens, Plain, Frames, Requests

\* The server's steps preserve the type invariant.
LEMMA ServerTypeStep == TInv /\ ServerStep => TInv'
<1> SUFFICES ASSUME TInv, ServerStep PROVE TInv'
  OBVIOUS
<1> USE DEF TInv
<1>a. pc \in BusyPCs \/ (pc = "visit" /\ C # NULL) => C \in Conns
  BY DEF TypeOK, PointersSet, C
<1>b. \A c \in Conns, ms \in Nat :
        /\ Start(c) \in Cmds /\ ReStart(c) \in Cmds /\ Stop(c) \in Cmds
        /\ Delete(c) \in Cmds /\ ChangePeriod(c, ms) \in Cmds
  BY CommandTypes
<1>1. CASE ServerStart
  BY <1>1 DEF ServerStart, TypeOK, TimerTypeOK, PointersSet, serverVars, timerVars, daemonVars, clientVars, historyVars, At, Running, PCs, BusyPCs, C, Reads, ReadsData, ReadsNothing
<1>2. CASE AcceptNone
  BY <1>2 DEF AcceptNone, TypeOK, TimerTypeOK, PointersSet, serverVars, timerVars, daemonVars, clientVars, historyVars, At, Running, PCs, BusyPCs, C, Reads, ReadsData, ReadsNothing, BeginSweep, Slots
<1>3. CASE AddWait
  BY <1>3 DEF AddWait, TypeOK, TimerTypeOK, PointersSet, serverVars, timerVars, daemonVars, clientVars, historyVars, At, Running, PCs, BusyPCs, C, Reads, ReadsData, ReadsNothing
<1>4. CASE MainLoopWakes
  BY <1>4 DEF MainLoopWakes, TypeOK, TimerTypeOK, PointersSet, serverVars, timerVars, daemonVars, clientVars, historyVars, At, Running, PCs, BusyPCs, C, Reads, ReadsData, ReadsNothing
<1>5. CASE VisitEmpty
  <2>1. cur' \in Slots /\ pc' \in {"accept", "visit"}
    BY <1>5, NextSlotFacts DEF VisitEmpty, TypeOK
  <2> QED BY <1>5, <2>1 DEF VisitEmpty, TypeOK, TimerTypeOK, PointersSet, serverVars, timerVars, daemonVars, clientVars, historyVars, At, Running, PCs, BusyPCs, C
<1>6. CASE VisitWebSocket
  BY <1>6 DEF VisitWebSocket, TypeOK, TimerTypeOK, PointersSet, serverVars, timerVars, daemonVars, clientVars, historyVars, At, Running, PCs, BusyPCs, C, Reads, ReadsData, ReadsNothing
<1>7. CASE HdrBytes
  <2>1. C \in Conns /\ rx[C] # << >> /\ Consume(C)
    BY <1>7, <1>a DEF HdrBytes, At, BusyPCs, ReadsData
  <2>2. rx' \in [Conns -> Seq(Tokens)]
    BY <2>1, ConsumeFacts DEF TypeOK
  <2> QED BY <1>7, <2>2 DEF HdrBytes, TypeOK, TimerTypeOK, PointersSet, serverVars, timerVars, daemonVars, clientVars, historyVars, At, Running, PCs, BusyPCs, C
<1>8. CASE HdrWait
  BY <1>8 DEF HdrWait, TypeOK, TimerTypeOK, PointersSet, serverVars, timerVars, daemonVars, clientVars, historyVars, At, Running, PCs, BusyPCs, C, Reads, ReadsData, ReadsNothing
<1>9. CASE HdrWakes
  BY <1>9 DEF HdrWakes, TypeOK, TimerTypeOK, PointersSet, serverVars, timerVars, daemonVars, clientVars, historyVars, At, Running, PCs, BusyPCs, C, Reads, ReadsData, ReadsNothing
<1>10. CASE BodyData
  <2>1. C \in Conns /\ rx[C] # << >> /\ Consume(C)
    BY <1>10, <1>a DEF BodyData, At, BusyPCs, ReadsData
  <2>2. rx' \in [Conns -> Seq(Tokens)]
    BY <2>1, ConsumeFacts DEF TypeOK
  <2> QED BY <1>10, <2>2 DEF BodyData, TypeOK, TimerTypeOK, PointersSet, serverVars, timerVars, daemonVars, clientVars, historyVars, At, Running, PCs, BusyPCs, C
<1>11. CASE BodyWait
  BY <1>11 DEF BodyWait, TypeOK, TimerTypeOK, PointersSet, serverVars, timerVars, daemonVars, clientVars, historyVars, At, Running, PCs, BusyPCs, C, Reads, ReadsData, ReadsNothing
<1>12. CASE BodyWakes
  BY <1>12 DEF BodyWakes, TypeOK, TimerTypeOK, PointersSet, serverVars, timerVars, daemonVars, clientVars, historyVars, At, Running, PCs, BusyPCs, C, Reads, ReadsData, ReadsNothing
<1>13. CASE WsNoMemory
  <2>1. cur' \in Slots /\ pc' \in {"accept", "visit"}
    BY <1>13, NextSlotFacts DEF WsNoMemory, TypeOK
  <2> QED BY <1>13, <2>1 DEF WsNoMemory, TypeOK, TimerTypeOK, PointersSet, serverVars, timerVars, daemonVars, clientVars, historyVars, At, Running, PCs, BusyPCs, C
<1>14. CASE WsPayloadMissing
  <2>1. pend' \in [Conns -> BOOLEAN]
    BY <1>14 DEF WsPayloadMissing, TypeOK
  <2>2. pc' = "accept" /\ cur' = 1 /\ cur' \in Slots /\ pc = "wsPayload"
    BY <1>14 DEF WsPayloadMissing, At, Slots
  <2>3. UNCHANGED <<pool, con, tid, acc, cmdbuf, r, fr, timerVars, fault, daemonVars, sock,
                    script, rx, historyVars>>
    BY <1>14 DEF WsPayloadMissing
  <2> QED BY <2>1, <2>2, <2>3 DEF TypeOK, TimerTypeOK, PointersSet, timerVars, daemonVars, historyVars, PCs, BusyPCs
<1>15. CASE SetOptions
  <2>1. C \in Conns
    BY <1>15, <1>a DEF SetOptions, StartTimeout, At, BusyPCs
  <2>2. cmdq' \in Seq(Cmds) /\ lost' \in SUBSET Cmds
    BY <1>15, <1>b, <2>1, PostType DEF SetOptions, StartTimeout, TypeOK, TimerTypeOK
  <2>a. con' = con \/ con' = [con EXCEPT ![C].flag = TRUE]
    BY <1>15 DEF SetOptions, StartTimeout
  <2>b. [con EXCEPT ![C].flag = TRUE] \in [Conns -> ConnStruct]
    BY <2>1, ConFacts DEF TypeOK
  <2>3. con' \in [Conns -> ConnStruct]
    BY <2>a, <2>b DEF TypeOK
  <2>4. cur' \in Slots /\ pc' \in {"accept", "visit", "idle"}
    BY <1>15, BeginSweepFacts DEF SetOptions, StartTimeout, Slots
  <2> QED BY <1>15, <2>2, <2>3, <2>4 DEF SetOptions, StartTimeout, TypeOK, TimerTypeOK, PointersSet, serverVars, timerVars, daemonVars, clientVars, historyVars, At, Running, PCs, BusyPCs, C
<1>16. CASE VisitFlagged
  <2>1. C \in Conns
    BY <1>16, <1>a DEF VisitFlagged, ReleaseTimer, CloseSocket, At
  <2>2. cmdq' \in Seq(Cmds) /\ lost' \in SUBSET Cmds
    BY <1>16, <1>b, <2>1, PostType DEF VisitFlagged, ReleaseTimer, CloseSocket, TypeOK, TimerTypeOK
  <2>3. con' \in [Conns -> ConnStruct]
    BY <1>16, <2>1, FreshType DEF VisitFlagged, ReleaseTimer, CloseSocket, TypeOK
  <2>4. cur' \in Slots /\ pc' \in {"accept", "visit"}
    BY <1>16, NextSlotFacts DEF VisitFlagged, ReleaseTimer, CloseSocket, TypeOK
  <2>5. rx' \in [Conns -> Seq(Tokens)] /\ script' \in [Conns -> Seq(Tokens)]
    BY <1>16, <2>1, SeqFacts DEF VisitFlagged, ReleaseTimer, CloseSocket, TypeOK
  <2>6. /\ pend' \in [Conns -> BOOLEAN] /\ pool' \in [Slots -> Conns \cup {NULL}]
        /\ sock' \in [Conns -> {"none", "backlog", "open", "closed"}]
    BY <1>16, <2>1 DEF VisitFlagged, ReleaseTimer, CloseSocket, TypeOK
  <2> QED BY <1>16, <2>2, <2>3, <2>4, <2>5, <2>6
          DEF VisitFlagged, ReleaseTimer, CloseSocket, TypeOK, TimerTypeOK, PointersSet, serverVars, timerVars, daemonVars, clientVars, historyVars, At, Running, PCs, BusyPCs, C
<1>17. CASE VisitHttp
  <2>1. cmdbuf' \in BOOLEAN
    BY <1>17 DEF VisitHttp, TypeOK
  <2>2. \/ cur' = cur /\ pc' = "hdr" /\ C # NULL
        \/ cur' \in Slots /\ pc' \in {"accept", "visit"}
    BY <1>17, NextSlotFacts DEF VisitHttp, TypeOK
  <2> QED BY <1>17, <2>1, <2>2 DEF VisitHttp, TypeOK, TimerTypeOK, PointersSet, serverVars, timerVars, daemonVars, clientVars, historyVars, At, Running, PCs, BusyPCs, C
<1>18. CASE HdrRequest
  <2>1. C \in Conns /\ rx[C] # << >> /\ Consume(C)
    BY <1>18, <1>a DEF HdrRequest, At, BusyPCs, Reads
  <2>2. rx' \in [Conns -> Seq(Tokens)] /\ Head(rx[C]) \in Tokens
    BY <2>1, ConsumeFacts DEF TypeOK
  <2>3. Head(rx[C]) \in Requests
    BY <1>18, <2>2, ReqToken DEF HdrRequest, Reads
  <2>4. cmdq' \in Seq(Cmds) /\ lost' \in SUBSET Cmds
    BY <1>18, <2>1, <2>3, HeaderPostType DEF HdrRequest, TypeOK, TimerTypeOK
  <2> DEFINE s == ParseHeaders(con[C], Head(rx[C]))
  <2>5. s \in ConnStruct /\ [s EXCEPT !.buf = TRUE] \in ConnStruct
    <3>1. s \in ConnStruct
      BY <2>1, <2>3, ParseType DEF TypeOK
    <3> HIDE DEF s
    <3> QED BY <3>1 DEF ConnStruct
  <2>6. /\ con' \in [Conns -> ConnStruct]
        /\ \/ cur' = cur /\ pc' \in {"dispatch", "body"} /\ cmdbuf' = cmdbuf
           \/ NextSlot /\ cmdbuf' = FALSE
    <3> HIDE DEF s
    <3>1. \/ con' = [con EXCEPT ![C] = s]
          \/ con' = [con EXCEPT ![C] = [s EXCEPT !.buf = TRUE]]
      BY <1>18 DEF HdrRequest, s
    <3>2. \A x \in ConnStruct : [con EXCEPT ![C] = x] \in [Conns -> ConnStruct]
      BY <2>1, ConFacts DEF TypeOK
    <3>3. con' \in [Conns -> ConnStruct]
      BY <3>1, <3>2, <2>5
    <3> QED BY <3>3, <1>18 DEF HdrRequest
  <2>7. \/ cur' = cur /\ pc' \in {"dispatch", "body"} /\ C # NULL
        \/ cur' \in Slots /\ pc' \in {"accept", "visit"}
    BY <2>1, <2>6, NextSlotFacts DEF TypeOK
  <2>8. ran' \in [Conns -> Nat] /\ leaked' \in BOOLEAN /\ cmdbuf' \in BOOLEAN
    BY <1>18, <2>6 DEF HdrRequest, TypeOK
  <2> QED BY <1>18, <2>2, <2>4, <2>6, <2>7, <2>8
          DEF HdrRequest, TypeOK, TimerTypeOK, PointersSet, serverVars, timerVars, daemonVars, clientVars, historyVars, At, Running, PCs, BusyPCs, C
<1>19. CASE HdrTooLong
  <2>1. C \in Conns /\ rx[C] # << >> /\ Consume(C)
    BY <1>19, <1>a DEF HdrTooLong, EndRequest, At, BusyPCs, Reads
  <2>2. rx' \in [Conns -> Seq(Tokens)]
    BY <2>1, ConsumeFacts DEF TypeOK
  <2>3. cur' \in Slots /\ pc' \in {"accept", "visit"}
    BY <1>19, NextSlotFacts DEF HdrTooLong, EndRequest, TypeOK
  <2> QED BY <1>19, <2>2, <2>3 DEF HdrTooLong, EndRequest, TypeOK, TimerTypeOK, PointersSet, serverVars, timerVars, daemonVars, clientVars, historyVars, At, Running, PCs, BusyPCs, C
<1>20. CASE HdrClientClose
  <2>1. C \in Conns
    BY <1>20, <1>a DEF HdrClientClose, EndRequest, ClientClose, At, BusyPCs
  <2>2. rx' \in [Conns -> Seq(Tokens)] /\ pend' \in [Conns -> BOOLEAN]
    BY <1>20, <2>1, ConsumeFacts DEF HdrClientClose, EndRequest, ClientClose, TypeOK, Reads
  <2>3. con' \in [Conns -> ConnStruct]
    BY <1>20, <2>1, ConFacts DEF HdrClientClose, EndRequest, ClientClose, TypeOK
  <2>4. cur' \in Slots /\ pc' \in {"accept", "visit"}
    BY <1>20, NextSlotFacts DEF HdrClientClose, EndRequest, ClientClose, TypeOK
  <2> QED BY <1>20, <2>2, <2>3, <2>4 DEF HdrClientClose, EndRequest, ClientClose, TypeOK, TimerTypeOK, PointersSet, serverVars, timerVars, daemonVars, clientVars, historyVars, At, Running, PCs, BusyPCs, C
<1>21. CASE BodyClientClose
  <2>1. C \in Conns
    BY <1>21, <1>a DEF BodyClientClose, EndRequest, ClientClose, DropBody, At, BusyPCs
  <2>2. rx' \in [Conns -> Seq(Tokens)] /\ pend' \in [Conns -> BOOLEAN]
    BY <1>21, <2>1, ConsumeFacts DEF BodyClientClose, EndRequest, ClientClose, DropBody, TypeOK, Reads
  <2>3. con' \in [Conns -> ConnStruct]
    BY <1>21, <2>1, ConFacts DEF BodyClientClose, EndRequest, ClientClose, DropBody, TypeOK
  <2>4. cur' \in Slots /\ pc' \in {"accept", "visit"}
    BY <1>21, NextSlotFacts DEF BodyClientClose, EndRequest, ClientClose, DropBody, TypeOK
  <2> QED BY <1>21, <2>2, <2>3, <2>4 DEF BodyClientClose, EndRequest, ClientClose, DropBody, TypeOK, TimerTypeOK, PointersSet, serverVars, timerVars, daemonVars, clientVars, historyVars, At, Running, PCs, BusyPCs, C
<1>22. CASE Dispatch
  <2>1. C \in Conns
    BY <1>22, <1>a DEF Dispatch, At, BusyPCs
  <2>2. /\ \/ con' = con
           \/ con' = [con EXCEPT ![C].cgi = TRUE]
           \/ con' = [con EXCEPT ![C].cgi = FALSE]
           \/ con' = [con EXCEPT ![C].auth = TRUE]
        /\ ran' = ran \/ ran' = [ran EXCEPT ![C] = @ + 1]
        /\ greeted' = greeted \/ greeted' = greeted \cup {C}
        /\ r' \in {"DONE", "MORE"}
    <3>1. DispatchPost \/ DispatchCgi \/ DispatchHandshake \/ DispatchOther
      BY <1>22 DEF Dispatch
    <3>2. CASE DispatchPost
      BY <3>2 DEF DispatchPost
    <3>3. CASE DispatchCgi
      BY <3>3 DEF DispatchCgi, RunCgi
    <3>4. CASE DispatchHandshake
      BY <3>4 DEF DispatchHandshake
    <3>5. CASE DispatchOther
      BY <3>5 DEF DispatchOther
    <3> QED BY <3>1, <3>2, <3>3, <3>4, <3>5
  <2>b. /\ [con EXCEPT ![C].cgi = TRUE] \in [Conns -> ConnStruct]
        /\ [con EXCEPT ![C].cgi = FALSE] \in [Conns -> ConnStruct]
        /\ [con EXCEPT ![C].auth = TRUE] \in [Conns -> ConnStruct]
    BY <2>1, ConFacts DEF TypeOK
  <2>3. con' \in [Conns -> ConnStruct]
    <3>1. con \in [Conns -> ConnStruct]
      BY DEF TypeOK
    <3> QED BY <2>2, <2>b, <3>1
  <2>4. ran' \in [Conns -> Nat]
    <3>1. ran \in [Conns -> Nat]
      BY DEF TypeOK
    <3> QED BY <2>1, <2>2, <3>1
  <2>5. greeted' \in SUBSET Conns
    BY <2>2, <2>1 DEF TypeOK
  <2> QED BY <1>22, <2>2, <2>3, <2>4, <2>5 DEF Dispatch, TypeOK, TimerTypeOK, PointersSet, serverVars, timerVars, daemonVars, clientVars, historyVars, At, Running, PCs, BusyPCs, C
<1>23. CASE Fallback
  <2>1. C \in Conns
    BY <1>23, <1>a DEF Fallback, EndRequest, At, BusyPCs
  <2>2. cmdq' \in Seq(Cmds) /\ lost' \in SUBSET Cmds
    BY <1>23, <1>b, <2>1, PostType DEF Fallback, EndRequest, TypeOK, TimerTypeOK
  <2>a. \/ con' = [con EXCEPT ![C].buf = FALSE, ![C].flag = TRUE]
        \/ con' = [con EXCEPT ![C].buf = FALSE]
    BY <1>23 DEF Fallback, EndRequest
  <2>b. /\ [con EXCEPT ![C].buf = FALSE, ![C].flag = TRUE] \in [Conns -> ConnStruct]
        /\ [con EXCEPT ![C].buf = FALSE] \in [Conns -> ConnStruct]
    BY <2>1, ConFacts DEF TypeOK
  <2>3. con' \in [Conns -> ConnStruct]
    BY <2>a, <2>b DEF TypeOK
  <2>4. cur' \in Slots /\ pc' \in {"accept", "visit"}
    BY <1>23, NextSlotFacts DEF Fallback, EndRequest, TypeOK
  <2>5. ran' \in [Conns -> Nat]
    BY <1>23, <2>1 DEF Fallback, EndRequest, TypeOK
  <2> QED BY <1>23, <2>2, <2>3, <2>4, <2>5
          DEF Fallback, EndRequest, TypeOK, TimerTypeOK, PointersSet, serverVars, timerVars, daemonVars, clientVars, historyVars, At, Running, PCs, BusyPCs, C
<1>24. CASE WsNoFrame
  <2>1. C \in Conns
    BY <1>24, <1>a DEF WsNoFrame, At, BusyPCs
  <2>2. rx' \in [Conns -> Seq(Tokens)] /\ pend' \in [Conns -> BOOLEAN]
    BY <1>24, <2>1, ConsumeFacts DEF WsNoFrame, TypeOK
  <2> QED BY <1>24, <2>2 DEF WsNoFrame, TypeOK, TimerTypeOK, PointersSet, serverVars, timerVars, daemonVars, clientVars, historyVars, At, Running, PCs, BusyPCs, C
<1>25. CASE WsFrame
  <2>1. C \in Conns /\ rx[C] # << >> /\ Consume(C)
    BY <1>25, <1>a DEF WsFrame, At, BusyPCs
  <2>2. rx' \in [Conns -> Seq(Tokens)] /\ Head(rx[C]) \in Tokens
    BY <2>1, ConsumeFacts DEF TypeOK
  <2>3. fr' \in WsOps
    BY <1>25, <2>2, FrameToken DEF WsFrame
  <2> QED BY <1>25, <2>2, <2>3 DEF WsFrame, TypeOK, TimerTypeOK, PointersSet, serverVars, timerVars, daemonVars, clientVars, historyVars, At, Running, PCs, BusyPCs, C
<1>26. CASE WsWakes
  <2>1. cur' \in Slots /\ pc' \in {"accept", "visit"}
    BY <1>26, NextSlotFacts DEF WsWakes, TypeOK
  <2> QED BY <1>26, <2>1 DEF WsWakes, TypeOK, TimerTypeOK, PointersSet, serverVars, timerVars, daemonVars, clientVars, historyVars, At, Running, PCs, BusyPCs, C
<1>27. CASE WsPayloadEnd
  <2>1. C \in Conns /\ rx[C] # << >> /\ Consume(C)
    BY <1>27, <1>a DEF WsPayloadEnd, At, BusyPCs, Reads
  <2>2. rx' \in [Conns -> Seq(Tokens)]
    BY <2>1, ConsumeFacts DEF TypeOK
  <2>3. con' \in [Conns -> ConnStruct]
    BY <1>27, <2>1, ConFacts DEF WsPayloadEnd, TypeOK
  <2>4. cur' \in Slots /\ pc' \in {"accept", "visit"}
    BY <1>27, NextSlotFacts DEF WsPayloadEnd, TypeOK
  <2> QED BY <1>27, <2>2, <2>3, <2>4 DEF WsPayloadEnd, TypeOK, TimerTypeOK, PointersSet, serverVars, timerVars, daemonVars, clientVars, historyVars, At, Running, PCs, BusyPCs, C
<1>28. CASE WsMessage
  <2>1. C \in Conns /\ rx[C] # << >> /\ Consume(C)
    BY <1>28, <1>a DEF WsMessage, At, BusyPCs, ReadsData
  <2>2. rx' \in [Conns -> Seq(Tokens)]
    BY <2>1, ConsumeFacts DEF TypeOK
  <2>a. con' = con \/ con' = [con EXCEPT ![C].flag = TRUE]
    BY <1>28 DEF WsMessage
  <2>b. [con EXCEPT ![C].flag = TRUE] \in [Conns -> ConnStruct]
    BY <2>1, ConFacts DEF TypeOK
  <2>3. con' \in [Conns -> ConnStruct]
    BY <2>a, <2>b DEF TypeOK
  <2>4. cmdq' \in Seq(Cmds) /\ lost' \in SUBSET Cmds
    BY <1>28, <1>b, <2>1, PostType DEF WsMessage, TypeOK, TimerTypeOK
  <2>5. cur' \in Slots /\ pc' \in {"accept", "visit", "wsServe"} /\ (pc' = "wsServe" => cur' = cur)
    BY <1>28, NextSlotFacts DEF WsMessage, TypeOK
  <2>6. /\ UNCHANGED <<pool, tid, acc, cmdbuf, r, fr, tmr, fault, daemonVars, sock, script,
                       pend, historyVars>>
        /\ pc = "wsPayload" /\ pool[cur] # NULL
    BY <1>28, <2>1 DEF WsMessage, At, C
  <2> QED BY <2>2, <2>3, <2>4, <2>5, <2>6
          DEF TypeOK, TimerTypeOK, PointersSet, daemonVars, historyVars, PCs, BusyPCs
<1>29. CASE \E c \in Conns : AcceptOne(c)
  BY <1>29 DEF AcceptOne, TypeOK, TimerTypeOK, PointersSet, serverVars, timerVars, daemonVars, clientVars, historyVars, At, Running, PCs, BusyPCs, C
<1>30. CASE \E j \in Slots : AddClient(j)
  <2>1. PICK j \in Slots : AddClient(j)
    BY <1>30
  <2>2. acc \in Conns
    BY <2>1 DEF AddClient, SetTimerId, At, TypeOK, PointersSet
  <2>3. cmdq' \in Seq(Cmds) /\ lost' \in SUBSET Cmds
    BY <2>1, <2>2, <1>b, PostType DEF AddClient, SetTimerId, TypeOK, TimerTypeOK
  <2>4. con' \in [Conns -> ConnStruct]
    BY <2>1, <2>2, FreshType DEF AddClient, SetTimerId, TypeOK
  <2>5. /\ tmr' \in [Timers -> TmrStates] /\ tid' \in [Conns -> Slots]
        /\ pool' \in [Slots -> Conns \cup {NULL}] /\ pool'[j] # NULL
    BY <2>1, <2>2 DEF AddClient, SetTimerId, TimerCreate, TmrStates, TypeOK, TimerTypeOK
  <2> QED BY <2>1, <2>3, <2>4, <2>5
          DEF AddClient, SetTimerId, TypeOK, TimerTypeOK, PointersSet, serverVars, timerVars, daemonVars, clientVars, historyVars, At, Running, PCs, BusyPCs, C
<1>31. CASE WsServe
  <2>1. C \in Conns
    BY <1>31, <1>a DEF WsServe, At, BusyPCs
  <2>2. cmdq' \in Seq(Cmds) /\ lost' \in SUBSET Cmds
    BY <1>31, <1>b, <2>1, PostType DEF WsServe, TypeOK, TimerTypeOK
  <2>3. told' \in SUBSET Conns
    BY <1>31, <2>1 DEF WsServe, Broadcast, TypeOK
  <2>4. cur' \in Slots /\ pc' \in {"accept", "visit"}
    BY <1>31, NextSlotFacts DEF WsServe, TypeOK
  <2> QED BY <1>31, <2>2, <2>3, <2>4
          DEF WsServe, TypeOK, TimerTypeOK, PointersSet, serverVars, timerVars, daemonVars, clientVars, historyVars, At, Running, PCs, BusyPCs, C
<1> QED BY <1>1, <1>2, <1>3, <1>4, <1>5, <1>6, <1>7, <1>8, <1>9, <1>10, <1>11, <1>12, <1>13, <1>14, <1>15, <1>16, <1>17, <1>18, <1>19, <1>20, <1>21, <1>22, <1>23, <1>24, <1>25, <1>26, <1>27, <1>28, <1>29, <1>30, <1>31 DEF ServerStep

\* The effect of one command keeps the timer service well typed.
LEMMA CommandType ==
  ASSUME TimerTypeOK, ProcessCommand
  PROVE  TimerTypeOK'
<1>1. Head(cmdq) \in Cmds /\ Tail(cmdq) \in Seq(Cmds)
  BY TailFacts DEF ProcessCommand, TimerTypeOK
<1>2. FaultOf(Head(cmdq)) \in Faults
  BY DEF FaultOf, Faults
<1>3. StateAfter(Head(cmdq).op) \in TmrStates
  BY <1>1 DEF StateAfter, TmrStates, Cmds, Ops
<1>4. tmr' = tmr \/ tmr' = [tmr EXCEPT ![Head(cmdq).timer] = StateAfter(Head(cmdq).op)]
  BY DEF ProcessCommand
<1>5. tmr' \in [Timers -> TmrStates]
  BY <1>1, <1>3, <1>4 DEF TimerTypeOK, Cmds
<1> QED BY <1>1, <1>2, <1>5 DEF ProcessCommand, TimerTypeOK

\* The daemon's steps preserve the type invariant.
LEMMA DaemonTypeStep == TInv /\ DaemonStep => TInv'
<1> SUFFICES ASSUME TInv, DaemonStep PROVE TInv'
  OBVIOUS
<1> USE DEF TInv
<1>1. CASE DaemonCommand
  <2>1. TimerTypeOK'
    BY <1>1, CommandType DEF DaemonCommand, TypeOK
  <2> QED BY <1>1, <2>1 DEF DaemonCommand, AfterCallback, TypeOK, PointersSet, BusyPCs, serverVars, timerVars, daemonVars, clientVars, historyVars
<1>2. CASE \E t \in Conns : TimeoutCB_Begin(t)
  <2>1. PICK t \in Conns : TimeoutCB_Begin(t)
    BY <1>2
  <2>2. cmdq' \in Seq(Cmds) /\ lost' \in SUBSET Cmds
    BY <2>1, CommandTypes, PostType DEF TimeoutCB_Begin, TypeOK, TimerTypeOK
  <2> QED BY <2>1, <2>2 DEF TimeoutCB_Begin, TypeOK, TimerTypeOK, PointersSet, BusyPCs, serverVars, clientVars, historyVars
<1>3. CASE TimeoutCB_Check
  <2>1. dt \in Conns
    BY <1>3 DEF TimeoutCB_Check, SlotTaken, TypeOK, PointersSet
  <2>2. tid[dt] \in Slots /\ pool[tid[dt]] \in Conns \cup {NULL}
    BY <2>1 DEF TypeOK
  <2>3. Delete(dt) \in Cmds
    BY <2>1, CommandTypes
  <2>4. cmdq' \in Seq(Cmds) /\ lost' \in SUBSET Cmds
    BY <1>3, <2>3, PostType DEF TimeoutCB_Check, SlotTaken, TypeOK, TimerTypeOK
  <2> QED BY <1>3, <2>2, <2>4 DEF TimeoutCB_Check, SlotTaken, AfterCallback, TypeOK, TimerTypeOK, PointersSet, BusyPCs, serverVars, clientVars, historyVars
<1>4. CASE TimeoutCB_Write
  <2>1. PICK p \in {dptr, pool[tid[dt]]} :
          IF p # NULL /\ InPool(p)
          THEN con' = [con EXCEPT ![p].flag = TRUE] /\ UNCHANGED fault
          ELSE fault' = "dangling_conn" /\ UNCHANGED con
    BY <1>4 DEF TimeoutCB_Write
  <2>2. con' \in [Conns -> ConnStruct]
    <3>1. CASE p # NULL /\ InPool(p)
      <4>1. p \in Conns
        BY <3>1 DEF InPool, TypeOK
      <4>2. con' = [con EXCEPT ![p].flag = TRUE]
        BY <2>1, <3>1
      <4> QED BY <4>1, <4>2, ConFacts DEF TypeOK
    <3>2. CASE ~(p # NULL /\ InPool(p))
      BY <2>1, <3>2 DEF TypeOK
    <3> QED BY <3>1, <3>2
  <2>3. fault' \in Faults
    BY <2>1 DEF Faults, TypeOK, TimerTypeOK
  <2> QED BY <1>4, <2>2, <2>3 DEF TimeoutCB_Write, AfterCallback, TypeOK, TimerTypeOK, PointersSet, BusyPCs, serverVars, timerVars, clientVars, historyVars
<1> QED BY <1>1, <1>2, <1>3, <1>4 DEF DaemonStep

\* The clients' steps preserve the type invariant.
LEMMA ClientTypeStep == TInv /\ ClientStep => TInv'
<1> SUFFICES ASSUME TInv, ClientStep PROVE TInv'
  OBVIOUS
<1> USE DEF TInv
<1>1. PICK c \in Conns : Connect(c) \/ Send(c)
  BY DEF ClientStep
<1>2. CASE Connect(c)
  <2>1. script' \in [Conns -> Seq(Tokens)]
    BY <1>2, ScriptsAssumption DEF Connect, TypeOK
  <2> QED BY <1>2, <2>1 DEF Connect, TypeOK, TimerTypeOK, PointersSet, BusyPCs, serverVars, timerVars, daemonVars, historyVars
<1>3. CASE Send(c)
  <2>1. script[c] \in Seq(Tokens) /\ rx[c] \in Seq(Tokens)
    BY DEF TypeOK
  <2>2. Head(script[c]) \in Tokens /\ Tail(script[c]) \in Seq(Tokens)
    BY <2>1, <1>3, SeqFacts DEF Send
  <2>3. Append(rx[c], Head(script[c])) \in Seq(Tokens)
    BY <2>1, <2>2, SeqFacts
  <2>4. script' \in [Conns -> Seq(Tokens)]
    BY <1>3, <2>2 DEF Send, TypeOK
  <2>5. \/ rx' = rx
        \/ rx' = [rx EXCEPT ![c] = Append(@, Head(script[c]))]
    BY <1>3 DEF Send
  <2>6. rx' \in [Conns -> Seq(Tokens)]
    BY <2>3, <2>5 DEF TypeOK
  <2>7. pend' = pend \/ pend' = [pend EXCEPT ![c] = TRUE]
    BY <1>3 DEF Send
  <2>8. pend' \in [Conns -> BOOLEAN]
    BY <2>7 DEF TypeOK
  <2>9. UNCHANGED <<pool, con, tid, serverVars, timerVars, fault, daemonVars, sock, historyVars>>
    BY <1>3 DEF Send
  <2>10. UNCHANGED <<pool, con, tid, pc, cur, acc, cmdbuf, r, fr, tmr, cmdq, lost, fault, dpc, dt,
                     dptr, sock, ran, leaked, greeted, told>>
    BY <2>9 DEF serverVars, timerVars, daemonVars, historyVars
  <2>11. TypeOK'
    BY <2>4, <2>6, <2>8, <2>10 DEF TypeOK, TimerTypeOK
  <2>12. PointersSet'
    BY <2>10 DEF PointersSet
  <2> QED BY <2>11, <2>12
<1> QED BY <1>1, <1>2, <1>3

\* Every step preserves the type invariant and the pointers' validity.
LEMMA TypeStep == TInv /\ [Next]_vars => TInv'
<1> SUFFICES ASSUME TInv, [Next]_vars PROVE TInv'
  OBVIOUS
<1>1. CASE UNCHANGED vars
  BY <1>1 DEF TInv, TypeOK, TimerTypeOK, PointersSet, BusyPCs, vars, serverVars, timerVars, daemonVars, clientVars, historyVars
<1>2. CASE Halted
  BY <1>1, <1>2 DEF Halted
<1> QED BY <1>1, <1>2, ServerTypeStep, DaemonTypeStep, ClientTypeStep DEF Next

\* Type correctness of the server, the timer service and the clients, for any
\* number of connections, pool size, queue length and client scripts.
THEOREM TypeCorrect == Spec => []TypeOK
<1>1. Init => TInv
  BY TypeInit
<1>2. TInv /\ [Next]_vars => TInv'
  BY TypeStep
<1>3. TInv => TypeOK
  BY DEF TInv
<1> QED BY <1>1, <1>2, <1>3, PTL DEF Spec

=============================================================================
