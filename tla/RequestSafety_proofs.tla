------------------------- MODULE RequestSafety_proofs -------------------------
(***************************************************************************)
(* What happens to a request, proved for every number of clients, slots    *)
(* and scripts: its buffers are freed, its CGI handler runs once, and      *)
(* frames follow the handshake.                                            *)
(***************************************************************************)
EXTENDS ConnOwnership_proofs

USE ConnsAssumption

\* What the proofs below use of the type invariant.
LEMMA Typing ==
  ASSUME TInv
  PROVE  /\ con \in [Conns -> ConnStruct] /\ pool \in [Slots -> Conns \cup {NULL}]
         /\ cur \in Slots /\ ran \in [Conns -> Nat] /\ rx \in [Conns -> Seq(Tokens)]
         /\ acc \in Conns \cup {NULL} /\ (pc = "add" => acc \in Conns)
         /\ cmdbuf \in BOOLEAN /\ leaked \in BOOLEAN /\ pc \in PCs
         /\ pc \in BusyPCs \/ (pc = "visit" /\ C # NULL) => C \in Conns
BY DEF TInv, TypeOK, PointersSet, C

\* Structure d becomes e, and only the four flags may change.
Becomes(d, e, flag, buf, cgi, auth) ==
  /\ e.flag = flag /\ e.buf = buf /\ e.cgi = cgi /\ e.auth = auth
  /\ e.ws = d.ws /\ e.len = d.len /\ e.req = d.req

\* Writing a field of one structure leaves its other fields, and the other structures.
LEMMA Writes ==
  ASSUME NEW x \in Conns, con \in [Conns -> ConnStruct]
  PROVE  \A c \in Conns :
    LET d == con[c]
        e == con'[c]
    IN /\ con' = [con EXCEPT ![x].flag = TRUE] =>
             Becomes(d, e, d.flag \/ c = x, d.buf, d.cgi, d.auth)
       /\ con' = [con EXCEPT ![x].flag = TRUE, ![x].buf = FALSE] =>
             Becomes(d, e, d.flag \/ c = x, d.buf /\ c # x, d.cgi, d.auth)
       /\ con' = [con EXCEPT ![x].buf = FALSE, ![x].flag = TRUE] =>
             Becomes(d, e, d.flag \/ c = x, d.buf /\ c # x, d.cgi, d.auth)
       /\ con' = [con EXCEPT ![x].buf = FALSE] =>
             Becomes(d, e, d.flag, d.buf /\ c # x, d.cgi, d.auth)
       /\ con' = [con EXCEPT ![x].cgi = TRUE] =>
             Becomes(d, e, d.flag, d.buf, d.cgi \/ c = x, d.auth)
       /\ con' = [con EXCEPT ![x].cgi = FALSE] =>
             Becomes(d, e, d.flag, d.buf, d.cgi /\ c # x, d.auth)
       /\ con' = [con EXCEPT ![x].auth = TRUE] =>
             Becomes(d, e, d.flag, d.buf, d.cgi, d.auth \/ c = x)
<1> TAKE c \in Conns
<1> con[c] \in ConnStruct /\ con[x] \in ConnStruct
  OBVIOUS
<1>1. CASE c = x
  <2>1. con' = [con EXCEPT ![x].flag = TRUE] =>
            Becomes(con[c], con'[c], TRUE, con[c].buf, con[c].cgi, con[c].auth)
    BY <1>1 DEF Becomes, ConnStruct
  <2>2. ASSUME con' = [con EXCEPT ![x].buf = FALSE, ![x].flag = TRUE]
        PROVE  Becomes(con[c], con'[c], TRUE, FALSE, con[c].cgi, con[c].auth)
    <3>1. con'[c] = [[con[c] EXCEPT !.buf = FALSE] EXCEPT !.flag = TRUE]
      BY <1>1, <2>2
    <3> QED BY <3>1 DEF Becomes, ConnStruct
  <2>3. con' = [con EXCEPT ![x].buf = FALSE] =>
            Becomes(con[c], con'[c], con[c].flag, FALSE, con[c].cgi, con[c].auth)
    BY <1>1 DEF Becomes, ConnStruct
  <2>4. con' = [con EXCEPT ![x].cgi = TRUE] =>
            Becomes(con[c], con'[c], con[c].flag, con[c].buf, TRUE, con[c].auth)
    BY <1>1 DEF Becomes, ConnStruct
  <2>5. con' = [con EXCEPT ![x].cgi = FALSE] =>
            Becomes(con[c], con'[c], con[c].flag, con[c].buf, FALSE, con[c].auth)
    BY <1>1 DEF Becomes, ConnStruct
  <2>6. con' = [con EXCEPT ![x].auth = TRUE] =>
            Becomes(con[c], con'[c], con[c].flag, con[c].buf, con[c].cgi, TRUE)
    BY <1>1 DEF Becomes, ConnStruct
  <2>7. ASSUME con' = [con EXCEPT ![x].flag = TRUE, ![x].buf = FALSE]
        PROVE  Becomes(con[c], con'[c], TRUE, FALSE, con[c].cgi, con[c].auth)
    <3>1. con'[c] = [[con[c] EXCEPT !.flag = TRUE] EXCEPT !.buf = FALSE]
      BY <1>1, <2>7
    <3> QED BY <3>1 DEF Becomes, ConnStruct
  <2> QED BY <1>1, <2>1, <2>2, <2>3, <2>4, <2>5, <2>6, <2>7 DEF ConnStruct
<1>2. CASE c # x
  BY <1>2 DEF Becomes, ConnStruct
<1> QED BY <1>1, <1>2

\* A structure that is flagged has its flag set.
LEMMA SetsFlag ==
  ASSUME NEW x \in Conns, con \in [Conns -> ConnStruct],
         \/ con' = [con EXCEPT ![x].flag = TRUE]
         \/ con' = [con EXCEPT ![x].flag = TRUE, ![x].buf = FALSE]
         \/ con' = [con EXCEPT ![x].buf = FALSE, ![x].flag = TRUE]
  PROVE  con'[x].flag
<1>1. con[x] \in ConnStruct
  OBVIOUS
<1>2. CASE con' = [con EXCEPT ![x].flag = TRUE]
  <2>1. con'[x] = [con[x] EXCEPT !.flag = TRUE]
    BY <1>2
  <2> QED BY <1>1, <2>1 DEF ConnStruct
<1>3. CASE con' = [con EXCEPT ![x].flag = TRUE, ![x].buf = FALSE]
  <2>1. con'[x] = [[con[x] EXCEPT !.flag = TRUE] EXCEPT !.buf = FALSE]
    BY <1>3
  <2> QED BY <1>1, <2>1 DEF ConnStruct
<1>4. CASE con' = [con EXCEPT ![x].buf = FALSE, ![x].flag = TRUE]
  <2>1. con'[x] = [[con[x] EXCEPT !.buf = FALSE] EXCEPT !.flag = TRUE]
    BY <1>4
  <2> QED BY <1>1, <2>1 DEF ConnStruct
<1> QED BY <1>2, <1>3, <1>4

\* Structure e says of the client's session what d says; a flag stays set.
Carries(d, e) ==
  /\ e.ws = d.ws /\ e.auth = d.auth /\ e.len = d.len /\ e.req = d.req
  /\ d.flag => e.flag

\* Only the parser, the handshake and a new connection change the session.
LEMMA KeepsSession ==
  ASSUME NEW x \in Conns, con \in [Conns -> ConnStruct],
         \/ con' = con
         \/ con' = [con EXCEPT ![x].flag = TRUE]
         \/ con' = [con EXCEPT ![x].flag = TRUE, ![x].buf = FALSE]
         \/ con' = [con EXCEPT ![x].buf = FALSE, ![x].flag = TRUE]
         \/ con' = [con EXCEPT ![x].buf = FALSE]
         \/ con' = [con EXCEPT ![x].cgi = TRUE]
         \/ con' = [con EXCEPT ![x].cgi = FALSE]
  PROVE  \A c \in Conns : Carries(con[c], con'[c])
<1> SUFFICES ASSUME NEW c \in Conns PROVE Carries(con[c], con'[c])
  OBVIOUS
<1> DEFINE B(f, b, g) == Becomes(con[c], con'[c], f, b, g, con[c].auth)
<1>1. CASE con' = con
  BY <1>1 DEF Carries
<1>2. ASSUME NEW f, NEW b, NEW g, B(f, b, g), con[c].flag => f
      PROVE  Carries(con[c], con'[c])
  BY <1>2 DEF Becomes, Carries
<1>3. CASE con' = [con EXCEPT ![x].flag = TRUE]
  <2>1. B(con[c].flag \/ c = x, con[c].buf, con[c].cgi)
    BY <1>3, Writes
  <2> QED BY <1>2, <2>1
<1>4. CASE \/ con' = [con EXCEPT ![x].flag = TRUE, ![x].buf = FALSE]
           \/ con' = [con EXCEPT ![x].buf = FALSE, ![x].flag = TRUE]
  <2>1. B(con[c].flag \/ c = x, con[c].buf /\ c # x, con[c].cgi)
    BY <1>4, Writes
  <2> QED BY <1>2, <2>1
<1>5. CASE con' = [con EXCEPT ![x].buf = FALSE]
  <2>1. B(con[c].flag, con[c].buf /\ c # x, con[c].cgi)
    BY <1>5, Writes
  <2> QED BY <1>2, <2>1
<1>6. CASE con' = [con EXCEPT ![x].cgi = TRUE]
  <2>1. B(con[c].flag, con[c].buf, con[c].cgi \/ c = x)
    BY <1>6, Writes
  <2> QED BY <1>2, <2>1
<1>7. CASE con' = [con EXCEPT ![x].cgi = FALSE]
  <2>1. B(con[c].flag, con[c].buf, con[c].cgi /\ c # x)
    BY <1>7, Writes
  <2> QED BY <1>2, <2>1
<1> QED BY <1>1, <1>3, <1>4, <1>5, <1>6, <1>7

-----------------------------------------------------------------------------
(* Buffers.                                                                *)

\* A step that reads, waits or sleeps at the connection being served.
LEMMA BuffersSleep ==
  ASSUME BuffersOwned, UNCHANGED <<pool, con, cur, cmdbuf, leaked>>,
         pc \in RequestPCs <=> pc' \in RequestPCs,
         pc \in BodyPCs <=> pc' \in BodyPCs
  PROVE  BuffersOwned'
BY DEF BuffersOwned, C

\* Outside a request no connection has a buffer, and a step that starts none keeps it so.
LEMMA BuffersOutside ==
  ASSUME BuffersOwned, TInv, pc \notin RequestPCs, pc' \notin RequestPCs,
         UNCHANGED <<cmdbuf, leaked>>,
         \A c \in Conns : con'[c].buf = con[c].buf \/ con'[c].buf = FALSE
  PROVE  BuffersOwned'
<1>1. BodyPCs \subseteq RequestPCs
  BY DEF BodyPCs, RequestPCs
<1> QED BY <1>1 DEF BuffersOwned

\* The end of a request: http_cmd_buf is freed, and no structure holds data_buff.
LEMMA BuffersEnd ==
  ASSUME BuffersOwned, NextSlot, EndRequest, UNCHANGED leaked,
         \A c \in Conns : con'[c].buf => con[c].buf,
         pc \in BodyPCs => ~con'[C].buf
  PROVE  BuffersOwned'
<1>1. ~cmdbuf' /\ pc' \notin RequestPCs
  BY DEF EndRequest, NextSlot, RequestPCs
<1>2. \A c \in Conns : ~con'[c].buf
  BY DEF BuffersOwned
<1> QED BY <1>1, <1>2 DEF BuffersOwned

LEMMA BuffersServer ==
  ASSUME TInv, BuffersOwned, ServerStep
  PROVE  BuffersOwned'
<1> USE Typing DEF At
<1>1. CASE ServerStart \/ AcceptNone \/ (\E c \in Conns : AcceptOne(c)) \/ AddWait \/ MainLoopWakes
  <2>1. pc \notin RequestPCs /\ pc' \notin RequestPCs /\ UNCHANGED <<cmdbuf, leaked, con>>
    BY <1>1 DEF ServerStart, AcceptNone, AcceptOne, AddWait, MainLoopWakes, BeginSweep,
                RequestPCs, historyVars
  <2> QED BY <2>1, BuffersOutside
<1>2. ASSUME NEW j \in Slots, AddClient(j) PROVE BuffersOwned'
  <2>1. /\ pc \notin RequestPCs /\ pc' \notin RequestPCs /\ UNCHANGED <<cmdbuf, leaked>>
        /\ con' = [con EXCEPT ![acc] = FreshConn] /\ acc \in Conns
    BY <1>2 DEF AddClient, RequestPCs, historyVars
  <2>2. \A c \in Conns : con'[c].buf = con[c].buf \/ con'[c].buf = FALSE
    BY <2>1 DEF FreshConn
  <2> QED BY <2>1, <2>2, BuffersOutside
<1>3. CASE SetOptions
  <2>1. pc \notin RequestPCs /\ pc' \notin RequestPCs /\ UNCHANGED <<cmdbuf, leaked>> /\ C \in Conns
    BY <1>3 DEF SetOptions, RequestPCs, BeginSweep, historyVars, BusyPCs
  <2>2. \A c \in Conns : con'[c].buf = con[c].buf
    BY <1>3, <2>1, Writes DEF SetOptions, Becomes
  <2> QED BY <2>1, <2>2, BuffersOutside
<1>4. CASE VisitFlagged
  <2>1. /\ pc \notin RequestPCs /\ pc' \notin RequestPCs /\ UNCHANGED <<cmdbuf, leaked>>
        /\ con' = [con EXCEPT ![C] = FreshConn] /\ C \in Conns
    BY <1>4 DEF VisitFlagged, RequestPCs, NextSlot, historyVars
  <2>2. \A c \in Conns : con'[c].buf = con[c].buf \/ con'[c].buf = FALSE
    BY <2>1 DEF FreshConn
  <2> QED BY <2>1, <2>2, BuffersOutside
<1>5. CASE VisitEmpty \/ VisitWebSocket
  <2>1. pc \notin RequestPCs /\ pc' \notin RequestPCs /\ UNCHANGED <<cmdbuf, leaked, con>>
    BY <1>5 DEF VisitEmpty, VisitWebSocket, NextSlot, RequestPCs, historyVars
  <2> QED BY <2>1, BuffersOutside
<1>6. CASE VisitHttp
  BY <1>6 DEF VisitHttp, NextSlot, BuffersOwned, RequestPCs, BodyPCs, historyVars
<1>7. CASE HdrRequest
  <2> DEFINE q == Head(rx[C])
             s == ParseHeaders(con[C], q)
  <2>1. /\ pc = "hdr" /\ C \in Conns /\ pool' = pool /\ ~con[C].buf
        /\ \A c \in Conns : ~con[c].buf
    BY <1>7 DEF HdrRequest, BusyPCs, BuffersOwned, BodyPCs
  <2>2. con[C] \in ConnStruct /\ con[C].buf \in BOOLEAN
    BY <2>1 DEF ConnStruct
  <2>3. s.buf = FALSE
    BY <2>1, <2>2 DEF ParseHeaders, ConnStruct
  <2>4. leaked' = FALSE
    BY <1>7, <2>1 DEF HdrRequest, BuffersOwned
  <2>5. C' = pool[cur']
    BY <2>1 DEF C
  <2>6. CASE con' = [con EXCEPT ![C] = s] /\ pc' = "dispatch" /\ UNCHANGED <<cur, cmdbuf>>
    <3>1. \A c \in Conns : ~con'[c].buf
      BY <2>1, <2>3, <2>6
    <3> QED BY <2>1, <2>4, <2>6, <3>1 DEF BuffersOwned, RequestPCs
  <2>7. CASE con' = [con EXCEPT ![C] = [s EXCEPT !.buf = TRUE]] /\ pc' = "body"
             /\ UNCHANGED <<cur, cmdbuf>>
    <3>1. \A c \in Conns : con'[c].buf => c = C
      BY <2>1, <2>7
    <3>2. C' = C
      BY <2>5, <2>7 DEF C
    <3> QED BY <2>1, <2>4, <2>7, <3>1, <3>2 DEF BuffersOwned, RequestPCs, BodyPCs
  <2>8. CASE con' = [con EXCEPT ![C] = s] /\ cmdbuf' = FALSE /\ NextSlot
    <3>1. \A c \in Conns : ~con'[c].buf
      BY <2>1, <2>3, <2>8
    <3> QED BY <2>4, <2>8, <3>1 DEF BuffersOwned, RequestPCs, NextSlot
  <2> QED BY <1>7, <2>6, <2>7, <2>8 DEF HdrRequest
<1>8. CASE HdrTooLong \/ HdrClientClose
  <2>1. pc = "hdr" /\ C \in Conns /\ NextSlot /\ EndRequest /\ UNCHANGED leaked
    BY <1>8 DEF HdrTooLong, HdrClientClose, BusyPCs, historyVars
  <2>2. \A c \in Conns : con'[c].buf = con[c].buf
    BY <1>8, <2>1 DEF HdrTooLong, HdrClientClose, ConnStruct
  <2> QED BY <2>1, <2>2, BuffersEnd DEF BodyPCs
<1>9. CASE HdrBytes \/ HdrWait \/ HdrWakes \/ BodyData \/ BodyWait \/ BodyWakes
  BY <1>9, BuffersSleep DEF HdrBytes, HdrWait, HdrWakes, BodyData, BodyWait, BodyWakes,
       RequestPCs, BodyPCs, serverVars, historyVars
<1>10. CASE BodyClientClose
  <2>1. pc = "body" /\ C \in Conns /\ NextSlot /\ EndRequest /\ UNCHANGED leaked /\ DropBody(C)
    BY <1>10 DEF BodyClientClose, BusyPCs, historyVars
  <2>2. ~con'[C].buf /\ \A c \in Conns : con'[c].buf => con[c].buf
    BY <2>1 DEF DropBody, ConnStruct
  <2> QED BY <2>1, <2>2, BuffersEnd
<1>11. CASE Dispatch
  <2>1. /\ pc = "dispatch" /\ pc' = "fallback" /\ C \in Conns
        /\ UNCHANGED <<pool, cur, cmdbuf, leaked>>
    BY <1>11 DEF Dispatch, BusyPCs
  <2>2. \A c \in Conns : con'[c].buf = con[c].buf
    <3>1. \/ con' = con \/ con' = [con EXCEPT ![C].cgi = TRUE]
          \/ con' = [con EXCEPT ![C].cgi = FALSE] \/ con' = [con EXCEPT ![C].auth = TRUE]
      BY <1>11 DEF Dispatch, DispatchPost, DispatchCgi, RunCgi, DispatchHandshake, DispatchOther
    <3> QED BY <2>1, <3>1, Writes DEF Becomes
  <2> QED BY <2>1, <2>2 DEF BuffersOwned, C, RequestPCs, BodyPCs
<1>12. CASE Fallback
  <2>1. pc = "fallback" /\ C \in Conns /\ NextSlot /\ EndRequest /\ UNCHANGED leaked
    BY <1>12 DEF Fallback, BusyPCs
  <2>2. ~con'[C].buf /\ \A c \in Conns : con'[c].buf => con[c].buf
    <3>1. \/ con' = [con EXCEPT ![C].buf = FALSE, ![C].flag = TRUE]
          \/ con' = [con EXCEPT ![C].buf = FALSE]
      BY <1>12 DEF Fallback
    <3> QED BY <2>1, <3>1, Writes DEF Becomes
  <2> QED BY <2>1, <2>2, BuffersEnd
<1>13. CASE WsNoFrame \/ WsFrame \/ WsWakes \/ WsNoMemory \/ WsPayloadMissing
  <2>1. pc \notin RequestPCs /\ pc' \notin RequestPCs /\ UNCHANGED <<cmdbuf, leaked, con>>
    BY <1>13 DEF WsNoFrame, WsFrame, WsWakes, WsNoMemory, WsPayloadMissing, NextSlot,
                 RequestPCs, historyVars
  <2> QED BY <2>1, BuffersOutside
<1>14. CASE WsPayloadEnd \/ WsMessage \/ WsServe
  <2>1. /\ pc \notin RequestPCs /\ pc' \notin RequestPCs /\ UNCHANGED <<cmdbuf, leaked>>
        /\ C \in Conns
    BY <1>14 DEF WsPayloadEnd, WsMessage, WsServe, NextSlot, RequestPCs, historyVars, BusyPCs
  <2>2. \A c \in Conns : con'[c].buf = con[c].buf
    <3>1. con' = con \/ con' = [con EXCEPT ![C].flag = TRUE]
      BY <1>14 DEF WsPayloadEnd, WsMessage, WsServe
    <3> QED BY <2>1, <3>1, Writes DEF Becomes
  <2> QED BY <2>1, <2>2, BuffersOutside
<1> QED BY <1>1, <1>2, <1>3, <1>4, <1>5, <1>6, <1>7, <1>8, <1>9, <1>10, <1>11, <1>12,
           <1>13, <1>14 DEF ServerStep

\* The daemon and the clients only set flags of connection structures.
LEMMA OthersFlag ==
  ASSUME TInv, [DaemonStep \/ ClientStep \/ Halted]_vars
  PROVE  /\ UNCHANGED <<pool, serverVars, historyVars>>
         /\ \A c \in Conns : /\ con'[c].buf = con[c].buf
                             /\ con'[c].auth = con[c].auth
                             /\ con'[c].cgi = con[c].cgi
                             /\ con'[c].req = con[c].req
                             /\ con'[c].ws = con[c].ws
                             /\ con'[c].len = con[c].len
                             /\ con[c].flag => con'[c].flag
<1>1. UNCHANGED <<pool, serverVars, historyVars>>
  BY DEF vars, Halted, DaemonStep, ClientStep, DaemonCommand, TimeoutCB_Begin, TimeoutCB_Check,
         TimeoutCB_Write, Connect, Send
<1>2. con' = con \/ \E p \in Conns : con' = [con EXCEPT ![p].flag = TRUE]
  <2>1. CASE TimeoutCB_Write
    BY <2>1, Typing DEF TimeoutCB_Write, InPool
  <2>2. CASE ~TimeoutCB_Write
    BY <2>2 DEF vars, Halted, DaemonStep, ClientStep, DaemonCommand, TimeoutCB_Begin,
                TimeoutCB_Check, Connect, Send
  <2> QED BY <2>1, <2>2
<1>3. con \in [Conns -> ConnStruct]
  BY Typing
<1> QED BY <1>1, <1>2, <1>3 DEF ConnStruct

LEMMA BuffersStep ==
  ASSUME TInv, BuffersOwned, [Next]_vars
  PROVE  BuffersOwned'
<1>1. CASE ServerStep
  BY <1>1, BuffersServer
<1>2. CASE [DaemonStep \/ ClientStep \/ Halted]_vars
  <2>1. UNCHANGED <<pool, cur, pc, cmdbuf, leaked>> /\ \A c \in Conns : con'[c].buf = con[c].buf
    BY <1>2, OthersFlag DEF serverVars, historyVars
  <2> QED BY <2>1 DEF BuffersOwned, C
<1> QED BY <1>1, <1>2 DEF Next

\* No early exit of the sweep leaks http_cmd_buf or data_buff, and data_buff belongs
\* to the connection being served.
THEOREM BuffersAlwaysOwned == Spec => []BuffersOwned
<1>1. Init => BuffersOwned
  BY DEF Init, BuffersOwned, RequestPCs, FreshConn
<1>2. Spec => []TInv
  BY TypeInit, TypeStep, PTL DEF Spec
<1>3. TInv /\ BuffersOwned /\ [Next]_vars => BuffersOwned'
  BY BuffersStep
<1> QED BY <1>1, <1>2, <1>3, PTL DEF Spec

-----------------------------------------------------------------------------
(* Frames and the handshake.                                               *)

\* A connection that may be sent frames was greeted.
GreetedFirst == /\ \A c \in Conns : con[c].auth => c \in greeted
                /\ FrameOnlyAfterHandshake

\* A step that answers no handshake and sends no frame.
LEMMA GreetedQuiet ==
  ASSUME GreetedFirst, UNCHANGED <<greeted, told>>,
         \A c \in Conns : con'[c].auth => con[c].auth
  PROVE  GreetedFirst'
BY DEF GreetedFirst, FrameOnlyAfterHandshake

LEMMA GreetedStep ==
  ASSUME TInv, GreetedFirst, [Next]_vars
  PROVE  GreetedFirst'
<1> USE Typing DEF At
<1>1. CASE [DaemonStep \/ ClientStep \/ Halted]_vars
  BY <1>1, OthersFlag, GreetedQuiet DEF historyVars
<1>2. CASE \/ ServerStart \/ AcceptNone \/ (\E c \in Conns : AcceptOne(c)) \/ AddWait
           \/ MainLoopWakes \/ VisitEmpty \/ VisitHttp \/ VisitWebSocket
           \/ HdrTooLong \/ HdrBytes \/ HdrWait \/ HdrWakes \/ BodyData \/ BodyWait \/ BodyWakes
  <2>1. UNCHANGED <<con, greeted, told>>
    BY <1>2 DEF ServerStart, AcceptNone, AcceptOne, AddWait, MainLoopWakes, VisitEmpty,
       VisitHttp, VisitWebSocket, HdrTooLong, HdrBytes, HdrWait, HdrWakes, BodyData,
       BodyWait, BodyWakes, historyVars
  <2> QED BY <2>1, GreetedQuiet
<1>3. CASE WsNoFrame \/ WsFrame \/ WsWakes \/ WsNoMemory \/ WsPayloadMissing
  <2>1. UNCHANGED <<con, greeted, told>>
    BY <1>3 DEF WsNoFrame, WsFrame, WsWakes, WsNoMemory, WsPayloadMissing, historyVars
  <2> QED BY <2>1, GreetedQuiet
<1>4. CASE SetOptions \/ HdrClientClose \/ BodyClientClose \/ Fallback \/ WsPayloadEnd
  <2>1. UNCHANGED <<greeted, told>> /\ C \in Conns
    BY <1>4 DEF SetOptions, HdrClientClose, BodyClientClose, Fallback, WsPayloadEnd,
       BusyPCs, historyVars
  <2>2. \/ con' = con \/ con' = [con EXCEPT ![C].flag = TRUE]
        \/ con' = [con EXCEPT ![C].flag = TRUE, ![C].buf = FALSE]
        \/ con' = [con EXCEPT ![C].buf = FALSE, ![C].flag = TRUE]
        \/ con' = [con EXCEPT ![C].buf = FALSE]
    BY <1>4 DEF SetOptions, HdrClientClose, BodyClientClose, DropBody, Fallback, WsPayloadEnd
  <2>3. \A c \in Conns : con'[c].auth = con[c].auth
    BY <2>1, <2>2, KeepsSession DEF Carries
  <2> QED BY <2>1, <2>3, GreetedQuiet
<1>5. CASE (\E j \in Slots : AddClient(j)) \/ VisitFlagged
  <2>1. /\ UNCHANGED <<greeted, told>>
        /\ \E x \in Conns : con' = [con EXCEPT ![x] = FreshConn]
    BY <1>5 DEF AddClient, VisitFlagged, historyVars
  <2>2. \A c \in Conns : con'[c].auth => con[c].auth
    BY <2>1 DEF FreshConn
  <2> QED BY <2>1, <2>2, GreetedQuiet
<1>6. CASE HdrRequest
  <2>1. /\ UNCHANGED <<greeted, told>> /\ C \in Conns
        /\ \E q : LET s == ParseHeaders(con[C], q)
                  IN \/ con' = [con EXCEPT ![C] = s]
                     \/ con' = [con EXCEPT ![C] = [s EXCEPT !.buf = TRUE]]
    BY <1>6 DEF HdrRequest, BusyPCs
  <2>2. con[C] \in ConnStruct
    BY <2>1
  <2>3. \A q : ParseHeaders(con[C], q).auth = con[C].auth
    BY <2>2 DEF ParseHeaders, ConnStruct
  <2>4. \A q : [ParseHeaders(con[C], q) EXCEPT !.buf = TRUE].auth = con[C].auth
    BY <2>2 DEF ParseHeaders, ConnStruct
  <2>5. \A c \in Conns : con'[c].auth => con[c].auth
    BY <2>1, <2>3, <2>4
  <2> QED BY <2>1, <2>5, GreetedQuiet
<1>7. CASE Dispatch
  <2>1. told' = told /\ C \in Conns
    BY <1>7 DEF Dispatch, BusyPCs
  <2>2. CASE DispatchPost \/ DispatchCgi \/ DispatchOther
    <3>1. \/ con' = con \/ con' = [con EXCEPT ![C].cgi = TRUE]
          \/ con' = [con EXCEPT ![C].cgi = FALSE]
      BY <2>2 DEF DispatchPost, DispatchCgi, RunCgi, DispatchOther
    <3>2. greeted' = greeted
      BY <2>2 DEF DispatchPost, DispatchCgi, DispatchOther
    <3>3. \A c \in Conns : con'[c].auth = con[c].auth
      BY <2>1, <3>1, KeepsSession DEF Carries
    <3> QED BY <2>1, <3>2, <3>3, GreetedQuiet
  <2>3. CASE DispatchHandshake
    <3>1. CASE UNCHANGED <<con, greeted>>
      BY <2>1, <3>1, GreetedQuiet
    <3>2. CASE con' = [con EXCEPT ![C].auth = TRUE] /\ greeted' = greeted \cup {C}
      <4>1. \A c \in Conns : con'[c].auth = (con[c].auth \/ c = C)
        BY <2>1, <3>2, Writes DEF Becomes
      <4> QED BY <2>1, <3>2, <4>1 DEF GreetedFirst, FrameOnlyAfterHandshake
    <3> QED BY <2>3, <3>1, <3>2 DEF DispatchHandshake
  <2> QED BY <1>7, <2>2, <2>3 DEF Dispatch
<1>8. CASE WsMessage
  <2>1. C \in Conns /\ greeted' = greeted /\ told' = told
    BY <1>8 DEF WsMessage, BusyPCs, historyVars
  <2>2. con' = con \/ con' = [con EXCEPT ![C].flag = TRUE]
    BY <1>8 DEF WsMessage
  <2>3. \A c \in Conns : con'[c].auth = con[c].auth
    BY <2>1, <2>2, KeepsSession DEF Carries
  <2> QED BY <2>1, <2>3 DEF GreetedFirst, FrameOnlyAfterHandshake
<1>9. CASE WsServe
  <2>1. C \in Conns /\ greeted' = greeted /\ con' = con
    BY <1>9 DEF WsServe, BusyPCs
  <2>2. told' \subseteq told \cup {c \in Conns : con[c].auth}
    BY <1>9, <2>1 DEF WsServe, Broadcast, SendsTo
  <2> QED BY <2>1, <2>2 DEF GreetedFirst, FrameOnlyAfterHandshake
<1> QED BY <1>1, <1>2, <1>3, <1>4, <1>5, <1>6, <1>7, <1>8, <1>9 DEF Next, ServerStep

\* No client is sent a frame, an answer or a broadcast, before the handshake's reply.
THEOREM FramesFollowHandshake == Spec => []FrameOnlyAfterHandshake
<1>1. Init => GreetedFirst
  BY DEF Init, GreetedFirst, FrameOnlyAfterHandshake, FreshConn
<1>2. Spec => []TInv
  BY TypeInit, TypeStep, PTL DEF Spec
<1>3. TInv /\ GreetedFirst /\ [Next]_vars => GreetedFirst'
  BY GreetedStep
<1>4. GreetedFirst => FrameOnlyAfterHandshake
  BY DEF GreetedFirst
<1> QED BY <1>1, <1>2, <1>3, <1>4, PTL DEF Spec
-----------------------------------------------------------------------------
(* The CGI handler of a request.                                           *)

ServingPCs == {"hdr", "hdrSleep", "body", "bodySleep", "dispatch"}
ParsedPCs == {"body", "bodySleep", "dispatch"}

\* How often the fallback is going to run a handler that is still set.
StillToRun(d) == IF d.req.method # "UNKNOWN" /\ d.cgi THEN 1 ELSE 0

\* A handler is set only between the dispatch and the end of its request; one that the
\* fallback leaves set belongs to a connection that is not served again.
HandlerSet == \A c \in Conns :
  con[c].cgi => con[c].flag \/ (pc = "fallback" /\ r = "DONE" /\ C = c)

Counted == pc = "fallback" =>
  ran[C] + StillToRun(con[C]) = IF ServedByCgi(con[C]) THEN 1 ELSE 0

CgiInv == /\ HandlerSet
          /\ pc \in ServingPCs => ~con[C].cgi
          /\ pc \in ParsedPCs => ran[C] = 0
          /\ Counted

\* Away from the fallback, a step that stays at its place or serves nobody.
LEMMA CgiQuiet ==
  ASSUME CgiInv, pc # "fallback", pc' \notin ServingPCs \cup {"fallback"},
         \A c \in Conns : con'[c].cgi => con[c].cgi /\ (con[c].flag => con'[c].flag)
  PROVE  CgiInv'
BY DEF CgiInv, HandlerSet, Counted, ParsedPCs, ServingPCs

LEMMA CgiStay ==
  ASSUME CgiInv, UNCHANGED <<pool, cur, con, ran>>, pc # "fallback", pc' # "fallback",
         pc' \in ServingPCs => pc \in ServingPCs,
         pc' \in ParsedPCs => pc \in ParsedPCs
  PROVE  CgiInv'
BY DEF CgiInv, HandlerSet, Counted, C

\* What the handlers do with a request, and what the fallback will do then.
LEMMA CgiDispatch ==
  ASSUME TInv, CgiInv, Dispatch
  PROVE  CgiInv'
<1>1. /\ pc = "dispatch" /\ pc' = "fallback" /\ C \in Conns /\ C' = C
      /\ con \in [Conns -> ConnStruct] /\ con[C] \in ConnStruct
      /\ ran \in [Conns -> Nat] /\ UNCHANGED <<pool, cur>>
  BY Typing DEF Dispatch, At, BusyPCs, C
<1>2. ~con[C].cgi /\ ran[C] = 0
  BY <1>1 DEF CgiInv, ServingPCs, ParsedPCs
<1>3. \A c \in Conns : con[c].cgi => con[c].flag
  BY <1>1 DEF CgiInv, HandlerSet
<1>4. CASE DispatchPost
  <2>1. /\ con' = [con EXCEPT ![C].cgi = TRUE] /\ r' = "DONE" /\ ran' = ran
        /\ con[C].req.method = "POST" /\ con[C].len > 0 /\ con[C].req.cgi
    BY <1>4 DEF DispatchPost
  <2>2. \A c \in Conns : Becomes(con[c], con'[c], con[c].flag, con[c].buf, con[c].cgi \/ c = C,
                                 con[c].auth)
    BY <1>1, <2>1, Writes
  <2>3. HandlerSet'
    BY <1>1, <1>3, <2>1, <2>2 DEF HandlerSet, Becomes
  <2>4. /\ con'[C].cgi /\ con'[C].req.method = "POST" /\ con'[C].len > 0
        /\ con'[C].req.cgi
    BY <1>1, <2>1, <2>2 DEF Becomes
  <2>5. StillToRun(con'[C]) = 1 /\ ServedByCgi(con'[C])
    BY <2>4 DEF StillToRun, ServedByCgi
  <2>6. ran'[C] = 0
    BY <1>2, <2>1
  <2> QED BY <1>1, <2>3, <2>5, <2>6 DEF CgiInv, Counted, ServingPCs, ParsedPCs
<1>5. CASE DispatchCgi
  <2>1. /\ con' = [con EXCEPT ![C].cgi = FALSE] /\ ran' = [ran EXCEPT ![C] = @ + 1]
        /\ con[C].req.cgi
        /\ \/ con[C].req.method = "GET" /\ ~con[C].ws
           \/ con[C].req.method = "PUT" /\ con[C].len > 0
           \/ con[C].req.method = "DELETE"
    BY <1>5 DEF DispatchCgi, RunCgi
  <2>2. \A c \in Conns : Becomes(con[c], con'[c], con[c].flag, con[c].buf, con[c].cgi /\ c # C,
                                 con[c].auth)
    BY <1>1, <2>1, Writes
  <2>3. HandlerSet'
    BY <1>1, <1>3, <2>2 DEF HandlerSet, Becomes
  <2>4. /\ ~con'[C].cgi /\ con'[C].req = con[C].req /\ con'[C].len = con[C].len
        /\ con'[C].ws = con[C].ws
    BY <1>1, <2>2 DEF Becomes
  <2>5. StillToRun(con'[C]) = 0 /\ ServedByCgi(con'[C])
    BY <2>1, <2>4 DEF StillToRun, ServedByCgi
  <2>6. ran'[C] = 1
    BY <1>1, <1>2, <2>1
  <2> QED BY <1>1, <2>3, <2>5, <2>6 DEF CgiInv, Counted, ServingPCs, ParsedPCs
<1>6. CASE DispatchHandshake \/ DispatchOther
  <2>1. ran' = ran /\ (con' = con \/ con' = [con EXCEPT ![C].auth = TRUE])
    BY <1>6 DEF DispatchHandshake, DispatchOther
  <2>2. \A c \in Conns : /\ con'[c].cgi = con[c].cgi /\ con'[c].flag = con[c].flag
                         /\ con'[c].req = con[c].req /\ con'[c].len = con[c].len
                         /\ con'[c].ws = con[c].ws
    <3>1. CASE con' = con
      BY <3>1
    <3>2. CASE con' = [con EXCEPT ![C].auth = TRUE]
      <4>1. \A c \in Conns : Becomes(con[c], con'[c], con[c].flag, con[c].buf, con[c].cgi,
                                     con[c].auth \/ c = C)
        BY <1>1, <3>2, Writes
      <4> QED BY <4>1 DEF Becomes
    <3> QED BY <2>1, <3>1, <3>2
  <2>3. HandlerSet'
    BY <1>3, <2>2 DEF HandlerSet
  <2>4. ~ServedByCgi(con[C])
    BY <1>1, <1>6 DEF DispatchHandshake, DispatchOther, ServedByCgi, ConnStruct
  <2>5. StillToRun(con'[C]) = 0 /\ ~ServedByCgi(con'[C])
    BY <1>1, <1>2, <2>2, <2>4 DEF StillToRun, ServedByCgi
  <2>6. ran'[C] = 0
    BY <1>2, <2>1
  <2> QED BY <1>1, <2>3, <2>5, <2>6 DEF CgiInv, Counted, ServingPCs, ParsedPCs
<1> QED BY <1>4, <1>5, <1>6 DEF Dispatch

\* The fallback runs what is left, once.
LEMMA FallbackCounts ==
  ASSUME TInv, CgiInv, Fallback
  PROVE  /\ CgiInv'
         /\ ran'[C] = IF ServedByCgi(con[C]) THEN 1 ELSE 0
<1>1. /\ pc = "fallback" /\ pc' \in {"visit", "accept"} /\ C \in Conns
      /\ con \in [Conns -> ConnStruct] /\ ran \in [Conns -> Nat]
  BY Typing DEF Fallback, At, BusyPCs, NextSlot
<1>2. ran' = [ran EXCEPT ![C] = IF con[C].req.method # "UNKNOWN" /\ con[C].cgi THEN @ + 1 ELSE @]
  BY DEF Fallback
<1>3. ran'[C] = ran[C] + StillToRun(con[C])
  BY <1>1, <1>2 DEF StillToRun
<1>4. ran'[C] = IF ServedByCgi(con[C]) THEN 1 ELSE 0
  BY <1>1, <1>3 DEF CgiInv, Counted
<1>5. ASSUME NEW c \in Conns, con'[c].cgi PROVE con'[c].flag
  <2>1. con[c].cgi => con[c].flag \/ (r = "DONE" /\ C = c)
    BY <1>1 DEF CgiInv, HandlerSet
  <2>2. CASE r = "DONE"
    <3>1. con' = [con EXCEPT ![C].buf = FALSE, ![C].flag = TRUE]
      BY <2>2 DEF Fallback
    <3>2. Becomes(con[c], con'[c], con[c].flag \/ c = C, con[c].buf /\ c # C, con[c].cgi,
                  con[c].auth)
      BY <1>1, <3>1, Writes
    <3> QED BY <1>5, <2>1, <3>2 DEF Becomes
  <2>3. CASE r # "DONE"
    <3>1. con' = [con EXCEPT ![C].buf = FALSE]
      BY <2>3 DEF Fallback
    <3>2. Becomes(con[c], con'[c], con[c].flag, con[c].buf /\ c # C, con[c].cgi, con[c].auth)
      BY <1>1, <3>1, Writes
    <3> QED BY <1>5, <2>1, <2>3, <3>2 DEF Becomes
  <2> QED BY <2>2, <2>3
<1>6. CgiInv'
  BY <1>1, <1>5 DEF CgiInv, HandlerSet, Counted, ServingPCs, ParsedPCs
<1> QED BY <1>4, <1>6

\* A new request: nothing has run for it, and no handler is set.
LEMMA CgiHdrRequest ==
  ASSUME TInv, CgiInv, HdrRequest
  PROVE  CgiInv'
<1>1. /\ pc = "hdr" /\ C \in Conns /\ con \in [Conns -> ConnStruct] /\ con[C] \in ConnStruct
      /\ ran \in [Conns -> Nat] /\ pool' = pool /\ ran' = [ran EXCEPT ![C] = 0]
  BY Typing DEF HdrRequest, At, BusyPCs
<1>2. ~con[C].cgi /\ \A c \in Conns : con[c].cgi => con[c].flag
  BY <1>1 DEF CgiInv, HandlerSet, ServingPCs
<1>3. PICK q : LET s == ParseHeaders(con[C], q)
               IN \/ con' = [con EXCEPT ![C] = s]
                  \/ con' = [con EXCEPT ![C] = [s EXCEPT !.buf = TRUE]]
  BY DEF HdrRequest
<1>4. LET s == ParseHeaders(con[C], q)
      IN s.cgi = con[C].cgi /\ [s EXCEPT !.buf = TRUE].cgi = con[C].cgi
  BY <1>1 DEF ParseHeaders, ConnStruct
<1>5. ~con'[C].cgi /\ \A c \in Conns : con'[c].cgi => con'[c].flag
  BY <1>1, <1>2, <1>3, <1>4
<1>6. ran'[C] = 0
  BY <1>1
<1>7. \/ pc' \in {"dispatch", "body"} /\ cur' = cur
      \/ pc' \in {"visit", "accept"}
  BY DEF HdrRequest, NextSlot
<1>8. CASE pc' \in {"dispatch", "body"} /\ cur' = cur
  <2>1. C' = C
    BY <1>1, <1>8 DEF C
  <2> QED BY <1>5, <1>6, <1>8, <2>1 DEF CgiInv, HandlerSet, Counted
<1>9. CASE pc' \in {"visit", "accept"}
  BY <1>5, <1>9 DEF CgiInv, HandlerSet, Counted, ServingPCs, ParsedPCs
<1> QED BY <1>7, <1>8, <1>9

LEMMA CgiStep ==
  ASSUME TInv, CgiInv, [Next]_vars
  PROVE  CgiInv'
<1> USE Typing DEF At
<1>1. CASE [DaemonStep \/ ClientStep \/ Halted]_vars
  <2>1. /\ UNCHANGED <<pool, cur, pc, r, ran>>
        /\ \A c \in Conns : /\ con'[c].cgi = con[c].cgi /\ con'[c].req = con[c].req
                            /\ con'[c].ws = con[c].ws /\ con'[c].len = con[c].len
                            /\ con[c].flag => con'[c].flag
    BY <1>1, OthersFlag DEF serverVars, historyVars
  <2>2. C' = C /\ (pc \in BusyPCs => C \in Conns)
    BY <2>1 DEF C
  <2>3. HandlerSet'
    BY <2>1, <2>2 DEF CgiInv, HandlerSet
  <2>4. Counted'
    <3> SUFFICES ASSUME pc = "fallback"
                 PROVE  ran[C] + StillToRun(con'[C]) = IF ServedByCgi(con'[C]) THEN 1 ELSE 0
      BY <2>1, <2>2 DEF Counted
    <3>1. C \in Conns
      BY <2>2 DEF BusyPCs
    <3>2. StillToRun(con'[C]) = StillToRun(con[C])
      BY <2>1, <3>1 DEF StillToRun
    <3>3. ServedByCgi(con'[C]) <=> ServedByCgi(con[C])
      BY <2>1, <3>1 DEF ServedByCgi
    <3> QED BY <3>2, <3>3 DEF CgiInv, Counted
  <2>5. ServingPCs \subseteq BusyPCs
    BY DEF ServingPCs, BusyPCs
  <2> QED BY <2>1, <2>2, <2>3, <2>4, <2>5 DEF CgiInv
<1>2. CASE ServerStart \/ AcceptNone \/ (\E c \in Conns : AcceptOne(c)) \/ AddWait \/ MainLoopWakes
  <2>1. con' = con /\ pc # "fallback" /\ pc' \notin ServingPCs \cup {"fallback"}
    BY <1>2 DEF ServerStart, AcceptNone, AcceptOne, AddWait, MainLoopWakes, BeginSweep, ServingPCs
  <2> QED BY <2>1, CgiQuiet
<1>3. CASE VisitEmpty \/ VisitWebSocket \/ HdrTooLong
  <2>1. con' = con /\ pc # "fallback" /\ pc' \notin ServingPCs \cup {"fallback"}
    BY <1>3 DEF VisitEmpty, VisitWebSocket, HdrTooLong, NextSlot, ServingPCs
  <2> QED BY <2>1, CgiQuiet
<1>4. CASE WsNoFrame \/ WsFrame \/ WsWakes \/ WsNoMemory \/ WsPayloadMissing
  <2>1. con' = con /\ pc # "fallback" /\ pc' \notin ServingPCs \cup {"fallback"}
    BY <1>4 DEF WsNoFrame, WsFrame, WsWakes, WsNoMemory, WsPayloadMissing, NextSlot, ServingPCs
  <2> QED BY <2>1, CgiQuiet
<1>5. CASE SetOptions \/ HdrClientClose \/ BodyClientClose \/ WsPayloadEnd \/ WsMessage \/ WsServe
  <2>1. pc # "fallback" /\ pc' \notin ServingPCs \cup {"fallback"} /\ C \in Conns
    BY <1>5 DEF SetOptions, HdrClientClose, BodyClientClose, WsPayloadEnd, WsMessage, WsServe,
       BeginSweep, NextSlot, BusyPCs, ServingPCs
  <2>2. \/ con' = con \/ con' = [con EXCEPT ![C].flag = TRUE]
        \/ con' = [con EXCEPT ![C].flag = TRUE, ![C].buf = FALSE]
    BY <1>5 DEF SetOptions, HdrClientClose, BodyClientClose, DropBody, WsPayloadEnd, WsMessage,
                WsServe
  <2>3. \A c \in Conns : con'[c].cgi => con[c].cgi /\ (con[c].flag => con'[c].flag)
    BY <2>1, <2>2, Writes DEF Becomes
  <2> QED BY <2>1, <2>3, CgiQuiet
<1>6. CASE (\E j \in Slots : AddClient(j)) \/ VisitFlagged
  <2>1. pc # "fallback" /\ pc' \notin ServingPCs \cup {"fallback"}
    BY <1>6 DEF AddClient, VisitFlagged, NextSlot, ServingPCs
  <2>2. \E x \in Conns : con' = [con EXCEPT ![x] = FreshConn]
    BY <1>6 DEF AddClient, VisitFlagged
  <2>3. \A c \in Conns : con'[c].cgi => con[c].cgi /\ (con[c].flag => con'[c].flag)
    BY <2>2 DEF FreshConn
  <2> QED BY <2>1, <2>3, CgiQuiet
<1>7. CASE VisitHttp
  <2>1. /\ con' = con /\ pool' = pool /\ C # NULL /\ ~con[C].flag /\ pc = "visit"
        /\ \/ pc' = "hdr" /\ cur' = cur
           \/ pc' \in {"visit", "accept"}
    BY <1>7 DEF VisitHttp, NextSlot
  <2>2. CASE pc' = "hdr" /\ cur' = cur
    <3>1. C' = C /\ C \in Conns
      BY <2>1, <2>2 DEF C
    <3> QED BY <2>1, <2>2, <3>1 DEF CgiInv, HandlerSet, Counted, ParsedPCs
  <2>3. CASE pc' \in {"visit", "accept"}
    BY <2>1, <2>3, CgiQuiet DEF ServingPCs
  <2> QED BY <2>1, <2>2, <2>3
<1>8. CASE HdrBytes \/ HdrWait \/ HdrWakes \/ BodyData \/ BodyWait \/ BodyWakes
  <2>1. /\ UNCHANGED <<pool, cur, con, ran>> /\ pc # "fallback" /\ pc' # "fallback"
        /\ pc' \in ServingPCs => pc \in ServingPCs
        /\ pc' \in ParsedPCs => pc \in ParsedPCs
    BY <1>8 DEF HdrBytes, HdrWait, HdrWakes, BodyData, BodyWait, BodyWakes, ServingPCs,
       ParsedPCs, serverVars, historyVars
  <2> QED BY <2>1, CgiStay
<1> QED BY <1>1, <1>2, <1>3, <1>4, <1>5, <1>6, <1>7, <1>8, CgiDispatch, FallbackCounts,
           CgiHdrRequest DEF Next, ServerStep

\* The CGI handler of a request runs exactly once between its header and the end of the
\* fallback if it has one, and never otherwise.
THEOREM CgiRunsOnce == Spec => CgiExactlyOnce
<1> DEFINE Once == pc = "fallback" /\ pc' # "fallback" =>
                     ran'[C] = IF ServedByCgi(con[C]) THEN 1 ELSE 0
<1>1. Init => CgiInv
  BY DEF Init, CgiInv, HandlerSet, Counted, ServingPCs, ParsedPCs, FreshConn
<1>2. Spec => []TInv
  BY TypeInit, TypeStep, PTL DEF Spec
<1>3. TInv /\ CgiInv /\ [Next]_vars => CgiInv'
  BY CgiStep
<1>4. TInv /\ CgiInv /\ [Next]_vars => Once
  <2> SUFFICES ASSUME TInv, CgiInv, [Next]_vars, pc = "fallback", pc' # "fallback"
               PROVE  ran'[C] = IF ServedByCgi(con[C]) THEN 1 ELSE 0
    OBVIOUS
  <2>1. CASE [DaemonStep \/ ClientStep \/ Halted]_vars
    BY <2>1, OthersFlag DEF serverVars
  <2>2. CASE ServerStep
    <3>1. Fallback
      BY <2>2 DEF ServerStep, At, ServerStart, AcceptNone, AcceptOne, AddClient, AddWait,
         SetOptions, MainLoopWakes, VisitEmpty, VisitFlagged, VisitHttp, VisitWebSocket,
         HdrRequest, HdrTooLong, HdrBytes, HdrClientClose, HdrWait, HdrWakes, BodyData,
         BodyClientClose, BodyWait, BodyWakes, Dispatch, WsNoFrame, WsFrame, WsWakes,
         WsNoMemory, WsPayloadMissing, WsPayloadEnd, WsMessage, WsServe
    <3> QED BY <3>1, FallbackCounts
  <2> QED BY <2>1, <2>2 DEF Next
<1> HIDE DEF Once
<1>5. Spec => [][Once]_vars
  BY <1>1, <1>2, <1>3, <1>4, PTL DEF Spec
<1> QED BY <1>5 DEF CgiExactlyOnce, Once
=============================================================================
