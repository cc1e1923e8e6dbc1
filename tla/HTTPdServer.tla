----------------------------- MODULE HTTPdServer -----------------------------
(***************************************************************************)
(* The HTTP and WebSocket server: the pool of connections, HTTP_Server_Task*)
(* that owns it, the connection timeout callback that the timer daemon     *)
(* runs against the same pool, and remote clients.                         *)
(*                                                                         *)
(* HTTP_Server_Task has priority 3 and the timer daemon priority 2, so     *)
(* what the server does between two calls that may block (a socket call, a *)
(* sleep, a CGI handler) is one step here, while the daemon's callback can *)
(* be interrupted between any two of its statements.                       *)
(*                                                                         *)
(* A connection stands for its TCP connection, the socket descriptor, the  *)
(* heap-allocated HTTPd_WebSocked_Client_Connection and the timer created  *)
(* for it; each is made once per accepted connection.                      *)
(***************************************************************************)
EXTENDS NeonTimer, Integers

CONSTANTS Conns,                \* connections remote clients may open
          NULL,                 \* the null pointer: no connection
          HTTPD_MAX_CLIENTS,    \* number of slots of the pool, 20 in the firmware
          Scripts,              \* what a client may send, in order
          MaxBody,              \* longest body that is buffered, 4096 in the firmware
          ResourcesMayFail      \* whether allocations may fail

ASSUME ConnsAssumption == Timers = Conns /\ NULL \notin Conns
ASSUME ClientsAssumption == HTTPD_MAX_CLIENTS \in Nat \ {0}
ASSUME BodyAssumption == MaxBody \in Nat /\ ResourcesMayFail \in BOOLEAN

Slots == 1..HTTPD_MAX_CLIENTS

Methods == {"GET", "POST", "PUT", "DELETE", "UNKNOWN"}
ConnHeaders == {"absent", "close", "keep-alive", "upgrade"}

\* No Content-Length header.
NoLength == -1

\* A request header.  keepalive is the value of a Keep-Alive header in
\* seconds, length that of Content-Length, cgi tells whether the URL
\* matches a registered CGI handler.
Requests == [kind : {"req"}, method : Methods, connection : ConnHeaders,
             keepalive : Nat, length : Nat \cup {NoLength}, cgi : BOOLEAN]

WsOps == {"text", "ping", "close"}

\* What arrives on a socket: a complete request header, a request body, a
\* run of bytes that fills the command buffer without ending a header, a
\* WebSocket frame header (whose payload may be empty), a frame's payload,
\* the end of the stream, and a reset of the connection.
Plain == [kind : {"body", "long", "payload", "fin", "rst"}]
Frames == [kind : {"frame"}, op : WsOps, empty : BOOLEAN]
Tokens == Requests \cup Plain \cup Frames

ASSUME ScriptsAssumption == Scripts \subseteq Seq(Tokens)

VARIABLES
  \* the connection pool and the connection structures
  pool,     \* HTTPd_WebSocketd_Client_List: slot -> connection or NULL
  con,      \* the fields of each connection structure
  tid,      \* the timer ID given to TimerCreate: slot of the connection
  \* the server task
  pc,       \* the blocking call the server task is at
  cur,      \* i, the slot the sweep is at
  acc,      \* accepted connection that has no slot yet, or NULL
  cmdbuf,   \* whether http_cmd_buf is allocated
  r,        \* result of the request handler
  fr,       \* opcode of the WebSocket frame being received
  \* the timer daemon's callback
  dpc,      \* where the daemon is
  dt,       \* connection_timeout_timer_handle
  dptr,     \* pointer the callback found in the pool
  \* sockets and remote clients
  sock,     \* state of each TCP connection
  script,   \* what each client has not sent yet
  rx,       \* received and not yet read by the server
  pend,     \* a reset that no socket call has reported yet
  \* history
  ran,      \* how often a CGI handler ran for the request being served
  leaked,   \* whether a buffer lost its last reference
  greeted,  \* connections that were sent the 101 reply
  told      \* connections that were sent a WebSocket frame

serverVars == <<pc, cur, acc, cmdbuf, r, fr>>
timerVars == <<tmr, cmdq, lost>>
daemonVars == <<dpc, dt, dptr>>
clientVars == <<sock, script, rx, pend>>
historyVars == <<ran, leaked, greeted, told>>
vars == <<pool, con, tid, serverVars, timerVars, fault, daemonVars,
          clientVars, historyVars>>

PCs == {"start", "accept", "add", "full", "opts", "idle", "visit",
        "hdr", "hdrSleep", "body", "bodySleep", "dispatch", "fallback",
        "ws", "wsPayload", "wsServe", "wsSleep", "dead"}

\* The server task is in NeonRTOS_Sleep, so lower priority tasks run.
Sleeping == {"full", "idle", "hdrSleep", "bodySleep", "wsSleep"}

NoReq == [kind |-> "req", method |-> "UNKNOWN", connection |-> "absent",
          keepalive |-> 0, length |-> NoLength, cgi |-> FALSE]

\* HTTPd_Restore_Variables, and the fields set when the slot is filled.
FreshConn == [flag |-> FALSE, ws |-> FALSE, auth |-> FALSE, cgi |-> FALSE,
              len |-> 0, buf |-> FALSE, req |-> NoReq]

ConnStruct == [flag : BOOLEAN, ws : BOOLEAN, auth : BOOLEAN, cgi : BOOLEAN,
               len : Nat, buf : BOOLEAN, req : Requests]

InPool(c) == \E i \in Slots : pool[i] = c

\* GetNumOfHttpdClient compares the number of used slots with the capacity
\* and with zero; every allocated structure has a socket.
PoolFull == \A i \in Slots : pool[i] # NULL
PoolEmpty == \A i \in Slots : pool[i] = NULL

Init ==
  /\ TimerInit
  /\ pool = [i \in Slots |-> NULL]
  /\ con = [c \in Conns |-> FreshConn]
  /\ tid = [c \in Conns |-> 1]
  /\ pc = "start" /\ cur = 1 /\ acc = NULL /\ cmdbuf = FALSE
  /\ r = "DONE" /\ fr = "text"
  /\ dpc = "timer" /\ dt = NULL /\ dptr = NULL
  /\ sock = [c \in Conns |-> "none"]
  /\ script = [c \in Conns |-> << >>]
  /\ rx = [c \in Conns |-> << >>]
  /\ pend = [c \in Conns |-> FALSE]
  /\ ran = [c \in Conns |-> 0]
  /\ leaked = FALSE /\ greeted = {} /\ told = {}

-----------------------------------------------------------------------------
(* Stepping through the slots of the pool.                                 *)

Running == fault = "none"
At(x) == Running /\ pc = x      \* the server task is at x

C == pool[cur]      \* HTTPd_WebSocketd_Client_List[i]

\* Variant: the sweep's bound is off by one, i <= HTTPD_MAX_CLIENTS.
NextSlotOffByOne ==
  IF cur <= HTTPD_MAX_CLIENTS
  THEN pc' = "visit" /\ cur' = cur + 1
  ELSE pc' = "accept" /\ cur' = 1

NextSlot ==
  IF cur < HTTPD_MAX_CLIENTS
  THEN pc' = "visit" /\ cur' = cur + 1
  ELSE pc' = "accept" /\ cur' = 1

\* GetNumOfHttpdClient()<=0: sleep and try to accept again; else visit slot 0.
BeginSweep ==
  /\ cur' = 1
  /\ pc' = IF PoolEmpty THEN "idle" ELSE "visit"

-----------------------------------------------------------------------------
(* HTTP_Server_Task: the listening socket.                                 *)

\* socket, bind, listen and fcntl; any failure deletes the task.
ServerStart ==
  /\ At("start")
  /\ \/ pc' = "accept"
     \/ ResourcesMayFail /\ pc' = "dead"
  /\ UNCHANGED <<pool, con, tid, cur, acc, cmdbuf, r, fr, timerVars, fault,
                 daemonVars, clientVars, historyVars>>

\* accept on the non-blocking socket returns a connection.
AcceptOne(c) ==
  /\ At("accept")
  /\ sock[c] = "backlog"
  /\ sock' = [sock EXCEPT ![c] = "open"]
  /\ acc' = c
  /\ pc' = "add"
  /\ UNCHANGED <<pool, con, tid, cur, cmdbuf, r, fr, timerVars, fault,
                 daemonVars, script, rx, pend, historyVars>>

\* accept returns -1, SO_ERROR is not negative: the accept loop ends.
AcceptNone ==
  /\ At("accept")
  /\ \/ \A c \in Conns : sock[c] # "backlog"
     \/ ResourcesMayFail
  /\ BeginSweep
  /\ UNCHANGED <<pool, con, tid, acc, cmdbuf, r, fr, timerVars, fault,
                 daemonVars, clientVars, historyVars>>

-----------------------------------------------------------------------------
(* HTTP_Server_Task: a slot for the accepted connection.  The loop retries *)
(* until it has one; a failed allocation is retried at once, with nothing  *)
(* changed, so it is a stuttering step here.                               *)

\* The timer is created with the slot as its ID.  Variant: the last slot.
SetTimerIdLast(c, j) == tid' = [tid EXCEPT ![c] = HTTPD_MAX_CLIENTS]
SetTimerId(c, j) == tid' = [tid EXCEPT ![c] = j]

AddClient(j) ==
  /\ At("add")
  /\ pool[j] = NULL
  /\ \A k \in Slots : k < j => pool[k] # NULL
  /\ pool' = [pool EXCEPT ![j] = acc]
  /\ con' = [con EXCEPT ![acc] = FreshConn]
  /\ TimerCreate(acc)
  /\ SetTimerId(acc, j)
  /\ Post(Stop(acc))
  /\ acc' = NULL
  /\ cur' = j
  /\ pc' = "opts"
  /\ UNCHANGED <<cmdbuf, r, fr, fault, daemonVars, clientVars, historyVars>>

\* "too many clients wait...": NeonRTOS_Sleep(500) and look again.
AddWait ==
  /\ At("add")
  /\ PoolFull
  /\ pc' = "full"
  /\ UNCHANGED <<pool, con, tid, cur, acc, cmdbuf, r, fr, timerVars, fault,
                 daemonVars, clientVars, historyVars>>

\* Variant: the timeout of a new connection is not started.
StartTimeoutLost(c) == UNCHANGED <<cmdq, lost>>
StartTimeout(c) == Post(Start(c))

\* The socket options of the new connection (cur is client_index here).  lwIP
\* refuses them on a connection that was reset: it is flagged and the task
\* goes back to accept.  Otherwise the timeout starts and the sweep begins.
SetOptions ==
  /\ At("opts")
  /\ IF pend[C]
     THEN /\ con' = [con EXCEPT ![C].flag = TRUE]
          /\ pc' = "accept" /\ cur' = 1
          /\ UNCHANGED <<cmdq, lost>>
     ELSE /\ StartTimeout(C)
          /\ BeginSweep
          /\ UNCHANGED con
  /\ UNCHANGED <<pool, tid, acc, cmdbuf, r, fr, tmr, fault, daemonVars,
                 clientVars, historyVars>>

\* The 500 ms sleeps of the main loop end.
MainLoopWakes ==
  /\ \/ At("full") /\ pc' = "add"
     \/ At("idle") /\ pc' = "accept"
  /\ UNCHANGED <<pool, con, tid, cur, acc, cmdbuf, r, fr, timerVars, fault,
                 daemonVars, clientVars, historyVars>>

-----------------------------------------------------------------------------
(* HTTP_Server_Task: the sweep over the pool.                              *)

VisitEmpty ==
  /\ At("visit")
  /\ C = NULL
  /\ NextSlot
  /\ UNCHANGED <<pool, con, tid, acc, cmdbuf, r, fr, timerVars, fault,
                 daemonVars, clientVars, historyVars>>

\* Variants: the timer is only stopped; the socket stays open.
ReleaseTimerStopOnly(c) == Post(Stop(c))
ReleaseTimer(c) == Post2(Stop(c), Delete(c))

CloseSocketForgotten(c) == UNCHANGED sock
CloseSocket(c) == sock' = [sock EXCEPT ![c] = "closed"]

\* A flagged connection: stop and delete its timer, free its buffer and its
\* structure, clear the slot, close the socket.
VisitFlagged ==
  /\ At("visit")
  /\ C # NULL /\ con[C].flag
  /\ ReleaseTimer(C)
  /\ con' = [con EXCEPT ![C] = FreshConn]
  /\ pool' = [pool EXCEPT ![cur] = NULL]
  /\ CloseSocket(C)
  /\ script' = [script EXCEPT ![C] = << >>]
  /\ rx' = [rx EXCEPT ![C] = << >>]
  /\ pend' = [pend EXCEPT ![C] = FALSE]
  /\ NextSlot
  /\ UNCHANGED <<tid, acc, cmdbuf, r, fr, tmr, fault, daemonVars, historyVars>>

VisitHttp ==
  /\ At("visit")
  /\ C # NULL /\ ~con[C].flag /\ ~con[C].ws
  /\ \/ cmdbuf' = TRUE /\ pc' = "hdr" /\ cur' = cur
     \/ ResourcesMayFail /\ NextSlot /\ UNCHANGED cmdbuf
  /\ UNCHANGED <<pool, con, tid, acc, r, fr, timerVars, fault, daemonVars,
                 clientVars, historyVars>>

VisitWebSocket ==
  /\ At("visit")
  /\ C # NULL /\ ~con[C].flag /\ con[C].ws
  /\ pc' = "ws"
  /\ UNCHANGED <<pool, con, tid, cur, acc, cmdbuf, r, fr, timerVars, fault,
                 daemonVars, clientVars, historyVars>>

-----------------------------------------------------------------------------
(* HTTP_Server_Task: the request header, read byte by byte.                *)

WEBSOCKET_TIMEOUT_TIMER_MS == 300000

\* recv returns the next thing in the stream, or finds nothing in its 5 ms.
Reads(c, k) == rx[c] # << >> /\ Head(rx[c]).kind = k
ReadsData(c) == rx[c] # << >> /\ Head(rx[c]).kind # "fin"
ReadsNothing(c) == rx[c] = << >>
Consume(c) == rx' = [rx EXCEPT ![c] = Tail(@)]

\* Content-Length is looked at only when a Connection header is there and
\* does not ask for an upgrade.
HasLength(q) == q.connection \in {"close", "keep-alive"} /\ q.length # NoLength

\* HTTPd_Parse_InMsg_Headers: an unknown method returns before the headers.
ParseHeaders(s, q) ==
  IF q.method = "UNKNOWN"
  THEN [s EXCEPT !.req = q]
  ELSE [s EXCEPT !.req = q,
                 !.ws  = @ \/ q.connection = "upgrade",
                 !.len = IF HasLength(q) THEN q.length ELSE @,
                 !.buf = IF HasLength(q) THEN FALSE ELSE @]

\* Variant: the timer is stopped after the headers were parsed.
HeaderCommandsStopLast(c, q) ==
  \/ /\ q.method # "UNKNOWN" /\ q.connection = "upgrade"
     /\ Post2(ChangePeriod(c, WEBSOCKET_TIMEOUT_TIMER_MS), Stop(c))
  \/ /\ q.method # "UNKNOWN" /\ q.connection = "keep-alive"
     /\ Post2(ChangePeriod(c, q.keepalive * 1000), Stop(c))
  \/ /\ q.method = "UNKNOWN" \/ q.connection \in {"absent", "close"}
     /\ Post(Stop(c))

\* The timer stops when the header is complete; a keep-alive or upgrade header
\* then changes its period, which also starts it.
HeaderCommands(c, q) ==
  \/ /\ q.method # "UNKNOWN" /\ q.connection = "upgrade"
     /\ Post2(Stop(c), ChangePeriod(c, WEBSOCKET_TIMEOUT_TIMER_MS))
  \/ /\ q.method # "UNKNOWN" /\ q.connection = "keep-alive"
     /\ Post2(Stop(c), ChangePeriod(c, q.keepalive * 1000))
  \/ /\ q.method = "UNKNOWN" \/ q.connection \in {"absent", "close"}
     /\ Post(Stop(c))

HdrRequest ==
  /\ At("hdr")
  /\ Reads(C, "req")
  /\ Consume(C)
  /\ LET q == Head(rx[C])
         s == ParseHeaders(con[C], q)
     IN  /\ HeaderCommands(C, q)
         /\ leaked' = (leaked \/ (con[C].buf /\ ~s.buf))
         /\ ran' = [ran EXCEPT ![C] = 0]
         /\ \/ \* no body, or one too large to buffer
               /\ s.len = 0 \/ s.len > MaxBody
               /\ con' = [con EXCEPT ![C] = s]
               /\ pc' = "dispatch"
               /\ UNCHANGED <<cur, cmdbuf>>
            \/ \* data_buff allocated, read the body
               /\ s.len \in 1..MaxBody
               /\ con' = [con EXCEPT ![C] = [s EXCEPT !.buf = TRUE]]
               /\ pc' = "body"
               /\ UNCHANGED <<cur, cmdbuf>>
            \/ \* no memory for data_buff: the request is dropped, not the client
               /\ s.len \in 1..MaxBody
               /\ ResourcesMayFail
               /\ con' = [con EXCEPT ![C] = s]
               /\ cmdbuf' = FALSE
               /\ NextSlot
  /\ UNCHANGED <<pool, tid, acc, r, fr, tmr, fault, daemonVars, sock, script,
                 pend, greeted, told>>

\* The request is over: http_cmd_buf is freed.  Variant: not when the
\* handler asks for MORE.
EndRequestUnlessMore == cmdbuf' = (r = "MORE")
EndRequest == cmdbuf' = FALSE

\* recv reports the end of the stream, or it failed and the connection was
\* timed out or SO_ERROR reports the reset: client_close.
ClientClose(c) ==
  \/ Reads(c, "fin") /\ Consume(c) /\ UNCHANGED pend
  \/ /\ ReadsNothing(c) /\ (con[c].flag \/ pend[c])
     /\ pend' = [pend EXCEPT ![c] = FALSE]
     /\ UNCHANGED rx

\* The buffer is full and holds no end of header: its content is dropped.
HdrTooLong ==
  /\ At("hdr")
  /\ Reads(C, "long")
  /\ Consume(C)
  /\ EndRequest
  /\ NextSlot
  /\ UNCHANGED <<pool, con, tid, acc, r, fr, timerVars, fault, daemonVars,
                 sock, script, pend, historyVars>>

\* Other bytes join the header being read.
HdrBytes ==
  /\ At("hdr")
  /\ ReadsData(C) /\ Head(rx[C]).kind \notin {"req", "long"}
  /\ Consume(C)
  /\ UNCHANGED <<pool, con, tid, serverVars, timerVars, fault, daemonVars,
                 sock, script, pend, historyVars>>

HdrClientClose ==
  /\ At("hdr")
  /\ ClientClose(C)
  /\ EndRequest
  /\ con' = [con EXCEPT ![C].flag = TRUE]
  /\ NextSlot
  /\ UNCHANGED <<pool, tid, acc, r, fr, timerVars, fault, daemonVars, sock,
                 script, historyVars>>

\* recv failed and SO_ERROR is 0 (a timeout, or a reset that recv itself has
\* taken from the socket): NeonRTOS_Sleep(100), then recv again.
HdrWait ==
  /\ At("hdr")
  /\ ReadsNothing(C) /\ ~con[C].flag
  /\ pend' = [pend EXCEPT ![C] = FALSE]
  /\ pc' = "hdrSleep"
  /\ UNCHANGED <<pool, con, tid, cur, acc, cmdbuf, r, fr, timerVars, fault,
                 daemonVars, sock, script, rx, historyVars>>

HdrWakes ==
  /\ At("hdrSleep")
  /\ pc' = "hdr"
  /\ UNCHANGED <<pool, con, tid, cur, acc, cmdbuf, r, fr, timerVars, fault,
                 daemonVars, clientVars, historyVars>>

-----------------------------------------------------------------------------
(* HTTP_Server_Task: the request body.  recv is asked for data_len bytes,  *)
(* so one piece of data stands for the whole body.                         *)

BodyData ==
  /\ At("body")
  /\ ReadsData(C)
  /\ Consume(C)
  /\ pc' = "dispatch"
  /\ UNCHANGED <<pool, con, tid, cur, acc, cmdbuf, r, fr, timerVars, fault,
                 daemonVars, sock, script, pend, historyVars>>

\* Variant: data_buff is not freed.
DropBodyKept(c) == con' = [con EXCEPT ![c].flag = TRUE]
DropBody(c) == con' = [con EXCEPT ![c].flag = TRUE, ![c].buf = FALSE]

BodyClientClose ==
  /\ At("body")
  /\ ClientClose(C)
  /\ EndRequest
  /\ DropBody(C)
  /\ NextSlot
  /\ UNCHANGED <<pool, tid, acc, r, fr, timerVars, fault, daemonVars, sock,
                 script, historyVars>>

BodyWait ==
  /\ At("body")
  /\ ReadsNothing(C) /\ ~con[C].flag
  /\ pend' = [pend EXCEPT ![C] = FALSE]
  /\ pc' = "bodySleep"
  /\ UNCHANGED <<pool, con, tid, cur, acc, cmdbuf, r, fr, timerVars, fault,
                 daemonVars, sock, script, rx, historyVars>>

BodyWakes ==
  /\ At("bodySleep")
  /\ pc' = "body"
  /\ UNCHANGED <<pool, con, tid, cur, acc, cmdbuf, r, fr, timerVars, fault,
                 daemonVars, clientVars, historyVars>>

-----------------------------------------------------------------------------
(* HTTP_Server_Task: the request handlers.                                 *)

\* HTTPd_Process_POST_Request is reached only with a body; it finds the CGI
\* handler, but its setsockopt passes an option length of 0 (the result of
\* sizeof(..) < 0), fails, and returns before the handler runs.
DispatchPost ==
  /\ con[C].req.method = "POST" /\ con[C].len > 0 /\ con[C].req.cgi
  /\ con' = [con EXCEPT ![C].cgi = TRUE]
  /\ r' = "DONE"
  /\ UNCHANGED <<ran, greeted>>

\* A handler is called and forgotten.  Variant: it stays set.
RunCgiKept(c) ==
  ran' = [ran EXCEPT ![c] = @ + 1] /\ con' = [con EXCEPT ![c].cgi = TRUE]
RunCgi(c) ==
  ran' = [ran EXCEPT ![c] = @ + 1] /\ con' = [con EXCEPT ![c].cgi = FALSE]

\* The GET, PUT (with a body) and DELETE handlers run the CGI handler they
\* find and forget it.
DispatchCgi ==
  /\ \/ con[C].req.method = "GET" /\ ~con[C].ws
     \/ con[C].req.method = "PUT" /\ con[C].len > 0
     \/ con[C].req.method = "DELETE"
  /\ con[C].req.cgi
  /\ RunCgi(C)
  /\ r' = "DONE"
  /\ UNCHANGED greeted

\* The WebSocket handshake of HTTPd_Process_GET_Request.
DispatchHandshake ==
  /\ con[C].req.method = "GET" /\ con[C].ws
  /\ \/ /\ con' = [con EXCEPT ![C].auth = TRUE]
        /\ greeted' = greeted \cup {C}
        /\ r' = "MORE"
     \/ ResourcesMayFail /\ r' = "DONE" /\ UNCHANGED <<con, greeted>>
  /\ UNCHANGED ran

\* A file, a 404 page, or, for an unknown method and for a POST or PUT
\* without a body, nothing at all.
DispatchOther ==
  /\ \/ con[C].req.method = "UNKNOWN"
     \/ con[C].req.method \in {"POST", "PUT"} /\ con[C].len = 0
     \/ con[C].req.method # "UNKNOWN" /\ ~con[C].req.cgi /\ ~(con[C].req.method = "GET" /\ con[C].ws)
  /\ r' = "DONE"
  /\ UNCHANGED <<con, ran, greeted>>

Dispatch ==
  /\ At("dispatch")
  /\ DispatchPost \/ DispatchCgi \/ DispatchHandshake \/ DispatchOther
  /\ pc' = "fallback"
  /\ UNCHANGED <<pool, tid, cur, acc, cmdbuf, fr, timerVars, fault,
                 daemonVars, clientVars, leaked, told>>

\* A CGI handler that is still set runs now; the buffers are freed; unless
\* the connection became a WebSocket its timer stops and it is flagged.
Fallback ==
  /\ At("fallback")
  /\ ran' = [ran EXCEPT ![C] =
               IF con[C].req.method # "UNKNOWN" /\ con[C].cgi THEN @ + 1 ELSE @]
  /\ EndRequest
  /\ IF r = "DONE"
     THEN /\ Post(Stop(C))
          /\ con' = [con EXCEPT ![C].buf = FALSE, ![C].flag = TRUE]
     ELSE /\ con' = [con EXCEPT ![C].buf = FALSE]
          /\ UNCHANGED <<cmdq, lost>>
  /\ NextSlot
  /\ UNCHANGED <<pool, tid, acc, r, fr, tmr, fault, daemonVars, clientVars,
                 leaked, greeted, told>>

-----------------------------------------------------------------------------
(* HTTP_Server_Task: WebSocket connections.                                *)

\* WebSocketServer_ReceiveWsFrame fails (the connection is flagged, or there
\* is nothing to read, or the rest of a frame header has not arrived: what
\* was read of it is gone), or the frame has no payload, or recv returned 0
\* and the frame structure, never filled in, happens to hold a zero length.
WsNoFrame ==
  /\ At("ws")
  /\ \/ con[C].flag /\ UNCHANGED <<rx, pend>>
     \/ /\ ~con[C].flag /\ ReadsNothing(C)
        /\ pend' = [pend EXCEPT ![C] = FALSE]
        /\ UNCHANGED rx
     \/ /\ ~con[C].flag /\ rx[C] # << >>
        /\ \/ Head(rx[C]).kind # "frame"
           \/ Head(rx[C]).kind = "frame" /\ (Head(rx[C]).empty \/ Tail(rx[C]) = << >>)
        /\ Consume(C)
        /\ UNCHANGED pend
  /\ pc' = "wsSleep"
  /\ UNCHANGED <<pool, con, tid, cur, acc, cmdbuf, r, fr, timerVars, fault,
                 daemonVars, sock, script, historyVars>>

\* A frame header; bytes that are not one, and the unfilled structure after
\* recv returned 0, are taken for a frame with any opcode.
WsFrame ==
  /\ At("ws")
  /\ ~con[C].flag /\ rx[C] # << >>
  /\ \/ Head(rx[C]).kind # "frame" /\ fr' \in WsOps
     \/ Head(rx[C]).kind = "frame" /\ ~Head(rx[C]).empty /\ fr' = Head(rx[C]).op
  /\ Consume(C)
  /\ pc' = "wsPayload"
  /\ UNCHANGED <<pool, con, tid, cur, acc, cmdbuf, r, timerVars, fault,
                 daemonVars, sock, script, pend, historyVars>>

WsWakes ==
  /\ At("wsSleep")
  /\ NextSlot
  /\ UNCHANGED <<pool, con, tid, acc, cmdbuf, r, fr, timerVars, fault,
                 daemonVars, clientVars, historyVars>>

\* No memory for the payload: the next connection's turn.
WsNoMemory ==
  /\ At("wsPayload")
  /\ ResourcesMayFail
  /\ NextSlot
  /\ UNCHANGED <<pool, con, tid, acc, cmdbuf, r, fr, timerVars, fault,
                 daemonVars, clientVars, historyVars>>

\* recv of the payload fails with no SO_ERROR: break leaves the sweep.
WsPayloadMissing ==
  /\ At("wsPayload")
  /\ ReadsNothing(C)
  /\ pend' = [pend EXCEPT ![C] = FALSE]
  /\ pc' = "accept" /\ cur' = 1
  /\ UNCHANGED <<pool, con, tid, acc, cmdbuf, r, fr, timerVars, fault,
                 daemonVars, sock, script, rx, historyVars>>

WsPayloadEnd ==
  /\ At("wsPayload")
  /\ Reads(C, "fin")
  /\ Consume(C)
  /\ con' = [con EXCEPT ![C].flag = TRUE]
  /\ NextSlot
  /\ UNCHANGED <<pool, tid, acc, cmdbuf, r, fr, timerVars, fault, daemonVars,
                 sock, script, pend, historyVars>>

\* Variant: without the test of websocket_auth.
SendsToUnanswered(c) == con[c].ws

\* HTTPd_WebsocketServer_Send_Message sends only to connections that are
\* WebSocket clients and have been answered.
SendsTo(c) == con[c].ws /\ con[c].auth

\* HTTPd_WebsocketServer_Send_Brocast_Message.
Broadcast == {c \in Conns : InPool(c) /\ SendsTo(c)}

\* The payload is there: the timer stops; a close frame flags the connection,
\* any other frame is served.
WsMessage ==
  /\ At("wsPayload")
  /\ ReadsData(C)
  /\ Consume(C)
  /\ Post(Stop(C))
  /\ \/ /\ fr = "close"
        /\ con' = [con EXCEPT ![C].flag = TRUE]
        /\ NextSlot
     \/ /\ fr # "close"
        /\ pc' = "wsServe"
        /\ UNCHANGED <<con, cur>>
  /\ UNCHANGED <<pool, tid, acc, cmdbuf, r, fr, tmr, fault, daemonVars, sock,
                 script, pend, historyVars>>

\* A ping is answered; any other frame goes to the application, which may answer
\* it and may broadcast.  The sends may block.  Then the timer restarts.
WsServe ==
  /\ At("wsServe")
  /\ \/ told' = told \cup {c \in {C} : SendsTo(c)}
     \/ fr = "text" /\ told' = told \cup Broadcast
  /\ Post(ReStart(C))
  /\ NextSlot
  /\ UNCHANGED <<pool, con, tid, acc, cmdbuf, r, fr, tmr, fault, daemonVars,
                 clientVars, ran, leaked, greeted>>

-----------------------------------------------------------------------------
(* The timer daemon task.  Its loop handles an expired timer, if there is  *)
(* one, and then empties the command queue.                                *)

AfterCallback(q) == IF q = << >> THEN "timer" ELSE "drain"

DaemonCommand ==
  /\ Running /\ dpc \in {"timer", "drain"}
  /\ ProcessCommand
  /\ dpc' = AfterCallback(Tail(cmdq))
  /\ UNCHANGED <<pool, con, tid, serverVars, dt, dptr, clientVars, historyVars>>

\* A timer expires (it reloads itself): HTTPd_Connection_Timeout_CB posts a
\* stop command and takes the slot from the timer's ID.
TimeoutCB_Begin(t) ==
  /\ Running /\ dpc = "timer"
  /\ tmr[t] = "active"
  /\ Post(Stop(t))
  /\ dt' = t
  /\ dpc' = "check"
  /\ UNCHANGED <<pool, con, tid, serverVars, tmr, fault, dptr, clientVars,
                 historyVars>>

\* if(HTTPd_WebSocketd_Client_List[TimerID]).  Variant: inverted.
SlotFree(t) == pool[tid[t]] = NULL
SlotTaken(t) == pool[tid[t]] # NULL

\* The callback looks into the pool; for an empty slot it deletes the timer.
TimeoutCB_Check ==
  /\ Running /\ dpc = "check"
  /\ IF SlotTaken(dt)
     THEN /\ dptr' = pool[tid[dt]]
          /\ dpc' = "write"
          /\ UNCHANGED <<cmdq, lost, dt>>
     ELSE /\ Post(Delete(dt))
          /\ dpc' = AfterCallback(cmdq')
          /\ dt' = NULL
          /\ UNCHANGED dptr
  /\ UNCHANGED <<pool, con, tid, serverVars, tmr, fault, clientVars, historyVars>>

\* The callback sets connection_destruct_flag.  The pool is not volatile: the
\* compiled code uses the pointer it tested or loads it again.  A connection
\* that is no longer in the pool has been freed.
TimeoutCB_Write ==
  /\ Running /\ dpc = "write"
  /\ \E p \in {dptr, pool[tid[dt]]} :
       IF p # NULL /\ InPool(p)
       THEN con' = [con EXCEPT ![p].flag = TRUE] /\ UNCHANGED fault
       ELSE fault' = "dangling_conn" /\ UNCHANGED con
  /\ dpc' = AfterCallback(cmdq)
  /\ dt' = NULL /\ dptr' = NULL
  /\ UNCHANGED <<pool, tid, serverVars, timerVars, clientVars, historyVars>>

-----------------------------------------------------------------------------
(* Remote clients.                                                         *)

Connect(c) ==
  /\ Running /\ sock[c] = "none"
  /\ sock' = [sock EXCEPT ![c] = "backlog"]
  /\ \E s \in Scripts : script' = [script EXCEPT ![c] = s]
  /\ UNCHANGED <<pool, con, tid, serverVars, timerVars, fault, daemonVars, rx,
                 pend, historyVars>>

Send(c) ==
  /\ Running /\ sock[c] \in {"backlog", "open"}
  /\ script[c] # << >>
  /\ script' = [script EXCEPT ![c] = Tail(@)]
  /\ IF Head(script[c]).kind = "rst"
     THEN pend' = [pend EXCEPT ![c] = TRUE] /\ UNCHANGED rx
     ELSE rx' = [rx EXCEPT ![c] = Append(@, Head(script[c]))] /\ UNCHANGED pend
  /\ UNCHANGED <<pool, con, tid, serverVars, timerVars, fault, daemonVars, sock,
                 historyVars>>

-----------------------------------------------------------------------------
ServerStep ==
  \/ ServerStart \/ AcceptNone \/ (\E c \in Conns : AcceptOne(c))
  \/ (\E j \in Slots : AddClient(j)) \/ AddWait \/ SetOptions \/ MainLoopWakes
  \/ VisitEmpty \/ VisitFlagged \/ VisitHttp \/ VisitWebSocket
  \/ HdrRequest \/ HdrTooLong \/ HdrBytes \/ HdrClientClose \/ HdrWait \/ HdrWakes
  \/ BodyData \/ BodyClientClose \/ BodyWait \/ BodyWakes
  \/ Dispatch \/ Fallback
  \/ WsNoFrame \/ WsFrame \/ WsWakes \/ WsNoMemory \/ WsPayloadMissing
  \/ WsPayloadEnd \/ WsMessage \/ WsServe

DaemonStep ==
  \/ DaemonCommand
  \/ \E t \in Conns : TimeoutCB_Begin(t)
  \/ TimeoutCB_Check \/ TimeoutCB_Write

ClientStep == \E c \in Conns : Connect(c) \/ Send(c)

\* After a fault, or when the task deleted itself, nothing more happens.
Halted == (~Running \/ pc = "dead") /\ UNCHANGED vars

Next == ServerStep \/ DaemonStep \/ ClientStep \/ Halted

Spec == Init /\ [][Next]_vars

-----------------------------------------------------------------------------
(* Properties.                                                             *)

\* Type invariant: every variable of HTTP_Server_Task, of the pool, of the
\* timer service and of the clients holds a value of its C type.
TypeOK ==
  /\ TimerTypeOK
  /\ pool \in [Slots -> Conns \cup {NULL}]
  /\ con \in [Conns -> ConnStruct]
  /\ tid \in [Conns -> Slots]
  /\ pc \in PCs /\ cur \in Slots /\ acc \in Conns \cup {NULL}
  /\ cmdbuf \in BOOLEAN /\ r \in {"DONE", "MORE"} /\ fr \in WsOps
  /\ dpc \in {"timer", "drain", "check", "write"}
  /\ dt \in Conns \cup {NULL} /\ dptr \in Conns \cup {NULL}
  /\ sock \in [Conns -> {"none", "backlog", "open", "closed"}]
  /\ script \in [Conns -> Seq(Tokens)]
  /\ rx \in [Conns -> Seq(Tokens)]
  /\ pend \in [Conns -> BOOLEAN]
  /\ ran \in [Conns -> Nat]
  /\ leaked \in BOOLEAN
  /\ greeted \in SUBSET Conns /\ told \in SUBSET Conns

\* No socket leaks and none is shared: an accepted connection that has not been
\* closed is held by exactly one slot of the pool, or is the one the server
\* task is looking for a slot for.
SocketOwnership ==
  /\ \A c \in Conns : sock[c] = "open" <=> (c = acc \/ InPool(c))
  /\ \A i, j \in Slots : pool[i] = pool[j] /\ pool[i] # NULL => i = j
  /\ \A i \in Slots : pool[i] # NULL => pool[i] # acc

RequestPCs == {"hdr", "hdrSleep", "body", "bodySleep", "dispatch", "fallback"}
BodyPCs == {"body", "bodySleep", "dispatch", "fallback"}

\* No buffer leaks on any of the early exits of the sweep: http_cmd_buf is held
\* exactly while a request is read and served, data_buff only by the connection
\* being served, from its allocation to the end of the request.
BuffersOwned ==
  /\ cmdbuf <=> pc \in RequestPCs
  /\ \A c \in Conns : con[c].buf => pc \in BodyPCs /\ C = c
  /\ ~leaked

HasCommand(c, ops) ==
  \E k \in DOMAIN cmdq : cmdq[k].timer = c /\ cmdq[k].op \in ops

\* The timer of a connection that is in the pool is never deleted and has no
\* delete command under way, although the callback deletes timers on its own:
\* it does so only for a slot it saw empty.
LiveTimerKept ==
  \A c \in Conns : InPool(c) =>
    tmr[c] \in {"dormant", "active"} /\ ~HasCommand(c, {"delete"})

\* The timer of a closed connection is freed, or its delete command is under
\* way, or was refused by the full command queue (nothing repeats it).
TimersReclaimed ==
  \A c \in Conns : sock[c] = "closed" =>
    tmr[c] = "freed" \/ HasCommand(c, {"delete"}) \/ Delete(c) \in lost

LastCommandStarts(c) ==
  \E k \in DOMAIN cmdq :
    /\ cmdq[k].timer = c /\ cmdq[k].op \in {"start", "change"}
    /\ \A l \in DOMAIN cmdq : l > k => cmdq[l].timer # c

\* The timeout of c is certain: its timer runs and no command is about to stop
\* it, or the last command under way starts it, or the callback is running.
Armed(c) ==
  \/ tmr[c] = "active" /\ ~HasCommand(c, Ops)
  \/ LastCommandStarts(c)
  \/ dpc \in {"check", "write"} /\ dt = c

StartRefused(c) == \E m \in lost : m.timer = c /\ m.op \in {"start", "change"}

\* No request of this client was read: both fields are as the slot was filled.
NoRequestYet(c) == con[c].req = NoReq /\ con[c].len = 0

\* The server waits for this client's first request, or it is a WebSocket client
\* no frame of which is being served.
AwaitsClient(c) ==
  /\ InPool(c) /\ ~con[c].flag
  /\ NoRequestYet(c) \/ con[c].auth
  /\ ~(pc \in {"opts", "wsServe"} /\ C = c)

\* A connection the server waits on without limit has its watch-out timer
\* armed, whatever the order in which commands, expiries and the server's steps
\* interleave, unless the full queue refused to start it.
WatchoutArmed ==
  fault = "none" =>
    \A c \in Conns : AwaitsClient(c) /\ pc \notin {"dispatch", "fallback"} =>
      Armed(c) \/ StartRefused(c)

\* A timeout that finds its connection alive flags this connection and changes
\* nothing else, although the server may fill, free and refill slots between the
\* expiry, the callback's test of the slot and its write.
TimeoutFlagsLiveConnection ==
  [][dpc = "write" /\ dpc' # "write" /\ InPool(dt) =>
       con' = [con EXCEPT ![dt].flag = TRUE] /\ fault' = fault]_vars

\* Which requests a CGI handler must serve.
ServedByCgi(s) ==
  /\ s.req.cgi
  /\ CASE s.req.method = "GET" -> ~s.ws
       [] s.req.method \in {"POST", "PUT"} -> s.len > 0
       [] s.req.method = "DELETE" -> TRUE
       [] OTHER -> FALSE

\* Between the dispatch and the fallback that runs a handler left over, the CGI
\* handler of a request runs exactly once when the request has one, never for
\* the others.
CgiExactlyOnce ==
  [][pc = "fallback" /\ pc' # "fallback" =>
       ran'[C] = IF ServedByCgi(con[C]) THEN 1 ELSE 0]_vars

\* No WebSocket frame, answer or broadcast, is sent to a client that was not
\* sent the 101 reply of the handshake first.
FrameOnlyAfterHandshake == told \subseteq greeted

-----------------------------------------------------------------------------
(* The server implements the life cycle of connections.                    *)

lifeOf == [c \in Conns |->
             CASE sock[c] \in {"none", "backlog"} -> "outside"
               [] sock[c] = "open" /\ c = acc -> "waiting"
               [] sock[c] = "open" /\ c # acc -> "served"
               [] sock[c] = "closed" -> "closed"]
placeOf == [c \in Conns |-> IF sock[c] = "open" /\ c # acc THEN tid[c] ELSE 0]

Abstract == INSTANCE ConnLifecycle
              WITH life <- lifeOf, place <- placeOf, Capacity <- HTTPD_MAX_CLIENTS

\* The server task implements ConnLifecycle: every connection is accepted,
\* given a slot of its own and closed, in this order and once, whatever the
\* timer callback and the clients do meanwhile.
ImplementsLifecycle == Abstract!Spec

-----------------------------------------------------------------------------
(* Liveness.  The server task has the highest priority of the three, so it *)
(* takes its steps.  The daemon runs when the server sleeps: it executes   *)
(* its pending work, and an active timer expires, since a script is finite *)
(* and commands cannot restart it for ever.  Clients owe nothing.          *)

Asleep == pc \in Sleeping

Fairness ==
  /\ WF_vars(ServerStep)
  /\ SF_vars(Asleep /\ (DaemonCommand \/ TimeoutCB_Check \/ TimeoutCB_Write))
  /\ \A t \in Conns : SF_vars(Asleep /\ TimeoutCB_Begin(t))

FairSpec == Spec /\ Fairness

\* Every client that connects is accepted and its connection is closed in the
\* end, even if it never sends anything more: "socket timeout".
EveryConnectionEnds ==
  \A c \in Conns : sock[c] = "backlog" ~> (sock[c] = "closed" \/ ~Running)

\* A client told to wait because the pool is full ("too many clients wait...")
\* gets a slot in the end.
WaitingClientGetsSlot ==
  pc = "full" ~> (acc = NULL \/ ~Running)

\* "use timer ID to identify client connection": the timeout callback flags
\* only the connection whose timer expired.
TimeoutHitsOwnConnection ==
  [][\A c \in Conns :
       dpc = "write" /\ dpc' # "write" /\ ~con[c].flag /\ con'[c].flag => c = dt]_vars
=============================================================================
