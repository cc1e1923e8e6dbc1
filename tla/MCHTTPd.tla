------------------------------- MODULE MCHTTPd -------------------------------
(***************************************************************************)
(* Instances of HTTPdServer for TLC: the requests and the client scripts   *)
(* the configurations choose from.                                         *)
(***************************************************************************)
EXTENDS HTTPdServer, TLC

CONSTANTS c1, c2, c3

Symmetry == Permutations(Conns)

Req(m, h, k, l, g) == [kind |-> "req", method |-> m, connection |-> h,
                       keepalive |-> k, length |-> l, cgi |-> g]

Get == Req("GET", "absent", 5, NoLength, TRUE)
GetFile == Req("GET", "keep-alive", 5, NoLength, FALSE)
PostClose == Req("POST", "close", 5, 1, TRUE)
PostKeep == Req("POST", "keep-alive", 5, 1, TRUE)
PostLarge == Req("POST", "close", 5, 2, TRUE)
PostEmpty == Req("POST", "close", 5, NoLength, TRUE)
PostZero == Req("POST", "keep-alive", 5, 0, TRUE)
PostUpgrade == Req("POST", "upgrade", 5, NoLength, TRUE)
Put == Req("PUT", "keep-alive", 5, 1, TRUE)
Del == Req("DELETE", "absent", 5, NoLength, TRUE)
\* The only request that looks like none: an unknown method ends the parsing.
Bad == Req("UNKNOWN", "absent", 0, NoLength, FALSE)
Upgrade == Req("GET", "upgrade", 5, NoLength, FALSE)

Body == [kind |-> "body"]
Long == [kind |-> "long"]
Payload == [kind |-> "payload"]
Fin == [kind |-> "fin"]
Rst == [kind |-> "rst"]
Frame(op) == [kind |-> "frame", op |-> op, empty |-> FALSE]
EmptyFrame == [kind |-> "frame", op |-> "close", empty |-> TRUE]

\* Clients that are idle or reset the connection, a request with a body, WebSocket
\* clients, and one that asks for an upgrade and is refused the handshake.
HttpScripts == { << >>, <<GetFile, Rst>>, <<PostKeep, Body>>, <<Upgrade, Frame("text"), Payload>>,
                 <<PostUpgrade>> }
\* Every handler and every kind of frame, complete and broken.
SessionScripts == { <<Get>>, <<GetFile, Rst>>, <<PostKeep, Body>>, <<PostClose, Fin>>,
                    <<PostLarge, Body>>, <<PostEmpty>>, <<PostUpgrade>>, <<Put, Body>>,
                    <<PostKeep, PostZero>>,
                    <<Del>>, <<Bad>>, <<PostKeep, Bad>>, <<Long, Get>>, <<Body, Fin>>,
                    <<Upgrade, Frame("text"), Payload>>, <<Upgrade, Frame("ping"), Payload>>,
                    <<Upgrade, Frame("close"), Payload>>, <<Upgrade, EmptyFrame, Fin>>,
                    <<Upgrade, Frame("text"), Fin>> }
\* Requests that leave the timer running while the server waits, and idle clients.
LiveScripts == { << >>, <<PostKeep, Body>>, <<Upgrade>> }
\* A body that may not come after "Connection: close".
StallScripts == { <<PostClose, Body>> }
WsIdleScripts == { <<Upgrade>> }
GetScripts == { <<Get>> }
=============================================================================
