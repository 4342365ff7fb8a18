----------------------------- MODULE HttpServer -----------------------------
(***************************************************************************)
(* HttpServer: connections whose bytes are gathered in a buffer each and   *)
(* parsed as HTTP requests or, after an upgrade, as WebSocket frames. The  *)
(* task runner's one thread makes every step but the peers'. A length is a *)
(* number of units; a head and a frame's header are in whole units.        *)
(***************************************************************************)
EXTENDS Naturals, Sequences, FiniteSetsExt

CONSTANTS
  Conns,      \* connections that peers make
  NoConn,
  Streams,    \* what a peer may send, a sequence of messages
  MaxRequest, \* max_request_size(), the size of rxbuf
  FilesShrink, \* a file may lose bytes while it is streamed
  Slack       \* the 4096 bytes of it that are not payload

\* A request, well formed or not, its Connection header, whether it asks for an
\* upgrade; or a WebSocket frame.
Requests == [kind : {"request", "options", "malformed"}, connection : {"none", "keep", "close"},
             handshake : BOOLEAN, head : Nat, body : Nat]
Frames == [kind : {"data", "ping", "close", "other", "unmasked"}, head : {1}, body : Nat]

VARIABLES
  clients,   \* clients_, the HttpServerConnection of each
  peers,     \* what each peer sends, how many units of it, whether it has not closed
  front,     \* the message at the start of each rxbuf
  busy,      \* the connection OnDataAvailable is at
  stopping,  \* is_stopping_
  heard      \* history: requests and frames the handler got, responses that were made

vars == <<clients, peers, front, busy, stopping, heard>>

\* Whether it is in clients_; sock's state; whether sock has an OnDisconnect posted;
\* ... and, as history, whether an XTILS_CHECK failed.
Connection == [listed : BOOLEAN, connected : BOOLEAN, posted : BOOLEAN,
               used : 0..MaxRequest, keepalive : BOOLEAN, websocket : BOOLEAN,
               headersSent : BOOLEAN, aborted : BOOLEAN]

Size(m) == m.head + m.body
Stream(c) == peers[c].stream
IsFrame(m) == m.kind \in {"data", "ping", "close", "other", "unmasked"}
Consumed(c) == MapThenSumSet(LAMBDA k : Size(Stream(c)[k]), 1..(front[c] - 1))
Total(c) == MapThenSumSet(LAMBDA k : Size(Stream(c)[k]), DOMAIN Stream(c))
Waiting(c) == peers[c].sent - Consumed(c) - clients[c].used

-----------------------------------------------------------------------------
(* HttpServerConnection, as functions of the connection x *)

\* UnixSocket::Shutdown(true)
Close(x) == IF x.connected THEN [x EXCEPT !.connected = FALSE, !.posted = TRUE] ELSE x

\* sock->Send fails, if at all, because the peer has closed.
Sent(c, x) == IF peers[c].open THEN {x} ELSE {x, Close(x)}

\* SendResponseHeaders and what it XTILS_CHECKs, with SendResponseBody.
SendHeaders(c, x) ==
  Sent(c, [x EXCEPT !.headersSent = TRUE, !.aborted = @ \/ x.headersSent \/ x.websocket])

SendResponse(c, x, forceClose) ==
  LET y == [x EXCEPT !.keepalive = @ /\ ~forceClose]
  IN {IF y.keepalive THEN z ELSE Close(z) : z \in SendHeaders(c, y)}

\* HttpRouterResponse::Send of a file. When SendFileStreaming returns false because the
\* file became shorter than the Content-Length it has sent, SendError follows.
SendFile(c, x) ==
  LET streamed == SendResponse(c, x, FALSE)
  IN streamed \cup (IF FilesShrink THEN UNION {SendResponse(c, y, FALSE) : y \in streamed}
                                   ELSE {})

\* The handshake is refused or answered; Connection: Upgrade has cleared keepalive_.
UpgradeToWebsocket(c, x) ==
  SendResponse(c, x, TRUE) \cup {[y EXCEPT !.websocket = TRUE] : y \in SendHeaders(c, x)}

Hears(c, what) == heard' = [heard EXCEPT ![c] = Append(@, what)]
Refuse(c) ==
  /\ \E x \in SendResponse(c, clients[c], TRUE) : clients' = [clients EXCEPT ![c] = x]
  /\ busy' = NoConn
  /\ UNCHANGED <<peers, front, stopping, heard>>

-----------------------------------------------------------------------------
(* UnixSocket's callbacks and Stop *)

OnNewIncomingConnection(c) ==
  /\ busy = NoConn /\ ~stopping /\ ~clients[c].listed /\ ~peers[c].met
  /\ clients' = [clients EXCEPT ![c].listed = TRUE, ![c].connected = TRUE]
  /\ peers' = [peers EXCEPT ![c].met = TRUE]
  /\ UNCHANGED <<front, busy, stopping, heard>>

OnDisconnect(c) ==
  /\ busy = NoConn /\ clients[c].listed /\ clients[c].posted
  /\ clients' = [clients EXCEPT ![c].listed = FALSE, ![c].posted = FALSE]
  /\ Hears(c, "closed")
  /\ UNCHANGED <<peers, front, busy, stopping>>

Stop ==
  /\ busy = NoConn /\ ~stopping /\ stopping' = TRUE
  /\ clients' = [c \in Conns |-> [clients[c] EXCEPT !.listed = FALSE, !.connected = FALSE,
                                                    !.posted = FALSE]]
  /\ heard' = [c \in Conns |-> IF clients[c].listed THEN Append(heard[c], "closed")
                                                    ELSE heard[c]]
  /\ UNCHANGED <<peers, front, busy>>

\* The watch of a connected socket is ready.
Ready(c) ==
  /\ busy = NoConn /\ clients[c].listed /\ clients[c].connected
  /\ Waiting(c) > 0 \/ ~peers[c].open

\* The buffer is full and what is in it was no request.
OnDataAvailable_Full(c) == Ready(c) /\ clients[c].used = MaxRequest /\ Refuse(c)

\* It reads until it would block, the buffer is full or the peer has closed.
OnDataAvailable(c) ==
  /\ Ready(c) /\ clients[c].used < MaxRequest
  /\ LET room == MaxRequest - clients[c].used
         x == [clients[c] EXCEPT !.used = @ + (IF Waiting(c) < room THEN Waiting(c) ELSE room)]
     IN clients' = [clients EXCEPT ![c] =
                      IF Waiting(c) < room /\ ~peers[c].open THEN Close(x) ELSE x]
  /\ busy' = c
  /\ UNCHANGED <<peers, front, stopping, heard>>

-----------------------------------------------------------------------------
(* The parsing loop of OnDataAvailable; a step is one ParseOne... *)

Message(c) == Stream(c)[front[c]]
Has(c, units) == clients[c].used > 0 /\ clients[c].used >= units

\* The message is consumed and the loop goes on.
Consume(c, x) ==
  /\ clients' = [clients EXCEPT ![c] = [x EXCEPT !.used = @ - Size(Message(c))]]
  /\ front' = [front EXCEPT ![c] = @ + 1]
  /\ UNCHANGED <<peers, busy, stopping>>

TooLarge(m) ==
  \/ m.head + m.body >= MaxRequest
  \/ m.body > MaxRequest - Slack

\* What makes ParseOneHttpRequest refuse what is there of the message.
BadRequest(c) ==
  LET m == Message(c)
  IN \/ Has(c, 1) /\ (m.kind = "malformed" \/ IsFrame(m))
     \/ Has(c, m.head) /\ TooLarge(m)

\* The Connection header, if there is one, of the request x is at.
WithKeepalive(x, m) ==
  IF m.connection = "none" THEN x ELSE [x EXCEPT !.keepalive = m.connection = "keep"]

\* What OnHttpRequest may do: respond, stream a file, upgrade, close, or nothing.
OnHttpRequest(c, x, m) ==
  SendResponse(c, x, FALSE) \cup SendResponse(c, x, TRUE) \cup SendFile(c, x)
  \cup (IF m.handshake THEN UpgradeToWebsocket(c, x) ELSE {})
  \cup {Close(x), x}

\* "The handler is expected to send a response. If not, bail with a HTTP 500."
Bail(c, x) == IF x.headersSent THEN {x} ELSE SendResponse(c, x, TRUE)
Answered(c, x, m) ==
  UNION {Bail(c, y) : y \in IF m.kind = "options" THEN SendResponse(c, x, TRUE)
                                                  ELSE OnHttpRequest(c, x, m)}

\* headers_sent_ is for the next request.
ParseOneHttpRequest(c) ==
  /\ ~clients[c].websocket /\ ~BadRequest(c) /\ Has(c, Size(Message(c)))
  /\ \E x \in Answered(c, WithKeepalive(clients[c], Message(c)), Message(c)) :
       /\ Consume(c, [x EXCEPT !.headersSent = FALSE])
       /\ Hears(c, IF x.headersSent THEN "answered" ELSE "request")

Rejected_AnyLength(c) ==
  LET m == Message(c) IN Has(c, 1) /\ (~IsFrame(m) \/ m.kind = "unmasked")
\* Bytes of a request read as a frame have no mask.
Rejected(c) ==
  LET m == Message(c)
  IN Has(c, 1) /\ (~IsFrame(m) \/ m.kind = "unmasked" \/ m.body >= MaxRequest - Slack)

RejectFrame(c) ==
  /\ clients[c].websocket /\ Rejected(c)
  /\ clients' = [clients EXCEPT ![c] = Close(@)]
  /\ busy' = NoConn
  /\ UNCHANGED <<peers, front, stopping, heard>>

ParseOneWebsocketFrame(c) ==
  /\ clients[c].websocket /\ ~Rejected(c) /\ Has(c, Size(Message(c)))
  /\ CASE Message(c).kind = "ping"  -> \E x \in Sent(c, clients[c]) : Consume(c, x)
       [] Message(c).kind = "close" -> Consume(c, Close(clients[c]))
       [] Message(c).kind = "other" -> Consume(c, clients[c])
       [] Message(c).kind = "data"  -> \* the handler may send frames, or close
            \E x \in Sent(c, clients[c]) \cup {Close(clients[c])} : Consume(c, x)
  /\ IF Message(c).kind = "data" THEN Hears(c, "frame") ELSE UNCHANGED heard

\* There is not all of the message.
AwaitMore(c) ==
  /\ front[c] <= Len(Stream(c)) =>
       /\ ~Has(c, Size(Message(c)))
       /\ ~(IF clients[c].websocket THEN Rejected(c) ELSE BadRequest(c))
  /\ busy' = NoConn
  /\ UNCHANGED <<clients, peers, front, stopping, heard>>

ParseStep(c) ==
  /\ busy = c
  /\ \/ AwaitMore(c)
     \/ /\ front[c] <= Len(Stream(c))
        /\ \/ ~clients[c].websocket /\ BadRequest(c) /\ Refuse(c)
           \/ ParseOneHttpRequest(c) \/ RejectFrame(c) \/ ParseOneWebsocketFrame(c)

-----------------------------------------------------------------------------
(* The peers *)

Send(c) ==
  /\ peers[c].met /\ peers[c].open /\ clients[c].connected /\ peers[c].sent < Total(c)
  /\ peers' = [peers EXCEPT ![c].sent = @ + 1]
  /\ UNCHANGED <<clients, front, busy, stopping, heard>>

Hangup(c) ==
  /\ peers[c].met /\ peers[c].open
  /\ peers' = [peers EXCEPT ![c].open = FALSE]
  /\ UNCHANGED <<clients, front, busy, stopping, heard>>

-----------------------------------------------------------------------------

Init ==
  /\ clients = [c \in Conns |-> [listed |-> FALSE, connected |-> FALSE, posted |-> FALSE,
                                 used |-> 0, keepalive |-> TRUE, websocket |-> FALSE,
                                 headersSent |-> FALSE, aborted |-> FALSE]]
  /\ peers \in [Conns -> [stream : Streams, sent : {0}, open : {TRUE}, met : {FALSE}]]
  /\ front = [c \in Conns |-> 1] /\ busy = NoConn /\ stopping = FALSE
  /\ heard = [c \in Conns |-> <<>>]

Serve(c) ==
  OnNewIncomingConnection(c) \/ OnDisconnect(c) \/ OnDataAvailable_Full(c)
  \/ OnDataAvailable(c) \/ ParseStep(c)

Next == Stop \/ \E c \in Conns : Serve(c) \/ Send(c) \/ Hangup(c)

Spec == Init /\ [][Next]_vars

\* The runner serves every watch and task.
FairSpec == Spec /\ \A c \in Conns : WF_vars(Serve(c))
-----------------------------------------------------------------------------
(* Properties *)

TypeOK ==
  /\ clients \in [Conns -> Connection] /\ busy \in Conns \cup {NoConn}
  /\ peers \in [Conns -> [stream : Seq(Requests \cup Frames), sent : Nat, open : BOOLEAN,
                       met : BOOLEAN]]
  /\ front \in [Conns -> Nat \ {0}] /\ stopping \in BOOLEAN
  /\ heard \in [Conns -> Seq({"answered", "request", "frame", "closed"})]

\* "XTILS_CHECK(!headers_sent_); XTILS_CHECK(!is_websocket_)": no request has two
\* responses, and no HTTP response goes to a WebSocket, the 413 of a full buffer
\* least of all: a frame that would fill it is rejected by its header.
ChecksHold == \A c \in Conns : ~clients[c].aborted

\* "The handler is expected to send a response. If not, bail with a HTTP 500": what
\* the handler is given gets one response; it hears once that a connection closed, and
\* nothing of it after.
Told ==
  \A c \in Conns :
    /\ \A i \in DOMAIN heard[c] : /\ heard[c][i] # "request"
                                  /\ heard[c][i] = "closed" => i = Len(heard[c])
    /\ clients[c].listed = (peers[c].met /\ (heard[c] = <<>> \/ heard[c][Len(heard[c])] # "closed"))

Safe == TypeOK /\ ChecksHold /\ Told

\* A peer that hangs up is noticed, whatever is left in its buffer, and a request that
\* is all there is given to the handler or refused.
HungUp(c) == clients[c].listed /\ ~peers[c].open
Complete(c) == clients[c].listed /\ peers[c].sent = Total(c)
Handled(c) == front[c] > Len(Stream(c)) \/ ~clients[c].connected
Noticed ==
  \A c \in Conns : /\ HungUp(c) ~> ~clients[c].listed
                   /\ Complete(c) ~> Handled(c)
=============================================================================
