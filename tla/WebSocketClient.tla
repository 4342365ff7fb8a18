-------------------------- MODULE WebSocketClient --------------------------
(***************************************************************************)
(* WebSocketClient on one task runner: the handshake, frames and fragments *)
(* as they arrive, cut anywhere, the closing handshake, errors and         *)
(* automatic reconnects. The listener may call back from its callbacks.    *)
(* The connection behaves as Transport says; each Connect makes a new one. *)
(* A server follows a script; each item of it arrives in two halves.       *)
(***************************************************************************)
EXTENDS Naturals, Sequences

CONSTANTS
  Uses,          \* [auto |-> auto_reconnect_, scripts |-> what servers send, legal
                 \*  |-> as the protocol says, within |-> they may hang up within an item,
                 \*  calls |-> what the application calls, nested |-> and in callbacks]
  MaxReconnects  \* bound: reconnects that wait, before a call or a refusal adds one

VARIABLES
  use,           \* the application and its servers, one of Uses
  state,         \* state_
  phase,         \* transport_: Transport's phase
  handshaken,    \* handshake_completed_
  buffer,        \* receive_buffer_: halves of items
  fragmented,    \* receiving_fragmented_
  message,       \* fragmented_message_: the items it is made of
  closeSent,     \* close_sent_
  reconnects,    \* tasks of ScheduleReconnect in the runner
  inCallback,    \* the listener was called and has not returned
  todo,          \* what the runner's task does after that, the first thing first
  script,        \* what the server of this connection sends: kinds of items
  arrived,       \* halves of it that have arrived
  told,          \* history: the callbacks of this connection
  stale,         \* history: close_sent_ was set when this connection began
  closes         \* history: close frames sent on this connection

frames == <<handshaken, buffer, fragmented, message>>
server == <<use, script, arrived>>
past   == <<told, stale, closes>>
vars   == <<state, phase, frames, closeSent, reconnects, inCallback, todo, server, past>>

State == {"disconnected", "connecting", "handshaking", "connected", "closing", "closed", "error"}
Kind  == {"ok", "bad", "text", "start", "more", "end", "ping", "close", "masked", "odd", "junk"}

Half(k) == [kind |-> script[(k + 1) \div 2], item |-> (k + 1) \div 2, last |-> k % 2 = 0]
Junk    == [kind |-> "junk", item |-> 0, last |-> FALSE]

-----------------------------------------------------------------------------
(* Callbacks, and what follows them *)

Told(what, of) == [what |-> what, of |-> of]

\* The listener is called; then the task goes on with next.
Call(what, of, next) ==
  told' = Append(told, Told(what, of)) /\ inCallback' = TRUE /\ todo' = next

Continue(next) == todo' = next /\ UNCHANGED <<told, inCallback>>

HandleError(next) == state' = "error" /\ Call("error", <<>>, <<"failed">> \o next)

Return ==
  /\ inCallback /\ inCallback' = FALSE
  /\ UNCHANGED <<state, phase, frames, closeSent, reconnects, todo, server, past>>

Idle == ~inCallback /\ todo = <<>>
Due(what) == ~inCallback /\ todo # <<>> /\ Head(todo) = what

ScheduleReconnect ==
  phase' = "idle" /\ state' = "closed" /\ reconnects' = reconnects + 1

\* The end of HandleError, ...
AfterError ==
  /\ Due("failed") /\ Continue(Tail(todo))
  /\ IF use.auto /\ state = "error" THEN ScheduleReconnect
     ELSE UNCHANGED <<state, phase, reconnects>>
  /\ UNCHANGED <<frames, closeSent, server, stale, closes>>

\* ... and of OnDisconnected.
AfterLoss ==
  /\ Due("lost") /\ Continue(Tail(todo))
  /\ IF use.auto THEN ScheduleReconnect ELSE UNCHANGED <<state, phase, reconnects>>
  /\ UNCHANGED <<frames, closeSent, server, stale, closes>>

-----------------------------------------------------------------------------
(* The calls of the application *)

May(call) == (Idle /\ call \in use.calls) \/ (inCallback /\ call \in use.nested)

CanConnect_NotClosed == state \in {"disconnected", "error"}
CanConnect == state \in {"disconnected", "closed", "error"}

\* A new transport replaces the old one, whose tasks die with it. The buffer, the
\* fragments and close_sent_ stay as the last connection left them; what the
\* first two hold matters no more, and is one piece.
StartConnecting ==
  /\ CanConnect
  /\ state' = "connecting" /\ phase' = "connecting" /\ handshaken' = FALSE
  /\ buffer' = IF buffer = <<>> THEN <<>> ELSE <<Junk>>
  /\ message' = IF message = <<>> THEN <<>> ELSE <<0>>
  /\ script' \in use.scripts /\ arrived' = 0 /\ told' = <<>>
  /\ stale' = closeSent /\ closes' = 0
  /\ UNCHANGED <<fragmented, closeSent, inCallback, todo, use>>

Connect ==
  Idle /\ reconnects + 1 < MaxReconnects /\ StartConnecting /\ UNCHANGED reconnects

\* The task of ScheduleReconnect, whatever has happened since.
Reconnect ==
  /\ Idle /\ reconnects > 0 /\ reconnects' = reconnects - 1
  /\ \/ StartConnecting
     \/ /\ ~CanConnect
        /\ UNCHANGED <<state, phase, frames, closeSent, inCallback, todo, server, past>>

Closes == ~closeSent /\ state = "connected"
CountClose == closes' = IF Closes THEN closes + 1 ELSE closes

SendClose ==
  /\ May("close") /\ Closes /\ CountClose
  /\ closeSent' = TRUE /\ state' = "closing"
  /\ UNCHANGED <<phase, frames, reconnects, inCallback, todo, server, told, stale>>

Disconnect ==
  /\ May("disconnect") /\ state # "disconnected" /\ CountClose
  /\ closeSent' = (closeSent \/ Closes)
  /\ phase' = "idle" /\ state' = "disconnected"
  /\ UNCHANGED <<frames, reconnects, inCallback, todo, server, told, stale>>

-----------------------------------------------------------------------------
(* The transport's callbacks *)

\* OnConnected(true): the upgrade request is sent, or that fails.
OnConnected ==
  /\ Idle /\ phase = "connecting" /\ state = "connecting"
  /\ phase' = "open"
  /\ \/ state' = "handshaking" /\ Continue(<<>>)
     \/ HandleError(<<>>)
  /\ UNCHANGED <<frames, closeSent, reconnects, server, stale, closes>>

\* OnError of a failed connect, ...
OnError ==
  /\ Idle /\ phase = "connecting" /\ reconnects + 2 <= MaxReconnects
  /\ phase' = "failed"
  /\ HandleError(<<"refused">>)
  /\ UNCHANGED <<frames, closeSent, reconnects, server, stale, closes>>

\* ... which OnConnected(false) follows.
OnConnectFailed ==
  /\ Due("refused")
  /\ HandleError(Tail(todo))
  /\ UNCHANGED <<phase, frames, closeSent, reconnects, server, stale, closes>>

\* Any number of halves arrive together.
OnDataReceived ==
  /\ Idle /\ phase = "open"
  /\ \E n \in 1..(2 * Len(script) - arrived) :
       /\ arrived' = arrived + n
       /\ buffer' = buffer \o [k \in 1..n |-> Half(arrived + k)]
  /\ Continue(IF handshaken THEN <<"frames">> ELSE <<"handshake">>)
  /\ UNCHANGED <<use, state, phase, handshaken, fragmented, message, closeSent, reconnects,
                 script, stale, closes>>

OnDisconnected ==
  /\ Idle /\ phase = "open" /\ (use.within \/ arrived % 2 = 0)
  /\ phase' = "idle"
  /\ \/ state # "closed" /\ state' = "disconnected" /\ Call("closed", <<>>, <<"lost">>)
     \/ state = "closed" /\ UNCHANGED state /\ Continue(<<>>)
  /\ UNCHANGED <<frames, closeSent, reconnects, server, stale, closes>>

-----------------------------------------------------------------------------
(* ProcessHandshakeResponse. What an earlier connection left comes before the  *)
(* response and spoils its first line, or only the version in it.              *)

HeaderEnds == {k \in DOMAIN buffer : buffer[k].kind \in {"ok", "bad"} /\ buffer[k].last}

AwaitHeader ==
  /\ Due("handshake") /\ HeaderEnds = {}
  /\ Continue(<<>>)
  /\ UNCHANGED <<state, phase, frames, closeSent, reconnects, server, stale, closes>>

\* The buffer without its first k halves.
Rest_AtHeader(k) == IF handshaken THEN SubSeq(buffer, k + 1, Len(buffer)) ELSE <<>>
Rest(k) == SubSeq(buffer, k + 1, Len(buffer))

Accept ==
  /\ Due("handshake")
  /\ \E k \in HeaderEnds :
       /\ buffer[k].kind = "ok" /\ buffer' = Rest(k)
       /\ handshaken' = TRUE /\ state' = "connected"
       /\ Call("connected", <<>>, <<"frames">>)
  /\ UNCHANGED <<phase, fragmented, message, closeSent, reconnects, server, stale, closes>>

Reject ==
  /\ Due("handshake")
  /\ \E k \in HeaderEnds :
       /\ buffer[k].kind = "bad" \/ buffer[1] = Junk
       /\ buffer' = Rest(k)
       /\ HandleError(<<>>)
  /\ UNCHANGED <<phase, handshaken, fragmented, message, closeSent, reconnects, server, stale, closes>>

-----------------------------------------------------------------------------
(* ProcessWebSocketFrames *)

Complete == Len(buffer) >= 2
Frame(kind) == Due("frames") /\ Complete /\ buffer[1].kind = kind
Erased == buffer' = Rest(2)
Item == buffer[1].item

AwaitFrame ==
  /\ Due("frames") /\ ~Complete
  /\ Continue(<<>>)
  /\ UNCHANGED <<state, phase, frames, closeSent, reconnects, server, stale, closes>>

\* A masked or an oversized frame ends the loop and stays in the buffer.
Masked ==
  /\ Frame("masked") /\ HandleError(<<>>)
  /\ UNCHANGED <<phase, frames, closeSent, reconnects, server, stale, closes>>

\* A frame that does not fit: the loop goes on after the error.
Misplaced ==
  /\ \/ Frame("odd")
     \/ fragmented /\ (Frame("text") \/ Frame("start"))
     \/ ~fragmented /\ (Frame("more") \/ Frame("end"))
  /\ Erased /\ HandleError(todo)
  /\ UNCHANGED <<phase, handshaken, fragmented, message, closeSent, reconnects, server, stale, closes>>

Whole ==
  /\ Frame("text") /\ ~fragmented
  /\ Erased /\ Call("message", <<Item>>, todo)
  /\ UNCHANGED <<state, phase, handshaken, fragmented, message, closeSent, reconnects, server,
                 stale, closes>>

Fragment ==
  /\ \/ Frame("start") /\ ~fragmented /\ message' = <<Item>>
     \/ Frame("more") /\ fragmented /\ message' = Append(message, Item)
  /\ fragmented' = TRUE /\ Erased /\ Continue(todo)
  /\ UNCHANGED <<state, phase, handshaken, closeSent, reconnects, server, stale, closes>>

LastFragment ==
  /\ Frame("end") /\ fragmented
  /\ fragmented' = FALSE /\ message' = <<>>
  /\ Erased /\ Call("message", Append(message, Item), todo)
  /\ UNCHANGED <<state, phase, handshaken, closeSent, reconnects, server, stale, closes>>

\* Answered with a pong, which changes nothing here; so does a pong.
Ping ==
  /\ Frame("ping")
  /\ Erased /\ Call("ping", <<>>, todo)
  /\ UNCHANGED <<state, phase, handshaken, fragmented, message, closeSent, reconnects, server,
                 stale, closes>>

CloseFrame ==
  /\ Frame("close") /\ CountClose
  /\ closeSent' = (closeSent \/ Closes)
  /\ state' = "closed" /\ Erased /\ Call("closed", <<Item>>, todo)
  /\ UNCHANGED <<phase, handshaken, fragmented, message, reconnects, server, stale>>

-----------------------------------------------------------------------------

Init ==
  /\ use \in Uses /\ state = "disconnected" /\ phase = "idle"
  /\ handshaken = FALSE /\ buffer = <<>> /\ fragmented = FALSE /\ message = <<>>
  /\ closeSent = FALSE /\ reconnects = 0 /\ inCallback = FALSE /\ todo = <<>>
  /\ script = <<>> /\ arrived = 0 /\ told = <<>> /\ closes = 0
  /\ stale = FALSE

\* What the runner does in a task it has begun.
TaskStep ==
  \/ Return \/ AfterError \/ AfterLoss \/ OnConnectFailed
  \/ AwaitHeader \/ Accept \/ Reject
  \/ AwaitFrame \/ Masked \/ Misplaced \/ Whole \/ Fragment \/ LastFragment \/ Ping \/ CloseFrame

Next ==
  \/ Connect \/ SendClose \/ Disconnect
  \/ OnConnected \/ OnError \/ OnDataReceived \/ OnDisconnected
  \/ Reconnect \/ TaskStep

Spec == Init /\ [][Next]_vars

\* Servers that serve a client again and again: from time to time a retry finds one
\* that speaks the protocol, which takes the connection and answers at once.
Speaks   == script # <<>> /\ script[1] = "ok"
Retries  == Reconnect /\ CanConnect /\ Speaks'
Serves   == OnConnected /\ Speaks /\ state' = "handshaking"
Responds == OnDataReceived /\ Speaks /\ arrived = 0 /\ arrived' > 1

\* Nothing bounds the handshake, so a server has to finish its response or hang up.
Responding == ~handshaken /\ (OnDataReceived \/ OnDisconnected)

\* The runner goes on with its tasks, and transports answer.
FairSpec ==
  /\ Spec /\ WF_vars(TaskStep) /\ WF_vars(Reconnect) /\ WF_vars(OnConnected \/ OnError)
  /\ WF_vars(Responding)
  /\ SF_vars(Retries) /\ SF_vars(Serves) /\ SF_vars(Responds)

-----------------------------------------------------------------------------
(* Properties *)

TypeOK ==
  /\ use \in Uses /\ state \in State /\ phase \in {"idle", "connecting", "failed", "open"}
  /\ \A k \in DOMAIN buffer : buffer[k].kind \in Kind
  /\ {handshaken, fragmented, closeSent, inCallback} \subseteq BOOLEAN
  /\ reconnects \in Nat /\ arrived \in 0..(2 * Len(script))

\* A message ends with a whole text or a last fragment, ...
Ends(n) == {i \in 1..n : script[i] \in {"text", "end"}}
\* ... and has the fragments since its first.
Since(i) ==
  {j \in 1..i : script[j] \in {"start", "more", "end"} /\ \A k \in (j + 1)..i : script[k] # "start"}
PartsOf(i) == IF script[i] = "text" THEN {i} ELSE Since(i)

Lists(items, S) ==
  /\ {items[k] : k \in DOMAIN items} = S
  /\ \A k, l \in DOMAIN items : k < l => items[k] < items[l]

Tells(what) == {i \in DOMAIN told : told[i].what = what}
Failed      == Tells("error") # {}
Ender(i)    == told[i].of[Len(told[i].of)]

\* The listener has the messages in the first n items: the items of each, in order.
Heard(n) ==
  /\ {Ender(i) : i \in Tells("message")} = Ends(n)
  /\ \A i \in Tells("message") : Lists(told[i].of, PartsOf(Ender(i)))
  /\ \A i, j \in Tells("message") : i < j => Ender(i) < Ender(j)

\* However frames and fragments are cut and joined by the network, with pings among
\* them: the listener has the messages of the whole items that arrived, each
\* once and in order, as long as it was told of no error.
MessagesDelivered ==
  use.legal /\ ~Failed /\ handshaken =>
    IF Idle THEN Heard(arrived \div 2) ELSE \E n \in 0..(arrived \div 2) : Heard(n)

\* A connection is announced once, then messages, then its end once.
LifeOfConnection ==
  /\ \A what \in {"connected", "closed"} : \A i, j \in Tells(what) : i = j
  /\ \A i \in Tells("message") :
       (\A j \in Tells("connected") : j < i) /\ (\A j \in Tells("closed") : i < j)

Answered == \E i \in Tells("closed") : told[i].of # <<>>

\* "Echo the close frame back": the server's close frame is answered, unless the
\* client had sent one.
EchoesClose == Answered => closes = 1

\* At most one close frame is sent on a connection, and the echo is one, unless
\* an error came before it or close_sent_ is left over from an earlier connection.
ClosesOnce == closes <= 1 /\ (stale \/ Failed \/ EchoesClose)

Conversation == TypeOK /\ MessagesDelivered /\ LifeOfConnection /\ ClosesOnce

\* "auto-reconnect": while the application does not end it, a client that lost its
\* connection or could not get one has one again.
Reconnects ==
  (use.auto /\ use.calls = {} /\ reconnects > 0) ~> (state = "connected")
=============================================================================
