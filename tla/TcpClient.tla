----------------------------- MODULE TcpClient -----------------------------
(***************************************************************************)
(* TcpClient on a UnixSocket of the task runner, whose one thread makes    *)
(* every step here. A socket tells its client through tasks that hold a    *)
(* weak pointer to it, and through a watch: when the socket is replaced    *)
(* or reset they do nothing, so posted holds those of socket_ only.        *)
(***************************************************************************)
EXTENDS Naturals, Sequences, SequencesExt, TLAPS

CONSTANTS
  MaxConnects, \* bound: calls of Connect
  MaxChunks    \* bound: chunks of data a peer sends on one connection

VARIABLES
  state,       \* TcpClient::state_
  socket,      \* socket_: none, or UnixSocket::state_
  posted,      \* the tasks of socket_ that wait in the runner's queue
  peer,        \* the connection as the system sees it
  inbound,     \* chunks that wait in the socket
  chunks,      \* history: chunks the peer has sent on this connection
  news,        \* history: what the listener was told on this connection
  connects     \* history: calls of Connect

link  == <<state, socket, posted>>
world == <<peer, inbound, chunks>>
vars  == <<link, world, news, connects>>

State  == {"disconnected", "connecting", "connected", "error"}
Socket == {"none", "disconnected", "connecting", "connected"}
Posted == {"event", "refused", "gone"}
Peer   == {"none", "dialing", "up", "refused", "closed"}

Tell(what) == news' = Append(news, what)
\* OnConnect(false) has called OnError, and OnConnected(false) comes next.
Owing == news # <<>> /\ Last(news) = "error"

-----------------------------------------------------------------------------
(* UnixSocket *)

\* What Shutdown(notify) leaves to run of a socket in state s.
ShutdownPosts(s) ==
  CASE s = "connected" -> <<"gone">> [] s = "connecting" -> <<"refused">> [] OTHER -> <<>>

\* Shutdown(true), after a read or a write failed.
Shutdown_StaysConnected ==
  /\ posted' = posted \o ShutdownPosts(socket)
  /\ UNCHANGED socket
Shutdown ==
  /\ posted' = posted \o ShutdownPosts(socket)
  /\ socket' = "disconnected"

-----------------------------------------------------------------------------
(* The calls of TcpClient's owner, from the runner's tasks or a callback *)

\* DoConnect fails at once or posts an OnEvent. Told of an error, the owner does not
\* connect again before OnConnected(false) has come.
Connect ==
  /\ connects < MaxConnects /\ ~Owing
  /\ state = "disconnected"
  /\ \/ socket' = "disconnected" /\ posted' = <<"refused">> /\ peer' = "refused"
     \/ socket' = "connecting" /\ posted' = <<"event">> /\ peer' = "dialing"
  /\ state' = "connecting" /\ connects' = connects + 1
  /\ inbound' = 0 /\ chunks' = 0 /\ news' = <<>>

Disconnect ==
  /\ socket # "none"
  /\ socket' = "none" /\ posted' = <<>> /\ state' = "disconnected" /\ peer' = "none"
  /\ UNCHANGED <<inbound, chunks, news, connects>>

\* A send that fails; one that succeeds changes nothing here.
SendFails ==
  /\ state = "connected" /\ socket = "connected"
  /\ Shutdown
  /\ UNCHANGED <<state, world, news, connects>>

-----------------------------------------------------------------------------
(* UnixSocket::OnEvent and what it calls. A step is its posted task or its *)
(* watch, which is ready when there is data, or an end of them.            *)

Event(kind) ==
  /\ ~Owing
  /\ \/ posted # <<>> /\ Head(posted) = kind /\ posted' = Tail(posted)
     \/ /\ kind = "event" /\ socket \in {"connecting", "connected"}
        /\ inbound > 0 \/ peer \in {"refused", "closed"}
        /\ UNCHANGED posted

\* TcpClient::OnConnect(false): OnError, after which the owner may call, ...
OnConnectFailed == state' = "error" /\ Tell("error")

\* ... and OnConnected(false).
TellFailure ==
  /\ Owing /\ Tell("failed")
  /\ UNCHANGED <<link, world, connects>>

\* SO_ERROR is zero unless the connect has failed, so also while it goes on.
Established ==
  /\ Event("event") /\ socket = "connecting" /\ peer # "refused"
  /\ socket' = "connected" /\ state' = "connected" /\ Tell("connected")
  /\ UNCHANGED <<world, connects>>

Unreachable ==
  /\ Event("event") /\ socket = "connecting" /\ peer = "refused"
  /\ socket' = "disconnected" /\ OnConnectFailed
  /\ UNCHANGED <<world, connects>>

\* OnDataAvailable reads a chunk, ...
Read ==
  /\ Event("event") /\ socket = "connected" /\ state = "connected" /\ inbound > 0
  /\ inbound' = inbound - 1 /\ Tell("data")
  /\ UNCHANGED <<state, socket, peer, chunks, connects>>

\* ... finds none, ...
ReadNothing ==
  /\ Event("event") /\ socket = "connected" /\ inbound = 0 /\ peer \in {"dialing", "up"}
  /\ UNCHANGED <<state, socket, world, news, connects>>

\* ... or finds the end and shuts the socket; size_t is never below zero.
ReadEnd ==
  /\ ~Owing /\ socket = "connected" /\ state = "connected"
  /\ inbound = 0 /\ peer \in {"refused", "closed"}
  /\ Shutdown
  /\ UNCHANGED <<state, world, news, connects>>

\* An event that was posted before a shutdown.
Spurious ==
  /\ Event("event") /\ socket = "disconnected"
  /\ UNCHANGED <<state, socket, world, news, connects>>

\* NotifyConnectionState(false)
Refused ==
  /\ Event("refused") /\ OnConnectFailed
  /\ UNCHANGED <<socket, world, connects>>

OnDisconnect ==
  /\ Event("gone")
  /\ state' = "disconnected" /\ Tell("disconnected")
  /\ UNCHANGED <<socket, world, connects>>

-----------------------------------------------------------------------------
(* The peer and the network *)

Answer ==
  /\ peer = "dialing" /\ peer' \in {"up", "refused"}
  /\ UNCHANGED <<link, inbound, chunks, news, connects>>

Send ==
  /\ peer = "up" /\ chunks < MaxChunks
  /\ inbound' = inbound + 1 /\ chunks' = chunks + 1
  /\ UNCHANGED <<link, peer, news, connects>>

Hangup ==
  /\ peer = "up" /\ peer' = "closed"
  /\ UNCHANGED <<link, inbound, chunks, news, connects>>

-----------------------------------------------------------------------------

Init ==
  /\ state = "disconnected" /\ socket = "none" /\ posted = <<>>
  /\ peer = "none" /\ inbound = 0 /\ chunks = 0 /\ news = <<>> /\ connects = 0

RunnerStep ==
  \/ TellFailure \/ Established \/ Unreachable \/ Read \/ ReadNothing \/ ReadEnd
  \/ Spurious \/ Refused \/ OnDisconnect

Next ==
  \/ Connect \/ Disconnect \/ SendFails
  \/ RunnerStep
  \/ Answer \/ Send \/ Hangup

Spec == Init /\ [][Next]_vars

\* The runner runs its tasks and serves the watch, and the network answers.
FairSpec == Spec /\ WF_vars(RunnerStep) /\ WF_vars(Answer)

-----------------------------------------------------------------------------
(* Properties *)

TypeOK ==
  /\ state \in State /\ socket \in Socket /\ posted \in Seq(Posted) /\ peer \in Peer
  /\ {inbound, chunks} \subseteq 0..MaxChunks /\ connects \in 0..MaxConnects

PhaseOf ==
  CASE state = "disconnected" -> "idle" [] state = "error" -> "failed"
    [] state = "connected" -> "open" [] OTHER -> "connecting"

T == INSTANCE Transport WITH phase <- PhaseOf

\* What the listener hears is one answer, then data, then one end, and nothing
\* after Disconnect: tasks that a socket posted die with it (task lambdas of
\* Shutdown and DoConnect), and a socket shuts once.
ImplementsTransport == T!Spec

\* A socket that ended, whoever noticed it, is reported: the client does not stay
\* connecting or connected for good.
Reported ==
  (socket = "disconnected" /\ state # "disconnected") ~> (state \in {"disconnected", "error"})

\* "Not connected yet, just a spurious FD watch wakeup": OnConnected(true) comes when
\* the connection is there.
ConnectedMeansUp == news # <<>> /\ Head(news) = "connected" => peer # "dialing"

-----------------------------------------------------------------------------
(* TcpClient implements Transport, for any number of connects and chunks *)

\* What each state of the socket leaves in state_ and in the runner's queue. A task of
\* DoConnect or Shutdown finds the state it was posted in, as nothing but Disconnect,
\* which drops it, moves a client whose socket has been shut.
Attached ==
  \/ socket = "none" /\ state = "disconnected" /\ posted = <<>>
  \/ socket = "connecting" /\ state = "connecting" /\ posted \in {<<>>, <<"event">>}
  \/ socket = "connected" /\ state = "connected" /\ posted \in {<<>>, <<"event">>}
  \/ socket = "disconnected" /\ state = "connecting" /\ posted = <<"refused">>
  \/ socket = "disconnected" /\ state = "connected" /\ posted \in {<<"gone">>, <<"event", "gone">>}
  \/ socket = "disconnected" /\ state = "error" /\ posted \in {<<>>, <<"event">>}
  \/ socket = "disconnected" /\ state = "disconnected" /\ posted = <<>>

\* Attached tells a task by its place in the queue.
LEMMA Ahead ==
  /\ <<"event", "gone">> # <<>> /\ <<"refused">> # <<>> /\ <<"gone">> # <<>> /\ <<"event">> # <<>>
  /\ Head(<<"event">>) = "event" /\ Tail(<<"event">>) = <<>>
  /\ Head(<<"refused">>) = "refused" /\ Tail(<<"refused">>) = <<>>
  /\ Head(<<"gone">>) = "gone" /\ Tail(<<"gone">>) = <<>>
  /\ Head(<<"event", "gone">>) = "event" /\ Tail(<<"event", "gone">>) = <<"gone">>
OBVIOUS

LEMMA Behind ==
  <<>> \o <<"gone">> = <<"gone">> /\ <<"event">> \o <<"gone">> = <<"event", "gone">>
<1>1. <<"event">> \in Seq(Posted) /\ <<"gone">> \in Seq(Posted)
  BY DEF Posted
<1>2. \A s \in Seq(Posted) : <<>> \o s = s
  OBVIOUS
<1>3. \A s \in Seq(Posted) :
        Len(s) = 2 /\ s[1] = "event" /\ s[2] = "gone" => s = <<"event", "gone">>
  OBVIOUS
<1>4. <<"event">> \o <<"gone">> \in Seq(Posted) /\ Len(<<"event">> \o <<"gone">>) = 2
  BY <1>1
<1>5. (<<"event">> \o <<"gone">>)[1] = "event" /\ (<<"event">> \o <<"gone">>)[2] = "gone"
  OBVIOUS
<1> QED BY <1>1, <1>2, <1>3, <1>4, <1>5

LEMMA AttachedStep == Attached /\ [Next]_vars => Attached'
<1> SUFFICES ASSUME Attached, [Next]_vars PROVE Attached'
  OBVIOUS
<1> USE Ahead, Behind DEF Attached
<1>1. CASE Connect \/ Disconnect
  BY <1>1 DEF Connect, Disconnect
<1>2. CASE SendFails \/ ReadEnd
  BY <1>2 DEF SendFails, ReadEnd, Shutdown, ShutdownPosts
<1>3. CASE Established \/ Unreachable \/ Read
  BY <1>3 DEF Established, Unreachable, Read, Event, OnConnectFailed
<1>4. CASE ReadNothing \/ Spurious \/ Refused \/ OnDisconnect
  BY <1>4 DEF ReadNothing, Spurious, Refused, OnDisconnect, Event, OnConnectFailed
<1>5. CASE TellFailure \/ Answer \/ Send \/ Hangup \/ UNCHANGED vars
  BY <1>5 DEF TellFailure, Answer, Send, Hangup, vars, link
<1> QED BY <1>1, <1>2, <1>3, <1>4, <1>5 DEF Next, RunnerStep

\* One answer to a connect, data only while it is open, one end, and nothing after
\* Disconnect, whatever the tasks of the socket and its watch find (tcp_client.cc:16-172).
THEOREM ImplementsTheTransport == Spec => ImplementsTransport
<1>1. Init => Attached /\ T!Init
  BY DEF Init, Attached, T!Init, PhaseOf
<1>2. ASSUME Attached, [Next]_vars PROVE [T!Next]_<<PhaseOf, news>>
  <2> USE <1>2, Ahead, Behind DEF Attached, PhaseOf, T!Next, Tell
  <2>1. CASE Connect
    BY <2>1 DEF Connect, T!Connect, T!Owing, Owing, Last
  <2>2. CASE Disconnect
    BY <2>2 DEF Disconnect, T!Close
  <2>3. CASE SendFails \/ ReadEnd \/ ReadNothing \/ Spurious
    BY <2>3 DEF SendFails, ReadEnd, ReadNothing, Spurious
  <2>4. CASE TellFailure
    BY <2>4 DEF TellFailure, T!TellFailure, T!Owing, Owing, Last, T!Move, link
  <2>5. CASE Established
    BY <2>5 DEF Established, T!Succeed, T!Move
  <2>6. CASE Unreachable
    BY <2>6 DEF Unreachable, OnConnectFailed, T!Fail, T!Move
  <2>7. CASE Refused
    BY <2>7 DEF Refused, Event, OnConnectFailed, T!Fail, T!Move
  <2>8. CASE Read
    BY <2>8 DEF Read, T!Receive, T!Move
  <2>9. CASE OnDisconnect
    BY <2>9 DEF OnDisconnect, Event, T!OnDisconnect, T!Move
  <2>10. CASE Answer \/ Send \/ Hangup \/ UNCHANGED vars
    BY <2>10 DEF Answer, Send, Hangup, vars, link
  <2> QED BY <1>2, <2>1, <2>2, <2>3, <2>4, <2>5, <2>6, <2>7, <2>8, <2>9, <2>10
          DEF Next, RunnerStep
<1> QED BY <1>1, <1>2, AttachedStep, PTL DEF Spec, ImplementsTransport, T!Spec
=============================================================================
