------------------------------- MODULE MCIpc --------------------------------
\* A small client and a small server, a stream with files below them, and a UDP server
\* with a client. Each is checked against any peer, so a behaviour exercises one of Parts
\* and the others rest: IpcServer shows what IpcClient takes from its peer, one answer for a
\* request at most.
EXTENDS IpcClient, Sequences, TLC
CONSTANTS
  Parts,
  Conns, Messages, SentBy, KindOf, MaxStarts, MaxNotify, MaxCuts, AcceptMayFail, \* of IpcServer
  Peers, Lengths, MaxPacket, Timeout, Habits, MaxOpens, MaxSent, MaxTime, MaxQueue, \* of Udp
  Loads, Uses, Room, Asked, \* of SocketStream
  s, a, c1, c2, q, u, host

OnlyClient == {"client"}
AllParts == {"client", "server", "udp", "stream"}

NoCall == {}
OneSync == {s}
OneAsync == {a}
LossyTransport == {"late", "partial"}
LateSends == {"late"}

TwoConns == {c1, c2}
TwoMessages == {q, u}
Mixed == (c1 :> {q}) @@ (c2 :> {u})
Kinds == (q :> "request") @@ (u :> "unknown")
OneStalls == (c1 :> 1) @@ (c2 :> 0)

\* A client that is opened twice; or one that sets options it may not, with a server that
\* is started twice and stopped by its listener.
Plain == [refused |-> FALSE, restarts |-> FALSE, stopsInside |-> FALSE, opens |-> 2]
Rough == [refused |-> TRUE, restarts |-> TRUE, stopsInside |-> TRUE, opens |-> 1]
BothHabits == {Plain, Rough}
ThreeLengths == {0, 1, 3}
OneConn == {c1}

\* A message of one byte or none with a file, or two of up to three bytes with up to two;
\* UnixSocket is not in blocking mode, as its owner's runner reads from it.
Load(length, files) == [length |-> length, files |-> files]
UpToTwo == UNION {[1..k -> {Load(0, 1), Load(1, 3), Load(2, 1), Load(3, 2)}] : k \in 1..2}
NotBlocking ==
  {m \in [managed : BOOLEAN, blocking : BOOLEAN, timed : BOOLEAN] : m.managed => ~m.blocking}
UpToTwoFiles == 0..2

VARIABLES used, running, listening, acceptor, arriving, backlog, open, clients, thread,
          inbox, dialled, gone, tasks, stopper, stopping, joining, notifying, answers,
          notified, due, unended, cuts, starts, notifies,
          users, up, bound, known, letters, sent, news, report, now, manner,
          load, mode, link, step, blocking, answered, message, rest, accepted, returned, wire,
          receiver, got, refused, given, closed

serverVars ==
  <<running, listening, acceptor, arriving, backlog, open, clients, thread, inbox, dialled,
    gone, tasks, stopper, stopping, joining, notifying, answers, notified, due, unended, cuts,
    starts, notifies>>
udpVars == <<users, up, bound, known, letters, sent, news, report, now, manner>>
streamVars == <<load, mode, link, step, blocking, answered, message, rest, accepted, returned,
                wire, receiver, got, refused, given, closed>>
allVars == <<used, vars, serverVars, udpVars, streamVars>>

Server == INSTANCE IpcServer WITH reader <- thread, owner <- stopper, torn <- unended

Datagrams == INSTANCE Udp WITH
  Clients <- Peers, Host <- host, clients <- users, running <- up, listening <- bound,
  told <- news, use <- manner,
  inbox <- letters

Stream == INSTANCE SocketStream WITH
  use <- mode, call <- step, taken <- accepted, told <- returned, reader <- receiver

\* The server is no client; a message has a length and a number of files.
ASSUME UdpAssumption ==
  /\ host \notin Peers /\ MaxOpens \in Nat /\ Habits \subseteq Datagrams!Habit
ASSUME StreamAssumption ==
  /\ Loads \subseteq Seq([length : Nat, files : Nat])
  /\ \A m \in Uses : m \in Stream!Use /\ (m.managed => ~m.blocking)

-----------------------------------------------------------------------------
OfClient(A) == used = "client" /\ A /\ UNCHANGED <<used, serverVars, udpVars, streamVars>>
OfServer(A) == used = "server" /\ A /\ UNCHANGED <<used, vars, udpVars, streamVars>>
OfUdp(A)    == used = "udp" /\ A /\ UNCHANGED <<used, vars, serverVars, streamVars>>
OfStream(A) == used = "stream" /\ A /\ UNCHANGED <<used, vars, serverVars, udpVars>>

Ready ==
  /\ Init /\ Server!Init
  /\ used \in Parts /\ (used = "client" \/ faults = {})
  /\ (used = "udp" \/ manner = CHOOSE h \in Habits : TRUE) /\ Datagrams!Init
  /\ (used = "stream" \/ (load = (CHOOSE l \in Loads : TRUE) /\ mode = CHOOSE m \in Uses : TRUE))
  /\ Stream!Init

OneStep ==
  \/ OfClient(Next) \/ OfServer(Server!Next) \/ OfUdp(Datagrams!Next) \/ OfStream(Stream!Next)
All == Ready /\ [][OneStep]_allVars

\* One of them is used, so a pair that is weakly fair makes each of it so.
FairAll ==
  /\ All
  /\ WF_allVars(OfClient(OwnerStep) \/ OfServer(Server!OwnerStep)
                \/ OfUdp(Datagrams!OnDataAvailable(c1)))
  /\ WF_allVars(OfClient(ReaderStep) \/ OfServer(Server!AcceptStep)
                \/ OfUdp(Datagrams!OnDisconnect(c1)) \/ OfStream(Stream!Sender))
  /\ WF_allVars(OfClient(CallStep(s)) \/ OfServer(Server!ReadStep(c1)))
  /\ WF_allVars(OfClient(CallStep(a)) \/ OfServer(Server!ReadStep(c2)))
  /\ WF_allVars(OfClient(Reply(s)) \/ OfServer(Server!RunHandler(c1, q)))
  /\ WF_allVars(OfClient(Reply(a)))
  /\ WF_allVars(OfClient(TimeOut(s)))

ThreadAccounting == Server!ThreadAccounting
SilentAfterStop  == Server!SilentAfterStop

\* Everybody gets what is due, once, but for what a send of the server cut; a datagram is
\* heard as it was sent, or not at all, and a stream in its order.
Delivery == Server!Delivery /\ Datagrams!Safe /\ Stream!Safe

\* Call, Disconnect and Stop return, callbacks and answers come, what has arrived at a UDP
\* socket is read, and a send with a timeout ends: Progress, Server!Progress,
\* Datagrams!Noticed and Stream!Returns, as only one of them is used and each is owed
\* finitely often. A request was read and not answered, by a connection that lasts and has
\* not stalled.
Unanswered ==
  /\ c1 \in open \cap dialled /\ q \notin inbox[c1] /\ answers[c1][q] = 0 /\ cuts[c1] = 0
Owed ==
  CASE used = "client" -> \/ pc[s] \notin {"new", "returned"} \/ owner # "idle"
                          \/ faults = {} /\ pc[a] # "new" /\ callbacks[a] = 0
    [] used = "server" -> stopper # "idle" \/ Unanswered
    [] used = "udp"    -> Datagrams!Unread(c1) \/ Datagrams!Ending(c1)
    [] OTHER           -> Stream!Waiting
Returns == Owed ~> ~Owed
=============================================================================
