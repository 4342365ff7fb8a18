----------------------------- MODULE TcpServer -----------------------------
(***************************************************************************)
(* TcpServer: its listening sockets, the connections its clients make and  *)
(* what its listener hears of them. The listener may call the server from  *)
(* its callbacks; while OnClientDisconnected runs, its caller holds an     *)
(* iterator of the connection, which it erases afterwards. Every step but  *)
(* the clients' is the task runner's.                                      *)
(***************************************************************************)
EXTENDS Naturals, Sequences

CONSTANTS
  Clients,
  MaxChunks,   \* bound: chunks of data a client sends
  MaxStarts,   \* bound: calls of Start and StartDualStack
  Habits       \* how applications use the server, see Habit

\* Whether connections are closed by their own Close, whether Broadcast is used, whether
\* OnClientDisconnected does what erases the connection it is told of (CloseConnection of
\* it, Broadcast, Stop), and for which families the port is to be had.
Families == {"inet", "inet6"}
Habit == [closeItself : BOOLEAN, broadcast : BOOLEAN, dropsTold : BOOLEAN,
          available : SUBSET Families]

VARIABLES
  running,     \* running_
  listening,   \* which of ipv4_socket_ and ipv6_socket_ there are
  sockets,     \* of each client's connection: in connections_ or not, the socket
  remotes,     \* the clients: chunks not read yet, chunks sent, whether still there
  told,        \* history: what the listener was told of each client
  dropped,     \* history: connections that the owner closed or stopped
  starts,      \* history: calls of Start
  habit,       \* the application, one of Habits
  telling,     \* the connection whose OnClientDisconnected runs, as a set
  broken       \* a connection was erased that was not there: anything may follow

vars == <<running, listening, sockets, remotes, told, dropped, starts, habit, telling, broken>>

\* connected is UnixSocket's state; posted is its OnDisconnect task.
Connection == [listed : BOOLEAN, connected : BOOLEAN, posted : BOOLEAN]
Remote == [at : {"away", "waiting", "here", "gone"}, inbound : Nat, sent : Nat]

Tell(c, what) == told' = [told EXCEPT ![c] = Append(@, what)]

\* UnixSocket::Shutdown(notify) of the connection x, which tells at most once.
Shut(x, notify) ==
  [x EXCEPT !.connected = FALSE, !.posted = @ \/ (notify /\ x.connected)]
\* The connection is destroyed, and its tasks with it.
Erased == [listed |-> FALSE, connected |-> FALSE, posted |-> FALSE]
\* socket_->Send fails, if at all, because the client has gone.
AfterSend(c) ==
  {sockets[c]} \cup (IF remotes[c].at = "gone" THEN {Shut(sockets[c], TRUE)} ELSE {})

\* What may erase the connection c is called by those only who do so inside callbacks, too.
MayErase(c) == c \in telling => habit.dropsTold

-----------------------------------------------------------------------------
(* The owner's calls *)

\* Start refuses when the server runs already, and when the address is not to be had.
Starts(family) == ~running /\ family \in habit.available \ listening
Listen(family) == listening' = listening \cup {family} /\ running' = TRUE

Start(family) ==
  /\ starts < MaxStarts /\ starts' = starts + 1
  /\ IF Starts(family) THEN Listen(family) ELSE UNCHANGED <<running, listening>>
  /\ UNCHANGED <<sockets, remotes, told, dropped, habit, telling, broken>>

\* Start("0.0.0.0", port), then Start("::", port), of which the second finds the server
\* running if the first succeeds; and running_ is whether one of them did.
StartDualStack ==
  /\ starts < MaxStarts /\ starts' = starts + 1
  /\ IF Starts("inet") THEN Listen("inet")
     ELSE IF Starts("inet6") THEN Listen("inet6")
     ELSE running' = FALSE /\ UNCHANGED listening
  /\ UNCHANGED <<sockets, remotes, told, dropped, habit, telling, broken>>

\* Connections close without a word to the listener.
Stop ==
  /\ running /\ (\A c \in Clients : MayErase(c)) /\ running' = FALSE /\ listening' = {}
  /\ sockets' = [c \in Clients |-> Erased]
  /\ dropped' = dropped \cup {c \in Clients : sockets[c].listed}
  /\ remotes' = [c \in Clients |-> [remotes[c] EXCEPT !.at = IF @ = "waiting" THEN "gone" ELSE @]]
  /\ UNCHANGED <<told, starts, habit, telling, broken>>

CloseConnection(c) ==
  /\ sockets[c].listed /\ MayErase(c) /\ sockets' = [sockets EXCEPT ![c] = Erased]
  /\ dropped' = dropped \cup {c}
  /\ UNCHANGED <<running, listening, remotes, told, starts, habit, telling, broken>>

\* TcpServerConnection::Close: the connection stays in the list.
CloseItself(c) ==
  /\ habit.closeItself /\ sockets[c].listed
  /\ sockets' = [sockets EXCEPT ![c] = Shut(@, FALSE)]
  /\ dropped' = dropped \cup {c}
  /\ UNCHANGED <<running, listening, remotes, told, starts, habit, telling, broken>>

Send(c) ==
  /\ sockets[c].listed /\ sockets[c].connected
  /\ \E x \in AfterSend(c) : sockets' = [sockets EXCEPT ![c] = x]
  /\ UNCHANGED <<running, listening, remotes, told, dropped, starts, habit, telling, broken>>

\* It sends to the connected and erases the others.
Broadcast ==
  /\ habit.broadcast /\ \E c \in Clients : sockets[c].listed
  /\ \A c \in Clients : MayErase(c)
  /\ sockets' \in [Clients -> [listed : BOOLEAN, connected : BOOLEAN, posted : BOOLEAN]]
  /\ \A c \in Clients :
       sockets'[c] \in IF sockets[c].listed /\ sockets[c].connected THEN AfterSend(c) ELSE {Erased}
  /\ UNCHANGED <<running, listening, remotes, told, dropped, starts, habit, telling, broken>>

-----------------------------------------------------------------------------
(* UnixSocket's callbacks *)

\* A server that StartDualStack says does not run still listens, and the new socket is
\* destroyed.
OnNewIncomingConnection(c) ==
  /\ telling = {} /\ remotes[c].at = "waiting" /\ listening # {}
  /\ remotes' = [remotes EXCEPT ![c].at = IF running THEN "here" ELSE "gone"]
  /\ IF running
       THEN /\ Tell(c, "connected")
            /\ sockets' = [sockets EXCEPT ![c] = [Erased EXCEPT !.listed = TRUE,
                                                                !.connected = TRUE]]
       ELSE UNCHANGED <<sockets, told>>
  /\ UNCHANGED <<running, listening, dropped, starts, habit, telling, broken>>

Ready(c) ==
  /\ sockets[c].listed /\ sockets[c].connected
  /\ remotes[c].inbound > 0 \/ remotes[c].at = "gone"

\* A chunk is read; in OnDataReceived the listener may close the connection.
OnDataAvailable(c) ==
  /\ telling = {} /\ Ready(c) /\ remotes[c].inbound > 0
  /\ remotes' = [remotes EXCEPT ![c].inbound = @ - 1]
  /\ Tell(c, "data")
  /\ \/ UNCHANGED <<sockets, dropped>>
     \/ sockets' = [sockets EXCEPT ![c] = Erased] /\ dropped' = dropped \cup {c}
  /\ UNCHANGED <<running, listening, starts, habit, telling, broken>>

\* There is no more: Receive has posted an OnDisconnect, which dies with the socket.
EndOfData(c) ==
  /\ telling = {} /\ Ready(c) /\ remotes[c].inbound = 0
  /\ sockets' = [sockets EXCEPT ![c] = Shut(@, TRUE)]
  /\ Tell(c, "disconnected") /\ telling' = {c}
  /\ UNCHANGED <<running, listening, remotes, dropped, starts, habit, broken>>

OnDisconnect(c) ==
  /\ telling = {} /\ sockets[c].listed /\ sockets[c].posted
  /\ sockets' = [sockets EXCEPT ![c].posted = FALSE]
  /\ Tell(c, "disconnected") /\ telling' = {c}
  /\ UNCHANGED <<running, listening, remotes, dropped, starts, habit, broken>>

\* The listener has returned, and the iterator found before is erased.
EraseTold(c) ==
  /\ c \in telling /\ telling' = {}
  /\ IF sockets[c].listed THEN sockets' = [sockets EXCEPT ![c] = Erased] /\ UNCHANGED broken
     ELSE broken' = TRUE /\ UNCHANGED sockets
  /\ UNCHANGED <<running, listening, remotes, told, dropped, starts, habit>>

-----------------------------------------------------------------------------
(* The clients *)

Remotely(c, to) ==
  /\ remotes' = [remotes EXCEPT ![c] = to]
  /\ UNCHANGED <<running, listening, sockets, told, dropped, starts, habit, telling, broken>>

Dial(c) ==
  remotes[c].at = "away" /\ listening # {} /\ Remotely(c, [remotes[c] EXCEPT !.at = "waiting"])
SendChunk(c) ==
  /\ remotes[c].at = "here" /\ remotes[c].sent < MaxChunks
  /\ Remotely(c, [remotes[c] EXCEPT !.inbound = @ + 1, !.sent = @ + 1])
Leave(c) ==
  remotes[c].at = "here" /\ Remotely(c, [remotes[c] EXCEPT !.at = "gone"])

-----------------------------------------------------------------------------

Init ==
  /\ running = FALSE /\ listening = {} /\ starts = 0 /\ dropped = {} /\ habit \in Habits
  /\ telling = {} /\ broken = FALSE
  /\ sockets = [c \in Clients |-> Erased] /\ told = [c \in Clients |-> <<>>]
  /\ remotes = [c \in Clients |-> [at |-> "away", inbound |-> 0, sent |-> 0]]

Serve(c) ==
  /\ ~broken
  /\ \/ OnNewIncomingConnection(c) \/ OnDataAvailable(c) \/ EndOfData(c) \/ OnDisconnect(c)
     \/ EraseTold(c)

Next ==
  /\ ~broken
  /\ \/ StartDualStack \/ Stop \/ Broadcast \/ \E family \in Families : Start(family)
     \/ \E c \in Clients : \/ Serve(c) \/ CloseConnection(c) \/ CloseItself(c) \/ Send(c)
                           \/ Dial(c) \/ SendChunk(c) \/ Leave(c)

Spec == Init /\ [][Next]_vars

\* The runner serves every watch and task.
FairSpec == Spec /\ \A c \in Clients : WF_vars(Serve(c))
-----------------------------------------------------------------------------
(* Properties *)

TypeOK ==
  /\ running \in BOOLEAN /\ listening \subseteq Families /\ dropped \subseteq Clients
  /\ sockets \in [Clients -> Connection] /\ remotes \in [Clients -> Remote]
  /\ told \in [Clients -> Seq({"connected", "data", "disconnected"})]
  /\ starts \in 0..MaxStarts /\ habit \in Habit
  /\ telling \subseteq Clients /\ (\A c, d \in telling : c = d) /\ broken \in BOOLEAN

\* A client is announced, its data follow, and it is reported gone once, though both
\* OnDataAvailable and the task that Receive posts would do it, and the listener may shut
\* it in the report; a connection that the owner closes is not reported.
OneStory ==
  \A c \in Clients : \A i \in DOMAIN told[c] :
    /\ told[c][i] = "connected" => i = 1
    /\ told[c][i] = "disconnected" => i = Len(told[c]) /\ (sockets[c].listed => c \in telling)

\* The iterator that is held over OnClientDisconnected is there when it is erased, whatever
\* the listener calls in it but for what drops that connection.
ErasesListed ==
  /\ \A c \in telling : sockets[c].listed \/ habit.dropsTold
  /\ broken => habit.dropsTold

\* "Called when a client disconnects": a connection that leaves the list without the
\* owner's doing was reported.
LeaveIsTold ==
  \A c \in Clients :
    (told[c] # <<>> /\ ~sockets[c].listed /\ c \notin dropped)
      => told[c][Len(told[c])] = "disconnected"
\* It is so without Broadcast, ...
TellsOfAll == ~habit.broadcast => LeaveIsTold
\* ... and without a Close of the connection itself no closed one stays in the list.
NoneLeftBehind ==
  \A c \in Clients :
    (~habit.closeItself /\ sockets[c].listed)
      => sockets[c].connected \/ sockets[c].posted \/ c \in telling

\* "Start listening on IPv4 and IPv6", where the port is to be had.
DualStack ==
  [][StartDualStack /\ ~running => listening' = listening \cup habit.available]_vars

Safe == TypeOK /\ OneStory /\ ErasesListed /\ TellsOfAll /\ NoneLeftBehind

\* A client that leaves is reported or was dropped by the owner.
Gone(c) == ~habit.closeItself /\ sockets[c].listed /\ remotes[c].at = "gone"
Noticed == \A c \in Clients : Gone(c) ~> ~sockets[c].listed \/ broken
=============================================================================
