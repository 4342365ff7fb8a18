-------------------------------- MODULE Udp ---------------------------------
(***************************************************************************)
(* UdpServer and UdpClients that are connected to it, over a network that  *)
(* delivers what was sent at any time, any number of times. Every step but *)
(* the network's is the task runner's, or the owner's on it.               *)
(***************************************************************************)
EXTENDS Integers, Sequences, SequencesExt, FiniteSets

CONSTANTS
  Clients, Host,  \* Host is the server
  Lengths,        \* of datagrams
  MaxPacket,      \* max_packet_size_, of both sides
  Timeout,        \* client_timeout_ms_
  Habits,         \* how applications use them, see Habit
  MaxOpens, MaxSent, MaxTime,
  MaxQueue        \* bound: datagrams the kernel holds for a socket

\* Whether options are set that the system refuses, whether StartDualStack is called
\* while the server runs, whether the listener stops it in OnNewClient, and how often a
\* client is opened.
Habit == [refused : BOOLEAN, restarts : BOOLEAN, stopsInside : BOOLEAN, opens : 0..MaxOpens]

VARIABLES
  clients,     \* of each: state_, its socket, what that will be told, how often opened
  running, listening, known, \* of the server: running_, whether it has a socket, clients_
  inbox,       \* what the kernel holds for a socket
  sent,        \* the datagrams that were sent
  told,        \* history: the last two things each client's listener was told
  report,      \* history: the last two the server's was told of each address
  now,
  use          \* the application, one of Habits
server == <<running, listening, known, report>>
network == <<inbox, sent>>
vars == <<clients, server, network, told, now, use>>

\* An address is a socket: a client has another one whenever it opens.
Address(c) == [who |-> c, port |-> clients[c].opens]
Hosted == [who |-> Host, port |-> 0]
Addresses == [who : Clients, port : 1..MaxOpens]

Datagram(from, to, length) == [from |-> from, to |-> to, length |-> length]
\* A datagram that is longer than the buffer loses its end.
Shortened(d) == [d EXCEPT !.length = IF @ > MaxPacket THEN MaxPacket ELSE @]
Put(d) == sent' = sent \cup {d} /\ Cardinality(sent') <= MaxSent /\ UNCHANGED inbox

Become(c, x) == clients' = [clients EXCEPT ![c] = x]
Recent(s) == IF Len(s) > 2 THEN SubSeq(s, Len(s) - 1, Len(s)) ELSE s
Tell(c, what, d) == told' = [told EXCEPT ![c] = Recent(Append(@, [what |-> what, of |-> d]))]
Nothing == Datagram(Hosted, Hosted, 0)

-----------------------------------------------------------------------------
(* UdpClient *)

\* A socket that is shut stays until the next Open or Close.
Shut(x) == [x EXCEPT !.socket = "shut", !.posted = TRUE, !.refused = FALSE]
Fresh(x) == [state |-> "ready", socket |-> "open", posted |-> FALSE, refused |-> FALSE,
             opens |-> x.opens + 1]

Open(c) ==
  /\ clients[c].state = "closed" /\ clients[c].opens < use.opens
  /\ \/ Become(c, Fresh(clients[c])) /\ Tell(c, "ready", Nothing)
        /\ inbox' = [inbox EXCEPT ![c] = <<>>]
     \/ Become(c, [clients[c] EXCEPT !.state = "error"]) /\ Tell(c, "error", Nothing)
        /\ UNCHANGED inbox
  /\ UNCHANGED <<server, sent, now, use>>

Close(c) ==
  /\ clients[c].state # "closed"
  /\ Become(c, [clients[c] EXCEPT !.state = "closed", !.socket = "none", !.posted = FALSE,
                                  !.refused = FALSE])
  /\ Tell(c, "closed", Nothing) /\ inbox' = [inbox EXCEPT ![c] = <<>>]
  /\ UNCHANGED <<server, sent, now, use>>

\* An option that cannot be set is an error, but the socket is open.
OptionFails(c) ==
  /\ use.refused /\ clients[c].socket # "none" /\ clients[c].state = "ready"
  /\ Become(c, [clients[c] EXCEPT !.state = "error"]) /\ Tell(c, "error", Nothing)
  /\ UNCHANGED <<server, network, now, use>>

\* Send, to the server; if what was sent before was refused there, the socket ends.
Send(c, length) ==
  /\ clients[c].socket = "open"
  /\ IF clients[c].refused
       THEN Become(c, Shut(clients[c])) /\ UNCHANGED network
       ELSE Put(Datagram(Address(c), Hosted, length)) /\ UNCHANGED clients
  /\ UNCHANGED <<server, told, now, use>>

\* SendTo is for those that are ready, and for what is not too long; it takes the
\* refusal for its own.
SendTo(c, length) ==
  /\ clients[c].state = "ready" /\ clients[c].socket = "open" /\ length <= MaxPacket
  /\ IF clients[c].refused
       THEN Become(c, [clients[c] EXCEPT !.refused = FALSE]) /\ UNCHANGED network
       ELSE Put(Datagram(Address(c), Hosted, length)) /\ UNCHANGED clients
  /\ UNCHANGED <<server, told, now, use>>

\* Receive takes an empty datagram for the end.
Readable(c) == clients[c].socket = "open" /\ (inbox[c] # <<>> \/ clients[c].refused)
OnDataAvailable(c) ==
  /\ Readable(c) /\ clients[c].state = "ready"
  /\ IF clients[c].refused \/ Head(inbox[c]).length = 0
       THEN Become(c, Shut(clients[c])) /\ UNCHANGED told
       ELSE Tell(c, "data", Shortened(Head(inbox[c]))) /\ UNCHANGED clients
  /\ inbox' = [inbox EXCEPT ![c] = IF clients[c].refused THEN @ ELSE Tail(@)]
  /\ UNCHANGED <<server, sent, now, use>>

OnDisconnect(c) ==
  /\ clients[c].posted
  /\ Become(c, [clients[c] EXCEPT !.state = "closed", !.posted = FALSE])
  /\ Tell(c, "closed", Nothing)
  /\ UNCHANGED <<server, network, now, use>>

-----------------------------------------------------------------------------
(* UdpServer *)

Event(what, d) == [what |-> what, of |-> d, at |-> now]

\* A socket that is there already is replaced by another on the same port.
Start ==
  /\ ~running /\ running' = TRUE /\ listening' = TRUE
  /\ inbox' = [inbox EXCEPT ![Host] = <<>>]
  /\ UNCHANGED <<clients, known, report, sent, told, now, use>>

\* Both calls of Start find the server running, so that it is said not to be.
StartDualStack ==
  /\ use.restarts /\ running /\ running' = FALSE
  /\ UNCHANGED <<clients, listening, known, report, network, told, now, use>>

Stop ==
  /\ running /\ running' = FALSE /\ listening' = FALSE /\ known' = <<>>
  /\ inbox' = [inbox EXCEPT ![Host] = <<>>]
  /\ UNCHANGED <<clients, sent, report, told, now, use>>

\* recvfrom: what is empty is nothing. The listener hears of a client before its data.
Take == inbox' = [inbox EXCEPT ![Host] = Tail(@)]
OnServerData ==
  LET d == Head(inbox[Host])
      from == d.from
      new == IF from \in DOMAIN known THEN <<>> ELSE <<Event("new", d)>>
  IN /\ running /\ inbox[Host] # <<>>
     /\ IF d.length = 0 THEN Take /\ UNCHANGED server
        ELSE /\ report' = [report EXCEPT
                             ![from] = Recent(@ \o new \o <<Event("data", Shortened(d))>>)]
             /\ \/ /\ Take
                   /\ known' = [a \in DOMAIN known \cup {from} |-> IF a = from THEN now ELSE known[a]]
                   /\ UNCHANGED <<running, listening>>
                \/ /\ use.stopsInside /\ new # <<>>
                   /\ running' = FALSE /\ listening' = FALSE /\ known' = <<>>
                   /\ inbox' = [inbox EXCEPT ![Host] = <<>>]
     /\ UNCHANGED <<clients, sent, told, now, use>>

Silent == {a \in DOMAIN known : now - known[a] > Timeout}
CleanupInactiveClients ==
  /\ Timeout > 0 /\ Silent # {}
  /\ known' = [a \in DOMAIN known \ Silent |-> known[a]]
  /\ report' = [a \in Addresses |-> IF a \in Silent
                  THEN Recent(Append(report[a], Event("timeout", Nothing)))
                  ELSE report[a]]
  /\ UNCHANGED <<clients, running, listening, network, told, now, use>>

\* SendTo, to one that is known; Broadcast is that for each of them.
Reply(a, length) ==
  /\ running /\ a \in DOMAIN known /\ length <= MaxPacket
  /\ Put(Datagram(Hosted, a, length))
  /\ UNCHANGED <<clients, server, told, now, use>>

-----------------------------------------------------------------------------
(* The network and the clock *)

\* Who has the address; a datagram nobody takes comes back to its sender as a refusal.
Taken(d) == IF d.to = Hosted THEN listening
            ELSE clients[d.to.who].socket = "open" /\ Address(d.to.who) = d.to
Deliver(d) ==
  /\ d \in sent
  /\ IF Taken(d)
       THEN /\ Len(inbox[d.to.who]) < MaxQueue /\ UNCHANGED clients
            /\ inbox' = [inbox EXCEPT ![d.to.who] = Append(@, d)]
       ELSE /\ d.from # Hosted /\ d.from = Address(d.from.who)
            /\ clients[d.from.who].socket = "open"
            /\ Become(d.from.who, [clients[d.from.who] EXCEPT !.refused = TRUE])
            /\ UNCHANGED inbox
  /\ UNCHANGED <<server, sent, told, now, use>>
Tick ==
  /\ now < MaxTime /\ now' = now + 1
  /\ UNCHANGED <<clients, server, network, told, use>>

-----------------------------------------------------------------------------
Init ==
  /\ clients = [c \in Clients |-> [state |-> "closed", socket |-> "none", posted |-> FALSE,
                                   refused |-> FALSE, opens |-> 0]]
  /\ running = FALSE /\ listening = FALSE /\ known = <<>>
  /\ inbox = [x \in Clients \cup {Host} |-> <<>>] /\ sent = {}
  /\ told = [c \in Clients |-> <<>>] /\ report = [a \in Addresses |-> <<>>]
  /\ now = 0 /\ use \in Habits

Owner ==
  \/ \E c \in Clients : Open(c) \/ Close(c) \/ OptionFails(c)
  \/ \E c \in Clients, length \in Lengths : Send(c, length) \/ SendTo(c, length)
  \/ Start \/ StartDualStack \/ Stop \/ CleanupInactiveClients
  \/ \E a \in Addresses, length \in Lengths : Reply(a, length)
Serve == OnServerData \/ \E c \in Clients : OnDataAvailable(c) \/ OnDisconnect(c)
World == Tick \/ \E d \in sent : Deliver(d)
Next == Owner \/ Serve \/ World
Spec == Init /\ [][Next]_vars

-----------------------------------------------------------------------------
\* UdpClient: its listener hears data only after it was told that the socket is ready,
\* and only what was sent to the socket of that time; and the state agrees.
Of(d) == \E e \in sent : d = Shortened(e)
ClientHears(c) ==
  LET heard == told[c]
      x == clients[c]
  IN /\ heard # <<>> /\ Last(heard).what = "data" => Of(Last(heard).of) /\ Last(heard).of.to = Address(c)
     /\ Len(heard) = 2 =>
          /\ heard[2].what = "data" => heard[1].what \in {"ready", "data"}
          /\ heard[2].what = "ready" => heard[1].what = "closed"
     /\ x.state = "ready" => heard # <<>> /\ Last(heard).what \in {"ready", "data"}
     /\ x.state = "closed" => heard = <<>> \/ Last(heard).what = "closed"

\* UdpServer: of each address the listener hears that it is new, its data, and that it
\* was silent, in that order; clients_ are those that were not silent since.
ServerHears(a) ==
  LET heard == report[a]
  IN /\ heard # <<>> => Last(heard).what # "new"
     /\ heard # <<>> /\ Last(heard).what = "data" => Of(Last(heard).of) /\ Last(heard).of.from = a
     /\ Len(heard) = 2 =>
          /\ heard[1].what = "timeout" => heard[2].what = "new"
          /\ heard[2].what = "timeout" => heard[1].what = "data" /\ heard[2].at - heard[1].at > Timeout
     /\ a \in DOMAIN known => heard # <<>> /\ Last(heard).what = "data" /\ known[a] = Last(heard).at

\* A server that listens runs, so that it can be stopped, unless it was started twice.
Safe ==
  /\ \A c \in Clients : ClientHears(c)
  /\ \A a \in Addresses : ServerHears(a)
  /\ use.restarts \/ (listening <=> running)

\* What has arrived is read while the socket is used, and its end is told.
Unread(c) == Readable(c) /\ clients[c].state = "ready"
Ending(c) == clients[c].posted
Noticed == \A c \in Clients : (Unread(c) ~> ~Unread(c)) /\ (Ending(c) ~> ~Ending(c))
=============================================================================
