------------------------------ MODULE MCTasks -------------------------------
\* A task group, chains of futures, and the connections of a task runner: a WebSocket
\* client and a TCP client. A behaviour exercises one of them and the others rest.
EXTENDS TaskGroup
CONSTANTS w1, w2, c1, c2, p1, p2, p3, Connects, Chunks, Programs, Talks, MaxReconnects

MCWorkers == {w1, w2}
TwoClients == {c1, c2}
ThreeTasks == {p1, p2, p3}

\* Chains of two functions and a handler, with every choice of executors and throws.
At(of, kind, exec, throws) == [of |-> of, kind |-> kind, exec |-> exec, throws |-> throws]
Chains ==
  {<<At(0, "then", e1, t1), At(1, "then", e2, t2), At(2, "error", e3, t3)>> :
     e1, e2, e3, t1, t2, t3 \in BOOLEAN}
\* Then and OnError on one future, as in the example of api-reference.md.
Example == {<<At(0, "then", FALSE, FALSE), At(0, "error", FALSE, FALSE)>>}

\* Servers, and the applications that talk to them.
Closing   == <<"ok", "text", "close">>
Fragments == <<"ok", "start", "ping", "more", "end", "text">>
Lasting == [legal |-> TRUE, auto |-> TRUE, within |-> FALSE, calls |-> {}, nested |-> {},
            scripts |-> {<<"bad">>, Closing}]
Cut     == [legal |-> TRUE, auto |-> FALSE, within |-> TRUE,
            calls |-> {"close", "disconnect"}, nested |-> {"close"},
            scripts |-> {Closing, Fragments}]
CutAuto == [Cut EXCEPT !.auto = TRUE]
Wrong   == [Cut EXCEPT !.legal = FALSE,
                       !.scripts = {<<"ok", "odd", "text">>, <<"ok", "masked">>,
                                    <<"ok", "end", "start", "text">>}]
MCUses == {Lasting, Cut, CutAuto, Wrong}

\* Servers answer the upgrade first and send nothing after a close frame; legal ones send
\* whole messages and fragments in their places, and control frames anywhere.
OpenAt(s, n) == \E i \in 1..n : s[i] = "start" /\ \A j \in i..n : s[j] # "end"
Answers(s) ==
  /\ s[1] \in {"ok", "bad"}
  /\ \A i \in 2..Len(s) : s[i] \in {"text", "start", "more", "end", "ping", "close", "masked", "odd"}
  /\ \A i \in 1..(Len(s) - 1) : s[i] # "close"
Legal(s) ==
  /\ \A i \in 2..Len(s) : s[i] \notin {"masked", "odd"}
  /\ \A i \in 2..Len(s) : s[i] \in {"text", "start"} => ~OpenAt(s, i - 1)
  /\ \A i \in 2..Len(s) : s[i] \in {"more", "end"} => OpenAt(s, i - 1)

VARIABLES
  used,
  program, outcome, attached, value, continuation, executor, held, posts, task, calls,
  use, web, phase, handshaken, buffer, fragmented, message, closeSent, reconnects,
  inCallback, todo, script, arrived, told, stale, closes,
  tcp, socket, posted, peer, inbound, chunks, news, connects

futureVars == <<program, outcome, attached, value, continuation, executor, held, posts, task,
                calls>>
webVars == <<use, web, phase, handshaken, buffer, fragmented, message, closeSent, reconnects,
             inCallback, todo, script, arrived, told, stale, closes>>
tcpVars == <<tcp, socket, posted, peer, inbound, chunks, news, connects>>
allVars == <<used, vars, futureVars, webVars, tcpVars>>

Fut == INSTANCE Future WITH Setter <- c1, User <- c2, queue <- posts
Web == INSTANCE WebSocketClient WITH Uses <- Talks, state <- web
Tcp == INSTANCE TcpClient WITH
  state <- tcp, MaxConnects <- Connects, MaxChunks <- Chunks

ASSUME WebAssumption ==
  \A t \in Talks : \A s \in t.scripts :
    s \in Seq(Web!Kind) /\ s # <<>> /\ Answers(s) /\ (t.legal => Legal(s))
ASSUME TcpAssumption == Connects \in Nat /\ Chunks \in Nat

Quiet ==
  Init /\ Fut!Init /\ Web!Init /\ Tcp!Init
  /\ used \in {"group", "future", "web", "tcp"}
  \* What rests has one initial state.
  /\ (used = "web" \/ use = CHOOSE t \in Talks : TRUE)
  /\ (used = "future" \/ program = CHOOSE p \in Programs : TRUE)
  /\ (used = "future" \/ outcome = Fut!Value)

OfGroup(A)  == used = "group" /\ A /\ UNCHANGED <<used, futureVars, webVars, tcpVars>>
OfFuture(A) == used = "future" /\ A /\ UNCHANGED <<used, vars, webVars, tcpVars>>
OfWeb(A)    == used = "web" /\ A /\ UNCHANGED <<used, vars, futureVars, tcpVars>>
OfTcp(A)    == used = "tcp" /\ A /\ UNCHANGED <<used, vars, futureVars, webVars>>

All ==
  Quiet /\ [][OfGroup(Next) \/ OfFuture(Fut!Next) \/ OfWeb(Web!Next) \/ OfTcp(Tcp!Next)]_allVars

\* One of them is used, so alternatives that are weakly fair make each of them so.
FairAll ==
  /\ All
  /\ WF_allVars(OfGroup(WorkerStep(w1)) \/ OfWeb(Web!TaskStep) \/ OfTcp(Tcp!RunnerStep)
                \/ OfFuture(Fut!ThreadsStep))
  /\ WF_allVars(OfGroup(WorkerStep(w2)) \/ OfWeb(Web!OnConnected \/ Web!OnError) \/ OfTcp(Tcp!Answer))
  /\ WF_allVars(OfGroup(FinishTask(w1)) \/ OfWeb(Web!Reconnect))
  /\ WF_allVars(OfGroup(FinishTask(w2)) \/ OfWeb(Web!Responding))
  /\ \A x \in Clients : WF_allVars(OfGroup(Completed(x)))
  /\ \A t \in Tasks : WF_allVars(OfGroup(DelayedDue(t)))
  /\ WF_allVars(OfGroup(Joined))
  /\ SF_allVars(OfWeb(Web!Retries)) /\ SF_allVars(OfWeb(Web!Serves))
  /\ SF_allVars(OfWeb(Web!Responds))

Connections         == Web!Conversation /\ Tcp!TypeOK
ImplementsTransport == Tcp!ImplementsTransport
OthersProgress      == Web!Reconnects /\ Tcp!Reported /\ Fut!Settled
Chained             == Fut!Chained
AttachedIsHeard     == Fut!AttachedIsHeard
=============================================================================
