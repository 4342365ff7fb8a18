------------------------------ MODULE IpcServer ------------------------------
(***************************************************************************)
(* IpcServer: an accept thread, one read thread per connection, handlers   *)
(* run by the workers of a TaskGroup, broadcasts by any thread, and an     *)
(* owner that starts and stops the server. Stop shuts sockets that the     *)
(* other threads are using, and joins them.                                *)
(***************************************************************************)
EXTENDS Integers, FiniteSets

CONSTANTS
  Conns,      \* the connections clients open, each once
  Messages,   \* the messages clients send
  SentBy,     \* SentBy[c]: the messages that come on connection c, each once
  KindOf,     \* KindOf[m]: what HandleMessage finds m to be
  MaxStarts,  \* bound: calls of Start
  MaxNotify,  \* bound: calls of Notify
  MaxCuts,    \* bound: MaxCuts[c] sends on c do not write the whole line
  AcceptMayFail  \* accept(2) may fail while the server runs (EMFILE)

Kind == {"request", "unknown", "invalid", "notification"}

VARIABLES
  running,   \* running_
  listening, \* listen_socket_ holds a file descriptor
  acceptor,  \* accept_thread_: program counter of AcceptLoop
  arriving,  \* the connection AcceptLoop has accepted, as a set
  backlog,   \* connections waiting in the listen queue
  open,      \* connections whose server socket holds a file descriptor
  clients,   \* clients_
  reader,    \* reader[c]: program counter of c's ClientReadLoop
  inbox,     \* inbox[c]: messages sent on c and not read
  dialled,   \* connections whose client has connected
  gone,      \* connections whose client has closed its end
  tasks,     \* handlers posted to handler_group_, as <<connection, message>>
  owner,     \* program counter of Stop
  stopping,  \* the connections Stop has still to shut down
  joining,   \* the connection whose thread Stop joins, as a set
  notifying, \* the connections Notify has still to send to
  answers,   \* history: answers[c][m] counts the answers to m on c that are lines of their own
  notified,  \* history: notified[c] counts broadcasts to c that are lines of their own
  due,       \* history: due[c] counts broadcasts begun while c was in clients_
  torn,      \* connections whose last bytes written are a line without its end
  cuts,      \* history: cuts[c] counts the sends that did not write the whole line
  starts, notifies

netVars   == <<open, inbox, dialled, gone, backlog>>
ownVars   == <<running, listening, owner, stopping, joining, starts>>
written   == <<answers, notified, due, torn, cuts, notifies>>
vars == <<netVars, ownVars, acceptor, arriving, clients, reader, tasks, notifying,
          written>>

AcceptPc == {"none", "check", "accept", "push", "spawn", "ended"}
ReaderPc == {"none", "check", "receive", "lines", "close", "ended"}
OwnerPc  == {"idle", "closeListener", "joinAcceptor", "shutdown", "join"}

-----------------------------------------------------------------------------
(* Start and Stop *)

\* Start, when it succeeds; otherwise nothing has changed.
Start ==
  /\ owner = "idle" /\ ~running /\ starts < MaxStarts
  /\ running' = TRUE /\ listening' = TRUE /\ starts' = starts + 1
  /\ acceptor' = "check"
  /\ UNCHANGED <<netVars, owner, stopping, joining, arriving, clients, reader, tasks,
                 notifying, written>>

Stop ==
  /\ owner = "idle" /\ running
  /\ running' = FALSE /\ owner' = "closeListener"
  /\ UNCHANGED <<netVars, listening, stopping, joining, starts, acceptor, arriving, clients,
                 reader, tasks, notifying, written>>

\* Whoever waits in the listen queue is reset.
CloseListener ==
  /\ owner = "closeListener" /\ owner' = "joinAcceptor"
  /\ listening' = FALSE /\ backlog' = {} /\ gone' = gone \cup backlog
  /\ UNCHANGED <<open, inbox, dialled, running, stopping, joining, starts, acceptor, arriving, clients,
                 reader, tasks, notifying, written>>

\* clients_ is moved out only when no thread adds to it any more.
JoinAcceptor_NoWait ==
  /\ owner = "joinAcceptor" /\ owner' = "shutdown"
  /\ acceptor' = IF acceptor = "ended" THEN "none" ELSE acceptor
  /\ stopping' = clients /\ clients' = {}
  /\ UNCHANGED <<netVars, running, listening, joining, starts, arriving, reader, tasks,
                 notifying, written>>
JoinAcceptor ==
  /\ owner = "joinAcceptor" /\ acceptor = "ended"
  /\ owner' = "shutdown" /\ acceptor' = "none"
  /\ stopping' = clients /\ clients' = {}
  /\ UNCHANGED <<netVars, running, listening, joining, starts, arriving, reader, tasks,
                 notifying, written>>

\* The section under write_mu that shuts the socket of one connection.
ShutdownOne_Keeps(c) ==
  /\ owner = "shutdown" /\ c \in stopping
  /\ owner' = "join" /\ stopping' = stopping \ {c} /\ joining' = {c}
  /\ UNCHANGED <<netVars, running, listening, starts, acceptor, arriving, clients,
                 reader, tasks, notifying, written>>
ShutdownOne(c) ==
  /\ owner = "shutdown" /\ c \in stopping
  /\ owner' = "join" /\ stopping' = stopping \ {c} /\ joining' = {c}
  /\ open' = open \ {c}
  /\ UNCHANGED <<inbox, dialled, gone, backlog, running, listening, starts, acceptor,
                 arriving, clients, reader, tasks, notifying, written>>

JoinOne(c) ==
  /\ owner = "join" /\ c \in joining /\ reader[c] \in {"none", "ended"}
  /\ owner' = "shutdown" /\ joining' = {}
  /\ reader' = [reader EXCEPT ![c] = "none"]
  /\ UNCHANGED <<netVars, running, listening, stopping, starts, acceptor, arriving,
                 clients, tasks, notifying, written>>

Stopped ==
  /\ owner = "shutdown" /\ stopping = {} /\ owner' = "idle"
  /\ UNCHANGED <<netVars, running, listening, stopping, joining, starts, acceptor, arriving,
                 clients, reader, tasks, notifying, written>>

-----------------------------------------------------------------------------
(* AcceptLoop *)

AcceptCheck ==
  /\ acceptor = "check"
  /\ acceptor' = IF running THEN "accept" ELSE "ended"
  /\ UNCHANGED <<netVars, ownVars, arriving, clients, reader, tasks, notifying, written>>

Accept(c) ==
  /\ acceptor = "accept" /\ listening /\ c \in backlog
  /\ acceptor' = "push" /\ arriving' = {c}
  /\ backlog' = backlog \ {c} /\ open' = open \cup {c}
  /\ UNCHANGED <<inbox, dialled, gone, ownVars, clients, reader, tasks, notifying, written>>

\* A failed accept leaves the loop for good unless the server is stopping.
AcceptFails ==
  /\ acceptor = "accept" /\ (~listening \/ AcceptMayFail)
  /\ acceptor' = IF running THEN "ended" ELSE "check"
  /\ UNCHANGED <<netVars, ownVars, arriving, clients, reader, tasks, notifying, written>>

Push ==
  /\ acceptor = "push" /\ acceptor' = "spawn"
  /\ clients' = clients \cup arriving
  /\ UNCHANGED <<netVars, ownVars, arriving, reader, tasks, notifying, written>>

Spawn ==
  /\ acceptor = "spawn" /\ acceptor' = "check" /\ arriving' = {}
  /\ reader' = [c \in Conns |-> IF c \in arriving THEN "check" ELSE reader[c]]
  /\ UNCHANGED <<netVars, ownVars, clients, tasks, notifying, written>>

-----------------------------------------------------------------------------
(* ClientReadLoop and HandleMessage *)

\* Under write_mu, a line to c: nothing is written once the socket is shut. A send that
\* fails, or times out with a part written, is not noticed, and what is written next only
\* completes the garbage.
SendToConn(c, heard) ==
  \/ c \notin open /\ ~heard /\ UNCHANGED <<torn, cuts>>
  \/ c \in open /\ heard = (c \notin torn) /\ torn' = torn \ {c} /\ UNCHANGED cuts
  \/ /\ c \in open /\ ~heard /\ cuts[c] < MaxCuts[c]
     /\ cuts' = [cuts EXCEPT ![c] = @ + 1] /\ torn' \in {torn, torn \cup {c}}

Answered(c, m) ==
  \E heard \in BOOLEAN :
    /\ SendToConn(c, heard)
    /\ answers' = IF heard THEN [answers EXCEPT ![c][m] = @ + 1] ELSE answers

\* A request is posted to the group, a notification too; an invalid message or
\* an unknown method is answered by the read thread.
HandleMessage(c, m) ==
  IF KindOf[m] \in {"request", "notification"}
    THEN tasks' = tasks \cup {<<c, m>>} /\ UNCHANGED <<answers, torn, cuts>>
    ELSE Answered(c, m) /\ UNCHANGED tasks

ReadCheck(c) ==
  /\ reader[c] \in {"check", "lines"}
  /\ reader' = [reader EXCEPT ![c] = IF running /\ c \in open THEN "receive" ELSE "close"]
  /\ UNCHANGED <<netVars, ownVars, acceptor, arriving, clients, tasks, notifying, written>>

\* A line of the buffer; more lines may follow without another test of running_.
ReadLine(c, m) ==
  /\ reader[c] \in {"receive", "lines"} /\ m \in inbox[c]
  /\ inbox' = [inbox EXCEPT ![c] = @ \ {m}]
  /\ reader' = [reader EXCEPT ![c] = "lines"]
  /\ HandleMessage(c, m)
  /\ UNCHANGED <<open, dialled, gone, backlog, ownVars, acceptor, arriving, clients, notifying,
                 notified, due, notifies>>

ReadEnds(c) ==
  /\ reader[c] = "receive" /\ (c \notin open \/ c \in gone)
  /\ reader' = [reader EXCEPT ![c] = "close"]
  /\ UNCHANGED <<netVars, ownVars, acceptor, arriving, clients, tasks, notifying, written>>

\* The last section shuts the socket; the connection stays in clients_.
ReadClose(c) ==
  /\ reader[c] = "close" /\ reader' = [reader EXCEPT ![c] = "ended"]
  /\ open' = open \ {c}
  /\ UNCHANGED <<inbox, dialled, gone, backlog, ownVars, acceptor, arriving, clients, tasks,
                 notifying, written>>

-----------------------------------------------------------------------------
(* Handlers and broadcasts *)

\* A worker of handler_group_ runs the handler and sends what it returned.
RunHandler(c, m) ==
  /\ <<c, m>> \in tasks /\ tasks' = tasks \ {<<c, m>>}
  /\ IF KindOf[m] = "request" THEN Answered(c, m) ELSE UNCHANGED <<answers, torn, cuts>>
  /\ UNCHANGED <<netVars, ownVars, acceptor, arriving, clients, reader, notifying,
                 notified, due, notifies>>

Notify ==
  /\ notifying = {} /\ notifies < MaxNotify
  /\ notifying' = clients /\ notifies' = notifies + 1
  /\ due' = [c \in Conns |-> due[c] + IF c \in clients THEN 1 ELSE 0]
  /\ UNCHANGED <<netVars, ownVars, acceptor, arriving, clients, reader, tasks,
                 answers, notified, torn, cuts>>

NotifyOne_StopsAtClosed(c) ==
  /\ c \in notifying /\ notifying' = IF c \in open THEN notifying \ {c} ELSE {}
  /\ \E heard \in BOOLEAN :
       /\ SendToConn(c, heard)
       /\ notified' = IF heard THEN [notified EXCEPT ![c] = @ + 1] ELSE notified
  /\ UNCHANGED <<netVars, ownVars, acceptor, arriving, clients, reader, tasks,
                 answers, due, notifies>>
NotifyOne(c) ==
  /\ c \in notifying /\ notifying' = notifying \ {c}
  /\ \E heard \in BOOLEAN :
       /\ SendToConn(c, heard)
       /\ notified' = IF heard THEN [notified EXCEPT ![c] = @ + 1] ELSE notified
  /\ UNCHANGED <<netVars, ownVars, acceptor, arriving, clients, reader, tasks,
                 answers, due, notifies>>

-----------------------------------------------------------------------------
(* The clients *)

Dial(c) ==
  /\ listening /\ c \notin dialled
  /\ dialled' = dialled \cup {c}
  /\ backlog' = backlog \cup {c} /\ inbox' = [inbox EXCEPT ![c] = SentBy[c]]
  /\ UNCHANGED <<open, gone, ownVars, acceptor, arriving, clients, reader, tasks,
                 notifying, written>>

HangUp(c) ==
  /\ c \in open \ gone /\ gone' = gone \cup {c}
  /\ UNCHANGED <<open, inbox, dialled, backlog, ownVars, acceptor, arriving, clients, reader,
                 tasks, notifying, written>>

-----------------------------------------------------------------------------

Init ==
  /\ running = FALSE /\ listening = FALSE /\ acceptor = "none" /\ arriving = {}
  /\ backlog = {} /\ open = {} /\ clients = {}
  /\ dialled = {} /\ gone = {}
  /\ reader = [c \in Conns |-> "none"] /\ inbox = [c \in Conns |-> {}]
  /\ tasks = {} /\ owner = "idle" /\ stopping = {} /\ joining = {} /\ notifying = {}
  /\ answers = [c \in Conns |-> [m \in Messages |-> 0]]
  /\ notified = [c \in Conns |-> 0] /\ due = [c \in Conns |-> 0] /\ starts = 0 /\ notifies = 0
  /\ torn = {} /\ cuts = [c \in Conns |-> 0]

OwnerStep ==
  \/ CloseListener \/ JoinAcceptor \/ Stopped
  \/ \E c \in Conns : ShutdownOne(c) \/ JoinOne(c)
AcceptStep ==
  AcceptCheck \/ (\E c \in Conns : Accept(c)) \/ AcceptFails \/ Push \/ Spawn
ReadStep(c) ==
  ReadCheck(c) \/ (\E m \in Messages : ReadLine(c, m)) \/ ReadEnds(c) \/ ReadClose(c)

Next ==
  \/ Start \/ Stop \/ OwnerStep \/ AcceptStep
  \/ \E c \in Conns : ReadStep(c) \/ NotifyOne(c) \/ Dial(c) \/ HangUp(c)
  \/ \E c \in Conns, m \in Messages : RunHandler(c, m)
  \/ Notify

Spec == Init /\ [][Next]_vars

\* Threads are scheduled and handlers return.
Fairness ==
  /\ WF_vars(OwnerStep) /\ WF_vars(AcceptStep)
  /\ \A c \in Conns : WF_vars(ReadStep(c))
  /\ \A c \in Conns : \A m \in SentBy[c] : WF_vars(RunHandler(c, m))
FairSpec == Spec /\ Fairness

-----------------------------------------------------------------------------
(* Properties *)

TypeOK ==
  /\ {running, listening} \subseteq BOOLEAN
  /\ acceptor \in AcceptPc /\ owner \in OwnerPc /\ reader \in [Conns -> ReaderPc]
  /\ UNION {arriving, backlog, open, clients, dialled, gone, stopping, joining, notifying, torn}
       \subseteq Conns
  /\ inbox \in [Conns -> SUBSET Messages] /\ tasks \subseteq Conns \X Messages
  /\ answers \in [Conns -> [Messages -> Nat]] /\ notified \in [Conns -> Nat]
  /\ due \in [Conns -> Nat] /\ cuts \in [Conns -> Nat]
  /\ arriving # {} => acceptor \in {"push", "spawn"}

\* Requests are answered once, on their own connection, whichever of the read
\* thread and the workers does it; "notifications ... do not receive a response".
AnswersOnce ==
  \A c \in Conns, m \in Messages :
    answers[c][m] <= IF KindOf[m] = "notification" THEN 0 ELSE 1

\* A thread that Stop could miss does not exist: whatever Stop raced with, a
\* read thread runs only for a connection Stop will find.
ReadersReachable ==
  \A c \in Conns :
    reader[c] # "none" => c \in clients \cup stopping \cup joining

\* Once Stop has returned nobody is left behind it.
StopLeavesNothing ==
  (owner = "idle" /\ ~running) =>
    /\ acceptor = "none" /\ ~listening /\ clients = {} /\ open = {}
    /\ \A c \in Conns : reader[c] = "none"

\* After Stop nothing is written to a client any more, though handlers and
\* broadcasts that were under way go on.
SilentAfterStop ==
  [][(owner = "idle" /\ ~running) => UNCHANGED <<answers, notified, torn, cuts>>]_vars

\* "Send ... to all connected clients": whoever was connected when a broadcast began and
\* still is gets it once, though others close under it. A client that stalls loses, with each
\* line that is not written whole, that line and perhaps the one after it, and no more.
BroadcastsDelivered ==
  \A c \in open :
    due[c] - notified[c] - (IF c \in notifying THEN 1 ELSE 0) \in 0..(2 * cuts[c])

\* ClientCount counts sockets that are open: a connection that ended stays in
\* clients_ but is not counted.
CountsLive ==
  \A c \in clients : reader[c] = "ended" => c \notin open

\* Stop returns, although the threads it joins may be blocked in accept or read.
StopReturns == (owner = "closeListener") ~> (owner = "idle")

\* A request that was read is answered unless its connection closes first, or its client
\* has stalled.
RequestAnswered ==
  \A c \in Conns : \A m \in {x \in SentBy[c] : KindOf[x] = "request"} :
    (<<c, m>> \in tasks) ~> (answers[c][m] = 1 \/ c \notin open \/ cuts[c] > 0)

\* Stop can find every thread at any moment, and leaves none.
ThreadAccounting == TypeOK /\ ReadersReachable /\ StopLeavesNothing /\ CountsLive

\* Everybody gets what is due, once.
Delivery == BroadcastsDelivered /\ AnswersOnce

\* Stop returns and requests are answered.
Progress == StopReturns /\ RequestAnswered
=============================================================================
