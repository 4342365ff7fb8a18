------------------------------ MODULE IpcClient ------------------------------
(***************************************************************************)
(* IpcClient: threads make calls (Call waits for its answer, CallAsync     *)
(* leaves a callback), a reader thread matches answers to pending calls by *)
(* id, and the owner connects and disconnects. Each section under          *)
(* pending_mu_, PendingCall::mu or send_mu_ is a step. The peer is what    *)
(* IpcServer promises: it answers a request at most once, in any order,    *)
(* and may close the connection.                                           *)
(***************************************************************************)
EXTENDS Naturals, FiniteSets

CONSTANTS
  SyncCalls, AsyncCalls, \* the calls to be made; next_id_ never repeats an id
  MaxConnects, \* bound: connections a behaviour opens
  Faults       \* what may go wrong with transport and owner, of AllFaults

Calls == SyncCalls \cup AsyncCalls

\* late: a send on a connection the peer has closed may succeed (TCP);
\* partial: a send of either side may time out with part of the line written;
\* reconnect: the owner connects again without calling Disconnect.
AllFaults == {"late", "partial", "reconnect"}

ASSUME IpcAssumption ==
  /\ SyncCalls \cap AsyncCalls = {} /\ MaxConnects \in Nat
  /\ Faults \subseteq AllFaults

VARIABLES
  connected,  \* connected_
  socket,     \* socket_ holds a file descriptor
  peer,       \* the other end: "none", "open" or "closed"
  torn,       \* the last bytes written are a line without its end
  toServer,   \* requests the server has received and not answered
  toClient,   \* answers written and not read
  pending,    \* keys of pending_calls_
  done,       \* calls whose PendingCall::done is set
  result,     \* result[c]: what the call is completed with
  pc,         \* pc[c]: how far Call or CallAsync has come
  callbacks,  \* callbacks[c]: how often the callback was dispatched
  reader,     \* read_thread_: program counter of ReadLoop
  owner,      \* program counter of Disconnect
  taken,      \* taken[x]: calls FailPendingCalls or HandleMessage holds
  connects,   \* connections opened
  faults      \* the faults this client meets, chosen at the start

wireVars == <<connected, socket, peer, torn, toServer, toClient, connects,
              faults>>
callVars == <<pending, done, result, pc, callbacks>>
vars == <<wireVars, callVars, reader, owner, taken>>

CallPc   == {"new", "begun", "inserted", "unsent", "sent", "timedOut", "returned"}
ReaderPc == {"none", "check", "receive", "lines", "leaving", "failing", "ended",
             "terminated"}
OwnerPc  == {"idle", "shutdown", "join", "fail"}
Outcome  == {"none", "not connected", "send failed", "timeout", "disconnected", "answer"}

Joinable == reader \notin {"none", "terminated"}

-----------------------------------------------------------------------------
(* CompletePending *)

Completed(c, outcome) ==
  IF c \in done
    THEN UNCHANGED <<done, result, callbacks>>
    ELSE /\ done' = done \cup {c}
         /\ result' = [result EXCEPT ![c] = outcome]
         /\ callbacks' = IF c \in AsyncCalls THEN [callbacks EXCEPT ![c] = @ + 1]
                                             ELSE callbacks

-----------------------------------------------------------------------------
(* Call and CallAsync *)

Goto(c, label) == pc' = [pc EXCEPT ![c] = label]

\* The test of connected_; without a connection the error goes straight back.
Begin(c) ==
  /\ pc[c] = "new"
  /\ IF connected
       THEN Goto(c, "begun") /\ UNCHANGED <<done, result, callbacks>>
       ELSE Goto(c, "returned") /\ Completed(c, "not connected")
  /\ UNCHANGED <<wireVars, pending, reader, owner, taken>>

Insert(c) ==
  /\ pc[c] = "begun" /\ Goto(c, "inserted")
  /\ pending' = pending \cup {c}
  /\ UNCHANGED <<wireVars, done, result, callbacks, reader, owner, taken>>

\* After SendRaw CallAsync returns; Call waits.
Sent(c) == Goto(c, IF c \in SyncCalls THEN "sent" ELSE "returned")

\* A whole line is written. Behind a torn line it only completes garbage: the
\* server answers a parse error with a null id, which the client ignores.
Send(c) ==
  /\ pc[c] = "inserted" /\ socket /\ peer = "open"
  /\ Sent(c)
  /\ toServer' = IF torn THEN toServer ELSE toServer \cup {c}
  /\ torn' = FALSE
  /\ UNCHANGED <<connected, socket, peer, toClient, connects, faults, pending, done,
                 result, callbacks, reader, owner, taken>>

SendLate(c) ==
  /\ "late" \in faults /\ pc[c] = "inserted" /\ socket /\ peer = "closed"
  /\ Sent(c)
  /\ UNCHANGED <<wireVars, pending, done, result, callbacks, reader, owner, taken>>

SendFails(c) ==
  /\ pc[c] = "inserted"
  /\ \/ (~socket \/ peer # "open") /\ UNCHANGED torn
     \/ "partial" \in faults /\ socket /\ peer = "open" /\ torn' = TRUE
  /\ Goto(c, "unsent")
  /\ UNCHANGED <<connected, socket, peer, toServer, toClient, connects, faults,
                 pending, done, result, callbacks, reader, owner, taken>>

\* The id is taken out again, then the error goes back (by CompletePending in
\* CallAsync, whose call FailPendingCalls may hold at the same time).
Unsent(c) ==
  /\ pc[c] = "unsent" /\ Goto(c, "returned")
  /\ pending' = pending \ {c}
  /\ IF c \in AsyncCalls
       THEN Completed(c, "send failed")
       ELSE result' = [result EXCEPT ![c] = "send failed"] /\ UNCHANGED <<done, callbacks>>
  /\ UNCHANGED <<wireVars, reader, owner, taken>>

Wake(c) ==
  /\ pc[c] = "sent" /\ c \in done
  /\ Goto(c, "returned")
  /\ UNCHANGED <<wireVars, pending, done, result, callbacks, reader, owner, taken>>

TimeOut(c) ==
  /\ pc[c] = "sent" /\ c \notin done
  /\ Goto(c, "timedOut")
  /\ UNCHANGED <<wireVars, pending, done, result, callbacks, reader, owner, taken>>

GiveUp(c) ==
  /\ pc[c] = "timedOut" /\ Goto(c, "returned")
  /\ pending' = pending \ {c}
  /\ result' = [result EXCEPT ![c] = "timeout"]
  /\ UNCHANGED <<wireVars, done, callbacks, reader, owner, taken>>

CallStep(c) ==
  \/ Begin(c) \/ Insert(c) \/ Send(c) \/ SendLate(c) \/ SendFails(c)
  \/ Unsent(c) \/ Wake(c) \/ GiveUp(c)

-----------------------------------------------------------------------------
(* ReadLoop. The lines of one buffer are handled without another test of    *)
(* connected_.                                                              *)

CheckConnected ==
  /\ reader = "check" \/ (reader = "lines" /\ taken.reader = {})
  /\ reader' = IF connected /\ socket THEN "receive" ELSE "leaving"
  /\ UNCHANGED <<wireVars, callVars, owner, taken>>

\* HandleMessage: the section that matches an answer to its pending call.
Receive_Keeps(c) ==
  /\ reader \in {"receive", "lines"} /\ taken.reader = {} /\ c \in toClient
  /\ reader' = "lines"
  /\ toClient' = toClient \ {c}
  /\ taken' = [taken EXCEPT !.reader = pending \cap {c}]
  /\ UNCHANGED <<connected, socket, peer, torn, toServer, connects, faults, callVars, owner>>
Receive(c) ==
  /\ reader \in {"receive", "lines"} /\ taken.reader = {} /\ c \in toClient
  /\ reader' = "lines"
  /\ toClient' = toClient \ {c}
  /\ taken' = [taken EXCEPT !.reader = pending \cap {c}]
  /\ pending' = pending \ {c}
  /\ UNCHANGED <<connected, socket, peer, torn, toServer, connects, faults, done,
                 result, pc, callbacks, owner>>

Answer(c) ==
  /\ reader = "lines" /\ c \in taken.reader
  /\ taken' = [taken EXCEPT !.reader = {}]
  /\ Completed(c, "answer")
  /\ UNCHANGED <<wireVars, pending, pc, reader, owner>>

\* Receive returns nothing more.
HangUp ==
  /\ reader = "receive" /\ peer # "open"
  /\ connected' = FALSE /\ reader' = "leaving"
  /\ UNCHANGED <<socket, peer, torn, toServer, toClient, connects, faults, callVars,
                 owner, taken>>

\* FailPendingCalls: take everything under the lock, complete it without.
TakePending(x) ==
  /\ taken' = [taken EXCEPT ![x] = pending] /\ pending' = {}

ReaderTakes ==
  /\ reader = "leaving" /\ reader' = "failing"
  /\ TakePending("reader")
  /\ UNCHANGED <<wireVars, done, result, pc, callbacks, owner>>

ReaderFails(c) ==
  /\ reader = "failing" /\ c \in taken.reader
  /\ taken' = [taken EXCEPT !.reader = @ \ {c}]
  /\ Completed(c, "disconnected")
  /\ UNCHANGED <<wireVars, pending, pc, reader, owner>>

ReaderEnds ==
  /\ reader = "failing" /\ taken.reader = {}
  /\ reader' = "ended"
  /\ UNCHANGED <<wireVars, callVars, owner, taken>>

ReaderStep ==
  \/ \E c \in Calls : Receive(c) \/ Answer(c) \/ ReaderFails(c)
  \/ CheckConnected \/ HangUp \/ ReaderTakes \/ ReaderEnds

-----------------------------------------------------------------------------
(* Connect and Disconnect, called by the owner *)

\* Assigning read_thread_ while the old thread is joinable terminates the
\* program.
Connect ==
  /\ owner = "idle" /\ ~connected /\ connects < MaxConnects
  /\ "reconnect" \in faults \/ ~Joinable
  /\ connected' = TRUE /\ socket' = TRUE /\ peer' = "open" /\ torn' = FALSE
  /\ toServer' = {} /\ toClient' = {} /\ connects' = connects + 1
  /\ reader' = IF Joinable THEN "terminated" ELSE "check"
  /\ UNCHANGED <<faults, callVars, owner, taken>>

Disconnect ==
  /\ owner = "idle" /\ reader # "terminated" /\ owner' = "shutdown"
  /\ connected' = FALSE
  /\ UNCHANGED <<socket, peer, torn, toServer, toClient, connects, faults, callVars,
                 reader, taken>>

ShutdownSocket ==
  /\ owner = "shutdown" /\ owner' = "join"
  /\ socket' = FALSE /\ peer' = "none"
  /\ UNCHANGED <<connected, torn, toServer, toClient, connects, faults, callVars, reader,
                 taken>>

Join ==
  /\ owner = "join" /\ reader \in {"none", "ended"}
  /\ owner' = "fail" /\ reader' = "none"
  /\ TakePending("owner")
  /\ UNCHANGED <<wireVars, done, result, pc, callbacks>>

OwnerFails(c) ==
  /\ owner = "fail" /\ c \in taken.owner
  /\ taken' = [taken EXCEPT !.owner = @ \ {c}]
  /\ Completed(c, "disconnected")
  /\ UNCHANGED <<wireVars, pending, pc, reader, owner>>

Disconnected ==
  /\ owner = "fail" /\ taken.owner = {}
  /\ owner' = "idle"
  /\ UNCHANGED <<wireVars, callVars, reader, taken>>

OwnerStep == ShutdownSocket \/ Join \/ (\E c \in Calls : OwnerFails(c)) \/ Disconnected

-----------------------------------------------------------------------------
(* The peer *)

Reply(c) ==
  /\ peer = "open" /\ c \in toServer
  /\ toServer' = toServer \ {c} /\ toClient' = toClient \cup {c}
  /\ UNCHANGED <<connected, socket, peer, torn, connects, faults, callVars, reader, owner,
                 taken>>

\* The server has not written its whole line, does not notice and keeps the connection; what
\* the client reads of it is no JSON.
ReplyLost(c) ==
  /\ "partial" \in faults /\ peer = "open" /\ c \in toServer
  /\ toServer' = toServer \ {c}
  /\ UNCHANGED <<connected, socket, peer, torn, toClient, connects, faults, callVars, reader,
                 owner, taken>>

\* What was answered before the end can still be read.
PeerCloses ==
  /\ peer = "open" /\ peer' = "closed" /\ toServer' = {}
  /\ UNCHANGED <<connected, socket, torn, toClient, connects, faults, callVars, reader,
                 owner, taken>>

-----------------------------------------------------------------------------

Init ==
  /\ connected = FALSE /\ socket = FALSE /\ peer = "none" /\ torn = FALSE
  /\ toServer = {} /\ toClient = {} /\ connects = 0 /\ faults \in SUBSET Faults
  /\ pending = {} /\ done = {} /\ result = [c \in Calls |-> "none"]
  /\ pc = [c \in Calls |-> "new"] /\ callbacks = [c \in Calls |-> 0]
  /\ reader = "none" /\ owner = "idle" /\ taken = [reader |-> {}, owner |-> {}]

Next ==
  \/ \E c \in Calls : CallStep(c) \/ TimeOut(c) \/ Reply(c) \/ ReplyLost(c)
  \/ ReaderStep
  \/ Connect \/ Disconnect \/ OwnerStep
  \/ PeerCloses

Spec == Init /\ [][Next]_vars

\* Threads are scheduled and waits end in time; a server that has a request and
\* keeps its connection answers.
Fairness ==
  /\ \A c \in Calls : WF_vars(CallStep(c)) /\ WF_vars(TimeOut(c)) /\ WF_vars(Reply(c))
  /\ WF_vars(ReaderStep) /\ WF_vars(OwnerStep)

FairSpec == Spec /\ Fairness

-----------------------------------------------------------------------------
(* Properties *)

TypeOK ==
  /\ {connected, socket, torn} \subseteq BOOLEAN
  /\ peer \in {"none", "open", "closed"}
  /\ toServer \subseteq Calls /\ toClient \subseteq Calls
  /\ pending \subseteq Calls /\ done \subseteq Calls
  /\ result \in [Calls -> Outcome] /\ pc \in [Calls -> CallPc]
  /\ callbacks \in [Calls -> Nat]
  /\ reader \in ReaderPc /\ owner \in OwnerPc
  /\ taken \in [reader : SUBSET Calls, owner : SUBSET Calls]
  /\ taken.reader # {} => reader \in {"lines", "failing", "terminated"}
  /\ taken.owner # {} => owner = "fail"
  /\ connects \in 0..MaxConnects /\ faults \subseteq Faults

\* Answer, failed send, hang-up and Disconnect race to complete a call; its
\* callback is dispatched once.
CallbackOnce == \A c \in AsyncCalls : callbacks[c] <= 1

\* A call belongs to one party at most: the map, the reader or Disconnect.
OneHolder ==
  /\ pending \cap (taken.reader \cup taken.owner) = {}
  /\ taken.reader \cap taken.owner = {}

\* Call leaves nothing behind: whatever answer comes late, a call that has
\* returned has no entry in pending_calls_.
NoEntryLeft == \A c \in SyncCalls : pc[c] = "returned" => c \notin pending

\* "newline-delimited JSON-RPC 2.0 messages": on a connection in good order, a
\* call that was sent and is still pending is with the server or on its way
\* back, unless a send of either side timed out half way and left a torn line.
SentIsInFlight ==
  "partial" \notin faults =>
    \A c \in pending :
      /\ pc[c] \in {"sent", "returned"}
      /\ connected /\ peer = "open" /\ reader \in {"check", "receive", "lines"}
      => c \in toServer \cup toClient

\* "Wake all pending calls on disconnect": once the reader has ended, the only
\* pending calls are those still about to send.
WakesAllPending ==
  reader \in {"none", "ended"} /\ owner = "idle"
    => \A c \in pending : pc[c] \in {"inserted", "unsent", "timedOut"}

\* It holds on a transport that reports a send to a closed peer as failed.
AllWoken == "late" \notin faults => WakesAllPending

\* A synchronous call that was made returns, whatever becomes of the
\* connection, and Disconnect does not wait for ever for the read thread.
CallReturns == \A c \in SyncCalls : (pc[c] = "begun") ~> (pc[c] = "returned")
DisconnectReturns == (owner = "shutdown") ~> (owner = "idle")

\* An asynchronous call, which has no timeout, gets its callback whatever becomes
\* of the connection, on a transport that loses no line silently.
CallbackComes ==
  \A c \in AsyncCalls :
    (pc[c] = "begun" /\ faults = {}) ~> (callbacks[c] = 1)

\* Every call is in one pair of hands, once, and leaves nothing behind.
CallAccounting ==
  TypeOK /\ CallbackOnce /\ OneHolder /\ NoEntryLeft /\ SentIsInFlight /\ AllWoken

\* Calls, callbacks and Disconnect all come back.
Progress == CallReturns /\ DisconnectReturns /\ CallbackComes
=============================================================================
