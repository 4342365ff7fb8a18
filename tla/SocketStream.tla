---------------------------- MODULE SocketStream ----------------------------
(***************************************************************************)
(* One direction of a stream of UnixSocketRaw or UnixSocket, and the open  *)
(* files that are sent along: the connect, sends through a buffer of the   *)
(* kernel that may be full, and reads of any size. A system call is a      *)
(* step; the kernel and the peer do as they like between two.              *)
(***************************************************************************)
EXTENDS Integers, Sequences, FiniteSets, SequencesExt

CONSTANTS
  Loads,   \* of each possible sequence of messages: a length and a number of files
  Uses,    \* how the sockets are used, see Use
  Room,    \* bytes the kernel holds
  Asked    \* max_files of the reads

\* Whether the layer is UnixSocket, whether the sender is in blocking mode, and whether
\* it has a tx_timeout_ms_.
Use == [managed : BOOLEAN, blocking : BOOLEAN, timed : BOOLEAN]

VARIABLES
  load, use,  \* the application: a member of Loads and of Uses
  link,       \* the connection as the kernel sees it
  call,       \* the sender's: "none" before Connect, what it does, "idle", "shut"
  blocking,   \* the sender's file status flag
  answered,   \* what Connect returned
  message, rest, \* the message that is sent, and the bytes of it that are left
  taken, told,   \* history of each message: bytes the kernel took, what Send returned
  wire,       \* the kernel's bytes
  reader,     \* the receiver's socket: "open" or "shut"
  got,        \* history: the bytes that reads have taken from the kernel
  refused,    \* history: those of them that a read took and failed
  given, closed \* files: in the reader's fd_vec, and closed by Receive or the kernel
vars == <<load, use, link, call, blocking, answered, message, rest, taken, told, wire, reader,
          got, refused, given, closed>>

File(k) == {<<k, i>> : i \in 1..load[k].files}
\* Files are attached to the first byte.
Byte(k, i) == [of |-> k, at |-> i, files |-> IF i = 1 THEN File(k) ELSE {}]
Bytes(k) == [i \in 1..load[k].length |-> Byte(k, i)]
FilesOf(bytes) == UNION {bytes[i].files : i \in DOMAIN bytes}

-----------------------------------------------------------------------------
(* UnixSocketRaw::Connect *)

OtherThanConnect == UNCHANGED <<load, use, message, rest, taken, told, wire, reader, got, refused,
                                given, closed>>

\* With a timeout the socket is non-blocking meanwhile.
Connect ==
  /\ call = "none" /\ link' = "dialing" /\ call' = "connecting"
  /\ blocking' = (blocking /\ ~use.timed)
  /\ UNCHANGED answered /\ OtherThanConnect

Connected(answer) ==
  /\ call' = "idle" /\ blocking' = use.blocking /\ answered' = answer
  /\ UNCHANGED link /\ OtherThanConnect

\* connect, or the poll and SO_ERROR after it, knows how the attempt has ended.
ConnectEnds == call = "connecting" /\ link # "dialing" /\ Connected(link = "up")

\* A blocking connect waits, a timeout ends, and without one a non-blocking connect is
\* under way.
ConnectPending ==
  call = "connecting" /\ link = "dialing" /\ (use.timed \/ ~use.blocking) /\ Connected(~use.timed)

Dials ==
  /\ link = "dialing" /\ link' \in {"up", "refused"}
  /\ UNCHANGED <<call, blocking, answered>> /\ OtherThanConnect

-----------------------------------------------------------------------------
(* UnixSocketRaw::Send, and UnixSocket::Send around it *)

UnsentVars == <<load, use, link, answered, reader, got, refused, given>>

\* UnixSocket::Send makes the socket blocking.
Send ==
  /\ call = "idle" /\ answered /\ link # "dialing" /\ message < Len(load)
  /\ message' = message + 1 /\ rest' = Bytes(message') /\ call' = "sending"
  /\ blocking' = (blocking \/ use.managed)
  /\ UNCHANGED <<UnsentVars, taken, told, wire, closed>>

\* UnixSocket::Send shuts the socket unless everything was sent.
Returned(total) ==
  /\ told' = Append(told, total) /\ rest' = <<>>
  /\ blocking' = (blocking /\ ~use.managed)
  /\ IF use.managed /\ total # load[message].length
     THEN call' = "shut" /\ link' = "closed"
     ELSE call' = "idle" /\ UNCHANGED link

\* ShiftMsgHdrPosix
ShiftMsgHdr_Again(n) == rest' = IF n = Len(rest) THEN <<>> ELSE rest
ShiftMsgHdr(n) == rest' = SubSeq(rest, n + 1, Len(rest))

\* sendmsg takes some bytes, ...
SendSome(n) ==
  /\ call = "sending" /\ link = "up" /\ n <= Len(rest) /\ Len(wire) + n <= Room
  /\ wire' = wire \o SubSeq(rest, 1, n) /\ taken' = [taken EXCEPT ![message] = @ + n]
  /\ ShiftMsgHdr(n)
  /\ UNCHANGED <<UnsentVars, call, blocking, message, told, closed>>

\* ... until there are none; of a message without bytes it takes none, and no files.
SendAll ==
  /\ call = "sending" /\ rest = <<>>
  /\ Returned(taken[message])
  /\ closed' = IF load[message].length = 0 THEN closed \cup File(message) ELSE closed
  /\ UNCHANGED <<load, use, answered, reader, got, refused, given, message, taken, wire>>

\* Files go with the first byte or not at all.
Unattached == IF taken[message] = 0 THEN File(message) ELSE {}

\* There is no room: with a timeout poll waits for it until then or a signal, and a
\* non-blocking socket returns.
SendTimesOut ==
  /\ call = "sending" /\ rest # <<>> /\ Len(wire) = Room
  /\ use.timed \/ ~blocking
  /\ Returned(taken[message]) /\ closed' = closed \cup Unattached
  /\ UNCHANGED <<load, use, answered, reader, got, refused, given, message, taken, wire>>

\* The connection is broken, or a signal interrupts a wait in sendmsg.
SendFails ==
  /\ call = "sending" /\ rest # <<>>
  /\ link \in {"closed", "refused"} \/ (blocking /\ ~use.timed /\ Len(wire) = Room)
  /\ Returned(-1) /\ closed' = closed \cup Unattached
  /\ UNCHANGED <<load, use, answered, reader, got, refused, given, message, taken, wire>>

Sender ==
  ConnectEnds \/ ConnectPending \/ (\E n \in 1..Room : SendSome(n)) \/ SendAll
  \/ SendTimesOut \/ SendFails

-----------------------------------------------------------------------------
(* UnixSocketRaw::Receive, and UnixSocket::Receive around it *)

\* The buffer of CMSG_SPACE(max) has room for an even number of files.
Capacity(max) == 2 * ((max + 1) \div 2)

\* The kernel does not read on past a message that files came with.
Readable(n) ==
  n \in 1..Len(wire) /\ \A i, j \in 1..n : i < j /\ wire[i].files # {} => wire[j].of = wire[i].of

\* fd_vec takes max files and the rest are closed. Of more than there is room for all are
\* closed, and the read fails though its bytes are taken: UnixSocket::Receive then shuts the
\* socket, and a UnixSocketRaw goes on.
Receive(n, max) ==
  /\ reader = "open" /\ Readable(n)
  /\ LET bytes == SubSeq(wire, 1, n)
         files == FilesOf(bytes)
         kept  == {f \in files : f[2] <= max}
     IN /\ wire' = SubSeq(wire, n + 1, Len(wire))
        /\ got' = got \o bytes
        /\ IF Cardinality(files) > Capacity(max)
           THEN /\ refused' = refused \cup {bytes[i] : i \in 1..n}
                /\ closed' = closed \cup files /\ UNCHANGED given
                /\ IF use.managed THEN reader' = "shut" /\ link' = "closed"
                                  ELSE UNCHANGED <<reader, link>>
           ELSE /\ given' = given \cup kept
                /\ closed' = closed \cup (files \ kept) /\ UNCHANGED <<refused, reader, link>>
  /\ UNCHANGED <<load, use, call, blocking, answered, message, rest, taken, told>>

\* Nothing comes any more, and what was not read is lost with its files.
Shutdown ==
  /\ reader = "open" /\ link = "up"
  /\ reader' = "shut" /\ link' = "closed" /\ wire' = <<>> /\ closed' = closed \cup FilesOf(wire)
  /\ UNCHANGED <<load, use, call, blocking, answered, message, rest, taken, told, got, refused,
                 given>>

-----------------------------------------------------------------------------
Init ==
  /\ load \in Loads /\ use \in Uses
  /\ link = "none" /\ call = "none" /\ blocking = use.blocking /\ answered = FALSE
  /\ message = 0 /\ rest = <<>> /\ taken = [k \in DOMAIN load |-> 0] /\ told = <<>>
  /\ wire = <<>> /\ reader = "open" /\ got = <<>> /\ refused = {}
  /\ given = {} /\ closed = {}

Next ==
  \/ Connect \/ Dials \/ Send \/ Sender \/ Shutdown
  \/ \E n \in 1..Room, max \in Asked : Receive(n, max)

-----------------------------------------------------------------------------
(* Properties *)

\* What was sent is read in its order and nothing is lost while the reader is open, but what
\* a failed read took, after which a UnixSocket reads no more; after a message that was torn
\* it sends no other. Users of UnixSocketRaw may do both.
Whole == FlattenSeq([k \in 1..message |-> Bytes(k)])
Sent == FlattenSeq([k \in 1..message |-> SubSeq(Bytes(k), 1, taken[k])])
InOrder ==
  /\ reader = "open" => got \o wire = Sent
  /\ IsPrefix(got, IF use.managed THEN Whole ELSE Sent)
  /\ use.managed /\ refused # {} => reader = "shut"

\* "handling partial writes": what was said to be sent is what the kernel took, and the
\* files are gone with a message of which it took nothing.
ToldTrue ==
  \A k \in DOMAIN told :
    told[k] \in {-1, taken[k]} /\ (taken[k] = 0 => File(k) \subseteq closed)

\* A file is handed over or closed, once. It is handed over with the first byte of its
\* message, by a read that does not fail.
FilesAccounted ==
  /\ given \cap closed = {}
  /\ \A k \in DOMAIN told : \A f \in File(k) :
       Cardinality({i \in 1..3 : f \in <<given, closed, FilesOf(wire)>>[i]}) = 1
  /\ \A f \in given : \E i \in DOMAIN got : f \in got[i].files /\ got[i] \notin refused

\* A call leaves the socket as it was: the runner's thread must not wait for a read.
ModeRestored == call = "idle" => blocking = use.blocking

\* Connect with a timeout, or a blocking one, says whether there is a connection.
SaysConnected ==
  call = "idle" /\ message = 0 /\ (use.timed \/ use.blocking) /\ answered
    => link \in {"up", "closed"}

Safe == InOrder /\ ToldTrue /\ FilesAccounted /\ ModeRestored /\ SaysConnected

\* With a timeout, a send and a connect end whatever the peer does.
Waiting == use.timed /\ call \in {"connecting", "sending"}
Returns == Waiting ~> ~Waiting
=============================================================================
