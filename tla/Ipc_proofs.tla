------------------------------ MODULE Ipc_proofs ------------------------------
(***************************************************************************)
(* The parts of MCIpc and their composition, for any calls, connections,   *)
(* messages, bounds and faults. IpcClient: a call is in one pair of hands, *)
(* is completed once, and leaves nothing behind. IpcServer: Stop finds     *)
(* every thread and leaves none, nothing is written once it has returned,  *)
(* and broadcasts and answers come once. Udp: a datagram is heard as it    *)
(* was sent, from a client that is known. SocketStream: bytes come in      *)
(* their order, and every file ends in one place.                          *)
(***************************************************************************)
EXTENDS MCIpc, TLAPS, SequenceTheorems, WellFoundedInduction, FiniteSetTheorems

Taken == taken.reader \cup taken.owner
Unsettled == {"inserted", "unsent"}

\* Who holds a call: the map, the reader or Disconnect. A call that is not yet in
\* the map is with none of them, and one that is done is not in the map.
Holding ==
  /\ pending \cap Taken = {} /\ taken.reader \cap taken.owner = {}
  /\ \A c \in Calls : pc[c] \in {"new", "begun"} => c \notin pending \cup Taken \cup done
  /\ pending \cap done = {}
  /\ \A c \in Calls : callbacks[c] = IF c \in done \cap AsyncCalls THEN 1 ELSE 0

\* What the reader's place says of the connection: it leaves its loop because the
\* peer hung up or the owner disconnects, and it is joined without a socket.
Wires ==
  /\ "partial" \notin faults => ~torn
  /\ owner = "join" => ~socket
  /\ owner = "fail" => reader = "none"
  /\ reader = "none" => ~socket
  /\ reader = "terminated" => connected
  /\ reader \in {"check", "receive", "lines"} /\ owner = "idle" => connected /\ socket
  /\ reader \in {"leaving", "failing", "ended"} /\ owner = "idle" => peer # "open"

\* Once FailPendingCalls took the map, a call that enters it cannot be sent, so it
\* is about to take itself out again.
Waking ==
  /\ reader = "none" => \A c \in pending : pc[c] \in Unsettled
  /\ (reader \in {"failing", "ended"} /\ owner = "idle" /\ "late" \notin faults)
       => \A c \in pending : pc[c] \in Unsettled

IInv == TypeOK /\ Holding /\ Wires /\ Waking /\ NoEntryLeft /\ SentIsInFlight

\* CompletePending counts a callback with the first completion.
LEMMA CompletedOnce ==
  ASSUME IInv, NEW c \in Calls, NEW outcome \in Outcome, Completed(c, outcome)
  PROVE  /\ done' = done \cup {c}
         /\ result' \in [Calls -> Outcome] /\ callbacks' \in [Calls -> Nat]
         /\ \A x \in Calls : callbacks'[x] = IF x \in done' \cap AsyncCalls THEN 1 ELSE 0
<1>1. callbacks \in [Calls -> Nat] /\ result \in [Calls -> Outcome]
  BY DEF IInv, TypeOK
<1>2. \A x \in Calls : callbacks[x] = IF x \in done \cap AsyncCalls THEN 1 ELSE 0
  BY DEF IInv, Holding
<1>3. CASE c \in done
  <2>1. UNCHANGED <<done, result, callbacks>> /\ done \cup {c} = done
    BY <1>3 DEF Completed
  <2> QED BY <1>1, <1>2, <2>1
<1>4. CASE c \notin done
  <2>1. done' = done \cup {c} /\ result' = [result EXCEPT ![c] = outcome]
        /\ callbacks' = IF c \in AsyncCalls THEN [callbacks EXCEPT ![c] = @ + 1] ELSE callbacks
    BY <1>4 DEF Completed
  <2>2. callbacks[c] = 0
    BY <1>2, <1>4
  <2> QED BY <1>1, <1>2, <1>4, <2>1, <2>2
<1> QED BY <1>3, <1>4

\* pc after Goto.
LEMMA Gone ==
  ASSUME IInv, NEW c \in Calls, NEW label \in CallPc, Goto(c, label)
  PROVE  /\ pc' \in [Calls -> CallPc] /\ pc'[c] = label
         /\ \A x \in Calls \ {c} : pc'[x] = pc[x]
BY DEF IInv, TypeOK, Goto

\* The steps of a call.
LEMMA BeginInv == ASSUME IInv, NEW c \in Calls, Begin(c) PROVE IInv'
<1> USE DEF Begin, wireVars
<1>1. c \notin pending \cup Taken \cup done
  BY DEF IInv, Holding
<1>2. CASE connected
  <2>1. Goto(c, "begun") /\ UNCHANGED <<done, result, callbacks>> /\ "begun" \in CallPc
    BY <1>2 DEF CallPc
  <2>2. pc' \in [Calls -> CallPc] /\ pc'[c] = "begun" /\ \A x \in Calls \ {c} : pc'[x] = pc[x]
    BY <2>1, Gone
  <2> QED BY <1>1, <2>1, <2>2 DEF IInv, TypeOK, Holding, Wires, Waking, Unsettled, NoEntryLeft,
             SentIsInFlight, Taken
<1>3. CASE ~connected
  <2>1. /\ Goto(c, "returned") /\ Completed(c, "not connected") /\ "returned" \in CallPc
        /\ "not connected" \in Outcome
    BY <1>3 DEF CallPc, Outcome
  <2>2. pc' \in [Calls -> CallPc] /\ pc'[c] = "returned" /\ \A x \in Calls \ {c} : pc'[x] = pc[x]
    BY <2>1, Gone
  <2>3. /\ done' = done \cup {c}
        /\ result' \in [Calls -> Outcome] /\ callbacks' \in [Calls -> Nat]
        /\ \A x \in Calls : callbacks'[x] = IF x \in done' \cap AsyncCalls THEN 1 ELSE 0
    BY <2>1, CompletedOnce
  <2>4. TypeOK'
    BY <2>2, <2>3 DEF IInv, TypeOK
  <2>5. Holding'
    BY <1>1, <2>2, <2>3 DEF IInv, Holding, Taken
  <2>6. Wires'
    BY DEF IInv, Wires
  <2>7. Waking'
    BY <1>1, <2>2 DEF IInv, TypeOK, Waking, Unsettled
  <2>8. NoEntryLeft' /\ SentIsInFlight'
    BY <1>1, <1>3, <2>2 DEF IInv, TypeOK, NoEntryLeft, SentIsInFlight
  <2> QED BY <2>4, <2>5, <2>6, <2>7, <2>8 DEF IInv
<1> QED BY <1>2, <1>3

LEMMA InsertInv == ASSUME IInv, NEW c \in Calls, Insert(c) PROVE IInv'
<1> USE DEF Insert, wireVars
<1>1. c \notin pending \cup Taken \cup done
  BY DEF IInv, Holding
<1>2. /\ pc' \in [Calls -> CallPc] /\ pc'[c] = "inserted"
      /\ \A x \in Calls \ {c} : pc'[x] = pc[x]
  <2>1. "inserted" \in CallPc
    BY DEF CallPc
  <2> QED BY <2>1, Gone
<1>3. TypeOK'
  BY <1>2 DEF IInv, TypeOK
<1>4. Holding'
  BY <1>1, <1>2 DEF IInv, Holding, Taken
<1>5. Wires' /\ Waking'
  BY <1>1, <1>2 DEF IInv, TypeOK, Wires, Waking, Unsettled
<1>6. NoEntryLeft' /\ SentIsInFlight'
  BY <1>1, <1>2 DEF IInv, TypeOK, NoEntryLeft, SentIsInFlight, Calls
<1> QED BY <1>3, <1>4, <1>5, <1>6 DEF IInv

\* SendRaw: what is sent is with the server; what cannot be is about to be taken out.
LEMMA SendInv ==
  ASSUME IInv, NEW c \in Calls, Send(c) \/ SendLate(c) \/ SendFails(c) PROVE IInv'
<1> USE DEF Send, SendLate, SendFails, wireVars
<1>1. PICK label \in CallPc \ {"new", "begun"} : Goto(c, label)
  BY DEF Sent, CallPc
<1>2. /\ pc' \in [Calls -> CallPc] /\ pc'[c] = label /\ pc[c] = "inserted"
      /\ \A x \in Calls \ {c} : pc'[x] = pc[x]
  BY <1>1, Gone
<1>3. TypeOK'
  BY <1>2 DEF IInv, TypeOK
<1>4. Holding'
  <2>1. UNCHANGED <<pending, taken, done, callbacks>>
    OBVIOUS
  <2> QED BY <1>2, <2>1 DEF IInv, Holding, Taken
<1>5. Wires'
  BY DEF IInv, Wires, TypeOK
<1>6. UNCHANGED <<pending, reader, owner, faults, socket, peer, connected>>
  OBVIOUS
<1>7. Waking'
  <2>1. CASE SendFails(c)
    <3>1. label = "unsent"
      BY <1>2, <2>1 DEF Goto, IInv, TypeOK
    <3> QED BY <1>2, <1>6, <3>1 DEF IInv, Waking, TypeOK, Unsettled
  <2>2. CASE Send(c) \/ SendLate(c)
    <3>1. socket /\ (peer = "open" \/ "late" \in faults)
      BY <2>2
    <3>2. reader # "none"
      BY <3>1 DEF IInv, Wires
    <3>3. ~(reader \in {"failing", "ended"} /\ owner = "idle" /\ "late" \notin faults)
      BY <3>1 DEF IInv, Wires
    <3> QED BY <1>6, <3>2, <3>3 DEF Waking
  <2> QED BY <2>1, <2>2
<1>8. NoEntryLeft'
  <2>1. label = "returned" => c \notin SyncCalls
    BY <1>2 DEF Sent, Goto, IInv, TypeOK
  <2> QED BY <1>2, <1>6, <2>1 DEF IInv, NoEntryLeft, Calls
<1>9. SentIsInFlight'
  <2> SUFFICES ASSUME "partial" \notin faults, NEW x \in pending, pc'[x] \in {"sent", "returned"},
                      connected, peer = "open", reader \in {"check", "receive", "lines"}
               PROVE  x \in toServer' \cup toClient'
    BY <1>6 DEF SentIsInFlight
  <2>1. pending \subseteq Calls /\ toServer \subseteq toServer' /\ toClient' = toClient
    BY DEF IInv, TypeOK
  <2>2. CASE x # c
    BY <1>2, <2>1, <2>2 DEF IInv, SentIsInFlight
  <2>3. CASE x = c
    <3>1. ~SendFails(c) /\ ~torn
      BY <1>2, <2>3 DEF Goto, IInv, TypeOK, Wires
    <3> QED BY <2>3, <3>1
  <2> QED BY <2>2, <2>3
<1> QED BY <1>3, <1>4, <1>5, <1>7, <1>8, <1>9 DEF IInv

\* The call takes itself out of the map: after a failed send, or in time.
LEMMA LeaveInv == ASSUME IInv, NEW c \in Calls, Unsent(c) \/ GiveUp(c) PROVE IInv'
<1> USE DEF Unsent, GiveUp, wireVars
<1>1. /\ pc' \in [Calls -> CallPc] /\ pc'[c] = "returned" /\ pending' = pending \ {c}
      /\ \A x \in Calls \ {c} : pc'[x] = pc[x]
  <2>1. "returned" \in CallPc
    BY DEF CallPc
  <2> QED BY <2>1, Gone
<1>2. /\ done \subseteq done' /\ done' \subseteq done \cup {c} /\ result' \in [Calls -> Outcome]
      /\ callbacks' \in [Calls -> Nat]
      /\ \A x \in Calls : callbacks'[x] = IF x \in done' \cap AsyncCalls THEN 1 ELSE 0
  <2>1. {"send failed", "timeout"} \subseteq Outcome
    BY DEF Outcome
  <2>2. CASE Completed(c, "send failed")
    BY <2>1, <2>2, CompletedOnce
  <2>3. CASE ~Completed(c, "send failed")
    <3>1. UNCHANGED <<done, callbacks>> /\ \E o \in Outcome : result' = [result EXCEPT ![c] = o]
      BY <2>1, <2>3
    <3> QED BY <3>1 DEF IInv, TypeOK, Holding
  <2> QED BY <2>2, <2>3
<1>3. pc[c] \in {"unsent", "timedOut"}
      /\ UNCHANGED <<connected, socket, peer, torn, toServer, toClient, connects, faults>>
      /\ UNCHANGED <<reader, owner, taken>>
  OBVIOUS
<1> HIDE DEF Unsent, GiveUp
<1>4. TypeOK'
  BY <1>1, <1>2, <1>3 DEF IInv, TypeOK
<1>5. Holding'
  BY <1>1, <1>2, <1>3 DEF IInv, Holding, Taken
<1>6. Wires' /\ Waking'
  BY <1>1, <1>3 DEF IInv, TypeOK, Wires, Waking
<1>7. NoEntryLeft' /\ SentIsInFlight'
  BY <1>1, <1>3 DEF IInv, TypeOK, NoEntryLeft, SentIsInFlight, Calls
<1> QED BY <1>4, <1>5, <1>6, <1>7 DEF IInv

\* Call wakes because it is done, or because its time is up.
LEMMA WakeInv == ASSUME IInv, NEW c \in Calls, Wake(c) \/ TimeOut(c) PROVE IInv'
<1> USE DEF Wake, TimeOut, wireVars
<1>1. PICK label \in {"returned", "timedOut"} : Goto(c, label) /\ (label = "returned" => c \in done)
  OBVIOUS
<1>2. /\ pc' \in [Calls -> CallPc] /\ pc'[c] = label /\ pc[c] = "sent"
      /\ \A x \in Calls \ {c} : pc'[x] = pc[x]
  <2>1. label \in CallPc
    BY DEF CallPc
  <2> QED BY <1>1, <2>1, Gone
<1>3. UNCHANGED <<wireVars, pending, done, result, callbacks, reader, owner, taken>>
  OBVIOUS
<1> HIDE DEF Wake, TimeOut
<1>4. TypeOK'
  BY <1>2, <1>3 DEF IInv, TypeOK
<1>5. Holding'
  BY <1>2, <1>3 DEF IInv, Holding, Taken
<1>6. Wires' /\ Waking'
  BY <1>2, <1>3 DEF IInv, TypeOK, Wires, Waking, Unsettled
<1>7. NoEntryLeft' /\ SentIsInFlight'
  <2>1. label = "returned" => c \notin pending
    BY <1>1 DEF IInv, Holding
  <2> QED BY <1>2, <1>3, <2>1 DEF IInv, TypeOK, NoEntryLeft, SentIsInFlight, Calls
<1> QED BY <1>4, <1>5, <1>6, <1>7 DEF IInv

-----------------------------------------------------------------------------
(* The reader *)

LEMMA ReceiveInv == ASSUME IInv, NEW c \in Calls, Receive(c) PROVE IInv'
<1> USE DEF Receive
<1>1. /\ taken' = [taken EXCEPT !.reader = pending \cap {c}] /\ pending' = pending \ {c}
      /\ taken.reader = {} /\ taken \in [reader : SUBSET Calls, owner : SUBSET Calls]
      /\ taken'.reader = pending \cap {c} /\ taken'.owner = taken.owner
      /\ reader \in {"receive", "lines"} /\ reader' = "lines" /\ toClient' = toClient \ {c}
      /\ UNCHANGED <<done, result, pc, callbacks, owner>>
      /\ UNCHANGED <<connected, socket, peer, torn, toServer, connects, faults>>
  BY DEF IInv, TypeOK
<1> HIDE DEF Receive
<1>2. TypeOK'
  <2>1. taken' \in [reader : SUBSET Calls, owner : SUBSET Calls]
    BY <1>1
  <2>2. reader' \in ReaderPc
    BY <1>1 DEF ReaderPc
  <2> QED BY <1>1, <2>1, <2>2 DEF IInv, TypeOK
<1>3. Holding'
  BY <1>1 DEF IInv, Holding, Taken
<1>4. Wires' /\ Waking'
  BY <1>1 DEF IInv, Wires, Waking
<1>5. NoEntryLeft' /\ SentIsInFlight'
  BY <1>1 DEF IInv, NoEntryLeft, SentIsInFlight
<1> QED BY <1>2, <1>3, <1>4, <1>5 DEF IInv

\* A call the reader or Disconnect holds is completed and let go.
LEMMA CompleteInv ==
  ASSUME IInv, NEW c \in Taken, NEW outcome \in Outcome, Completed(c, outcome),
         taken'.reader \subseteq taken.reader, taken'.owner \subseteq taken.owner,
         taken' \in [reader : SUBSET Calls, owner : SUBSET Calls],
         UNCHANGED <<wireVars, pending, pc, reader, owner>>
  PROVE  IInv'
<1>1. c \in Calls /\ c \notin pending
  BY DEF IInv, TypeOK, Taken, Holding
<1>2. /\ done' = done \cup {c}
      /\ result' \in [Calls -> Outcome] /\ callbacks' \in [Calls -> Nat]
      /\ \A x \in Calls : callbacks'[x] = IF x \in done' \cap AsyncCalls THEN 1 ELSE 0
  BY <1>1, CompletedOnce
<1>3. TypeOK'
  <2>1. /\ (taken'.reader # {} => taken.reader # {}) /\ (taken'.owner # {} => taken.owner # {})
        /\ done' \subseteq Calls
    BY <1>1, <1>2 DEF IInv, TypeOK
  <2> QED BY <1>2, <2>1 DEF IInv, TypeOK, wireVars
<1>4. Holding'
  <2>1. pc[c] \notin {"new", "begun"}
    BY <1>1 DEF IInv, Holding
  <2> QED BY <1>1, <1>2, <2>1 DEF IInv, Holding, Taken
<1>5. Wires' /\ Waking' /\ NoEntryLeft' /\ SentIsInFlight'
  BY DEF IInv, Wires, Waking, NoEntryLeft, SentIsInFlight, wireVars
<1> QED BY <1>3, <1>4, <1>5 DEF IInv

\* FailPendingCalls empties the map into the hands of one party.
LEMMA TakeInv ==
  ASSUME IInv, NEW x \in {"reader", "owner"}, TakePending(x), taken[x] = {}, pc' = pc
  PROVE  /\ taken' \in [reader : SUBSET Calls, owner : SUBSET Calls]
         /\ taken'[x] = pending /\ pending' = {}
         /\ x = "reader" => taken'.owner = taken.owner
         /\ x = "owner" => taken'.reader = taken.reader
         /\ done' = done /\ callbacks' = callbacks => Holding'
<1>1. taken \in [reader : SUBSET Calls, owner : SUBSET Calls] /\ pending \subseteq Calls
  BY DEF IInv, TypeOK
<1>2. taken' = [taken EXCEPT ![x] = pending] /\ pending' = {}
  BY DEF TakePending
<1>3. CASE x = "reader"
  <2>1. taken'.reader = pending /\ taken'.owner = taken.owner
        /\ taken' \in [reader : SUBSET Calls, owner : SUBSET Calls]
    BY <1>1, <1>2, <1>3
  <2>2. done' = done /\ callbacks' = callbacks => Holding'
    BY <1>2, <2>1 DEF IInv, Holding, Taken
  <2> QED BY <1>2, <1>3, <2>1, <2>2
<1>4. CASE x = "owner"
  <2>1. taken'.owner = pending /\ taken'.reader = taken.reader
        /\ taken' \in [reader : SUBSET Calls, owner : SUBSET Calls]
    BY <1>1, <1>2, <1>4
  <2>2. done' = done /\ callbacks' = callbacks => Holding'
    BY <1>2, <2>1 DEF IInv, Holding, Taken
  <2> QED BY <1>2, <1>4, <2>1, <2>2
<1> QED BY <1>3, <1>4

LEMMA ReaderInv == ASSUME IInv, ReaderStep PROVE IInv'
<1>1. ASSUME NEW c \in Calls, Answer(c) \/ ReaderFails(c) PROVE IInv'
  <2> USE <1>1 DEF Answer, ReaderFails
  <2>1. c \in Taken /\ taken \in [reader : SUBSET Calls, owner : SUBSET Calls]
    BY DEF Taken, IInv, TypeOK
  <2>2. PICK left \in SUBSET taken.reader : taken' = [taken EXCEPT !.reader = left]
    BY <2>1
  <2>3. /\ taken'.reader \subseteq taken.reader /\ taken'.owner \subseteq taken.owner
        /\ taken' \in [reader : SUBSET Calls, owner : SUBSET Calls]
    BY <2>1, <2>2
  <2>4. PICK outcome \in Outcome : Completed(c, outcome)
    BY DEF Outcome
  <2>5. UNCHANGED <<wireVars, pending, pc, reader, owner>>
    OBVIOUS
  <2> HIDE DEF Answer, ReaderFails
  <2> QED BY <2>1, <2>3, <2>4, <2>5, CompleteInv
<1>2. CASE CheckConnected
  <2> USE <1>2 DEF CheckConnected, wireVars, callVars
  <2>1. TypeOK'
    BY DEF IInv, TypeOK, ReaderPc
  <2>2. Wires'
    BY DEF IInv, Wires
  <2>3. Holding' /\ Waking' /\ NoEntryLeft'
    BY DEF IInv, Holding, Taken, Waking, NoEntryLeft
  <2>4. SentIsInFlight'
    BY DEF IInv, SentIsInFlight
  <2> QED BY <2>1, <2>2, <2>3, <2>4 DEF IInv
<1>3. CASE HangUp
  <2> USE <1>3 DEF HangUp, callVars
  <2>1. TypeOK'
    BY DEF IInv, TypeOK, ReaderPc
  <2>2. Wires'
    BY DEF IInv, Wires
  <2>3. Holding' /\ Waking' /\ NoEntryLeft' /\ SentIsInFlight'
    BY DEF IInv, Holding, Taken, Waking, NoEntryLeft, SentIsInFlight
  <2> QED BY <2>1, <2>2, <2>3 DEF IInv
<1>4. CASE ReaderTakes
  <2> USE <1>4 DEF ReaderTakes, wireVars
  <2>1. taken.reader = {}
    BY DEF IInv, TypeOK
  <2>2. /\ taken' \in [reader : SUBSET Calls, owner : SUBSET Calls]
        /\ taken'.owner = taken.owner /\ pending' = {} /\ Holding'
    BY <2>1, TakeInv
  <2>3. TypeOK'
    BY <2>2 DEF IInv, TypeOK, ReaderPc
  <2>4. Wires' /\ Waking' /\ NoEntryLeft' /\ SentIsInFlight'
    BY <2>2 DEF IInv, Wires, Waking, NoEntryLeft, SentIsInFlight
  <2> QED BY <2>2, <2>3, <2>4 DEF IInv
<1>5. CASE ReaderEnds
  <2> USE <1>5 DEF ReaderEnds, wireVars, callVars
  <2>1. TypeOK'
    BY DEF IInv, TypeOK, ReaderPc
  <2>2. Holding' /\ Wires' /\ Waking' /\ NoEntryLeft' /\ SentIsInFlight'
    BY DEF IInv, Holding, Taken, Wires, Waking, NoEntryLeft, SentIsInFlight
  <2> QED BY <2>1, <2>2 DEF IInv
<1> QED BY <1>1, <1>2, <1>3, <1>4, <1>5, ReceiveInv DEF ReaderStep

-----------------------------------------------------------------------------
(* The owner and the peer *)

\* A new connection: the calls of the old one have been taken, or the program ends.
LEMMA ConnectInv == ASSUME IInv, Connect PROVE IInv'
<1> USE DEF Connect, callVars, Joinable
<1>1. /\ owner = "idle" /\ reader \in {"none", "leaving", "failing", "ended"}
      /\ reader' = IF reader = "none" THEN "check" ELSE "terminated"
  <2>1. reader \in ReaderPc /\ ~connected /\ owner = "idle"
    BY DEF IInv, TypeOK
  <2>2. reader \notin {"check", "receive", "lines", "terminated"}
    BY <2>1 DEF IInv, Wires
  <2> QED BY <2>1, <2>2 DEF ReaderPc
<1>2. TypeOK'
  <2>1. taken'.reader # {} => reader' = "terminated"
    BY <1>1 DEF IInv, TypeOK
  <2>2. connects' \in 0..MaxConnects
    BY IpcAssumption DEF IInv, TypeOK
  <2> QED BY <1>1, <2>1, <2>2 DEF IInv, TypeOK, ReaderPc
<1>3. Holding'
  BY DEF IInv, Holding, Taken
<1>4. Wires' /\ Waking' /\ NoEntryLeft'
  BY <1>1 DEF IInv, Wires, Waking, NoEntryLeft
<1>5. SentIsInFlight'
  BY <1>1 DEF IInv, Waking, Unsettled, SentIsInFlight
<1> QED BY <1>2, <1>3, <1>4, <1>5 DEF IInv

LEMMA OwnerInv == ASSUME IInv, Disconnect \/ OwnerStep PROVE IInv'
<1>1. CASE Disconnect \/ ShutdownSocket \/ Disconnected
  <2> USE <1>1 DEF Disconnect, ShutdownSocket, Disconnected, wireVars, callVars
  <2>1. TypeOK'
    BY DEF IInv, TypeOK, OwnerPc
  <2>2. Wires'
    BY DEF IInv, Wires
  <2>3. Holding' /\ Waking' /\ NoEntryLeft' /\ SentIsInFlight'
    BY DEF IInv, Wires, Holding, Taken, Waking, NoEntryLeft, SentIsInFlight
  <2> QED BY <2>1, <2>2, <2>3 DEF IInv
<1>2. CASE Join
  <2> USE <1>2 DEF Join, wireVars
  <2>1. taken.owner = {} /\ taken.reader = {}
    BY DEF IInv, TypeOK
  <2>2. /\ taken' \in [reader : SUBSET Calls, owner : SUBSET Calls]
        /\ taken'.reader = {} /\ pending' = {} /\ Holding'
    BY <2>1, TakeInv
  <2>3. TypeOK'
    BY <2>2 DEF IInv, TypeOK, ReaderPc, OwnerPc
  <2>4. Wires' /\ Waking' /\ NoEntryLeft' /\ SentIsInFlight'
    BY <2>2 DEF IInv, Wires, Waking, NoEntryLeft, SentIsInFlight
  <2> QED BY <2>2, <2>3, <2>4 DEF IInv
<1>3. ASSUME NEW c \in Calls, OwnerFails(c) PROVE IInv'
  <2> USE <1>3 DEF OwnerFails
  <2>1. /\ c \in Taken /\ taken \in [reader : SUBSET Calls, owner : SUBSET Calls]
        /\ taken' = [taken EXCEPT !.owner = @ \ {c}]
    BY DEF Taken, IInv, TypeOK
  <2>2. /\ taken'.reader \subseteq taken.reader /\ taken'.owner \subseteq taken.owner
        /\ taken' \in [reader : SUBSET Calls, owner : SUBSET Calls]
    BY <2>1
  <2>3. Completed(c, "disconnected") /\ "disconnected" \in Outcome
    BY DEF Outcome
  <2>4. UNCHANGED <<wireVars, pending, pc, reader, owner>>
    OBVIOUS
  <2> HIDE DEF OwnerFails
  <2> QED BY <2>1, <2>2, <2>3, <2>4, CompleteInv
<1> QED BY <1>1, <1>2, <1>3 DEF OwnerStep

LEMMA PeerInv == ASSUME IInv, (\E c \in Calls : Reply(c) \/ ReplyLost(c)) \/ PeerCloses PROVE IInv'
<1> USE DEF Reply, ReplyLost, PeerCloses, callVars
<1>1. TypeOK'
  BY DEF IInv, TypeOK
<1>2. Wires'
  BY DEF IInv, Wires
<1>3. Holding' /\ Waking' /\ NoEntryLeft' /\ SentIsInFlight'
  BY DEF IInv, Holding, Taken, Waking, NoEntryLeft, SentIsInFlight
<1> QED BY <1>1, <1>2, <1>3 DEF IInv

-----------------------------------------------------------------------------
(* What holds of every behaviour *)

LEMMA InitInv == Init => IInv
<1> SUFFICES ASSUME Init PROVE IInv
  OBVIOUS
<1> USE DEF Init
<1>1. TypeOK
  <2>1. result \in [Calls -> Outcome] /\ pc \in [Calls -> CallPc] /\ callbacks \in [Calls -> Nat]
    BY DEF Outcome, CallPc
  <2>2. taken \in [reader : SUBSET Calls, owner : SUBSET Calls] /\ taken.reader = {}
        /\ taken.owner = {}
    OBVIOUS
  <2>3. connects \in 0..MaxConnects /\ faults \subseteq Faults
    BY IpcAssumption
  <2>4. reader \in ReaderPc /\ owner \in OwnerPc
    BY DEF ReaderPc, OwnerPc
  <2> QED BY <2>1, <2>2, <2>3, <2>4 DEF TypeOK
<1>2. Holding /\ Wires /\ Waking /\ NoEntryLeft /\ SentIsInFlight
  BY DEF Holding, Taken, Wires, Waking, NoEntryLeft, SentIsInFlight
<1> QED BY <1>1, <1>2 DEF IInv

LEMMA StepInv == IInv /\ [Next]_vars => IInv'
<1> SUFFICES ASSUME IInv, [Next]_vars PROVE IInv'
  OBVIOUS
<1>1. ASSUME NEW c \in Calls, CallStep(c) \/ TimeOut(c) PROVE IInv'
  BY <1>1, BeginInv, InsertInv, SendInv, LeaveInv, WakeInv DEF CallStep
<1>2. CASE UNCHANGED vars
  BY <1>2 DEF vars, wireVars, callVars, IInv, TypeOK, Holding, Taken, Wires, Waking,
              NoEntryLeft, SentIsInFlight
<1> QED BY <1>1, <1>2, ReaderInv, ConnectInv, OwnerInv, PeerInv DEF Next

\* Who holds which call, in every reachable state.
THEOREM Invariance == Spec => []IInv
<1> QED BY InitInv, StepInv, PTL DEF Spec

\* Whatever answers, failed sends, hang-ups, timeouts and Disconnect race: a call is
\* in one pair of hands, its callback is dispatched once, a call that returned has no
\* entry left, what is pending on a sound connection is in flight, and after the
\* reader ended no pending call was sent (ipc_channel.cc:321-420, 443-540).
THEOREM CallsAccounted == Spec => []CallAccounting
<1>1. IInv => CallAccounting
  <2> SUFFICES ASSUME IInv PROVE CallAccounting
    OBVIOUS
  <2>1. CallbackOnce
    BY DEF IInv, Holding, CallbackOnce, Calls
  <2>2. OneHolder
    BY DEF IInv, Holding, Taken, OneHolder
  <2>3. AllWoken
    BY DEF IInv, Waking, Unsettled, AllWoken, WakesAllPending
  <2> QED BY <2>1, <2>2, <2>3 DEF IInv, CallAccounting
<1> QED BY <1>1, Invariance, PTL

-----------------------------------------------------------------------------
(* IpcServer *)

\* The messages that clients send are messages, and HandleMessage knows each kind.
Sound == SentBy \in [Conns -> SUBSET Messages] /\ KindOf \in [Messages -> Server!Kind]

Known == arriving \cup clients \cup stopping \cup joining

\* How far Start and Stop are: the accept thread is joined while nobody has called
\* Stop, and what Stop has still to do is in its sets.
Stages ==
  /\ running => stopper = "idle"
  /\ listening => running \/ stopper = "closeListener"
  /\ acceptor = "none" <=> ~running /\ stopper \notin {"closeListener", "joinAcceptor"}
  /\ acceptor = "none" => clients = {}
  /\ stopper \notin {"shutdown", "join"} => stopping = {}
  /\ stopper # "join" => joining = {}
  /\ \A c, d \in joining : c = d

\* Where a connection is: it waits in the listen queue, or the server knows it. Its
\* socket is shut before its thread has ended, or before Stop joins it.
Held ==
  /\ backlog \cap (Known \cup open) = {}
  /\ backlog \cup Known \cup open \subseteq dialled
  /\ open \subseteq arriving \cup clients \cup stopping
  /\ acceptor = "spawn" => arriving \subseteq clients
  /\ \A c \in Conns : thread[c] = "ended" => c \notin open

ServerInv == Server!TypeOK /\ Stages /\ Held /\ Server!ReadersReachable

-----------------------------------------------------------------------------
(* Threads and sockets are where Stop looks for them *)

LEMMA ServerInitInv == Server!Init => ServerInv
<1> SUFFICES ASSUME Server!Init PROVE ServerInv
  OBVIOUS
<1> USE DEF Server!Init
<1>1. Server!TypeOK
  BY DEF Server!TypeOK, Server!AcceptPc, Server!OwnerPc, Server!ReaderPc
<1>2. Stages /\ Held /\ Server!ReadersReachable
  BY DEF Stages, Held, Known, Server!ReadersReachable
<1> QED BY <1>1, <1>2 DEF ServerInv

LEMMA ServerOwnerInv == ASSUME ServerInv, Server!Start \/ Server!Stop \/ Server!OwnerStep PROVE ServerInv'
<1> USE DEF ServerInv, Server!netVars, Server!ownVars, Server!written
<1>1. CASE Server!Start
  <2> USE <1>1 DEF Server!Start
  <2>1. Server!TypeOK'
    BY DEF Server!TypeOK, Server!AcceptPc, Stages
  <2>2. Stages' /\ Held' /\ Server!ReadersReachable'
    BY DEF Stages, Held, Known, Server!ReadersReachable
  <2> QED BY <2>1, <2>2
<1>2. CASE Server!Stop
  <2> USE <1>2 DEF Server!Stop
  <2>1. Server!TypeOK'
    BY DEF Server!TypeOK, Server!OwnerPc
  <2>2. Stages' /\ Held' /\ Server!ReadersReachable'
    BY DEF Stages, Held, Known, Server!ReadersReachable
  <2> QED BY <2>1, <2>2
<1>3. CASE Server!CloseListener
  <2> USE <1>3 DEF Server!CloseListener
  <2>1. backlog \subseteq Conns /\ gone \subseteq Conns
    BY DEF Server!TypeOK
  <2>2. backlog' = {} /\ gone' \subseteq Conns
    BY <2>1
  <2>3. (UNION {arriving, backlog, open, clients, dialled, gone, stopping, joining,
                notifying, unended})' \subseteq Conns
    <3>1. /\ arriving \subseteq Conns /\ open \subseteq Conns /\ clients \subseteq Conns
          /\ dialled \subseteq Conns /\ stopping \subseteq Conns /\ joining \subseteq Conns
          /\ notifying \subseteq Conns /\ unended \subseteq Conns
      BY DEF Server!TypeOK
    <3> QED BY <2>2, <3>1
  <2>4. Server!TypeOK'
    BY <2>2, <2>3 DEF Server!TypeOK, Server!OwnerPc
  <2>5. Stages' /\ Held' /\ Server!ReadersReachable'
    BY DEF Stages, Held, Known, Server!ReadersReachable
  <2> QED BY <2>4, <2>5
<1>4. CASE Server!JoinAcceptor
  <2> USE <1>4 DEF Server!JoinAcceptor
  <2>1. arriving = {}
    BY DEF Server!TypeOK
  <2>2. Server!TypeOK'
    BY <2>1 DEF Server!TypeOK, Server!OwnerPc, Server!AcceptPc
  <2>3. Stages' /\ Held' /\ Server!ReadersReachable'
    BY <2>1 DEF Stages, Held, Known, Server!ReadersReachable
  <2> QED BY <2>2, <2>3
<1>5. ASSUME NEW c \in Conns, Server!ShutdownOne(c) PROVE ServerInv'
  <2> USE <1>5 DEF Server!ShutdownOne
  <2>1. Server!TypeOK'
    BY DEF Server!TypeOK, Server!OwnerPc
  <2>2. Stages' /\ Held' /\ Server!ReadersReachable'
    BY DEF Stages, Held, Known, Server!ReadersReachable
  <2> QED BY <2>1, <2>2
<1>6. ASSUME NEW c \in Conns, Server!JoinOne(c) PROVE ServerInv'
  <2> USE <1>6 DEF Server!JoinOne
  <2>1. Server!TypeOK'
    BY DEF Server!TypeOK, Server!OwnerPc, Server!ReaderPc
  <2>2. thread \in [Conns -> Server!ReaderPc] /\ joining = {c}
    BY DEF Server!TypeOK, Stages
  <2>3. Stages' /\ Held' /\ Server!ReadersReachable'
    BY <2>2 DEF Stages, Held, Known, Server!ReadersReachable
  <2> QED BY <2>1, <2>3
<1>7. CASE Server!Stopped
  <2> USE <1>7 DEF Server!Stopped
  <2>1. Server!TypeOK'
    BY DEF Server!TypeOK, Server!OwnerPc
  <2>2. Stages' /\ Held' /\ Server!ReadersReachable'
    BY DEF Stages, Held, Known, Server!ReadersReachable
  <2> QED BY <2>1, <2>2
<1> QED BY <1>1, <1>2, <1>3, <1>4, <1>5, <1>6, <1>7 DEF Server!OwnerStep

LEMMA AcceptInv == ASSUME ServerInv, Server!AcceptStep PROVE ServerInv'
<1> USE DEF ServerInv, Server!netVars, Server!ownVars, Server!written
<1>1. CASE Server!AcceptCheck
  <2> USE <1>1 DEF Server!AcceptCheck
  <2>1. Server!TypeOK'
    BY DEF Server!TypeOK, Server!AcceptPc
  <2>2. Stages' /\ Held' /\ Server!ReadersReachable'
    BY DEF Stages, Held, Known, Server!ReadersReachable
  <2> QED BY <2>1, <2>2
<1>2. ASSUME NEW c \in Conns, Server!Accept(c) PROVE ServerInv'
  <2> USE <1>2 DEF Server!Accept
  <2>1. Server!TypeOK'
    BY DEF Server!TypeOK, Server!AcceptPc
  <2>2. arriving = {}
    BY DEF Server!TypeOK
  <2>3. thread[c] = "none"
    BY DEF Held, Known, Server!ReadersReachable
  <2>4. Stages' /\ Held' /\ Server!ReadersReachable'
    BY <2>2, <2>3 DEF Stages, Held, Known, Server!ReadersReachable
  <2> QED BY <2>1, <2>4
<1>3. CASE Server!AcceptFails
  <2> USE <1>3 DEF Server!AcceptFails
  <2>1. Server!TypeOK'
    BY DEF Server!TypeOK, Server!AcceptPc
  <2>2. Stages' /\ Held' /\ Server!ReadersReachable'
    BY DEF Stages, Held, Known, Server!ReadersReachable
  <2> QED BY <2>1, <2>2
<1>4. CASE Server!Push
  <2> USE <1>4 DEF Server!Push
  <2>1. Server!TypeOK'
    BY DEF Server!TypeOK, Server!AcceptPc
  <2>2. Stages' /\ Held' /\ Server!ReadersReachable'
    BY DEF Stages, Held, Known, Server!ReadersReachable
  <2> QED BY <2>1, <2>2
<1>5. CASE Server!Spawn
  <2> USE <1>5 DEF Server!Spawn
  <2>1. Server!TypeOK'
    BY DEF Server!TypeOK, Server!AcceptPc, Server!ReaderPc
  <2>2. \A c \in Conns : thread'[c] = IF c \in arriving THEN "check" ELSE thread[c]
    OBVIOUS
  <2>3. Stages' /\ Held' /\ Server!ReadersReachable'
    BY <2>2 DEF Stages, Held, Known, Server!ReadersReachable
  <2> QED BY <2>1, <2>3
<1> QED BY <1>1, <1>2, <1>3, <1>4, <1>5 DEF Server!AcceptStep

Unended(c) == IF c \in unended THEN 1 ELSE 0

\* A line that is not heard is one that was cut, or comes behind one.
LEMMA LineSent ==
  ASSUME ServerInv, NEW c \in Conns, NEW heard \in BOOLEAN, Server!SendToConn(c, heard)
  PROVE  /\ unended' \subseteq Conns /\ cuts' \in [Conns -> Nat]
         /\ \A d \in Conns : d # c => cuts'[d] = cuts[d] /\ (d \in unended' <=> d \in unended)
         /\ c \notin open => ~heard /\ UNCHANGED <<unended, cuts>>
         /\ c \in open => (IF heard THEN 0 ELSE 1) + Unended(c)' + 2 * cuts[c] <= Unended(c) + 2 * cuts'[c]
<1>1. unended \subseteq Conns /\ cuts \in [Conns -> Nat] /\ cuts[c] \in Nat
  BY DEF ServerInv, Server!TypeOK
<1>2. CASE c \notin open
  BY <1>1, <1>2 DEF Server!SendToConn
<1>3. CASE c \in open /\ heard = (c \notin unended) /\ unended' = unended \ {c} /\ UNCHANGED cuts
  <2>1. heard <=> c \notin unended
    BY <1>3
  <2>2. unended' = unended \ {c} /\ cuts' = cuts /\ Unended(c)' = 0 /\ c \in open
    BY <1>3 DEF Unended
  <2>3. (IF heard THEN 0 ELSE 1) = Unended(c)
    BY <2>1 DEF Unended
  <2>4. (IF heard THEN 0 ELSE 1) + Unended(c)' + 2 * cuts[c] <= Unended(c) + 2 * cuts'[c]
    <3>1. Unended(c) \in 0..1
      BY DEF Unended
    <3> QED BY <1>1, <2>2, <2>3, <3>1
  <2> QED BY <1>1, <2>2, <2>4
<1>4. CASE c \in open /\ ~heard /\ cuts' = [cuts EXCEPT ![c] = @ + 1] /\ unended' \in {unended, unended \cup {c}}
  BY <1>1, <1>4 DEF Unended
<1> QED BY <1>2, <1>3, <1>4 DEF Server!SendToConn

\* An answer counts one, or is not heard.
LEMMA AnsweredType ==
  ASSUME ServerInv, NEW c \in Conns, NEW m \in Messages, Server!Answered(c, m)
  PROVE  answers' \in [Conns -> [Messages -> Nat]] /\ unended' \subseteq Conns /\ cuts' \in [Conns -> Nat]
<1>1. answers \in [Conns -> [Messages -> Nat]] /\ answers[c] \in [Messages -> Nat]
      /\ answers[c][m] + 1 \in Nat
  BY DEF ServerInv, Server!TypeOK
<1>2. [answers[c] EXCEPT ![m] = answers[c][m] + 1] \in [Messages -> Nat]
  BY <1>1
<1>3. PICK heard \in BOOLEAN :
        /\ Server!SendToConn(c, heard)
        /\ answers' = IF heard THEN [answers EXCEPT ![c][m] = @ + 1] ELSE answers
  BY DEF Server!Answered
<1>4. unended' \subseteq Conns /\ cuts' \in [Conns -> Nat]
  BY <1>3, LineSent
<1> QED BY <1>1, <1>2, <1>3, <1>4

LEMMA ReadInv == ASSUME ServerInv, NEW c \in Conns, Server!ReadStep(c) PROVE ServerInv'
<1> USE DEF ServerInv, Server!netVars, Server!ownVars, Server!written
<1>1. thread \in [Conns -> Server!ReaderPc]
  BY DEF Server!TypeOK
<1>2. CASE Server!ReadCheck(c)
  <2> USE <1>2 DEF Server!ReadCheck
  <2>1. Server!TypeOK'
    BY DEF Server!TypeOK, Server!ReaderPc
  <2>2. Stages' /\ Held' /\ Server!ReadersReachable'
    BY <1>1 DEF Stages, Held, Known, Server!ReadersReachable
  <2> QED BY <2>1, <2>2
<1>3. ASSUME NEW m \in Messages, Server!ReadLine(c, m) PROVE ServerInv'
  <2> USE <1>3 DEF Server!ReadLine
  <2>1. /\ tasks' \subseteq Conns \X Messages /\ answers' \in [Conns -> [Messages -> Nat]]
        /\ unended' \subseteq Conns /\ cuts' \in [Conns -> Nat]
    BY AnsweredType DEF Server!HandleMessage, Server!TypeOK
  <2>2. inbox' \in [Conns -> SUBSET Messages] /\ thread' \in [Conns -> Server!ReaderPc]
    BY DEF Server!TypeOK, Server!ReaderPc
  <2>3. Server!TypeOK'
    BY <2>1, <2>2 DEF Server!TypeOK
  <2>4. Stages' /\ Held' /\ Server!ReadersReachable'
    BY <1>1 DEF Stages, Held, Known, Server!ReadersReachable
  <2> QED BY <2>3, <2>4
<1>4. CASE Server!ReadEnds(c)
  <2> USE <1>4 DEF Server!ReadEnds
  <2>1. Server!TypeOK'
    BY DEF Server!TypeOK, Server!ReaderPc
  <2>2. Stages' /\ Held' /\ Server!ReadersReachable'
    BY <1>1 DEF Stages, Held, Known, Server!ReadersReachable
  <2> QED BY <2>1, <2>2
<1>5. CASE Server!ReadClose(c)
  <2> USE <1>5 DEF Server!ReadClose
  <2>1. Server!TypeOK'
    BY DEF Server!TypeOK, Server!ReaderPc
  <2>2. Stages' /\ Held' /\ Server!ReadersReachable'
    BY <1>1 DEF Stages, Held, Known, Server!ReadersReachable
  <2> QED BY <2>1, <2>2
<1> QED BY <1>2, <1>3, <1>4, <1>5 DEF Server!ReadStep

LEMMA OthersInv ==
  ASSUME ServerInv, Sound,
         \/ \E c \in Conns : Server!NotifyOne(c) \/ Server!Dial(c) \/ Server!HangUp(c)
         \/ \E c \in Conns, m \in Messages : Server!RunHandler(c, m)
         \/ Server!Notify
  PROVE  ServerInv'
<1> USE DEF ServerInv, Server!netVars, Server!ownVars, Server!written
<1>1. ASSUME NEW c \in Conns, Server!NotifyOne(c) PROVE ServerInv'
  <2> USE <1>1 DEF Server!NotifyOne
  <2>1. Server!TypeOK'
    <3>1. PICK heard \in BOOLEAN :
            /\ Server!SendToConn(c, heard)
            /\ notified' = IF heard THEN [notified EXCEPT ![c] = @ + 1] ELSE notified
      OBVIOUS
    <3>2. unended' \subseteq Conns /\ cuts' \in [Conns -> Nat]
      BY <3>1, LineSent
    <3> QED BY <3>1, <3>2 DEF Server!TypeOK
  <2>2. Stages' /\ Held' /\ Server!ReadersReachable'
    BY DEF Stages, Held, Known, Server!ReadersReachable
  <2> QED BY <2>1, <2>2
<1>2. ASSUME NEW c \in Conns, Server!Dial(c) PROVE ServerInv'
  <2> USE <1>2 DEF Server!Dial
  <2>1. inbox' \in [Conns -> SUBSET Messages]
    BY DEF Server!TypeOK, Sound
  <2>2. Server!TypeOK'
    BY <2>1 DEF Server!TypeOK
  <2>3. Stages' /\ Held' /\ Server!ReadersReachable'
    BY DEF Stages, Held, Known, Server!ReadersReachable
  <2> QED BY <2>2, <2>3
<1>3. ASSUME NEW c \in Conns, Server!HangUp(c) PROVE ServerInv'
  <2> USE <1>3 DEF Server!HangUp
  <2>1. Server!TypeOK'
    BY DEF Server!TypeOK
  <2>2. Stages' /\ Held' /\ Server!ReadersReachable'
    BY DEF Stages, Held, Known, Server!ReadersReachable
  <2> QED BY <2>1, <2>2
<1>4. ASSUME NEW c \in Conns, NEW m \in Messages, Server!RunHandler(c, m) PROVE ServerInv'
  <2> USE <1>4 DEF Server!RunHandler
  <2>1. answers' \in [Conns -> [Messages -> Nat]] /\ unended' \subseteq Conns /\ cuts' \in [Conns -> Nat]
    BY AnsweredType DEF Server!TypeOK
  <2>2. Server!TypeOK'
    BY <2>1 DEF Server!TypeOK
  <2>3. Stages' /\ Held' /\ Server!ReadersReachable'
    BY DEF Stages, Held, Known, Server!ReadersReachable
  <2> QED BY <2>2, <2>3
<1>5. CASE Server!Notify
  <2> USE <1>5 DEF Server!Notify
  <2>1. due' \in [Conns -> Nat]
    BY DEF Server!TypeOK
  <2>2. Server!TypeOK'
    BY <2>1 DEF Server!TypeOK
  <2>3. Stages' /\ Held' /\ Server!ReadersReachable'
    BY DEF Stages, Held, Known, Server!ReadersReachable
  <2> QED BY <2>2, <2>3
<1> QED BY <1>1, <1>2, <1>3, <1>4, <1>5

LEMMA ServerStepInv == ASSUME ServerInv, Sound, [Server!Next]_(Server!vars) PROVE ServerInv'
<1>1. CASE UNCHANGED Server!vars
  BY <1>1 DEF Server!vars, Server!netVars, Server!ownVars, Server!written, ServerInv, Server!TypeOK, Stages, Held, Known,
              Server!ReadersReachable
<1>2. CASE Server!Next
  BY <1>2, ServerOwnerInv, AcceptInv, ReadInv, OthersInv DEF Server!Next
<1> QED BY <1>1, <1>2

\* Where every connection and every thread is, in every reachable state.
THEOREM ServerInvariance == ASSUME Sound PROVE Server!Spec => []ServerInv
<1>1. ServerInv /\ [Server!Next]_(Server!vars) => ServerInv'
  BY ServerStepInv
<1> QED BY ServerInitInv, <1>1, PTL DEF Server!Spec

LEMMA InvAccounts == ServerInv => Server!ThreadAccounting
<1> SUFFICES ASSUME ServerInv PROVE Server!ThreadAccounting
  OBVIOUS
<1>1. Server!StopLeavesNothing
  <2> SUFFICES ASSUME stopper = "idle", ~running
               PROVE  /\ acceptor = "none" /\ ~listening /\ clients = {} /\ open = {}
                      /\ \A c \in Conns : thread[c] = "none"
    BY DEF Server!StopLeavesNothing
  <2>1. acceptor = "none" /\ ~listening /\ clients = {} /\ stopping = {} /\ joining = {}
    BY DEF ServerInv, Stages
  <2>2. arriving = {}
    BY <2>1 DEF ServerInv, Server!TypeOK
  <2> QED BY <2>1, <2>2 DEF ServerInv, Held, Server!ReadersReachable
<1>2. Server!CountsLive
  BY DEF ServerInv, Server!TypeOK, Held, Server!CountsLive
<1> QED BY <1>1, <1>2 DEF ServerInv, Server!ThreadAccounting

\* Stop can find every read thread at any moment, whatever it races with, and once it
\* has returned no thread, socket or client is left (ipc_channel.cc:60-101, 127-170).
THEOREM StopFindsThreads == ASSUME Sound PROVE Server!Spec => []Server!ThreadAccounting
<1> QED BY ServerInvariance, InvAccounts, PTL

\* Once Stop has returned, handlers and broadcasts that were under way write nothing:
\* no socket is open (ipc_channel.cc:80-101, 112-125, 294-307).
THEOREM NothingAfterStop == ASSUME Sound PROVE Server!Spec => Server!SilentAfterStop
<1> DEFINE Silent == UNCHANGED <<answers, notified, unended, cuts>>
<1>1. ASSUME ServerInv, Server!Next, stopper = "idle", ~running PROVE Silent
  <2>1. open = {} /\ \A c \in Conns : thread[c] = "none"
    BY <1>1, InvAccounts DEF Server!ThreadAccounting, Server!StopLeavesNothing
  <2>2. ASSUME NEW c \in Conns, NEW m \in Messages, Server!ReadLine(c, m) PROVE FALSE
    BY <2>1, <2>2 DEF Server!ReadLine
  <2>3. ASSUME NEW c \in Conns, NEW m \in Messages, Server!RunHandler(c, m)
        PROVE Silent
    BY <2>1, <2>3 DEF Server!RunHandler, Server!Answered, Server!SendToConn
  <2>4. ASSUME NEW c \in Conns, Server!NotifyOne(c) PROVE Silent
    BY <2>1, <2>4 DEF Server!NotifyOne, Server!SendToConn
  <2>5. ASSUME NEW c \in Conns, Server!ReadStep(c) PROVE Silent
    BY <2>2, <2>5 DEF Server!ReadStep, Server!ReadCheck, Server!ReadEnds, Server!ReadClose, Server!written
  <2>6. CASE Server!AcceptStep
    BY <2>6 DEF Server!AcceptStep, Server!AcceptCheck, Server!Accept, Server!AcceptFails, Server!Push, Server!Spawn, Server!written
  <2>7. CASE Server!Start \/ Server!Stop \/ Server!OwnerStep
    BY <2>7 DEF Server!Start, Server!Stop, Server!OwnerStep, Server!CloseListener, Server!JoinAcceptor, Server!Stopped, Server!ShutdownOne,
                Server!JoinOne, Server!written
  <2>8. ASSUME NEW c \in Conns, Server!Dial(c) \/ Server!HangUp(c) PROVE Silent
    BY <2>8 DEF Server!Dial, Server!HangUp, Server!written
  <2>9. CASE Server!Notify
    BY <2>9 DEF Server!Notify
  <2> QED BY <1>1, <2>3, <2>4, <2>5, <2>6, <2>7, <2>8, <2>9 DEF Server!Next
<1>2. ServerInv /\ [Server!Next]_(Server!vars) => [(stopper = "idle" /\ ~running) => Silent]_(Server!vars)
  BY <1>1
<1> QED BY ServerInvariance, <1>2, PTL DEF Server!Spec, Server!SilentAfterStop

-----------------------------------------------------------------------------
(* Broadcasts and answers *)

\* No broadcast has met a connection that the server does not know yet.
Unmet == \A c \in Conns : (c \notin dialled \/ c \in backlog) =>
           notified[c] = 0 /\ due[c] = 0 /\ c \notin notifying /\ c \notin unended

\* What an open connection has missed, and may miss yet behind a torn line.
Missed(c) == due[c] - notified[c] - (IF c \in notifying THEN 1 ELSE 0)
Met == \A c \in open : 0 <= Missed(c) /\ Missed(c) + Unended(c) <= 2 * cuts[c]

\* A message is on its way, with a worker, or answered.
Once ==
  \A c \in Conns, m \in Messages :
    /\ c \notin dialled => m \notin inbox[c] /\ <<c, m>> \notin tasks /\ answers[c][m] = 0
    /\ m \in inbox[c] => <<c, m>> \notin tasks /\ answers[c][m] = 0
    /\ <<c, m>> \in tasks => answers[c][m] = 0

Deliveries == Unmet /\ Met /\ Once /\ Server!AnswersOnce

\* An answer counts for its message only.
LEMMA AnsweredOne ==
  ASSUME ServerInv, NEW c \in Conns, NEW m \in Messages, Server!Answered(c, m)
  PROVE  \A d \in Conns, n \in Messages :
           /\ <<d, n>> # <<c, m>> => answers'[d][n] = answers[d][n]
           /\ answers'[c][m] \in {answers[c][m], answers[c][m] + 1}
<1>1. answers \in [Conns -> [Messages -> Nat]]
  BY DEF ServerInv, Server!TypeOK
<1>2. CASE answers' = answers
  BY <1>2
<1>3. CASE answers' = [answers EXCEPT ![c][m] = @ + 1]
  <2>1. answers' = [answers EXCEPT ![c][m] = @ + 1]
    BY <1>3
  <2>2. SUFFICES ASSUME NEW d \in Conns, NEW n \in Messages
                 PROVE  answers'[d][n] = IF d = c /\ n = m THEN answers[c][m] + 1
                                         ELSE answers[d][n]
    BY <1>1
  <2> QED BY <1>1, <2>1
<1> QED BY <1>2, <1>3 DEF Server!Answered

\* A line that is no broadcast leaves what is known of them.
LEMMA OtherLine ==
  ASSUME ServerInv, Deliveries, NEW c \in Conns,
         \/ UNCHANGED <<unended, cuts>>
         \/ \E heard \in BOOLEAN : Server!SendToConn(c, heard),
         UNCHANGED <<open, dialled, backlog, notified, due, notifying>>
  PROVE  Unmet' /\ Met'
<1>1. CASE UNCHANGED <<unended, cuts>>
  BY <1>1 DEF Deliveries, Unmet, Met, Missed, Unended
<1>2. ASSUME NEW heard \in BOOLEAN, Server!SendToConn(c, heard) PROVE Unmet' /\ Met'
  <2>1. /\ \A d \in Conns : d # c => cuts'[d] = cuts[d] /\ (d \in unended' <=> d \in unended)
        /\ c \notin open => UNCHANGED <<unended, cuts>>
        /\ c \in open => (IF heard THEN 0 ELSE 1) + Unended(c)' + 2 * cuts[c] <= Unended(c) + 2 * cuts'[c]
        /\ cuts' \in [Conns -> Nat]
    BY <1>2, LineSent
  <2>2. /\ cuts \in [Conns -> Nat] /\ notified \in [Conns -> Nat] /\ due \in [Conns -> Nat]
        /\ open \subseteq Conns
    BY DEF ServerInv, Server!TypeOK
  <2>3. c \in open => c \in dialled /\ c \notin backlog
    BY DEF ServerInv, Held
  <2>4. Unmet'
    BY <2>1, <2>3 DEF Deliveries, Unmet
  <2>5. ASSUME NEW d \in open, d # c PROVE (0 <= Missed(d) /\ Missed(d) + Unended(d) <= 2 * cuts[d])'
    BY <2>1, <2>2, <2>5 DEF Deliveries, Met, Missed, Unended
  <2>6. ASSUME c \in open PROVE (0 <= Missed(c) /\ Missed(c) + Unended(c) <= 2 * cuts[c])'
    <3>1. 0 <= Missed(c) /\ Missed(c) + Unended(c) <= 2 * cuts[c] /\ Missed(c)' = Missed(c)
      BY <2>6 DEF Deliveries, Met, Missed
    <3>2. Missed(c) \in Int /\ cuts[c] \in Nat /\ cuts'[c] \in Nat
      BY <2>1, <2>2 DEF Missed
    <3>3. Unended(c) \in 0..1 /\ Unended(c)' \in 0..1
      BY DEF Unended
    <3> QED BY <2>1, <2>6, <3>1, <3>2, <3>3
  <2> QED BY <2>4, <2>5, <2>6 DEF Met
<1> QED BY <1>1, <1>2

LEMMA ReadDelivers ==
  ASSUME ServerInv, Sound, Deliveries, NEW c \in Conns, NEW m \in Messages, Server!ReadLine(c, m)
  PROVE  Deliveries'
<1> USE DEF Server!ReadLine, Server!ownVars
<1>1. Unmet' /\ Met'
  <2>1. \/ UNCHANGED <<unended, cuts>>
        \/ \E heard \in BOOLEAN : Server!SendToConn(c, heard)
    BY DEF Server!HandleMessage, Server!Answered
  <2> QED BY <2>1, OtherLine
<1>2. /\ inbox \in [Conns -> SUBSET Messages] /\ m \in inbox[c] /\ c \in dialled
      /\ <<c, m>> \notin tasks /\ answers[c][m] = 0
  BY DEF ServerInv, Server!TypeOK, Deliveries, Once
<1>3. \A d \in Conns, n \in Messages :
        n \in inbox'[d] <=> n \in inbox[d] /\ <<d, n>> # <<c, m>>
  BY <1>2
<1>4. CASE KindOf[m] \in {"request", "notification"}
  <2>1. tasks' = tasks \cup {<<c, m>>} /\ UNCHANGED answers
    BY <1>4 DEF Server!HandleMessage
  <2> QED BY <1>1, <1>2, <1>3, <2>1 DEF Deliveries, Once, Server!AnswersOnce
<1>5. CASE KindOf[m] \notin {"request", "notification"}
  <2>1. Server!Answered(c, m) /\ UNCHANGED tasks
    BY <1>5 DEF Server!HandleMessage
  <2>2. \A d \in Conns, n \in Messages :
          /\ <<d, n>> # <<c, m>> => answers'[d][n] = answers[d][n]
          /\ answers'[c][m] \in {0, 1}
    BY <1>2, <2>1, AnsweredOne
  <2>3. ASSUME NEW d \in Conns, NEW n \in Messages
        PROVE  /\ d \notin dialled => n \notin inbox'[d] /\ <<d, n>> \notin tasks
                                      /\ answers'[d][n] = 0
               /\ n \in inbox'[d] => <<d, n>> \notin tasks /\ answers'[d][n] = 0
               /\ <<d, n>> \in tasks => answers'[d][n] = 0
    <3>1. CASE <<d, n>> = <<c, m>>
      BY <1>2, <1>3, <3>1
    <3>2. CASE <<d, n>> # <<c, m>>
      BY <1>3, <2>2, <3>2 DEF Deliveries, Once
    <3> QED BY <3>1, <3>2
  <2>4. Server!AnswersOnce'
    BY <1>5, <2>2 DEF Deliveries, Server!AnswersOnce
  <2> QED BY <1>1, <2>1, <2>3, <2>4 DEF Deliveries, Once
<1> QED BY <1>4, <1>5

LEMMA HandlerDelivers ==
  ASSUME ServerInv, Deliveries, NEW c \in Conns, NEW m \in Messages, Server!RunHandler(c, m)
  PROVE  Deliveries'
<1> USE DEF Server!RunHandler, Server!netVars, Server!ownVars
<1>1. Unmet' /\ Met'
  <2>1. \/ UNCHANGED <<unended, cuts>>
        \/ \E heard \in BOOLEAN : Server!SendToConn(c, heard)
    BY DEF Server!Answered
  <2> QED BY <2>1, OtherLine
<1>2. <<c, m>> \in tasks /\ answers[c][m] = 0 /\ m \notin inbox[c] /\ c \in dialled
  BY DEF Deliveries, Once
<1>3. CASE KindOf[m] # "request"
  BY <1>1, <1>3 DEF Deliveries, Once, Server!AnswersOnce
<1>4. CASE KindOf[m] = "request"
  <2>1. Server!Answered(c, m)
    BY <1>4
  <2>2. \A d \in Conns, n \in Messages :
          /\ <<d, n>> # <<c, m>> => answers'[d][n] = answers[d][n]
          /\ answers'[c][m] \in {0, 1}
    BY <1>2, <2>1, AnsweredOne
  <2>3. Once'
    <3>1. UNCHANGED <<dialled, inbox>> /\ tasks' = tasks \ {<<c, m>>}
      OBVIOUS
    <3>2. \A d \in Conns, n \in Messages :
            (d # c \/ n # m) => answers'[d][n] = answers[d][n]
      BY <2>2
    <3>3. c \in dialled' /\ m \notin inbox'[c] /\ <<c, m>> \notin tasks'
      BY <1>2, <3>1
    <3> QED BY <3>1, <3>2, <3>3 DEF Deliveries, Once
  <2>4. Server!AnswersOnce'
    BY <1>4, <2>2 DEF Deliveries, Server!AnswersOnce
  <2> QED BY <1>1, <2>3, <2>4 DEF Deliveries
<1> QED BY <1>3, <1>4

LEMMA BroadcastDelivers ==
  ASSUME ServerInv, Deliveries, Server!Notify \/ \E c \in Conns : Server!NotifyOne(c)
  PROVE  Deliveries'
<1> USE DEF Server!netVars, Server!ownVars
<1>1. notified \in [Conns -> Nat] /\ due \in [Conns -> Nat] /\ cuts \in [Conns -> Nat] /\ open \subseteq Conns
  BY DEF ServerInv, Server!TypeOK
<1>2. CASE Server!Notify
  <2>1. Once' /\ Server!AnswersOnce'
    BY <1>2 DEF Server!Notify, Deliveries, Once, Server!AnswersOnce
  <2>2. \A c \in Conns : due'[c] = due[c] + IF c \in clients THEN 1 ELSE 0
    BY <1>2 DEF Server!Notify
  <2>3. Unmet'
    BY <1>1, <1>2, <2>2 DEF Server!Notify, Deliveries, Unmet, ServerInv, Held, Known
  <2>4. Met'
    <3> SUFFICES ASSUME NEW c \in open PROVE (0 <= Missed(c) /\ Missed(c) + Unended(c) <= 2 * cuts[c])'
      BY <1>2 DEF Server!Notify, Met
    <3>1. Missed(c)' = Missed(c) /\ Unended(c)' = Unended(c) /\ cuts' = cuts
      BY <1>1, <1>2, <2>2 DEF Server!Notify, Missed, Unended
    <3> QED BY <3>1 DEF Deliveries, Met
  <2> QED BY <2>1, <2>3, <2>4 DEF Deliveries
<1>3. ASSUME NEW c \in Conns, Server!NotifyOne(c) PROVE Deliveries'
  <2>1. Once' /\ Server!AnswersOnce'
    BY <1>3 DEF Server!NotifyOne, Deliveries, Once, Server!AnswersOnce
  <2>2. PICK heard \in BOOLEAN :
          /\ Server!SendToConn(c, heard)
          /\ notified' = IF heard THEN [notified EXCEPT ![c] = @ + 1] ELSE notified
    BY <1>3 DEF Server!NotifyOne
  <2>3. /\ \A d \in Conns : d # c => cuts'[d] = cuts[d] /\ (d \in unended' <=> d \in unended)
        /\ c \notin open => ~heard /\ UNCHANGED <<unended, cuts>>
        /\ c \in open => (IF heard THEN 0 ELSE 1) + Unended(c)' + 2 * cuts[c] <= Unended(c) + 2 * cuts'[c]
        /\ cuts' \in [Conns -> Nat]
    BY <2>2, LineSent
  <2>4. /\ c \in notifying /\ notifying' = notifying \ {c} /\ due' = due
        /\ open' = open /\ dialled' = dialled /\ backlog' = backlog
    BY <1>3 DEF Server!NotifyOne
  <2>5. c \in open => c \in dialled /\ c \notin backlog
    BY DEF ServerInv, Held
  <2>6. Unmet'
    BY <1>1, <2>2, <2>3, <2>4, <2>5 DEF Deliveries, Unmet
  <2>7. ASSUME NEW d \in open, d # c PROVE (0 <= Missed(d) /\ Missed(d) + Unended(d) <= 2 * cuts[d])'
    <3>1. Missed(d)' = Missed(d) /\ Unended(d)' = Unended(d) /\ cuts'[d] = cuts[d]
      BY <1>1, <2>2, <2>3, <2>4, <2>7 DEF Missed, Unended
    <3> QED BY <3>1 DEF Deliveries, Met
  <2>8. ASSUME c \in open PROVE (0 <= Missed(c) /\ Missed(c) + Unended(c) <= 2 * cuts[c])'
    <3>1. 0 <= Missed(c) /\ Missed(c) + Unended(c) <= 2 * cuts[c]
      BY <2>8 DEF Deliveries, Met
    <3>2. Missed(c)' = Missed(c) + IF heard THEN 0 ELSE 1
      BY <1>1, <2>2, <2>4 DEF Missed
    <3>3. Missed(c) \in Int /\ cuts[c] \in Nat /\ cuts'[c] \in Nat
      BY <1>1, <2>3 DEF Missed
    <3>4. Unended(c) \in 0..1 /\ Unended(c)' \in 0..1
      BY DEF Unended
    <3> QED BY <2>3, <2>8, <3>1, <3>2, <3>3, <3>4
  <2>9. Met'
    BY <2>4, <2>7, <2>8 DEF Met
  <2> QED BY <2>1, <2>6, <2>9 DEF Deliveries
<1> QED BY <1>2, <1>3

\* The other steps open and shut sockets, and dial.
LEMMA NetDelivers ==
  ASSUME ServerInv, Sound, Deliveries,
         \/ Server!Start \/ Server!Stop \/ Server!OwnerStep \/ Server!AcceptStep
         \/ \E c \in Conns : \/ Server!ReadCheck(c) \/ Server!ReadEnds(c) \/ Server!ReadClose(c)
                             \/ Server!Dial(c) \/ Server!HangUp(c)
  PROVE  Deliveries'
<1> USE DEF Server!netVars, Server!ownVars, Server!written
<1>1. ASSUME open' \subseteq open \cup backlog, backlog' \subseteq backlog,
             UNCHANGED <<dialled, inbox, tasks, notifying, Server!written>>
      PROVE  Deliveries'
  <2>1. Unmet'
    BY <1>1 DEF Deliveries, Unmet
  <2>2. Met'
    <3>1. cuts \in [Conns -> Nat] /\ backlog \subseteq Conns
      BY DEF ServerInv, Server!TypeOK
    <3> SUFFICES ASSUME NEW c \in open' PROVE 0 <= Missed(c) /\ Missed(c) + Unended(c) <= 2 * cuts[c]
      BY <1>1 DEF Met, Missed, Unended
    <3>2. CASE c \in open
      BY <3>2 DEF Deliveries, Met
    <3>3. CASE c \in backlog
      <4>1. notified[c] = 0 /\ due[c] = 0 /\ c \notin notifying /\ c \notin unended /\ cuts[c] \in Nat
        BY <3>1, <3>3 DEF Deliveries, Unmet
      <4> QED BY <4>1 DEF Missed, Unended
    <3> QED BY <1>1, <3>2, <3>3
  <2>3. Once' /\ Server!AnswersOnce'
    BY <1>1 DEF Deliveries, Once, Server!AnswersOnce
  <2> QED BY <2>1, <2>2, <2>3 DEF Deliveries
<1>2. CASE Server!Start \/ Server!Stop \/ Server!OwnerStep
  BY <1>1, <1>2 DEF Server!Start, Server!Stop, Server!OwnerStep, Server!CloseListener, Server!JoinAcceptor, Server!ShutdownOne, Server!JoinOne,
                    Server!Stopped
<1>3. CASE Server!AcceptStep
  BY <1>1, <1>3 DEF Server!AcceptStep, Server!AcceptCheck, Server!Accept, Server!AcceptFails, Server!Push, Server!Spawn
<1>4. ASSUME NEW c \in Conns, Server!ReadCheck(c) \/ Server!ReadEnds(c) \/ Server!ReadClose(c) \/ Server!HangUp(c)
      PROVE  Deliveries'
  BY <1>1, <1>4 DEF Server!ReadCheck, Server!ReadEnds, Server!ReadClose, Server!HangUp
<1>5. ASSUME NEW c \in Conns, Server!Dial(c) PROVE Deliveries'
  <2> USE <1>5 DEF Server!Dial
  <2>1. Unmet' /\ Met'
    BY DEF Deliveries, Unmet, Met, Missed, Unended
  <2>2. inbox \in [Conns -> SUBSET Messages]
    BY DEF ServerInv, Server!TypeOK
  <2>3. \A d \in Conns : d # c => inbox'[d] = inbox[d]
    BY <2>2
  <2>4. Once' /\ Server!AnswersOnce'
    BY <2>3 DEF Deliveries, Once, Server!AnswersOnce
  <2> QED BY <2>1, <2>4 DEF Deliveries
<1> QED BY <1>2, <1>3, <1>4, <1>5

\* A broadcast reaches everybody who was connected when it began and still is, once, but for
\* two lines at most with each send that stalled; and a request is answered once at most, by
\* the read thread or by a worker
\* (ipc_channel.cc:112-125, 172-307).
THEOREM DeliveredOnce == ASSUME Sound PROVE Server!Spec => []Server!Delivery
<1>1. Server!Init => Deliveries
  BY DEF Server!Init, Deliveries, Unmet, Met, Once, Server!AnswersOnce
<1>2. ASSUME ServerInv, Deliveries, [Server!Next]_(Server!vars) PROVE Deliveries'
  <2>1. CASE UNCHANGED Server!vars
    BY <1>2, <2>1 DEF Server!vars, Server!netVars, Server!ownVars, Server!written, Deliveries, Unmet, Met,
                      Missed, Unended, Once, Server!AnswersOnce
  <2>2. CASE Server!Next
    BY <1>2, <2>2, ReadDelivers, HandlerDelivers, BroadcastDelivers, NetDelivers
       DEF Server!Next, Server!ReadStep
  <2> QED BY <1>2, <2>1, <2>2
<1>3. ASSUME ServerInv, Deliveries PROVE Server!Delivery
  <2>1. Server!BroadcastsDelivered
    <3> SUFFICES ASSUME NEW c \in open PROVE Missed(c) \in 0..(2 * cuts[c])
      BY DEF Server!BroadcastsDelivered, Missed
    <3>1. c \in Conns /\ Missed(c) \in Int /\ cuts[c] \in Nat
      BY <1>3 DEF ServerInv, Server!TypeOK, Missed
    <3>2. 0 <= Missed(c) /\ Missed(c) + Unended(c) <= 2 * cuts[c] /\ Unended(c) \in 0..1
      BY <1>3 DEF Deliveries, Met, Unended
    <3> QED BY <3>1, <3>2
  <2> QED BY <1>3, <2>1 DEF Deliveries, Server!Delivery
<1> QED BY ServerInvariance, <1>1, <1>2, <1>3, PTL DEF Server!Spec

-----------------------------------------------------------------------------
(* Datagrams (Udp) *)

Post   == [who : Peers \cup {host}, port : Nat]
Letter == [from : Post, to : Post, length : Lengths \cup {MaxPacket, 0}]
User   == [state : {"closed", "ready", "error"}, socket : {"none", "open", "shut"},
           posted : BOOLEAN, refused : BOOLEAN, opens : 0..MaxOpens]
Word     == {"ready", "data", "error", "closed", "new", "timeout"}
Hearing  == [what : Word, of : Letter]
Reported == [what : Word, of : Letter, at : Nat]

\* A socket has been opened, and a datagram is to the server or from it.
Posted ==
  /\ manner \in Habits /\ now \in Nat /\ up \in BOOLEAN /\ bound \in BOOLEAN
  /\ users \in [Peers -> User]
  /\ \A c \in Peers : users[c].socket # "none" => users[c].opens # 0
  /\ letters \in [Peers \cup {host} -> Seq(Letter)]
  /\ \A d \in sent :
       /\ d \in Letter
       /\ \/ d.to = Datagrams!Hosted /\ d.from \in Datagrams!Addresses
          \/ d.from = Datagrams!Hosted /\ d.to \in Datagrams!Addresses
Heard ==
  /\ news \in [Peers -> Seq(Hearing)] /\ \A c \in Peers : Len(news[c]) <= 2
  /\ report \in [Datagrams!Addresses -> Seq(Reported)]
  /\ \A x \in Datagrams!Addresses : Len(report[x]) <= 2
  /\ DOMAIN known \subseteq Datagrams!Addresses

\* The kernel holds for a socket what was sent to its address of this time.
Arrived ==
  /\ \A c \in Peers : \A i \in DOMAIN letters[c] :
       letters[c][i] \in sent /\ letters[c][i].to = Datagrams!Address(c)
  /\ \A i \in DOMAIN letters[host] :
       letters[host][i] \in sent /\ letters[host][i].to = Datagrams!Hosted

DatagramInv == Posted /\ Heard /\ Arrived /\ Datagrams!Safe

LEMMA Addressed ==
  /\ Datagrams!Hosted \in Post /\ Datagrams!Hosted \notin Datagrams!Addresses
  /\ Datagrams!Addresses \subseteq Post /\ Datagrams!Nothing \in Letter
  /\ \A x \in Datagrams!Addresses : x.who \in Peers
  /\ Datagrams!Hosted.who = host /\ host \notin Peers
  /\ Posted => \A c \in Peers : users[c].socket # "none" => Datagrams!Address(c) \in Datagrams!Addresses
BY UdpAssumption DEF Datagrams!Hosted, Datagrams!Addresses, Post, Letter, Datagrams!Nothing, Posted,
     Datagrams!Address, User, Datagrams!Datagram

\* The last two of a sequence.
LEMMA LastTwo ==
  ASSUME NEW S, NEW k \in Nat, k # 0, NEW l \in Nat, l = k + 1, NEW t \in Seq(S), Len(t) = l
  PROVE  /\ SubSeq(t, k, l) \in Seq(S) /\ Len(SubSeq(t, k, l)) = 2
         /\ SubSeq(t, k, l)[1] = t[k] /\ SubSeq(t, k, l)[2] = t[l]
<1>1. \A i \in k..l : t[i] \in S
  <2>1. \A i \in k..l : i \in 1..Len(t)
    OBVIOUS
  <2> QED BY <2>1, ElementOfSeq
<1>2. k \in Int /\ l \in Int /\ k <= l /\ l - k + 1 = 2 /\ k + 1 - 1 = k /\ k + 2 - 1 = l
  OBVIOUS
<1>3. /\ SubSeq(t, k, l) \in Seq(S) /\ Len(SubSeq(t, k, l)) = 2
      /\ \A i \in 1..2 : SubSeq(t, k, l)[i] = t[k + i - 1]
  BY <1>1, <1>2, SubSeqProperties
<1> QED BY <1>2, <1>3

\* What is kept of a history when one or two things are told.
LEMMA OneTold ==
  ASSUME NEW S, NEW h \in Seq(S), Len(h) <= 2, NEW x \in S, NEW r, r = Datagrams!Recent(Append(h, x))
  PROVE  /\ r \in Seq(S) /\ r # <<>> /\ Len(r) <= 2 /\ Datagrams!Last(r) = x
         /\ Len(r) = 2 => h # <<>> /\ r[1] = Datagrams!Last(h) /\ r[2] = x
<1> DEFINE t == Append(h, x)
<1>1. t \in Seq(S) /\ Len(t) = Len(h) + 1 /\ t[Len(h) + 1] = x
  BY AppendProperties
<1>4. Len(h) \in Nat /\ \A i \in 1..Len(h) : t[i] = h[i]
  <2>1. Len(h) \in Nat
    OBVIOUS
  <2>2. \A i \in 1..Len(h) : Append(h, x)[i] = h[i]
    BY AppendProperties
  <2> QED BY <2>1, <2>2
<1>5. h # <<>> <=> Len(h) > 0
  OBVIOUS
<1>6. r = Datagrams!Recent(t)
  OBVIOUS
<1> HIDE DEF t
<1>2. CASE Len(h) = 2
  <2>1. r = SubSeq(t, 2, 3)
    <3>1. Len(t) > 2 /\ Len(t) - 1 = 2 /\ Len(t) = 3
      BY <1>1, <1>2
    <3> QED BY <1>6, <3>1 DEF Datagrams!Recent
  <2>2. t \in Seq(S) /\ Len(t) = 3 /\ 3 = 2 + 1
    BY <1>1, <1>2
  <2>3. /\ SubSeq(t, 2, 3) \in Seq(S) /\ Len(SubSeq(t, 2, 3)) = 2
        /\ SubSeq(t, 2, 3)[1] = t[2] /\ SubSeq(t, 2, 3)[2] = t[3]
    BY <2>2, LastTwo
  <2>4. r \in Seq(S) /\ Len(r) = 2 /\ r[1] = h[Len(h)] /\ r[2] = x /\ r[Len(r)] = x
    BY <1>1, <1>2, <1>4, <2>1, <2>2, <2>3
  <2> QED BY <1>2, <1>5, <2>4 DEF Datagrams!Last
<1>3. CASE Len(h) < 2
  <2>1. r = t
    BY <1>1, <1>3, <1>6 DEF Datagrams!Recent
  <2>2. r \in Seq(S) /\ r # <<>> /\ Len(r) <= 2 /\ r[Len(r)] = x
    BY <1>1, <1>3, <1>4, <2>1
  <2>3. Len(r) = 2 => h # <<>> /\ r[1] = h[Len(h)] /\ r[2] = x
    BY <1>1, <1>3, <1>4, <1>5, <2>1
  <2> QED BY <2>2, <2>3 DEF Datagrams!Last
<1>7. Len(h) = 2 \/ Len(h) < 2
  <2>1. Len(h) \in Nat
    OBVIOUS
  <2> DEFINE n == Len(h)
  <2>2. n \in Nat /\ n <= 2
    BY <2>1
  <2> HIDE DEF n
  <2>3. n = 2 \/ n < 2
    BY <2>2
  <2> QED BY <2>3 DEF n
<1> QED BY <1>2, <1>3, <1>7

LEMMA TwoTold ==
  ASSUME NEW S, NEW h \in Seq(S), NEW x \in S, NEW y \in S,
         NEW r, r = Datagrams!Recent(h \o <<x>> \o <<y>>)
  PROVE  r \in Seq(S) /\ Len(r) = 2 /\ r[1] = x /\ r[2] = y /\ Datagrams!Last(r) = y /\ r # <<>>
<1> DEFINE t == h \o <<x>>
           w == t \o <<y>>
           n == Len(h)
<1>1. t \in Seq(S) /\ Len(t) = n + 1 /\ t[n + 1] = x /\ n \in Nat
  OBVIOUS
<1>5. r = Datagrams!Recent(w)
  OBVIOUS
<1> HIDE DEF t
<1>2. w \in Seq(S) /\ Len(w) = n + 2 /\ w[n + 2] = y /\ w[n + 1] = x
  BY <1>1
<1> HIDE DEF w, n
<1>3. r \in Seq(S) /\ Len(r) = 2 /\ r[1] = x /\ r[2] = y
  <2>1. CASE n = 0
    BY <1>2, <1>5, <2>1 DEF Datagrams!Recent
  <2>2. CASE n > 0
    <3>1. r = SubSeq(w, n + 1, n + 2)
      <4>1. Len(w) > 2 /\ Len(w) - 1 = n + 1
        BY <1>1, <1>2, <2>2
      <4> QED BY <1>2, <1>5, <4>1 DEF Datagrams!Recent
    <3>2. /\ n + 1 \in Nat /\ n + 1 # 0 /\ n + 2 \in Nat /\ n + 2 = (n + 1) + 1
          /\ w \in Seq(S) /\ Len(w) = n + 2
      BY <1>1, <1>2
    <3>3. /\ SubSeq(w, n + 1, n + 2) \in Seq(S) /\ Len(SubSeq(w, n + 1, n + 2)) = 2
          /\ SubSeq(w, n + 1, n + 2)[1] = w[n + 1] /\ SubSeq(w, n + 1, n + 2)[2] = w[n + 2]
      BY <3>2, LastTwo
    <3> QED BY <1>2, <3>1, <3>3
  <2> QED BY <1>1, <2>1, <2>2
<1>4. r[Len(r)] = y /\ r # <<>>
  BY <1>3
<1> QED BY <1>3, <1>4 DEF Datagrams!Last

LEMMA NoneTold ==
  ASSUME NEW S, NEW h \in Seq(S), NEW y \in S
  PROVE  h \o <<>> \o <<y>> = Append(h, y)
OBVIOUS
-----------------------------------------------------------------------------
(* What a step leaves alone *)

\* A client that nobody told anything hears what it heard.
LEMMA ClientStays ==
  ASSUME NEW c \in Peers, Datagrams!ClientHears(c), sent \subseteq sent', news'[c] = news[c],
         users'[c].opens = users[c].opens,
         users'[c].state = users[c].state
  PROVE  Datagrams!ClientHears(c)'
BY DEF Datagrams!ClientHears, Datagrams!Of, Datagrams!Address, Datagrams!Last

LEMMA AddressStays ==
  ASSUME NEW x \in Datagrams!Addresses, Datagrams!ServerHears(x), sent \subseteq sent',
         report'[x] = report[x], x \in DOMAIN known' => x \in DOMAIN known /\ known'[x] = known[x]
  PROVE  Datagrams!ServerHears(x)'
BY DEF Datagrams!ServerHears, Datagrams!Of, Datagrams!Last

\* What Tell leaves of a client's history.
LEMMA ToldClient ==
  ASSUME Heard, NEW c \in Peers, NEW what \in Word, NEW d \in Letter, Datagrams!Tell(c, what, d),
         NEW h, h = news'[c], NEW e, e = [what |-> what, of |-> d]
  PROVE  /\ news' \in [Peers -> Seq(Hearing)] /\ \A x \in Peers : Len(news'[x]) <= 2
         /\ \A x \in Peers \ {c} : news'[x] = news[x]
         /\ h # <<>> /\ Datagrams!Last(h) = e
         /\ Len(h) = 2 => news[c] # <<>> /\ h[1] = Datagrams!Last(news[c]) /\ h[2] = e
<1>1. news[c] \in Seq(Hearing) /\ Len(news[c]) <= 2 /\ e \in Hearing
  BY DEF Heard, Hearing
<1>2. news' = [news EXCEPT ![c] = Datagrams!Recent(Append(news[c], e))]
  BY DEF Datagrams!Tell
<1>3. h = Datagrams!Recent(Append(news[c], e)) /\ \A x \in Peers \ {c} : news'[x] = news[x]
  BY <1>2 DEF Heard
<1>4. /\ h \in Seq(Hearing) /\ h # <<>> /\ Len(h) <= 2 /\ Datagrams!Last(h) = e
      /\ Len(h) = 2 => news[c] # <<>> /\ h[1] = Datagrams!Last(news[c]) /\ h[2] = e
  BY <1>1, <1>3, OneTold
<1>5. news' \in [Peers -> Seq(Hearing)] /\ \A x \in Peers : Len(news'[x]) <= 2
  <2>1. \A x \in Peers : news[x] \in Seq(Hearing) /\ Len(news[x]) <= 2
    BY DEF Heard
  <2>2. news' = [news EXCEPT ![c] = h] /\ news'[c] = h
    BY <1>2, <1>3
  <2> QED BY <1>3, <1>4, <2>1, <2>2 DEF Heard
<1> QED BY <1>3, <1>4, <1>5

\* What holds of a client's step that sends nothing and touches its own socket only.
Own(c) ==
  /\ UNCHANGED <<up, bound, known, report, sent, now, manner>>
  /\ users' \in [Peers -> User] /\ \A x \in Peers \ {c} : users'[x] = users[x]
  /\ users'[c].socket # "none" => users'[c].opens # 0
  /\ letters' \in [Peers \cup {host} -> Seq(Letter)]
  /\ \A x \in (Peers \cup {host}) \ {c} : letters'[x] = letters[x]
  /\ letters'[c] = <<>> \/ (users'[c].opens = users[c].opens
                           /\ \A i \in DOMAIN letters'[c] : \E j \in DOMAIN letters[c] : letters'[c][i] = letters[c][j])

LEMMA OwnStep ==
  ASSUME DatagramInv, NEW c \in Peers, Own(c), Datagrams!ClientHears(c)',
         news' \in [Peers -> Seq(Hearing)], \A x \in Peers : Len(news'[x]) <= 2,
         \A x \in Peers \ {c} : news'[x] = news[x]
  PROVE  DatagramInv'
<1> USE DEF DatagramInv
<1>1. Posted'
  BY DEF Own, Posted
<1>2. Heard'
  BY DEF Own, Heard
<1>3. Arrived'
  <2>1. host # c /\ \A x \in Peers : x # host
    BY Addressed
  <2>2. \A x \in Peers : users'[x].opens = users[x].opens => Datagrams!Address(x)' = Datagrams!Address(x)
    BY DEF Datagrams!Address
  <2>3. ASSUME NEW x \in Peers, NEW i \in DOMAIN letters'[x]
        PROVE  letters'[x][i] \in sent' /\ letters'[x][i].to = Datagrams!Address(x)'
    <3>1. CASE x = c
      BY <2>2, <2>3, <3>1 DEF Own, Arrived
    <3>2. CASE x # c
      <4>1. letters'[x] = letters[x] /\ users'[x] = users[x] /\ sent' = sent
        BY <3>2 DEF Own
      <4>2. Datagrams!Address(x)' = Datagrams!Address(x)
        BY <2>2, <4>1
      <4>3. letters[x][i] \in sent /\ letters[x][i].to = Datagrams!Address(x)
        BY <2>3, <4>1 DEF Arrived
      <4> QED BY <4>1, <4>2, <4>3
    <3> QED BY <3>1, <3>2
  <2>4. letters'[host] = letters[host] /\ sent' = sent /\ Datagrams!Hosted' = Datagrams!Hosted
    BY <2>1 DEF Own, Datagrams!Hosted
  <2> QED BY <2>3, <2>4 DEF Arrived
<1>4. Datagrams!Safe'
  <2>1. \A x \in Peers \ {c} : Datagrams!ClientHears(x)'
    BY ClientStays DEF Own, Datagrams!Safe
  <2>2. \A x \in Datagrams!Addresses : Datagrams!ServerHears(x)'
    BY AddressStays DEF Own, Datagrams!Safe
  <2>3. manner' = manner /\ up' = up /\ bound' = bound
    BY DEF Own
  <2> QED BY <2>1, <2>2, <2>3 DEF Datagrams!Safe
<1> QED BY <1>1, <1>2, <1>3, <1>4

\* A client opens a new socket after a close, and hears only what comes to it.
LEMMA OpenHears == ASSUME DatagramInv, NEW c \in Peers, Datagrams!Open(c) PROVE DatagramInv'
<1> USE DEF DatagramInv
<1> DEFINE x == users[c]
<1>1. /\ x \in User /\ x.state = "closed" /\ x.opens \in 0..MaxOpens /\ manner.opens \in 0..MaxOpens
      /\ x.opens < manner.opens /\ MaxOpens \in Nat /\ letters[c] \in Seq(Letter)
  BY UdpAssumption DEF Datagrams!Open, Posted, User, Datagrams!Habit
<1>2. news[c] = <<>> \/ Datagrams!Last(news[c]).what = "closed"
  BY <1>1 DEF Datagrams!Safe, Datagrams!ClientHears
<1>3. UNCHANGED <<up, bound, known, report, sent, now, manner>>
  BY DEF Datagrams!Open, Datagrams!server
<1>4. ASSUME NEW what \in {"ready", "error"}, Datagrams!Tell(c, what, Datagrams!Nothing),
             users'[c].state = what
      PROVE  /\ Datagrams!ClientHears(c)' /\ news' \in [Peers -> Seq(Hearing)]
             /\ \A y \in Peers : Len(news'[y]) <= 2 /\ \A z \in Peers \ {c} : news'[z] = news[z]
  <2>4. PICK h, e : h = news'[c] /\ e = [what |-> what, of |-> Datagrams!Nothing]
    OBVIOUS
  <2>1. /\ news' \in [Peers -> Seq(Hearing)] /\ \A z \in Peers : Len(news'[z]) <= 2
        /\ \A z \in Peers \ {c} : news'[z] = news[z]
        /\ h # <<>> /\ Datagrams!Last(h) = e
        /\ Len(h) = 2 => news[c] # <<>> /\ h[1] = Datagrams!Last(news[c]) /\ h[2] = e
    <3>1. what \in Word
      BY DEF Word
    <3>2. Datagrams!Nothing \in Letter
      BY Addressed
    <3> QED BY <1>4, <2>4, <3>1, <3>2, ToldClient
  <2>2. e.what = what
    BY <2>4
  <2>3. Datagrams!ClientHears(c)'
    BY <1>2, <1>4, <2>1, <2>2, <2>4 DEF Datagrams!ClientHears
  <2> QED BY <2>1, <2>3
<1>5. CASE /\ Datagrams!Become(c, Datagrams!Fresh(x)) /\ Datagrams!Tell(c, "ready", Datagrams!Nothing)
           /\ letters' = [letters EXCEPT ![c] = <<>>]
  <2>1. Datagrams!Fresh(x) \in User /\ Datagrams!Fresh(x).opens # 0 /\ Datagrams!Fresh(x).state = "ready"
    BY <1>1 DEF Datagrams!Fresh, User
  <2>2. users' \in [Peers -> User] /\ users'[c] = Datagrams!Fresh(x) /\ \A y \in Peers \ {c} : users'[y] = users[y]
    BY <1>5, <2>1 DEF Datagrams!Become, Posted
  <2>3. letters' \in [Peers \cup {host} -> Seq(Letter)] /\ letters'[c] = <<>>
        /\ \A y \in (Peers \cup {host}) \ {c} : letters'[y] = letters[y]
    BY <1>5 DEF Posted
  <2>4. Own(c)
    BY <1>3, <2>1, <2>2, <2>3 DEF Own
  <2> QED BY <1>4, <1>5, <2>1, <2>2, <2>4, OwnStep
<1>6. CASE /\ Datagrams!Become(c, [x EXCEPT !.state = "error"]) /\ Datagrams!Tell(c, "error", Datagrams!Nothing)
           /\ UNCHANGED letters
  <2>1. [x EXCEPT !.state = "error"] \in User /\ [x EXCEPT !.state = "error"].opens = x.opens
        /\ [x EXCEPT !.state = "error"].state = "error" /\ [x EXCEPT !.state = "error"].socket = x.socket
    BY <1>1 DEF User
  <2>2. users' \in [Peers -> User] /\ users'[c] = [x EXCEPT !.state = "error"] /\ \A y \in Peers \ {c} : users'[y] = users[y]
    BY <1>6, <2>1 DEF Datagrams!Become, Posted
  <2>4. Own(c)
    BY <1>3, <1>6, <2>1, <2>2 DEF Own, Posted
  <2> QED BY <1>4, <1>6, <2>1, <2>2, <2>4, OwnStep
<1> QED BY <1>5, <1>6 DEF Datagrams!Open

\* Close, and the errors of options, are told whatever came before.
LEMMA CloseHears ==
  ASSUME DatagramInv, NEW c \in Peers,
         Datagrams!Close(c) \/ Datagrams!OptionFails(c) \/ Datagrams!OnDisconnect(c)
  PROVE  DatagramInv'
<1> USE DEF DatagramInv
<1> DEFINE x == users[c]
<1>1. x \in User /\ letters[c] \in Seq(Letter) /\ (x.socket # "none" => x.opens # 0)
  BY DEF Posted
<1>2. UNCHANGED <<up, bound, known, report, sent, now, manner>>
  BY DEF Datagrams!Close, Datagrams!OptionFails, Datagrams!OnDisconnect, Datagrams!server, Datagrams!network
<1>3. PICK what \in {"closed", "error"} :
        /\ Datagrams!Tell(c, what, Datagrams!Nothing) /\ users'[c] \in User /\ users'[c].state = what
        /\ users'[c].opens = x.opens /\ (users'[c].socket = x.socket \/ users'[c].socket = "none")
        /\ users' \in [Peers -> User] /\ \A y \in Peers \ {c} : users'[y] = users[y]
        /\ letters' = letters \/ letters' = [letters EXCEPT ![c] = <<>>]
  <2> DEFINE z1 == [x EXCEPT !.state = "closed", !.socket = "none", !.posted = FALSE, !.refused = FALSE]
             z2 == [x EXCEPT !.state = "error"]
             z3 == [x EXCEPT !.state = "closed", !.posted = FALSE]
  <2>1. /\ z1 \in User /\ z1.state = "closed" /\ z1.opens = x.opens /\ z1.socket = "none"
        /\ z2 \in User /\ z2.state = "error" /\ z2.opens = x.opens /\ z2.socket = x.socket
        /\ z3 \in User /\ z3.state = "closed" /\ z3.opens = x.opens /\ z3.socket = x.socket
    BY <1>1 DEF User
  <2>2. ASSUME NEW z \in User, Datagrams!Become(c, z)
        PROVE  /\ users'[c] = z /\ users' \in [Peers -> User]
               /\ \A y \in Peers \ {c} : users'[y] = users[y]
    BY <2>2 DEF Datagrams!Become, Posted
  <2>3. CASE Datagrams!Close(c)
    <3>1. /\ Datagrams!Become(c, z1) /\ Datagrams!Tell(c, "closed", Datagrams!Nothing)
          /\ letters' = [letters EXCEPT ![c] = <<>>]
      BY <2>3 DEF Datagrams!Close
    <3> HIDE DEF z1
    <3> QED BY <2>1, <2>2, <3>1
  <2>4. CASE Datagrams!OptionFails(c)
    <3>1. Datagrams!Become(c, z2) /\ Datagrams!Tell(c, "error", Datagrams!Nothing) /\ letters' = letters
      BY <2>4 DEF Datagrams!OptionFails, Datagrams!network
    <3> HIDE DEF z2
    <3> QED BY <2>1, <2>2, <3>1
  <2>5. CASE Datagrams!OnDisconnect(c)
    <3>1. Datagrams!Become(c, z3) /\ Datagrams!Tell(c, "closed", Datagrams!Nothing) /\ letters' = letters
      BY <2>5 DEF Datagrams!OnDisconnect, Datagrams!network
    <3> HIDE DEF z3
    <3> QED BY <2>1, <2>2, <3>1
  <2> QED BY <2>3, <2>4, <2>5
<1>4. Own(c)
  <2>1. letters \in [Peers \cup {host} -> Seq(Letter)]
    BY DEF Posted
  <2>2. /\ letters' \in [Peers \cup {host} -> Seq(Letter)] /\ (letters'[c] = letters[c] \/ letters'[c] = <<>>)
        /\ \A y \in (Peers \cup {host}) \ {c} : letters'[y] = letters[y]
    <3>1. <<>> \in Seq(Letter)
      OBVIOUS
    <3> QED BY <1>3, <2>1, <3>1
  <2>3. users'[c].socket # "none" => users'[c].opens # 0
    BY <1>1, <1>3
  <2> QED BY <1>2, <1>3, <2>2, <2>3 DEF Own
<1>5. PICK h, e : h = news'[c] /\ e = [what |-> what, of |-> Datagrams!Nothing]
  OBVIOUS
<1>6. /\ news' \in [Peers -> Seq(Hearing)] /\ \A z \in Peers : Len(news'[z]) <= 2
      /\ \A z \in Peers \ {c} : news'[z] = news[z]
      /\ h # <<>> /\ Datagrams!Last(h) = e
      /\ Len(h) = 2 => news[c] # <<>> /\ h[1] = Datagrams!Last(news[c]) /\ h[2] = e
  <2>1. what \in Word
    BY DEF Word
  <2>2. Datagrams!Nothing \in Letter
    BY Addressed
  <2> QED BY <1>3, <1>5, <2>1, <2>2, ToldClient
<1>7. Datagrams!ClientHears(c)'
  BY <1>3, <1>5, <1>6 DEF Datagrams!ClientHears
<1> QED BY <1>4, <1>6, <1>7, OwnStep

\* A datagram is told that the kernel held for the socket.
LEMMA DataHears == ASSUME DatagramInv, NEW c \in Peers, Datagrams!OnDataAvailable(c) PROVE DatagramInv'
<1> USE DEF DatagramInv
<1> DEFINE x == users[c]
           d == Head(letters[c])
<1>1. x \in User /\ letters[c] \in Seq(Letter) /\ x.socket = "open" /\ x.opens # 0 /\ x.state = "ready"
  BY DEF Posted, Datagrams!OnDataAvailable, Datagrams!Readable
<1>2. UNCHANGED <<up, bound, known, report, sent, now, manner>>
  BY DEF Datagrams!OnDataAvailable, Datagrams!server
<1>3. /\ letters' \in [Peers \cup {host} -> Seq(Letter)]
      /\ \A y \in (Peers \cup {host}) \ {c} : letters'[y] = letters[y]
      /\ letters'[c] = letters[c] \/ (letters[c] # <<>> /\ letters'[c] = Tail(letters[c]))
  <2>1. x.refused \/ letters[c] # <<>>
    BY DEF Datagrams!OnDataAvailable, Datagrams!Readable
  <2>2. letters' = [letters EXCEPT ![c] = IF x.refused THEN @ ELSE Tail(@)]
    BY DEF Datagrams!OnDataAvailable
  <2>3. letters[c] # <<>> => Tail(letters[c]) \in Seq(Letter)
    BY <1>1
  <2> QED BY <2>1, <2>2, <2>3 DEF Posted
<1>4. \A i \in DOMAIN letters'[c] : \E j \in DOMAIN letters[c] : letters'[c][i] = letters[c][j]
  <2>1. CASE letters'[c] = letters[c]
    BY <2>1
  <2>2. CASE letters[c] # <<>> /\ letters'[c] = Tail(letters[c])
    <3> DEFINE l == letters[c]
    <3>1. DOMAIN Tail(l) = 1..(Len(l) - 1) /\ Len(l) \in Nat /\ DOMAIN l = 1..Len(l)
          /\ \A i \in 1..(Len(l) - 1) : Tail(l)[i] = l[i + 1]
      BY <1>1, <2>2
    <3> HIDE DEF l
    <3>2. \A i \in DOMAIN Tail(l) : i + 1 \in DOMAIN l /\ Tail(l)[i] = l[i + 1]
      BY <3>1
    <3> QED BY <2>2, <3>2 DEF l
  <2> QED BY <1>3, <2>1, <2>2
<1>5. CASE x.refused \/ d.length = 0
  <2>1. Datagrams!Become(c, Datagrams!Shut(x)) /\ UNCHANGED news
    BY <1>5 DEF Datagrams!OnDataAvailable
  <2>2. Datagrams!Shut(x) \in User /\ Datagrams!Shut(x).opens = x.opens /\ Datagrams!Shut(x).state = x.state
    BY <1>1 DEF Datagrams!Shut, User
  <2>3. users' \in [Peers -> User] /\ users'[c] = Datagrams!Shut(x) /\ \A y \in Peers \ {c} : users'[y] = users[y]
    BY <2>1, <2>2 DEF Datagrams!Become, Posted
  <2>4. Own(c)
    BY <1>1, <1>2, <1>3, <1>4, <2>2, <2>3 DEF Own
  <2>5. Datagrams!ClientHears(c)'
    BY <1>2, <2>1, <2>2, <2>3, ClientStays DEF Datagrams!Safe
  <2>6. news' \in [Peers -> Seq(Hearing)] /\ (\A y \in Peers : Len(news'[y]) <= 2)
        /\ \A y \in Peers \ {c} : news'[y] = news[y]
    BY <2>1 DEF Heard
  <2> QED BY <2>4, <2>5, <2>6, OwnStep
<1>6. CASE ~(x.refused \/ d.length = 0)
  <2>1. Datagrams!Tell(c, "data", Datagrams!Shortened(d)) /\ UNCHANGED users /\ letters[c] # <<>>
    BY <1>6 DEF Datagrams!OnDataAvailable, Datagrams!Readable
  <2>2. d \in sent /\ d \in Letter /\ d.to = Datagrams!Address(c)
    <3>1. d = letters[c][1] /\ 1 \in DOMAIN letters[c] /\ d \in Letter
      BY <1>1, <2>1
    <3> QED BY <3>1 DEF Arrived
  <2>3. Datagrams!Shortened(d) \in Letter /\ Datagrams!Shortened(d).to = d.to
    BY <2>2 DEF Datagrams!Shortened, Letter
  <2>4. Own(c)
    BY <1>1, <1>2, <1>3, <1>4, <2>1 DEF Own, Posted
  <2>5. PICK h, e : h = news'[c] /\ e = [what |-> "data", of |-> Datagrams!Shortened(d)]
    OBVIOUS
  <2>6. /\ news' \in [Peers -> Seq(Hearing)] /\ \A z \in Peers : Len(news'[z]) <= 2
        /\ \A z \in Peers \ {c} : news'[z] = news[z]
        /\ h # <<>> /\ Datagrams!Last(h) = e
        /\ Len(h) = 2 => news[c] # <<>> /\ h[1] = Datagrams!Last(news[c]) /\ h[2] = e
    <3>1. "data" \in Word
      BY DEF Word
    <3> HIDE DEF d
    <3> QED BY <2>1, <2>3, <2>5, <3>1, ToldClient
  <2>7. news[c] # <<>> /\ Datagrams!Last(news[c]).what \in {"ready", "data"}
    BY <1>1 DEF Datagrams!Safe, Datagrams!ClientHears
  <2>8. Datagrams!Of(e.of)' /\ e.of.to = Datagrams!Address(c)' /\ e.what = "data"
    BY <1>2, <2>1, <2>2, <2>3, <2>5 DEF Datagrams!Of, Datagrams!Address
  <2>9. Datagrams!ClientHears(c)'
    BY <1>1, <2>1, <2>5, <2>6, <2>7, <2>8 DEF Datagrams!ClientHears
  <2> QED BY <2>4, <2>6, <2>9, OwnStep
<1> QED BY <1>5, <1>6

\* What is sent is from an address or to one.
LEMMA Puts ==
  ASSUME DatagramInv, NEW d \in Letter, Datagrams!Put(d),
         \/ d.to = Datagrams!Hosted /\ d.from \in Datagrams!Addresses
         \/ d.from = Datagrams!Hosted /\ d.to \in Datagrams!Addresses,
         UNCHANGED <<users, up, bound, known, report, news, now, manner>>
  PROVE  DatagramInv'
<1> USE DEF DatagramInv
<1>1. sent' = sent \cup {d} /\ letters' = letters
  BY DEF Datagrams!Put
<1>2. Posted'
  BY <1>1 DEF Posted, Datagrams!Hosted, Datagrams!Addresses
<1>3. Heard' /\ Arrived'
  BY <1>1 DEF Heard, Arrived, Datagrams!Hosted, Datagrams!Address, Datagrams!Addresses
<1>4. \A x \in Peers : Datagrams!ClientHears(x)'
  BY <1>1, ClientStays DEF Datagrams!Safe
<1>5. \A x \in Datagrams!Addresses : Datagrams!ServerHears(x)'
  BY <1>1, AddressStays DEF Datagrams!Safe
<1> QED BY <1>2, <1>3, <1>4, <1>5 DEF Datagrams!Safe

\* What a client sends comes from the address of its socket; and a refusal ends the
\* socket, or is taken for the send's own.
LEMMA SendHears ==
  ASSUME DatagramInv, NEW c \in Peers, NEW length \in Lengths,
         Datagrams!Send(c, length) \/ Datagrams!SendTo(c, length)
  PROVE  DatagramInv'
<1> USE DEF DatagramInv
<1> DEFINE x == users[c]
           d == Datagrams!Datagram(Datagrams!Address(c), Datagrams!Hosted, length)
           z1 == Datagrams!Shut(x)
           z2 == [x EXCEPT !.refused = FALSE]
<1>1. x \in User /\ x.socket = "open" /\ x.opens # 0
  BY DEF Posted, Datagrams!Send, Datagrams!SendTo
<1>2. UNCHANGED <<up, bound, known, report, news, now, manner>>
  BY DEF Datagrams!Send, Datagrams!SendTo, Datagrams!server
<1>3. CASE UNCHANGED users
  <2>1. Datagrams!Put(d)
    <3>1. (z1 # x /\ z2 # x) \/ ~x.refused
      BY <1>1 DEF Datagrams!Shut, User
    <3>2. users' = [users EXCEPT ![c] = z1] => users'[c] = z1
      BY DEF Posted
    <3>3. users' = [users EXCEPT ![c] = z2] => users'[c] = z2
      BY DEF Posted
    <3> HIDE DEF z1, z2, d
    <3> QED BY <1>3, <3>1, <3>2, <3>3 DEF Datagrams!Send, Datagrams!SendTo, Datagrams!Become, d, z1, z2
  <2>2. d \in Letter /\ d.to = Datagrams!Hosted /\ d.from \in Datagrams!Addresses
    <3>1. Datagrams!Address(c) \in Datagrams!Addresses /\ Datagrams!Address(c) \in Post /\ Datagrams!Hosted \in Post
      BY <1>1, Addressed
    <3> QED BY <3>1 DEF Letter, Datagrams!Datagram
  <2> HIDE DEF d
  <2> QED BY <1>2, <1>3, <2>1, <2>2, Puts
<1>4. ASSUME NEW z \in {z1, z2}, Datagrams!Become(c, z), UNCHANGED <<letters, sent>>
      PROVE  DatagramInv'
  <2>1. /\ z1 \in User /\ z1.opens = x.opens /\ z1.state = x.state
        /\ z2 \in User /\ z2.opens = x.opens /\ z2.state = x.state
    BY <1>1 DEF Datagrams!Shut, User
  <2>2. users' \in [Peers -> User] /\ users'[c] = z /\ \A y \in Peers \ {c} : users'[y] = users[y]
    <3> HIDE DEF z1, z2
    <3> QED BY <1>4, <2>1 DEF Datagrams!Become, Posted
  <2> HIDE DEF z1, z2
  <2>3. Own(c)
    BY <1>1, <1>2, <1>4, <2>1, <2>2 DEF Own, Posted
  <2>4. Datagrams!ClientHears(c)'
    BY <1>2, <1>4, <2>1, <2>2, ClientStays DEF Datagrams!Safe
  <2>5. news' \in [Peers -> Seq(Hearing)] /\ (\A y \in Peers : Len(news'[y]) <= 2)
        /\ \A y \in Peers \ {c} : news'[y] = news[y]
    BY <1>2 DEF Heard
  <2> QED BY <2>3, <2>4, <2>5, OwnStep
<1>5. \/ UNCHANGED users
      \/ (Datagrams!Become(c, z1) \/ Datagrams!Become(c, z2)) /\ UNCHANGED <<letters, sent>>
  BY DEF Datagrams!Send, Datagrams!SendTo, Datagrams!network
<1> QED BY <1>3, <1>4, <1>5

\* Start, StartDualStack and Stop.
LEMMA StartHears ==
  ASSUME DatagramInv, Datagrams!Start \/ Datagrams!StartDualStack \/ Datagrams!Stop
  PROVE  DatagramInv'
<1> USE DEF DatagramInv, Datagrams!Start, Datagrams!StartDualStack, Datagrams!Stop, Datagrams!network
<1>1. /\ UNCHANGED <<users, sent, report, news, now, manner>> /\ up' \in BOOLEAN /\ bound' \in BOOLEAN
      /\ letters' = letters \/ letters' = [letters EXCEPT ![host] = <<>>]
      /\ known' = known \/ known' = <<>>
      /\ manner.restarts \/ (up' <=> bound')
  BY DEF Posted, Datagrams!Safe
<1>2. /\ letters' \in [Peers \cup {host} -> Seq(Letter)] /\ letters'[host] \in {<<>>, letters[host]}
      /\ \A y \in Peers : letters'[y] = letters[y]
  <2>1. <<>> \in Seq(Letter) /\ host \notin Peers
    BY Addressed
  <2> QED BY <1>1, <2>1 DEF Posted
<1>3. \A x \in DOMAIN known' : x \in DOMAIN known /\ known'[x] = known[x]
  BY <1>1
<1> HIDE DEF Datagrams!Start, Datagrams!StartDualStack, Datagrams!Stop, Datagrams!network
<1>4. Posted'
  BY <1>1, <1>2 DEF Posted, Datagrams!Hosted, Datagrams!Addresses
<1>5. Heard'
  BY <1>1, <1>3 DEF Heard, Datagrams!Addresses
<1>6. Arrived'
  BY <1>1, <1>2 DEF Arrived, Datagrams!Hosted, Datagrams!Address
<1>7. \A x \in Peers : Datagrams!ClientHears(x)'
  BY <1>1, ClientStays DEF Datagrams!Safe
<1>8. \A x \in Datagrams!Addresses : Datagrams!ServerHears(x)'
  BY <1>1, <1>3, AddressStays DEF Datagrams!Safe
<1> QED BY <1>1, <1>4, <1>5, <1>6, <1>7, <1>8 DEF Datagrams!Safe

\* Of an address the listener is told what has come from it, and that it is new if it was
\* unknown, or silent since.
LEMMA ServerDataHears == ASSUME DatagramInv, Datagrams!OnServerData PROVE DatagramInv'
<1> USE DEF DatagramInv
<1> DEFINE l == letters[host]
<1>0. PICK d, x, n, m : /\ d = Head(l) /\ x = d.from /\ n = Datagrams!Event("new", d)
                         /\ m = Datagrams!Event("data", Datagrams!Shortened(d))
  OBVIOUS
<1> DEFINE new == IF x \in DOMAIN known THEN <<>> ELSE <<n>>
<1>1. /\ l \in Seq(Letter) /\ l # <<>> /\ host \notin Peers /\ host \in Peers \cup {host}
      /\ UNCHANGED <<users, sent, news, now, manner>> /\ up
  BY Addressed DEF Datagrams!OnServerData, Posted
<1>2. /\ d \in Letter /\ d \in sent /\ x \in Datagrams!Addresses
      /\ Tail(l) \in Seq(Letter) /\ \A i \in DOMAIN Tail(l) : i + 1 \in DOMAIN l /\ Tail(l)[i] = l[i + 1]
  <2>1. d = l[1] /\ 1 \in DOMAIN l /\ d \in Letter /\ Tail(l) \in Seq(Letter)
        /\ Len(l) \in Nat /\ DOMAIN Tail(l) = 1..(Len(l) - 1) /\ DOMAIN l = 1..Len(l)
        /\ \A i \in 1..(Len(l) - 1) : Tail(l)[i] = l[i + 1]
    BY <1>0, <1>1
  <2>2. d \in sent /\ d.to = Datagrams!Hosted
    BY <2>1 DEF Arrived
  <2>3. x \in Datagrams!Addresses
    BY <1>0, <2>2, Addressed DEF Posted
  <2> HIDE DEF l
  <2>4. \A i \in DOMAIN Tail(l) : i + 1 \in DOMAIN l /\ Tail(l)[i] = l[i + 1]
    BY <2>1
  <2> QED BY <2>1, <2>2, <2>3, <2>4
<1>3. ASSUME letters' \in [Peers \cup {host} -> Seq(Letter)], letters'[host] \in {<<>>, Tail(l)},
             \A y \in Peers : letters'[y] = letters[y]
      PROVE  Arrived'
  <2>1. \A i \in DOMAIN letters'[host] :
          letters'[host][i] \in sent /\ letters'[host][i].to = Datagrams!Hosted
    <3>1. CASE letters'[host] = <<>>
      BY <3>1
    <3>2. CASE letters'[host] = Tail(l)
      <4> HIDE DEF l
      <4>1. \A i \in DOMAIN l : l[i] \in sent /\ l[i].to = Datagrams!Hosted
        BY DEF Arrived, l
      <4> QED BY <1>2, <3>2, <4>1
    <3> QED BY <1>3, <3>1, <3>2
  <2> QED BY <1>1, <1>3, <2>1 DEF Arrived, Datagrams!Hosted, Datagrams!Address
<1>4. ASSUME Datagrams!Take
      PROVE  /\ letters' \in [Peers \cup {host} -> Seq(Letter)] /\ letters'[host] = Tail(l)
             /\ \A y \in Peers : letters'[y] = letters[y]
  <2> QED BY <1>1, <1>2, <1>4 DEF Datagrams!Take, Posted
<1>5. CASE d.length = 0
  <2>1. Datagrams!Take /\ UNCHANGED <<up, bound, known, report>>
    BY <1>0, <1>5 DEF Datagrams!OnServerData, Datagrams!server
  <2>2. Posted' /\ Heard'
    BY <1>1, <1>4, <2>1 DEF Posted, Heard, Datagrams!Hosted, Datagrams!Addresses
  <2>3. Arrived'
    BY <1>3, <1>4, <2>1
  <2>4. \A y \in Peers : Datagrams!ClientHears(y)'
    BY <1>1, ClientStays DEF Datagrams!Safe
  <2>5. \A y \in Datagrams!Addresses : Datagrams!ServerHears(y)'
    BY <1>1, <2>1, AddressStays DEF Datagrams!Safe
  <2> QED BY <1>1, <2>1, <2>2, <2>3, <2>4, <2>5 DEF Datagrams!Safe
<1>6. CASE d.length # 0
  <2>1. /\ report' = [report EXCEPT ![x] = Datagrams!Recent(@ \o new \o <<m>>)]
        /\ \/ /\ Datagrams!Take /\ UNCHANGED <<up, bound>>
              /\ known' = [y \in DOMAIN known \cup {x} |-> IF y = x THEN now ELSE known[y]]
           \/ /\ up' = FALSE /\ bound' = FALSE /\ known' = <<>> /\ letters' = [letters EXCEPT ![host] = <<>>]
    BY <1>0, <1>6 DEF Datagrams!OnServerData
  <2>2. /\ n \in Reported /\ n.what = "new" /\ m \in Reported /\ m.what = "data" /\ m.at = now
        /\ m.of = Datagrams!Shortened(d) /\ m.of.from = x
    <3>1. Datagrams!Shortened(d) \in Letter /\ Datagrams!Shortened(d).from = x
      BY <1>0, <1>2 DEF Datagrams!Shortened, Letter
    <3>2. now \in Nat
      BY DEF Posted
    <3> QED BY <1>0, <1>2, <3>1, <3>2 DEF Reported, Datagrams!Event, Word
  <2>3. PICK h : h = report'[x]
    OBVIOUS
  <2>4. report[x] \in Seq(Reported) /\ Len(report[x]) <= 2 /\ h = Datagrams!Recent(report[x] \o new \o <<m>>)
        /\ \A y \in Datagrams!Addresses \ {x} : report'[y] = report[y]
    <3> HIDE DEF new
    <3> QED BY <1>2, <2>1, <2>3 DEF Heard
  <2>5. /\ h \in Seq(Reported) /\ h # <<>> /\ Len(h) <= 2 /\ Datagrams!Last(h) = m
        /\ Len(h) = 2 => /\ h[2] = m
                         /\ \/ x \notin DOMAIN known /\ h[1] = n
                            \/ x \in DOMAIN known /\ h[1] = Datagrams!Last(report[x])
    <3>1. CASE x \in DOMAIN known
      <4>1. h = Datagrams!Recent(Append(report[x], m))
        BY <2>2, <2>4, <3>1, NoneTold
      <4> QED BY <2>2, <2>4, <3>1, <4>1, OneTold
    <3>2. CASE x \notin DOMAIN known
      <4>1. h = Datagrams!Recent(report[x] \o <<n>> \o <<m>>)
        BY <2>4, <3>2
      <4> HIDE DEF new
      <4>2. h \in Seq(Reported) /\ Len(h) = 2 /\ h[1] = n /\ h[2] = m /\ Datagrams!Last(h) = m /\ h # <<>>
        BY <2>2, <2>4, <4>1, TwoTold
      <4> QED BY <3>2, <4>2
    <3> QED BY <3>1, <3>2
  <2>6. x \in DOMAIN known => Datagrams!Last(report[x]).what = "data"
    BY <1>2 DEF Datagrams!Safe, Datagrams!ServerHears
  <2>7. /\ DOMAIN known' \subseteq DOMAIN known \cup {x}
        /\ x \in DOMAIN known' => known'[x] = now
        /\ \A y \in DOMAIN known' : y # x => known'[y] = known[y]
    <3> HIDE DEF new
    <3> QED BY <2>1
  <2>8. Datagrams!ServerHears(x)'
    <3>1. Datagrams!Of(m.of)'
      BY <1>1, <1>2, <2>2 DEF Datagrams!Of
    <3> HIDE DEF new
    <3> QED BY <2>2, <2>3, <2>5, <2>6, <2>7, <3>1 DEF Datagrams!ServerHears
  <2>9. \A y \in Datagrams!Addresses : Datagrams!ServerHears(y)'
    <3> HIDE DEF new
    <3>1. ASSUME NEW y \in Datagrams!Addresses, y # x PROVE Datagrams!ServerHears(y)'
      <4>1. y \in DOMAIN known' => y \in DOMAIN known /\ known'[y] = known[y]
        BY <2>7, <3>1
      <4> QED BY <1>1, <2>4, <3>1, <4>1, AddressStays DEF Datagrams!Safe
    <3> QED BY <2>8, <3>1
  <2>10. /\ letters' \in [Peers \cup {host} -> Seq(Letter)] /\ letters'[host] \in {<<>>, Tail(l)}
         /\ \A y \in Peers : letters'[y] = letters[y]
    <3>1. CASE Datagrams!Take
      BY <1>4, <3>1
    <3>2. CASE letters' = [letters EXCEPT ![host] = <<>>]
      <4>1. <<>> \in Seq(Letter)
        OBVIOUS
      <4> QED BY <1>1, <3>2, <4>1 DEF Posted
    <3> QED BY <2>1, <3>1, <3>2
  <2>11. up' \in BOOLEAN /\ bound' \in BOOLEAN /\ (manner.restarts \/ (up' <=> bound'))
    <3>1. (up' = up /\ bound' = bound) \/ (up' = FALSE /\ bound' = FALSE)
      BY <2>1
    <3>2. up \in BOOLEAN /\ bound \in BOOLEAN /\ (manner.restarts \/ (bound <=> up))
      BY DEF Posted, Datagrams!Safe
    <3>3. CASE up' = up /\ bound' = bound
      BY <3>2, <3>3
    <3>4. CASE up' = FALSE /\ bound' = FALSE
      BY <3>4
    <3> QED BY <3>1, <3>3, <3>4
  <2>12. Posted'
    BY <1>1, <2>10, <2>11 DEF Posted, Datagrams!Hosted, Datagrams!Addresses
  <2>13. Heard'
    <3> HIDE DEF new
    <3>1. report' \in [Datagrams!Addresses -> Seq(Reported)] /\ \A y \in Datagrams!Addresses : Len(report'[y]) <= 2
      <4>1. report' = [report EXCEPT ![x] = h]
        BY <1>2, <2>1, <2>3 DEF Heard
      <4> QED BY <1>2, <2>3, <2>5, <4>1 DEF Heard
    <3> QED BY <1>1, <1>2, <2>7, <3>1 DEF Heard, Datagrams!Addresses
  <2>14. Arrived'
    BY <1>3, <2>10
  <2>15. \A y \in Peers : Datagrams!ClientHears(y)'
    BY <1>1, ClientStays DEF Datagrams!Safe
  <2> QED BY <1>1, <2>9, <2>11, <2>12, <2>13, <2>14, <2>15 DEF Datagrams!Safe
<1> QED BY <1>5, <1>6

\* An address that was silent for too long is forgotten, with a timeout.
LEMMA CleanupHears == ASSUME DatagramInv, Datagrams!CleanupInactiveClients PROVE DatagramInv'
<1> USE DEF DatagramInv
<1>1. /\ UNCHANGED <<users, up, bound, letters, sent, news, now, manner>>
      /\ known' = [x \in DOMAIN known \ Datagrams!Silent |-> known[x]]
      /\ now \in Nat
  BY DEF Datagrams!CleanupInactiveClients, Datagrams!network, Posted
<1>2. PICK e : e = Datagrams!Event("timeout", Datagrams!Nothing)
  OBVIOUS
<1>3. e \in Reported /\ e.what = "timeout" /\ e.at = now
  <2>1. Datagrams!Nothing \in Letter
    BY Addressed
  <2> QED BY <1>1, <1>2, <2>1 DEF Reported, Datagrams!Event, Word
<1>4. \A x \in Datagrams!Addresses :
        report'[x] = IF x \in Datagrams!Silent THEN Datagrams!Recent(Append(report[x], e)) ELSE report[x]
  BY <1>2 DEF Datagrams!CleanupInactiveClients
<1>5. ASSUME NEW x \in Datagrams!Addresses, x \in Datagrams!Silent
      PROVE  /\ report'[x] \in Seq(Reported) /\ Len(report'[x]) <= 2
             /\ Datagrams!ServerHears(x)'
  <2>1. PICK h : h = report'[x]
    OBVIOUS
  <2>2. report[x] \in Seq(Reported) /\ Len(report[x]) <= 2 /\ h = Datagrams!Recent(Append(report[x], e))
    BY <1>4, <1>5, <2>1 DEF Heard
  <2>3. /\ h \in Seq(Reported) /\ h # <<>> /\ Len(h) <= 2 /\ Datagrams!Last(h) = e
        /\ Len(h) = 2 => h[1] = Datagrams!Last(report[x]) /\ h[2] = e
    BY <1>3, <2>2, OneTold
  <2>4. /\ x \in DOMAIN known /\ now - known[x] > Timeout
        /\ Datagrams!Last(report[x]).what = "data" /\ known[x] = Datagrams!Last(report[x]).at
    BY <1>5 DEF Datagrams!Silent, Datagrams!Safe, Datagrams!ServerHears
  <2>5. x \notin DOMAIN known'
    BY <1>1, <1>5
  <2>6. Datagrams!ServerHears(x)'
    BY <1>3, <2>1, <2>3, <2>4, <2>5 DEF Datagrams!ServerHears
  <2> QED BY <2>1, <2>3, <2>6
<1>6. ASSUME NEW x \in Datagrams!Addresses, x \notin Datagrams!Silent
      PROVE  /\ report'[x] \in Seq(Reported) /\ Len(report'[x]) <= 2
             /\ Datagrams!ServerHears(x)'
  <2>1. report'[x] = report[x]
    BY <1>4, <1>6
  <2>2. x \in DOMAIN known' => x \in DOMAIN known /\ known'[x] = known[x]
    BY <1>1
  <2>3. Datagrams!ServerHears(x)'
    BY <1>1, <2>1, <2>2, AddressStays DEF Datagrams!Safe
  <2> QED BY <2>1, <2>3 DEF Heard
<1>7. Heard'
  <2>1. report' = [x \in Datagrams!Addresses |-> report'[x]]
    BY DEF Datagrams!CleanupInactiveClients
  <2>2. DOMAIN known' \subseteq DOMAIN known
    BY <1>1
  <2>3. report' \in [Datagrams!Addresses -> Seq(Reported)] /\ \A x \in Datagrams!Addresses : Len(report'[x]) <= 2
    BY <1>5, <1>6, <2>1
  <2> QED BY <1>1, <2>2, <2>3 DEF Heard, Datagrams!Addresses
<1>8. Posted' /\ Arrived'
  BY <1>1 DEF Posted, Arrived, Datagrams!Hosted, Datagrams!Address, Datagrams!Addresses
<1>9. \A x \in Peers : Datagrams!ClientHears(x)'
  BY <1>1, ClientStays DEF Datagrams!Safe
<1> QED BY <1>1, <1>5, <1>6, <1>7, <1>8, <1>9 DEF Datagrams!Safe

LEMMA ReplyHears ==
  ASSUME DatagramInv, NEW x \in Datagrams!Addresses, NEW length \in Lengths, Datagrams!Reply(x, length)
  PROVE  DatagramInv'
<1> DEFINE d == Datagrams!Datagram(Datagrams!Hosted, x, length)
<1>1. d \in Letter /\ d.from = Datagrams!Hosted /\ d.to = x
  <2>1. x \in Post /\ Datagrams!Hosted \in Post
    BY Addressed
  <2> QED BY <2>1 DEF Letter, Datagrams!Datagram
<1>2. Datagrams!Put(d) /\ UNCHANGED <<users, up, bound, known, report, news, now, manner>>
  BY DEF Datagrams!Reply, Datagrams!server
<1> HIDE DEF d
<1> QED BY <1>1, <1>2, Puts

\* A datagram comes to the socket that has its address now; a refusal to the one it came from.
LEMMA DeliverHears == ASSUME DatagramInv, NEW d \in sent, Datagrams!Deliver(d) PROVE DatagramInv'
<1> USE DEF DatagramInv
<1>1. /\ d \in Letter /\ UNCHANGED <<up, bound, known, report, sent, news, now, manner>>
      /\ \/ d.to = Datagrams!Hosted /\ d.from \in Datagrams!Addresses /\ d.from.who \in Peers
         \/ d.from = Datagrams!Hosted /\ d.to \in Datagrams!Addresses /\ d.to.who \in Peers
      /\ d.to = Datagrams!Hosted => d.to.who = host
      /\ d.from # Datagrams!Hosted => d.from.who \in Peers
      /\ host \notin Peers
  BY Addressed DEF Posted, Datagrams!Deliver, Datagrams!server
<1>2. CASE Datagrams!Taken(d)
  <2> DEFINE w == d.to.who
  <2>1. /\ UNCHANGED users /\ letters' = [letters EXCEPT ![w] = Append(@, d)] /\ w \in Peers \cup {host}
        /\ w \in Peers => d.to = Datagrams!Address(w)
        /\ w = host => d.to = Datagrams!Hosted
    BY <1>1, <1>2 DEF Datagrams!Deliver, Datagrams!Taken
  <2>2. letters[w] \in Seq(Letter) /\ Append(letters[w], d) \in Seq(Letter)
        /\ DOMAIN Append(letters[w], d) = 1..(Len(letters[w]) + 1) /\ DOMAIN letters[w] = 1..Len(letters[w])
        /\ Len(letters[w]) \in Nat
    <3>1. letters[w] \in Seq(Letter)
      BY <2>1 DEF Posted
    <3> HIDE DEF w
    <3> QED BY <1>1, <3>1, AppendProperties
  <2>3. \A i \in DOMAIN Append(letters[w], d) :
          Append(letters[w], d)[i] = IF i = Len(letters[w]) + 1 THEN d ELSE letters[w][i]
    <3> HIDE DEF w
    <3> QED BY <1>1, <2>2, AppendProperties
  <2>4. letters' \in [Peers \cup {host} -> Seq(Letter)] /\ letters'[w] = Append(letters[w], d)
        /\ \A y \in (Peers \cup {host}) \ {w} : letters'[y] = letters[y]
    <3> HIDE DEF w
    <3> QED BY <2>1, <2>2 DEF Posted
  <2>5. \A i \in DOMAIN letters'[w] : letters'[w][i] = d \/ (i \in DOMAIN letters[w] /\ letters'[w][i] = letters[w][i])
    <3> HIDE DEF w
    <3> QED BY <2>2, <2>3, <2>4
  <2>6. Arrived'
    <3>1. PICK v : v = w
      OBVIOUS
    <3> HIDE DEF w
    <3>2. ASSUME NEW y \in Peers, NEW i \in DOMAIN letters'[y]
          PROVE  letters'[y][i] \in sent /\ letters'[y][i].to = Datagrams!Address(y)
      <4>1. CASE y = v
        BY <2>1, <2>5, <3>1, <3>2, <4>1 DEF Arrived
      <4>2. CASE y # v
        <5>1. letters'[y] = letters[y]
          BY <2>4, <3>1, <4>2
        <5> QED BY <3>2, <5>1 DEF Arrived
      <4> QED BY <4>1, <4>2
    <3>3. ASSUME NEW i \in DOMAIN letters'[host]
          PROVE  letters'[host][i] \in sent /\ letters'[host][i].to = Datagrams!Hosted
      <4>1. CASE host = v
        BY <2>1, <2>5, <3>1, <3>3, <4>1 DEF Arrived
      <4>2. CASE host # v
        <5>1. letters'[host] = letters[host]
          BY <2>4, <3>1, <4>2
        <5> QED BY <3>3, <5>1 DEF Arrived
      <4> QED BY <4>1, <4>2
    <3> QED BY <1>1, <2>1, <3>2, <3>3 DEF Arrived, Datagrams!Hosted, Datagrams!Address
  <2> HIDE DEF w
  <2>7. Posted' /\ Heard'
    BY <1>1, <2>1, <2>4 DEF Posted, Heard, Datagrams!Hosted, Datagrams!Addresses
  <2>8. \A x \in Peers : Datagrams!ClientHears(x)'
    BY <1>1, <2>1, ClientStays DEF Datagrams!Safe
  <2>9. \A x \in Datagrams!Addresses : Datagrams!ServerHears(x)'
    BY <1>1, AddressStays DEF Datagrams!Safe
  <2> QED BY <1>1, <2>6, <2>7, <2>8, <2>9 DEF Datagrams!Safe
<1>3. CASE ~Datagrams!Taken(d)
  <2>1. PICK c \in Peers : Datagrams!Become(c, [users[c] EXCEPT !.refused = TRUE]) /\ UNCHANGED letters
    BY <1>1, <1>3 DEF Datagrams!Deliver
  <2> DEFINE z == [users[c] EXCEPT !.refused = TRUE]
  <2>2. /\ z \in User /\ z.opens = users[c].opens /\ z.state = users[c].state /\ z.socket = users[c].socket
        /\ users[c].socket # "none" => users[c].opens # 0
    <3>1. users[c] \in User /\ (users[c].socket # "none" => users[c].opens # 0)
      BY DEF Posted
    <3> QED BY <3>1 DEF User
  <2>3. users' \in [Peers -> User] /\ users'[c] = z /\ \A y \in Peers \ {c} : users'[y] = users[y]
    <3>1. users' = [users EXCEPT ![c] = z]
      BY <2>1 DEF Datagrams!Become
    <3> HIDE DEF z
    <3> QED BY <2>2, <3>1 DEF Posted
  <2> HIDE DEF z
  <2>4. Own(c)
    BY <1>1, <2>1, <2>2, <2>3 DEF Own, Posted
  <2>5. Datagrams!ClientHears(c)'
    BY <1>1, <2>2, <2>3, ClientStays DEF Datagrams!Safe
  <2>6. news' \in [Peers -> Seq(Hearing)] /\ (\A y \in Peers : Len(news'[y]) <= 2)
        /\ \A y \in Peers \ {c} : news'[y] = news[y]
    BY <1>1 DEF Heard
  <2> QED BY <2>4, <2>5, <2>6, OwnStep
<1> QED BY <1>2, <1>3

LEMMA TickHears ==
  ASSUME DatagramInv, UNCHANGED <<users, up, bound, known, report, letters, sent, news, manner>>, now' \in Nat
  PROVE  DatagramInv'
<1> USE DEF DatagramInv
<1>1. Posted' /\ Heard' /\ Arrived'
  BY DEF Posted, Heard, Arrived, Datagrams!Hosted, Datagrams!Address, Datagrams!Addresses
<1>2. \A x \in Peers : Datagrams!ClientHears(x)'
  BY ClientStays DEF Datagrams!Safe
<1>3. \A x \in Datagrams!Addresses : Datagrams!ServerHears(x)'
  BY AddressStays DEF Datagrams!Safe
<1> QED BY <1>1, <1>2, <1>3 DEF Datagrams!Safe

LEMMA DatagramInit == ASSUME Datagrams!Init PROVE DatagramInv
<1> USE DEF Datagrams!Init
<1>1. Posted
  <2>1. \A c \in Peers : users[c] \in User
    BY UdpAssumption DEF User
  <2>2. users \in [Peers -> User] /\ \A c \in Peers : users[c].socket = "none"
    BY <2>1
  <2>3. letters \in [Peers \cup {host} -> Seq(Letter)]
    <3>1. <<>> \in Seq(Letter)
      OBVIOUS
    <3> QED BY <3>1
  <2>4. now \in Nat /\ sent = {} /\ up \in BOOLEAN /\ bound \in BOOLEAN /\ manner \in Habits
    OBVIOUS
  <2> QED BY <2>2, <2>3, <2>4 DEF Posted
<1>2. Heard
  BY DEF Heard
<1>3. Arrived
  BY DEF Arrived
<1>4. Datagrams!Safe
  BY DEF Datagrams!Safe, Datagrams!ClientHears, Datagrams!ServerHears
<1> QED BY <1>1, <1>2, <1>3, <1>4 DEF DatagramInv

\* A listener of a UDP socket hears data only while it has been told that the socket is
\* ready, or the address new, and only what was sent; who was silent too long is told of
\* and forgotten (udp_client.cc, udp_server.cc).
THEOREM DatagramsHeard == Datagrams!Spec => []Datagrams!Safe
<1>1. ASSUME DatagramInv, [Datagrams!Next]_(Datagrams!vars) PROVE DatagramInv'
  <2>1. CASE UNCHANGED Datagrams!vars
    <3>1. UNCHANGED <<users, up, bound, known, report, letters, sent, news, manner>> /\ now' \in Nat
      BY <1>1, <2>1 DEF Datagrams!vars, Datagrams!server, Datagrams!network, DatagramInv, Posted
    <3> QED BY <1>1, <3>1, TickHears
  <2>2. CASE Datagrams!Tick
    <3>1. UNCHANGED <<users, up, bound, known, report, letters, sent, news, manner>> /\ now' \in Nat
      BY <1>1, <2>2 DEF Datagrams!Tick, Datagrams!server, Datagrams!network, DatagramInv, Posted
    <3> QED BY <1>1, <3>1, TickHears
  <2> QED BY <1>1, <2>1, <2>2, OpenHears, CloseHears, DataHears, SendHears, StartHears, ServerDataHears,
             CleanupHears, ReplyHears, DeliverHears
          DEF Datagrams!Next, Datagrams!Owner, Datagrams!Serve, Datagrams!World
<1>2. DatagramInv => Datagrams!Safe
  BY DEF DatagramInv
<1> QED BY DatagramInit, <1>1, <1>2, PTL DEF Datagrams!Spec

-----------------------------------------------------------------------------
(* The stream (SocketStream) *)

\* A set of numbers that is not empty has a least one.
LEMMA LeastNatural ==
  ASSUME NEW T \in SUBSET Nat, T # {}
  PROVE  \E m \in T : \A n \in T : m <= n
<1>1. \A x, y \in Nat : <<x, y>> \in OpToRel(<, Nat) <=> x < y
  BY Zenon DEF OpToRel
<1>2. PICK m \in T : \A n \in T : ~(<<n, m>> \in OpToRel(<, Nat))
  BY NatLessThanWellFounded, WFMin
<1>3. \A n \in T : ~(n < m)
  BY <1>1, <1>2, Zenon
<1> QED BY <1>3

\* g joins the sequences of F up to each.
Follows(F, g, n) == g[1] = F[1] /\ \A i \in 2..n : g[i] = g[i - 1] \o F[i]

\* Sequences can be joined one after the other, ...
LEMMA Joined ==
  ASSUME NEW S, NEW n \in Nat, n # 0, NEW F \in [1..n -> Seq(S)]
  PROVE  \E g \in [1..n -> Seq(S)] : Follows(F, g, n)
<1> DEFINE Can(k) == \E g \in [1..k -> Seq(S)] : Follows(F, g, k)
           Off == {k \in 1..n : ~Can(k)}
<1>1. Can(1)
  <2> DEFINE g == [i \in 1..1 |-> F[1]]
  <2>1. g \in [1..1 -> Seq(S)] /\ g[1] = F[1] /\ 2..1 = {}
    OBVIOUS
  <2> HIDE DEF g
  <2> QED BY <2>1 DEF Follows
<1>2. ASSUME NEW k \in 2..n, Can(k - 1) PROVE Can(k)
  <2>1. PICK g \in [1..(k - 1) -> Seq(S)] : Follows(F, g, k - 1)
    BY <1>2
  <2> DEFINE h == [i \in 1..k |-> IF i = k THEN g[k - 1] \o F[k] ELSE g[i]]
  <2>2. g[k - 1] \o F[k] \in Seq(S)
    <3>1. g[k - 1] \in Seq(S) /\ F[k] \in Seq(S)
      OBVIOUS
    <3> QED BY <3>1
  <2>3. h \in [1..k -> Seq(S)]
    BY <2>2
  <2>4. h[1] = F[1]
    BY <2>1 DEF Follows
  <2>5. ASSUME NEW i \in 2..k PROVE h[i] = h[i - 1] \o F[i]
    <3>1. i - 1 \in 1..k /\ i - 1 # k /\ i \in 1..k /\ h[i - 1] = g[i - 1]
      OBVIOUS
    <3>2. CASE i = k
      BY <3>1, <3>2
    <3>3. CASE i # k
      <4>1. i \in 2..(k - 1) /\ h[i] = g[i]
        BY <3>3
      <4> HIDE DEF h
      <4> QED BY <2>1, <3>1, <4>1 DEF Follows
    <3> QED BY <3>2, <3>3
  <2> HIDE DEF h
  <2> QED BY <2>3, <2>4, <2>5 DEF Follows
<1>3. Off = {}
  <2> HIDE DEF Can
  <2> SUFFICES ASSUME Off # {} PROVE FALSE
    OBVIOUS
  <2>1. Off \in SUBSET Nat
    OBVIOUS
  <2>2. PICK m \in Off : \A k \in Off : m <= k
    BY <2>1, LeastNatural
  <2>3. m \in 2..n /\ m - 1 \in 1..n /\ m - 1 \notin Off
    BY <1>1, <2>2
  <2> QED BY <1>2, <2>2, <2>3
<1>4. n \in 1..n
  OBVIOUS
<1> QED BY <1>3, <1>4

\* ... and FlattenSeq is the last of what comes of it.
LEMMA FlattenIs ==
  ASSUME NEW S, NEW n \in Nat, n # 0, NEW F \in [1..n -> Seq(S)], NEW g \in [1..n -> Seq(S)],
         Follows(F, g, n)
  PROVE  Stream!FlattenSeq(F) = g[n]
<1> DEFINE Eq(f) == f = [i \in 1..n |-> IF i = 1 THEN F[i] ELSE f[i - 1] \o F[i]]
           fl == CHOOSE f : Eq(f)
           Off == {k \in 1..n : fl[k] # g[k]}
<1>1. F \in Seq(Seq(S)) /\ Len(F) = n
  OBVIOUS
<1>2. Stream!FlattenSeq(F) = fl[n]
  BY <1>1 DEF Stream!FlattenSeq
<1>3. Eq(g)
  <2>1. \A i \in 1..n : g[i] = IF i = 1 THEN F[i] ELSE g[i - 1] \o F[i]
    <3>1. \A i \in 1..n : i = 1 \/ i \in 2..n
      OBVIOUS
    <3> QED BY <3>1 DEF Follows
  <2> DEFINE b == [i \in 1..n |-> IF i = 1 THEN F[i] ELSE g[i - 1] \o F[i]]
  <2>2. \A i \in 1..n : g[i] = b[i]
    BY <2>1
  <2> HIDE DEF b
  <2>3. g = b
    <3>1. b = [i \in 1..n |-> b[i]]
      BY DEF b
    <3> QED BY <2>2, <3>1
  <2> QED BY <2>3 DEF b
<1>4. Eq(fl)
  <2> HIDE DEF Eq
  <2> QED BY <1>3, Zenon
<1> HIDE DEF fl
<1>5. \A i \in 1..n : fl[i] = IF i = 1 THEN F[i] ELSE fl[i - 1] \o F[i]
  BY <1>4
<1>6. Off = {}
  <2> SUFFICES ASSUME Off # {} PROVE FALSE
    OBVIOUS
  <2>1. Off \in SUBSET Nat
    OBVIOUS
  <2>2. PICK m \in Off : \A k \in Off : m <= k
    BY <2>1, LeastNatural
  <2>3. m = 1 \/ (m \in 2..n /\ m - 1 \in 1..n /\ m - 1 \notin Off)
    BY <2>2
  <2>4. m # 1
    BY <1>5, <2>2 DEF Follows
  <2>5. m \in 2..n /\ m - 1 \in 1..n /\ m - 1 \notin Off /\ m \in 1..n
    BY <2>3, <2>4
  <2>6. fl[m - 1] = g[m - 1]
    BY <2>5
  <2>7. fl[m] = fl[m - 1] \o F[m]
    BY <1>5, <2>4, <2>5
  <2>8. g[m] = g[m - 1] \o F[m]
    BY <2>5 DEF Follows
  <2> QED BY <2>2, <2>6, <2>7, <2>8
<1>7. n \in 1..n
  OBVIOUS
<1>8. fl[n] = g[n]
  BY <1>6, <1>7
<1> QED BY <1>2, <1>8

\* The last sequence comes at the end.
LEMMA FlattenStep ==
  ASSUME NEW S, NEW n \in Nat, NEW F \in [1..(n + 1) -> Seq(S)]
  PROVE  /\ Stream!FlattenSeq(F) = Stream!FlattenSeq([k \in 1..n |-> F[k]]) \o F[n + 1]
         /\ Stream!FlattenSeq([k \in 1..n |-> F[k]]) \in Seq(S) /\ Stream!FlattenSeq(F) \in Seq(S)
<1> DEFINE H == [k \in 1..n |-> F[k]]
<1>0. n + 1 \in Nat /\ n + 1 # 0 /\ n + 1 \in 1..(n + 1)
  OBVIOUS
<1>1. PICK g \in [1..(n + 1) -> Seq(S)] : Follows(F, g, n + 1)
  BY <1>0, Joined
<1>2. Stream!FlattenSeq(F) = g[n + 1] /\ g[n + 1] \in Seq(S)
  BY <1>0, <1>1, FlattenIs
<1>3. CASE n = 0
  <2>1. H = <<>> /\ F[n + 1] \in Seq(S)
    BY <1>3
  <2>2. Stream!FlattenSeq(<<>>) = <<>>
    BY DEF Stream!FlattenSeq
  <2>3. g[n + 1] = F[n + 1]
    BY <1>1, <1>3 DEF Follows
  <2> HIDE DEF H
  <2>4. <<>> \o F[n + 1] = F[n + 1] /\ <<>> \in Seq(S)
    BY <2>1
  <2>5. Stream!FlattenSeq(F) = Stream!FlattenSeq(H) \o F[n + 1] /\ Stream!FlattenSeq(H) \in Seq(S)
    BY <1>2, <2>1, <2>2, <2>3, <2>4
  <2> QED BY <1>2, <2>5 DEF H
<1>4. CASE n # 0
  <2> DEFINE h == [k \in 1..n |-> g[k]]
  <2>1. H \in [1..n -> Seq(S)] /\ h \in [1..n -> Seq(S)] /\ h[n] = g[n] /\ n \in 1..n
    BY <1>4
  <2>2. Follows(H, h, n)
    <3>1. \A i \in 2..n : H[i] = F[i] /\ h[i] = g[i] /\ h[i - 1] = g[i - 1] /\ i \in 2..(n + 1)
      OBVIOUS
    <3>2. H[1] = F[1] /\ h[1] = g[1]
      BY <2>1
    <3> HIDE DEF H, h
    <3> QED BY <1>1, <3>1, <3>2 DEF Follows
  <2> HIDE DEF H, h
  <2>3. Stream!FlattenSeq(H) = g[n] /\ g[n] \in Seq(S)
    BY <1>4, <2>1, <2>2, FlattenIs
  <2>4. g[n + 1] = g[n] \o F[n + 1]
    <3>1. n + 1 \in 2..(n + 1) /\ (n + 1) - 1 = n
      BY <1>4
    <3> QED BY <1>1, <3>1 DEF Follows
  <2> QED BY <1>2, <2>3, <2>4 DEF H
<1> QED BY <1>3, <1>4

\* A sequence is a prefix of one that it begins, ...
LEMMA PrefixOfConcat ==
  ASSUME NEW S, NEW x \in Seq(S), NEW y \in Seq(S)
  PROVE  Stream!IsPrefix(x, x \o y)
<1>1. Len(x \o y) = Len(x) + Len(y) /\ Len(x) \in Nat /\ Len(y) \in Nat
  OBVIOUS
<1>2. SubSeq(x \o y, 1, Len(x)) = x /\ SubSeq(x, 1, Len(x)) = x
  BY ConcatProperties, SubSeqFull, SubSeqOfConcat1
<1> QED BY <1>1, <1>2 DEF Stream!IsPrefix

\* ... and stays one when more comes at the end.
LEMMA PrefixExtends ==
  ASSUME NEW S, NEW x \in Seq(S), NEW y \in Seq(S), NEW z \in Seq(S), Stream!IsPrefix(x, y)
  PROVE  Stream!IsPrefix(x, y \o z)
<1> DEFINE w == y \o z
<1>1. Len(x) \in Nat /\ Len(y) \in Nat /\ Len(z) \in Nat /\ Len(w) = Len(y) + Len(z) /\ w \in Seq(S)
      /\ Len(x) <= Len(y) /\ SubSeq(x, 1, Len(x)) = SubSeq(y, 1, Len(x))
  BY DEF Stream!IsPrefix
<1>2. \A i \in 1..Len(y) : w[i] = y[i]
  OBVIOUS
<1> HIDE DEF w
<1>3. SubSeq(w, 1, Len(x)) = SubSeq(y, 1, Len(x))
  <2>1. SubSeq(w, 1, Len(x)) = [i \in 1..Len(x) |-> w[i]] /\ SubSeq(y, 1, Len(x)) = [i \in 1..Len(x) |-> y[i]]
    BY <1>1
  <2>2. \A i \in 1..Len(x) : w[i] = y[i]
    BY <1>1, <1>2
  <2> QED BY <2>1, <2>2
<1> QED BY <1>1, <1>3 DEF Stream!IsPrefix, w

\* What goes over the wire, and how long a message is.
Bytes == [of : Nat, at : Nat, files : SUBSET (Nat \X Nat)]
Total(k) == load[k].length

\* Of a message the kernel has taken its length at most, and nothing before it is sent.
Sized ==
  /\ load \in Seq([length : Nat, files : Nat]) /\ mode \in Uses
  /\ message \in 0..Len(load) /\ returned \in Seq(Int)
  /\ blocking \in BOOLEAN /\ answered \in BOOLEAN
  /\ accepted \in [DOMAIN load -> Nat]
  /\ \A k \in DOMAIN load : accepted[k] <= Total(k) /\ (k > message => accepted[k] = 0)
  /\ wire \in Seq(Bytes) /\ got \in Seq(Bytes)

\* A socket that has not been connected has sent nothing, the reader's is shut with the
\* connection, and the flag of the sender's is what the call that is under way has made it.
Dialling ==
  /\ step \in {"none", "connecting", "idle", "sending", "shut"} /\ receiver \in {"open", "shut"}
  /\ step \in {"none", "connecting"} \/ link \in {"none", "dialing"} => message = 0
  /\ step = "none" <=> link = "none"
  /\ receiver = "shut" => link = "closed"
  /\ step = "sending" => message # 0
  /\ Len(returned) = IF step = "sending" THEN message - 1 ELSE message
  /\ blocking = CASE step = "connecting" -> mode.blocking /\ ~mode.timed
                  [] step = "sending" -> mode.blocking \/ mode.managed
                  [] OTHER -> mode.blocking

\* What is left of a message that is sent.
Remaining ==
  rest = IF step = "sending"
         THEN SubSeq(Stream!Bytes(message), accepted[message] + 1, Total(message)) ELSE <<>>

\* Every byte is on the wire once, and the bytes of what UnixSocket has sent are all taken.
OnWire ==
  /\ \A i \in DOMAIN wire :
       /\ wire[i].of \in 1..message /\ wire[i].at \in 1..accepted[wire[i].of]
       /\ wire[i] = Stream!Byte(wire[i].of, wire[i].at)
  /\ \A i, j \in DOMAIN wire : wire[i].of = wire[j].of /\ wire[i].at = wire[j].at => i = j
WholeOnes ==
  mode.managed =>
    \A k \in 1..message :
      k < message \/ step = "idle" => accepted[k] = Total(k)

\* A file is in one place as soon as the first byte of its message was taken, or the message
\* was given up.
OnTheirWay == Stream!FilesOf(wire)
Attached(k) == accepted[k] > 0 \/ k <= Len(returned)
Placed ==
  /\ given \cap closed = {} /\ (given \cup closed) \cap OnTheirWay = {}
  /\ \A k \in DOMAIN load : \A f \in Stream!File(k) :
       f \in given \cup closed \cup OnTheirWay <=> Attached(k)
  /\ \A f \in given : \E i \in DOMAIN got : f \in got[i].files
  /\ \A b \in refused : b.files \subseteq closed

\* What was read and what is on the wire is what was sent, in its order.
Followed ==
  /\ receiver = "open" => got \o wire = Stream!Sent
  /\ Stream!IsPrefix(got, Stream!Sent)
  /\ mode.managed /\ refused # {} => receiver = "shut"

\* The inductive invariant of the stream.
StreamInv ==
  /\ Sized /\ Dialling /\ Remaining /\ OnWire /\ WholeOnes /\ Placed /\ Followed
  /\ Stream!ToldTrue /\ Stream!SaysConnected

\* Joining associates.
LEMMA Associates ==
  ASSUME NEW S, NEW x \in Seq(S), NEW y \in Seq(S), NEW z \in Seq(S)
  PROVE  (x \o y) \o z = x \o (y \o z)
BY ConcatAssociative

-----------------------------------------------------------------------------
\* The bytes of a message.
LEMMA BytesOf ==
  ASSUME Sized, NEW k \in DOMAIN load
  PROVE  /\ Stream!Bytes(k) \in Seq(Bytes) /\ Len(Stream!Bytes(k)) = Total(k) /\ Total(k) \in Nat
         /\ \A i \in 1..Total(k) : Stream!Bytes(k)[i] = Stream!Byte(k, i)
         /\ accepted[k] \in Nat /\ accepted[k] <= Total(k) /\ k \in Nat
<1>1. k \in Nat /\ load[k] \in [length : Nat, files : Nat]
  <2>1. load \in Seq([length : Nat, files : Nat])
    BY DEF Sized
  <2>2. DOMAIN load = 1..Len(load) /\ Len(load) \in Nat
    BY <2>1
  <2>3. load[k] \in [length : Nat, files : Nat]
    <3>1. k \in 1..Len(load)
      BY <2>2
    <3> QED BY <2>1, <3>1, ElementOfSeq
  <2>4. k \in Nat
    BY <2>2
  <2> QED BY <2>3, <2>4
<1>2. Total(k) \in Nat /\ load[k].files \in Nat
  BY <1>1 DEF Total
<1>3. Stream!File(k) \in SUBSET (Nat \X Nat)
  BY <1>1, <1>2 DEF Stream!File
<1>4. \A i \in 1..Total(k) : Stream!Byte(k, i) \in Bytes
  BY <1>1, <1>2, <1>3 DEF Stream!Byte, Bytes
<1>5. Stream!Bytes(k) = [i \in 1..Total(k) |-> Stream!Byte(k, i)]
  BY DEF Stream!Bytes, Total
<1>6. accepted[k] \in Nat /\ accepted[k] <= Total(k)
  BY DEF Sized
<1>7. Stream!Bytes(k) \in [1..Total(k) -> Bytes]
  BY <1>4, <1>5
<1>8. Stream!Bytes(k) \in Seq(Bytes) /\ Len(Stream!Bytes(k)) = Total(k)
  BY <1>2, <1>7
<1> QED BY <1>1, <1>2, <1>5, <1>6, <1>8

\* They stay what they are.
LEMMA BytesStay ==
  ASSUME load' = load
  PROVE  /\ \A k : Stream!Bytes(k)' = Stream!Bytes(k) /\ Stream!File(k)' = Stream!File(k)
         /\ \A k : Total(k)' = Total(k)
         /\ \A k, i : Stream!Byte(k, i)' = Stream!Byte(k, i)
BY DEF Stream!Bytes, Stream!Byte, Stream!File, Total

\* What was sent before the message that is sent now.
Part(k) == SubSeq(Stream!Bytes(k), 1, accepted[k])
Earlier == Stream!FlattenSeq([k \in 1..(message - 1) |-> Part(k)])

LEMMA SentStep ==
  ASSUME Sized
  PROVE  /\ Stream!Sent \in Seq(Bytes)
         /\ message # 0 =>
              /\ Earlier \in Seq(Bytes) /\ Part(message) \in Seq(Bytes)
              /\ Stream!Sent = Earlier \o Part(message)
<1>1. \A k \in 1..message : k \in DOMAIN load /\ Part(k) \in Seq(Bytes)
  <2> SUFFICES ASSUME NEW k \in 1..message PROVE k \in DOMAIN load /\ Part(k) \in Seq(Bytes)
    OBVIOUS
  <2>1. k \in DOMAIN load
    BY DEF Sized
  <2>2. Stream!Bytes(k) \in Seq(Bytes) /\ accepted[k] \in 0..Len(Stream!Bytes(k))
    BY <2>1, BytesOf
  <2> QED BY <2>1, <2>2 DEF Part
<1>2. Stream!Sent = Stream!FlattenSeq([k \in 1..message |-> Part(k)])
  BY DEF Stream!Sent, Part
<1>3. CASE message = 0
  <2>1. [k \in 1..message |-> Part(k)] = <<>>
    BY <1>3
  <2>2. Stream!FlattenSeq(<<>>) = <<>>
    BY DEF Stream!FlattenSeq
  <2>3. <<>> \in Seq(Bytes)
    OBVIOUS
  <2>4. Stream!Sent = <<>>
    BY <1>2, <2>1, <2>2, Zenon
  <2> QED BY <1>3, <2>3, <2>4
<1>4. CASE message # 0
  <2>1. PICK n \in Nat : n = message - 1 /\ message = n + 1
    BY <1>4 DEF Sized
  <2> DEFINE F == [k \in 1..(n + 1) |-> Part(k)]
             H == [k \in 1..n |-> F[k]]
  <2>2. F \in [1..(n + 1) -> Seq(Bytes)] /\ F[n + 1] = Part(message)
    BY <1>1, <2>1
  <2>3. H = [k \in 1..n |-> Part(k)]
    OBVIOUS
  <2>4. Stream!Sent = Stream!FlattenSeq(F) /\ Earlier = Stream!FlattenSeq(H)
    BY <1>2, <2>1, <2>3 DEF Earlier
  <2>5. Part(message) \in Seq(Bytes)
    BY <1>1, <1>4 DEF Sized
  <2> HIDE DEF F
  <2>6. Stream!FlattenSeq(F) = Stream!FlattenSeq(H) \o F[n + 1]
        /\ Stream!FlattenSeq(H) \in Seq(Bytes) /\ Stream!FlattenSeq(F) \in Seq(Bytes)
    BY <2>2, FlattenStep
  <2> HIDE DEF H
  <2> QED BY <2>2, <2>4, <2>5, <2>6
<1> QED BY <1>3, <1>4

\* Of a UnixSocket, all of the earlier messages was.
LEMMA WholeStep ==
  ASSUME Sized, Dialling, WholeOnes, mode.managed, message # 0
  PROVE  Stream!Whole = Earlier \o Stream!Bytes(message)
<1>1. PICK n \in Nat : n = message - 1 /\ message = n + 1
  BY DEF Sized
<1>2. \A k \in 1..message : k \in DOMAIN load /\ Stream!Bytes(k) \in Seq(Bytes)
  <2> SUFFICES ASSUME NEW k \in 1..message
               PROVE  k \in DOMAIN load /\ Stream!Bytes(k) \in Seq(Bytes)
    OBVIOUS
  <2>1. k \in DOMAIN load
    BY DEF Sized
  <2> QED BY <2>1, BytesOf
<1>3. \A k \in 1..n : Part(k) = Stream!Bytes(k)
  <2> SUFFICES ASSUME NEW k \in 1..n PROVE Part(k) = Stream!Bytes(k)
    OBVIOUS
  <2>1. k \in 1..message /\ k < message
    BY <1>1
  <2>2. accepted[k] = Total(k)
    BY <2>1 DEF WholeOnes
  <2>3. Stream!Bytes(k) \in Seq(Bytes) /\ Len(Stream!Bytes(k)) = Total(k)
    BY <1>2, <2>1, BytesOf
  <2> HIDE DEF WholeOnes
  <2> QED BY <2>2, <2>3, SubSeqFull DEF Part
<1> DEFINE F == [k \in 1..(n + 1) |-> Stream!Bytes(k)]
           H == [k \in 1..n |-> F[k]]
<1>4. F \in [1..(n + 1) -> Seq(Bytes)] /\ F[n + 1] = Stream!Bytes(message)
  BY <1>1, <1>2
<1>5. H = [k \in 1..n |-> Part(k)]
  BY <1>3
<1>6. Stream!Whole = Stream!FlattenSeq(F) /\ Earlier = Stream!FlattenSeq(H)
  BY <1>1, <1>5 DEF Earlier, Stream!Whole
<1> HIDE DEF F
<1>7. Stream!FlattenSeq(F) = Stream!FlattenSeq(H) \o F[n + 1]
  BY <1>4, FlattenStep
<1> HIDE DEF H
<1> QED BY <1>4, <1>6, <1>7

\* Nothing is sent but Send and SendSome do it.
LEMMA SentStays ==
  ASSUME UNCHANGED <<load, message, accepted>>
  PROVE  Stream!Sent' = Stream!Sent
<1>1. \A k : Stream!Bytes(k)' = Stream!Bytes(k)
  BY BytesStay
<1> QED BY <1>1 DEF Stream!Sent

\* The same of the next state.
SentGrows == Sized /\ message # 0 => Stream!Sent = Earlier \o Part(message)
LEMMA SentNext == SentGrows'
<1>1. SentGrows
  BY SentStep DEF SentGrows
<1> QED BY <1>1, PTL

\* A use.
LEMMA UseTyped ==
  ASSUME Sized
  PROVE  /\ mode.managed \in BOOLEAN /\ mode.blocking \in BOOLEAN /\ mode.timed \in BOOLEAN
         /\ mode.managed => ~mode.blocking
<1>1. mode \in Uses
  BY DEF Sized
<1>2. mode \in Stream!Use /\ (mode.managed => ~mode.blocking)
  BY <1>1, StreamAssumption
<1> QED BY <1>2 DEF Stream!Use

\* What says where the bytes and the files are.
Data == OnWire /\ Placed /\ Followed
dataVars == <<load, mode, message, accepted, wire, receiver, got, refused, given, closed>>

LEMMA DataStays ==
  ASSUME Data, UNCHANGED <<dataVars, returned>>
  PROVE  Data'
<1>1. /\ \A k : Stream!File(k)' = Stream!File(k)
      /\ \A k, i : Stream!Byte(k, i)' = Stream!Byte(k, i)
  BY BytesStay DEF dataVars
<1>2. OnWire'
  BY <1>1 DEF OnWire, Data, dataVars
<1>3. OnTheirWay' = OnTheirWay
  BY DEF OnTheirWay, Stream!FilesOf, dataVars
<1>4. Placed'
  <2>1. given' = given /\ closed' = closed /\ got' = got /\ refused' = refused /\ load' = load
        /\ \A k : Attached(k)' = Attached(k)
    BY DEF dataVars, Attached
  <2>2. Placed
    BY DEF Data
  <2> QED BY <1>1, <1>3, <2>1, <2>2 DEF Placed
<1>5. Followed'
  <2>1. Stream!Sent' = Stream!Sent
    BY SentStays DEF dataVars
  <2>2. receiver' = receiver /\ got' = got /\ wire' = wire /\ refused' = refused /\ mode' = mode
        /\ Followed
    BY DEF dataVars, Data
  <2> QED BY <2>1, <2>2 DEF Followed
<1> QED BY <1>2, <1>4, <1>5 DEF Data

\* Connect and the network.
LEMMA StreamConnects ==
  ASSUME StreamInv,
         Stream!Connect \/ Stream!ConnectEnds \/ Stream!ConnectPending \/ Stream!Dials
  PROVE  StreamInv'
<1> USE DEF Stream!Connect, Stream!ConnectEnds, Stream!ConnectPending, Stream!Connected,
            Stream!Dials, Stream!OtherThanConnect
<1>1. UNCHANGED <<load, mode, message, rest, accepted, returned, wire, receiver, got, refused,
                  given, closed>>
  OBVIOUS
<1>2. Sized /\ Dialling /\ Remaining /\ WholeOnes /\ Stream!SaysConnected /\ Stream!ToldTrue /\ Data
  BY DEF StreamInv, Data
<1>3. Data'
  BY <1>1, <1>2, DataStays DEF dataVars
<1>4. /\ mode.managed \in BOOLEAN /\ mode.blocking \in BOOLEAN /\ mode.timed \in BOOLEAN
      /\ mode.managed => ~mode.blocking
  BY <1>2, UseTyped
<1>5. Dialling'
  <2>1. CASE Stream!Connect
    BY <1>1, <1>2, <1>4, <2>1 DEF Dialling, Sized
  <2>2. CASE Stream!ConnectEnds
    BY <1>1, <1>2, <1>4, <2>2 DEF Dialling
  <2>3. CASE Stream!ConnectPending
    BY <1>1, <1>2, <1>4, <2>3 DEF Dialling
  <2>4. CASE Stream!Dials
    BY <1>1, <1>2, <1>4, <2>4 DEF Dialling
  <2> QED BY <2>1, <2>2, <2>3, <2>4
<1>6. message = 0 \/ (Stream!Dials /\ UNCHANGED step)
  BY <1>2 DEF Dialling
<1>7. (step \in {"none", "connecting"} /\ message = 0 /\ step' \in {"connecting", "idle"})
      \/ (Stream!Dials /\ UNCHANGED step)
  BY <1>2 DEF Dialling
<1>8. Sized'
  <2>1. blocking' \in BOOLEAN /\ answered' \in BOOLEAN
    BY <1>2, <1>4 DEF Sized
  <2>2. \A k : Total(k)' = Total(k)
    BY <1>1, BytesStay
  <2> QED BY <1>1, <1>2, <2>1, <2>2 DEF Sized
<1>9. Remaining'
  <2>1. \A k : Stream!Bytes(k)' = Stream!Bytes(k) /\ Total(k)' = Total(k)
    BY <1>1, BytesStay
  <2>2. step = "sending" <=> step' = "sending"
    BY <1>7
  <2> QED BY <1>1, <1>2, <2>1, <2>2 DEF Remaining
<1>10. WholeOnes'
  <2>1. \A k : Total(k)' = Total(k)
    BY <1>1, BytesStay
  <2>2. CASE message = 0
    <3>1. 1..message' = {}
      BY <1>1, <2>2
    <3> QED BY <3>1 DEF WholeOnes
  <2>3. CASE UNCHANGED step
    BY <1>1, <1>2, <2>1, <2>3 DEF WholeOnes
  <2> QED BY <1>6, <2>2, <2>3
<1>11. Stream!SaysConnected'
  <2>1. CASE Stream!Connect
    BY <2>1 DEF Stream!SaysConnected
  <2>2. CASE Stream!ConnectEnds
    BY <2>2, <1>1, <1>2, <1>4 DEF Stream!SaysConnected, Sized
  <2>3. CASE Stream!ConnectPending
    BY <2>3, <1>1, <1>2, <1>4 DEF Stream!SaysConnected
  <2>4. CASE Stream!Dials
    BY <2>4, <1>1, <1>2 DEF Stream!SaysConnected
  <2> QED BY <2>1, <2>2, <2>3, <2>4
<1>12. Stream!ToldTrue'
  <2>1. \A k : Stream!File(k)' = Stream!File(k)
    BY <1>1, BytesStay
  <2> QED BY <1>1, <1>2, <2>1 DEF Stream!ToldTrue
<1> QED BY <1>3, <1>5, <1>8, <1>9, <1>10, <1>11, <1>12 DEF StreamInv, Data

\* Send.
LEMMA StreamSend ==
  ASSUME StreamInv, Stream!Send
  PROVE  StreamInv'
<1>1. /\ step = "idle" /\ answered /\ link # "dialing" /\ message < Len(load)
      /\ message' = message + 1 /\ rest' = Stream!Bytes(message') /\ step' = "sending"
      /\ blocking' = (blocking \/ mode.managed)
      /\ UNCHANGED <<load, mode, link, answered, receiver, got, refused, given, accepted, returned,
                     wire, closed>>
  BY DEF Stream!Send, Stream!UnsentVars
<1>2. Sized /\ Dialling /\ Remaining /\ OnWire /\ WholeOnes /\ Placed /\ Followed
      /\ Stream!ToldTrue /\ Stream!SaysConnected
  BY DEF StreamInv
<1>3. /\ mode.managed \in BOOLEAN /\ mode.blocking \in BOOLEAN /\ mode.timed \in BOOLEAN
      /\ mode.managed => ~mode.blocking
  BY <1>2, UseTyped
<1>4. /\ \A k : Stream!Bytes(k)' = Stream!Bytes(k) /\ Stream!File(k)' = Stream!File(k)
      /\ \A k : Total(k)' = Total(k)
      /\ \A k, i : Stream!Byte(k, i)' = Stream!Byte(k, i)
  BY <1>1, BytesStay
<1>5. PICK m \in Nat : m = message + 1 /\ m \in DOMAIN load /\ m # 0 /\ message' = m /\ m > message
      /\ message = m - 1 /\ m \in 0..Len(load)
  BY <1>1, <1>2 DEF Sized
<1>6. Sized'
  <2>1. \A k \in DOMAIN load : k > m => k > message
    BY <1>2, <1>5 DEF Sized
  <2>2. blocking' \in BOOLEAN
    BY <1>1, <1>2, <1>3 DEF Sized
  <2> QED BY <1>1, <1>2, <1>4, <1>5, <2>1, <2>2 DEF Sized
<1>7. accepted[m] = 0
  BY <1>2, <1>5 DEF Sized
<1>8. Dialling'
  BY <1>1, <1>2, <1>3, <1>5 DEF Dialling
<1>9. Remaining'
  <2>1. rest' = Stream!Bytes(m) /\ Stream!Bytes(m) \in Seq(Bytes) /\ Len(Stream!Bytes(m)) = Total(m)
    BY <1>1, <1>2, <1>4, <1>5, BytesOf
  <2>2. SubSeq(Stream!Bytes(m), 1, Total(m)) = Stream!Bytes(m)
    BY <2>1, SubSeqFull
  <2>3. accepted'[message'] + 1 = 1 /\ message' = m
    BY <1>1, <1>5, <1>7
  <2>4. SubSeq(Stream!Bytes(message), accepted[message] + 1, Total(message))'
        = SubSeq(Stream!Bytes(m), 1, Total(m))
    BY <1>4, <1>5, <2>3
  <2> QED BY <1>1, <2>1, <2>2, <2>4 DEF Remaining
<1>10. OnWire'
  <2>1. 1..message \subseteq 1..m
    BY <1>5
  <2>2. \A i \in DOMAIN wire : wire[i].of \in 1..message
    BY <1>2 DEF OnWire
  <2>3. \A i \in DOMAIN wire : wire[i].of \in 1..m
    BY <2>1, <2>2
  <2>4. message' = m
    BY <1>5
  <2> QED BY <1>1, <1>2, <1>4, <2>3, <2>4 DEF OnWire
<1>11. WholeOnes'
  <2>1. \A k \in 1..m : k < m => k \in 1..message
    BY <1>5 DEF Sized
  <2>2. \A k \in 1..message : mode.managed => accepted[k] = Total(k)
    BY <1>1, <1>2 DEF WholeOnes
  <2> QED BY <1>1, <1>4, <1>5, <2>1, <2>2 DEF WholeOnes
<1>12. Placed'
  <2>1. OnTheirWay' = OnTheirWay
    BY <1>1 DEF OnTheirWay, Stream!FilesOf
  <2>2. \A k : Attached(k)' = Attached(k)
    BY <1>1 DEF Attached
  <2> QED BY <1>1, <1>2, <1>4, <2>1, <2>2 DEF Placed
<1>13. Followed'
  <2>1. Stream!Sent' = Stream!Sent
    <3>1. Sized'
      BY <1>6
    <3>2. Stream!Sent' = (Earlier \o Part(message))'
      <4>3. message' # 0
        BY <1>5
      <4> QED BY <1>6, <4>3, SentNext DEF SentGrows
    <3>3. Earlier' = Stream!Sent
      <4>1. (message - 1)' = message
        BY <1>5
      <4>2. \A k : Part(k)' = SubSeq(Stream!Bytes(k), 1, accepted[k])
        BY <1>1, <1>4 DEF Part
      <4> QED BY <4>1, <4>2 DEF Earlier, Stream!Sent
    <3>4. Part(message)' = <<>>
      <4>1. Part(message)' = SubSeq(Stream!Bytes(m), 1, 0)
        BY <1>1, <1>4, <1>5, <1>7 DEF Part
      <4>2. Stream!Bytes(m) \in Seq(Bytes)
        BY <1>2, <1>5, BytesOf
      <4> QED BY <4>1, <4>2
    <3>5. Stream!Sent \in Seq(Bytes)
      BY <1>2, SentStep
    <3>6. (Earlier \o Part(message))' = Stream!Sent \o <<>>
      BY <3>3, <3>4
    <3> QED BY <3>2, <3>5, <3>6
  <2> QED BY <1>1, <1>2, <2>1 DEF Followed
<1>14. Stream!ToldTrue'
  BY <1>1, <1>2, <1>4 DEF Stream!ToldTrue
<1>15. Stream!SaysConnected'
  BY <1>1 DEF Stream!SaysConnected
<1> QED BY <1>6, <1>8, <1>9, <1>10, <1>11, <1>12, <1>13, <1>14, <1>15 DEF StreamInv

\* A send that returns: the files of a message of which nothing was taken are gone.
Ended(total) ==
  /\ step = "sending" /\ Stream!Returned(total) /\ total \in {-1, accepted[message]}
  /\ closed' = closed \cup Stream!Unattached
  /\ UNCHANGED <<load, mode, answered, receiver, got, refused, given, message, accepted, wire>>

LEMMA SendEnds ==
  ASSUME StreamInv, Stream!SendAll \/ Stream!SendTimesOut \/ Stream!SendFails
  PROVE  Ended(-1) \/ Ended(accepted[message])
<1>1. CASE Stream!SendAll
  <2>1. Sized /\ Dialling /\ Remaining
    BY DEF StreamInv
  <2>2. step = "sending" /\ rest = <<>> /\ message # 0
    BY <1>1, <2>1 DEF Stream!SendAll, Dialling
  <2>3. message \in DOMAIN load
    BY <2>1, <2>2 DEF Sized
  <2>4. /\ Stream!Bytes(message) \in Seq(Bytes) /\ Len(Stream!Bytes(message)) = Total(message)
        /\ Total(message) \in Nat /\ accepted[message] \in Nat
        /\ accepted[message] <= Total(message)
    BY <2>1, <2>3, BytesOf
  <2>5. SubSeq(Stream!Bytes(message), accepted[message] + 1, Total(message)) = <<>>
    BY <2>1, <2>2 DEF Remaining
  <2>6. accepted[message] = Total(message)
    <3>1. PICK b \in Seq(Bytes), t \in Nat, n \in Nat :
            b = Stream!Bytes(message) /\ t = accepted[message] /\ n = Total(message) /\ Len(b) = n
      BY <2>4
    <3>2. t <= n /\ SubSeq(b, t + 1, n) = <<>>
      BY <2>4, <2>5, <3>1
    <3>3. t < n => Len(SubSeq(b, t + 1, n)) = n - t
      BY <3>1
    <3>4. Len(<<>>) = 0
      OBVIOUS
    <3>5. Len(SubSeq(b, t + 1, n)) = 0
      BY <3>2, <3>4, Zenon
    <3>6. t < n => n - t = 0
      BY <3>3, <3>5
    <3>7. t = n
      BY <3>2, <3>6
    <3> QED BY <3>1, <3>7
  <2>7. load[message].length = 0 <=> accepted[message] = 0
    BY <2>6 DEF Total
  <2>8. closed' = closed \cup Stream!Unattached
    BY <1>1, <2>7 DEF Stream!SendAll, Stream!Unattached
  <2> QED BY <1>1, <2>2, <2>8 DEF Stream!SendAll, Ended
<1>2. CASE Stream!SendTimesOut
  BY <1>2 DEF Stream!SendTimesOut, Ended
<1>3. CASE Stream!SendFails
  BY <1>3 DEF Stream!SendFails, Ended
<1> QED BY <1>1, <1>2, <1>3

\* The files of two messages are not the same.
LEMMA FilesDiffer ==
  ASSUME NEW k, NEW l, NEW f \in Stream!File(k), f \in Stream!File(l)
  PROVE  k = l /\ f[1] = k
BY DEF Stream!File

LEMMA StreamEnds ==
  ASSUME StreamInv, NEW total, Ended(total)
  PROVE  StreamInv'
<1>1. /\ step = "sending" /\ total \in {-1, accepted[message]}
      /\ closed' = closed \cup Stream!Unattached
      /\ load' = load /\ mode' = mode /\ answered' = answered /\ receiver' = receiver /\ got' = got
      /\ given' = given /\ message' = message /\ accepted' = accepted /\ wire' = wire
      /\ refused' = refused
      /\ returned' = Append(returned, total) /\ rest' = <<>>
      /\ blocking' = (blocking /\ ~mode.managed)
      /\ IF mode.managed /\ total # load[message].length
         THEN step' = "shut" /\ link' = "closed" ELSE step' = "idle" /\ link' = link
  BY DEF Ended, Stream!Returned
<1>2. Sized /\ Dialling /\ Remaining /\ OnWire /\ WholeOnes /\ Placed /\ Followed
      /\ Stream!ToldTrue /\ Stream!SaysConnected
  BY DEF StreamInv
<1>3. /\ mode.managed \in BOOLEAN /\ mode.blocking \in BOOLEAN /\ mode.timed \in BOOLEAN
      /\ mode.managed => ~mode.blocking
  BY <1>2, UseTyped
<1>4. /\ \A k : Stream!Bytes(k)' = Stream!Bytes(k) /\ Stream!File(k)' = Stream!File(k)
      /\ \A k : Total(k)' = Total(k)
      /\ \A k, i : Stream!Byte(k, i)' = Stream!Byte(k, i)
  BY <1>1, BytesStay
<1>5. message # 0 /\ message \in DOMAIN load /\ message \in Nat
  BY <1>1, <1>2 DEF Dialling, Sized
<1>6. Total(message) \in Nat /\ accepted[message] \in Nat /\ total \in Int
      /\ Total(message) = load[message].length
  BY <1>1, <1>2, <1>5, BytesOf DEF Total
<1>7. Len(returned) = message - 1 /\ returned \in Seq(Int) /\ Len(returned) \in Nat
  BY <1>1, <1>2 DEF Dialling, Sized
<1>8. /\ returned' \in Seq(Int) /\ Len(returned') = message /\ returned'[message] = total
      /\ \A k \in DOMAIN returned : returned'[k] = returned[k]
      /\ DOMAIN returned' = DOMAIN returned \cup {message}
  <2>1. PICK n \in Nat : n = Len(returned) /\ message = n + 1
    BY <1>5, <1>7
  <2>2. returned' = Append(returned, total) /\ total \in Int /\ returned \in Seq(Int)
    BY <1>1, <1>6, <1>7
  <2>3. /\ returned' \in Seq(Int) /\ Len(returned') = n + 1 /\ returned'[n + 1] = total
        /\ \A k \in 1..n : returned'[k] = returned[k]
    BY <2>1, <2>2, AppendProperties
  <2>4. DOMAIN returned = 1..n /\ DOMAIN returned' = 1..(n + 1)
    BY <2>1, <2>2, <2>3
  <2>5. 1..(n + 1) = 1..n \cup {n + 1}
    OBVIOUS
  <2> QED BY <2>1, <2>3, <2>4, <2>5
<1>9. step' \in {"idle", "shut"} /\ blocking' = mode.blocking /\ blocking' \in BOOLEAN
  BY <1>1, <1>2, <1>3 DEF Dialling
<1>10. Sized'
  BY <1>1, <1>2, <1>4, <1>8, <1>9 DEF Sized
<1>11. Dialling'
  BY <1>1, <1>2, <1>3, <1>5, <1>8, <1>9 DEF Dialling
<1>12. Remaining'
  BY <1>1, <1>9 DEF Remaining
<1>13. OnWire'
  BY <1>1, <1>2, <1>4 DEF OnWire
<1>14. WholeOnes'
  <2>1. ASSUME mode.managed, step' = "idle" PROVE accepted[message] = Total(message)
    BY <1>1, <1>6, <2>1
  <2>2. \A k \in 1..message : k < message \/ k = message
    BY <1>5
  <2> QED BY <1>1, <1>2, <1>4, <2>1, <2>2 DEF WholeOnes
<1>15. Followed'
  <2>1. Stream!Sent' = Stream!Sent
    BY <1>1, SentStays
  <2> QED BY <1>1, <1>2, <2>1 DEF Followed
<1>16. Placed'
  <2>1. OnTheirWay' = OnTheirWay
    BY <1>1 DEF OnTheirWay, Stream!FilesOf
  <2>2. \A k \in DOMAIN load : Attached(k)' <=> Attached(k) \/ k = message
    <3>1. \A k \in DOMAIN load : k \in Nat
      BY <1>2 DEF Sized
    <3>2. accepted' = accepted /\ Len(returned') = message
      BY <1>1, <1>8
    <3> QED BY <1>5, <1>7, <3>1, <3>2 DEF Attached
  <2>3. accepted[message] = 0 => ~Attached(message)
    BY <1>5, <1>7 DEF Attached
  <2>4. accepted[message] # 0 => Attached(message)
    BY <1>6 DEF Attached
  <2>5. \A f \in Stream!Unattached :
          /\ f \in Stream!File(message) /\ accepted[message] = 0
          /\ f \notin given \cup closed \cup OnTheirWay
    BY <1>2, <1>5, <2>3 DEF Stream!Unattached, Placed
  <2>6. accepted[message] = 0 => Stream!Unattached = Stream!File(message)
    BY DEF Stream!Unattached
  <2>7. \A k \in DOMAIN load : \A f \in Stream!File(k) :
          f \in given \cup closed' \cup OnTheirWay <=> Attached(k) \/ k = message
    <3> SUFFICES ASSUME NEW k \in DOMAIN load, NEW f \in Stream!File(k)
                 PROVE  f \in given \cup closed' \cup OnTheirWay <=> Attached(k) \/ k = message
      OBVIOUS
    <3>1. f \in given \cup closed \cup OnTheirWay <=> Attached(k)
      BY <1>2 DEF Placed
    <3>2. f \in Stream!Unattached => k = message
      BY <2>5, FilesDiffer
    <3>3. k = message => f \in Stream!Unattached \/ Attached(k)
      BY <2>4, <2>6
    <3> QED BY <1>1, <3>1, <3>2, <3>3
  <2>8. given \cap closed' = {} /\ (given \cup closed') \cap OnTheirWay = {}
    BY <1>1, <1>2, <2>5 DEF Placed
  <2>9. /\ \A f \in given : \E i \in DOMAIN got : f \in got[i].files
        /\ \A b \in refused : b.files \subseteq closed'
    BY <1>1, <1>2 DEF Placed
  <2> QED BY <1>1, <1>4, <2>1, <2>2, <2>7, <2>8, <2>9 DEF Placed
<1>17. Stream!ToldTrue'
  <2>1. ASSUME NEW k \in DOMAIN returned
        PROVE  returned'[k] \in {-1, accepted[k]} /\ (accepted[k] = 0 => Stream!File(k) \subseteq closed')
    BY <1>1, <1>2, <1>8 DEF Stream!ToldTrue
  <2>2. accepted[message] = 0 => Stream!File(message) \subseteq closed'
    BY <1>1 DEF Stream!Unattached
  <2> QED BY <1>1, <1>4, <1>8, <2>1, <2>2 DEF Stream!ToldTrue
<1>18. Stream!SaysConnected'
  BY <1>1, <1>5 DEF Stream!SaysConnected
<1> QED BY <1>10, <1>11, <1>12, <1>13, <1>14, <1>15, <1>16, <1>17, <1>18 DEF StreamInv

\* The first n of what is left, and the rest of it.
LEMMA Cut ==
  ASSUME NEW S, NEW b \in Seq(S), NEW t \in Nat, t <= Len(b), NEW n \in Nat, n # 0,
         NEW r, r = SubSeq(b, t + 1, Len(b)), n <= Len(r)
  PROVE  /\ t + n <= Len(b) /\ SubSeq(r, 1, n) = SubSeq(b, t + 1, t + n)
         /\ SubSeq(r, n + 1, Len(r)) = SubSeq(b, t + n + 1, Len(b))
         /\ SubSeq(b, 1, t) \o SubSeq(b, t + 1, t + n) = SubSeq(b, 1, t + n)
         /\ SubSeq(b, 1, t) \in Seq(S) /\ SubSeq(b, t + 1, t + n) \in Seq(S)
         /\ Len(SubSeq(b, t + 1, t + n)) = n
         /\ \A i \in 1..n : SubSeq(b, t + 1, t + n)[i] = b[t + i]
<1>1. PICK l \in Nat : l = Len(b)
  OBVIOUS
<1>2. r \in Seq(S) /\ Len(r) = l - t
  <2>1. CASE t = l
    <3>1. r = <<>>
      BY <1>1, <2>1
    <3>2. <<>> \in Seq(S) /\ Len(<<>>) = 0
      OBVIOUS
    <3>3. l - t = 0
      BY <2>1
    <3> QED BY <3>1, <3>2, <3>3, Zenon
  <2>2. CASE t < l
    BY <1>1, <2>2
  <2> QED BY <1>1, <2>1, <2>2
<1>3. t + n <= l /\ t < l
  BY <1>1, <1>2
<1>4. SubSeq(r, 1, n) = SubSeq(b, t + 1, t + n)
  <2>1. /\ t + 1 \in 1..Len(b) /\ l \in 1..Len(b) /\ 1 \in 1..(l - (t + 1) + 1)
        /\ n \in 1..(l - (t + 1) + 1)
    BY <1>1, <1>3
  <2>2. SubSeq(SubSeq(b, t + 1, l), 1, n) = SubSeq(b, (t + 1) + 1 - 1, (t + 1) + n - 1)
    BY <1>2, <1>1, <2>1, SubSeqOfSubSeq
  <2>3. (t + 1) + 1 - 1 = t + 1 /\ (t + 1) + n - 1 = t + n
    OBVIOUS
  <2> QED BY <1>1, <2>2, <2>3
<1>5. SubSeq(r, n + 1, Len(r)) = SubSeq(b, t + n + 1, Len(b))
  <2>1. CASE n = l - t
    <3>1. SubSeq(r, n + 1, Len(r)) = <<>>
      BY <1>2, <2>1, SubSeqEmpty
    <3>2. l < t + n + 1
      BY <2>1
    <3>3. SubSeq(b, t + n + 1, l) = <<>>
      BY <3>2, SubSeqEmpty
    <3> QED BY <1>1, <3>1, <3>3
  <2>2. CASE n # l - t
    <3>1. /\ t + 1 \in 1..Len(b) /\ l \in 1..Len(b) /\ n + 1 \in 1..(l - (t + 1) + 1)
          /\ l - t \in 1..(l - (t + 1) + 1)
      BY <1>1, <1>2, <1>3, <2>2
    <3>2. SubSeq(SubSeq(b, t + 1, l), n + 1, l - t)
          = SubSeq(b, (t + 1) + (n + 1) - 1, (t + 1) + (l - t) - 1)
      BY <1>1, <1>2, <3>1, SubSeqOfSubSeq
    <3>3. (t + 1) + (n + 1) - 1 = t + n + 1 /\ (t + 1) + (l - t) - 1 = l
      OBVIOUS
    <3> QED BY <1>1, <1>2, <3>2, <3>3
  <2> QED BY <2>1, <2>2
<1>6. SubSeq(b, 1, t) \o SubSeq(b, t + 1, t + n) = SubSeq(b, 1, t + n)
  <2>1. 1 \in 1..Len(b) + 1 /\ t \in (1 - 1)..Len(b) /\ t + n \in t..Len(b)
    BY <1>1, <1>3
  <2> QED BY <2>1, ConcatAdjacentSubSeq
<1>7. SubSeq(b, 1, t) \in Seq(S)
  BY <1>1, <1>3
<1>8. /\ SubSeq(b, t + 1, t + n) \in Seq(S) /\ Len(SubSeq(b, t + 1, t + n)) = n
      /\ \A i \in 1..n : SubSeq(b, t + 1, t + n)[i] = b[t + i]
  <2>1. \A i \in (t + 1)..(t + n) : b[i] \in S
    BY <1>1, <1>3
  <2>2. t + 1 \in Int /\ t + n \in Int /\ t + 1 <= t + n /\ (t + n) - (t + 1) + 1 = n
    OBVIOUS
  <2>3. /\ SubSeq(b, t + 1, t + n) \in Seq(S) /\ Len(SubSeq(b, t + 1, t + n)) = n
        /\ \A i \in 1..n : SubSeq(b, t + 1, t + n)[i] = b[(t + 1) + i - 1]
    BY <2>1, <2>2, SubSeqProperties
  <2>4. \A i \in 1..n : (t + 1) + i - 1 = t + i
    OBVIOUS
  <2> QED BY <2>3, <2>4
<1> QED BY <1>1, <1>3, <1>4, <1>5, <1>6, <1>7, <1>8

\* Associates, as it is used.
LEMMA BytesAssociate ==
  \A x, y, z \in Seq(Bytes) : (x \o y) \o z = x \o (y \o z)
BY Associates

\* Cut, as it is used.
CutAt(b, t, n, r) ==
  /\ t + n <= Len(b) /\ SubSeq(r, 1, n) = SubSeq(b, t + 1, t + n)
  /\ SubSeq(r, n + 1, Len(r)) = SubSeq(b, t + n + 1, Len(b))
  /\ SubSeq(b, 1, t) \o SubSeq(b, t + 1, t + n) = SubSeq(b, 1, t + n)
  /\ SubSeq(b, 1, t) \in Seq(Bytes) /\ SubSeq(b, t + 1, t + n) \in Seq(Bytes)
  /\ Len(SubSeq(b, t + 1, t + n)) = n
  /\ \A i \in 1..n : SubSeq(b, t + 1, t + n)[i] = b[t + i]
LEMMA CutBytes ==
  \A b \in Seq(Bytes), t, n \in Nat : \A r :
    t <= Len(b) /\ n # 0 /\ r = SubSeq(b, t + 1, Len(b)) /\ n <= Len(r) => CutAt(b, t, n, r)
BY Cut DEF CutAt

\* sendmsg takes n bytes.
LEMMA StreamSendSome ==
  ASSUME StreamInv, NEW n \in 1..Room, Stream!SendSome(n)
  PROVE  StreamInv'
<1>1. /\ step = "sending" /\ link = "up" /\ n \in Nat /\ n # 0 /\ n <= Len(rest)
      /\ wire' = wire \o SubSeq(rest, 1, n)
      /\ accepted' = [accepted EXCEPT ![message] = @ + n]
      /\ rest' = SubSeq(rest, n + 1, Len(rest))
      /\ load' = load /\ mode' = mode /\ link' = link /\ answered' = answered /\ step' = step
      /\ receiver' = receiver /\ got' = got /\ given' = given /\ blocking' = blocking
      /\ message' = message /\ returned' = returned /\ closed' = closed /\ refused' = refused
  BY DEF Stream!SendSome, Stream!ShiftMsgHdr, Stream!UnsentVars
<1>2. Sized /\ Dialling /\ Remaining /\ OnWire /\ WholeOnes /\ Placed /\ Followed
      /\ Stream!ToldTrue /\ Stream!SaysConnected
  BY DEF StreamInv
<1>3. /\ \A k : Stream!Bytes(k)' = Stream!Bytes(k) /\ Stream!File(k)' = Stream!File(k)
      /\ \A k : Total(k)' = Total(k)
      /\ \A k, i : Stream!Byte(k, i)' = Stream!Byte(k, i)
  BY <1>1, BytesStay
<1>4. PICK m \in Nat : m = message /\ m # 0 /\ m \in DOMAIN load /\ m \in 1..m
      /\ Len(returned) = m - 1
  <2>1. message # 0 /\ Len(returned) = message - 1
    BY <1>1, <1>2 DEF Dialling
  <2>2. message \in 0..Len(load) /\ Len(load) \in Nat /\ DOMAIN load = 1..Len(load)
    BY <1>2 DEF Sized
  <2>3. message \in Nat /\ message \in DOMAIN load /\ message \in 1..message
    BY <2>1, <2>2
  <2> QED BY <2>1, <2>3
<1>5. PICK b \in Seq(Bytes), t \in Nat : b = Stream!Bytes(m) /\ t = accepted[m] /\ t <= Len(b)
      /\ Len(b) = Total(m) /\ \A i \in 1..Total(m) : b[i] = Stream!Byte(m, i)
  BY <1>2, <1>4, BytesOf
<1>6. rest = SubSeq(b, t + 1, Len(b))
  BY <1>1, <1>2, <1>4, <1>5 DEF Remaining
<1>7. PICK x \in Seq(Bytes) :
        /\ x = SubSeq(b, t + 1, t + n) /\ SubSeq(rest, 1, n) = x /\ t + n <= Len(b)
        /\ SubSeq(rest, n + 1, Len(rest)) = SubSeq(b, t + n + 1, Len(b))
        /\ SubSeq(b, 1, t) \o x = SubSeq(b, 1, t + n) /\ SubSeq(b, 1, t) \in Seq(Bytes)
        /\ Len(x) = n /\ \A i \in 1..n : x[i] = b[t + i]
  <2>1. PICK r : r = rest
    OBVIOUS
  <2>2. r = SubSeq(b, t + 1, Len(b)) /\ n <= Len(r) /\ n \in Nat /\ n # 0
    BY <1>1, <1>6, <2>1
  <2>3. /\ SubSeq(b, t + 1, t + n) \in Seq(Bytes)
        /\ SubSeq(r, 1, n) = SubSeq(b, t + 1, t + n) /\ t + n <= Len(b)
        /\ SubSeq(r, n + 1, Len(r)) = SubSeq(b, t + n + 1, Len(b))
        /\ SubSeq(b, 1, t) \o SubSeq(b, t + 1, t + n) = SubSeq(b, 1, t + n)
        /\ SubSeq(b, 1, t) \in Seq(Bytes) /\ Len(SubSeq(b, t + 1, t + n)) = n
        /\ \A i \in 1..n : SubSeq(b, t + 1, t + n)[i] = b[t + i]
    <3>1. b \in Seq(Bytes) /\ t \in Nat /\ n \in Nat
      BY <1>5, <2>2
    <3>2. t <= Len(b) /\ n # 0 /\ r = SubSeq(b, t + 1, Len(b)) /\ n <= Len(r)
      BY <1>5, <2>2
    <3>3. CutAt(b, t, n, r)
      BY <3>1, <3>2, CutBytes, Zenon
    <3> QED BY <3>3, Zenon DEF CutAt
  <2> QED BY <2>1, <2>3, Zenon
<1>8. /\ accepted'[m] = t + n
      /\ \A k \in DOMAIN load : k # m => accepted'[k] = accepted[k]
      /\ accepted' \in [DOMAIN load -> Nat]
  <2>1. accepted \in [DOMAIN load -> Nat]
    BY <1>2 DEF Sized
  <2>2. accepted' = [accepted EXCEPT ![m] = t + n] /\ t + n \in Nat
    BY <1>1, <1>4, <1>5
  <2> QED BY <1>4, <2>1, <2>2
<1>9. wire' = wire \o x /\ wire \in Seq(Bytes)
  BY <1>1, <1>2, <1>7 DEF Sized
<1>10. PICK l \in Nat : l = Len(wire) /\ DOMAIN wire = 1..l /\ DOMAIN wire' = 1..(l + n)
       /\ (\A i \in 1..l : wire'[i] = wire[i]) /\ (\A i \in 1..n : wire'[l + i] = b[t + i])
       /\ (\A i \in (l + 1)..(l + n) : i - l \in 1..n /\ wire'[i] = b[t + (i - l)])
  <2>1. PICK l \in Nat : l = Len(wire) /\ DOMAIN wire = 1..l
    BY <1>9
  <2>2. /\ Len(wire') = l + n /\ DOMAIN wire' = 1..(l + n)
        /\ \A i \in 1..l : wire'[i] = wire[i]
        /\ \A i \in 1..n : wire'[l + i] = x[i]
    <3>1. /\ Len(wire') = Len(wire) + Len(x)
          /\ \A i \in 1..(Len(wire) + Len(x)) :
               wire'[i] = IF i <= Len(wire) THEN wire[i] ELSE x[i - Len(wire)]
      BY <1>9, ConcatProperties
    <3>2. Len(wire') = l + n
          /\ \A i \in 1..(l + n) : wire'[i] = IF i <= l THEN wire[i] ELSE x[i - l]
      BY <1>7, <2>1, <3>1
    <3>3. wire' \in Seq(Bytes)
      BY <1>9
    <3>4. DOMAIN wire' = 1..(l + n)
      BY <3>2, <3>3
    <3>5. \A i \in 1..l : i \in 1..(l + n) /\ i <= l
      BY <1>1
    <3>6. \A i \in 1..n : l + i \in 1..(l + n) /\ ~(l + i <= l) /\ (l + i) - l = i
      BY <1>1
    <3> QED BY <3>2, <3>4, <3>5, <3>6
  <2>3. \A i \in (l + 1)..(l + n) : i - l \in 1..n /\ l + (i - l) = i
    OBVIOUS
  <2>4. \A i \in 1..n : wire'[l + i] = b[t + i]
    BY <1>7, <2>2
  <2>5. \A i \in (l + 1)..(l + n) : wire'[i] = b[t + (i - l)]
    BY <2>3, <2>4
  <2> QED BY <2>1, <2>2, <2>3, <2>4, <2>5
<1>11. \A i \in (l + 1)..(l + n) :
         /\ t + (i - l) \in 1..(t + n) /\ wire'[i] = Stream!Byte(m, t + (i - l))
         /\ wire'[i].of = m /\ wire'[i].at = t + (i - l)
  <2> SUFFICES ASSUME NEW i \in (l + 1)..(l + n)
               PROVE  /\ t + (i - l) \in 1..(t + n) /\ wire'[i] = Stream!Byte(m, t + (i - l))
                      /\ wire'[i].of = m /\ wire'[i].at = t + (i - l)
    OBVIOUS
  <2>1. PICK j \in Nat : j = t + (i - l) /\ j \in 1..(t + n) /\ j <= Len(b) /\ j \in 1..Len(b)
    BY <1>1, <1>7
  <2>2. wire'[i] = Stream!Byte(m, j)
    BY <1>5, <1>10, <2>1
  <2>3. Stream!Byte(m, j).of = m /\ Stream!Byte(m, j).at = j
    BY DEF Stream!Byte
  <2> QED BY <2>1, <2>2, <2>3
<1>12. \A i \in 1..(l + n) : i \in 1..l \/ i \in (l + 1)..(l + n)
  OBVIOUS
<1>13. Sized'
  <2>1. wire' \in Seq(Bytes)
    BY <1>9, <1>7
  <2>2. \A k \in DOMAIN load : accepted'[k] <= Total(k) /\ (k > message => accepted'[k] = 0)
    <3> SUFFICES ASSUME NEW k \in DOMAIN load
                 PROVE  accepted'[k] <= Total(k) /\ (k > message => accepted'[k] = 0)
      OBVIOUS
    <3>1. CASE k = m
      BY <1>4, <1>5, <1>7, <1>8, <3>1
    <3>2. CASE k # m
      BY <1>2, <1>8, <3>2 DEF Sized
    <3> QED BY <3>1, <3>2
  <2> QED BY <1>1, <1>2, <1>3, <1>8, <2>1, <2>2 DEF Sized
<1>14. Dialling'
  BY <1>1, <1>2 DEF Dialling
<1>15. Remaining'
  <2>1. rest' = SubSeq(b, t + n + 1, Total(m))
    BY <1>1, <1>5, <1>7
  <2>2. SubSeq(Stream!Bytes(message), accepted[message] + 1, Total(message))'
        = SubSeq(b, t + n + 1, Total(m))
    BY <1>1, <1>3, <1>4, <1>5, <1>8
  <2> QED BY <1>1, <2>1, <2>2 DEF Remaining
<1>16. WholeOnes'
  <2>1. \A k \in 1..m : k \in DOMAIN load
    BY <1>2, <1>4 DEF Sized
  <2> QED BY <1>1, <1>2, <1>3, <1>4, <1>8, <2>1 DEF WholeOnes
<1>17. Stream!ToldTrue'
  <2>1. \A k \in DOMAIN returned : k \in DOMAIN load /\ k # m
    <3>1. returned \in Seq(Int)
      BY <1>2 DEF Sized
    <3>2. \A k \in DOMAIN returned : k \in 1..(m - 1)
      BY <1>4, <3>1
    <3>3. \A k \in 1..m : k \in DOMAIN load
      BY <1>2, <1>4 DEF Sized
    <3>4. \A k \in 1..(m - 1) : k \in 1..m /\ k # m
      OBVIOUS
    <3> QED BY <3>2, <3>3, <3>4
  <2> QED BY <1>1, <1>2, <1>3, <1>8, <2>1 DEF Stream!ToldTrue
<1>18. Stream!SaysConnected'
  BY <1>1, <1>2 DEF Stream!SaysConnected
<1>19. OnWire'
  <2>1. \A k \in 1..m : k \in DOMAIN load /\ k \in Nat
    BY <1>2, <1>4 DEF Sized
  <2>2. \A i \in 1..l : wire[i].of \in 1..m /\ wire[i].at \in 1..accepted[wire[i].of]
                        /\ wire[i] = Stream!Byte(wire[i].of, wire[i].at)
    BY <1>2, <1>4, <1>10 DEF OnWire
  <2>3. \A k \in 1..m : accepted[k] \in Nat /\ accepted'[k] \in Nat /\ accepted[k] <= accepted'[k]
    <3> SUFFICES ASSUME NEW k \in 1..m
                 PROVE  accepted[k] \in Nat /\ accepted'[k] \in Nat /\ accepted[k] <= accepted'[k]
      OBVIOUS
    <3>1. k \in DOMAIN load /\ accepted \in [DOMAIN load -> Nat]
      BY <1>2, <2>1 DEF Sized
    <3>2. CASE k = m
      BY <1>1, <1>5, <1>8, <3>2
    <3>3. CASE k # m
      <4>1. accepted'[k] = accepted[k]
        BY <1>8, <3>1, <3>3
      <4>2. accepted[k] \in Nat
        BY <3>1
      <4> QED BY <4>1, <4>2
    <3> QED BY <3>2, <3>3
  <2>4. ASSUME NEW i \in 1..(l + n)
        PROVE  /\ wire'[i].of \in 1..m /\ wire'[i].at \in 1..accepted'[wire'[i].of]
               /\ wire'[i] = Stream!Byte(wire'[i].of, wire'[i].at)
    <3>1. CASE i \in 1..l
      <4>1. PICK k \in 1..m : k = wire[i].of /\ wire[i].at \in 1..accepted[k]
        BY <2>2, <3>1
      <4>2. wire[i].at \in 1..accepted'[k]
        BY <2>3, <4>1
      <4> QED BY <1>10, <2>2, <3>1, <4>1, <4>2
    <3>2. CASE i \in (l + 1)..(l + n)
      <4>1. PICK j : j = t + (i - l) /\ j \in 1..(t + n) /\ wire'[i] = Stream!Byte(m, j)
                     /\ wire'[i].of = m /\ wire'[i].at = j
        BY <1>11, <3>2
      <4> QED BY <1>4, <1>8, <4>1
    <3> QED BY <1>12, <3>1, <3>2
  <2>5. ASSUME NEW i \in 1..(l + n), NEW j \in 1..(l + n),
               wire'[i].of = wire'[j].of, wire'[i].at = wire'[j].at
        PROVE  i = j
    <3>1. CASE i \in 1..l /\ j \in 1..l
      <4>1. i \in DOMAIN wire /\ j \in DOMAIN wire /\ wire'[i] = wire[i] /\ wire'[j] = wire[j]
        BY <1>10, <3>1
      <4>2. wire[i].of = wire[j].of /\ wire[i].at = wire[j].at
        BY <2>5, <4>1
      <4> QED BY <1>2, <4>1, <4>2 DEF OnWire
    <3>2. ASSUME NEW x1 \in 1..l, NEW y1 \in (l + 1)..(l + n)
          PROVE  ~(wire'[x1].of = wire'[y1].of /\ wire'[x1].at = wire'[y1].at)
      <4>1. wire'[y1].of = m /\ wire'[y1].at = t + (y1 - l) /\ t + (y1 - l) \notin 1..t
        BY <1>11
      <4>2. wire'[x1].of = m => wire'[x1].at \in 1..t
        BY <1>5, <1>10, <2>2
      <4> QED BY <4>1, <4>2, Zenon
    <3>3. CASE i \in (l + 1)..(l + n) /\ j \in (l + 1)..(l + n)
      <4>1. /\ wire'[i].at = t + (i - l) /\ wire'[j].at = t + (j - l)
        BY <1>11, <3>3
      <4>2. t + (i - l) = t + (j - l)
        BY <2>5, <4>1, Zenon
      <4>3. t \in Int /\ i \in Int /\ j \in Int /\ l \in Int
        OBVIOUS
      <4> QED BY ONLY <4>2, <4>3
    <3> QED BY <1>12, <2>5, <3>1, <3>2, <3>3
  <2>6. \A i \in DOMAIN wire' :
          /\ wire'[i].of \in 1..m /\ wire'[i].at \in 1..accepted'[wire'[i].of]
          /\ wire'[i] = Stream!Byte(wire'[i].of, wire'[i].at)
    BY <1>10, <2>4
  <2>7. \A i, j \in DOMAIN wire' :
          wire'[i].of = wire'[j].of /\ wire'[i].at = wire'[j].at => i = j
    BY <1>10, <2>5
  <2> QED BY <1>1, <1>3, <1>4, <2>6, <2>7 DEF OnWire
<1> DEFINE New == IF t = 0 THEN Stream!File(m) ELSE {}
<1>20. OnTheirWay' = OnTheirWay \cup New
  <2>1. OnTheirWay = UNION {wire[i].files : i \in 1..l}
    BY <1>10 DEF OnTheirWay, Stream!FilesOf
  <2>2. OnTheirWay' = UNION {wire'[i].files : i \in 1..(l + n)}
    BY <1>10 DEF OnTheirWay, Stream!FilesOf
  <2>3. \A i \in 1..l : wire'[i].files = wire[i].files /\ i \in 1..(l + n)
    BY <1>10, <1>1
  <2>4. \A i \in (l + 1)..(l + n) : wire'[i].files \subseteq New
    <3> SUFFICES ASSUME NEW i \in (l + 1)..(l + n) PROVE wire'[i].files \subseteq New
      OBVIOUS
    <3>1. wire'[i] = Stream!Byte(m, t + (i - l)) /\ (t + (i - l) = 1 => t = 0)
      BY <1>11
    <3>2. wire'[i].files = IF t + (i - l) = 1 THEN Stream!File(m) ELSE {}
      BY <3>1 DEF Stream!Byte
    <3> QED BY <3>1, <3>2
  <2>5. t = 0 => l + 1 \in 1..(l + n) /\ wire'[l + 1].files = Stream!File(m)
    <3> SUFFICES ASSUME t = 0
                 PROVE  l + 1 \in 1..(l + n) /\ wire'[l + 1].files = Stream!File(m)
      OBVIOUS
    <3>1. l + 1 \in (l + 1)..(l + n) /\ l + 1 \in 1..(l + n) /\ t + ((l + 1) - l) = 1
      BY <1>1
    <3>2. wire'[l + 1] = Stream!Byte(m, 1)
      BY <1>11, <3>1
    <3>3. Stream!Byte(m, 1).files = Stream!File(m)
      BY DEF Stream!Byte
    <3> QED BY <3>1, <3>2, <3>3
  <2>6. OnTheirWay \subseteq OnTheirWay'
    BY <2>1, <2>2, <2>3
  <2>7. New \subseteq OnTheirWay'
    BY <2>2, <2>5
  <2>8. OnTheirWay' \subseteq OnTheirWay \cup New
    <3> HIDE DEF New
    <3> SUFFICES ASSUME NEW i \in 1..(l + n)
                 PROVE  wire'[i].files \subseteq OnTheirWay \cup New
      BY <2>2
    <3>1. CASE i \in 1..l
      BY <2>1, <2>3, <3>1
    <3>2. CASE i \in (l + 1)..(l + n)
      BY <2>4, <3>2
    <3> QED BY <1>12, <3>1, <3>2
  <2> QED BY <2>6, <2>7, <2>8
<1>21. Placed'
  <2>1. \A k \in DOMAIN load : Attached(k)' <=> Attached(k) \/ k = m
    <3>1. accepted'[m] > 0 /\ returned' = returned
      BY <1>1, <1>5, <1>8
    <3> QED BY <1>8, <3>1 DEF Attached
  <2>2. Attached(m) <=> t # 0
    BY <1>4, <1>5 DEF Attached
  <2>3. \A f \in New : f \in Stream!File(m) /\ t = 0 /\ f \notin given \cup closed \cup OnTheirWay
    BY <1>2, <1>4, <2>2 DEF Placed
  <2>4. t = 0 => New = Stream!File(m)
    OBVIOUS
  <2> HIDE DEF New
  <2>5. \A k \in DOMAIN load : \A f \in Stream!File(k) :
          f \in given \cup closed \cup OnTheirWay' <=> Attached(k) \/ k = m
    <3> SUFFICES ASSUME NEW k \in DOMAIN load, NEW f \in Stream!File(k)
                 PROVE  f \in given \cup closed \cup OnTheirWay' <=> Attached(k) \/ k = m
      OBVIOUS
    <3>1. f \in given \cup closed \cup OnTheirWay <=> Attached(k)
      BY <1>2 DEF Placed
    <3>2. f \in New => k = m
      BY <2>3, FilesDiffer
    <3>3. k = m => f \in New \/ Attached(k)
      BY <2>2, <2>4
    <3> QED BY <1>20, <3>1, <3>2, <3>3
  <2>6. given \cap closed = {} /\ (given \cup closed) \cap OnTheirWay' = {}
    BY <1>2, <1>20, <2>3 DEF Placed
  <2>7. /\ \A f \in given : \E i \in DOMAIN got : f \in got[i].files
        /\ \A c \in refused : c.files \subseteq closed
    BY <1>2 DEF Placed
  <2> QED BY <1>1, <1>3, <2>1, <2>5, <2>6, <2>7 DEF Placed
<1>22. Stream!Sent' = Stream!Sent \o x /\ Stream!Sent \in Seq(Bytes)
  <2>1. Earlier' = Earlier
    <3>1. \A k \in 1..(m - 1) : Part(k)' = Part(k)
      <4>1. \A k \in 1..(m - 1) : k \in DOMAIN load /\ k # m
        <5>1. \A k \in 1..m : k \in DOMAIN load
          BY <1>2, <1>4 DEF Sized
        <5>2. \A k \in 1..(m - 1) : k \in 1..m /\ k # m
          OBVIOUS
        <5> QED BY <5>1, <5>2
      <4> SUFFICES ASSUME NEW k \in 1..(m - 1) PROVE Part(k)' = Part(k)
        OBVIOUS
      <4>2. accepted'[k] = accepted[k] /\ Stream!Bytes(k)' = Stream!Bytes(k)
        BY <1>3, <1>8, <4>1
      <4> QED BY <4>2 DEF Part
    <3>2. Earlier = Stream!FlattenSeq([k \in 1..(m - 1) |-> Part(k)])
      BY <1>4 DEF Earlier
    <3>3. Earlier' = Stream!FlattenSeq([k \in 1..(m - 1) |-> Part(k)'])
      BY <1>1, <1>4 DEF Earlier
    <3> QED BY <3>1, <3>2, <3>3
  <2>2. Part(message) = SubSeq(b, 1, t)
    BY <1>4, <1>5 DEF Part
  <2>3. Part(message)' = SubSeq(b, 1, t) \o x
    BY <1>1, <1>3, <1>4, <1>5, <1>7, <1>8 DEF Part
  <2>4. Stream!Sent = Earlier \o SubSeq(b, 1, t) /\ Earlier \in Seq(Bytes) /\ Stream!Sent \in Seq(Bytes)
    BY <1>2, <1>4, <2>2, SentStep
  <2>5. Stream!Sent' = (Earlier \o Part(message))'
    <3>1. message' # 0
      BY <1>1, <1>4
    <3> QED BY <1>13, <3>1, SentNext DEF SentGrows
  <2>6. Stream!Sent' = Earlier \o (SubSeq(b, 1, t) \o x)
    BY <2>1, <2>3, <2>5
  <2>7. Earlier \o (SubSeq(b, 1, t) \o x) = (Earlier \o SubSeq(b, 1, t)) \o x
    <3>1. Earlier \in Seq(Bytes) /\ SubSeq(b, 1, t) \in Seq(Bytes) /\ x \in Seq(Bytes)
      BY <1>7, <2>4
    <3> QED BY <3>1, BytesAssociate
  <2> QED BY <2>4, <2>6, <2>7
<1>23. Followed'
  <2>1. got \in Seq(Bytes)
    BY <1>2 DEF Sized
  <2>2. (got \o wire) \o x = got \o wire'
    <3>1. (got \o wire) \o x = got \o (wire \o x)
      BY <1>9, <2>1, BytesAssociate
    <3> QED BY <1>9, <3>1
  <2>3. receiver = "open" => got \o wire' = Stream!Sent'
    BY <1>2, <1>22, <2>2 DEF Followed
  <2>4. Stream!IsPrefix(got, Stream!Sent)
    BY <1>2 DEF Followed
  <2>5. Stream!IsPrefix(got, Stream!Sent \o x)
    BY <1>7, <1>22, <2>1, <2>4, PrefixExtends
  <2>6. Stream!IsPrefix(got, Stream!Sent)'
    BY <1>1, <1>22, <2>5
  <2>7. mode.managed /\ refused # {} => receiver = "shut"
    BY <1>2 DEF Followed
  <2> QED BY <1>1, <2>3, <2>6, <2>7 DEF Followed
<1> HIDE DEF New
<1> QED BY <1>13, <1>14, <1>15, <1>16, <1>17, <1>18, <1>19, <1>21, <1>23 DEF StreamInv

\* What the reader takes from the wire is not on it any more.
Split(n, y, w, l) ==
  /\ l = Len(wire) /\ n <= l /\ y = SubSeq(wire, 1, n) /\ w = SubSeq(wire, n + 1, l)
  /\ y \o w = wire /\ DOMAIN wire = 1..l /\ DOMAIN y = 1..n /\ DOMAIN w = 1..(l - n)
  /\ \A i \in 1..n : i \in 1..l /\ y[i] = wire[i]
  /\ \A i \in 1..(l - n) : n + i \in 1..l /\ w[i] = wire[n + i]

LEMMA WireSplits ==
  ASSUME Sized, NEW n \in Nat, n # 0, n <= Len(wire)
  PROVE  \E y \in Seq(Bytes), w \in Seq(Bytes), l \in Nat : Split(n, y, w, l)
<1>1. PICK v \in Seq(Bytes), l \in Nat : v = wire /\ l = Len(v) /\ n <= l
  BY DEF Sized
<1> DEFINE y == SubSeq(v, 1, n)
           w == SubSeq(v, n + 1, l)
<1>2. /\ y \in Seq(Bytes) /\ Len(y) = n /\ \A i \in 1..n : y[i] = v[i]
  <2>1. \A i \in 1..n : v[i] \in Bytes
    BY <1>1
  <2>2. 1 \in Int /\ n \in Int /\ 1 <= n /\ n - 1 + 1 = n
    OBVIOUS
  <2>3. y \in Seq(Bytes) /\ Len(y) = n /\ \A i \in 1..n : y[i] = v[1 + i - 1]
    BY <2>1, <2>2, SubSeqProperties
  <2>4. \A i \in 1..n : 1 + i - 1 = i
    OBVIOUS
  <2> QED BY <2>3, <2>4
<1>3. /\ w \in Seq(Bytes) /\ Len(w) = l - n /\ \A i \in 1..(l - n) : w[i] = v[n + i]
  <2>1. CASE n < l
    <3>1. \A i \in (n + 1)..l : v[i] \in Bytes
      BY <1>1
    <3>2. n + 1 \in Int /\ l \in Int /\ n + 1 <= l /\ l - (n + 1) + 1 = l - n
      BY <2>1
    <3>3. w \in Seq(Bytes) /\ Len(w) = l - n /\ \A i \in 1..(l - n) : w[i] = v[(n + 1) + i - 1]
      BY <3>1, <3>2, SubSeqProperties
    <3>4. \A i \in 1..(l - n) : (n + 1) + i - 1 = n + i
      OBVIOUS
    <3> QED BY <3>3, <3>4
  <2>2. CASE n = l
    <3>1. l < n + 1 /\ l - n = 0
      BY <2>2
    <3>2. w = <<>>
      BY <3>1, SubSeqEmpty
    <3>3. Len(<<>>) = 0 /\ <<>> \in Seq(Bytes) /\ 1..0 = {}
      OBVIOUS
    <3>4. 1..(l - n) = {}
      BY <3>1, <3>3
    <3>5. Len(w) = l - n
      BY <3>1, <3>2, <3>3, Zenon
    <3>6. w \in Seq(Bytes)
      BY <3>2, <3>3, Zenon
    <3> QED BY <3>4, <3>5, <3>6
  <2> QED BY <1>1, <2>1, <2>2
<1>4. y \o w = v
  <2>1. 1 \in 1..Len(v) + 1 /\ n \in (1 - 1)..Len(v) /\ l \in n..Len(v)
    BY <1>1
  <2>2. y \o w = SubSeq(v, 1, l)
    BY <2>1, ConcatAdjacentSubSeq
  <2>3. SubSeq(v, 1, Len(v)) = v
    BY SubSeqFull
  <2> QED BY <1>1, <2>2, <2>3
<1>5. \A i \in 1..n : i \in 1..l
  BY <1>1
<1>6. \A i \in 1..(l - n) : n + i \in 1..l
  BY <1>1
<1>7. DOMAIN v = 1..l
  BY <1>1
<1> HIDE DEF y, w
<1>8. DOMAIN y = 1..n /\ DOMAIN w = 1..(l - n)
  BY <1>2, <1>3
<1>9. Split(n, y, w, l)
  BY <1>1, <1>2, <1>3, <1>4, <1>5, <1>6, <1>7, <1>8 DEF Split, y, w
<1> QED BY <1>2, <1>3, <1>9

\* Its files are not, either.
LEMMA FilesSplit ==
  ASSUME Sized, OnWire, NEW n \in Nat, NEW y \in Seq(Bytes), NEW w \in Seq(Bytes), NEW l \in Nat,
         Split(n, y, w, l)
  PROVE  /\ OnTheirWay = Stream!FilesOf(y) \cup Stream!FilesOf(w)
         /\ Stream!FilesOf(y) \cap Stream!FilesOf(w) = {}
         /\ \A f \in Stream!FilesOf(y) : \E i \in 1..n : f \in y[i].files
<1>1. /\ \A f : f \in Stream!FilesOf(y) <=> \E i \in 1..n : f \in wire[i].files
      /\ \A f : f \in Stream!FilesOf(w) <=> \E i \in 1..(l - n) : f \in wire[n + i].files
      /\ \A f : f \in OnTheirWay <=> \E i \in 1..l : f \in wire[i].files
  <2>1. \A f : f \in Stream!FilesOf(y) <=> \E i \in 1..n : f \in wire[i].files
    <3>1. Stream!FilesOf(y) = UNION {y[i].files : i \in 1..n}
      BY DEF Split, Stream!FilesOf
    <3> QED BY <3>1 DEF Split
  <2>2. \A f : f \in Stream!FilesOf(w) <=> \E i \in 1..(l - n) : f \in wire[n + i].files
    <3>1. Stream!FilesOf(w) = UNION {w[i].files : i \in 1..(l - n)}
      BY DEF Split, Stream!FilesOf
    <3>2. \A i \in 1..(l - n) : w[i].files = wire[n + i].files
      BY DEF Split
    <3>3. \A f : f \in Stream!FilesOf(w) <=> \E i \in 1..(l - n) : f \in w[i].files
      BY <3>1
    <3> QED BY <3>2, <3>3
  <2>3. \A f : f \in OnTheirWay <=> \E i \in 1..l : f \in wire[i].files
    <3>1. OnTheirWay = UNION {wire[i].files : i \in 1..l}
      BY DEF Split, Stream!FilesOf, OnTheirWay
    <3> QED BY <3>1
  <2> QED BY <2>1, <2>2, <2>3
<1>2. \A i \in 1..n : i \in 1..l
  BY DEF Split
<1>3. \A i \in 1..(l - n) : n + i \in 1..l /\ n + i \notin 1..n
  BY DEF Split
<1>4. \A i \in 1..l : i \in 1..n \/ \E j \in 1..(l - n) : i = n + j
  <2> SUFFICES ASSUME NEW i \in 1..l, i \notin 1..n PROVE \E j \in 1..(l - n) : i = n + j
    OBVIOUS
  <2>1. i - n \in 1..(l - n) /\ i = n + (i - n)
    OBVIOUS
  <2> QED BY <2>1
<1>5. OnTheirWay = Stream!FilesOf(y) \cup Stream!FilesOf(w)
  <2>1. ASSUME NEW f \in OnTheirWay PROVE f \in Stream!FilesOf(y) \cup Stream!FilesOf(w)
    <3>1. PICK i \in 1..l : f \in wire[i].files
      BY <1>1
    <3> QED BY <1>1, <1>4, <3>1
  <2>2. Stream!FilesOf(y) \subseteq OnTheirWay
    BY <1>1, <1>2
  <2>3. Stream!FilesOf(w) \subseteq OnTheirWay
    BY <1>1, <1>3
  <2> QED BY <2>1, <2>2, <2>3
<1>6. ASSUME NEW i \in 1..l, NEW f \in wire[i].files
      PROVE  f[1] = wire[i].of /\ wire[i].at = 1
  <2>1. wire[i] = Stream!Byte(wire[i].of, wire[i].at)
    BY DEF OnWire, Split
  <2>2. wire[i].files = IF wire[i].at = 1 THEN Stream!File(wire[i].of) ELSE {}
    BY <2>1 DEF Stream!Byte
  <2>3. wire[i].at = 1 /\ f \in Stream!File(wire[i].of)
    BY <1>6, <2>2
  <2> QED BY <2>3, FilesDiffer
<1>7. ASSUME NEW f \in Stream!FilesOf(y), f \in Stream!FilesOf(w) PROVE FALSE
  <2>1. PICK i \in 1..n : f \in wire[i].files
    BY <1>1
  <2>2. PICK j \in 1..(l - n) : f \in wire[n + j].files
    BY <1>1, <1>7
  <2>3. PICK k \in 1..l : k = n + j /\ f \in wire[k].files /\ k \notin 1..n
    BY <1>3, <2>2
  <2>4. wire[i].of = wire[k].of /\ wire[i].at = wire[k].at
    BY <1>2, <1>6, <2>1, <2>3
  <2>5. i = k
    BY <1>2, <2>4 DEF OnWire, Split
  <2> QED BY <2>3, <2>5
<1>8. \A f \in Stream!FilesOf(y) : \E i \in 1..n : f \in y[i].files
  BY <1>1 DEF Split
<1> QED BY <1>5, <1>7, <1>8

\* A read, which takes its bytes even when it fails.
LEMMA StreamReceive ==
  ASSUME StreamInv, NEW n, NEW max, Stream!Receive(n, max)
  PROVE  StreamInv'
<1>1. Sized /\ Dialling /\ Remaining /\ OnWire /\ WholeOnes /\ Placed /\ Followed
      /\ Stream!ToldTrue /\ Stream!SaysConnected
  BY DEF StreamInv
<1>2. n \in Nat /\ n # 0 /\ n <= Len(wire)
  <2>1. n \in 1..Len(wire)
    BY DEF Stream!Receive, Stream!Readable
  <2>2. Len(wire) \in Nat
    BY <1>1 DEF Sized
  <2> QED BY <2>1, <2>2
<1>3. PICK y \in Seq(Bytes), w \in Seq(Bytes), l \in Nat : Split(n, y, w, l)
  BY <1>1, <1>2, WireSplits
<1>4. /\ y = SubSeq(wire, 1, n) /\ w = SubSeq(wire, n + 1, Len(wire)) /\ y \o w = wire
  BY <1>3 DEF Split
<1>5. PICK kept : kept = {f \in Stream!FilesOf(y) : f[2] <= max}
  OBVIOUS
<1>6. /\ receiver = "open" /\ wire' = w
      /\ UNCHANGED <<load, mode, step, blocking, answered, message, rest, accepted, returned>>
      /\ got' = got \o y
      /\ \/ /\ refused' = refused \cup {y[i] : i \in 1..n} /\ given' = given
            /\ closed' = closed \cup Stream!FilesOf(y)
            /\ IF mode.managed THEN receiver' = "shut" /\ link' = "closed"
               ELSE receiver' = receiver /\ link' = link
         \/ /\ refused' = refused /\ receiver' = receiver /\ link' = link
            /\ given' = given \cup kept
            /\ closed' = closed \cup (Stream!FilesOf(y) \ kept)
  BY <1>4, <1>5 DEF Stream!Receive
<1>7. /\ OnTheirWay = Stream!FilesOf(y) \cup Stream!FilesOf(w)
      /\ Stream!FilesOf(y) \cap Stream!FilesOf(w) = {}
      /\ \A f \in Stream!FilesOf(y) : \E i \in 1..n : f \in y[i].files
  BY <1>1, <1>2, <1>3, FilesSplit
<1>8. /\ \A k : Stream!Bytes(k)' = Stream!Bytes(k) /\ Stream!File(k)' = Stream!File(k)
      /\ \A k : Total(k)' = Total(k)
      /\ \A k, i : Stream!Byte(k, i)' = Stream!Byte(k, i)
  BY <1>6, BytesStay
<1>9. got' \in Seq(Bytes) /\ got \in Seq(Bytes)
  <2>1. got \in Seq(Bytes)
    BY <1>1 DEF Sized
  <2>2. got \o y \in Seq(Bytes)
    BY <2>1, ConcatProperties
  <2> QED BY <1>6, <2>1, <2>2
<1>10. Sized'
  BY <1>1, <1>6, <1>8, <1>9 DEF Sized
<1>11. message # 0
  <2>1. 1 \in DOMAIN wire
    BY <1>2, <1>3 DEF Split
  <2>2. wire[1].of \in 1..message
    BY <1>1, <2>1 DEF OnWire
  <2> QED BY <2>2
<1>12. Dialling'
  BY <1>1, <1>6, <1>11 DEF Dialling
<1>13. Remaining'
  BY <1>1, <1>6, <1>8 DEF Remaining
<1>14. WholeOnes'
  BY <1>1, <1>6, <1>8 DEF WholeOnes
<1>15. OnWire'
  <2>1. DOMAIN w = 1..(l - n) /\ DOMAIN wire = 1..l
        /\ \A i \in 1..(l - n) : n + i \in 1..l /\ w[i] = wire[n + i]
    BY <1>3 DEF Split
  <2>2. ASSUME NEW i \in 1..(l - n)
        PROVE  /\ w[i].of \in 1..message /\ w[i].at \in 1..accepted[w[i].of]
               /\ w[i] = Stream!Byte(w[i].of, w[i].at)
    BY <1>1, <2>1 DEF OnWire
  <2>3. ASSUME NEW i \in 1..(l - n), NEW j \in 1..(l - n), w[i].of = w[j].of, w[i].at = w[j].at
        PROVE  i = j
    <3>1. n + i = n + j
      BY <1>1, <2>1, <2>3 DEF OnWire
    <3> QED BY <1>2, <3>1
  <2> QED BY <1>6, <1>8, <2>1, <2>2, <2>3 DEF OnWire
<1>16. Placed'
  <2>1. OnTheirWay' = Stream!FilesOf(w)
    <3>1. OnTheirWay' = UNION {w[i].files : i \in DOMAIN w}
      BY <1>6 DEF OnTheirWay, Stream!FilesOf
    <3> QED BY <3>1 DEF Stream!FilesOf
  <2>2. \A k : Attached(k)' = Attached(k)
    BY <1>6 DEF Attached
  <2>3. given' \cup closed' = given \cup closed \cup Stream!FilesOf(y)
    BY <1>5, <1>6
  <2>4. given \cap closed = {} /\ (given \cup closed) \cap OnTheirWay = {}
    BY <1>1 DEF Placed
  <2>5. given' \cap closed' = {}
    BY <1>5, <1>6, <1>7, <2>4
  <2>6. (given' \cup closed') \cap OnTheirWay' = {}
    BY <1>7, <2>1, <2>3, <2>4
  <2>7. given' \cup closed' \cup OnTheirWay' = given \cup closed \cup OnTheirWay
    BY <1>7, <2>1, <2>3
  <2>8. \A k \in DOMAIN load : \A f \in Stream!File(k) :
          f \in given' \cup closed' \cup OnTheirWay' <=> Attached(k)
    BY <1>1, <2>7 DEF Placed
  <2>9. \A f \in given' : \E i \in DOMAIN got' : f \in got'[i].files
    <3>1. PICK g \in Nat : g = Len(got) /\ DOMAIN got = 1..g
      BY <1>9
    <3>2. Len(y) = n
      BY <1>2, <1>3 DEF Split
    <3>3. /\ Len(got') = Len(got) + Len(y)
          /\ \A i \in 1..(Len(got) + Len(y)) :
               got'[i] = IF i <= Len(got) THEN got[i] ELSE y[i - Len(got)]
      BY <1>6, <1>9, ConcatProperties
    <3>4. /\ DOMAIN got' = 1..(g + n)
          /\ \A i \in 1..(g + n) : got'[i] = IF i <= g THEN got[i] ELSE y[i - g]
      BY <1>9, <3>1, <3>2, <3>3
    <3>5. \A i \in 1..g : i \in DOMAIN got' /\ got'[i] = got[i]
      BY <1>2, <3>4
    <3>6. \A i \in 1..n : g + i \in DOMAIN got' /\ got'[g + i] = y[i]
      <4> SUFFICES ASSUME NEW i \in 1..n PROVE g + i \in DOMAIN got' /\ got'[g + i] = y[i]
        OBVIOUS
      <4>1. g + i \in 1..(g + n) /\ ~(g + i <= g) /\ (g + i) - g = i
        BY <1>2
      <4> QED BY <3>4, <4>1
    <3>7. ASSUME NEW f \in given PROVE \E i \in DOMAIN got' : f \in got'[i].files
      <4>1. PICK i \in 1..g : f \in got[i].files
        BY <1>1, <3>1 DEF Placed
      <4> QED BY <3>5, <4>1
    <3>8. ASSUME NEW f \in kept PROVE \E i \in DOMAIN got' : f \in got'[i].files
      <4>1. f \in Stream!FilesOf(y)
        BY <1>5
      <4>2. PICK i \in 1..n : f \in y[i].files
        BY <1>7, <4>1
      <4> QED BY <3>6, <4>2
    <3>9. \A f \in given' : f \in given \/ f \in kept
      BY <1>6
    <3> QED BY <3>7, <3>8, <3>9
  <2>10. \A b \in refused' : b.files \subseteq closed'
    <3>1. \A b \in refused : b.files \subseteq closed'
      BY <1>1, <1>6 DEF Placed
    <3>2. ASSUME NEW i \in 1..n PROVE y[i].files \subseteq Stream!FilesOf(y)
      BY <1>3 DEF Split, Stream!FilesOf
    <3>3. CASE refused' = refused
      BY <3>1, <3>3
    <3>4. CASE refused' = refused \cup {y[i] : i \in 1..n} /\ closed' = closed \cup Stream!FilesOf(y)
      <4>1. ASSUME NEW b \in refused', b \notin refused PROVE b.files \subseteq closed'
        <5>1. PICK i \in 1..n : b = y[i]
          BY <3>4, <4>1
        <5> QED BY <3>2, <3>4, <5>1
      <4> QED BY <3>1, <4>1
    <3> QED BY <1>6, <3>3, <3>4
  <2> QED BY <1>6, <1>8, <2>2, <2>5, <2>6, <2>8, <2>9, <2>10 DEF Placed
<1>17. Followed'
  <2>1. Stream!Sent' = Stream!Sent
    BY <1>6, SentStays
  <2>2. got \o wire = Stream!Sent /\ Stream!IsPrefix(got, Stream!Sent)
    BY <1>1, <1>6 DEF Followed
  <2>3. (got \o y) \o w = got \o (y \o w)
    BY <1>9, BytesAssociate
  <2>4. got' \o w = Stream!Sent
    BY <1>4, <1>6, <2>2, <2>3
  <2>5. Stream!IsPrefix(got', got' \o w)
    BY <1>9, PrefixOfConcat
  <2>6. Stream!IsPrefix(got', Stream!Sent)
    BY <2>4, <2>5
  <2>7. Stream!IsPrefix(got, Stream!Sent)'
    BY <2>1, <2>6
  <2>8. mode.managed /\ refused' # {} => receiver' = "shut"
    BY <1>1, <1>6 DEF Followed
  <2> QED BY <1>6, <2>1, <2>4, <2>7, <2>8 DEF Followed
<1>18. Stream!ToldTrue'
  <2>1. closed \subseteq closed'
    BY <1>6
  <2> QED BY <1>1, <1>6, <1>8, <2>1 DEF Stream!ToldTrue
<1>19. Stream!SaysConnected'
  BY <1>6, <1>11 DEF Stream!SaysConnected
<1> QED BY <1>10, <1>12, <1>13, <1>14, <1>15, <1>16, <1>17, <1>18, <1>19 DEF StreamInv

\* A shutdown loses what is on the wire.
LEMMA StreamShutdown ==
  ASSUME StreamInv, Stream!Shutdown
  PROVE  StreamInv'
<1>1. Sized /\ Dialling /\ Remaining /\ OnWire /\ WholeOnes /\ Placed /\ Followed
      /\ Stream!ToldTrue /\ Stream!SaysConnected
  BY DEF StreamInv
<1>2. /\ link = "up" /\ receiver' = "shut" /\ link' = "closed" /\ wire' = <<>>
      /\ closed' = closed \cup OnTheirWay
      /\ UNCHANGED <<load, mode, step, blocking, answered, message, rest, accepted, returned,
                     got, refused, given>>
  BY DEF Stream!Shutdown, OnTheirWay
<1>3. /\ \A k : Stream!Bytes(k)' = Stream!Bytes(k) /\ Stream!File(k)' = Stream!File(k)
      /\ \A k : Total(k)' = Total(k)
  BY <1>2, BytesStay
<1>4. <<>> \in Seq(Bytes) /\ DOMAIN <<>> = {}
  OBVIOUS
<1>5. Sized'
  BY <1>1, <1>2, <1>3, <1>4 DEF Sized
<1>6. Dialling'
  BY <1>1, <1>2 DEF Dialling
<1>7. Remaining'
  BY <1>1, <1>2, <1>3 DEF Remaining
<1>8. WholeOnes'
  BY <1>1, <1>2, <1>3 DEF WholeOnes
<1>9. OnWire'
  BY <1>2, <1>4 DEF OnWire
<1>10. Placed'
  <2>1. OnTheirWay' = {}
    <3>1. OnTheirWay' = UNION {wire'[i].files : i \in DOMAIN wire'}
      BY DEF OnTheirWay, Stream!FilesOf
    <3>2. DOMAIN wire' = {}
      BY <1>2, <1>4
    <3> QED BY <3>1, <3>2
  <2>2. \A k : Attached(k)' = Attached(k)
    BY <1>2 DEF Attached
  <2> QED BY <1>1, <1>2, <1>3, <2>1, <2>2 DEF Placed
<1>11. Followed'
  <2>1. Stream!Sent' = Stream!Sent
    BY <1>2, SentStays
  <2>2. Stream!IsPrefix(got, Stream!Sent)'
    BY <1>1, <1>2, <2>1 DEF Followed
  <2> QED BY <1>2, <2>2 DEF Followed
<1>12. Stream!ToldTrue'
  BY <1>1, <1>2, <1>3 DEF Stream!ToldTrue
<1>13. Stream!SaysConnected'
  BY <1>2 DEF Stream!SaysConnected
<1> QED BY <1>5, <1>6, <1>7, <1>8, <1>9, <1>10, <1>11, <1>12, <1>13 DEF StreamInv

\* It holds at first, ...
LEMMA StreamStarts == Stream!Init => StreamInv
<1> SUFFICES ASSUME Stream!Init PROVE StreamInv
  OBVIOUS
<1>1. /\ load \in Loads /\ mode \in Uses /\ link = "none" /\ step = "none"
      /\ blocking = mode.blocking /\ answered = FALSE /\ message = 0 /\ rest = <<>>
      /\ accepted = [k \in DOMAIN load |-> 0] /\ returned = <<>> /\ wire = <<>>
      /\ receiver = "open" /\ got = <<>> /\ refused = {} /\ given = {} /\ closed = {}
  BY DEF Stream!Init
<1>2. load \in Seq([length : Nat, files : Nat]) /\ Len(load) \in Nat
  <2>1. load \in Seq([length : Nat, files : Nat])
    BY <1>1, StreamAssumption
  <2> QED BY <2>1
<1>3. mode.blocking \in BOOLEAN
  BY <1>1, StreamAssumption DEF Stream!Use
<1>4. /\ <<>> \in Seq(Bytes) /\ <<>> \in Seq(Int) /\ Len(<<>>) = 0 /\ DOMAIN <<>> = {}
      /\ <<>> \o <<>> = <<>>
  OBVIOUS
<1>5. Sized
  <2>1. \A k \in DOMAIN load : Total(k) \in Nat
    <3> SUFFICES ASSUME NEW k \in DOMAIN load PROVE Total(k) \in Nat
      OBVIOUS
    <3>1. k \in 1..Len(load)
      BY <1>2
    <3>2. load[k] \in [length : Nat, files : Nat]
      BY <1>2, <3>1, ElementOfSeq
    <3> QED BY <3>2 DEF Total
  <2>2. accepted \in [DOMAIN load -> Nat] /\ \A k \in DOMAIN load : accepted[k] = 0
    BY <1>1
  <2>3. \A k \in DOMAIN load : accepted[k] <= Total(k)
    BY <2>1, <2>2
  <2>4. message \in 0..Len(load)
    BY <1>1, <1>2
  <2>5. wire \in Seq(Bytes) /\ got \in Seq(Bytes) /\ returned \in Seq(Int)
    BY <1>1, <1>4
  <2> QED BY <1>1, <1>2, <1>3, <2>2, <2>3, <2>4, <2>5 DEF Sized
<1>6. Dialling
  BY <1>1, <1>4 DEF Dialling
<1>7. Remaining
  BY <1>1 DEF Remaining
<1>8. OnWire
  BY <1>1, <1>4 DEF OnWire
<1>9. WholeOnes
  BY <1>1 DEF WholeOnes
<1>10. Placed
  <2>1. OnTheirWay = {}
    BY <1>1, <1>4 DEF OnTheirWay, Stream!FilesOf
  <2>2. \A k \in DOMAIN load : ~Attached(k)
    <3>1. \A k \in DOMAIN load : k \in 1..Len(load)
      BY <1>2
    <3> QED BY <1>1, <1>4, <3>1 DEF Attached
  <2> QED BY <1>1, <2>1, <2>2 DEF Placed
<1>11. Followed
  <2>1. Stream!Sent = <<>>
    <3>1. [k \in 1..message |-> SubSeq(Stream!Bytes(k), 1, accepted[k])] = <<>>
      BY <1>1
    <3>2. Stream!FlattenSeq(<<>>) = <<>>
      BY DEF Stream!FlattenSeq
    <3> QED BY <3>1, <3>2 DEF Stream!Sent
  <2>2. Stream!IsPrefix(<<>>, <<>> \o <<>>)
    BY <1>4, PrefixOfConcat
  <2> QED BY <1>1, <1>4, <2>1, <2>2 DEF Followed
<1>12. Stream!ToldTrue
  BY <1>1, <1>4 DEF Stream!ToldTrue
<1>13. Stream!SaysConnected
  BY <1>1 DEF Stream!SaysConnected
<1> QED BY <1>5, <1>6, <1>7, <1>8, <1>9, <1>10, <1>11, <1>12, <1>13 DEF StreamInv

\* ... every step keeps it, ...
LEMMA StreamSteps == StreamInv /\ [Stream!Next]_(Stream!vars) => StreamInv'
<1> SUFFICES ASSUME StreamInv, [Stream!Next]_(Stream!vars) PROVE StreamInv'
  OBVIOUS
<1>1. CASE Stream!Connect \/ Stream!ConnectEnds \/ Stream!ConnectPending \/ Stream!Dials
  BY <1>1, StreamConnects
<1>2. CASE Stream!Send
  BY <1>2, StreamSend
<1>3. ASSUME NEW n \in 1..Room, Stream!SendSome(n) PROVE StreamInv'
  BY <1>3, StreamSendSome
<1>4. CASE Stream!SendAll \/ Stream!SendTimesOut \/ Stream!SendFails
  BY <1>4, SendEnds, StreamEnds
<1>5. ASSUME NEW n \in 1..Room, NEW max \in Asked, Stream!Receive(n, max) PROVE StreamInv'
  BY <1>5, StreamReceive
<1>6. CASE Stream!Shutdown
  BY <1>6, StreamShutdown
<1>7. CASE UNCHANGED Stream!vars
  <2>1. UNCHANGED <<load, mode, link, step, blocking, answered, message, rest, accepted, returned,
                    wire, receiver, got, refused, given, closed>>
    BY <1>7 DEF Stream!vars
  <2>2. Sized /\ Dialling /\ Remaining /\ WholeOnes /\ Stream!SaysConnected /\ Stream!ToldTrue /\ Data
    BY DEF StreamInv, Data
  <2>3. Data'
    BY <2>1, <2>2, DataStays DEF dataVars
  <2>4. /\ \A k : Stream!Bytes(k)' = Stream!Bytes(k) /\ Stream!File(k)' = Stream!File(k)
        /\ \A k : Total(k)' = Total(k)
    BY <2>1, BytesStay
  <2>5. Sized'
    BY <2>1, <2>2, <2>4 DEF Sized
  <2>6. Dialling'
    BY <2>1, <2>2 DEF Dialling
  <2>7. Remaining'
    BY <2>1, <2>2, <2>4 DEF Remaining
  <2>8. WholeOnes'
    BY <2>1, <2>2, <2>4 DEF WholeOnes
  <2>9. Stream!ToldTrue'
    BY <2>1, <2>2, <2>4 DEF Stream!ToldTrue
  <2>10. Stream!SaysConnected'
    BY <2>1, <2>2 DEF Stream!SaysConnected
  <2> QED BY <2>3, <2>5, <2>6, <2>7, <2>8, <2>9, <2>10 DEF StreamInv, Data
<1> QED BY <1>1, <1>2, <1>3, <1>4, <1>5, <1>6, <1>7 DEF Stream!Next, Stream!Sender

\* A file is in one place: one of the three is singled out.
LEMMA OneOfThree ==
  ASSUME NEW A, NEW B, NEW D, NEW f, f \in A \cup B \cup D,
         A \cap B = {}, (A \cup B) \cap D = {}
  PROVE  Cardinality({i \in 1..3 : f \in <<A, B, D>>[i]}) = 1
<1> DEFINE T == {i \in 1..3 : f \in <<A, B, D>>[i]}
<1>1. \A i \in 1..3 : i = 1 \/ i = 2 \/ i = 3
  OBVIOUS
<1>2. <<A, B, D>>[1] = A /\ <<A, B, D>>[2] = B /\ <<A, B, D>>[3] = D
  OBVIOUS
<1>3. \E i \in 1..3 : T = {i}
  <2>1. CASE f \in A
    <3>1. T = {1}
      BY <1>1, <1>2, <2>1
    <3> QED BY <3>1
  <2>2. CASE f \in B
    <3>1. T = {2}
      BY <1>1, <1>2, <2>2
    <3> QED BY <3>1
  <2>3. CASE f \in D
    <3>1. T = {3}
      BY <1>1, <1>2, <2>3
    <3> QED BY <3>1
  <2> QED BY <2>1, <2>2, <2>3
<1> HIDE DEF T
<1>4. Cardinality(T) = 1
  BY <1>3, FS_Singleton
<1> QED BY <1>4 DEF T

\* Cardinality is the same operator in the instance.
LEMMA SameCardinality == ASSUME NEW T PROVE Stream!Cardinality(T) = Cardinality(T)
BY DEF Stream!Cardinality, Cardinality

\* ... and it says what Safe does.
LEMMA StreamSafely == StreamInv => Stream!Safe
<1> SUFFICES ASSUME StreamInv PROVE Stream!Safe
  OBVIOUS
<1>1. Sized /\ Dialling /\ Remaining /\ OnWire /\ WholeOnes /\ Placed /\ Followed
      /\ Stream!ToldTrue /\ Stream!SaysConnected
  BY DEF StreamInv
<1>2. got \in Seq(Bytes) /\ Stream!Sent \in Seq(Bytes) /\ message \in Nat
  BY <1>1, SentStep DEF Sized
<1>3. Stream!InOrder
  <2>1. ASSUME mode.managed PROVE Stream!IsPrefix(got, Stream!Whole)
    <3>1. CASE message = 0
      <4>1. [k \in 1..message |-> Stream!Bytes(k)] = <<>>
            /\ [k \in 1..message |-> SubSeq(Stream!Bytes(k), 1, accepted[k])] = <<>>
        BY <3>1
      <4>2. Stream!Whole = Stream!Sent
        BY <4>1 DEF Stream!Whole, Stream!Sent
      <4> QED BY <1>1, <4>2 DEF Followed
    <3>2. CASE message # 0
      <4>1. Stream!Whole = Earlier \o Stream!Bytes(message)
        BY <1>1, <2>1, <3>2, WholeStep
      <4>2. Earlier \in Seq(Bytes) /\ Part(message) \in Seq(Bytes)
            /\ Stream!Sent = Earlier \o Part(message)
        BY <1>1, <3>2, SentStep
      <4>3. message \in DOMAIN load
        BY <1>1, <3>2 DEF Sized
      <4>4. PICK b \in Seq(Bytes), t \in Nat, n \in Nat :
              b = Stream!Bytes(message) /\ t = accepted[message] /\ n = Len(b) /\ t <= n
        BY <1>1, <4>3, BytesOf
      <4>5. PICK r \in Seq(Bytes) : SubSeq(b, 1, t) \o r = b
        <5>1. 1 \in 1..Len(b) + 1 /\ t \in (1 - 1)..Len(b) /\ n \in t..Len(b)
          BY <4>4
        <5>2. SubSeq(b, 1, t) \o SubSeq(b, t + 1, n) = SubSeq(b, 1, n)
          BY <5>1, ConcatAdjacentSubSeq
        <5>3. SubSeq(b, 1, n) = b
          BY <4>4, SubSeqFull
        <5>4. SubSeq(b, t + 1, n) \in Seq(Bytes)
          <6>1. \A i \in (t + 1)..n : b[i] \in Bytes
            BY <4>4
          <6>2. t + 1 \in Int /\ n \in Int
            OBVIOUS
          <6> QED BY <6>1, <6>2, SubSeqProperties
        <5> QED BY <5>2, <5>3, <5>4
      <4>6. Part(message) = SubSeq(b, 1, t)
        BY <4>4 DEF Part
      <4>7. Part(message) \o r = b
        BY <4>5, <4>6
      <4>8. (Earlier \o Part(message)) \o r = Earlier \o (Part(message) \o r)
        BY <4>2, BytesAssociate
      <4>9. Stream!Whole = Stream!Sent \o r
        BY <4>1, <4>2, <4>4, <4>7, <4>8
      <4>10. Stream!IsPrefix(got, Stream!Sent)
        BY <1>1 DEF Followed
      <4>11. Stream!IsPrefix(got, Stream!Sent \o r)
        BY <1>2, <4>10, PrefixExtends
      <4> QED BY <4>9, <4>11
    <3> QED BY <3>1, <3>2
  <2> QED BY <1>1, <2>1 DEF Followed, Stream!InOrder
<1>4. Stream!FilesAccounted
  <2>1. ASSUME NEW k \in DOMAIN returned, NEW f \in Stream!File(k)
        PROVE  Cardinality({i \in 1..3 : f \in <<given, closed, Stream!FilesOf(wire)>>[i]}) = 1
    <3>1. returned \in Seq(Int) /\ Len(returned) \in Nat /\ Len(returned) <= message
      BY <1>1, <1>2 DEF Sized, Dialling
    <3>2. k \in 1..Len(returned)
      BY <3>1
    <3>3. k \in DOMAIN load /\ Attached(k)
      BY <1>1, <3>1, <3>2 DEF Sized, Attached
    <3>4. f \in given \cup closed \cup OnTheirWay /\ given \cap closed = {}
          /\ (given \cup closed) \cap OnTheirWay = {}
      BY <1>1, <3>3 DEF Placed
    <3>5. Cardinality({i \in 1..3 : f \in <<given, closed, OnTheirWay>>[i]}) = 1
      BY <3>4, OneOfThree
    <3> QED BY <3>5 DEF OnTheirWay
  <2>2. given \cap closed = {}
        /\ \A f \in given : \E i \in DOMAIN got : f \in got[i].files /\ got[i] \notin refused
    <3>1. /\ given \cap closed = {} /\ \A f \in given : \E i \in DOMAIN got : f \in got[i].files
          /\ \A b \in refused : b.files \subseteq closed
      BY <1>1 DEF Placed
    <3> QED BY <3>1
  <2>3. \A k \in DOMAIN returned : \A f \in Stream!File(k) :
          Stream!Cardinality({i \in 1..3 : f \in <<given, closed, Stream!FilesOf(wire)>>[i]}) = 1
    BY <2>1, SameCardinality
  <2> QED BY <2>2, <2>3 DEF Stream!FilesAccounted
<1>5. Stream!ModeRestored
  BY <1>1 DEF Dialling, Stream!ModeRestored
<1> QED BY <1>1, <1>3, <1>4, <1>5 DEF Stream!Safe

\* What is sent on a stream of UnixSocketRaw or UnixSocket is read in its order, the bytes of
\* failed reads included, a file is handed over or closed once, and Send and Connect say what they did, for every sequence of
\* messages, capacity of the kernel and use of the sockets.
THEOREM StreamSafe == Stream!Init /\ [][Stream!Next]_(Stream!vars) => []Stream!Safe
<1>1. Stream!Init => StreamInv
  BY StreamStarts
<1>2. StreamInv /\ [Stream!Next]_(Stream!vars) => StreamInv'
  BY StreamSteps
<1>3. StreamInv => Stream!Safe
  BY StreamSafely
<1> QED BY <1>1, <1>2, <1>3, PTL

-----------------------------------------------------------------------------
(* The composition *)

\* Whatever is exercised, each part does what it does alone, or rests.
LEMMA PartsAlone ==
  /\ Ready => Init /\ Server!Init /\ Datagrams!Init /\ Stream!Init
  /\ [OneStep]_allVars => [Next]_vars /\ [Server!Next]_(Server!vars)
  /\ [OneStep]_allVars => [Datagrams!Next]_(Datagrams!vars) /\ [Stream!Next]_(Stream!vars)
<1> USE DEF allVars
<1>1. Ready => Init /\ Server!Init /\ Datagrams!Init /\ Stream!Init
  BY DEF Ready
<1>2. ASSUME [OneStep]_allVars PROVE [Next]_vars
  BY <1>2 DEF OneStep, OfClient, OfServer, OfUdp, OfStream
<1>3. ASSUME UNCHANGED serverVars PROVE UNCHANGED Server!vars
  BY <1>3 DEF serverVars, Server!vars, Server!netVars, Server!ownVars, Server!written
<1>4. ASSUME [OneStep]_allVars PROVE [Server!Next]_(Server!vars)
  BY <1>3, <1>4 DEF OneStep, OfClient, OfServer, OfUdp, OfStream
<1>5. UNCHANGED udpVars => UNCHANGED Datagrams!vars
  BY DEF udpVars, Datagrams!vars, Datagrams!server, Datagrams!network
<1>6. ASSUME [OneStep]_allVars PROVE [Datagrams!Next]_(Datagrams!vars)
  BY <1>5, <1>6 DEF OneStep, OfClient, OfServer, OfUdp, OfStream
<1>7. UNCHANGED streamVars => UNCHANGED Stream!vars
  BY DEF streamVars, Stream!vars
<1>8. ASSUME [OneStep]_allVars PROVE [Stream!Next]_(Stream!vars)
  BY <1>7, <1>8 DEF OneStep, OfClient, OfServer, OfUdp, OfStream
<1> QED BY <1>1, <1>2, <1>4, <1>6, <1>8

\* Stop finds every thread, whatever the client, the datagrams and the stream do beside it
\* (ipc_channel.cc).
THEOREM ThreadsAccounted == ASSUME Sound PROVE All => []ThreadAccounting
<1>1. All => Server!Spec
  BY PartsAlone, PTL DEF All, Server!Spec
<1> QED BY <1>1, StopFindsThreads, PTL DEF ThreadAccounting

\* Nothing is written to a client once Stop has returned, beside the others too
\* (ipc_channel.cc).
THEOREM Silence == ASSUME Sound PROVE All => SilentAfterStop
<1>1. All => Server!Spec
  BY PartsAlone, PTL DEF All, Server!Spec
<1> QED BY <1>1, NothingAfterStop, PTL DEF SilentAfterStop

\* Broadcasts and answers come once but for what a send cut, datagrams are heard as they
\* were sent, and a stream is read in its order, with its files in one place, each beside the
\* others (ipc_channel.cc, udp_server.cc, unix_socket.cc).
THEOREM AllDelivered == ASSUME Sound PROVE All => []Delivery
<1>1. All => []Server!Delivery
  <2>1. All => Server!Spec
    BY PartsAlone, PTL DEF All, Server!Spec
  <2> QED BY <2>1, DeliveredOnce, PTL
<1>2. All => []Datagrams!Safe
  <2>1. All => Datagrams!Spec
    BY PartsAlone, PTL DEF All, Datagrams!Spec
  <2> QED BY <2>1, DatagramsHeard, PTL
<1>3. All => []Stream!Safe
  <2>1. All => Stream!Init /\ [][Stream!Next]_(Stream!vars)
    BY PartsAlone, PTL DEF All
  <2> QED BY <2>1, StreamSafe, PTL
<1>4. Server!Delivery /\ Datagrams!Safe /\ Stream!Safe => Delivery
  BY DEF Delivery
<1> QED BY <1>1, <1>2, <1>3, <1>4, PTL
=============================================================================
