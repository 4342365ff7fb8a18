----------------------------- MODULE Transport -----------------------------
(***************************************************************************)
(* What a connection of the library promises its listener, whatever it is  *)
(* made of (TcpClient, a PlainTcpTransport or TLS over it): one answer to  *)
(* a connect, data and one end only in between, and nothing once it has    *)
(* been closed. The exception: a failure is told twice, by OnError and     *)
(* OnConnected(false), and a close during the first does not stop the      *)
(* second.                                                                 *)
(***************************************************************************)
EXTENDS Sequences

VARIABLES phase,   \* how far the connection is, as the listener knows
          news     \* what the listener was told since the connect

Phase == {"idle", "connecting", "failed", "open"}
News  == {"connected", "error", "failed", "data", "disconnected"}

Init == phase = "idle" /\ news = <<>>

Move(from, to, what) == phase = from /\ phase' = to /\ news' = Append(news, what)

\* OnError was told, and OnConnected(false) was not.
Owing == news # <<>> /\ news[Len(news)] = "error"

Connect      == phase = "idle" /\ ~Owing /\ phase' = "connecting" /\ news' = <<>>
Succeed      == Move("connecting", "open", "connected")
Fail         == Move("connecting", "failed", "error")
TellFailure  == Owing /\ Move(phase, phase, "failed")
Receive      == Move("open", "open", "data")
OnDisconnect == Move("open", "idle", "disconnected")
Close        == phase' = "idle" /\ UNCHANGED news

Next ==
  Connect \/ Succeed \/ Fail \/ TellFailure \/ Receive \/ OnDisconnect \/ Close

Spec == Init /\ [][Next]_<<phase, news>>
=============================================================================
