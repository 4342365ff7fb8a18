------------------------------ MODULE Executor ------------------------------
(***************************************************************************)
(* What a task queue of the library promises the code that posts to it,    *)
(* whatever the queue is made of (UnixTaskRunner's poll loop, TaskGroup's  *)
(* worker threads): an accepted task starts at most once, a cancelled or   *)
(* dropped task never starts, and only an executor that was told to stop   *)
(* drops tasks.                                                            *)
(***************************************************************************)
CONSTANT Task        \* the tasks that may be posted

VARIABLES phase,     \* phase[t]: how far task t has come
          stopped    \* the executor has been told to stop

Phase == {"new", "pending", "cancelled", "dropped", "started"}

Move(t, from, to) ==
  /\ phase[t] \in from
  /\ phase' = [phase EXCEPT ![t] = to]
  /\ UNCHANGED stopped

Init ==
  /\ phase = [t \in Task |-> "new"]
  /\ stopped \in BOOLEAN

Accept(t) == Move(t, {"new"}, "pending")
Cancel(t) == Move(t, {"pending"}, "cancelled")
Start(t)  == Move(t, {"pending"}, "started")
Drop(t)   == stopped /\ Move(t, {"new", "pending"}, "dropped")
SetStopped == stopped' \in BOOLEAN /\ UNCHANGED phase

Next ==
  \/ \E t \in Task : Accept(t) \/ Cancel(t) \/ Start(t) \/ Drop(t)
  \/ SetStopped

Spec == Init /\ [][Next]_<<phase, stopped>>
=============================================================================
