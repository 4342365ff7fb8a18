--------------------------- MODULE HttpClientPool ---------------------------
(***************************************************************************)
(* HttpClientPool: borrowers wait for a client with a timeout, use it and  *)
(* give it back through a Handle, and the destructor wakes who waits. A    *)
(* section under mutex_ is a step.                                         *)
(***************************************************************************)
EXTENDS Naturals, Sequences, FiniteSets, SequencesExt

CONSTANTS
  Borrowers, Lendable, \* threads; the clients of clients_
  NoClient,
  MaxAcquires          \* bound: calls of Acquire

VARIABLES
  free, stopping, \* free_ and stopping_
  at,             \* of each thread: where it is
  holds, moved,   \* the client of its Handle, and of the one Acquire returns
  busy,           \* clients with a request in flight
  acquires,       \* calls of Acquire
  keeps           \* whether a Handle is kept until the request is over
vars == <<free, stopping, at, holds, moved, busy, acquires, keeps>>

Asleep == {t \in Borrowers : at[t] = "asleep"}
Awake  == {t \in Borrowers : at[t] \in {"woken", "late"}}

-----------------------------------------------------------------------------
\* Acquire, for a new Handle or one that holds a client already, which is then replaced.
Acquire(t) ==
  /\ at[t] = "idle" /\ acquires < MaxAcquires
  /\ at' = [at EXCEPT ![t] = "checking"] /\ acquires' = acquires + 1
  /\ UNCHANGED <<free, stopping, holds, moved, busy, keeps>>

\* The predicate of wait_for is checked first, whenever the wait ends, and once more when
\* the time is over.
Checking(t) == at[t] \in {"checking", "woken", "late"}
Gets(t, client) ==
  /\ at' = [at EXCEPT ![t] = "assigning"] /\ moved' = [moved EXCEPT ![t] = client]

Lend(t) ==
  /\ Checking(t) /\ ~stopping /\ free # <<>>
  /\ Gets(t, free[Len(free)]) /\ free' = Front(free)
  /\ UNCHANGED <<stopping, holds, busy, acquires, keeps>>

Refuse(t) ==
  /\ Checking(t) /\ (stopping \/ (at[t] = "late" /\ free = <<>>))
  /\ Gets(t, NoClient)
  /\ UNCHANGED <<free, stopping, holds, busy, acquires, keeps>>

Sleep(t) ==
  /\ at[t] \in {"checking", "woken"} /\ ~stopping /\ free = <<>>
  /\ at' = [at EXCEPT ![t] = "asleep"]
  /\ UNCHANGED <<free, stopping, holds, moved, busy, acquires, keeps>>

\* The time is over, or the wait ends for no reason.
Wake(t) ==
  /\ at[t] = "asleep" /\ \E how \in {"woken", "late"} : at' = [at EXCEPT ![t] = how]
  /\ UNCHANGED <<free, stopping, holds, moved, busy, acquires, keeps>>

\* Release notifies nobody if a client was free already.
Release_FirstOnly(client, now) ==
  IF client = NoClient THEN UNCHANGED free /\ at' = now
  ELSE /\ free' = Append(free, client)
       /\ IF Asleep = {} \/ free # <<>> THEN at' = now
          ELSE \E u \in Asleep : at' = [now EXCEPT ![u] = "woken"]
\* Release puts a client back and notifies one of the threads that sleep.
Release(client, now) ==
  IF client = NoClient THEN UNCHANGED free /\ at' = now
  ELSE /\ free' = Append(free, client)
       /\ IF Asleep = {} THEN at' = now
          ELSE \E u \in Asleep : at' = [now EXCEPT ![u] = "woken"]

\* A Handle that holds a client gives it back, unless its request goes on and the
\* application waits for it.
MayRelease(t) == ~keeps \/ holds[t] \notin busy

\* Handle's move assignment gives the old client back.
Assign(t) ==
  /\ at[t] = "assigning" /\ MayRelease(t)
  /\ Release(holds[t], [at EXCEPT ![t] = "idle"])
  /\ holds' = [holds EXCEPT ![t] = moved[t]] /\ moved' = [moved EXCEPT ![t] = NoClient]
  /\ UNCHANGED <<stopping, busy, acquires, keeps>>

\* Handle's destructor
Return(t) ==
  /\ at[t] = "idle" /\ holds[t] # NoClient /\ MayRelease(t)
  /\ Release(holds[t], at) /\ holds' = [holds EXCEPT ![t] = NoClient]
  /\ UNCHANGED <<stopping, moved, busy, acquires, keeps>>

\* A request through a Handle: Send waits for its answer, as HttpClientPool::Send does,
\* and SendAsync does not. A client that is busy refuses another.
Use(t) ==
  /\ at[t] = "idle" /\ holds[t] # NoClient /\ holds[t] \notin busy
  /\ busy' = busy \cup {holds[t]}
  /\ \E how \in {"sending", "idle"} : at' = [at EXCEPT ![t] = how]
  /\ UNCHANGED <<free, stopping, holds, moved, acquires, keeps>>

Sent(t) ==
  /\ at[t] = "sending" /\ holds[t] \notin busy
  /\ at' = [at EXCEPT ![t] = "idle"]
  /\ UNCHANGED <<free, stopping, holds, moved, busy, acquires, keeps>>

\* A request is over, or the destructor has cancelled it.
Over(client) ==
  /\ client \in busy /\ busy' = busy \ {client}
  /\ UNCHANGED <<free, stopping, at, holds, moved, acquires, keeps>>

\* The destructor, which wakes who waits; no Handle outlives the pool.
Destroy ==
  /\ ~stopping /\ stopping' = TRUE
  /\ \A t \in Borrowers : holds[t] = NoClient /\ moved[t] = NoClient
  /\ at' = [t \in Borrowers |-> IF at[t] = "asleep" THEN "woken" ELSE at[t]]
  /\ UNCHANGED <<free, holds, moved, busy, acquires, keeps>>

-----------------------------------------------------------------------------
Init ==
  /\ free = SetToSeq(Lendable) /\ stopping = FALSE
  /\ at = [t \in Borrowers |-> "idle"] /\ busy = {} /\ keeps \in BOOLEAN
  /\ holds = [t \in Borrowers |-> NoClient] /\ moved = holds
  /\ acquires = 0

Next ==
  \/ \E t \in Borrowers :
       \/ Acquire(t) \/ Lend(t) \/ Refuse(t) \/ Sleep(t) \/ Wake(t) \/ Assign(t)
       \/ Return(t) \/ Use(t) \/ Sent(t)
  \/ Destroy \/ \E client \in Lendable : Over(client)

-----------------------------------------------------------------------------
(* Properties *)

\* "lets callers borrow them": a client is free or with one Handle.
LentOnce ==
  \A client \in Lendable :
    Cardinality({t \in Borrowers : holds[t] = client}) + Cardinality({t \in Borrowers : moved[t] = client})
      + Cardinality({i \in DOMAIN free : free[i] = client}) = 1

\* No thread sleeps on while a client is free for it: for each that is free one is awake.
NoneForgotten == Asleep # {} => Len(free) <= Cardinality(Awake) /\ ~stopping

\* A client that is lent is idle, if Handles are kept until requests are over.
LentIdle == keeps => \A i \in DOMAIN free : free[i] \notin busy

Safe == LentOnce /\ NoneForgotten /\ LentIdle
=============================================================================
