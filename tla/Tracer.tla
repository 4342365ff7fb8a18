------------------------------- MODULE Tracer -------------------------------
(***************************************************************************)
(* The trace recorder: threads that record instants and scopes in a ring of *)
(* events without a lock. A push claims its index by an atomic increment    *)
(* and writes the slot afterwards, so that writes to a slot may meet, or    *)
(* come late; a dump takes the index and then reads slot after slot. The    *)
(* first record of a thread, and one whose thread was named a ring ago, is  *)
(* preceded by the thread's name. What is read of a slot that nobody or two *)
(* threads wrote, or one is writing, is garbage.                            *)
(***************************************************************************)
EXTENDS Naturals, FiniteSets, Sequences

CONSTANTS
  Recorders,  \* the threads that may record
  MAX_EVENTS, \* the slots of the ring
  MaxRecords, \* bound: instants and scopes of a thread alone, shared by several
  MaxOpen     \* bound: scopes open in one thread

VARIABLES
  ring,     \* write_index_ and events_
  thread,   \* of each thread: stack and meta_idx, the events it has to push, its claimed
            \* index while it writes, and how many it pushed
  reader,   \* a call of data: its snapshot and what it has read, or not called
  pushed    \* history: the events in the order of their indices, whether one was
            \* overtaken by a whole ring, whether a record was made while a scope was
            \* open, whether the dump was undisturbed, and the records

tracerVars == <<ring, thread, reader, pushed>>

Garbage == [by |-> "nobody", of |-> "garbage", n |-> 0]
Event(t, of, n) == [by |-> t, of |-> of, n |-> n]
Slots == 0..MAX_EVENTS - 1
Resting == [state |-> "none", idx |-> 0]
Starts(who) ==
  /\ ring = [index |-> 0, events |-> [s \in Slots |-> Garbage]]
  /\ thread = [t \in who |-> [stack |-> 0, meta_idx |-> 0, todo |-> <<>>, push |-> Resting, count |-> 0]]
  /\ reader = [called |-> FALSE, snapshot |-> 0, out |-> <<>>]
  /\ pushed = [order |-> <<>>, lapped |-> FALSE, undisturbed |-> TRUE, nested |-> FALSE,
                records |-> 0]

Idle(t) == thread[t].todo = <<>> /\ thread[t].push = Resting
Busy == {t \in DOMAIN thread : thread[t].push # Resting}

-----------------------------------------------------------------------------
(* Recording *)

\* registerThreadName looks at the index and at where the name was put last.
Named_Always(t) == thread[t].meta_idx # 0
Named(t) == ring.index - thread[t].meta_idx < MAX_EVENTS /\ thread[t].meta_idx # 0

\* An instant and the begin of a scope ask for the name first; the end of one does not.
Record(t, open, events) ==
  /\ Idle(t) /\ pushed.records * Cardinality(DOMAIN thread) < MaxRecords
  /\ thread' = [thread EXCEPT ![t].stack = @ + open,
                              ![t].meta_idx = IF Named(t) THEN @ ELSE ring.index,
                              ![t].todo = (IF Named(t) THEN <<>> ELSE <<"name">>) \o events]
  /\ pushed' = [pushed EXCEPT !.records = @ + 1, !.nested = @ \/ thread[t].stack > 0]
  /\ UNCHANGED <<ring, reader>>

recordInstant(t) == Record(t, 0, <<"instant">>)
begin(t) == thread[t].stack < MaxOpen /\ Record(t, 1, <<>>)

end(t) ==
  /\ Idle(t) /\ thread[t].stack > 0
  /\ thread' = [thread EXCEPT ![t].stack = @ - 1, ![t].todo = <<"scope">>]
  /\ UNCHANGED <<ring, reader, pushed>>

\* pushEvent: the index, the first byte of the slot and the last.
Claim(t) ==
  /\ thread[t].todo # <<>> /\ thread[t].push = Resting
  /\ thread' = [thread EXCEPT ![t].push = [state |-> "claimed", idx |-> ring.index],
                              ![t].count = @ + 1]
  /\ ring' = [ring EXCEPT !.index = @ + 1]
  /\ pushed' = [pushed EXCEPT
       !.order = Append(@, Event(t, Head(thread[t].todo), thread[t].count + 1)),
       !.lapped = @ \/ \E u \in Busy : thread[u].push.idx + MAX_EVENTS <= ring.index,
       !.undisturbed = @ /\ ~reader.called]
  /\ UNCHANGED reader

Slot(t) == thread[t].push.idx % MAX_EVENTS

Meets(t) == {u \in Busy \ {t} : thread[u].push.state # "claimed" /\ Slot(u) = Slot(t)}

\* What was written while another wrote there too is garbage.
StartWrite(t) ==
  /\ thread[t].push.state = "claimed"
  /\ thread' = [u \in DOMAIN thread |->
       IF u = t THEN [thread[t] EXCEPT !.push.state = IF Meets(t) = {} THEN "writing" ELSE "spoiled"]
       ELSE IF u \in Meets(t) THEN [thread[u] EXCEPT !.push.state = "spoiled"] ELSE thread[u]]
  /\ ring' = [ring EXCEPT !.events[Slot(t)] = Garbage]
  /\ UNCHANGED <<reader, pushed>>

EndWrite(t) ==
  /\ thread[t].push.state \in {"writing", "spoiled"}
  /\ thread' = [thread EXCEPT ![t].push = Resting, ![t].todo = Tail(@)]
  /\ ring' = [ring EXCEPT !.events[Slot(t)] =
       IF thread[t].push.state = "spoiled" THEN Garbage
       ELSE Event(t, Head(thread[t].todo), thread[t].count)]
  /\ UNCHANGED <<reader, pushed>>

-----------------------------------------------------------------------------
(* data *)

Snapshot ==
  /\ ~reader.called
  /\ reader' = [called |-> TRUE, snapshot |-> ring.index, out |-> <<>>]
  /\ pushed' = [pushed EXCEPT !.undisturbed = (Busy = {})]
  /\ UNCHANGED <<ring, thread>>

is_full == reader.snapshot >= MAX_EVENTS
Count == IF is_full THEN MAX_EVENTS ELSE reader.snapshot
Start_Zero == 0
Start == IF is_full THEN reader.snapshot % MAX_EVENTS ELSE 0

ReadSlot ==
  /\ reader.called /\ Len(reader.out) < Count
  /\ reader' = [reader EXCEPT !.out = Append(@, ring.events[(Start + Len(@)) % MAX_EVENTS])]
  /\ UNCHANGED <<ring, thread, pushed>>

Dumped == reader.called /\ Len(reader.out) = Count

Init == \E who \in Recorders : Starts(who)

Next ==
  \/ \E t \in DOMAIN thread :
       \/ recordInstant(t) \/ begin(t) \/ end(t)
       \/ Claim(t) \/ StartWrite(t) \/ EndWrite(t)
  \/ Snapshot \/ ReadSlot

-----------------------------------------------------------------------------
(* Properties *)

\* A dump while nobody pushes is the last events that were pushed, in order, unless
\* one of them was overtaken by a whole ring.
LastEvents ==
  ~pushed.lapped =>
    reader.out = SubSeq(pushed.order, reader.snapshot - Count + 1, reader.snapshot)

\* Even then the events of one thread are in the order in which it recorded them.
InThreadOrder ==
  \A i, j \in DOMAIN reader.out :
    (i < j /\ reader.out[i].by = reader.out[j].by /\ reader.out[i] # Garbage) =>
      reader.out[i].n < reader.out[j].n

\* What a thread that is alone records, with no scope around it, is in the dump together
\* with the thread's name.
NamesPresent ==
  (Cardinality(DOMAIN thread) = 1 /\ ~pushed.nested) =>
    (reader.out # <<>> => \E i \in DOMAIN reader.out : reader.out[i].of = "name")

Traced == (Dumped /\ pushed.undisturbed) => LastEvents /\ InThreadOrder /\ NamesPresent
=============================================================================
