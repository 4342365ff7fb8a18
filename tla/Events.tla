------------------------------- MODULE Events -------------------------------
(***************************************************************************)
(* Signal and EventManager. Both keep slots under a mutex and emit over a  *)
(* snapshot of them: a Signal calls the callbacks itself, a manager posts  *)
(* them to its TaskGroup. Callbacks may emit, connect and disconnect. One  *)
(* type of event is modelled; a manager has a list for each.               *)
(***************************************************************************)
EXTENDS Naturals, Sequences, SequencesExt, FiniteSets

CONSTANTS
  Users,        \* threads that call
  Subs,         \* subscribers, each with a Subscription
  Modes,        \* [queued |-> an EventManager, owns |-> owns_executor_, workers |-> of
                \*  the group, races |-> threads that connect to a Signal race for ids,
                \*  emitters, changers |-> threads that emit, or connect and disconnect]
  MaxEmissions, \* bound: calls of Emit
  MaxIds        \* bound: calls of Connect

VARIABLES
  mode,         \* one of Modes
  stop,         \* stop_
  slots,        \* the slots, [of |-> subscriber, id]
  nextId,       \* next_id_
  handle,       \* handle[s]: the id in s's Subscription, or 0
  stack,        \* stack[t]: the calls t is in, the innermost first
  tasks,        \* the group's queue: callbacks, [slot, of |-> emission]
  off,          \* the group has been stopped
  emissions,    \* history: [gone |-> ids disconnected before, over |-> emissions of its
                \*  thread that had ended, to |-> its snapshot]
  heard,        \* history: callbacks that began, in this order
  swept         \* history: ids up to this one were removed by Stop or DisconnectAll

past == <<emissions, heard, swept>>
vars == <<mode, stop, slots, nextId, handle, stack, tasks, off, past>>

Threads == Users \cup UNION {m.workers : m \in Modes}

\* What a thread is in: an emission with the slots that are left, a callback, or Stop.
In(what, of, left) == [what |-> what, of |-> of, left |-> left]
At(t, what)   == stack[t] # <<>> /\ Head(stack[t]).what = what
Enter(t, f)   == stack' = [stack EXCEPT ![t] = <<f>> \o @]
Goes(t, f)    == stack' = [stack EXCEPT ![t] = <<f>> \o Tail(@)]
Leave(t)      == stack' = [stack EXCEPT ![t] = Tail(@)]
Top(t)        == Head(stack[t])

CanCall(t) == (t \in Users /\ stack[t] = <<>>) \/ At(t, "callback")

Callback(slot, n) == [slot |-> slot, of |-> n]
Begins(c) == heard' = Append(heard, c)

-----------------------------------------------------------------------------
(* Connect and Disconnect *)

\* A Signal's next_id_ changes outside its mutex: of two threads at once, both may
\* have the same id.
Connect(t, s) ==
  /\ CanCall(t) /\ t \in mode.changers /\ handle[s] = 0 /\ nextId <= MaxIds
  /\ \E id \in IF mode.races /\ nextId > 1 THEN {nextId - 1, nextId} ELSE {nextId} :
       /\ slots' = Append(slots, [of |-> s, id |-> id])
       /\ handle' = [handle EXCEPT ![s] = id]
  /\ nextId' = nextId + 1
  /\ UNCHANGED <<mode, stop, stack, tasks, off, past>>

\* Nothing happens to a slot that has expired.
Disconnect(t, s) ==
  /\ CanCall(t) /\ t \in mode.changers /\ handle[s] # 0
  /\ slots' = SelectSeq(slots, LAMBDA slot : slot.id # handle[s])
  /\ handle' = [handle EXCEPT ![s] = 0]
  /\ UNCHANGED <<mode, stop, nextId, stack, tasks, off, past>>

\* Signal::DisconnectAll, and Stop's first section.
Sweep == slots' = <<>> /\ swept' = nextId - 1

DisconnectAll(t) ==
  /\ ~mode.queued /\ CanCall(t) /\ t \in mode.changers /\ slots # <<>>
  /\ Sweep
  /\ UNCHANGED <<mode, stop, nextId, handle, stack, tasks, off, emissions, heard>>

-----------------------------------------------------------------------------
(* Emit *)

Begun(t) == {n \in DOMAIN emissions : emissions[n].by = t}
Open(t)  == {stack[t][k].of : k \in {j \in DOMAIN stack[t] : stack[t][j].what \in {"emit", "send"}}}

Emit(t) ==
  /\ CanCall(t) /\ t \in mode.emitters /\ ~stop /\ Len(emissions) < MaxEmissions
  /\ Enter(t, In("emit", Len(emissions) + 1, <<>>))
  /\ emissions' = Append(emissions,
       [by |-> t, over |-> Begun(t) \ Open(t), to |-> {},
        gone |-> {id \in 1..(nextId - 1) : \A k \in DOMAIN slots : slots[k].id # id}])
  /\ UNCHANGED <<mode, stop, slots, nextId, handle, tasks, off, heard, swept>>

Snapshot(t) ==
  /\ At(t, "emit")
  /\ Goes(t, In("send", Top(t).of, slots))
  /\ emissions' = [emissions EXCEPT ![Top(t).of].to = ToSet(slots)]
  /\ UNCHANGED <<mode, stop, slots, nextId, handle, tasks, off, heard, swept>>

\* A group that is stopped refuses.
Post(t) ==
  /\ mode.queued /\ At(t, "send") /\ Top(t).left # <<>>
  /\ Goes(t, In("send", Top(t).of, Tail(Top(t).left)))
  /\ tasks' = IF off THEN tasks
              ELSE Append(tasks, Callback(Head(Top(t).left), Top(t).of))
  /\ UNCHANGED <<mode, stop, slots, nextId, handle, off, past>>

CallDirectly(t) ==
  LET f == Top(t) IN
  /\ ~mode.queued /\ At(t, "send") /\ f.left # <<>>
  /\ stack' = [stack EXCEPT ![t] =
       <<In("callback", f.of, <<>>), In("send", f.of, Tail(f.left))>> \o Tail(@)]
  /\ Begins(Callback(Head(f.left), f.of))
  /\ UNCHANGED <<mode, stop, slots, nextId, handle, tasks, off, emissions, swept>>

Return(t) ==
  /\ At(t, "callback") \/ (At(t, "send") /\ Top(t).left = <<>>)
  /\ Leave(t)
  /\ UNCHANGED <<mode, stop, slots, nextId, handle, tasks, off, past>>

-----------------------------------------------------------------------------
(* The group *)

Pop(w) ==
  /\ w \in mode.workers /\ stack[w] = <<>> /\ tasks # <<>> /\ ~off
  /\ Enter(w, In("popped", Head(tasks).of, <<Head(tasks).slot>>)) /\ tasks' = Tail(tasks)
  /\ UNCHANGED <<mode, stop, slots, nextId, handle, off, past>>

RunTask(w) ==
  /\ At(w, "popped")
  /\ Goes(w, In("callback", Top(w).of, <<>>))
  /\ Begins(Callback(Top(w).left[1], Top(w).of))
  /\ UNCHANGED <<mode, stop, slots, nextId, handle, tasks, off, emissions, swept>>

-----------------------------------------------------------------------------
(* Stop, from a thread that is not one of the group *)

Stop(t) ==
  /\ mode.queued /\ t \in Users /\ stack[t] = <<>> /\ ~stop
  /\ stop' = TRUE /\ Enter(t, In("clear", 0, <<>>))
  /\ UNCHANGED <<mode, slots, nextId, handle, tasks, off, past>>

StopClears(t) ==
  /\ At(t, "clear") /\ Sweep
  /\ IF mode.owns THEN off' = TRUE /\ Goes(t, In("join", 0, <<>>))
     ELSE Leave(t) /\ UNCHANGED off
  /\ UNCHANGED <<mode, stop, nextId, handle, tasks, emissions, heard>>

Joined_AtOnce(t) ==
  /\ At(t, "join")
  /\ Leave(t)
  /\ UNCHANGED <<mode, stop, slots, nextId, handle, tasks, off, past>>
Joined(t) ==
  /\ At(t, "join") /\ \A w \in mode.workers : stack[w] = <<>>
  /\ Leave(t)
  /\ UNCHANGED <<mode, stop, slots, nextId, handle, tasks, off, past>>

-----------------------------------------------------------------------------

Init ==
  /\ mode \in Modes /\ stop = FALSE /\ slots = <<>> /\ nextId = 1
  /\ handle = [s \in Subs |-> 0] /\ stack = [t \in Threads |-> <<>>]
  /\ tasks = <<>> /\ off = FALSE /\ emissions = <<>> /\ heard = <<>> /\ swept = 0

Call(t) ==
  \/ \E s \in Subs : Connect(t, s) \/ Disconnect(t, s)
  \/ DisconnectAll(t) \/ Emit(t) \/ Stop(t)

GoOn(t) ==
  \/ Snapshot(t) \/ Post(t) \/ CallDirectly(t) \/ Return(t)
  \/ Pop(t) \/ RunTask(t) \/ StopClears(t) \/ Joined(t)

ThreadsStep == \E t \in Threads : GoOn(t)
Next == ThreadsStep \/ \E t \in Threads : Call(t)
Spec == Init /\ [][Next]_vars

\* Threads are scheduled and callbacks return.
FairSpec == Spec /\ WF_vars(ThreadsStep)

-----------------------------------------------------------------------------
(* Properties *)

TypeOK ==
  /\ mode \in Modes /\ nextId \in 1..(MaxIds + 1) /\ handle \in [Subs -> 0..MaxIds]
  /\ \A k \in DOMAIN slots : slots[k] \in [of : Subs, id : 1..MaxIds]
  /\ {stop, off} \subseteq BOOLEAN /\ swept \in 0..MaxIds

Pending(slot, n) ==
  Cardinality({i \in DOMAIN tasks : tasks[i] = Callback(slot, n)})
  + Cardinality({i \in DOMAIN heard : heard[i] = Callback(slot, n)})
  + Cardinality({t \in Threads : \E k \in DOMAIN stack[t] :
      stack[t][k].what \in {"send", "popped"} /\ stack[t][k].of = n /\ Contains(stack[t][k].left, slot)})

\* An emission reaches each slot of its snapshot once, whoever connects, disconnects
\* or emits meanwhile, and no other; only a group that stops may drop some.
ReachesSnapshot ==
  \A n \in DOMAIN emissions :
    /\ \A slot \in emissions[n].to : Pending(slot, n) = 1 \/ (off /\ Pending(slot, n) = 0)
    /\ \A i \in DOMAIN heard : heard[i].of = n => heard[i].slot \in emissions[n].to

\* Test "disconnect stops delivery": an emission that begins after a Disconnect does
\* not reach that slot, whatever was connected since.
GoneIsSilent ==
  \A i \in DOMAIN heard : heard[i].slot.id \notin emissions[heard[i].of].gone

\* A subscription stays until its own Disconnect or until all are removed.
OwnSlotOnly ==
  \A s \in Subs : handle[s] > swept => Contains(slots, [of |-> s, id |-> handle[s]])

\* What one thread emits one after the other reaches a subscriber in this order, if
\* there is one worker at most (TaskGroup::Sequential).
InOrder ==
  Cardinality(mode.workers) <= 1 =>
    \A i, j \in DOMAIN heard :
      heard[i].slot = heard[j].slot /\ heard[j].of \in emissions[heard[i].of].over => j < i

\* Stop of a manager that owns its executor leaves no callback running.
Stopping == \E t \in Users : At(t, "clear") \/ At(t, "join")
QuietAfterStop ==
  mode.owns /\ stop /\ ~Stopping => \A w \in mode.workers : stack[w] = <<>>

\* "Disconnect all subscribers and prevent further dispatch": no callback waits
\* when Stop has returned.
NoDispatchAfterStop == stop /\ ~Stopping /\ ~off => tasks = <<>>

Emissions ==
  TypeOK /\ ReachesSnapshot /\ GoneIsSilent /\ OwnSlotOnly /\ InOrder /\ QuietAfterStop

\* Emit and Stop return, and what was posted is called unless the group is stopped.
Ended == \A t \in Threads : stack[t] = <<>>
Dispatched == (~Ended) ~> (Ended /\ (tasks = <<>> \/ off))
=============================================================================
