--------------------------------- MODULE Fsm ---------------------------------
(***************************************************************************)
(* fsm::FSM: states with enter, exit and update callbacks, transitions     *)
(* with guards and actions, and a bounded history. Every operation holds a *)
(* recursive mutex (thread safety enabled), so threads exclude each other  *)
(* but a callback may call the machine again: the calls in progress form a *)
(* stack, and each frame says which callback is running. Without the mutex *)
(* the model is of one thread.                                             *)
(***************************************************************************)
EXTENDS Naturals, Sequences, SequencesExt

CONSTANTS
  States,     \* the states added, each a StateId other than 0
  Events,     \* the event types
  Targets,    \* Targets[s][e]: the transitions of s on e, in order of addition
  Apps,       \* what applications do with the machine, see App
  Sizes,      \* the sizes SetMaxHistorySize is called with
  MaxCalls,   \* bound: calls of Start, Reset and ProcessEvent
  MaxDepth    \* bound: calls in progress at once

None == 0

Callback == {"guard", "exit", "action", "enter", "update"}

\* The callbacks that may call the machine, those that may throw, and
\* record_failed_events_.
App == [reenter : SUBSET Callback, throw : SUBSET Callback, recordFailed : BOOLEAN]

ASSUME FsmAssumption ==
  /\ None \notin States
  /\ Targets \in [States -> [Events -> Seq(States)]]
  /\ Apps \subseteq App /\ Sizes \subseteq Nat
  /\ MaxCalls \in Nat /\ MaxDepth \in Nat \ {0}

VARIABLES
  current, previous, started, \* current_state_id_, previous_state_id_, is_started_
  history, maxHistory,        \* history_, max_history_size_
  app,     \* the application, one of Apps
  stack,   \* the calls in progress, the innermost last
  inside,  \* ghost: inside[s] counts enters of s minus exits, from a base
  moves,   \* ghost: the moves of the machine, in order
  restarts, \* ghost: calls of Start on a machine that has started
  calls     \* bound: calls begun

machine == <<current, previous, started>>
settings == <<maxHistory, app>>
vars == <<machine, history, settings, stack, inside, moves, restarts, calls>>

Base == MaxCalls  \* keeps inside[s] a natural number
Entry == [from : States \cup {None}, to : States \cup {None},
          event : Events \cup {None}, ok : BOOLEAN]
Frame == [op : {"event", "reset", "start"}, pc : Callback, from : States \cup {None},
          to : States \cup {None}, event : Events \cup {None}, rest : Seq(States)]

Top == Last(stack)
WithTop(frame) == stack' = Append(Front(stack), frame)
Push(frame) == stack' = Append(stack, frame)
Return == stack' = Front(stack)

\* An operation may begin when none is in progress, or inside a callback.
CanCall == IF stack = <<>> THEN TRUE ELSE Top.pc \in app.reenter /\ Len(stack) < MaxDepth

-----------------------------------------------------------------------------
(* History *)

Trimmed_PopBack(h, size) == IF Len(h) <= size THEN h ELSE SubSeq(h, 1, size)
Trimmed(h, size) == IF Len(h) <= size THEN h ELSE SubSeq(h, Len(h) - size + 1, Len(h))

addToHistory(from, to, event, ok) ==
  history' = Trimmed(Append(history, [from |-> from, to |-> to, event |-> event, ok |-> ok]),
                     maxHistory)

ClearHistory ==
  /\ CanCall /\ history # <<>> /\ history' = <<>>
  /\ UNCHANGED <<machine, settings, stack, inside, moves, restarts, calls>>

SetMaxHistorySize(size) ==
  /\ CanCall /\ size # maxHistory
  /\ maxHistory' = size /\ history' = Trimmed(history, size)
  /\ UNCHANGED <<machine, app, stack, inside, moves, restarts, calls>>

-----------------------------------------------------------------------------
(* Moving *)

Leave(s) == inside' = [inside EXCEPT ![s] = @ - 1]

\* The assignment of both state ids and the call of onEnter.
MoveTo(s, from, event) ==
  /\ current' = s
  /\ inside' = [inside EXCEPT ![s] = @ + 1]
  /\ moves' = Append(moves, [from |-> from, to |-> s, event |-> event, ok |-> TRUE])

Restarted == restarts' = IF started THEN restarts + 1 ELSE restarts
Count == calls < MaxCalls /\ calls' = calls + 1

Start(s) ==
  /\ CanCall /\ Count
  /\ started' = TRUE /\ previous' = None /\ Restarted
  /\ MoveTo(s, None, None)
  /\ Push([op |-> "start", pc |-> "enter", from |-> None, to |-> s, event |-> None,
           rest |-> <<>>])
  /\ UNCHANGED <<history, settings>>

\* Reset exits the current state, if there is one, before it enters the other.
ResetFrame(s, pc) ==
  [op |-> "reset", pc |-> pc, from |-> current, to |-> s, event |-> None, rest |-> <<>>]

Reset_Silently(s) ==
  /\ CanCall /\ Count /\ Push(ResetFrame(s, "enter"))
  /\ previous' = current /\ started' = TRUE /\ MoveTo(s, current, None)
  /\ UNCHANGED <<history, settings, restarts>>
Reset(s) ==
  /\ CanCall /\ Count
  /\ IF started
       THEN /\ Push(ResetFrame(s, "exit")) /\ Leave(current)
            /\ UNCHANGED <<machine, moves>>
       ELSE /\ Push(ResetFrame(s, "enter"))
            /\ previous' = current /\ started' = TRUE
            /\ MoveTo(s, current, None)
  /\ UNCHANGED <<history, settings, restarts>>

\* ProcessEvent looks the transitions up in the state it finds.
ProcessEvent_Previous(e) ==
  /\ CanCall /\ started /\ Count
  /\ LET s == IF previous = None THEN current ELSE previous
     IN Push([op |-> "event", pc |-> IF Targets[s][e] = <<>> THEN "update" ELSE "guard",
              from |-> s, to |-> None, event |-> e, rest |-> Targets[s][e]])
  /\ UNCHANGED <<machine, history, settings, inside, moves, restarts>>
ProcessEvent(e) ==
  /\ CanCall /\ started /\ Count
  /\ Push([op |-> "event",
           pc |-> IF Targets[current][e] = <<>> THEN "update" ELSE "guard",
           from |-> current, to |-> None, event |-> e, rest |-> Targets[current][e]])
  /\ UNCHANGED <<machine, history, settings, inside, moves, restarts>>

-----------------------------------------------------------------------------
(* Callbacks return *)

In(pc) == stack # <<>> /\ Top.pc = pc

\* A guard that is absent always lets the transition pass.
GuardPasses ==
  /\ In("guard")
  /\ WithTop([Top EXCEPT !.pc = "exit", !.to = Head(Top.rest)])
  /\ Leave(Top.from)
  /\ UNCHANGED <<machine, history, settings, moves, restarts, calls>>

GuardBlocks ==
  /\ In("guard")
  /\ WithTop([Top EXCEPT !.rest = Tail(@),
                         !.pc = IF Len(Top.rest) = 1 THEN "update" ELSE "guard"])
  /\ UNCHANGED <<machine, history, settings, inside, moves, restarts, calls>>

ExitReturns ==
  /\ In("exit")
  /\ IF Top.op = "event"
       THEN /\ WithTop([Top EXCEPT !.pc = "action"])
            /\ UNCHANGED <<machine, inside, moves>>
       ELSE /\ WithTop([Top EXCEPT !.pc = "enter"])
            /\ previous' = current /\ started' = TRUE
            /\ MoveTo(Top.to, current, None)
  /\ UNCHANGED <<history, settings, restarts, calls>>

ActionReturns ==
  /\ In("action")
  /\ WithTop([Top EXCEPT !.pc = "enter"])
  /\ previous' = current /\ MoveTo(Top.to, current, Top.event)
  /\ UNCHANGED <<started, history, settings, restarts, calls>>

\* The entry is made from what the variables hold when onEnter has returned.
EnterReturns ==
  /\ In("enter") /\ Return
  /\ addToHistory(IF Top.op = "start" THEN None ELSE previous, current, Top.event, TRUE)
  /\ UNCHANGED <<machine, settings, inside, moves, restarts, calls>>

UpdateReturns ==
  /\ In("update") /\ Return
  /\ IF app.recordFailed THEN addToHistory(current, current, Top.event, FALSE)
                     ELSE UNCHANGED history
  /\ UNCHANGED <<machine, settings, inside, moves, restarts, calls>>

\* The exception leaves the innermost call; the callback that made the call may
\* let it pass, or catch it.
CallbackThrows ==
  /\ stack # <<>> /\ Top.pc \in app.throw /\ Return
  /\ UNCHANGED <<machine, history, settings, inside, moves, restarts, calls>>

-----------------------------------------------------------------------------

Init ==
  /\ current = None /\ previous = None /\ started = FALSE
  /\ history = <<>> /\ maxHistory \in Sizes /\ app \in Apps /\ stack = <<>>
  /\ inside = [s \in States |-> Base] /\ moves = <<>> /\ restarts = 0 /\ calls = 0

Next ==
  \/ \E s \in States : Start(s) \/ Reset(s)
  \/ \E e \in Events : ProcessEvent(e)
  \/ GuardPasses \/ GuardBlocks \/ ExitReturns \/ ActionReturns \/ EnterReturns
  \/ UpdateReturns \/ CallbackThrows
  \/ ClearHistory \/ \E size \in Sizes : SetMaxHistorySize(size)

Spec == Init /\ [][Next]_vars

-----------------------------------------------------------------------------
(* Properties *)

TypeOK ==
  /\ {current, previous} \subseteq States \cup {None}
  /\ started \in BOOLEAN /\ (started <=> current # None)
  /\ history \in Seq(Entry) /\ maxHistory \in Sizes /\ app \in Apps
  /\ stack \in Seq(Frame) /\ Len(stack) <= MaxDepth
  /\ inside \in [States -> Nat] /\ moves \in Seq(Entry)
  /\ restarts \in Nat /\ calls \in 0..MaxCalls

\* "State lifecycle callbacks": between operations the machine has entered its
\* current state once more than it has exited it, and every other state as often
\* as it has exited it, although onEnter and onUpdate raise further events.
\* (Start enters a state without exiting any: only the first is counted on.)
Balanced ==
  (stack = <<>> /\ restarts = 0) =>
    \A s \in States : inside[s] = Base + IF s = current THEN 1 ELSE 0

\* An event moves the machine out of the state it is in, never out of a state it
\* has left meanwhile.
MovesFromCurrent ==
  [][(In("action") /\ moves' # moves) => Top.from = current]_vars

\* "with history tracking": between operations the recorded transitions are the
\* last moves of the machine, in their order.
Recorded == SelectSeq(history, LAMBDA entry : entry.ok)
TracksMoves == stack = <<>> => IsSuffix(Recorded, moves)

\* They are for an application whose onEnter callbacks leave the machine alone,
\* though its updates raise events and its callbacks throw.
HistoryTracksMoves == "enter" \notin app.reenter => TracksMoves

\* SetMaxHistorySize bounds the history at every moment, in callbacks too.
HistoryBounded == Len(history) <= maxHistory

\* The machine agrees with the callbacks it has run, and its history with its bound.
Consistent == TypeOK /\ Balanced /\ HistoryBounded
=============================================================================
