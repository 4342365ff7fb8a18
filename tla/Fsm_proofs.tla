----------------------------- MODULE Fsm_proofs -----------------------------
(***************************************************************************)
(* fsm::FSM, for any states, events, transitions and bounds: an event      *)
(* moves the machine out of the state it is in, callbacks are balanced     *)
(* and the history is bounded, however deep the calls in progress are.     *)
(***************************************************************************)
EXTENDS Fsm, TLAPS

\* Guards, onExit and actions do not call the machine; onEnter and onUpdate may.
Unmoved == \A a \in Apps : a.reenter \subseteq {"enter", "update"}
\* onExit and actions, which run between two states, do not throw.
Whole == \A a \in Apps : a.throw \subseteq {"guard", "enter", "update"}

\* The machine has left its state and is not yet in another.
Between == stack # <<>> /\ Top.pc \in {"exit", "action"}

\* Only the innermost call is in the middle of a move, and it moves from the state the
\* machine is in to one of its states.
Innermost ==
  /\ \A i \in 1..(Len(stack) - 1) : stack[i].pc \in {"enter", "update"}
  /\ stack # <<>> /\ Top.pc \in {"guard", "exit", "action"} =>
       started /\ Top.from = current
  /\ stack # <<>> /\ Top.pc \in {"guard", "action"} => Top.op = "event"
  /\ stack # <<>> /\ Top.pc = "guard" => Top.rest # <<>>
  /\ Between => Top.to \in States

\* What inside[s] is when each entered state but the current one has been exited.
Owed(s) == Base + IF s = current /\ ~Between THEN 1 ELSE 0

\* No state is exited more often than it was entered, and unless the machine was started
\* again each is exited as often, the current one aside.
Entered == \A s \in States : inside[s] >= Owed(s) /\ (restarts = 0 => inside[s] = Owed(s))

IInv == TypeOK /\ Innermost /\ Entered /\ HistoryBounded

-----------------------------------------------------------------------------
(* The stack and the history as sequences *)

LEMMA FrontOf ==
  ASSUME NEW S, NEW s \in Seq(S), s # <<>>
  PROVE  /\ Front(s) \in Seq(S) /\ Len(Front(s)) = Len(s) - 1
         /\ Last(s) = s[Len(s)] /\ Last(s) \in S /\ Len(s) >= 1
         /\ \A i \in 1..(Len(s) - 1) : Front(s)[i] = s[i]
<1> DEFINE n == Len(s) - 1
<1>1. n \in Nat /\ Len(s) = n + 1
  OBVIOUS
<1>2. Front(s) = SubSeq(s, 1, n)
  BY DEF Front
<1>3. Last(s) = s[Len(s)] /\ s[Len(s)] \in S
  BY <1>1 DEF Last
<1> HIDE DEF n
<1>4. SubSeq(s, 1, n) = [i \in 1..n |-> s[i]]
  BY <1>1
<1>5. SubSeq(s, 1, n) \in Seq(S) /\ Len(SubSeq(s, 1, n)) = n
  BY <1>1
<1>6. \A i \in 1..n : SubSeq(s, 1, n)[i] = s[i]
  BY <1>4
<1> QED BY <1>1, <1>2, <1>3, <1>5, <1>6

LEMMA PushedOn ==
  ASSUME NEW S, NEW s \in Seq(S), NEW f \in S
  PROVE  /\ Append(s, f) \in Seq(S) /\ Len(Append(s, f)) = Len(s) + 1
         /\ Append(s, f) # <<>> /\ Last(Append(s, f)) = f
         /\ \A i \in 1..Len(s) : Append(s, f)[i] = s[i]
BY DEF Last

\* A history that is trimmed has the last entries, size of them at most.
LEMMA TrimmedTo ==
  ASSUME NEW S, NEW h \in Seq(S), NEW size \in Nat
  PROVE  Trimmed(h, size) \in Seq(S) /\ Len(Trimmed(h, size)) <= size
<1>1. CASE Len(h) <= size
  BY <1>1 DEF Trimmed
<1>2. CASE Len(h) > size
  <2>1. Trimmed(h, size) = SubSeq(h, Len(h) - size + 1, Len(h))
    BY <1>2 DEF Trimmed
  <2>2. Len(h) - size + 1 \in 1..(Len(h) + 1)
    BY <1>2
  <2> QED BY <2>1, <2>2, <1>2
<1> QED BY <1>1, <1>2

\* The calls under the innermost one run onEnter or onUpdate.
Below == \A i \in 1..(Len(stack) - 1) : stack[i].pc \in {"enter", "update"}

\* The innermost call is the frame f.
Runs(f) == stack # <<>> /\ Top = f

\* An operation that begins runs above the calls in progress.
LEMMA Begun ==
  ASSUME IInv, Unmoved, CanCall, NEW f \in Frame, Push(f)
  PROVE  /\ stack' \in Seq(Frame) /\ Len(stack') <= MaxDepth /\ Below' /\ Runs(f)'
         /\ ~Between
<1> USE FsmAssumption DEF Top
<1>1. stack' = Append(stack, f) /\ stack \in Seq(Frame)
  BY DEF Push, IInv, TypeOK
<1>2. stack' \in Seq(Frame) /\ Runs(f)' /\ Len(stack') = Len(stack) + 1
  BY <1>1, PushedOn DEF Runs
<1>3. \A i \in 1..Len(stack) : stack'[i] = stack[i]
  BY <1>1, PushedOn
<1>4. stack = <<>> \/ (Last(stack).pc \in {"enter", "update"} /\ Len(stack) < MaxDepth)
  BY DEF CanCall, Unmoved, IInv, TypeOK
<1>5. stack # <<>> => Last(stack) = stack[Len(stack)]
  BY <1>1, FrontOf
<1>6. Len(stack) \in Nat /\ (stack = <<>> => Len(stack) = 0)
  BY <1>1
<1>7. Len(stack') <= MaxDepth
  BY <1>2, <1>4, <1>6
<1>8. Below'
  <2> SUFFICES ASSUME NEW i \in 1..Len(stack) PROVE stack'[i].pc \in {"enter", "update"}
    BY <1>2, <1>6 DEF Below
  <2>1. stack'[i] = stack[i]
    BY <1>3
  <2>2. CASE i = Len(stack)
    BY <2>1, <2>2, <1>4, <1>5, <1>6
  <2>3. CASE i \in 1..(Len(stack) - 1)
    BY <2>1, <2>3 DEF IInv, Innermost
  <2> QED BY <2>2, <2>3, <1>6
<1> QED BY <1>2, <1>4, <1>7, <1>8 DEF Between

\* A callback that returns to its own call changes the innermost frame alone.
LEMMA Continued ==
  ASSUME IInv, stack # <<>>, NEW f \in Frame, WithTop(f)
  PROVE  stack' \in Seq(Frame) /\ Len(stack') <= MaxDepth /\ Below' /\ Runs(f)'
<1> USE FsmAssumption DEF Top
<1>1. stack' = Append(Front(stack), f) /\ stack \in Seq(Frame) /\ Len(stack) <= MaxDepth
  BY DEF WithTop, IInv, TypeOK
<1>2. /\ Front(stack) \in Seq(Frame) /\ Len(Front(stack)) = Len(stack) - 1
      /\ \A i \in 1..(Len(stack) - 1) : Front(stack)[i] = stack[i]
  BY <1>1, FrontOf
<1>3. /\ stack' \in Seq(Frame) /\ Len(stack') = Len(stack) /\ Runs(f)'
      /\ \A i \in 1..(Len(stack) - 1) : stack'[i] = Front(stack)[i]
  BY <1>1, <1>2, PushedOn DEF Runs
<1> QED BY <1>1, <1>2, <1>3 DEF Below, IInv, Innermost

\* A call that ends leaves its caller in the callback that made it.
LEMMA Ended ==
  ASSUME IInv, stack # <<>>, Return
  PROVE  /\ stack' \in Seq(Frame) /\ Len(stack') <= MaxDepth /\ Below'
         /\ stack' # <<>> => Top'.pc \in {"enter", "update"}
<1> USE FsmAssumption DEF Top
<1>1. stack' = Front(stack) /\ stack \in Seq(Frame) /\ Len(stack) <= MaxDepth
  BY DEF Return, IInv, TypeOK
<1>2. /\ stack' \in Seq(Frame) /\ Len(stack') = Len(stack) - 1
      /\ \A i \in 1..(Len(stack) - 1) : stack'[i] = stack[i]
  BY <1>1, FrontOf
<1>3. stack' # <<>> => Last(stack') = stack'[Len(stack')] /\ Len(stack') >= 1
  BY <1>2, FrontOf
<1>4. \A i \in 1..(Len(stack) - 1) : stack[i].pc \in {"enter", "update"}
  BY DEF IInv, Innermost
<1>5. Len(stack) \in Nat /\ Len(stack') \in Nat
  BY <1>1, <1>2
<1> QED BY <1>1, <1>2, <1>3, <1>4, <1>5 DEF Below

-----------------------------------------------------------------------------
(* What the operations do to the counts and to the history *)

\* An entry is added, and the oldest are dropped beyond the bound.
LEMMA RecordedEntry ==
  ASSUME IInv, maxHistory' = maxHistory,
         NEW from \in States \cup {None}, NEW to \in States \cup {None},
         NEW event \in Events \cup {None}, NEW ok \in BOOLEAN,
         addToHistory(from, to, event, ok)
  PROVE  history' \in Seq(Entry) /\ HistoryBounded'
<1> DEFINE entry == [from |-> from, to |-> to, event |-> event, ok |-> ok]
<1>1. entry \in Entry
  BY DEF Entry
<1>2. history' = Trimmed(Append(history, entry), maxHistory)
  BY DEF addToHistory
<1>3. history \in Seq(Entry) /\ maxHistory \in Nat
  BY FsmAssumption DEF IInv, TypeOK
<1> HIDE DEF entry
<1>4. Append(history, entry) \in Seq(Entry)
  BY <1>1, <1>3
<1> QED BY <1>2, <1>3, <1>4, TrimmedTo DEF HistoryBounded

LEMMA Entering ==
  ASSUME IInv, NEW s \in States, NEW from \in States \cup {None},
         NEW event \in Events \cup {None}, MoveTo(s, from, event)
  PROVE  /\ current' = s /\ moves' \in Seq(Entry) /\ inside' \in [States -> Nat]
         /\ \A t \in States : inside'[t] = inside[t] + IF t = s THEN 1 ELSE 0
<1> DEFINE entry == [from |-> from, to |-> s, event |-> event, ok |-> TRUE]
<1>1. entry \in Entry
  BY DEF Entry
<1>2. moves' = Append(moves, entry) /\ current' = s
      /\ inside' = [inside EXCEPT ![s] = @ + 1]
  BY DEF MoveTo
<1>3. moves \in Seq(Entry) /\ inside \in [States -> Nat]
  BY DEF IInv, TypeOK
<1> HIDE DEF entry
<1> QED BY <1>1, <1>2, <1>3

\* The state that is left has been entered once more than it was exited.
LEMMA Leaving ==
  ASSUME IInv, started, ~Between, Leave(current)
  PROVE  /\ current \in States /\ inside' \in [States -> Nat]
         /\ \A t \in States : inside'[t] >= Base
         /\ restarts = 0 => \A t \in States : inside'[t] = Base
<1>1. current \in States /\ inside \in [States -> Nat] /\ Base \in Nat
  BY FsmAssumption DEF IInv, TypeOK, Base
<1>2. \A t \in States : inside[t] >= Base + (IF t = current THEN 1 ELSE 0)
                        /\ (restarts = 0 => inside[t] = Base + (IF t = current THEN 1 ELSE 0))
  BY DEF IInv, Entered, Owed
<1>3. \A t \in States : inside'[t] = inside[t] - (IF t = current THEN 1 ELSE 0)
  BY <1>1 DEF Leave
<1>4. DOMAIN inside' = States /\ inside' = [t \in States |-> inside'[t]]
  BY <1>1 DEF Leave
<1>5. \A t \in States : inside'[t] >= Base /\ inside'[t] \in Nat
  BY <1>1, <1>2, <1>3
<1>6. inside' \in [States -> Nat]
  BY <1>4, <1>5
<1>7. restarts = 0 => \A t \in States : inside'[t] = Base
  BY <1>1, <1>2, <1>3
<1> QED BY <1>1, <1>5, <1>6, <1>7

\* When the machine has entered a state that it is now in.
LEMMA Arrived ==
  ASSUME IInv, Between \/ ~started, NEW s \in States, NEW from \in States \cup {None},
         NEW event \in Events \cup {None}, MoveTo(s, from, event), ~Between',
         restarts' = restarts
  PROVE  Entered'
<1>1. /\ current' = s
      /\ \A t \in States : inside'[t] = inside[t] + IF t = s THEN 1 ELSE 0
  BY Entering
<1>2. Base \in Nat /\ inside \in [States -> Nat]
  BY FsmAssumption DEF Base, IInv, TypeOK
<1>3. \A t \in States : inside[t] >= Base /\ (restarts = 0 => inside[t] = Base)
  <2>1. CASE Between
    BY <2>1, <1>2 DEF IInv, Entered, Owed
  <2>2. CASE ~started
    <3>1. \A t \in States : t # current
      BY <2>2, FsmAssumption DEF IInv, TypeOK
    <3> QED BY <3>1, <1>2 DEF IInv, Entered, Owed
  <2> QED BY <2>1, <2>2
<1>4. Entered' <=> \A t \in States :
        /\ inside'[t] >= Base + (IF t = current' /\ ~Between' THEN 1 ELSE 0)
        /\ restarts' = 0 => inside'[t] = Base + (IF t = current' /\ ~Between' THEN 1 ELSE 0)
  BY DEF Entered, Owed, Base
<1> QED BY <1>1, <1>2, <1>3, <1>4

\* The counts go on to be what they should when nothing is entered or left.
LEMMA StaysIn ==
  ASSUME IInv, UNCHANGED <<current, inside, restarts>>, Between' <=> Between
  PROVE  Entered'
BY DEF IInv, Entered, Owed, Base

-----------------------------------------------------------------------------
(* Every step preserves the invariant *)

LEMMA InitInv == Init => IInv
<1> SUFFICES ASSUME Init PROVE IInv
  OBVIOUS
<1> USE FsmAssumption
<1>1. TypeOK
  <2>1. inside \in [States -> Nat] /\ calls \in 0..MaxCalls /\ restarts \in Nat
    BY DEF Init, Base
  <2>2. history \in Seq(Entry) /\ moves \in Seq(Entry)
        /\ stack \in Seq(Frame) /\ Len(stack) <= MaxDepth
    BY DEF Init
  <2> QED BY <2>1, <2>2 DEF Init, TypeOK
<1>2. Innermost /\ ~Between
  BY DEF Init, Innermost, Between
<1>3. Entered
  BY <1>2 DEF Init, Entered, Owed, Base
<1>4. HistoryBounded
  BY DEF Init, HistoryBounded
<1> QED BY <1>1, <1>2, <1>3, <1>4 DEF IInv

\* What Innermost says when the innermost call is in the frame f.
LEMMA Running ==
  ASSUME NEW f \in Frame, Below', Runs(f)',
         f.pc \in {"guard", "exit", "action"} => started' /\ f.from = current',
         f.pc \in {"guard", "action"} => f.op = "event",
         f.pc = "guard" => f.rest # <<>>,
         f.pc \in {"exit", "action"} => f.to \in States
  PROVE  Innermost' /\ (Between' <=> f.pc \in {"exit", "action"})
BY DEF Below, Runs, Innermost, Between

LEMMA StartInv ==
  ASSUME IInv, Unmoved, NEW s \in States, Start(s)
  PROVE  IInv'
<1> DEFINE f == [op |-> "start", pc |-> "enter", from |-> None, to |-> s, event |-> None,
                 rest |-> <<>>]
<1>1. f \in Frame /\ f.pc = "enter"
  BY DEF Frame, Callback
<1>2. /\ CanCall /\ Count /\ started' = TRUE /\ previous' = None /\ Restarted
      /\ MoveTo(s, None, None) /\ Push(f) /\ UNCHANGED <<history, settings>>
  BY DEF Start
<1> HIDE DEF f
<1>3. /\ stack' \in Seq(Frame) /\ Len(stack') <= MaxDepth /\ Below' /\ Runs(f)' /\ ~Between
  BY <1>1, <1>2, Begun
<1>4. Innermost' /\ ~Between'
  BY <1>1, <1>3, Running
<1>5. /\ current' = s /\ moves' \in Seq(Entry) /\ inside' \in [States -> Nat]
      /\ \A t \in States : inside'[t] = inside[t] + IF t = s THEN 1 ELSE 0
  BY <1>2, Entering
<1>6. TypeOK'
  <2>1. restarts' \in Nat /\ calls' \in 0..MaxCalls
    BY <1>2, FsmAssumption DEF Restarted, Count, IInv, TypeOK
  <2> QED BY <1>2, <1>3, <1>5, <2>1, FsmAssumption DEF IInv, TypeOK, settings
<1>7. Entered'
  <2>1. CASE ~started
    BY <2>1, <1>2, <1>4, Arrived DEF Restarted
  <2>2. CASE started
    <3>1. restarts' # 0
      BY <2>2, <1>2 DEF Restarted, IInv, TypeOK
    <3>2. \A t \in States : inside[t] >= Base /\ inside[t] \in Nat /\ Base \in Nat
      BY FsmAssumption DEF IInv, TypeOK, Entered, Owed, Base
    <3>3. \A t \in States : inside'[t] >= Base + IF t = s THEN 1 ELSE 0
      BY <1>5, <3>2
    <3> QED BY <3>1, <3>3, <1>4, <1>5 DEF Entered, Owed, Base
  <2> QED BY <2>1, <2>2
<1>8. HistoryBounded'
  BY <1>2 DEF IInv, HistoryBounded, settings
<1> QED BY <1>4, <1>6, <1>7, <1>8 DEF IInv

LEMMA ResetInv ==
  ASSUME IInv, Unmoved, NEW s \in States, Reset(s)
  PROVE  IInv'
<1>1. /\ current \in States \cup {None} /\ (started => current \in States)
      /\ started \in BOOLEAN /\ previous \in States \cup {None}
  BY DEF IInv, TypeOK
<1>2. CanCall /\ Count /\ UNCHANGED <<history, settings, restarts>>
  BY DEF Reset
<1>3. \A pc \in Callback : ResetFrame(s, pc) \in Frame
  BY <1>1 DEF ResetFrame, Frame, Callback
<1>4. HistoryBounded' /\ restarts' \in Nat /\ calls' \in 0..MaxCalls
  BY <1>2, FsmAssumption DEF IInv, TypeOK, HistoryBounded, settings, Count
<1>5. CASE started
  <2>1. PICK f \in Frame : /\ f = ResetFrame(s, "exit")
                           /\ f.pc = "exit" /\ f.from = current /\ f.to = s
    BY <1>3 DEF ResetFrame, Callback
  <2>2. Push(f) /\ Leave(current) /\ UNCHANGED <<machine, moves>>
    BY <1>5, <2>1 DEF Reset
  <2>3. /\ stack' \in Seq(Frame) /\ Len(stack') <= MaxDepth /\ Below' /\ Runs(f)'
        /\ ~Between
    BY <1>2, <2>1, <2>2, Begun
  <2>4. UNCHANGED <<current, previous, started, moves>>
    BY <2>2 DEF machine
  <2>5. Innermost' /\ Between'
    BY <1>5, <2>1, <2>3, <2>4, Running
  <2>6. /\ current \in States /\ inside' \in [States -> Nat]
        /\ \A t \in States : inside'[t] >= Base
        /\ restarts = 0 => \A t \in States : inside'[t] = Base
    BY <1>5, <2>2, <2>3, Leaving
  <2>7. Entered'
    BY <1>2, <2>5, <2>6, FsmAssumption DEF Entered, Owed, Base
  <2>8. TypeOK'
    BY <1>1, <1>2, <1>4, <2>3, <2>4, <2>6 DEF IInv, TypeOK, settings
  <2> QED BY <1>4, <2>5, <2>7, <2>8 DEF IInv
<1>6. CASE ~started
  <2>1. PICK f \in Frame : f = ResetFrame(s, "enter") /\ f.pc = "enter"
    BY <1>3 DEF ResetFrame, Callback
  <2>2. Push(f) /\ previous' = current /\ started' = TRUE /\ MoveTo(s, current, None)
    BY <1>6, <2>1 DEF Reset
  <2>3. /\ stack' \in Seq(Frame) /\ Len(stack') <= MaxDepth /\ Below' /\ Runs(f)'
    BY <1>2, <2>1, <2>2, Begun
  <2>4. Innermost' /\ ~Between'
    BY <2>1, <2>3, Running
  <2>5. /\ current' = s /\ moves' \in Seq(Entry) /\ inside' \in [States -> Nat]
    BY <1>1, <2>2, Entering
  <2>6. Entered'
    BY <1>1, <1>2, <1>6, <2>2, <2>4, Arrived
  <2>7. TypeOK'
    BY <1>1, <1>2, <1>4, <2>2, <2>3, <2>5, FsmAssumption DEF IInv, TypeOK, settings
  <2> QED BY <1>4, <2>4, <2>6, <2>7 DEF IInv
<1> QED BY <1>5, <1>6

LEMMA ProcessEventInv ==
  ASSUME IInv, Unmoved, NEW e \in Events, ProcessEvent(e)
  PROVE  IInv'
<1> DEFINE g == [op |-> "event",
                 pc |-> IF Targets[current][e] = <<>> THEN "update" ELSE "guard",
                 from |-> current, to |-> None, event |-> e, rest |-> Targets[current][e]]
<1>1. current \in States /\ started
  BY DEF ProcessEvent, IInv, TypeOK
<1>2. Targets[current][e] \in Seq(States)
  BY <1>1, FsmAssumption
<1>3. PICK f \in Frame : /\ f = g /\ f.pc \in {"update", "guard"} /\ f.op = "event"
                         /\ f.from = current /\ (f.pc = "guard" => f.rest # <<>>)
  <2>1. g \in Frame
    BY <1>1, <1>2 DEF Frame, Callback
  <2> QED BY <2>1
<1>4. /\ CanCall /\ Count /\ Push(f)
      /\ UNCHANGED <<machine, history, settings, inside, moves, restarts>>
  BY <1>3 DEF ProcessEvent
<1>5. /\ stack' \in Seq(Frame) /\ Len(stack') <= MaxDepth /\ Below' /\ Runs(f)' /\ ~Between
  BY <1>3, <1>4, Begun
<1>6. UNCHANGED <<current, previous, started>>
  BY <1>4 DEF machine
<1>7. Innermost' /\ ~Between'
  BY <1>1, <1>3, <1>5, <1>6, Running
<1>8. Entered'
  BY <1>4, <1>5, <1>6, <1>7, StaysIn
<1>9. TypeOK' /\ HistoryBounded'
  BY <1>4, <1>5, <1>6, FsmAssumption DEF IInv, TypeOK, HistoryBounded, settings, Count
<1> QED BY <1>7, <1>8, <1>9 DEF IInv

\* The facts of the innermost call.
LEMMA TopFrame ==
  ASSUME IInv, stack # <<>>
  PROVE  /\ Top \in Frame /\ current \in States \cup {None}
         /\ started => current \in States
BY FrontOf DEF Top, IInv, TypeOK

LEMMA GuardPassesInv ==
  ASSUME IInv, GuardPasses
  PROVE  IInv'
<1>1. /\ stack # <<>> /\ Top.pc = "guard" /\ Leave(Top.from)
      /\ UNCHANGED <<machine, history, settings, moves, restarts, calls>>
  BY DEF GuardPasses, In
<1>2. Top \in Frame /\ Top.rest # <<>> /\ Top.from = current /\ started /\ Top.op = "event"
  BY <1>1, TopFrame DEF IInv, Innermost
<1>3. Head(Top.rest) \in States
  BY <1>2 DEF Frame
<1>4. PICK f \in Frame : /\ f = [Top EXCEPT !.pc = "exit", !.to = Head(Top.rest)]
                         /\ f.pc = "exit" /\ f.from = current /\ f.to \in States
  <2>1. [Top EXCEPT !.pc = "exit", !.to = Head(Top.rest)] \in Frame
    BY <1>2, <1>3 DEF Frame, Callback
  <2> QED BY <2>1, <1>2, <1>3 DEF Frame
<1>5. WithTop(f)
  BY <1>4 DEF GuardPasses
<1>6. stack' \in Seq(Frame) /\ Len(stack') <= MaxDepth /\ Below' /\ Runs(f)'
  BY <1>1, <1>5, Continued
<1>7. UNCHANGED <<current, previous, started>>
  BY <1>1 DEF machine
<1>8. Innermost' /\ Between'
  BY <1>2, <1>4, <1>6, <1>7, Running
<1>9. ~Between
  BY <1>1 DEF Between
<1>10. /\ inside' \in [States -> Nat] /\ \A t \in States : inside'[t] >= Base
       /\ restarts = 0 => \A t \in States : inside'[t] = Base
  BY <1>1, <1>2, <1>9, Leaving
<1>11. Entered'
  BY <1>1, <1>8, <1>10, FsmAssumption DEF Entered, Owed, Base
<1>12. TypeOK' /\ HistoryBounded'
  BY <1>1, <1>6, <1>7, <1>10 DEF IInv, TypeOK, HistoryBounded, settings
<1> QED BY <1>8, <1>11, <1>12 DEF IInv

LEMMA GuardBlocksInv ==
  ASSUME IInv, GuardBlocks
  PROVE  IInv'
<1>1. /\ stack # <<>> /\ Top.pc = "guard"
      /\ UNCHANGED <<machine, history, settings, inside, moves, restarts, calls>>
  BY DEF GuardBlocks, In
<1>2. Top \in Frame /\ Top.rest # <<>> /\ Top.from = current /\ started /\ Top.op = "event"
  BY <1>1, TopFrame DEF IInv, Innermost
<1>3. /\ Tail(Top.rest) \in Seq(States)
      /\ Len(Top.rest) # 1 => Tail(Top.rest) # <<>>
  <2>1. PICK rest \in Seq(States) : rest = Top.rest /\ rest # <<>>
    BY <1>2 DEF Frame
  <2>2. Tail(rest) \in Seq(States) /\ Len(Tail(rest)) = Len(rest) - 1 /\ Len(rest) \in Nat
    BY <2>1
  <2>3. Len(rest) # 1 => Len(Tail(rest)) # 0
    BY <2>2
  <2> QED BY <2>1, <2>2, <2>3
<1> DEFINE g == [Top EXCEPT !.rest = Tail(@),
                            !.pc = IF Len(Top.rest) = 1 THEN "update" ELSE "guard"]
<1>4. PICK f \in Frame : /\ f = g /\ f.pc \in {"update", "guard"} /\ f.from = current
                         /\ f.op = "event" /\ (f.pc = "guard" => f.rest # <<>>)
  <2>1. g \in Frame
    BY <1>2, <1>3 DEF Frame, Callback
  <2>2. g.from = current /\ g.op = "event" /\ g.rest = Tail(Top.rest)
        /\ g.pc = IF Len(Top.rest) = 1 THEN "update" ELSE "guard"
    BY <1>2 DEF Frame
  <2> HIDE DEF g
  <2> QED BY <2>1, <2>2, <1>3
<1>5. WithTop(f)
  BY <1>4 DEF GuardBlocks
<1>6. stack' \in Seq(Frame) /\ Len(stack') <= MaxDepth /\ Below' /\ Runs(f)'
  BY <1>1, <1>5, Continued
<1>7. UNCHANGED <<current, previous, started>>
  BY <1>1 DEF machine
<1>8. Innermost' /\ ~Between'
  BY <1>2, <1>4, <1>6, <1>7, Running
<1>9. ~Between
  BY <1>1 DEF Between
<1>10. Entered'
  BY <1>1, <1>7, <1>8, <1>9, StaysIn
<1>11. TypeOK' /\ HistoryBounded'
  BY <1>1, <1>6, <1>7 DEF IInv, TypeOK, HistoryBounded, settings
<1> QED BY <1>8, <1>10, <1>11 DEF IInv

LEMMA ExitReturnsInv ==
  ASSUME IInv, ExitReturns
  PROVE  IInv'
<1>1. /\ stack # <<>> /\ Top.pc = "exit" /\ Between
      /\ UNCHANGED <<history, settings, restarts, calls>>
  BY DEF ExitReturns, In, Between
<1>2. Top \in Frame /\ Top.from = current /\ started /\ Top.to \in States
      /\ current \in States
  BY <1>1, TopFrame DEF IInv, Innermost
<1>3. CASE Top.op = "event"
  <2>1. PICK f \in Frame : /\ f = [Top EXCEPT !.pc = "action"]
                           /\ f.pc = "action" /\ f.op = "event" /\ f.from = current
                           /\ f.to \in States
    <3>1. [Top EXCEPT !.pc = "action"] \in Frame
      BY <1>2 DEF Frame, Callback
    <3> QED BY <3>1, <1>2, <1>3 DEF Frame
  <2>2. WithTop(f) /\ UNCHANGED <<current, previous, started, inside, moves>>
    BY <1>3, <2>1 DEF ExitReturns, machine
  <2>3. stack' \in Seq(Frame) /\ Len(stack') <= MaxDepth /\ Below' /\ Runs(f)'
    BY <1>1, <2>2, Continued
  <2>4. Innermost' /\ Between'
    BY <1>2, <2>1, <2>2, <2>3, Running
  <2>5. Entered'
    BY <1>1, <2>2, <2>4, StaysIn
  <2>6. TypeOK' /\ HistoryBounded'
    BY <1>1, <2>2, <2>3 DEF IInv, TypeOK, HistoryBounded, settings
  <2> QED BY <2>4, <2>5, <2>6 DEF IInv
<1>4. CASE Top.op # "event"
  <2>1. PICK f \in Frame : f = [Top EXCEPT !.pc = "enter"] /\ f.pc = "enter"
    <3>1. [Top EXCEPT !.pc = "enter"] \in Frame
      BY <1>2 DEF Frame, Callback
    <3> QED BY <3>1, <1>2 DEF Frame
  <2>2. /\ WithTop(f) /\ previous' = current /\ started' = TRUE
        /\ MoveTo(Top.to, current, None)
    BY <1>4, <2>1 DEF ExitReturns
  <2>3. stack' \in Seq(Frame) /\ Len(stack') <= MaxDepth /\ Below' /\ Runs(f)'
    BY <1>1, <2>2, Continued
  <2>4. Innermost' /\ ~Between'
    BY <2>1, <2>3, Running
  <2>5. PICK to \in States : to = Top.to
    BY <1>2
  <2>6. PICK from \in States : from = current
    BY <1>2
  <2>7. MoveTo(to, from, None)
    BY <2>2, <2>5, <2>6
  <2>8. current' = to /\ moves' \in Seq(Entry) /\ inside' \in [States -> Nat]
    BY <2>7, Entering
  <2>9. Entered'
    BY <1>1, <2>4, <2>7, Arrived
  <2>10. TypeOK' /\ HistoryBounded'
    BY <1>1, <1>2, <2>2, <2>3, <2>8, FsmAssumption
    DEF IInv, TypeOK, HistoryBounded, settings
  <2> QED BY <2>4, <2>9, <2>10 DEF IInv
<1> QED BY <1>3, <1>4

LEMMA ActionReturnsInv ==
  ASSUME IInv, ActionReturns
  PROVE  IInv'
<1>1. /\ stack # <<>> /\ Top.pc = "action" /\ Between
      /\ UNCHANGED <<started, history, settings, restarts, calls>>
  BY DEF ActionReturns, In, Between
<1>2. Top \in Frame /\ Top.from = current /\ started /\ Top.to \in States
      /\ current \in States /\ Top.event \in Events \cup {None}
  BY <1>1, TopFrame DEF IInv, Innermost, Frame
<1>3. PICK f \in Frame : f = [Top EXCEPT !.pc = "enter"] /\ f.pc = "enter"
  <2>1. [Top EXCEPT !.pc = "enter"] \in Frame
    BY <1>2 DEF Frame, Callback
  <2> QED BY <2>1, <1>2 DEF Frame
<1>4. WithTop(f) /\ previous' = current /\ MoveTo(Top.to, current, Top.event)
  BY <1>3 DEF ActionReturns
<1>5. stack' \in Seq(Frame) /\ Len(stack') <= MaxDepth /\ Below' /\ Runs(f)'
  BY <1>1, <1>4, Continued
<1>6. Innermost' /\ ~Between'
  BY <1>3, <1>5, Running
<1>7. PICK to \in States : to = Top.to
  BY <1>2
<1>8. PICK from \in States : from = current
  BY <1>2
<1>9. PICK event \in Events \cup {None} : event = Top.event
  BY <1>2
<1>10. MoveTo(to, from, event)
  BY <1>4, <1>7, <1>8, <1>9
<1>11. current' = to /\ moves' \in Seq(Entry) /\ inside' \in [States -> Nat]
  BY <1>10, Entering
<1>12. Entered'
  BY <1>1, <1>6, <1>10, Arrived
<1>13. TypeOK' /\ HistoryBounded'
  BY <1>1, <1>2, <1>4, <1>5, <1>11, FsmAssumption
  DEF IInv, TypeOK, HistoryBounded, settings
<1> QED BY <1>6, <1>12, <1>13 DEF IInv

\* A call that ends, by its return or by an exception, when no move is in progress.
LEMMA ReturnInv ==
  ASSUME IInv, stack # <<>>, Return, ~Between, history' \in Seq(Entry), HistoryBounded',
         UNCHANGED <<machine, settings, inside, moves, restarts, calls>>
  PROVE  IInv'
<1>1. UNCHANGED <<current, previous, started, maxHistory, app>>
  BY DEF machine, settings
<1>2. /\ stack' \in Seq(Frame) /\ Len(stack') <= MaxDepth /\ Below'
      /\ stack' # <<>> => Top'.pc \in {"enter", "update"}
  BY Ended
<1>3. Innermost' /\ ~Between'
  BY <1>2 DEF Below, Innermost, Between
<1>4. Entered'
  BY <1>1, <1>3, StaysIn
<1>5. TypeOK'
  BY <1>1, <1>2 DEF IInv, TypeOK
<1> QED BY <1>3, <1>4, <1>5 DEF IInv

LEMMA EnterReturnsInv ==
  ASSUME IInv, EnterReturns
  PROVE  IInv'
<1>1. /\ stack # <<>> /\ ~Between /\ Return
      /\ UNCHANGED <<machine, settings, inside, moves, restarts, calls>>
      /\ addToHistory(IF Top.op = "start" THEN None ELSE previous, current, Top.event, TRUE)
  BY DEF EnterReturns, In, Between
<1>2. PICK from \in States \cup {None} :
        from = IF Top.op = "start" THEN None ELSE previous
  BY DEF IInv, TypeOK
<1>3. PICK to \in States \cup {None} : to = current
  BY DEF IInv, TypeOK
<1>4. PICK event \in Events \cup {None} : event = Top.event
  BY <1>1, TopFrame DEF Frame
<1>5. addToHistory(from, to, event, TRUE) /\ maxHistory' = maxHistory
  BY <1>1, <1>2, <1>3, <1>4 DEF settings
<1>6. history' \in Seq(Entry) /\ HistoryBounded'
  BY <1>5, RecordedEntry
<1> QED BY <1>1, <1>6, ReturnInv

LEMMA UpdateReturnsInv ==
  ASSUME IInv, UpdateReturns
  PROVE  IInv'
<1>1. /\ stack # <<>> /\ ~Between /\ Return
      /\ UNCHANGED <<machine, settings, inside, moves, restarts, calls>>
      /\ maxHistory' = maxHistory
  BY DEF UpdateReturns, In, Between, settings
<1>2. CASE app.recordFailed
  <2>1. PICK to \in States \cup {None} : to = current
    BY DEF IInv, TypeOK
  <2>2. PICK event \in Events \cup {None} : event = Top.event
    BY <1>1, TopFrame DEF Frame
  <2>3. addToHistory(to, to, event, FALSE)
    BY <1>2, <2>1, <2>2 DEF UpdateReturns
  <2>4. history' \in Seq(Entry) /\ HistoryBounded'
    BY <1>1, <2>3, RecordedEntry
  <2> QED BY <1>1, <2>4, ReturnInv
<1>3. CASE ~app.recordFailed
  <2>1. history' \in Seq(Entry) /\ HistoryBounded'
    BY <1>1, <1>3 DEF UpdateReturns, IInv, TypeOK, HistoryBounded
  <2> QED BY <1>1, <2>1, ReturnInv
<1> QED BY <1>2, <1>3

LEMMA CallbackThrowsInv ==
  ASSUME IInv, Whole, CallbackThrows
  PROVE  IInv'
<1>1. /\ stack # <<>> /\ Top.pc \in app.throw /\ Return
      /\ UNCHANGED <<machine, history, settings, inside, moves, restarts, calls>>
  BY DEF CallbackThrows
<1>2. ~Between
  BY <1>1 DEF Whole, IInv, TypeOK, Between
<1>3. history' \in Seq(Entry) /\ HistoryBounded'
  BY <1>1 DEF IInv, TypeOK, HistoryBounded, settings
<1> QED BY <1>1, <1>2, <1>3, ReturnInv

\* The operations on the history leave the machine alone.
LEMMA HistoryInv ==
  ASSUME IInv, history' \in Seq(Entry), HistoryBounded', maxHistory' \in Sizes,
         UNCHANGED <<machine, app, stack, inside, moves, restarts, calls>>
  PROVE  IInv'
<1>1. UNCHANGED <<current, previous, started>>
  BY DEF machine
<1>2. TypeOK'
  BY <1>1 DEF IInv, TypeOK
<1>3. Innermost' /\ (Between' <=> Between)
  BY <1>1 DEF IInv, Innermost, Between, Top
<1>4. Entered'
  BY <1>1, <1>3, StaysIn
<1> QED BY <1>2, <1>3, <1>4 DEF IInv

LEMMA ClearHistoryInv ==
  ASSUME IInv, ClearHistory
  PROVE  IInv'
<1>1. /\ history' = <<>>
      /\ UNCHANGED <<machine, settings, stack, inside, moves, restarts, calls>>
  BY DEF ClearHistory
<1>2. history' \in Seq(Entry) /\ HistoryBounded' /\ maxHistory' \in Sizes
  BY <1>1, FsmAssumption DEF IInv, TypeOK, HistoryBounded, settings
<1> QED BY <1>1, <1>2, HistoryInv DEF settings

LEMMA SetMaxHistorySizeInv ==
  ASSUME IInv, NEW size \in Sizes, SetMaxHistorySize(size)
  PROVE  IInv'
<1>1. /\ maxHistory' = size /\ history' = Trimmed(history, size)
      /\ UNCHANGED <<machine, app, stack, inside, moves, restarts, calls>>
  BY DEF SetMaxHistorySize
<1>2. size \in Nat /\ history \in Seq(Entry)
  BY FsmAssumption DEF IInv, TypeOK
<1>3. history' \in Seq(Entry) /\ HistoryBounded'
  BY <1>1, <1>2, TrimmedTo DEF HistoryBounded
<1> QED BY <1>1, <1>3, HistoryInv

LEMMA StepInv == Unmoved /\ Whole /\ IInv /\ [Next]_vars => IInv'
<1> SUFFICES ASSUME Unmoved, Whole, IInv, [Next]_vars PROVE IInv'
  OBVIOUS
<1>1. ASSUME NEW s \in States, Start(s) \/ Reset(s) PROVE IInv'
  BY <1>1, StartInv, ResetInv
<1>2. ASSUME NEW e \in Events, ProcessEvent(e) PROVE IInv'
  BY <1>2, ProcessEventInv
<1>3. CASE GuardPasses \/ GuardBlocks \/ ExitReturns \/ ActionReturns
  BY <1>3, GuardPassesInv, GuardBlocksInv, ExitReturnsInv, ActionReturnsInv
<1>4. CASE EnterReturns \/ UpdateReturns \/ CallbackThrows
  BY <1>4, EnterReturnsInv, UpdateReturnsInv, CallbackThrowsInv
<1>5. CASE ClearHistory
  BY <1>5, ClearHistoryInv
<1>6. ASSUME NEW size \in Sizes, SetMaxHistorySize(size) PROVE IInv'
  BY <1>6, SetMaxHistorySizeInv
<1>7. CASE UNCHANGED vars
  <2>1. UNCHANGED <<machine, history, settings, stack, inside, moves, restarts, calls>>
    BY <1>7 DEF vars
  <2>2. history' \in Seq(Entry) /\ HistoryBounded' /\ maxHistory' \in Sizes
    BY <2>1 DEF IInv, TypeOK, HistoryBounded, settings
  <2> QED BY <2>1, <2>2, HistoryInv DEF settings
<1> QED BY <1>1, <1>2, <1>3, <1>4, <1>5, <1>6, <1>7 DEF Next

-----------------------------------------------------------------------------
(* The theorems *)

\* For any states, events and transitions, and for calls in progress of any depth, the
\* innermost call alone is in the middle of a move (fsm.h:325, withLock, lets onEnter
\* and onUpdate call the machine, not the steps between two states), and a state is never
\* exited more often than it was entered (fsm.cc:169-244).
THEOREM Invariance == Unmoved /\ Whole /\ Spec => []IInv
<1> SUFFICES ASSUME Unmoved, Whole PROVE Spec => []IInv
  OBVIOUS
<1>1. Init => IInv
  BY InitInv
<1>2. IInv /\ [Next]_vars => IInv'
  BY StepInv
<1> QED BY <1>1, <1>2, PTL DEF Spec

\* Between operations every state has been exited as often as it was entered, but for the
\* current one (fsm.cc:124-244), and the history is bounded in callbacks too (fsm.cc:414,
\* SetMaxHistorySize, and fsm.cc:425, addToHistory).
THEOREM LifecycleBalanced == Unmoved /\ Whole /\ Spec => []Consistent
<1>1. IInv => Consistent
  BY DEF Consistent, IInv, Balanced, Entered, Owed, Between
<1> QED BY <1>1, Invariance, PTL

\* An event moves the machine out of the state it is in, though callbacks may have
\* raised events and thrown since it was found (fsm.cc:187, ProcessEvent).
THEOREM LeavesTheCurrentState == Unmoved /\ Whole /\ Spec => MovesFromCurrent
<1>1. IInv /\ [Next]_vars => [(In("action") /\ moves' # moves) => Top.from = current]_vars
  BY DEF IInv, Innermost, In
<1> QED BY <1>1, Invariance, PTL DEF MovesFromCurrent, Spec
=============================================================================
