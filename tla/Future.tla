------------------------------- MODULE Future -------------------------------
(***************************************************************************)
(* Promise, Future and their SharedState: one thread settles a promise     *)
(* while another attaches continuations to its future and to those that    *)
(* Then returns. A continuation runs where the state is settled, where it  *)
(* is attached, or on a worker of the TaskGroup given with it. State 0 is  *)
(* the promise's; a Then that is attachment i makes state i, and settles   *)
(* it inside its try when its function returns. What functions throw is a  *)
(* std::exception.                                                         *)
(***************************************************************************)
EXTENDS Naturals, Sequences, SequencesExt

CONSTANTS
  Programs, \* what the user attaches: sequences of [of |-> state, kind |-> "then" or
            \* "error", exec |-> a TaskGroup is given, throws |-> its function throws]
  Setter,   \* the thread with the promise
  User,     \* the thread that attaches
  Workers   \* the group's threads

VARIABLES
  program,      \* one of Programs
  outcome,      \* what the promise is settled with
  attached,     \* attachments made
  value,        \* value[s]: SharedState::value, <<>> before ready
  continuation, \* continuation[s]: the attachment, or 0
  executor,     \* executor[s]: SharedState::executor is a group
  held,         \* held[t]: states whose mutex t holds in user code
  queue,        \* attachments posted to the group
  task,         \* what a thread is doing
  calls         \* history: the user's functions called, [of, by]

vars == <<program, outcome, attached, value, continuation, executor, held, queue, task, calls>>

Threads == {Setter, User} \cup Workers
States == 0..Len(program)

Value     == <<"value">>
Error(at) == <<"error", at>>

\* tries: the attachments whose try the thread is inside, the innermost last.
Idle == [at |-> "idle", of |-> 0, with |-> <<>>, tries |-> <<>>]
Settling(s, v, tries) == [at |-> "settle", of |-> s, with |-> v, tries |-> tries]
Taken(s, i, tries)    == [at |-> "taken", of |-> s, with |-> i, tries |-> tries]
Running(i, tries)     == [at |-> "run", of |-> i, with |-> <<>>, tries |-> tries]

Does(t, what) == task' = [task EXCEPT ![t] = what]
Free(s) == \A t \in Threads : s \notin held[t]

\* A call returns, and the section it may have begun in SetContinuation ends.
Done(t) == Does(t, Idle) /\ held' = [held EXCEPT ![t] = {}]

-----------------------------------------------------------------------------

\* The section of SetValue and SetError.
Settle(t) ==
  LET s == task[t].of IN
  /\ task[t].at = "settle" /\ Free(s)
  /\ value' = [value EXCEPT ![s] = task[t].with]
  /\ continuation' = [continuation EXCEPT ![s] = 0]
  /\ IF continuation[s] = 0 THEN Done(t)
     ELSE Does(t, Taken(s, continuation[s], task[t].tries)) /\ UNCHANGED held
  /\ UNCHANGED <<program, outcome, attached, executor, queue, calls>>

\* executor is read after the section.
Dispatch(t) ==
  LET s == task[t].of IN
  /\ task[t].at = "taken"
  /\ \/ executor[s] /\ queue' = Append(queue, task[t].with) /\ Done(t)
     \/ /\ ~executor[s] /\ Does(t, Running(task[t].with, task[t].tries))
        /\ UNCHANGED <<queue, held>>
  /\ UNCHANGED <<program, outcome, attached, value, continuation, executor, calls>>

Calls(t, i) == calls' = Append(calls, [of |-> i, by |-> t])

\* What the continuation of Then settles the next state with.
Passed_CallsAnyway(i, v) == IF program[i].throws THEN Error(i) ELSE Value
Passed(i, v) ==
  IF v # Value THEN v ELSE IF program[i].throws THEN Error(i) ELSE Value

\* A value is handed on inside the try; an error comes from its catch, or from no try.
Within(i, passed, tries) == IF passed = Value THEN Append(tries, i) ELSE tries

RunThen(t) ==
  LET i == task[t].of
      v == value[program[i].of]
  IN
  /\ task[t].at = "run" /\ program[i].kind = "then"
  /\ IF v = Value THEN Calls(t, i) ELSE UNCHANGED calls
  /\ Does(t, Settling(i, Passed(i, v), Within(i, Passed(i, v), task[t].tries)))
  /\ UNCHANGED <<program, outcome, attached, value, continuation, executor, held, queue>>

\* A handler's exception ends in the catch of the innermost try, which settles its state a
\* second time. Without one it leaves SetValue, SetError or OnError, or ends in the worker.
RunOnError(t) ==
  LET i       == task[t].of
      handles == value[program[i].of] # Value
      tries   == task[t].tries
  IN
  /\ task[t].at = "run" /\ program[i].kind = "error"
  /\ IF handles THEN Calls(t, i) ELSE UNCHANGED calls
  /\ IF handles /\ program[i].throws /\ tries # <<>>
       THEN Does(t, Settling(Last(tries), Error(i), Front(tries))) /\ UNCHANGED held
       ELSE Done(t)
  /\ UNCHANGED <<program, outcome, attached, value, continuation, executor, queue>>

\* SetContinuation: a continuation of a state that is ready runs in the section.
Attach ==
  LET i == attached + 1
      s == program[i].of
  IN
  /\ task[User] = Idle /\ attached < Len(program) /\ Free(s)
  /\ attached' = i
  /\ executor' = [executor EXCEPT ![s] = program[i].exec]
  /\ \/ /\ value[s] = <<>> /\ continuation' = [continuation EXCEPT ![s] = i]
        /\ UNCHANGED <<task, held, queue>>
     \/ /\ value[s] # <<>> /\ program[i].exec /\ queue' = Append(queue, i)
        /\ UNCHANGED <<task, held, continuation>>
     \/ /\ value[s] # <<>> /\ ~program[i].exec
        /\ Does(User, Running(i, <<>>)) /\ held' = [held EXCEPT ![User] = {s}]
        /\ UNCHANGED <<queue, continuation>>
  /\ UNCHANGED <<program, outcome, value, calls>>

\* A worker of the group takes a task.
Work(w) ==
  /\ task[w] = Idle /\ queue # <<>>
  /\ Does(w, Running(Head(queue), <<>>)) /\ queue' = Tail(queue)
  /\ UNCHANGED <<program, outcome, attached, value, continuation, executor, held, calls>>

-----------------------------------------------------------------------------

Init ==
  /\ program \in Programs /\ outcome \in {Value, Error(0)} /\ attached = 0
  /\ value = [s \in States |-> <<>>] /\ continuation = [s \in States |-> 0]
  /\ executor = [s \in States |-> FALSE] /\ held = [t \in Threads |-> {}]
  /\ queue = <<>> /\ calls = <<>>
  /\ task = [t \in Threads |-> IF t = Setter THEN Settling(0, outcome, <<>>) ELSE Idle]

Step(t) == Settle(t) \/ Dispatch(t) \/ RunThen(t) \/ RunOnError(t)
ThreadsStep == Attach \/ (\E t \in Threads : Step(t)) \/ (\E w \in Workers : Work(w))

Next == ThreadsStep
Spec == Init /\ [][Next]_vars

\* Functions return and threads are scheduled. Nothing here waits for another
\* thread for long, so that some thread goes on is enough.
FairSpec == Spec /\ WF_vars(ThreadsStep)

-----------------------------------------------------------------------------
(* Properties *)

TypeOK ==
  /\ program \in Programs /\ attached \in 0..Len(program)
  /\ \A s \in States : value[s] = <<>> \/ value[s] \in {Value} \cup {Error(i) : i \in States}
  /\ \A s \in States : continuation[s] \in 0..attached
  /\ \A t \in Threads : held[t] \subseteq States

\* The reference: what a chain's states come to.
Result[s \in States] ==
  IF s = 0 THEN outcome
  ELSE LET of == Result[program[s].of] IN
       IF of # Value THEN of ELSE IF program[s].throws THEN Error(s) ELSE Value

\* The state s comes before attachment i in its chain.
Before(s, i) ==
  \A S \in SUBSET States : i \in S /\ (\A j \in S \ {0} : program[j].of \in S) => s \in S

\* A handler further on has thrown, and the state that had a value has its error.
ThrowsAfter(h, s) ==
  program[h].kind = "error" /\ program[h].throws /\ ~program[h].exec /\ Before(s, h)
Overwritten(s) ==
  /\ Result[s] = Value
  /\ \E n \in DOMAIN calls : value[s] = Error(calls[n].of) /\ ThrowsAfter(calls[n].of, s)

\* However settling and attaching meet: a state holds what its chain comes to, a value
\* handed from function to function or the first error (tests "error propagation"
\* and "exception in Then becomes error"), unless a handler that ran without a group
\* overwrote it.
ResultsFollow == \A s \in States : value[s] # <<>> => value[s] = Result[s] \/ Overwritten(s)

ToBeCalled(i) == (Result[program[i].of] = Value) <=> (program[i].kind = "then")

\* A function is called once, if at all, after the one before it in its chain, and on a
\* worker if it was given a group.
CalledInTurn ==
  \A m, n \in DOMAIN calls :
    LET i == calls[n].of IN
    /\ calls[m].of = i => m = n
    /\ calls[m].of = program[i].of => m < n
    /\ ToBeCalled(i) /\ (program[i].exec => calls[n].by \in Workers)

\* A state takes one continuation: no program attaches two to one.
OneEach == \A i, j \in DOMAIN program : program[i].of = program[j].of => i = j

\* "use Then() for value continuations, OnError() for error handling": all that is
\* attached is called that the outcome calls for, and every state is settled, once the
\* promise is.
AllHeard ==
  \A i \in DOMAIN program :
    /\ ToBeCalled(i) => \E n \in DOMAIN calls : calls[n].of = i
    /\ program[i].kind = "then" => value[i] # <<>>

Settled == (OneEach /\ value[0] # <<>>) ~> AllHeard

\* The same of one moment: nothing is left to do.
AttachedIsHeard ==
  attached = Len(program) /\ queue = <<>> /\ (\A t \in Threads : task[t] = Idle) => AllHeard

Chained == TypeOK /\ ResultsFollow /\ CalledInTurn
=============================================================================
