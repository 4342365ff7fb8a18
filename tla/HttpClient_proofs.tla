-------------------------- MODULE HttpClient_proofs --------------------------
(***************************************************************************)
(* HttpClient, for any threads, uses and numbers of requests: it has one   *)
(* request at a time, nothing of it runs when it is destroyed, and a       *)
(* client used on its task runner answers each request once, by its own    *)
(* answer.                                                                 *)
(***************************************************************************)
EXTENDS HttpClient, TLAPS

Starting(t) == pc[t] \in {"reset", "generation", "connect"}
Calling == \E t \in Threads : pc[t] # "out"

-----------------------------------------------------------------------------
(* What holds of every use *)

\* request_mutex_ is held from the compare_exchange of SendAsync to its end.
Locking ==
  /\ lock # NoThread => Starting(lock)
  /\ \A t \in Threads : Starting(t) => lock = t
  /\ \A t \in Threads : Starting(t) => mine[t] # 0

\* The two counters: a request that is not completed has the generation that its timer
\* and its posted tasks know.
Counting ==
  /\ generation <= begun
  /\ \A t \in Threads : pc[t] \in {"reset", "generation"} => generation < begun
  /\ active \in {generation, generation + 1}
  /\ active # generation => completed \/ \E t \in Threads : pc[t] = "generation"

\* Before the first request there is nothing that could end one.
Unstarted ==
  /\ current = 0 =>
       /\ transport.st = "closed" /\ timers = {} /\ runner.pc \in {"free", "user"}
       /\ lock = NoThread => state = "idle"
  /\ \A t \in Threads : pc[t] \in {"generation", "connect"} => current # 0

\* The destructor has begun when a thread is in it.
Ending == \A t \in Threads : pc[t] \in {"dying", "dead"} => ~alive

\* TypeOK in parts: current_ and what goes with it, the runner's work, the threads, and
\* the client's life and answers.
RequestTyped ==
  /\ state \in State /\ completed \in BOOLEAN /\ response \in Response
  /\ listener \in 0..begun /\ current \in 0..begun
  /\ generation \in Nat /\ active \in Nat /\ timed \in BOOLEAN
  /\ redirects \in 0..MaxRedirects /\ cancelRequested \in BOOLEAN
  /\ transport \in Transport
WorkTyped ==
  runner \in Runner /\ queue \in Seq(Task) /\ timers \subseteq [gen : Nat, of : Requests]
Steps == {"out", "reset", "generation", "connect", "failed", "wait", "read", "late", "cancel",
          "dying", "dead"}
ThreadsTyped ==
  /\ begun \in 0..MaxRequests /\ lock \in Threads \cup {NoThread}
  /\ pc \in [Threads -> Steps]
  /\ mine \in [Threads -> 0..begun] /\ isSync \in [Requests -> BOOLEAN]
LifeTyped ==
  /\ alive \in BOOLEAN /\ destroyed \in BOOLEAN /\ (destroyed => ~alive) /\ use \in Uses
OutcomeTyped == answers \in [Requests -> Seq(Response)] /\ cancelled \subseteq 1..begun
Typed == RequestTyped /\ WorkTyped /\ ThreadsTyped /\ LifeTyped /\ OutcomeTyped

Base == Typed /\ Locking /\ Counting /\ Unstarted /\ Ending /\ NotUsedDestroyed

-----------------------------------------------------------------------------
(* They hold in every step: types, and the two counters *)

USE DEF Starting, Step, Steps, request, client, work, calls, threads, life, outcome

\* What holds of every use includes the type invariant.
LEMMA BaseTypeOK == Base => TypeOK
BY HttpClientAssumption
   DEF Base, Typed, RequestTyped, WorkTyped, ThreadsTyped, LifeTyped, OutcomeTyped, Counting,
       TypeOK

\* The responses and the steps of the runner that the code writes down.
LEMMA Constants ==
  /\ Blank \in Response /\ Idle \in Runner /\ UserRuns \in Runner
  /\ \A r \in Requests \cup {0} : Error(r) \in Response /\ Busy(r) \in Response
  /\ \A n \in 0..MaxRequests : 0..n \subseteq Requests \cup {0} /\ 1..n \subseteq Requests
<1>1. /\ Blank \in Response
      /\ \A r \in Requests \cup {0} : Error(r) \in Response /\ Busy(r) \in Response
  BY DEF Blank, Error, Busy, Response
<1>2. Idle \in Runner
  BY <1>1 DEF Idle, Runner
<1>3. UserRuns \in Runner
  BY <1>2 DEF UserRuns, Runner
<1>4. \A n \in 0..MaxRequests : 0..n \subseteq Requests \cup {0} /\ 1..n \subseteq Requests
  BY HttpClientAssumption DEF Requests
<1> QED BY <1>1, <1>2, <1>3, <1>4

\* The callers of an application are threads.
LEMMA UseFacts ==
  ASSUME LifeTyped PROVE use.callers \subseteq Threads /\ use.requests \in 0..MaxRequests
BY HttpClientAssumption DEF LifeTyped, Use

LEMMA ResetBase == ASSUME Base, NEW t \in Threads, Reset(t) PROVE Base'
<1> USE HttpClientAssumption DEF Base, Typed
<1>1. RequestTyped'
  <2>1. response' \in Response
    BY Constants DEF Reset
  <2>2. mine[t] \in 0..begun
    BY DEF ThreadsTyped
  <2>3. completed' \in BOOLEAN /\ timed' \in BOOLEAN /\ cancelRequested' \in BOOLEAN
    BY DEF Reset
  <2>4. redirects' \in 0..MaxRedirects
    BY DEF Reset
  <2>5. /\ state' \in State /\ listener' \in 0..begun' /\ transport' \in Transport
        /\ generation' \in Nat /\ active' \in Nat
    BY DEF Reset, RequestTyped
  <2>6. current' \in 0..begun'
    BY <2>2 DEF Reset
  <2> QED BY <2>1, <2>3, <2>4, <2>5, <2>6 DEF RequestTyped
<1>2. WorkTyped' /\ LifeTyped' /\ OutcomeTyped'
  BY DEF Reset, WorkTyped, LifeTyped, OutcomeTyped
<1>3. ThreadsTyped'
  BY DEF Reset, ThreadsTyped
<1>12. Locking'
  BY DEF Reset, ThreadsTyped, Locking
<1>13. Counting'
  BY DEF Reset, ThreadsTyped, RequestTyped, Locking, Counting
<1>14. Unstarted'
  BY DEF Reset, ThreadsTyped, Locking, Unstarted
<1>15. Ending' /\ NotUsedDestroyed'
  BY DEF Reset, ThreadsTyped, Ending, NotUsedDestroyed, Free
<1> QED BY <1>1, <1>2, <1>3, <1>12, <1>13, <1>14, <1>15

\* Sequences with an element more.
LEMMA PushedOn ==
  ASSUME NEW S, NEW s \in Seq(S), NEW x \in S
  PROVE  /\ Append(s, x) \in Seq(S) /\ Len(Append(s, x)) = Len(s) + 1
         /\ Append(s, x)[Len(s) + 1] = x
         /\ \A i \in 1..Len(s) : Append(s, x)[i] = s[i]
OBVIOUS

\* An answer to r, if r is a request.
LEMMA Appended ==
  ASSUME NEW as \in [Requests -> Seq(Response)], NEW r, NEW what \in Response
  PROVE  [as EXCEPT ![r] = Append(@, what)] \in [Requests -> Seq(Response)]
<1> DEFINE bs == [as EXCEPT ![r] = Append(@, what)]
<1>1. \A q \in Requests : Append(as[q], what) \in Seq(Response)
  <2> SUFFICES ASSUME NEW q \in Requests PROVE Append(as[q], what) \in Seq(Response)
    OBVIOUS
  <2>1. as[q] \in Seq(Response)
    OBVIOUS
  <2> QED BY <2>1, PushedOn
<1>2. bs = [q \in Requests |-> IF q = r THEN Append(as[q], what) ELSE as[q]]
  OBVIOUS
<1> QED BY <1>1, <1>2

LEMMA BeginBase ==
  ASSUME Base, NEW t \in Threads, NEW sync \in BOOLEAN, Begin(t, sync)
  PROVE  Base'
<1> USE HttpClientAssumption DEF Base, Typed
<1>3. ThreadsTyped'
  <2>1. begun' \in 0..MaxRequests /\ begun' \in Requests /\ begun \in Nat /\ begun' = begun + 1
    BY UseFacts DEF Begin, ThreadsTyped, Requests
  <2>2. mine' \in [Threads -> 0..begun']
    BY <2>1 DEF Begin, ThreadsTyped
  <2>3. isSync' \in [Requests -> BOOLEAN]
    BY <2>1 DEF Begin, ThreadsTyped
  <2>4. lock' \in Threads \cup {NoThread} 
    BY <2>1 DEF Begin, ThreadsTyped
  <2> QED BY <2>1, <2>2, <2>3, <2>4 DEF Begin, ThreadsTyped
<1>1. RequestTyped'
  <2>1. begun' \in Nat /\ 0..begun \subseteq 0..begun' /\ begun' \in 0..begun'
    BY DEF Begin, ThreadsTyped
  <2>2. state' \in State
    BY DEF Begin, RequestTyped, State
  <2> QED BY <2>1, <2>2 DEF Begin, RequestTyped
<1>2. WorkTyped'
  BY Constants DEF Begin, WorkTyped, EnterUser
<1>21. LifeTyped'
  BY DEF Begin, LifeTyped
<1>4. OutcomeTyped'
  <2>1. begun' \in Requests /\ Busy(begun') \in Response
    <3>1. begun' \in Requests
      BY UseFacts DEF Begin, ThreadsTyped, Requests
    <3> QED BY <3>1, Constants
  <2>2. answers' \in [Requests -> Seq(Response)]
    <3>1. answers' = answers \/ answers' = [answers EXCEPT ![begun'] = Append(@, Busy(begun'))]
      BY DEF Begin, Answer
    <3>2. [answers EXCEPT ![begun'] = Append(@, Busy(begun'))] \in [Requests -> Seq(Response)]
      BY <2>1, Appended DEF OutcomeTyped
    <3> QED BY <3>1, <3>2 DEF OutcomeTyped
  <2>3. cancelled' \subseteq 1..begun'
    BY <2>1 DEF Begin, OutcomeTyped, ThreadsTyped
  <2> QED BY <2>2, <2>3 DEF OutcomeTyped
<1>12. Locking'
  BY DEF Begin, ThreadsTyped, Locking
<1>13. Counting'
  BY DEF Begin, ThreadsTyped, RequestTyped, Locking, Counting
<1>14. Unstarted'
  BY DEF Begin, ThreadsTyped, Locking, Unstarted, EnterUser, UserRuns, Idle
<1>15. Ending' /\ NotUsedDestroyed'
  BY DEF Begin, ThreadsTyped, LifeTyped, Ending, NotUsedDestroyed, Free
<1> QED BY <1>1, <1>2, <1>21, <1>3, <1>4, <1>12, <1>13, <1>14, <1>15

LEMMA NextGenerationBase ==
  ASSUME Base, NEW t \in Threads, NextGeneration(t) PROVE Base'
<1> USE HttpClientAssumption DEF Base, Typed
<1>1. Typed'
  BY DEF NextGeneration, RequestTyped, WorkTyped, ThreadsTyped, LifeTyped, OutcomeTyped
<1>2. Locking' /\ Counting' /\ Unstarted'
  BY DEF NextGeneration, ThreadsTyped, RequestTyped, Locking, Counting, Unstarted
<1>3. Ending' /\ NotUsedDestroyed'
  BY DEF NextGeneration, ThreadsTyped, Ending, NotUsedDestroyed, Free
<1> QED BY <1>1, <1>2, <1>3

\* A connection is made for a request that has begun.
LEMMA Connecting ==
  ASSUME NEW r \in Requests, ConnectToHost(r)
  PROVE  state' \in State /\ transport' \in Transport /\ transport'.of = r
BY DEF ConnectToHost, State, Transport

\* A thread's request has begun.
LEMMA CalledOf ==
  ASSUME Typed, NEW t \in Threads
  PROVE  /\ mine[t] \in Requests \cup {0} /\ mine[t] \in 0..begun
         /\ mine[t] # 0 => mine[t] \in Requests
BY HttpClientAssumption DEF Typed, ThreadsTyped, Requests

LEMMA ConnectBase == ASSUME Base, NEW t \in Threads, Connect(t) PROVE Base'
<1> USE HttpClientAssumption DEF Base, Typed
<1>1. mine[t] \in Requests /\ lock = t
  BY CalledOf DEF Connect, Locking
<1>2. state' \in State /\ transport' \in Transport
  BY <1>1, Connecting DEF Connect
<1>3. RequestTyped'
  BY <1>2 DEF Connect, RequestTyped
<1>4. WorkTyped'
  BY Constants DEF Connect, WorkTyped, LeaveUser
<1>5. ThreadsTyped' /\ LifeTyped' /\ OutcomeTyped'
  BY DEF Connect, ThreadsTyped, LifeTyped, OutcomeTyped
<1>6. Locking' /\ Counting'
  BY <1>1 DEF Connect, ThreadsTyped, Locking, Counting
<1>7. Unstarted'
  BY <1>1 DEF Connect, ThreadsTyped, Locking, Unstarted
<1>8. Ending' /\ NotUsedDestroyed'
  BY DEF Connect, ThreadsTyped, Ending, NotUsedDestroyed, Free, LeaveUser
<1> QED BY <1>3, <1>4, <1>5, <1>6, <1>7, <1>8

LEMMA StartFailsBase == ASSUME Base, NEW t \in Threads, StartFails(t) PROVE Base'
<1> USE HttpClientAssumption DEF Base, Typed
<1>1. Typed'
  BY DEF StartFails, RequestTyped, WorkTyped, ThreadsTyped, LifeTyped, OutcomeTyped
<1>2. Locking' /\ Counting' /\ Unstarted'
  BY DEF StartFails, ThreadsTyped, Locking, Counting, Unstarted
<1>3. Ending' /\ NotUsedDestroyed'
  BY DEF StartFails, ThreadsTyped, Ending, NotUsedDestroyed, Free
<1> QED BY <1>1, <1>2, <1>3

LEMMA ReportFailureBase == ASSUME Base, NEW t \in Threads, ReportFailure(t) PROVE Base'
<1> USE HttpClientAssumption DEF Base, Typed
<1>1. Error(mine[t]) \in Response
  BY CalledOf, Constants
<1>2. RequestTyped'
  <2>1. state' \in State /\ response' \in Response /\ completed' \in BOOLEAN
    BY <1>1 DEF ReportFailure, RequestTyped, State
  <2> QED BY <2>1 DEF ReportFailure, RequestTyped
<1>3. WorkTyped'
  BY Constants DEF ReportFailure, WorkTyped, LeaveUser
<1>4. ThreadsTyped' /\ LifeTyped'
  BY DEF ReportFailure, ThreadsTyped, LifeTyped
<1>5. OutcomeTyped'
  <2>1. \A what \in Response : Returned(t, what) \in [Requests -> Seq(Response)]
    BY Appended DEF Returned, OutcomeTyped
  <2>2. CASE completed
    BY <2>1, <2>2 DEF ReportFailure, RequestTyped, OutcomeTyped
  <2>3. CASE ~completed
    <3>1. PICK told \in [Requests -> Seq(Response)] :
            answers' = IF listener = 0 THEN told
                       ELSE [told EXCEPT ![listener] = Append(@, Error(mine[t]))]
      BY <1>1, <2>1, <2>3 DEF ReportFailure
    <3>2. answers' \in [Requests -> Seq(Response)]
      BY <1>1, <3>1, Appended
    <3> QED BY <3>2 DEF ReportFailure, OutcomeTyped
  <2> QED BY <2>2, <2>3
<1>6. Locking' /\ Counting' /\ Unstarted'
  BY DEF ReportFailure, ThreadsTyped, Locking, Counting, Unstarted, LeaveUser, Idle
<1>7. Ending' /\ NotUsedDestroyed'
  BY DEF ReportFailure, ThreadsTyped, Ending, NotUsedDestroyed, Free, LeaveUser
<1> QED BY <1>2, <1>3, <1>4, <1>5, <1>6, <1>7

LEMMA WaitEndsBase == ASSUME Base, NEW t \in Threads, WaitEnds(t) PROVE Base'
<1> USE HttpClientAssumption DEF Base, Typed
<1>1. Typed'
  BY DEF WaitEnds, RequestTyped, WorkTyped, ThreadsTyped, LifeTyped, OutcomeTyped
<1>2. Locking' /\ Counting' /\ Unstarted' /\ Ending' /\ NotUsedDestroyed'
  BY DEF WaitEnds, ThreadsTyped, Locking, Counting, Unstarted, Ending, NotUsedDestroyed, Free
<1> QED BY <1>1, <1>2

LEMMA SendReturnsBase == ASSUME Base, NEW t \in Threads, SendReturns(t) PROVE Base'
<1> USE HttpClientAssumption DEF Base, Typed
<1>1. RequestTyped' /\ WorkTyped' /\ ThreadsTyped' /\ LifeTyped'
  BY DEF SendReturns, RequestTyped, WorkTyped, ThreadsTyped, LifeTyped
<1>2. OutcomeTyped'
  BY Appended DEF SendReturns, OutcomeTyped, RequestTyped, Answer
<1>3. Locking' /\ Counting' /\ Unstarted' /\ Ending' /\ NotUsedDestroyed'
  BY DEF SendReturns, ThreadsTyped, Locking, Counting, Unstarted, Ending, NotUsedDestroyed,
         Free
<1> QED BY <1>1, <1>2, <1>3

\* A Cancel that is posted.
LEMMA Posting ==
  ASSUME WorkTyped, NEW t \in Threads, NEW p, PostCancel(t, p), UNCHANGED <<runner, timers>>
  PROVE  WorkTyped'
<1>1. [kind |-> "cancel", by |-> t] \in Task
  BY DEF Task
<1> QED BY <1>1 DEF PostCancel, WorkTyped

LEMMA WaitTimesOutBase == ASSUME Base, NEW t \in Threads, WaitTimesOut(t) PROVE Base'
<1> USE HttpClientAssumption DEF Base, Typed
<1>1. RequestTyped' /\ ThreadsTyped' /\ LifeTyped' /\ OutcomeTyped'
  BY DEF WaitTimesOut, RequestTyped, ThreadsTyped, LifeTyped, OutcomeTyped, PostCancel
<1>2. WorkTyped'
  BY Posting DEF WaitTimesOut
<1>3. Locking' /\ Counting' /\ Unstarted' /\ Ending' /\ NotUsedDestroyed'
  BY DEF WaitTimesOut, ThreadsTyped, Locking, Counting, Unstarted, Ending, NotUsedDestroyed,
         Free, PostCancel
<1> QED BY <1>1, <1>2, <1>3

LEMMA WaitCallbacksBase == ASSUME Base, NEW t \in Threads, WaitCallbacks(t) PROVE Base'
<1> USE HttpClientAssumption DEF Base, Typed
<1>1. RequestTyped' /\ ThreadsTyped' /\ LifeTyped' /\ OutcomeTyped'
  BY DEF WaitCallbacks, RequestTyped, ThreadsTyped, LifeTyped, OutcomeTyped, PostCancel
<1>2. WorkTyped'
  BY Posting DEF WaitCallbacks
<1>3. Locking' /\ Counting' /\ Unstarted' /\ Ending' /\ NotUsedDestroyed'
  BY DEF WaitCallbacks, ThreadsTyped, Locking, Counting, Unstarted, Ending, NotUsedDestroyed,
         Free, PostCancel
<1> QED BY <1>1, <1>2, <1>3

-----------------------------------------------------------------------------

\* The counters when no call is between its steps.
Counted == active \in {generation, generation + 1} /\ (active # generation => completed)

\* Cancel on the runner, or in a callback, between two requests or in the middle of one.
LEMMA Cancelling ==
  ASSUME Base, NEW now \in State, CancelOnRunner(now), UNCHANGED <<generation, begun>>
  PROVE  /\ RequestTyped' /\ cancelled' \subseteq 1..begun'
         /\ Counted'
         /\ current' = current /\ lock = NoThread
         /\ transport'.st = transport.st \/ transport'.st = "closed"
<1> USE HttpClientAssumption DEF Base, Typed
<1>1. lock = NoThread /\ begun \in Nat /\ begun' = begun /\ begun <= MaxRequests
  BY DEF CancelOnRunner, ThreadsTyped
<1>2. CASE completed \/ state = "idle"
  <2>1. UNCHANGED <<request, state, active, transport, cancelled>>
    BY <1>2 DEF CancelOnRunner
  <2>2. Counted'
    BY <1>1, <2>1 DEF Counted, Counting, Locking, ThreadsTyped
  <2> QED BY <1>1, <2>1, <2>2 DEF RequestTyped, OutcomeTyped
<1>3. CASE ~completed /\ state # "idle"
  <2>1. /\ active' = active + 1 /\ completed' = TRUE /\ response' = Error(current)
        /\ cancelRequested' = TRUE /\ listener' = 0 /\ state' = now
        /\ cancelled' = cancelled \cup {current} /\ UNCHANGED <<timed, redirects, current>>
    BY <1>3 DEF CancelOnRunner
  <2>2. transport' = transport \/ transport' = [transport EXCEPT !.st = "closed"]
    BY <1>3 DEF CancelOnRunner
  <2>3. transport' \in Transport /\ transport'.st \in {transport.st, "closed"}
    BY <2>2 DEF RequestTyped, Transport
  <2>4. current \in 1..begun
    BY <1>1, <1>3 DEF RequestTyped, Unstarted
  <2>5. response' \in Response
    BY <1>1, <2>1, <2>4, Constants DEF Requests
  <2>6. active \in Nat /\ active' \in Nat /\ listener' \in 0..begun' /\ current' \in 0..begun'
    BY <1>1, <2>1, <2>4 DEF RequestTyped
  <2>7. RequestTyped'
    BY <2>1, <2>3, <2>5, <2>6 DEF RequestTyped
  <2>8. active = generation
    BY <1>1, <1>3 DEF Counting, Locking, ThreadsTyped
  <2>9. Counted'
    BY <1>1, <2>1, <2>8 DEF Counted, Counting, RequestTyped
  <2>10. cancelled' \subseteq 1..begun'
    BY <1>1, <2>1, <2>4 DEF OutcomeTyped
  <2> QED BY <1>1, <2>1, <2>3, <2>7, <2>9, <2>10
<1> QED BY <1>2, <1>3

LEMMA CancelBase == ASSUME Base, NEW t \in Threads, Cancel(t) PROVE Base'
<1> USE HttpClientAssumption DEF Base, Typed
<1>1. ThreadsTyped' /\ LifeTyped'
  BY DEF Cancel, ThreadsTyped, LifeTyped, PostCancel
<1>2. CASE use.onRunner
  <2>1. CancelOnRunner("idle") /\ "idle" \in State /\ UNCHANGED <<generation, begun>>
    BY <1>2 DEF Cancel, State
  <2>2. /\ RequestTyped' /\ cancelled' \subseteq 1..begun' /\ Counted'
        /\ current' = current /\ lock = NoThread
        /\ transport'.st = transport.st \/ transport'.st = "closed"
    BY <2>1, Cancelling
  <2>3. WorkTyped' /\ OutcomeTyped'
    BY <1>2, <2>2 DEF Cancel, WorkTyped, OutcomeTyped
  <2>4. Locking' /\ Counting'
    BY <1>2, <2>2 DEF Cancel, Locking, Counting, Counted
  <2>5. state' = state \/ state' = "idle"
    BY <2>1 DEF CancelOnRunner
  <2>6. Unstarted' /\ Ending' /\ NotUsedDestroyed'
    BY <1>2, <2>2, <2>5 DEF Cancel, Unstarted, Ending, NotUsedDestroyed, Free
  <2> QED BY <1>1, <2>2, <2>3, <2>4, <2>6
<1>3. CASE ~use.onRunner
  <2>1. RequestTyped' /\ OutcomeTyped'
    BY <1>3 DEF Cancel, RequestTyped, OutcomeTyped
  <2>2. WorkTyped'
    BY <1>3, Posting DEF Cancel
  <2>3. Locking' /\ Counting' /\ Unstarted'
    BY <1>3 DEF Cancel, ThreadsTyped, Locking, Counting, Unstarted, PostCancel
  <2>4. Ending' /\ NotUsedDestroyed'
    BY <1>3 DEF Cancel, ThreadsTyped, Ending, NotUsedDestroyed, Free, PostCancel
  <2> QED BY <1>1, <2>1, <2>2, <2>3, <2>4
<1> QED BY <1>2, <1>3

LEMMA BeginDestroyBase == ASSUME Base, NEW t \in Threads, BeginDestroy(t) PROVE Base'
<1> USE HttpClientAssumption DEF Base, Typed
<1>1. ThreadsTyped' /\ LifeTyped'
  BY DEF BeginDestroy, ThreadsTyped, LifeTyped
<1>2. WorkTyped'
  BY DEF BeginDestroy, WorkTyped
<1>3. CASE use.onRunner
  <2>1. CancelOnRunner("idle") /\ "idle" \in State /\ UNCHANGED <<generation, begun>>
    BY <1>3 DEF BeginDestroy, State
  <2>2. /\ RequestTyped' /\ cancelled' \subseteq 1..begun' /\ Counted'
        /\ current' = current /\ lock = NoThread
        /\ transport'.st = transport.st \/ transport'.st = "closed"
    BY <2>1, Cancelling
  <2>3. OutcomeTyped'
    BY <1>3, <2>2 DEF BeginDestroy, OutcomeTyped
  <2>4. Locking' /\ Counting'
    BY <1>3, <2>2 DEF BeginDestroy, Locking, Counting, Counted
  <2>5. state' = state \/ state' = "idle"
    BY <2>1 DEF CancelOnRunner
  <2>6. Unstarted' /\ Ending' /\ NotUsedDestroyed'
    BY <1>3, <2>2, <2>5 DEF BeginDestroy, Unstarted, Ending, NotUsedDestroyed, Free
  <2> QED BY <1>1, <1>2, <2>2, <2>3, <2>4, <2>6
<1>4. CASE ~use.onRunner
  <2>1. RequestTyped' /\ OutcomeTyped'
    BY <1>4 DEF BeginDestroy, RequestTyped, OutcomeTyped
  <2>2. Locking' /\ Counting' /\ Unstarted'
    BY <1>4 DEF BeginDestroy, ThreadsTyped, Locking, Counting, Unstarted
  <2>3. Ending' /\ NotUsedDestroyed'
    BY <1>4 DEF BeginDestroy, ThreadsTyped, Ending, NotUsedDestroyed, Free
  <2> QED BY <1>1, <1>2, <2>1, <2>2, <2>3
<1> QED BY <1>3, <1>4

\* Sequences without their first element.
LEMMA Shifted ==
  ASSUME NEW S, NEW s \in Seq(S), s # <<>>
  PROVE  /\ Tail(s) \in Seq(S) /\ Len(Tail(s)) = Len(s) - 1 /\ Head(s) \in S
         /\ Head(s) = s[1] /\ 1 \in 1..Len(s)
         /\ \A i \in 1..(Len(s) - 1) : Tail(s)[i] = s[i + 1]
OBVIOUS

LEMMA RunCancelBase == ASSUME Base, RunCancel PROVE Base'
<1> USE HttpClientAssumption DEF Base, Typed
<1>1. Tail(queue) \in Seq(Task) /\ Head(queue) \in Task
  BY Shifted DEF WorkTyped, RunCancel
<1>2. PICK t \in Threads : t = Head(queue).by
  BY <1>1 DEF RunCancel, Task
<1>3. /\ Free /\ queue' = Tail(queue) /\ CancelOnRunner("idle") /\ Step(t, "out")
      /\ destroyed' = (pc[t] = "dead")
      /\ IF pc[t] = "late" THEN Answer(mine[t], Error(mine[t])) ELSE UNCHANGED answers
      /\ UNCHANGED <<calls, generation, lock, runner, timers, alive, use>>
  BY <1>2 DEF RunCancel
<1>4. "idle" \in State /\ UNCHANGED <<generation, begun>>
  BY <1>3 DEF State
<1>5. /\ RequestTyped' /\ cancelled' \subseteq 1..begun' /\ Counted'
      /\ current' = current /\ lock = NoThread
      /\ transport'.st = transport.st \/ transport'.st = "closed"
  BY <1>3, <1>4, Cancelling
<1>6. WorkTyped' /\ ThreadsTyped'
  BY <1>1, <1>3 DEF WorkTyped, ThreadsTyped
<1>7. LifeTyped'
  BY <1>3 DEF LifeTyped, Ending
<1>8. OutcomeTyped'
  <2>1. Error(mine[t]) \in Response
    BY CalledOf, Constants
  <2>2. answers' \in [Requests -> Seq(Response)]
    <3>1. [answers EXCEPT ![mine[t]] = Append(@, Error(mine[t]))]
            \in [Requests -> Seq(Response)]
      BY <2>1, Appended DEF OutcomeTyped
    <3> QED BY <1>3, <3>1 DEF Answer, OutcomeTyped
  <2> QED BY <1>5, <2>2 DEF OutcomeTyped
<1>9. Locking' /\ Counting'
  BY <1>3, <1>5 DEF ThreadsTyped, Locking, Counting, Counted
<1>10. state' = state \/ state' = "idle"
  BY <1>3 DEF CancelOnRunner
<1>11. Unstarted' /\ Ending' /\ NotUsedDestroyed'
  BY <1>3, <1>5, <1>10 DEF ThreadsTyped, Unstarted, Ending, NotUsedDestroyed, Free
<1> QED BY <1>5, <1>6, <1>7, <1>8, <1>9, <1>11

LEMMA CloseDeferredBase == ASSUME Base, CloseDeferred PROVE Base'
<1> USE HttpClientAssumption DEF Base, Typed
<1>1. Tail(queue) \in Seq(Task)
  BY Shifted DEF WorkTyped, CloseDeferred
<1>2. transport' = transport \/ transport' = [transport EXCEPT !.st = "closed"]
  BY DEF CloseDeferred
<1>3. transport' \in Transport /\ transport'.st \in {transport.st, "closed"}
  BY <1>2 DEF RequestTyped, Transport
<1>4. state' = state \/ state' = "idle"
  BY DEF CloseDeferred
<1>5. RequestTyped'
  BY <1>3, <1>4 DEF CloseDeferred, RequestTyped, State
<1>6. WorkTyped' /\ ThreadsTyped' /\ LifeTyped' /\ OutcomeTyped'
  BY <1>1 DEF CloseDeferred, WorkTyped, ThreadsTyped, LifeTyped, OutcomeTyped
<1>7. Locking' /\ Counting' /\ Ending' /\ NotUsedDestroyed'
  BY DEF CloseDeferred, Locking, Counting, Ending, NotUsedDestroyed, Free
<1>8. Unstarted'
  BY <1>3, <1>4 DEF CloseDeferred, Unstarted
<1> QED BY <1>5, <1>6, <1>7, <1>8

LEMMA NotifyBase == ASSUME Base, Notify PROVE Base'
<1> USE HttpClientAssumption DEF Base, Typed
<1>1. Tail(queue) \in Seq(Task) /\ Head(queue) \in Task
  BY Shifted DEF WorkTyped, Notify
<1>2. Head(queue).what \in Response
  BY <1>1 DEF Notify, Task
<1>3. OutcomeTyped'
  <2>1. [answers EXCEPT ![Head(queue).to] = Append(@, Head(queue).what)]
          \in [Requests -> Seq(Response)]
    BY <1>2, Appended DEF OutcomeTyped
  <2> QED BY <2>1 DEF Notify, Answer, OutcomeTyped
<1>4. RequestTyped' /\ WorkTyped' /\ ThreadsTyped' /\ LifeTyped'
  BY <1>1 DEF Notify, RequestTyped, WorkTyped, ThreadsTyped, LifeTyped
<1>5. Locking' /\ Counting' /\ Unstarted' /\ Ending' /\ NotUsedDestroyed'
  BY DEF Notify, Locking, Counting, Unstarted, Ending, NotUsedDestroyed, Free
<1> QED BY <1>3, <1>4, <1>5

\* The end of a request is stored, be it an error or not.
LEMMA Storing ==
  ASSUME Base, NEW what \in Response, NEW guarded \in BOOLEAN, Store(what, guarded)
  PROVE  completed' = TRUE /\ response' \in Response /\ runner' \in Runner
<1>1. listener \in Requests \cup {0}
  BY HttpClientAssumption DEF Base, Typed, RequestTyped, ThreadsTyped, Requests
<1> QED BY <1>1 DEF Store, Runner

LEMMA Failing ==
  ASSUME Base, HandleError
  PROVE  completed' = TRUE /\ response' \in Response /\ runner' \in Runner
<1>1. Error(current) \in Response
  BY Constants, HttpClientAssumption DEF Base, Typed, RequestTyped, ThreadsTyped, Requests
<1>2. PICK what \in Response : Store(what, FALSE)
  BY <1>1 DEF HandleError
<1> QED BY <1>2, Storing

\* The runner's step changes, and its listener does not.
LEMMA Stepping ==
  ASSUME WorkTyped, NEW p \in {"free", "user", "complete", "redirect", "stored", "done"}, Go(p)
  PROVE  runner' \in Runner /\ runner'.pc = p /\ runner'.to = runner.to
BY DEF WorkTyped, Go, Runner

LEMMA CompleteRequestBase == ASSUME Base, CompleteRequest PROVE Base'
<1> USE HttpClientAssumption DEF Base, Typed
<1>1. /\ UNCHANGED <<threads, life, outcome, state, listener, generation, active, timed,
                     redirects, cancelRequested, current, transport, queue, timers>>
      /\ current # 0 /\ ~destroyed
  BY DEF CompleteRequest, At, Unstarted, NotUsedDestroyed, Free, Idle
<1>2. \/ Go("redirect") /\ UNCHANGED <<completed, response>>
      \/ runner' = Idle /\ UNCHANGED <<completed, response>>
      \/ Store(response, FALSE)
  BY DEF CompleteRequest
<1>3. PICK what \in Response : what = response
  BY DEF RequestTyped
<1>4. /\ completed' = completed \/ completed' = TRUE
      /\ response' \in Response /\ runner' \in Runner
  BY <1>2, <1>3, Storing, Stepping, Constants DEF RequestTyped
<1>5. RequestTyped' /\ WorkTyped'
  BY <1>1, <1>4 DEF RequestTyped, WorkTyped
<1>6. ThreadsTyped' /\ LifeTyped' /\ OutcomeTyped'
  BY <1>1 DEF ThreadsTyped, LifeTyped, OutcomeTyped
<1>7. Locking' /\ Counting' /\ Unstarted' /\ Ending' /\ NotUsedDestroyed'
  BY <1>1, <1>4 DEF Locking, Counting, Unstarted, Ending, NotUsedDestroyed
<1> QED BY <1>5, <1>6, <1>7

\* Cancel in a callback, which puts off the close.
LEMMA CancellingInside ==
  ASSUME Base, NEW now \in State, CancelledInside(now), UNCHANGED <<generation, begun>>
  PROVE  /\ RequestTyped' /\ cancelled' \subseteq 1..begun' /\ Counted' /\ current' = current
         /\ queue' \in Seq(Task) /\ runner' \in Runner
<1>1. CancelOnRunner(now)
  BY DEF CancelledInside
<1>2. RequestTyped' /\ cancelled' \subseteq 1..begun' /\ Counted' /\ current' = current
  BY <1>1, Cancelling
<1>3. [kind |-> "close", gen |-> active'] \in Task
  BY <1>2 DEF RequestTyped, Task
<1>4. queue' \in Seq(Task)
  BY <1>3, PushedOn DEF CancelledInside, Base, Typed, WorkTyped
<1> QED BY <1>2, <1>4, Constants DEF CancelledInside

LEMMA HandleRedirectBase == ASSUME Base, HandleRedirect PROVE Base'
<1> USE HttpClientAssumption DEF Base, Typed
<1>1. /\ UNCHANGED <<threads, life, generation, timers, answers>>
      /\ current # 0 /\ ~destroyed
  BY DEF HandleRedirect, At, Unstarted, NotUsedDestroyed, Free, Idle
<1>2. /\ RequestTyped' /\ cancelled' \subseteq 1..begun' /\ current' = current
      /\ queue' \in Seq(Task) /\ runner' \in Runner /\ Counting'
  <2>1. CASE /\ Go("complete")
             /\ UNCHANGED <<request, state, active, transport, queue, cancelled>>
    BY <1>1, <2>1, Stepping DEF RequestTyped, OutcomeTyped, WorkTyped, Counting
  <2>2. CASE /\ HandleError
             /\ UNCHANGED <<state, listener, active, timed, redirects, cancelRequested, current,
                            transport, queue, cancelled>>
    BY <1>1, <2>2, Failing DEF RequestTyped, OutcomeTyped, WorkTyped, Counting
  <2>3. CASE CancelledInside(state)
    <3>1. PICK now \in State : CancelledInside(now)
      BY <2>3 DEF RequestTyped
    <3>2. UNCHANGED <<generation, begun>>
      BY <1>1
    <3> QED BY <1>1, <3>1, <3>2, CancellingInside DEF Counting, Counted
  <2>4. CASE /\ redirects < MaxRedirects
             /\ redirects' = redirects + 1 /\ response' = Blank /\ runner' = Idle
             /\ ConnectToHost(current)
             /\ UNCHANGED <<completed, listener, active, timed, cancelRequested, current, queue,
                            cancelled>>
    <3>1. PICK r \in Requests : ConnectToHost(r)
      BY <1>1, <2>4 DEF RequestTyped, ThreadsTyped, Requests
    <3>2. state' \in State /\ transport' \in Transport
      BY <3>1, Connecting
    <3>3. redirects' \in 0..MaxRedirects
      BY <2>4 DEF RequestTyped
    <3> QED BY <1>1, <2>4, <3>2, <3>3, Constants
            DEF RequestTyped, OutcomeTyped, WorkTyped, Counting
  <2> QED BY <2>1, <2>2, <2>3, <2>4 DEF HandleRedirect
<1>3. WorkTyped' /\ ThreadsTyped' /\ LifeTyped' /\ OutcomeTyped'
  BY <1>1, <1>2 DEF WorkTyped, ThreadsTyped, LifeTyped, OutcomeTyped
<1>4. Locking' /\ Unstarted' /\ Ending' /\ NotUsedDestroyed'
  BY <1>1, <1>2 DEF Locking, Unstarted, Ending, NotUsedDestroyed
<1> QED BY <1>2, <1>3, <1>4

LEMMA BecomeIdleBase == ASSUME Base, BecomeIdle PROVE Base'
<1> USE HttpClientAssumption DEF Base, Typed
<1>1. RequestTyped' /\ ThreadsTyped' /\ LifeTyped' /\ OutcomeTyped'
  BY DEF BecomeIdle, RequestTyped, State, ThreadsTyped, LifeTyped, OutcomeTyped
<1>2. WorkTyped'
  BY Stepping DEF BecomeIdle, WorkTyped
<1>3. current # 0 /\ ~destroyed
  BY DEF BecomeIdle, At, Unstarted, NotUsedDestroyed, Free, Idle
<1>4. Locking' /\ Counting' /\ Unstarted' /\ Ending' /\ NotUsedDestroyed'
  BY <1>3 DEF BecomeIdle, Locking, Counting, Unstarted, Ending, NotUsedDestroyed
<1> QED BY <1>1, <1>2, <1>4

LEMMA NotifyDoneBase == ASSUME Base, NotifyDone PROVE Base'
<1> USE HttpClientAssumption DEF Base, Typed
<1>1. RequestTyped' /\ ThreadsTyped' /\ LifeTyped' /\ OutcomeTyped'
  BY DEF NotifyDone, RequestTyped, ThreadsTyped, LifeTyped, OutcomeTyped
<1>2. WorkTyped'
  <2>1. CASE runner.to = 0
    BY <2>1, Constants DEF NotifyDone, WorkTyped
  <2>2. CASE runner.to # 0
    <3>1. [kind |-> "notify", to |-> runner.to, what |-> runner.what] \in Task
      BY <2>2 DEF WorkTyped, Runner, Task
    <3> QED BY <2>2, <3>1, Constants, PushedOn DEF NotifyDone, WorkTyped
  <2> QED BY <2>1, <2>2
<1>3. current # 0 /\ ~destroyed
  BY DEF NotifyDone, At, Unstarted, NotUsedDestroyed, Free, Idle
<1>4. Locking' /\ Counting' /\ Unstarted' /\ Ending' /\ NotUsedDestroyed'
  BY <1>3 DEF NotifyDone, Locking, Counting, Unstarted, Ending, NotUsedDestroyed
<1> QED BY <1>1, <1>2, <1>4

LEMMA ExpireBase == ASSUME Base, NEW timer, Expire(timer) PROVE Base'
<1> USE HttpClientAssumption DEF Base, Typed
<1>1. /\ UNCHANGED <<threads, life, outcome, state, listener, generation, active, timed,
                     redirects, cancelRequested, current, transport, queue>>
      /\ current # 0 /\ timer.of \in Requests /\ timers' \subseteq timers
  BY DEF Expire, Unstarted, WorkTyped
<1>2. \/ alive /\ Store(Error(timer.of), TRUE)
      \/ UNCHANGED <<completed, response, runner>>
  BY DEF Expire
<1>3. /\ completed' = completed \/ completed' = TRUE
      /\ response' \in Response /\ runner' \in Runner
  BY <1>1, <1>2, Storing, Constants DEF RequestTyped, WorkTyped
<1>4. RequestTyped' /\ WorkTyped'
  BY <1>1, <1>3 DEF RequestTyped, WorkTyped
<1>5. ThreadsTyped' /\ LifeTyped' /\ OutcomeTyped'
  BY <1>1 DEF ThreadsTyped, LifeTyped, OutcomeTyped
<1>6. NotUsedDestroyed'
  BY <1>1, <1>2 DEF NotUsedDestroyed, Free, LifeTyped
<1>7. Locking' /\ Counting' /\ Unstarted' /\ Ending'
  BY <1>1, <1>3 DEF Locking, Counting, Unstarted, Ending
<1> QED BY <1>4, <1>5, <1>6, <1>7

LEMMA OnConnectedBase ==
  ASSUME Base, ~destroyed, NEW success \in BOOLEAN, OnConnected(success)
  PROVE  Base'
<1> USE HttpClientAssumption DEF Base, Typed
<1>1. /\ UNCHANGED <<threads, life, generation, answers>>
      /\ current # 0
  BY DEF OnConnected, Unstarted
<1>2. \A st \in {"connected", "closed"} :
        /\ [transport EXCEPT !.st = st] \in Transport
        /\ [transport EXCEPT !.st = st, !.asked = TRUE] \in Transport
  BY DEF RequestTyped, Transport
<1> DEFINE Result == /\ RequestTyped' /\ cancelled' \subseteq 1..begun' /\ current' = current
                     /\ queue' \in Seq(Task) /\ runner' \in Runner /\ Counting'
                     /\ timers' \subseteq [gen : Nat, of : Requests]
<1>3. CASE completed \/ state # "connecting"
  <2>1. Ignored /\ transport' = [transport EXCEPT !.st = Outcome(success)]
    BY <1>3 DEF OnConnected
  <2>2. transport' \in Transport
    BY <1>2, <2>1 DEF Outcome
  <2>3. Result
    BY <1>1, <2>1, <2>2 DEF Ignored, RequestTyped, OutcomeTyped, WorkTyped, Counting
  <2> QED BY <1>1, <2>3
          DEF WorkTyped, ThreadsTyped, LifeTyped, OutcomeTyped, Locking, Unstarted, Ending,
              NotUsedDestroyed
<1>4. CASE ~(completed \/ state # "connecting")
  <2>1. Result
    <3>0. timers' \subseteq [gen : Nat, of : Requests]
      <4>1. [gen |-> active, of |-> current] \in [gen : Nat, of : Requests]
        BY <1>1 DEF RequestTyped, ThreadsTyped, Requests
      <4>2. timers' = timers \/ timers' = timers \cup {[gen |-> active, of |-> current]}
        BY <1>4 DEF OnConnected
      <4> QED BY <4>1, <4>2 DEF WorkTyped
    <3>1. CASE /\ HandleError /\ transport' = [transport EXCEPT !.st = "closed"]
               /\ UNCHANGED <<state, listener, active, timed, redirects, cancelRequested,
                              current, queue, cancelled>>
      BY <1>1, <1>2, <3>0, <3>1, Failing DEF RequestTyped, OutcomeTyped, WorkTyped, Counting
    <3>2. CASE /\ transport' = [transport EXCEPT !.st = "connected", !.asked = TRUE]
               /\ state' = "sending" /\ timed' = TRUE
               /\ UNCHANGED <<completed, response, listener, active, redirects,
                              cancelRequested, current, runner, queue, cancelled>>
      BY <1>1, <1>2, <3>0, <3>2 DEF RequestTyped, State, OutcomeTyped, WorkTyped, Counting
    <3>3. CASE /\ transport' = [transport EXCEPT !.st = "connected"]
               /\ state' = "sending" /\ timed' = TRUE /\ HandleError
               /\ UNCHANGED <<listener, active, redirects, cancelRequested, current, queue,
                              cancelled>>
      BY <1>1, <1>2, <3>0, <3>3, Failing
      DEF RequestTyped, State, OutcomeTyped, WorkTyped, Counting
    <3>4. CASE CancelledInside("sending")
      <4>1. "sending" \in State /\ UNCHANGED <<generation, begun>>
        BY <1>1 DEF State
      <4> QED BY <1>1, <3>0, <3>4, <4>1, CancellingInside DEF Counting, Counted
    <3> QED BY <1>4, <3>1, <3>2, <3>3, <3>4 DEF OnConnected
  <2> QED BY <1>1, <2>1
          DEF WorkTyped, ThreadsTyped, LifeTyped, OutcomeTyped, Locking, Unstarted, Ending,
              NotUsedDestroyed
<1> QED BY <1>3, <1>4

LEMMA OnDataReceivedBase ==
  ASSUME Base, ~destroyed, NEW kind \in {"part", "open", "full", "redirect", "error"},
         OnDataReceived(kind)
  PROVE  Base'
<1> USE HttpClientAssumption DEF Base, Typed
<1>1. /\ UNCHANGED <<threads, life, generation, answers>>
      /\ current # 0
      /\ transport' = [transport EXCEPT !.done = kind \in {"full", "redirect"}]
  BY DEF OnDataReceived, Unstarted
<1>2. transport' \in Transport /\ transport.of \in Requests
  <2>1. (kind \in {"full", "redirect"}) \in BOOLEAN
    OBVIOUS
  <2> DEFINE done == kind \in {"full", "redirect"}
  <2> HIDE DEF done
  <2>2. transport' = [transport EXCEPT !.done = done] /\ done \in BOOLEAN
    BY <1>1, <2>1 DEF done
  <2> QED BY <2>2 DEF RequestTyped, Transport
<1>3. CASE completed \/ state = "idle"
  BY <1>1, <1>2, <1>3
  DEF OnDataReceived, Ignored, RequestTyped, WorkTyped, ThreadsTyped, LifeTyped, OutcomeTyped,
      Locking, Counting, Unstarted, Ending, NotUsedDestroyed
<1>4. CASE ~(completed \/ state = "idle")
  <2>1. /\ state' = "receiving"
        /\ UNCHANGED <<listener, active, timed, redirects, cancelRequested, current, queue,
                       timers, cancelled>>
    BY <1>4 DEF OnDataReceived
  <2>2. /\ completed' = completed \/ completed' = TRUE
        /\ response' \in Response /\ runner' \in Runner
    <3>1. CASE kind = "error"
      BY <1>4, <3>1, Failing DEF OnDataReceived
    <3>2. CASE kind # "error"
      <4>1. /\ response' = [of |-> transport.of, kind |-> kind] /\ UNCHANGED completed
            /\ Go("complete") \/ UNCHANGED runner
        BY <1>4, <3>2 DEF OnDataReceived
      <4> QED BY <1>2, <4>1, Stepping DEF Response, WorkTyped
    <3> QED BY <3>1, <3>2
  <2>3. RequestTyped' /\ WorkTyped'
    BY <1>1, <1>2, <2>1, <2>2 DEF RequestTyped, WorkTyped, State
  <2> QED BY <1>1, <2>1, <2>2, <2>3
          DEF ThreadsTyped, LifeTyped, OutcomeTyped, Locking, Counting, Unstarted, Ending,
              NotUsedDestroyed
<1> QED BY <1>3, <1>4

LEMMA CancelledByListenerBase ==
  ASSUME Base, ~destroyed, CancelledByListener
  PROVE  Base'
<1> USE HttpClientAssumption DEF Base, Typed
<1>1. /\ UNCHANGED <<threads, life, generation, timers, answers>> /\ current # 0
      /\ CancelledInside("receiving") /\ "receiving" \in State
      /\ UNCHANGED <<generation, begun>>
  BY DEF CancelledByListener, Unstarted, State
<1>2. /\ RequestTyped' /\ cancelled' \subseteq 1..begun' /\ Counted' /\ current' = current
      /\ queue' \in Seq(Task) /\ runner' \in Runner
  BY <1>1, CancellingInside
<1> QED BY <1>1, <1>2
        DEF WorkTyped, ThreadsTyped, LifeTyped, OutcomeTyped, Locking, Counting, Counted,
            Unstarted, Ending, NotUsedDestroyed

LEMMA OnDisconnectedBase == ASSUME Base, ~destroyed, OnDisconnected PROVE Base'
<1> USE HttpClientAssumption DEF Base, Typed
<1>1. /\ UNCHANGED <<threads, life, outcome, state, completed, listener, generation, active,
                     timed, redirects, cancelRequested, current, queue, timers>>
      /\ transport' = [transport EXCEPT !.st = "closed"] /\ current # 0
  BY DEF OnDisconnected, Unstarted
<1>2. response' \in Response /\ runner' \in Runner
  <2>1. \/ UNCHANGED <<response, runner>>
        \/ /\ Go("complete")
           /\ response' = [response EXCEPT !.kind = "full"] \/ response' = response
    BY DEF OnDisconnected
  <2> QED BY <2>1, Stepping DEF RequestTyped, WorkTyped, Response
<1>3. RequestTyped' /\ WorkTyped'
  BY <1>1, <1>2 DEF RequestTyped, WorkTyped, Transport
<1> QED BY <1>1, <1>3
        DEF ThreadsTyped, LifeTyped, OutcomeTyped, Locking, Counting, Unstarted, Ending,
            NotUsedDestroyed

LEMMA InitBase == Init => Base
<1> SUFFICES ASSUME Init PROVE Base
  OBVIOUS
<1> USE HttpClientAssumption DEF Base, Typed
<1>1. RequestTyped
  <2>1. 1 \in Requests /\ begun = 0
    BY DEF Requests, Init
  <2>2. transport \in Transport
    BY <2>1 DEF Init, Transport
  <2>3. state \in State /\ response \in Response
    BY Constants DEF Init, State
  <2>4. listener \in 0..begun /\ current \in 0..begun /\ redirects \in 0..MaxRedirects
    BY <2>1 DEF Init
  <2>5. generation \in Nat /\ active \in Nat
    BY DEF Init
  <2>6. completed \in BOOLEAN /\ timed \in BOOLEAN /\ cancelRequested \in BOOLEAN
    BY DEF Init
  <2> QED BY <2>2, <2>3, <2>4, <2>5, <2>6 DEF RequestTyped
<1>2. WorkTyped
  <2>1. runner \in Runner
    BY Constants DEF Init
  <2>2. queue \in Seq(Task)
    BY DEF Init
  <2>3. timers \subseteq [gen : Nat, of : Requests]
    BY DEF Init
  <2> QED BY <2>1, <2>2, <2>3 DEF WorkTyped
<1>3. ThreadsTyped
  <2>1. begun = 0 /\ begun \in 0..MaxRequests /\ 0 \in 0..begun
    BY DEF Init
  <2>2. pc = [t \in Threads |-> "out"] /\ mine = [t \in Threads |-> 0]
        /\ isSync = [r \in Requests |-> FALSE] /\ lock = NoThread
    BY DEF Init
  <2> QED BY <2>1, <2>2 DEF ThreadsTyped
<1>5. LifeTyped
  BY DEF Init, LifeTyped
<1>6. OutcomeTyped
  <2>1. <<>> \in Seq(Response)
    OBVIOUS
  <2> QED BY <2>1 DEF Init, OutcomeTyped
<1>4. Locking /\ Counting /\ Unstarted /\ Ending /\ NotUsedDestroyed
  BY DEF Init, Locking, Counting, Unstarted, Ending, NotUsedDestroyed, Free, Idle
<1> QED BY <1>1, <1>2, <1>3, <1>4, <1>5, <1>6

-----------------------------------------------------------------------------
(* What holds of a client that is used on its task runner *)

\* One call at a time, while the runner runs it.
OneCall ==
  /\ \A t \in Threads : pc[t] \in {"out", "reset", "generation", "connect", "failed"}
  /\ \A t, u \in Threads : pc[t] # "out" /\ pc[u] # "out" => t = u
  /\ At("user") <=> Calling
  /\ \A r \in Requests : ~isSync[r]
  /\ \A i \in 1..Len(queue) : queue[i].kind # "cancel"

\* A request is in flight from the end of SendAsync to completed.store(true).
InFlight == state # "idle" /\ ~completed /\ ~Calling

\* How far the request is.
Stages ==
  /\ \A t \in Threads : pc[t] # "out" => listener = mine[t] /\ state = "connecting"
  /\ \A t \in Threads : pc[t] = "reset" => completed \/ current = 0
  /\ \A t \in Threads : pc[t] \in {"generation", "connect", "failed"} =>
       ~completed /\ current = mine[t] /\ response = Blank
  /\ At("free") /\ state = "idle" => completed \/ current = 0
  /\ InFlight => current # 0 /\ listener = current /\ transport.of = current
  /\ InFlight /\ At("free") =>
       IF state = "receiving" THEN response.of = current /\ response.kind \in {"part", "open"}
                              ELSE response = Blank
  /\ runner.pc \in {"complete", "redirect"} => InFlight /\ response.of = current
  /\ At("stored") => completed /\ state # "idle"
  /\ At("done") => completed /\ state = "idle"

\* The timer of the generation of a request in flight is that request's.
OwnTimer ==
  /\ \A timer \in timers : timer.gen <= generation
  /\ \A timer \in timers : InFlight /\ timer.gen = generation => timer.of = current
  /\ \A t \in Threads : pc[t] \in {"connect", "failed"} =>
       \A timer \in timers : timer.gen < generation

\* A Cancel inside a callback leaves the client busy until its task has run.
Closing ==
  /\ cancelRequested => completed
  /\ \A i \in 1..Len(queue) : queue[i].kind = "close" =>
       At("free") /\ completed /\ cancelRequested /\ state # "idle" /\ queue[i].gen = active
  /\ \A i, j \in 1..Len(queue) : queue[i].kind = "close" /\ queue[j].kind = "close" => i = j
  /\ alive /\ completed /\ state # "idle" /\ At("free") =>
       \E i \in 1..Len(queue) : queue[i].kind = "close"

\* A response, whole unless the server closes connections in the middle of one, to r.
Fits(what, r) == what.of = r /\ (use.earlyClose \/ what.kind # "part")

\* Nobody has answered r, nor is about to.
Posted(i, r) == queue[i].kind = "notify" /\ queue[i].to = r
Fresh(r) ==
  answers[r] = <<>> /\ runner.to # r /\ \A i \in 1..Len(queue) : ~Posted(i, r)

\* A request that is not begun, or was cancelled, has no answer and gets none.
Unheard == \A r \in Requests : r > begun \/ r \in cancelled => Fresh(r)

\* An answer is the request's own, whole, and the only one.
OneAnswer ==
  \A r \in Requests : answers[r] = <<>> \/ (Len(answers[r]) = 1 /\ Fits(answers[r][1], r))

\* A request in flight has no answer yet.
Unanswered ==
  /\ \A t \in Threads : pc[t] # "out" => mine[t] \notin cancelled /\ Fresh(mine[t])
  /\ InFlight => current \notin cancelled /\ Fresh(current)
  /\ runner.pc \in {"complete", "redirect"} => use.earlyClose \/ response.kind # "part"

\* Whom the runner is about to notify.
Told ==
  runner.to # 0 =>
    /\ runner.pc \in {"stored", "done"} /\ Fits(runner.what, runner.to)
    /\ answers[runner.to] = <<>> /\ \A i \in 1..Len(queue) : ~Posted(i, runner.to)

\* Whom its tasks will.
PostedOnce ==
  \A i \in 1..Len(queue) : queue[i].kind = "notify" =>
    /\ Fits(queue[i].what, queue[i].to) /\ answers[queue[i].to] = <<>>
    /\ \A j \in 1..Len(queue) : Posted(j, queue[i].to) => i = j

\* A request's answer is in one place, and fits it.
Answering == Unheard /\ OneAnswer /\ Unanswered /\ Told /\ PostedOnce

OnRunner == OneCall /\ Stages /\ OwnTimer /\ Closing /\ Answering

Single == Base /\ use.onRunner /\ OnRunner

-----------------------------------------------------------------------------
(* The steps of a call, while the runner runs the caller *)

LEMMA ResetSingle == ASSUME Single, NEW t \in Threads, Reset(t) PROVE OnRunner'
<1> USE HttpClientAssumption DEF Single, Base, Typed, OnRunner, At
<1>1. /\ pc[t] = "reset" /\ pc' = [pc EXCEPT ![t] = "generation"]
      /\ pc \in [Threads -> Steps] /\ Calling /\ Calling'
      /\ \A u \in Threads : u # t => pc[u] = "out"
  <2>1. pc[t] = "reset" /\ pc' = [pc EXCEPT ![t] = "generation"] /\ pc \in [Threads -> Steps]
    BY DEF Reset, ThreadsTyped
  <2> QED BY <2>1 DEF Calling, OneCall
<1>2. OneCall'
  BY <1>1 DEF Reset, OneCall
<1>3. ~InFlight'
  BY <1>1 DEF InFlight
<1>4. Stages'
  BY <1>1, <1>2, <1>3 DEF Reset, Stages, OneCall, Blank
<1>5. OwnTimer'
  BY <1>1, <1>3 DEF Reset, OwnTimer
<1>6. Closing'
  BY <1>1, <1>2 DEF Reset, Closing, OneCall
<1>7. Answering'
  BY <1>1, <1>3
  DEF Reset, Answering, Unheard, OneAnswer, Unanswered, Told, PostedOnce, Fresh, Posted,
      Fits, Stages, OneCall
<1> QED BY <1>2, <1>4, <1>5, <1>6, <1>7

LEMMA NextGenerationSingle ==
  ASSUME Single, NEW t \in Threads, NextGeneration(t)
  PROVE  OnRunner'
<1> USE HttpClientAssumption DEF Single, Base, Typed, OnRunner, At
<1>1. /\ pc[t] = "generation" /\ pc' = [pc EXCEPT ![t] = "connect"]
      /\ pc \in [Threads -> Steps] /\ Calling /\ Calling'
      /\ \A u \in Threads : u # t => pc[u] = "out"
  <2>1. pc[t] = "generation" /\ pc' = [pc EXCEPT ![t] = "connect"] /\ pc \in [Threads -> Steps]
    BY DEF NextGeneration, ThreadsTyped
  <2> QED BY <2>1 DEF Calling, OneCall
<1>2. OneCall'
  BY <1>1 DEF NextGeneration, OneCall
<1>3. ~InFlight'
  BY <1>1 DEF InFlight
<1>4. Stages'
  BY <1>1, <1>2, <1>3 DEF NextGeneration, Stages, OneCall, Blank
<1>5. OwnTimer'
  BY <1>1, <1>3 DEF NextGeneration, OwnTimer, RequestTyped, WorkTyped
<1>6. Closing'
  BY <1>1, <1>2 DEF NextGeneration, Closing, OneCall
<1>7. Answering'
  BY <1>1, <1>3
  DEF NextGeneration, Answering, Unheard, OneAnswer, Unanswered, Told, PostedOnce, Fresh,
      Posted, Fits, Stages, OneCall
<1> QED BY <1>2, <1>4, <1>5, <1>6, <1>7

LEMMA ConnectSingle == ASSUME Single, NEW t \in Threads, Connect(t) PROVE OnRunner'
<1> USE HttpClientAssumption DEF Single, Base, Typed, OnRunner, At
<1>1. /\ pc[t] = "connect" /\ pc \in [Threads -> Steps] /\ Calling
      /\ \A u \in Threads : u # t => pc[u] = "out"
  <2>1. pc[t] = "connect" /\ pc \in [Threads -> Steps]
    BY DEF Connect, ThreadsTyped
  <2> QED BY <2>1 DEF Calling, OneCall
<1>2. mine[t] \in Requests
  BY <1>1, CalledOf DEF Locking
<1>3. pc' = [pc EXCEPT ![t] = "out"] /\ ~Calling' /\ runner' = Idle
  BY <1>1, <1>2 DEF Connect, OneCall, Calling, LeaveUser
<1>4. OneCall'
  BY <1>1, <1>3 DEF Connect, OneCall, Idle, Calling
<1>5. transport'.of = mine[t] /\ state' = "connecting"
  BY DEF Connect, ConnectToHost
<1>6. Stages'
  BY <1>1, <1>3, <1>5 DEF Connect, Stages, Idle, InFlight, Unstarted
<1>7. OwnTimer'
  BY <1>1, <1>3 DEF Connect, OwnTimer, RequestTyped, WorkTyped
<1>8. Closing'
  BY <1>1, <1>3 DEF Connect, Closing, OneCall, Stages
<1>9. Answering'
  BY <1>1, <1>3
  DEF Connect, Answering, Unheard, OneAnswer, Unanswered, Told, PostedOnce, Fresh, Posted,
      Fits, Stages, OneCall, Idle
<1> QED BY <1>4, <1>6, <1>7, <1>8, <1>9

LEMMA StartFailsSingle == ASSUME Single, NEW t \in Threads, StartFails(t) PROVE OnRunner'
<1> USE HttpClientAssumption DEF Single, Base, Typed, OnRunner, At
<1>1. /\ pc[t] = "connect" /\ pc' = [pc EXCEPT ![t] = "failed"]
      /\ pc \in [Threads -> Steps] /\ Calling /\ Calling'
      /\ \A u \in Threads : u # t => pc[u] = "out"
  <2>1. pc[t] = "connect" /\ pc' = [pc EXCEPT ![t] = "failed"] /\ pc \in [Threads -> Steps]
    BY DEF StartFails, ThreadsTyped
  <2> QED BY <2>1 DEF Calling, OneCall
<1>2. OneCall'
  BY <1>1 DEF StartFails, OneCall
<1>3. ~InFlight'
  BY <1>1 DEF InFlight
<1>4. Stages' /\ OwnTimer' /\ Closing'
  BY <1>1, <1>2, <1>3 DEF StartFails, Stages, OneCall, Blank, OwnTimer, Closing
<1>5. Answering'
  BY <1>1, <1>3
  DEF StartFails, Answering, Unheard, OneAnswer, Unanswered, Told, PostedOnce, Fresh,
      Posted, Fits, Stages, OneCall
<1> QED BY <1>2, <1>4, <1>5

LEMMA BeginSingle ==
  ASSUME Single, NEW t \in Threads, NEW sync \in BOOLEAN, Begin(t, sync)
  PROVE  OnRunner'
<1> USE HttpClientAssumption DEF Single, Base, Typed, OnRunner, At
<1>1. /\ Free /\ ~Calling /\ sync = FALSE /\ pc[t] = "out" /\ pc \in [Threads -> Steps]
      /\ \A u \in Threads : pc[u] = "out"
  <2>1. Free /\ sync = FALSE /\ pc[t] = "out" /\ pc \in [Threads -> Steps]
    BY DEF Begin, EnterUser, ThreadsTyped
  <2> QED BY <2>1 DEF Free, Idle, OneCall, Calling
<1>2. /\ begun' = begun + 1 /\ begun' \in Requests /\ begun \in Nat
      /\ mine' = [mine EXCEPT ![t] = begun'] /\ isSync' = [isSync EXCEPT ![begun'] = sync]
      /\ UNCHANGED <<completed, response, generation, active, timed, redirects,
                     cancelRequested, current, transport, queue, timers, cancelled, alive, use>>
  BY UseFacts DEF Begin, ThreadsTyped, Requests
<1>3. Fresh(begun')
  BY <1>2 DEF Answering, Unheard
<1>4. begun' \notin cancelled
  BY <1>2 DEF OutcomeTyped
<1>5. CASE /\ state = "idle" /\ state' = "connecting" /\ listener' = begun'
           /\ runner' = UserRuns /\ pc' = [pc EXCEPT ![t] = "reset"] /\ UNCHANGED answers
  <2>1. Calling' /\ ~InFlight' /\ OneCall'
    BY <1>1, <1>2, <1>5 DEF Calling, InFlight, OneCall, UserRuns, Idle, ThreadsTyped
  <2>2. Stages'
    BY <1>1, <1>2, <1>5, <2>1 DEF Stages, UserRuns, Idle, Free, ThreadsTyped
  <2>3. OwnTimer'
    BY <1>1, <1>2, <1>5, <2>1 DEF OwnTimer
  <2>4. Closing'
    BY <1>1, <1>2, <1>5 DEF Closing, UserRuns, Idle
  <2>5. Answering'
    <3>1. runner.to = 0 /\ runner'.to = 0 /\ runner'.pc = "user"
      BY <1>1, <1>5 DEF UserRuns, Idle, Free
    <3>2. Unheard' /\ OneAnswer' /\ Told' /\ PostedOnce'
      BY <1>1, <1>2, <1>5, <3>1
      DEF Answering, Unheard, OneAnswer, Told, PostedOnce, Fresh, Posted, Fits
    <3>3. Fresh(begun)'
      BY <1>2, <1>3, <1>5, <3>1 DEF Fresh, Posted
    <3>4. Unanswered'
      <4>1. \A u \in Threads : pc'[u] # "out" => u = t
        BY <1>1, <1>5
      <4>2. mine'[t] = begun'
        BY <1>2 DEF ThreadsTyped
      <4> QED BY <1>2, <1>4, <2>1, <3>1, <3>3, <4>1, <4>2 DEF Unanswered
    <3> QED BY <3>2, <3>4 DEF Answering
  <2> QED BY <2>1, <2>2, <2>3, <2>4, <2>5
<1>6. CASE /\ state # "idle" /\ Answer(begun', Busy(begun'))
           /\ UNCHANGED <<state, listener, lock, runner, pc>>
  <2>1. ~Calling' /\ OneCall' /\ (InFlight' <=> InFlight)
    BY <1>1, <1>2, <1>6 DEF Calling, InFlight, OneCall
  <2>2. Stages' /\ OwnTimer' /\ Closing'
    BY <1>1, <1>2, <1>6, <2>1 DEF Stages, OwnTimer, Closing
  <2>3. Answering'
    <3>1. runner.to = 0 /\ runner' = runner
      BY <1>1, <1>6 DEF Idle, Free
    <3>2. /\ answers'[begun'] = <<Busy(begun')>>
          /\ \A r \in Requests : r # begun' => answers'[r] = answers[r]
      BY <1>2, <1>3, <1>6 DEF Answer, Fresh, OutcomeTyped
    <3>3. \A r \in Requests : r # begun' => (Fresh(r) => Fresh(r)')
      BY <1>2, <1>6, <3>1, <3>2 DEF Fresh, Posted
    <3>4. Unheard'
      BY <1>2, <1>4, <3>3 DEF Answering, Unheard
    <3>5. OneAnswer'
      <4>1. /\ Len(answers'[begun']) = 1 /\ answers'[begun'][1].of = begun'
            /\ answers'[begun'][1].kind # "part"
        BY <3>2 DEF Busy
      <4>2. \A r \in Requests : r # begun' =>
              answers'[r] = <<>> \/ (/\ Len(answers'[r]) = 1 /\ answers'[r][1].of = r
                                     /\ use'.earlyClose \/ answers'[r][1].kind # "part")
        BY <1>2, <3>2 DEF Answering, OneAnswer, Fits
      <4> QED BY <4>1, <4>2 DEF OneAnswer, Fits
    <3>6. Unanswered'
      BY <1>1, <1>2, <1>6, <2>1, <3>1, <3>3
      DEF Answering, Unanswered, RequestTyped, Requests, InFlight, Stages, ThreadsTyped
    <3>7. Told'
      BY <3>1 DEF Told
    <3>8. PostedOnce'
      <4>1. \A i \in 1..Len(queue) : queue[i].kind = "notify" =>
              queue[i].to \in Requests /\ queue[i].to # begun'
        BY <1>3 DEF Fresh, Posted, WorkTyped, Task
      <4> QED BY <1>2, <3>2, <4>1 DEF Answering, PostedOnce, Posted, Fits
    <3> QED BY <3>4, <3>5, <3>6, <3>7, <3>8 DEF Answering
  <2> QED BY <2>1, <2>2, <2>3
<1> QED BY <1>1, <1>5, <1>6 DEF Begin, EnterUser

LEMMA ReportFailureSingle ==
  ASSUME Single, NEW t \in Threads, ReportFailure(t) PROVE OnRunner'
<1> USE HttpClientAssumption DEF Single, Base, Typed, OnRunner, At
<1>1. /\ pc[t] = "failed" /\ pc' = [pc EXCEPT ![t] = "out"] /\ pc \in [Threads -> Steps]
      /\ Calling /\ \A u \in Threads : u # t => pc[u] = "out"
  <2>1. pc[t] = "failed" /\ pc' = [pc EXCEPT ![t] = "out"] /\ pc \in [Threads -> Steps]
    BY DEF ReportFailure, ThreadsTyped
  <2> QED BY <2>1 DEF Calling, OneCall
<1>2. /\ ~completed /\ listener = mine[t] /\ current = mine[t] /\ mine[t] # 0
      /\ Fresh(mine[t]) /\ mine[t] \notin cancelled /\ ~isSync[mine[t]]
      /\ mine[t] \in Requests /\ mine[t] <= begun
  <2>1. listener = mine[t] /\ current = mine[t] /\ ~completed /\ state = "connecting"
    BY <1>1 DEF Stages
  <2>2. mine[t] # 0
    BY <1>1, <2>1 DEF ReportFailure, Unstarted
  <2>3. mine[t] \in Requests /\ mine[t] <= begun
    BY <2>2, CalledOf DEF ThreadsTyped
  <2> QED BY <1>1, <2>1, <2>2, <2>3 DEF Answering, Unanswered, OneCall
<1>3. /\ state' = "idle" /\ completed' = TRUE /\ response' = Error(mine[t])
      /\ runner' = Idle /\ answers' = [answers EXCEPT ![mine[t]] = Append(@, Error(mine[t]))]
      /\ UNCHANGED <<calls, life, listener, generation, active, timed, redirects,
                     cancelRequested, current, transport, lock, queue, timers, cancelled>>
  BY <1>1, <1>2 DEF ReportFailure, LeaveUser, Returned
<1>4. ~Calling' /\ OneCall' /\ ~InFlight'
  BY <1>1, <1>3 DEF Calling, OneCall, Idle, InFlight
<1>5. Stages' /\ OwnTimer' /\ Closing'
  BY <1>1, <1>3, <1>4 DEF Stages, OwnTimer, Closing, OneCall, Idle, Calling
<1>6. answers'[mine[t]] = <<Error(mine[t])>>
  <2>1. answers[mine[t]] = <<>> /\ mine[t] \in Requests
    BY <1>2 DEF Fresh
  <2>2. answers' = [answers EXCEPT ![mine[t]] = Append(@, Error(mine[t]))]
    BY <1>3
  <2>3. answers'[mine[t]] = Append(answers[mine[t]], Error(mine[t]))
    BY <2>1, <2>2 DEF OutcomeTyped
  <2> QED BY <2>1, <2>3
<1>7. \A r \in Requests : r # mine[t] => answers'[r] = answers[r] /\ (Fresh(r) => Fresh(r)')
  BY <1>3 DEF Fresh, Posted, OutcomeTyped, Idle, Requests
<1>8. Unheard'
  BY <1>2, <1>3, <1>7 DEF Answering, Unheard, ThreadsTyped
<1>9. OneAnswer'
  BY <1>3, <1>6, <1>7 DEF Answering, OneAnswer, Fits, Error
<1>10. Unanswered'
  BY <1>1, <1>3, <1>4 DEF Unanswered, Calling, Idle
<1>11. Told' /\ PostedOnce'
  BY <1>2, <1>3, <1>7
  DEF Answering, Told, PostedOnce, Posted, Fits, Fresh, Idle, WorkTyped, Task
<1>12. Answering'
  BY <1>8, <1>9, <1>10, <1>11 DEF Answering
<1> QED BY <1>4, <1>5, <1>12

-----------------------------------------------------------------------------
(* What the runner does to a client used on it, in kinds of steps *)

\* The runner runs a step of its own, and no call is in progress.
LEMMA NoCall ==
  ASSUME Single, ~At("user"), UNCHANGED <<pc, isSync>>, ~At("user")',
         \A i \in 1..Len(queue') : queue'[i].kind # "cancel"
  PROVE  /\ OneCall' /\ ~Calling /\ ~Calling'
         /\ \A t \in Threads : pc[t] = "out" /\ pc'[t] = "out"
BY DEF Single, OnRunner, OneCall, Calling, At

\* No timer is of a later request, and that of the request in flight is its own.
Owned(timer) == timer.gen <= generation /\ (timer.gen = generation => timer.of = current)

\* A request in flight has no close behind it, and nobody has answered it.
LEMMA Flying ==
  ASSUME Single, InFlight
  PROVE  /\ ~completed /\ ~Calling /\ ~cancelRequested /\ state # "idle"
         /\ current \in Requests /\ current <= begun /\ listener = current
         /\ transport.of = current /\ current \notin cancelled /\ Fresh(current)
         /\ active = generation /\ \A timer \in timers : Owned(timer)
         /\ \A i \in 1..Len(queue) : queue[i].kind # "close"
<1> USE DEF Single, OnRunner, Base, Typed
<1>1. /\ current # 0 /\ listener = current /\ transport.of = current /\ ~completed /\ ~Calling
      /\ state # "idle" /\ ~cancelRequested
      /\ \A i \in 1..Len(queue) : queue[i].kind # "close"
  BY DEF InFlight, Stages, Closing
<1>2. current \in Requests /\ current <= begun
  BY <1>1, HttpClientAssumption DEF RequestTyped, ThreadsTyped, Requests
<1>3. current \notin cancelled /\ Fresh(current)
  BY DEF Answering, Unanswered
<1>4. active = generation /\ \A timer \in timers : Owned(timer)
  BY <1>1 DEF Counting, Calling, OwnTimer, Owned, InFlight
<1> QED BY <1>1, <1>2, <1>3, <1>4

\* The request in flight goes on.
LEMMA GoesOn ==
  ASSUME Single, InFlight, ~At("user"), state' # "idle",
         runner'.pc \in {"free", "complete", "redirect"}, runner'.to = 0,
         UNCHANGED <<completed, pc, calls, listener, current, generation, active,
                     cancelRequested, queue, outcome, alive, use>>,
         transport'.of = transport.of, (\A timer \in timers : Owned(timer))',
         runner'.pc = "free" =>
           IF state' = "receiving"
             THEN response'.of = current /\ response'.kind \in {"part", "open"}
             ELSE response' = Blank,
         runner'.pc \in {"complete", "redirect"} =>
           response'.of = current /\ (use.earlyClose \/ response'.kind # "part")
  PROVE  OnRunner'
<1> USE DEF At
<1>1. /\ OneCall' /\ ~Calling /\ ~Calling'
      /\ \A t \in Threads : pc[t] = "out" /\ pc'[t] = "out"
  BY NoCall DEF Single, OnRunner, OneCall
<1>2. InFlight'
  BY <1>1, Flying DEF InFlight
<1>3. Stages'
  BY <1>1, <1>2, Flying DEF Stages, Requests
<1>4. OwnTimer'
  BY <1>1 DEF OwnTimer, Owned
<1>5. Closing'
  BY <1>1, Flying DEF Closing
<1>6. \A r \in Requests : Fresh(r) => Fresh(r)'
  BY DEF Fresh, Posted, Requests
<1>7. Unheard' /\ OneAnswer' /\ Told' /\ PostedOnce'
  BY <1>6 DEF Single, OnRunner, Answering, Unheard, OneAnswer, Told, PostedOnce, Fits, Posted
<1>8. Unanswered'
  BY <1>1, <1>6, Flying DEF Unanswered
<1> QED BY <1>1, <1>3, <1>4, <1>5, <1>7, <1>8 DEF OnRunner, Answering

\* The request in flight is completed, and the runner is to tell its listener what.
LEMMA IsStored ==
  ASSUME Single, InFlight, ~At("user"), state' # "idle",
         NEW what \in Response, Fits(what, current), NEW guarded \in BOOLEAN,
         Store(what, guarded),
         UNCHANGED <<pc, calls, listener, current, generation, active, cancelRequested, queue,
                     outcome, alive, use>>,
         (\A timer \in timers : Owned(timer))'
  PROVE  OnRunner'
<1> USE DEF At
<1>1. /\ runner'.pc = "stored" /\ runner'.to = current /\ runner'.what = what
      /\ completed'
  BY Flying DEF Store
<1>2. /\ OneCall' /\ ~Calling /\ ~Calling'
      /\ \A t \in Threads : pc[t] = "out" /\ pc'[t] = "out"
  BY <1>1, NoCall DEF Single, OnRunner, OneCall
<1>3. ~InFlight'
  BY <1>1 DEF InFlight
<1>4. Stages'
  BY <1>1, <1>2, <1>3 DEF Stages
<1>5. OwnTimer'
  BY <1>2 DEF OwnTimer, Owned
<1>6. Closing'
  BY <1>1, Flying DEF Closing
<1>7. \A r \in Requests : r # current => (Fresh(r) => Fresh(r)')
  BY <1>1 DEF Fresh, Posted, Requests
<1>8. Unheard'
  BY <1>7, Flying, HttpClientAssumption
  DEF Single, OnRunner, Answering, Unheard, Base, Typed, ThreadsTyped, Requests
<1>9. OneAnswer' /\ PostedOnce'
  BY DEF Single, OnRunner, Answering, OneAnswer, PostedOnce, Fits, Posted
<1>10. Unanswered' 
  BY <1>1, <1>2, <1>3 DEF Unanswered
<1>11. Told'
  BY <1>1, Flying DEF Told, Fits, Fresh, Posted
<1> QED BY <1>2, <1>4, <1>5, <1>6, <1>8, <1>9, <1>10, <1>11 DEF OnRunner, Answering

\* A callback of the transport, or a timer, that is of no request in flight.
LEMMA IsIgnored ==
  ASSUME Single, Free, transport'.of = transport.of, timers' \subseteq timers,
         UNCHANGED <<request, state, generation, active, runner, queue, pc, calls, outcome,
                     alive, use>>
  PROVE  OnRunner'
<1> USE DEF At
<1>1. /\ OneCall' /\ ~Calling /\ ~Calling'
      /\ \A t \in Threads : pc[t] = "out" /\ pc'[t] = "out"
  BY NoCall DEF Single, OnRunner, OneCall, Free, Idle
<1>2. InFlight' <=> InFlight
  BY <1>1 DEF InFlight
<1>3. Stages'
  BY <1>1, <1>2 DEF Single, OnRunner, Stages
<1>4. OwnTimer'
  BY <1>1, <1>2 DEF Single, OnRunner, OwnTimer
<1>5. Closing'
  BY DEF Single, OnRunner, Closing
<1>6. Answering'
  BY <1>1, <1>2 DEF Single, OnRunner, Answering, Unheard, OneAnswer, Unanswered, Told,
                    PostedOnce, Fresh, Posted, Fits
<1> QED BY <1>1, <1>3, <1>4, <1>5, <1>6 DEF OnRunner

\* A Cancel: the runner is free of calls, and the request in flight, if any, ends.
LEMMA IsCancelled ==
  ASSUME Single, Free, CancelOnRunner("idle"),
         UNCHANGED <<pc, calls, generation, runner, queue, timers, answers, use>>,
         alive' => alive
  PROVE  OnRunner'
<1> USE DEF At, Single, OnRunner
<1>1. /\ OneCall' /\ ~Calling /\ ~Calling'
      /\ \A t \in Threads : pc[t] = "out" /\ pc'[t] = "out"
  BY NoCall DEF OneCall, Free, Idle
<1>2. CASE completed \/ state = "idle"
  <2>1. UNCHANGED <<request, state, active, transport, cancelled>>
    BY <1>2 DEF CancelOnRunner
  <2>2. InFlight' <=> InFlight
    BY <1>1, <2>1 DEF InFlight
  <2>3. Stages' /\ OwnTimer'
    BY <1>1, <2>1, <2>2 DEF Stages, OwnTimer
  <2>4. Closing'
    BY <2>1 DEF Closing
  <2>5. Answering'
    BY <1>1, <2>1, <2>2 DEF Answering, Unheard, OneAnswer, Unanswered, Told, PostedOnce, Fresh,
                            Posted, Fits
  <2> QED BY <1>1, <2>3, <2>4, <2>5
<1>3. CASE ~completed /\ state # "idle"
  <2>1. InFlight
    BY <1>1, <1>3 DEF InFlight
  <2>2. /\ completed' = TRUE /\ cancelRequested' = TRUE /\ state' = "idle"
        /\ cancelled' = cancelled \cup {current} /\ current' = current
    BY <1>3 DEF CancelOnRunner
  <2>3. ~InFlight'
    BY <2>2 DEF InFlight
  <2>4. Stages' /\ OwnTimer'
    BY <1>1, <2>2, <2>3 DEF Stages, OwnTimer, Free, Idle
  <2>5. Closing'
    BY <2>1, <2>2, Flying DEF Closing
  <2>6. \A r \in Requests : Fresh(r) => Fresh(r)'
    BY DEF Fresh, Posted
  <2>7. Unheard'
    BY <2>1, <2>2, <2>6, Flying DEF Answering, Unheard
  <2>8. OneAnswer' /\ Told' /\ PostedOnce'
    BY DEF Answering, OneAnswer, Told, PostedOnce, Posted, Fits
  <2>9. Unanswered'
    BY <1>1, <2>3 DEF Unanswered, Free, Idle
  <2> QED BY <1>1, <2>4, <2>5, <2>7, <2>8, <2>9 DEF Answering
<1> QED BY <1>2, <1>3

\* A Cancel by the listener, in the middle of a callback.
LEMMA IsCancelledInside ==
  ASSUME Single, InFlight, ~At("user"), NEW now \in State \ {"idle"}, CancelledInside(now),
         UNCHANGED <<pc, calls, generation, answers, alive, use>>,
         (\A timer \in timers : timer.gen <= generation)'
  PROVE  OnRunner'
<1> USE DEF At, Single, OnRunner
<1>1. /\ completed' = TRUE /\ cancelRequested' = TRUE /\ state' = now /\ runner' = Idle
      /\ cancelled' = cancelled \cup {current} /\ current' = current
      /\ queue' = Append(queue, [kind |-> "close", gen |-> active'])
  BY Flying DEF CancelledInside, CancelOnRunner
<1>2. queue \in Seq(Task) /\ Len(queue) \in Nat
  BY DEF Base, Typed, WorkTyped
<1>3. /\ Len(queue') = Len(queue) + 1
      /\ queue'[Len(queue) + 1].kind = "close" /\ queue'[Len(queue) + 1].gen = active'
      /\ \A i \in 1..Len(queue) :
           queue'[i] = queue[i] /\ queue[i].kind \notin {"close", "cancel"}
  <2>1. \A i \in 1..Len(queue) : queue[i].kind \notin {"close", "cancel"}
    BY Flying DEF OneCall
  <2> HIDE DEF Single, OnRunner
  <2> QED BY <1>1, <1>2, <2>1
<1>4. /\ OneCall' /\ ~Calling /\ ~Calling'
      /\ \A t \in Threads : pc[t] = "out" /\ pc'[t] = "out"
  <2>1. \A i \in 1..Len(queue') : queue'[i].kind # "cancel"
    BY <1>2, <1>3
  <2> QED BY <1>1, <2>1, NoCall DEF Idle
<1>5. ~InFlight'
  BY <1>1 DEF InFlight
<1>6. Stages'
  BY <1>1, <1>4, <1>5 DEF Stages, Idle
<1>7. OwnTimer'
  BY <1>4, <1>5 DEF OwnTimer
<1>8. Closing'
  <2>1. cancelRequested' => completed'
    BY <1>1
  <2>2. \A i \in 1..Len(queue') : queue'[i].kind = "close" => i = Len(queue) + 1
    BY <1>2, <1>3
  <2>3. Len(queue) + 1 \in 1..Len(queue')
    BY <1>2, <1>3
  <2>4. At("free")' /\ state' # "idle"
    BY <1>1 DEF Idle
  <2> QED BY <1>1, <1>3, <2>1, <2>2, <2>3, <2>4 DEF Closing
<1>9. \A r \in Requests : Fresh(r) => Fresh(r)'
  BY <1>1, <1>2, <1>3 DEF Fresh, Posted, Idle, Requests
<1>10. Unheard'
  BY <1>1, <1>9, Flying DEF Answering, Unheard
<1>11. OneAnswer' /\ Told'
  BY <1>1 DEF Answering, OneAnswer, Told, Fits, Idle
<1>12. PostedOnce'
  BY <1>2, <1>3 DEF Answering, PostedOnce, Posted, Fits
<1>13. Unanswered'
  BY <1>1, <1>4, <1>5 DEF Unanswered, Idle
<1> QED BY <1>4, <1>6, <1>7, <1>8, <1>10, <1>11, <1>12, <1>13 DEF Answering

-----------------------------------------------------------------------------
(* The steps of the runner *)

LEMMA BecomeIdleSingle == ASSUME Single, BecomeIdle PROVE OnRunner'
<1> USE DEF At, Single, OnRunner
<1>1. /\ runner.pc = "stored" /\ runner'.pc = "done" /\ runner'.to = runner.to
      /\ runner'.what = runner.what /\ state' = "idle" /\ completed
      /\ UNCHANGED <<request, threads, life, outcome, generation, active, transport, queue,
                     timers>>
  BY DEF BecomeIdle, Go, Stages, Base, Typed, WorkTyped, Runner
<1>2. /\ OneCall' /\ ~Calling /\ ~Calling'
      /\ \A t \in Threads : pc[t] = "out" /\ pc'[t] = "out"
  BY <1>1, NoCall DEF OneCall
<1>3. ~InFlight'
  BY <1>1 DEF InFlight
<1>4. Stages' /\ OwnTimer'
  BY <1>1, <1>2, <1>3 DEF Stages, OwnTimer
<1>5. Closing'
  BY <1>1 DEF Closing
<1>6. Unheard' /\ OneAnswer' /\ Told' /\ PostedOnce'
  BY <1>1 DEF Answering, Unheard, OneAnswer, Told, PostedOnce, Fresh, Posted, Fits
<1>7. Unanswered'
  BY <1>1, <1>2, <1>3 DEF Unanswered
<1> QED BY <1>2, <1>4, <1>5, <1>6, <1>7 DEF Answering

LEMMA NotifyDoneSingle == ASSUME Single, NotifyDone PROVE OnRunner'
<1> USE DEF At, Single, OnRunner
<1>1. /\ runner.pc = "done" /\ runner' = Idle /\ completed /\ state = "idle"
      /\ UNCHANGED <<client, threads, life, outcome, timers>>
      /\ \A i \in 1..Len(queue) : queue[i].kind # "close"
  BY DEF NotifyDone, Stages, Closing
<1>2. ~InFlight'
  BY <1>1 DEF InFlight
<1>3. CASE runner.to = 0
  <2>1. queue' = queue
    BY <1>3 DEF NotifyDone
  <2>2. /\ OneCall' /\ ~Calling /\ ~Calling'
        /\ \A t \in Threads : pc[t] = "out" /\ pc'[t] = "out"
    BY <1>1, <2>1, NoCall DEF OneCall, Idle
  <2>3. Stages' /\ OwnTimer' /\ Closing'
    BY <1>1, <1>2, <2>1, <2>2 DEF Stages, OwnTimer, Closing, Idle
  <2>4. Answering'
    BY <1>1, <1>2, <1>3, <2>1, <2>2
    DEF Answering, Unheard, OneAnswer, Unanswered, Told, PostedOnce, Fresh, Posted, Fits, Idle
  <2> QED BY <2>2, <2>3, <2>4
<1>4. CASE runner.to # 0
  <2> DEFINE n == Len(queue) + 1
  <2>1. queue \in Seq(Task) /\ runner.to \in Requests
    BY <1>4 DEF Base, Typed, WorkTyped, Runner
  <2>2. queue' = Append(queue, [kind |-> "notify", to |-> runner.to, what |-> runner.what])
    BY <1>4 DEF NotifyDone
  <2>3. /\ Len(queue') = n /\ n \in 1..Len(queue') /\ Len(queue) \in Nat
        /\ queue'[n].kind = "notify" /\ queue'[n].to = runner.to /\ queue'[n].what = runner.what
        /\ \A i \in 1..Len(queue) : queue'[i] = queue[i]
    <3> HIDE DEF Single, OnRunner
    <3> QED BY <2>1, <2>2
  <2>4. \A i \in 1..Len(queue') : i = n \/ i \in 1..Len(queue)
    BY <2>3
  <2>5. \A i \in 1..Len(queue') : queue'[i].kind \notin {"cancel", "close"}
    BY <1>1, <2>3, <2>4 DEF OneCall
  <2> HIDE DEF n
  <2>6. /\ OneCall' /\ ~Calling /\ ~Calling'
        /\ \A t \in Threads : pc[t] = "out" /\ pc'[t] = "out"
    BY <1>1, <2>5, NoCall DEF OneCall, Idle
  <2>7. Stages' /\ OwnTimer'
    BY <1>1, <1>2, <2>6 DEF Stages, OwnTimer, Idle
  <2>8. Closing'
    BY <1>1, <2>5 DEF Closing
  <2>9. \A r \in Requests : Fresh(r) => Fresh(r)'
    BY <1>1, <2>3, <2>4 DEF Fresh, Posted, Idle, Requests
  <2>10. Unheard' /\ OneAnswer' /\ Told'
    BY <1>1, <2>9 DEF Answering, Unheard, OneAnswer, Told, Fits, Idle
  <2>11. Fits(runner.what, runner.to) /\ answers[runner.to] = <<>>
         /\ \A i \in 1..Len(queue) : ~Posted(i, runner.to)
    BY <1>4 DEF Answering, Told
  <2>12. PostedOnce'
    BY <1>1, <2>3, <2>4, <2>11 DEF Answering, PostedOnce, Posted, Fits
  <2>13. Unanswered'
    BY <1>1, <1>2, <2>6 DEF Unanswered, Idle
  <2> QED BY <2>6, <2>7, <2>8, <2>10, <2>12, <2>13 DEF Answering
<1> QED BY <1>3, <1>4

\* The task at the head of the queue is taken.
LEMMA Taken ==
  ASSUME WorkTyped, queue # <<>>, queue' = Tail(queue)
  PROVE  /\ Head(queue) = queue[1] /\ 1 \in 1..Len(queue) /\ Len(queue) \in Nat
         /\ Len(queue') = Len(queue) - 1 /\ queue[1] \in Task
         /\ \A i \in 1..Len(queue') : queue'[i] = queue[i + 1] /\ i + 1 \in 1..Len(queue)
BY Shifted DEF WorkTyped

LEMMA CloseDeferredSingle == ASSUME Single, CloseDeferred PROVE OnRunner'
<1> USE DEF At, Single, OnRunner
<1>1. /\ queue' = Tail(queue) /\ queue # <<>> /\ Head(queue).kind = "close" /\ Free
      /\ UNCHANGED <<threads, life, outcome, completed, response, listener, generation, active,
                     timed, redirects, current, runner, timers>>
  BY DEF CloseDeferred
<1>2. /\ Head(queue) = queue[1] /\ 1 \in 1..Len(queue) /\ Len(queue) \in Nat
      /\ Len(queue') = Len(queue) - 1
      /\ \A i \in 1..Len(queue') : queue'[i] = queue[i + 1] /\ i + 1 \in 1..Len(queue)
  BY <1>1, Taken DEF Base, Typed
<1>3. /\ completed /\ cancelRequested /\ queue[1].gen = active
      /\ \A i \in 1..Len(queue') : queue'[i].kind # "close"
  BY <1>1, <1>2 DEF Closing
<1>4. alive => state' = "idle" /\ cancelRequested' = FALSE
  BY <1>1, <1>2, <1>3 DEF CloseDeferred
<1>5. /\ OneCall' /\ ~Calling /\ ~Calling'
      /\ \A t \in Threads : pc[t] = "out" /\ pc'[t] = "out"
  BY <1>1, <1>2, NoCall DEF OneCall, Free, Idle
<1>6. ~InFlight'
  BY <1>1, <1>3 DEF InFlight
<1>7. Stages' /\ OwnTimer'
  BY <1>1, <1>3, <1>5, <1>6 DEF Stages, OwnTimer, Free, Idle
<1>8. Closing'
  BY <1>1, <1>3, <1>4 DEF Closing
<1>9. Answering'
  BY <1>1, <1>2, <1>5, <1>6
  DEF Answering, Unheard, OneAnswer, Unanswered, Told, PostedOnce, Fresh, Posted, Fits, Free,
      Idle
<1> QED BY <1>5, <1>7, <1>8, <1>9

LEMMA NotifySingle == ASSUME Single, Notify PROVE OnRunner'
<1> USE DEF At, Single, OnRunner
<1>1. /\ queue' = Tail(queue) /\ queue # <<>> /\ Head(queue).kind = "notify" /\ Free
      /\ UNCHANGED <<client, threads, life, runner, timers, cancelled>>
  BY DEF Notify
<1>2. /\ Head(queue) = queue[1] /\ 1 \in 1..Len(queue) /\ Len(queue) \in Nat
      /\ Len(queue') = Len(queue) - 1 /\ queue[1] \in Task
      /\ \A i \in 1..Len(queue') : queue'[i] = queue[i + 1] /\ i + 1 \in 1..Len(queue)
  BY <1>1, Taken DEF Base, Typed
<1>3. /\ OneCall' /\ ~Calling /\ ~Calling'
      /\ \A t \in Threads : pc[t] = "out" /\ pc'[t] = "out"
  BY <1>1, <1>2, NoCall DEF OneCall, Free, Idle
<1>4. InFlight' <=> InFlight
  BY <1>1, <1>3 DEF InFlight
<1>5. Stages' /\ OwnTimer'
  BY <1>1, <1>3, <1>4 DEF Stages, OwnTimer
<1>6. Closing'
  <2>1. \A i \in 1..Len(queue) : queue[i].kind = "close" => i - 1 \in 1..Len(queue')
    BY <1>1, <1>2
  <2> QED BY <1>1, <1>2, <2>1 DEF Closing
<1>7. PICK r \in Requests : r = queue[1].to /\ Posted(1, r)
  BY <1>1, <1>2 DEF Task, Posted
<1>8. PICK what \in Response : what = queue[1].what /\ Fits(what, r)
  BY <1>1, <1>2, <1>7 DEF Task, Answering, PostedOnce
<1>9. /\ answers[r] = <<>> /\ answers'[r] \in {<<>>, <<what>>}
      /\ \A q \in Requests : q # r => answers'[q] = answers[q]
  <2>1. answers[r] = <<>>
    BY <1>1, <1>2, <1>7 DEF Answering, PostedOnce
  <2>2. \/ answers' = [answers EXCEPT ![r] = Append(@, what)]
        \/ answers' = answers
    BY <1>2, <1>7, <1>8 DEF Notify, Answer
  <2>3. [answers EXCEPT ![r] = Append(@, what)][r] = Append(answers[r], what)
        /\ \A q \in Requests : q # r => [answers EXCEPT ![r] = Append(@, what)][q] = answers[q]
    BY DEF Base, Typed, OutcomeTyped
  <2>4. Append(<<>>, what) = <<what>>
    OBVIOUS
  <2>5. CASE answers' = answers
    BY <2>1, <2>5
  <2>6. CASE answers' = [answers EXCEPT ![r] = Append(@, what)]
    BY <2>1, <2>3, <2>4, <2>6
  <2> QED BY <2>2, <2>5, <2>6
<1>10. \A i \in 1..Len(queue') : ~(queue'[i].kind = "notify" /\ queue'[i].to = r)
  BY <1>1, <1>2, <1>7 DEF Answering, PostedOnce, Posted
<1>11. \A q \in Requests : Fresh(q) => q # r /\ Fresh(q)'
  BY <1>1, <1>2, <1>7, <1>9 DEF Fresh, Posted
<1>12. Unheard' /\ Unanswered'
  BY <1>1, <1>3, <1>4, <1>11, Flying DEF Answering, Unheard, Unanswered, Free, Idle
<1>13. OneAnswer'
  <2>1. answers'[r] = <<>> \/ (Len(answers'[r]) = 1 /\ Fits(answers'[r][1], r))
    BY <1>8, <1>9
  <2> QED BY <1>1, <1>9, <2>1 DEF Answering, OneAnswer, Fits
<1>14. Told'
  BY <1>1 DEF Told, Free, Idle
<1>15. PostedOnce'
  <2>1. \A i \in 1..Len(queue') : queue'[i].kind = "notify" =>
          queue'[i].to \in Requests /\ queue'[i].to # r
    BY <1>1, <1>2, <1>10 DEF Base, Typed, WorkTyped, Task
  <2> QED BY <1>1, <1>2, <1>9, <2>1 DEF Answering, PostedOnce, Posted, Fits
<1> QED BY <1>3, <1>5, <1>6, <1>12, <1>13, <1>14, <1>15 DEF Answering

LEMMA CompleteRequestSingle == ASSUME Single, CompleteRequest PROVE OnRunner'
<1> USE DEF At
<1>1. /\ UNCHANGED <<threads, life, outcome, state, listener, generation, active, timed,
                     redirects, cancelRequested, current, transport, queue, timers>>
      /\ runner.pc = "complete" /\ InFlight /\ response.of = current /\ runner.to = 0
      /\ use.earlyClose \/ response.kind # "part"
  BY DEF CompleteRequest, Single, OnRunner, Stages, Answering, Told, Unanswered
<1>2. (\A timer \in timers : Owned(timer))' /\ ~completed /\ state' # "idle"
  BY <1>1, Flying DEF Owned
<1>3. \/ Go("redirect") /\ UNCHANGED <<completed, response>>
      \/ Store(response, FALSE)
  BY <1>2 DEF CompleteRequest
<1>4. CASE Go("redirect") /\ UNCHANGED <<completed, response>>
  <2>1. runner'.pc = "redirect" /\ runner'.to = 0
    BY <1>1, <1>4, Stepping DEF Single, Base, Typed
  <2> QED BY <1>1, <1>2, <1>4, <2>1, GoesOn
<1>5. CASE Store(response, FALSE)
  <2>1. PICK what \in Response : what = response
    BY DEF Single, Base, Typed, RequestTyped
  <2>2. Fits(what, current) /\ Store(what, FALSE)
    BY <1>1, <1>5, <2>1 DEF Fits
  <2> QED BY <1>1, <1>2, <2>2, IsStored
<1> QED BY <1>3, <1>4, <1>5

\* What HandleError stores is an answer to the request in flight.
LEMMA IsFailed ==
  ASSUME Single, InFlight, ~At("user"), state' # "idle", HandleError,
         UNCHANGED <<pc, calls, listener, current, generation, active, cancelRequested, queue,
                     outcome, alive, use>>,
         (\A timer \in timers : Owned(timer))'
  PROVE  OnRunner'
<1>1. PICK what \in Response : what = Error(current)
  BY Flying, Constants
<1>2. Store(what, FALSE) /\ Fits(what, current)
  BY <1>1 DEF HandleError, Fits, Error
<1> QED BY <1>2, IsStored

LEMMA HandleRedirectSingle == ASSUME Single, HandleRedirect PROVE OnRunner'
<1> USE DEF At
<1>1. /\ UNCHANGED <<threads, life, generation, timers, answers>>
      /\ runner.pc = "redirect" /\ InFlight /\ response.of = current /\ runner.to = 0
      /\ use.earlyClose \/ response.kind # "part"
  BY DEF HandleRedirect, Single, OnRunner, Stages, Answering, Told, Unanswered
<1>2. CASE /\ Go("complete")
           /\ UNCHANGED <<request, state, active, transport, queue, cancelled>>
  <2>1. runner'.pc = "complete" /\ runner'.to = 0
    BY <1>1, <1>2, Stepping DEF Single, Base, Typed
  <2>2. (\A timer \in timers : Owned(timer))' /\ state' # "idle"
    BY <1>1, <1>2, Flying DEF Owned
  <2> QED BY <1>1, <1>2, <2>1, <2>2, GoesOn
<1>3. CASE /\ HandleError
           /\ UNCHANGED <<state, listener, active, timed, redirects, cancelRequested, current,
                          transport, queue, cancelled>>
  <2>1. (\A timer \in timers : Owned(timer))' /\ state' # "idle"
    BY <1>1, <1>3, Flying DEF Owned
  <2> QED BY <1>1, <1>3, <2>1, IsFailed
<1>4. CASE CancelledInside(state)
  <2>1. PICK now \in State \ {"idle"} : now = state
    BY <1>1, Flying DEF Single, Base, Typed, RequestTyped
  <2>2. CancelledInside(now)
    BY <1>4, <2>1
  <2>3. (\A timer \in timers : timer.gen <= generation)'
    BY <1>1, Flying DEF Owned
  <2> QED BY <1>1, <2>2, <2>3, IsCancelledInside
<1>5. CASE /\ redirects' = redirects + 1 /\ response' = Blank /\ runner' = Idle
           /\ ConnectToHost(current)
           /\ UNCHANGED <<completed, listener, active, timed, cancelRequested, current, queue,
                          cancelled>>
  <2>1. /\ state' = "connecting" /\ transport'.of = transport.of
        /\ (\A timer \in timers : Owned(timer))'
    BY <1>1, <1>5, Flying DEF ConnectToHost, Owned
  <2>2. runner'.pc = "free" /\ runner'.to = 0
    BY <1>5 DEF Idle
  <2> QED BY <1>1, <1>5, <2>1, <2>2, GoesOn
<1> QED BY <1>2, <1>3, <1>4, <1>5 DEF HandleRedirect

LEMMA ExpireSingle == ASSUME Single, NEW timer \in timers, Expire(timer) PROVE OnRunner'
<1> USE DEF At
<1>1. /\ UNCHANGED <<threads, life, outcome, state, listener, generation, active, timed,
                     redirects, cancelRequested, current, transport, queue>>
      /\ Free /\ runner.pc = "free" /\ timers' \subseteq timers
  BY DEF Expire, Free, Idle
<1>2. CASE UNCHANGED <<completed, response, runner>>
  BY <1>1, <1>2, IsIgnored
<1>3. CASE ~UNCHANGED <<completed, response, runner>>
  <2>1. active = timer.gen /\ state # "idle" /\ ~completed /\ Store(Error(timer.of), TRUE)
    BY <1>3 DEF Expire
  <2>2. InFlight
    BY <1>1, <2>1 DEF InFlight, Single, OnRunner, OneCall
  <2>3. timer.of = current /\ (\A one \in timers : Owned(one))'
    BY <1>1, <2>1, <2>2, Flying DEF Owned
  <2>4. PICK what \in Response : what = Error(timer.of)
    BY <2>2, <2>3, Flying, Constants
  <2>5. Store(what, TRUE) /\ Fits(what, current)
    BY <2>1, <2>3, <2>4 DEF Fits, Error
  <2> QED BY <1>1, <2>1, <2>2, <2>3, <2>5, IsStored
<1> QED BY <1>2, <1>3

LEMMA CancelSingle == ASSUME Single, NEW t \in Threads, Cancel(t) PROVE OnRunner'
<1>1. /\ use.onRunner /\ Free /\ CancelOnRunner("idle") /\ UNCHANGED <<queue, pc>>
      /\ UNCHANGED <<calls, life, generation, lock, runner, timers, answers>>
  BY DEF Cancel, Single
<1> QED BY <1>1, IsCancelled

LEMMA BeginDestroySingle == ASSUME Single, NEW t \in Threads, BeginDestroy(t) PROVE OnRunner'
<1>1. /\ use.onRunner /\ Free /\ CancelOnRunner("idle") /\ UNCHANGED pc
      /\ alive' = FALSE
      /\ UNCHANGED <<work, calls, generation, lock, answers, use>>
  BY DEF BeginDestroy, Single
<1> QED BY <1>1, IsCancelled

-----------------------------------------------------------------------------
(* The transport's callbacks *)

LEMMA OnConnectedSingle ==
  ASSUME Single, NEW success \in BOOLEAN, OnConnected(success)
  PROVE  OnRunner'
<1> USE DEF At
<1>1. /\ UNCHANGED <<threads, life, generation, answers>>
      /\ Free /\ runner.pc = "free" /\ runner.to = 0
  BY DEF OnConnected, Free, Idle
<1>2. \A st \in {"connected", "closed"} :
        /\ [transport EXCEPT !.st = st].of = transport.of
        /\ [transport EXCEPT !.st = st, !.asked = TRUE].of = transport.of
  BY DEF Single, Base, Typed, RequestTyped, Transport
<1>3. CASE completed \/ state # "connecting"
  <2>1. Ignored /\ transport' = [transport EXCEPT !.st = Outcome(success)]
    BY <1>3 DEF OnConnected
  <2>2. transport'.of = transport.of
    BY <1>2, <2>1 DEF Outcome
  <2> QED BY <1>1, <2>1, <2>2, IsIgnored DEF Ignored
<1>4. CASE ~(completed \/ state # "connecting")
  <2>1. InFlight
    BY <1>1, <1>4 DEF InFlight, Single, OnRunner, OneCall
  <2>2. timers' \subseteq timers \cup {[gen |-> active, of |-> current]}
    BY <1>4 DEF OnConnected
  <2>3. response = Blank
    BY <1>1, <1>4, <2>1 DEF Single, OnRunner, Stages
  <2>4. CASE /\ HandleError /\ transport' = [transport EXCEPT !.st = "closed"]
             /\ UNCHANGED <<state, listener, active, timed, redirects, cancelRequested,
                            current, queue, cancelled>>
    <3>1. (\A timer \in timers : Owned(timer))' /\ state' # "idle"
      BY <1>1, <1>4, <2>1, <2>2, <2>4, Flying DEF Owned, Single, Base, Typed, RequestTyped
    <3> QED BY <1>1, <2>1, <2>4, <3>1, IsFailed
  <2>5. CASE /\ transport' = [transport EXCEPT !.st = "connected", !.asked = TRUE]
             /\ state' = "sending" /\ timed' = TRUE
             /\ UNCHANGED <<completed, response, listener, active, redirects,
                            cancelRequested, current, runner, queue, cancelled>>
    <3>1. (\A timer \in timers : Owned(timer))' /\ state' # "idle"
      BY <1>1, <2>1, <2>2, <2>5, Flying DEF Owned, Single, Base, Typed, RequestTyped
    <3>2. transport'.of = transport.of
      BY <1>2, <2>5
    <3>3. runner'.pc = "free" /\ runner'.to = 0 /\ response' = Blank
          /\ state' # "receiving"
      BY <1>1, <2>3, <2>5
    <3> QED BY <1>1, <2>1, <2>5, <3>1, <3>2, <3>3, GoesOn
  <2>6. CASE /\ transport' = [transport EXCEPT !.st = "connected"]
             /\ state' = "sending" /\ timed' = TRUE /\ HandleError
             /\ UNCHANGED <<listener, active, redirects, cancelRequested, current, queue,
                            cancelled>>
    <3>1. (\A timer \in timers : Owned(timer))' /\ state' # "idle"
      BY <1>1, <2>1, <2>2, <2>6, Flying DEF Owned, Single, Base, Typed, RequestTyped
    <3> QED BY <1>1, <2>1, <2>6, <3>1, IsFailed
  <2>7. CASE CancelledInside("sending")
    <3>1. "sending" \in State \ {"idle"}
      BY DEF State
    <3>2. (\A timer \in timers : timer.gen <= generation)'
      BY <1>1, <2>1, <2>2, Flying DEF Owned, Single, Base, Typed, RequestTyped
    <3> QED BY <1>1, <2>1, <2>7, <3>1, <3>2, IsCancelledInside
  <2> QED BY <1>4, <2>4, <2>5, <2>6, <2>7 DEF OnConnected
<1> QED BY <1>3, <1>4

LEMMA OnDataReceivedSingle ==
  ASSUME Single, NEW kind \in {"part", "open", "full", "redirect", "error"},
         OnDataReceived(kind)
  PROVE  OnRunner'
<1> USE DEF At
<1>1. /\ UNCHANGED <<threads, life, generation, answers>>
      /\ Free /\ runner.pc = "free" /\ runner.to = 0
      /\ transport'.of = transport.of
  BY DEF OnDataReceived, Free, Idle, Single, Base, Typed, RequestTyped, Transport
<1>2. CASE completed \/ state = "idle"
  <2>1. Ignored
    BY <1>2 DEF OnDataReceived
  <2> QED BY <1>1, <2>1, IsIgnored DEF Ignored
<1>3. CASE ~(completed \/ state = "idle")
  <2>1. InFlight
    BY <1>1, <1>3 DEF InFlight, Single, OnRunner, OneCall
  <2>2. /\ state' = "receiving"
        /\ UNCHANGED <<listener, active, timed, redirects, cancelRequested, current, queue,
                       timers, cancelled>>
    BY <1>3 DEF OnDataReceived
  <2>3. (\A timer \in timers : Owned(timer))' /\ transport.of = current
    BY <1>1, <2>1, <2>2, Flying DEF Owned
  <2>4. CASE kind = "error"
    <3>1. HandleError
      BY <1>3, <2>4 DEF OnDataReceived
    <3> QED BY <1>1, <2>1, <2>2, <2>3, <3>1, IsFailed
  <2>5. CASE kind # "error"
    <3>1. /\ response' = [of |-> transport.of, kind |-> kind] /\ UNCHANGED completed
          /\ IF kind \in {"full", "redirect"} THEN Go("complete") ELSE UNCHANGED runner
      BY <1>3, <2>5 DEF OnDataReceived
    <3>2. response'.of = current /\ response'.kind = kind
      BY <2>3, <3>1
    <3>3. CASE kind \in {"full", "redirect"}
      <4>1. runner'.pc = "complete" /\ runner'.to = 0
        BY <1>1, <3>1, <3>3, Stepping DEF Single, Base, Typed
      <4>2. response'.kind # "part"
        BY <3>2, <3>3
      <4> QED BY <1>1, <2>1, <2>2, <2>3, <3>1, <3>2, <4>1, <4>2, GoesOn
    <3>4. CASE kind \in {"part", "open"}
      <4>1. runner'.pc = "free" /\ runner'.to = 0
        BY <1>1, <3>1, <3>4
      <4> QED BY <1>1, <2>1, <2>2, <2>3, <3>1, <3>2, <3>4, <4>1, GoesOn
    <3> QED BY <2>5, <3>3, <3>4
  <2> QED BY <2>4, <2>5
<1> QED BY <1>2, <1>3

LEMMA CancelledByListenerSingle == ASSUME Single, CancelledByListener PROVE OnRunner'
<1> USE DEF At
<1>1. /\ UNCHANGED <<threads, life, generation, timers, answers>> /\ Free /\ runner.pc = "free"
      /\ CancelledInside("receiving") /\ "receiving" \in State \ {"idle"}
      /\ ~completed /\ state # "idle"
  BY DEF CancelledByListener, State, Free, Idle
<1>2. InFlight
  BY <1>1 DEF InFlight, Single, OnRunner, OneCall
<1>3. (\A timer \in timers : timer.gen <= generation)'
  BY <1>1, <1>2, Flying DEF Owned
<1> QED BY <1>1, <1>2, <1>3, IsCancelledInside

LEMMA OnDisconnectedSingle == ASSUME Single, OnDisconnected PROVE OnRunner'
<1> USE DEF At
<1>1. /\ UNCHANGED <<threads, life, outcome, state, completed, listener, generation, active,
                     timed, redirects, cancelRequested, current, queue, timers>>
      /\ Free /\ runner.pc = "free" /\ runner.to = 0
      /\ transport'.of = transport.of
      /\ use.earlyClose \/ response.kind # "part" \/ completed
  BY DEF OnDisconnected, Free, Idle, Single, Base, Typed, RequestTyped, Transport
<1>2. CASE UNCHANGED <<response, runner>>
  BY <1>1, <1>2, IsIgnored
<1>3. CASE ~UNCHANGED <<response, runner>>
  <2>1. /\ ~completed /\ state # "idle" /\ (response.kind = "open" \/ state = "receiving")
        /\ Go("complete")
        /\ response' = IF response.kind = "open" THEN [response EXCEPT !.kind = "full"]
                                                 ELSE response
    BY <1>3 DEF OnDisconnected
  <2>2. InFlight
    BY <1>1, <2>1 DEF InFlight, Single, OnRunner, OneCall
  <2>3. response.of = current
    BY <1>1, <2>1, <2>2 DEF Single, OnRunner, Stages, Blank
  <2>4. response'.of = current /\ (use.earlyClose \/ response'.kind # "part")
    BY <1>1, <2>1, <2>3 DEF Single, Base, Typed, RequestTyped, Response
  <2>5. runner'.pc = "complete" /\ runner'.to = 0
    BY <1>1, <2>1, Stepping DEF Single, Base, Typed
  <2>6. (\A timer \in timers : Owned(timer))' /\ state' # "idle"
    BY <1>1, <2>1, <2>2, Flying DEF Owned
  <2> QED BY <1>1, <2>2, <2>4, <2>5, <2>6, GoesOn
<1> QED BY <1>2, <1>3

-----------------------------------------------------------------------------
(* Every step preserves the invariants *)

IInv == Base /\ (use.onRunner => OnRunner)

LEMMA InitInv == Init => IInv
<1> SUFFICES ASSUME Init PROVE Base /\ OnRunner
  BY DEF IInv
<1>1. Base
  BY InitBase
<1>2. /\ \A t \in Threads : pc[t] = "out"
      /\ runner.pc = "free" /\ runner.to = 0 /\ Len(queue) = 0 /\ timers = {} /\ begun = 0
      /\ ~completed /\ ~cancelRequested /\ state = "idle" /\ current = 0 /\ cancelled = {}
      /\ \A r \in Requests : ~isSync[r] /\ answers[r] = <<>>
  BY DEF Init, Idle
<1>3. OneCall /\ Stages /\ OwnTimer /\ Closing
  BY <1>2 DEF OneCall, Calling, At, Stages, OwnTimer, Closing, InFlight
<1>4. Answering
  BY <1>2 DEF Answering, Unheard, OneAnswer, Unanswered, Told, PostedOnce, Fresh, Posted,
              InFlight, Requests
<1> QED BY <1>1, <1>3, <1>4 DEF OnRunner

LEMMA CallerBase == ASSUME Base, NEW t \in Threads, Caller(t) PROVE Base'
BY ResetBase, NextGenerationBase, ConnectBase, StartFailsBase, ReportFailureBase, WaitEndsBase,
   SendReturnsBase, WaitTimesOutBase, WaitCallbacksBase DEF Caller

LEMMA NextBase == ASSUME Base, Next PROVE Base'
<1>1. CASE \E t \in use.callers :
             \/ \E sync \in BOOLEAN : Begin(t, sync)
             \/ Caller(t) \/ Cancel(t) \/ BeginDestroy(t)
  <2>1. use.callers \subseteq Threads
    BY UseFacts DEF Base, Typed
  <2> QED BY <1>1, <2>1, BeginBase, CallerBase, CancelBase, BeginDestroyBase
<1>2. CASE Runs
  BY <1>2, RunCancelBase, CloseDeferredBase, NotifyBase, CompleteRequestBase,
     HandleRedirectBase, BecomeIdleBase, NotifyDoneBase DEF Runs
<1>3. CASE Network
  BY <1>3, OnConnectedBase, OnDataReceivedBase, CancelledByListenerBase, OnDisconnectedBase
  DEF Network
<1>4. CASE \E timer \in timers : Expire(timer)
  BY <1>4, ExpireBase
<1> QED BY <1>1, <1>2, <1>3, <1>4 DEF Next

\* Only a caller on another thread waits in Send, posts its Cancel, or waits for one.
LEMMA CallerSingle == ASSUME Single, NEW t \in Threads, Caller(t) PROVE OnRunner'
<1>1. pc[t] \notin {"wait", "read", "dying"}
  BY DEF Single, OnRunner, OneCall
<1>2. Reset(t) \/ NextGeneration(t) \/ Connect(t) \/ StartFails(t) \/ ReportFailure(t)
  BY <1>1 DEF Caller, WaitEnds, SendReturns, WaitTimesOut, WaitCallbacks
<1> QED BY <1>2, ResetSingle, NextGenerationSingle, ConnectSingle, StartFailsSingle,
           ReportFailureSingle

LEMMA NextSingle == ASSUME Single, Next PROVE OnRunner'
<1>1. CASE \E t \in use.callers :
             \/ \E sync \in BOOLEAN : Begin(t, sync)
             \/ Caller(t) \/ Cancel(t) \/ BeginDestroy(t)
  <2>1. use.callers \subseteq Threads
    BY UseFacts DEF Single, Base, Typed
  <2> QED BY <1>1, <2>1, BeginSingle, CallerSingle, CancelSingle, BeginDestroySingle
<1>2. CASE Runs
  <2>1. ~RunCancel
    <3>1. queue # <<>> => Head(queue) = queue[1] /\ 1 \in 1..Len(queue)
      BY Shifted DEF Single, Base, Typed, WorkTyped
    <3> QED BY <3>1 DEF RunCancel, Single, OnRunner, OneCall
  <2> QED BY <1>2, <2>1, CloseDeferredSingle, NotifySingle, CompleteRequestSingle,
             HandleRedirectSingle, BecomeIdleSingle, NotifyDoneSingle DEF Runs
<1>3. CASE Network
  BY <1>3, OnConnectedSingle, OnDataReceivedSingle, CancelledByListenerSingle,
     OnDisconnectedSingle DEF Network
<1>4. CASE \E timer \in timers : Expire(timer)
  BY <1>4, ExpireSingle
<1> QED BY <1>1, <1>2, <1>3, <1>4 DEF Next

\* The application does not change.
LEMMA SameUse == ASSUME Next PROVE use' = use
BY DEF Next, Caller, Runs, Network, Begin, Reset, NextGeneration, Connect, StartFails,
       ReportFailure, WaitEnds, SendReturns, WaitTimesOut, WaitCallbacks, Cancel, BeginDestroy,
       RunCancel, CloseDeferred, Notify, CompleteRequest, HandleRedirect, BecomeIdle,
       NotifyDone, Expire, OnConnected, OnDataReceived, CancelledByListener, OnDisconnected

THEOREM Invariance == Spec => []IInv
<1>1. IInv /\ [Next]_vars => IInv'
  <2> SUFFICES ASSUME IInv, [Next]_vars PROVE IInv'
    OBVIOUS
  <2>1. CASE Next
    BY <2>1, NextBase, NextSingle, SameUse DEF IInv, Single
  <2>2. CASE UNCHANGED vars
    <3>1. Base'
      BY <2>2
      DEF IInv, vars, Base, Typed, RequestTyped, WorkTyped, ThreadsTyped, LifeTyped,
          OutcomeTyped, Locking, Counting, Unstarted, Ending, NotUsedDestroyed, Free
    <3>2. OnRunner => OnRunner'
      BY <2>2
      DEF vars, OnRunner, OneCall, Calling, At, Stages, InFlight, OwnTimer, Closing, Answering,
          Unheard, OneAnswer, Unanswered, Told, PostedOnce, Fresh, Posted, Fits
    <3> QED BY <2>2, <3>1, <3>2 DEF IInv, vars
  <2> QED BY <2>1, <2>2
<1> QED BY <1>1, InitInv, PTL DEF Spec

\* One answer for a request, and one owner of the client, who finds it free in the end.
THEOREM OneAnswerEach == Spec => []Exclusive
<1>1. IInv => Exclusive
  <2> SUFFICES ASSUME IInv PROVE Exclusive
    OBVIOUS
  <2>1. TypeOK /\ NotUsedDestroyed
    BY BaseTypeOK DEF IInv, Base
  <2>2. AnsweredOnce
    <3> SUFFICES ASSUME use.onRunner, NEW r \in Requests PROVE Len(answers[r]) <= 1
      BY DEF AnsweredOnce
    <3>1. answers[r] = <<>> \/ Len(answers[r]) = 1
      BY DEF IInv, OnRunner, Answering, OneAnswer
    <3>2. answers[r] \in Seq(Response)
      BY DEF IInv, Base, Typed, OutcomeTyped
    <3>3. CASE answers[r] = <<>>
      <4>1. Len(answers[r]) = 0
        BY <3>3
      <4> QED BY <4>1
    <3>4. CASE Len(answers[r]) = 1
      BY <3>4
    <3> QED BY <3>1, <3>3, <3>4
  <2>3. NotStuck
    BY DEF IInv, OnRunner, Closing, NotStuck, TakesAnother, Quiet, Free, Idle, At
  <2> QED BY <2>1, <2>2, <2>3 DEF Exclusive
<1> QED BY <1>1, Invariance, PTL

\* Used on its task runner, a client answers each request with its own answer, whole
\* unless the server closes the connection early, and none that was cancelled.
THEOREM AnswersAreOwn == Spec => []OwnAnswer
<1>1. IInv => OwnAnswer
  <2> SUFFICES ASSUME IInv, use.onRunner PROVE NotTruncated /\ CancelSilences /\ AnswersOwn
    BY DEF OwnAnswer
  <2> USE DEF IInv, OnRunner, Answering
  <2>1. \A r \in Requests : \A i \in DOMAIN answers[r] : Fits(answers[r][i], r)
    <3> SUFFICES ASSUME NEW r \in Requests, NEW i \in DOMAIN answers[r]
                 PROVE  Fits(answers[r][i], r)
      OBVIOUS
    <3>1. answers[r] \in Seq(Response) /\ i \in 1..Len(answers[r])
      BY DEF Base, Typed, OutcomeTyped
    <3>2. answers[r] # <<>>
      BY <3>1
    <3>3. Len(answers[r]) = 1 /\ Fits(answers[r][1], r)
      BY <3>2 DEF OneAnswer
    <3> QED BY <3>1, <3>3
  <2>2. NotTruncated /\ AnswersOwn
    BY <2>1 DEF Fits, NotTruncated, WholeBodies, AnswersOwn
  <2>3. CancelSilences
    <3>1. cancelled \subseteq Requests
      BY HttpClientAssumption DEF Base, Typed, OutcomeTyped, ThreadsTyped, Requests
    <3> QED BY <3>1 DEF CancelSilences, Unheard, Fresh
  <2> QED BY <2>2, <2>3
<1> QED BY <1>1, Invariance, PTL
=============================================================================
