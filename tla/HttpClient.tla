------------------------------ MODULE HttpClient ------------------------------
(***************************************************************************)
(* HttpClient: one request in flight, started by SendAsync on the caller's *)
(* thread, carried on by the transport's callbacks on the task runner, and *)
(* ended by a response, an error, the request's timer, Cancel or the       *)
(* destructor. Send is SendAsync followed by a wait.                       *)
(*                                                                         *)
(* The callbacks return at once unless a request is in flight, and a       *)
(* request in flight keeps SendAsync out: a callback is therefore one step *)
(* up to completed.store(true), and what follows that store is in steps of *)
(* its own. SendAsync is in steps from its compare_exchange on.            *)
(***************************************************************************)
EXTENDS Naturals, FiniteSets, Sequences, SequencesExt

CONSTANTS
  Threads,     \* the threads that call the client
  Uses,        \* how applications use it, see Use
  MaxRedirects, \* max_redirects_
  NoThread,
  MaxRequests  \* bound: calls of Send and SendAsync

\* Who calls the client; whether that is on the task runner's own thread;
\* follow_redirects_; whether the server closes in the middle of a response; and
\* how many requests are made.
Use == [callers : SUBSET Threads, onRunner : BOOLEAN, follow : BOOLEAN,
        earlyClose : BOOLEAN, requests : 0..MaxRequests]

ASSUME HttpClientAssumption ==
  /\ Uses \subseteq Use /\ NoThread \notin Threads
  /\ MaxRedirects \in Nat /\ MaxRequests \in Nat \ {0}

VARIABLES
  state, completed, response, listener, \* state_ and, in current_, completed, response; listener_
  generation, active,                   \* request_generation_, active_request_generation_
  timed, redirects,                     \* current_.timeout_scheduled, current_.redirect_count
  cancelRequested,                      \* current_.cancel_requested
  transport,                            \* transport_: the last of a sequence of connections
  lock,                                 \* request_mutex_
  runner, queue, timers,                \* the runner: the task it runs, tasks, delayed tasks
  pc, mine, isSync,                     \* the threads: step, request, whether in Send
  alive, destroyed,                     \* LifetimeToken::alive; the destructor has returned
  use,                                  \* the application, one of Uses
  begun, current, answers, cancelled    \* ghosts: requests begun, the one in current_,
                                        \* the answers each got, those Cancel ended

request == <<completed, response, listener, timed, redirects, cancelRequested, current>>
client == <<request, state, generation, active, transport>>
work == <<runner, queue, timers>>
calls == <<mine, isSync, begun>>
threads == <<lock, pc, calls>>
life == <<alive, destroyed, use>>
outcome == <<answers, cancelled>>
vars == <<client, work, threads, life, outcome>>

Requests == 1..MaxRequests
State == {"idle", "connecting", "sending", "receiving"}
\* What current_.response holds: nothing, the beginning of a body of known length
\* ("part") or of one that ends with the connection ("open"), a complete response,
\* a redirect, or an error; and whose it is.
Response == [of : Requests \cup {0},
             kind : {"blank", "part", "open", "full", "redirect", "error", "busy"}]
Blank == [of |-> 0, kind |-> "blank"]
Error(r) == [of |-> r, kind |-> "error"]
Busy(r) == [of |-> r, kind |-> "busy"]
Transport == [of : Requests, st : {"connecting", "connected", "closed"},
              asked : BOOLEAN, done : BOOLEAN]
Task == [kind : {"cancel"}, by : Threads] \cup [kind : {"close"}, gen : Nat]
        \cup [kind : {"notify"}, to : Requests, what : Response]

\* The runner's step; whether LifetimeToken counts it; whom it will notify of what.
Runner == [pc : {"free", "user", "complete", "redirect", "stored", "done"},
           guard : BOOLEAN, to : Requests \cup {0}, what : Response]
Idle == [pc |-> "free", guard |-> FALSE, to |-> 0, what |-> Blank]
UserRuns == [Idle EXCEPT !.pc = "user"]
Free == runner = Idle
At(p) == runner.pc = p
Go(p) == runner' = [runner EXCEPT !.pc = p]

Answer(r, what) == answers' = [answers EXCEPT ![r] = Append(@, what)]
Step(t, p) == pc' = [pc EXCEPT ![t] = p]

-----------------------------------------------------------------------------
(* Send and SendAsync, on the caller's thread *)

EnterUser == IF use.onRunner THEN Free /\ runner' = UserRuns ELSE UNCHANGED runner
LeaveUser == IF use.onRunner THEN runner' = Idle ELSE UNCHANGED runner

\* The compare_exchange of SendAsync: it refuses while the state is not idle.
Begin(t, sync) ==
  /\ alive /\ pc[t] = "out" /\ lock = NoThread /\ begun < use.requests /\ ~(sync /\ use.onRunner)
  /\ begun' = begun + 1
  /\ mine' = [mine EXCEPT ![t] = begun'] /\ isSync' = [isSync EXCEPT ![begun'] = sync]
  /\ \/ /\ state = "idle" /\ EnterUser
        /\ state' = "connecting" /\ lock' = t
        /\ listener' = IF sync THEN 0 ELSE begun'
        /\ Step(t, "reset") /\ UNCHANGED answers
     \/ /\ state # "idle" /\ (use.onRunner => Free) /\ Answer(begun', Busy(begun'))
        /\ UNCHANGED <<state, listener, lock, runner, pc>>
  /\ UNCHANGED <<life, completed, response, generation, active, timed, redirects,
                 cancelRequested, current, transport, queue, timers, cancelled>>

\* current_.Reset()
Reset(t) ==
  /\ pc[t] = "reset" /\ Step(t, "generation")
  /\ completed' = FALSE /\ response' = Blank /\ timed' = FALSE /\ redirects' = 0
  /\ cancelRequested' = FALSE /\ current' = mine[t]
  /\ UNCHANGED <<work, calls, life, outcome, state, listener, generation, active, transport,
                 lock>>

NextGeneration(t) ==
  /\ pc[t] = "generation" /\ Step(t, "connect")
  /\ generation' = generation + 1 /\ active' = generation + 1
  /\ UNCHANGED <<request, work, calls, life, outcome, state, transport, lock>>

ConnectToHost(r) ==
  /\ state' = "connecting"
  /\ transport' = [of |-> r, st |-> "connecting", asked |-> FALSE, done |-> FALSE]

Connect(t) ==
  /\ pc[t] = "connect" /\ lock' = NoThread
  /\ ConnectToHost(mine[t]) /\ LeaveUser
  /\ Step(t, IF isSync[mine[t]] THEN "wait" ELSE "out")
  /\ UNCHANGED <<request, calls, life, outcome, generation, active, queue, timers>>

\* The URL or a file of the request is bad: no connection is made, ...
StartFails(t) ==
  /\ pc[t] = "connect" /\ lock' = NoThread /\ Step(t, "failed")
  /\ UNCHANGED <<client, work, calls, life, outcome>>
\* ... the request is completed with an error, and whoever is the listener told at once.
Returned(t, what) ==
  IF isSync[mine[t]] THEN [answers EXCEPT ![mine[t]] = Append(@, what)] ELSE answers
ReportFailure(t) ==
  /\ pc[t] = "failed" /\ lock = NoThread /\ Step(t, "out") /\ LeaveUser
  /\ IF completed
       THEN /\ UNCHANGED <<state, completed, response>>
            /\ answers' = Returned(t, response)
       ELSE /\ state' = "idle" /\ completed' = TRUE /\ response' = Error(mine[t])
            /\ answers' = LET told == Returned(t, Error(mine[t]))
                          IN IF listener = 0 THEN told
                             ELSE [told EXCEPT ![listener] = Append(@, Error(mine[t]))]
  /\ UNCHANGED <<calls, life, listener, generation, active, timed, redirects, cancelRequested,
                 current, transport, lock, queue, timers, cancelled>>

\* Send's wait_for ends with the request completed, and Send returns what
\* current_.response holds when it comes to read it.
WaitEnds(t) ==
  /\ pc[t] = "wait" /\ completed /\ Step(t, "read")
  /\ UNCHANGED <<client, work, calls, life, outcome, lock>>
SendReturns(t) ==
  /\ pc[t] = "read" /\ Step(t, "out") /\ Answer(mine[t], response)
  /\ UNCHANGED <<client, work, calls, life, lock, cancelled>>

PostCancel(t, p) == queue' = Append(queue, [kind |-> "cancel", by |-> t]) /\ Step(t, p)

\* Send's wait_for ends because the time is over.
WaitTimesOut(t) ==
  /\ pc[t] = "wait" /\ ~completed /\ PostCancel(t, "late")
  /\ UNCHANGED <<client, calls, life, outcome, lock, runner, timers>>

-----------------------------------------------------------------------------
(* Cancel and the destructor *)

\* CancelOnRunner does nothing when no request is in flight. Inside a callback,
\* which leaves the state "now", the idle state and the close are for a later task.
CancelOnRunner(now) ==
  /\ lock = NoThread
  /\ IF completed \/ state = "idle"
       THEN UNCHANGED <<request, state, active, transport, cancelled>>
       ELSE /\ active' = active + 1 /\ completed' = TRUE /\ response' = Error(current)
            /\ cancelRequested' = TRUE /\ listener' = 0 /\ state' = now
            /\ transport' = IF now = "idle" THEN [transport EXCEPT !.st = "closed"] ELSE transport
            /\ cancelled' = cancelled \cup {current}
            /\ UNCHANGED <<timed, redirects, current>>

\* On another thread Cancel posts itself and waits for the task.
Cancel(t) ==
  /\ alive /\ pc[t] = "out" /\ begun > 0
  /\ IF use.onRunner
       THEN Free /\ CancelOnRunner("idle") /\ UNCHANGED <<queue, pc>>
       ELSE PostCancel(t, "cancel") /\ UNCHANGED <<request, state, active, transport,
                                                   cancelled>>
  /\ UNCHANGED <<calls, life, generation, lock, runner, timers, answers>>

\* The destructor: no guarded callback starts any more, the running one is waited
\* for, and Cancel's round trip ends whatever else the runner does for the client.
\* The owner calls it when no other thread is inside a call.
OthersOut(t) == \A u \in use.callers \ {t} : pc[u] = "out"
BeginDestroy(t) ==
  /\ alive /\ pc[t] = "out" /\ OthersOut(t) /\ begun > 0
  /\ alive' = FALSE
  /\ IF use.onRunner
       THEN Free /\ CancelOnRunner("idle") /\ destroyed' = TRUE /\ UNCHANGED pc
       ELSE /\ Step(t, "dying")
            /\ UNCHANGED <<request, state, active, transport, destroyed, cancelled>>
  /\ UNCHANGED <<work, calls, generation, lock, answers, use>>
WaitCallbacks_NoCancel(t) ==
  /\ pc[t] = "dying" /\ ~runner.guard
  /\ Step(t, "out") /\ destroyed' = TRUE
  /\ UNCHANGED <<client, work, calls, outcome, lock, alive, use>>
WaitCallbacks(t) ==
  /\ pc[t] = "dying" /\ ~runner.guard /\ PostCancel(t, "dead")
  /\ UNCHANGED <<client, calls, life, outcome, lock, runner, timers>>

\* The runner runs a posted Cancel, and the thread that waits for it goes on.
RunCancel ==
  /\ Free /\ queue # <<>> /\ Head(queue).kind = "cancel"
  /\ queue' = Tail(queue) /\ CancelOnRunner("idle")
  /\ LET t == Head(queue).by
     IN /\ Step(t, "out")
        /\ destroyed' = (pc[t] = "dead")
        /\ IF pc[t] = "late" THEN Answer(mine[t], Error(mine[t])) ELSE UNCHANGED answers
  /\ UNCHANGED <<calls, generation, lock, runner, timers, alive, use>>

\* The rest of a Cancel made inside a callback.
CloseDeferred ==
  /\ Free /\ queue # <<>> /\ Head(queue).kind = "close" /\ queue' = Tail(queue)
  /\ lock = NoThread
  /\ IF alive /\ active = Head(queue).gen /\ cancelRequested
       THEN /\ transport' = [transport EXCEPT !.st = "closed"]
            /\ cancelRequested' = FALSE /\ state' = "idle"
       ELSE UNCHANGED <<state, cancelRequested, transport>>
  /\ UNCHANGED <<threads, life, outcome, completed, response, listener, generation, active,
                 timed, redirects, current, runner, timers>>

-----------------------------------------------------------------------------
(* The runner: the end of a request *)

\* The common end of CompleteRequest and HandleError, up to completed.store(true).
Store(what, guarded) ==
  /\ completed' = TRUE /\ response' = what
  /\ runner' = [pc |-> "stored", guard |-> guarded, to |-> listener, what |-> what]

HandleError == Store(Error(current), FALSE)

CompleteRequest ==
  /\ At("complete")
  /\ CASE response.kind = "redirect" -> Go("redirect") /\ UNCHANGED <<completed, response>>
       [] response.kind # "redirect" /\ completed ->
            runner' = Idle /\ UNCHANGED <<completed, response>>
       [] OTHER -> Store(response, FALSE)
  /\ UNCHANGED <<threads, life, outcome, state, listener, generation, active, timed, redirects,
                 cancelRequested, current, transport, queue, timers>>

\* The listener, called in the middle of a callback, calls Cancel.
CancelledInside(now) ==
  /\ listener # 0 /\ CancelOnRunner(now)
  /\ queue' = Append(queue, [kind |-> "close", gen |-> active'])
  /\ runner' = Idle

HandleRedirect ==
  /\ At("redirect")
  /\ \/ /\ ~use.follow /\ Go("complete")
        /\ UNCHANGED <<request, state, active, transport, queue, cancelled>>
     \/ /\ use.follow /\ HandleError \* too many redirects, no location or a bad one
        /\ UNCHANGED <<state, listener, active, timed, redirects, cancelRequested, current,
                       transport, queue, cancelled>>
     \/ use.follow /\ redirects < MaxRedirects /\ CancelledInside(state)
     \/ /\ use.follow /\ redirects < MaxRedirects
        /\ redirects' = redirects + 1 /\ response' = Blank /\ runner' = Idle
        /\ ConnectToHost(current)
        /\ UNCHANGED <<completed, listener, active, timed, cancelRequested, current, queue,
                       cancelled>>
  /\ UNCHANGED <<threads, life, generation, timers, answers>>

BecomeIdle ==
  /\ At("stored") /\ Go("done") /\ state' = "idle"
  /\ UNCHANGED <<request, threads, life, outcome, generation, active, transport, queue, timers>>

NotifyDone ==
  /\ At("done") /\ runner' = Idle
  /\ queue' = IF runner.to = 0 THEN queue
              ELSE Append(queue, [kind |-> "notify", to |-> runner.to, what |-> runner.what])
  /\ UNCHANGED <<client, threads, life, outcome, timers>>

Notify ==
  /\ Free /\ queue # <<>> /\ Head(queue).kind = "notify" /\ queue' = Tail(queue)
  /\ IF alive THEN Answer(Head(queue).to, Head(queue).what) ELSE UNCHANGED answers
  /\ UNCHANGED <<client, threads, life, runner, timers, cancelled>>

Expire_AnyGeneration(timer) ==
  /\ Free /\ timer \in timers /\ timers' = timers \ {timer}
  /\ IF alive /\ state # "idle" /\ ~completed
       THEN Store(Error(timer.of), TRUE)
       ELSE UNCHANGED <<completed, response, runner>>
  /\ UNCHANGED <<threads, life, outcome, state, listener, generation, active, timed, redirects,
                 cancelRequested, current, transport, queue>>
\* The timer of the request of generation timer.gen.
Expire(timer) ==
  /\ Free /\ timer \in timers /\ timers' = timers \ {timer}
  /\ IF alive /\ active = timer.gen /\ state # "idle" /\ ~completed
       THEN Store(Error(timer.of), TRUE)
       ELSE UNCHANGED <<completed, response, runner>>
  /\ UNCHANGED <<threads, life, outcome, state, listener, generation, active, timed, redirects,
                 cancelRequested, current, transport, queue>>

-----------------------------------------------------------------------------
(* The runner: the transport's callbacks *)

Ignored == UNCHANGED <<request, work, state, active, cancelled>>

Outcome(success) == IF success THEN "connected" ELSE "closed"

OnConnected_NoTimer(success) ==
  /\ Free /\ transport.st = "connecting"
  /\ IF completed \/ state # "connecting"
       THEN Ignored /\ transport' = [transport EXCEPT !.st = Outcome(success)]
       ELSE IF ~success
       THEN /\ HandleError /\ transport' = [transport EXCEPT !.st = "closed"]
            /\ UNCHANGED <<state, listener, active, timed, redirects, cancelRequested, current,
                           queue, timers, cancelled>>
       ELSE /\ UNCHANGED timers
            /\ \/ /\ transport' = [transport EXCEPT !.st = "connected", !.asked = TRUE]
                  /\ state' = "sending" /\ timed' = TRUE
                  /\ UNCHANGED <<completed, response, listener, active, redirects,
                                 cancelRequested, current, runner, queue, cancelled>>
               \/ \* the request is not sent
                  /\ transport' = [transport EXCEPT !.st = "connected"]
                  /\ state' = "sending" /\ timed' = TRUE /\ HandleError
                  /\ UNCHANGED <<listener, active, redirects, cancelRequested, current, queue,
                                 cancelled>>
               \/ CancelledInside("sending")
  /\ UNCHANGED <<threads, life, generation, answers>>
\* The request's timer starts with its first connection; then the request is sent, and
\* during an upload the listener may cancel it.
OnConnected(success) ==
  /\ Free /\ transport.st = "connecting"
  /\ IF completed \/ state # "connecting"
       THEN Ignored /\ transport' = [transport EXCEPT !.st = Outcome(success)]
       ELSE IF ~success
       THEN /\ HandleError /\ transport' = [transport EXCEPT !.st = "closed"]
            /\ UNCHANGED <<state, listener, active, timed, redirects, cancelRequested, current,
                           queue, timers, cancelled>>
       ELSE /\ timers' = IF timed THEN timers ELSE timers \cup {[gen |-> active, of |-> current]}
            /\ \/ /\ transport' = [transport EXCEPT !.st = "connected", !.asked = TRUE]
                  /\ state' = "sending" /\ timed' = TRUE
                  /\ UNCHANGED <<completed, response, listener, active, redirects,
                                 cancelRequested, current, runner, queue, cancelled>>
               \/ \* the request is not sent
                  /\ transport' = [transport EXCEPT !.st = "connected"]
                  /\ state' = "sending" /\ timed' = TRUE /\ HandleError
                  /\ UNCHANGED <<listener, active, redirects, cancelRequested, current, queue,
                                 cancelled>>
               \/ CancelledInside("sending")
  /\ UNCHANGED <<threads, life, generation, answers>>

\* Bytes of the response to transport.of, up to the end of it or not.
OnDataReceived(kind) ==
  /\ Free /\ transport.st = "connected" /\ transport.asked /\ ~transport.done
  /\ response = [of |-> transport.of, kind |-> "open"] => kind = "open"
  /\ transport' = [transport EXCEPT !.done = kind \in {"full", "redirect"}]
  /\ IF completed \/ state = "idle"
       THEN Ignored
       ELSE /\ state' = "receiving"
            /\ IF kind = "error"
                 THEN HandleError
                 ELSE /\ response' = [of |-> transport.of, kind |-> kind]
                      /\ IF kind \in {"full", "redirect"} THEN Go("complete")
                                                          ELSE UNCHANGED runner
                      /\ UNCHANGED completed
            /\ UNCHANGED <<listener, active, timed, redirects, cancelRequested, current, queue,
                           timers, cancelled>>
  /\ UNCHANGED <<threads, life, generation, answers>>

\* OnProgress and OnBodyData are called with a part of the body.
CancelledByListener ==
  /\ Free /\ transport.st = "connected" /\ transport.asked /\ ~transport.done
  /\ ~completed /\ state # "idle"
  /\ CancelledInside("receiving")
  /\ UNCHANGED <<threads, life, generation, timers, answers>>

\* The connection ends: a response that ends with it is complete, and so is what
\* has come of any other.
OnDisconnected ==
  /\ Free /\ transport.st = "connected" /\ (use.earlyClose \/ response.kind # "part" \/ completed)
  /\ transport' = [transport EXCEPT !.st = "closed"]
  /\ IF completed \/ state = "idle" \/ (response.kind # "open" /\ state # "receiving")
       THEN UNCHANGED <<response, runner>>
       ELSE /\ Go("complete")
            /\ response' = IF response.kind = "open" THEN [response EXCEPT !.kind = "full"]
                                                     ELSE response
  /\ UNCHANGED <<threads, life, outcome, state, completed, listener, generation, active, timed,
                 redirects, cancelRequested, current, queue, timers>>

-----------------------------------------------------------------------------

Init ==
  /\ state = "idle" /\ completed = FALSE /\ response = Blank /\ listener = 0
  /\ generation = 0 /\ active = 0 /\ timed = FALSE /\ redirects = 0 /\ cancelRequested = FALSE
  /\ transport = [of |-> 1, st |-> "closed", asked |-> FALSE, done |-> FALSE]
  /\ lock = NoThread /\ runner = Idle /\ queue = <<>> /\ timers = {}
  /\ pc = [t \in Threads |-> "out"] /\ mine = [t \in Threads |-> 0]
  /\ isSync = [r \in Requests |-> FALSE]
  /\ alive = TRUE /\ destroyed = FALSE /\ use \in Uses
  /\ begun = 0 /\ current = 0 /\ answers = [r \in Requests |-> <<>>] /\ cancelled = {}

Caller(t) ==
  \/ Reset(t) \/ NextGeneration(t) \/ Connect(t) \/ StartFails(t) \/ ReportFailure(t)
  \/ WaitEnds(t) \/ SendReturns(t) \/ WaitTimesOut(t) \/ WaitCallbacks(t)
Runs ==
  \/ RunCancel \/ CloseDeferred \/ Notify
  \/ CompleteRequest \/ HandleRedirect \/ BecomeIdle \/ NotifyDone
Network ==
  /\ ~destroyed
  /\ \/ \E success \in BOOLEAN : OnConnected(success)
     \/ \E kind \in {"part", "open", "full", "redirect", "error"} : OnDataReceived(kind)
     \/ CancelledByListener \/ OnDisconnected

Next ==
  \/ \E t \in use.callers : \/ \E sync \in BOOLEAN : Begin(t, sync)
                        \/ Caller(t) \/ Cancel(t) \/ BeginDestroy(t)
  \/ Runs \/ Network \/ \E timer \in timers : Expire(timer)

Spec == Init /\ [][Next]_vars

\* Threads run, the runner runs its tasks, delayed ones included, and the system
\* reports the outcome of connect().
FairSpec ==
  /\ Spec /\ WF_vars(Runs) /\ WF_vars(\E timer \in timers : Expire(timer))
  /\ WF_vars(~destroyed /\ \E success \in BOOLEAN : OnConnected(success))
  /\ \A t \in Threads : WF_vars(Caller(t))
-----------------------------------------------------------------------------
(* Properties *)

TypeOK ==
  /\ state \in State /\ completed \in BOOLEAN /\ response \in Response
  /\ listener \in 0..begun /\ current \in 0..begun /\ begun \in 0..MaxRequests
  /\ generation \in Nat /\ active \in Nat /\ timed \in BOOLEAN
  /\ redirects \in 0..MaxRedirects /\ cancelRequested \in BOOLEAN
  /\ transport \in Transport /\ lock \in Threads \cup {NoThread} /\ runner \in Runner
  /\ queue \in Seq(Task) /\ timers \subseteq [gen : Nat, of : Requests]
  /\ pc \in [Threads -> {"out", "reset", "generation", "connect", "failed", "wait", "read",
                         "late", "cancel", "dying", "dead"}]
  /\ mine \in [Threads -> 0..begun] /\ isSync \in [Requests -> BOOLEAN]
  /\ {alive, destroyed} \subseteq BOOLEAN /\ (destroyed => ~alive) /\ use \in Uses
  /\ answers \in [Requests -> Seq(Response)] /\ cancelled \subseteq 1..begun
  /\ (generation <= active /\ active <= 2 * MaxRequests)

\* "A single HttpClient is single-flight": what Send returns for a request, or its
\* listener gets, is the answer to that request, whatever timers and late bytes of
\* earlier ones are still to come.
AnswersOwn ==
  \A r \in Requests : \A i \in DOMAIN answers[r] : answers[r][i].of = r

\* A request has one answer: one of OnHttpResponse and OnHttpError, once.
AnsweredOnce == use.onRunner => \A r \in Requests : Len(answers[r]) <= 1

\* After Cancel the listener of the request hears no more of it.
CancelSilences ==
  \A r \in cancelled : ~isSync[r] => answers[r] = <<>>

\* When the last request is completed and nothing is under way, the client takes
\* another.
Quiet == Free /\ queue = <<>> /\ lock = NoThread /\ \A t \in Threads : pc[t] = "out"
TakesAnother == (Quiet /\ completed /\ alive) => state = "idle"
\* It is so for calls made on the task runner's thread.
NotStuck == use.onRunner => TakesAnother

\* "Complete the response if we have enough data": no answer is a part of a body.
WholeBodies ==
  \A r \in Requests : \A i \in DOMAIN answers[r] : answers[r][i].kind # "part"
\* It is so if the server closes the connection only between responses.
NotTruncated == ~use.earlyClose => WholeBodies

\* Called on the task runner's thread, the client gives each request its own answer,
\* whole, and none once it is cancelled. Called from other threads it does not: what
\* is left of a request may run between the steps of the next SendAsync.
OwnAnswer == use.onRunner => NotTruncated /\ CancelSilences /\ AnswersOwn

\* Send() callers may destroy the client as soon as they have the response: the
\* destructor outlasts whatever the runner still does with it.
NotUsedDestroyed == destroyed => Free

\* Every request gets an answer, unless it is cancelled or the client destroyed, with
\* follow_redirects_ on.
Awaits(r) == begun >= r /\ use.onRunner /\ use.follow
Settled(r) == answers[r] # <<>> \/ r \in cancelled \/ ~alive
Answered == \A r \in Requests : Awaits(r) ~> Settled(r)

\* One answer for a request, and one owner of the client, who finds it free in the end.
Exclusive == TypeOK /\ AnsweredOnce /\ NotUsedDestroyed /\ NotStuck
=============================================================================
