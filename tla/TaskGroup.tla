----------------------------- MODULE TaskGroup ------------------------------
(***************************************************************************)
(* TaskGroup: worker threads popping one ThreadSafe queue, tasks posted by *)
(* any thread (the running tasks included), delayed tasks parked on the    *)
(* main runner, and one owner that stops the group and joins the workers.  *)
(* ThreadSafe changes data_ and quit_ and notifies all under its mutex, so *)
(* a PopWait is one action, enabled when its predicate is true. Time is    *)
(* left out: a delayed task fires, and StopWaitAll times out, at any time. *)
(***************************************************************************)
EXTENDS Naturals, Sequences, FiniteSets

CONSTANTS
  Workers,  \* threads_
  Clients,  \* other threads that post tasks
  Tasks     \* the tasks, each posted at most once

ASSUME GroupAssumption ==
  /\ Workers # {} /\ IsFiniteSet(Workers)
  /\ Workers \cap Clients = {}

VARIABLES
  quit,     \* TaskGroup::quit_
  popQuit,  \* ThreadSafe::quit_
  queue,    \* ThreadSafe::data_
  pending,  \* pending_tasks_
  worker,   \* program counter of runLoop
  job,      \* job[w]: the task w has popped, as a set
  delayed,  \* tasks waiting on main_runner_
  owner,    \* program counter of Stop and StopWaitAll
  future,   \* future[c]: the task whose future RunUntilCompleted waits for
  accepted, refused, started, finished, \* history: what became of each task
  drain     \* history: tasks accepted when StopWaitAll was called

queueVars   == <<quit, popQuit, queue, pending>>
historyVars == <<accepted, refused, started, finished>>
vars == <<queueVars, worker, job, delayed, owner, future, historyVars, drain>>

WorkerPc == {"check", "wait", "run", "ran", "exited"}
OwnerPc  == {"idle", "waitAll", "sawIdle", "join", "stopped"}

Posted == accepted \cup refused \cup delayed
Busy   == {w \in Workers : worker[w] \in {"run", "ran"}}

-----------------------------------------------------------------------------
(* Posting *)

\* A client between calls, or a worker inside a task.
CanCall(c) ==
  \/ c \in Clients /\ future[c] = {}
  \/ c \in Workers /\ worker[c] = "run"

\* The section under state_mutex_ shared by an immediate post and a delayed
\* one coming due.
Enqueue_Unchecked(t) ==
  /\ pending' = pending + 1
  /\ queue' = Append(queue, t)
  /\ accepted' = accepted \cup {t} /\ UNCHANGED refused
Enqueue_Uncounted(t) ==
  IF quit
    THEN refused' = refused \cup {t} /\ UNCHANGED <<queue, pending, accepted>>
    ELSE /\ queue' = Append(queue, t)
         /\ accepted' = accepted \cup {t} /\ UNCHANGED <<pending, refused>>
Enqueue(t) ==
  IF quit
    THEN refused' = refused \cup {t} /\ UNCHANGED <<queue, pending, accepted>>
    ELSE /\ pending' = pending + 1
         /\ queue' = Append(queue, t)
         /\ accepted' = accepted \cup {t} /\ UNCHANGED refused

PostAsyncTask(c, t) ==
  /\ CanCall(c) /\ t \in Tasks \ Posted
  /\ Enqueue(t)
  /\ UNCHANGED <<quit, popQuit, worker, job, delayed, owner, future, started,
                 finished, drain>>

PostAsyncDelayed(c, t) ==
  /\ CanCall(c) /\ t \in Tasks \ Posted
  /\ delayed' = delayed \cup {t}
  /\ UNCHANGED <<queueVars, worker, job, owner, future, historyVars, drain>>

\* The lambda PostDelayedTask gave the main runner.
DelayedDue(t) ==
  /\ t \in delayed /\ delayed' = delayed \ {t}
  /\ Enqueue(t)
  /\ UNCHANGED <<quit, popQuit, worker, job, owner, future, started, finished,
                 drain>>

\* RunUntilCompleted: post a task that fulfils a promise, then get() it.
RunUntilCompleted(c, t) ==
  /\ c \in Clients /\ future[c] = {} /\ t \in Tasks \ Posted
  /\ Enqueue(t)
  /\ future' = [future EXCEPT ![c] = {t}]
  /\ UNCHANGED <<quit, popQuit, worker, job, delayed, owner, started, finished,
                 drain>>

Completed(c) ==
  /\ \E t \in finished : future[c] = {t}
  /\ future' = [future EXCEPT ![c] = {}]
  /\ UNCHANGED <<queueVars, worker, job, delayed, owner, historyVars, drain>>

-----------------------------------------------------------------------------
(* runLoop *)

CheckQuit(w) ==
  /\ worker[w] = "check"
  /\ worker' = [worker EXCEPT ![w] = IF quit THEN "exited" ELSE "wait"]
  /\ UNCHANGED <<queueVars, job, delayed, owner, future, historyVars, drain>>

\* PopWait gives up as soon as the queue was told to quit, full or not.
PopWait_NotPopped(w) ==
  /\ worker[w] = "wait" /\ ~popQuit /\ queue # <<>>
  /\ worker' = [worker EXCEPT ![w] = "run"]
  /\ job' = [job EXCEPT ![w] = {Head(queue)}]
  /\ started' = started \cup {Head(queue)}
  /\ UNCHANGED <<quit, popQuit, queue, pending, delayed, owner, future,
                 accepted, refused, finished, drain>>
PopWait(w) ==
  /\ worker[w] = "wait"
  /\ queue # <<>> \/ popQuit
  /\ IF popQuit
       THEN /\ worker' = [worker EXCEPT ![w] = "check"]
            /\ UNCHANGED <<queue, job, started>>
       ELSE /\ worker' = [worker EXCEPT ![w] = "run"]
            /\ job' = [job EXCEPT ![w] = {Head(queue)}]
            /\ queue' = Tail(queue)
            /\ started' = started \cup {Head(queue)}
  /\ UNCHANGED <<quit, popQuit, pending, delayed, owner, future, accepted,
                 refused, finished, drain>>

\* The task returns or throws; runLoop catches everything.
FinishTask(w) ==
  /\ worker[w] = "run"
  /\ worker' = [worker EXCEPT ![w] = "ran"]
  /\ finished' = finished \cup job[w]
  /\ UNCHANGED <<queueVars, job, delayed, owner, future, accepted, refused,
                 started, drain>>

\* pending_tasks_.fetch_sub(1)
CountDown(w) ==
  /\ worker[w] = "ran"
  /\ worker' = [worker EXCEPT ![w] = "check"]
  /\ job' = [job EXCEPT ![w] = {}]
  /\ pending' = pending - 1
  /\ UNCHANGED <<quit, popQuit, queue, delayed, owner, future, historyVars, drain>>

WorkerStep(w) == CheckQuit(w) \/ PopWait(w) \/ FinishTask(w) \/ CountDown(w)

-----------------------------------------------------------------------------
(* Stop, StopWaitAll and the destructor, called by the owner *)

StopWaitAll ==
  /\ owner = "idle"
  /\ owner' = "waitAll" /\ drain' = accepted
  /\ UNCHANGED <<queueVars, worker, job, delayed, future, historyVars>>

\* One read of pending_tasks_ by IsBusy.
Idle_Queue == queue = <<>>
Idle == pending = 0

SeeIdle ==
  /\ owner = "waitAll" /\ Idle
  /\ owner' = "sawIdle"
  /\ UNCHANGED <<queueVars, worker, job, delayed, future, historyVars, drain>>

TimeOut ==
  /\ owner = "waitAll" /\ ~Idle
  /\ owner' = "idle" /\ drain' = {}
  /\ UNCHANGED <<queueVars, worker, job, delayed, future, historyVars>>

\* The section of Stop that sets both quit flags.
Stop_QueueOnly ==
  /\ owner \in {"idle", "sawIdle"}
  /\ owner' = "join" /\ quit' = TRUE
  /\ UNCHANGED <<popQuit, queue, pending, worker, job, delayed, future,
                 historyVars, drain>>
Stop ==
  /\ owner \in {"idle", "sawIdle"}
  /\ owner' = "join"
  /\ quit' = TRUE /\ popQuit' = TRUE
  /\ UNCHANGED <<queue, pending, worker, job, delayed, future, historyVars, drain>>

AllExited == \A w \in Workers : worker[w] = "exited"

Joined ==
  /\ owner = "join" /\ AllExited
  /\ owner' = "stopped"
  /\ UNCHANGED <<queueVars, worker, job, delayed, future, historyVars, drain>>

-----------------------------------------------------------------------------

Init ==
  /\ quit = FALSE /\ popQuit = FALSE /\ queue = <<>> /\ pending = 0
  /\ worker = [w \in Workers |-> "check"] /\ job = [w \in Workers |-> {}]
  /\ delayed = {} /\ owner = "idle" /\ future = [c \in Clients |-> {}]
  /\ accepted = {} /\ refused = {} /\ started = {} /\ finished = {}
  /\ drain = {}

Post ==
  \E t \in Tasks :
    \/ \E c \in Workers \cup Clients : PostAsyncTask(c, t) \/ PostAsyncDelayed(c, t)
    \/ \E c \in Clients : RunUntilCompleted(c, t)
    \/ DelayedDue(t)

Next ==
  \/ Post
  \/ \E c \in Clients : Completed(c)
  \/ \E w \in Workers : WorkerStep(w)
  \/ StopWaitAll \/ SeeIdle \/ TimeOut \/ Stop \/ Joined

Spec == Init /\ [][Next]_vars

\* Workers are scheduled and tasks return; so is the owner inside join, and a
\* client whose future is ready. Nobody has to post or to stop.
Fairness ==
  /\ \A w \in Workers : WF_vars(WorkerStep(w)) /\ WF_vars(FinishTask(w))
  /\ \A c \in Clients : WF_vars(Completed(c))
  /\ \A t \in Tasks : WF_vars(DelayedDue(t))
  /\ WF_vars(Joined)

FairSpec == Spec /\ Fairness

-----------------------------------------------------------------------------
(* Properties *)

TypeOK ==
  /\ quit \in BOOLEAN /\ popQuit \in BOOLEAN
  /\ queue \in Seq(Tasks) /\ pending \in Nat
  /\ worker \in [Workers -> WorkerPc]
  /\ job \in [Workers -> SUBSET Tasks]
  /\ delayed \subseteq Tasks /\ owner \in OwnerPc
  /\ future \in [Clients -> SUBSET Tasks]
  /\ accepted \subseteq Tasks /\ refused \subseteq Tasks
  /\ started \subseteq Tasks /\ finished \subseteq Tasks /\ drain \subseteq Tasks

\* pending_tasks_ counts what is queued or in a worker's hands, no more and no
\* less, or IsBusy and StopWaitAll would lie.
BusyCount == pending = Len(queue) + Cardinality(Busy)

Queued(t) == \E i \in 1..Len(queue) : queue[i] = t

\* An accepted task is queued, in a worker's hands, or finished: none is lost.
NoneLost ==
  \A t \in accepted \ finished :
    Queued(t) \/ \E w \in Workers : worker[w] = "run" /\ job[w] = {t}

\* "StopWaitAll() waits for currently queued/running worker tasks, then stops
\* worker threads": once it sees the group idle, every task accepted before the
\* call has finished.
StopWaitAllDrains ==
  owner \in {"sawIdle", "join", "stopped"} => drain \subseteq finished

\* "Stop() / StopWaitAll() prevent not-yet-due delayed worker tasks from being
\* queued later": after the section of Stop nothing enters the queue, and after
\* Stop returned nothing runs either.
QuietAfterStop ==
  [][ /\ quit => accepted' = accepted
      /\ owner = "stopped" => started' = started /\ finished' = finished ]_vars

\* The group is an executor: a task refused or still delayed when Stop came is
\* dropped, and what Stop leaves in the queue never starts. A started task that
\* could start again is in no phase of the abstract executor.
PhaseOf(t) ==
  IF t \in refused THEN "dropped"
  ELSE IF t \in started /\ (t \in delayed \/ Queued(t)) THEN "again"
  ELSE IF t \in delayed \/ Queued(t) THEN "pending"
  ELSE IF t \notin accepted THEN "new"
  ELSE IF t \in started THEN "started"
  ELSE "dropped"

Abstract == INSTANCE Executor WITH
  Task <- Tasks, phase <- [t \in Tasks |-> PhaseOf(t)], stopped <- quit

ImplementsExecutor == Abstract!Spec

\* An accepted task finishes and a delayed one comes due, unless the group stops.
TasksFinish ==
  \A t \in Tasks : (t \in accepted \cup delayed) ~> (t \in finished \/ quit)

\* Stop returns: every worker leaves its loop and is joined, however many tasks
\* are queued.
StopReturns == (owner = "join") ~> (owner = "stopped")

\* "Block until future completes": the caller of RunUntilCompleted gets its
\* answer, unless the group is stopped under it.
CompletesUnlessStopped ==
  \A c \in Clients : (future[c] # {}) ~> (future[c] = {} \/ quit)

\* The books of the group: counter, queue and workers agree on every task.
Accounting == TypeOK /\ BusyCount /\ NoneLost

\* Tasks, the owner in Stop and the clients in RunUntilCompleted all come to an end.
Progress == TasksFinish /\ StopReturns /\ CompletesUnlessStopped
=============================================================================
