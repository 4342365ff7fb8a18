----------------------------- MODULE Tasks_proofs -----------------------------
(***************************************************************************)
(* The parts of MCTasks and their composition. TaskGroup for any number of *)
(* workers, clients and tasks: its counter and its queue agree with what   *)
(* the workers do, StopWaitAll drains, Stop is final, and the group        *)
(* implements Executor. Future for any programs that give a state one      *)
(* continuation: what a chain comes to and whom it calls. WebSocketClient  *)
(* for any servers that send nothing after a close frame: whole messages,  *)
(* once and in order. TcpClient's own theorem carries over as well.        *)
(***************************************************************************)
EXTENDS MCTasks, TLAPS, FiniteSetTheorems, SequenceTheorems, WellFoundedInduction

\* The queue holds the accepted tasks that have not started, each once, and a
\* task is delayed, accepted or refused, never two of them.
Queuing ==
  /\ \A i, j \in 1..Len(queue) : queue[i] = queue[j] => i = j
  /\ \A i \in 1..Len(queue) : queue[i] \in accepted \ started
  /\ \A t \in accepted \ started : Queued(t)
  /\ started \subseteq accepted
  /\ accepted \cap refused = {} /\ delayed \cap (accepted \cup refused) = {}

\* What StopWaitAll is to drain was accepted before, and Stop returns last.
Stopping ==
  /\ drain \subseteq accepted
  /\ owner = "idle" => drain = {}
  /\ owner = "stopped" => AllExited

\* BusyCount alone is not inductive: that pending_tasks_ stays natural, and that a
\* task is not popped twice, depend on the queue's contents.
IInv == Accounting /\ StopWaitAllDrains /\ Queuing /\ Stopping

-----------------------------------------------------------------------------
(* The worker set *)

LEMMA BusyFinite == IsFiniteSet(Busy) /\ Cardinality(Busy) \in Nat
<1>1. Busy \in SUBSET Workers
  BY DEF Busy
<1> QED BY <1>1, GroupAssumption, FS_Subset, FS_CardinalityType

\* A worker that pops a task joins the busy ones.
LEMMA BusyGrows ==
  ASSUME NEW w \in Workers, worker \in [Workers -> WorkerPc], worker[w] = "wait",
         worker' = [worker EXCEPT ![w] = "run"]
  PROVE  Cardinality(Busy)' = Cardinality(Busy) + 1
<1>1. Busy' = Busy \cup {w} /\ w \notin Busy
  BY DEF Busy
<1> QED BY <1>1, BusyFinite, FS_AddElement

\* A worker that has counted its task down leaves them.
LEMMA BusyShrinks ==
  ASSUME NEW w \in Workers, worker \in [Workers -> WorkerPc], worker[w] = "ran",
         worker' = [worker EXCEPT ![w] = "check"]
  PROVE  /\ Cardinality(Busy)' = Cardinality(Busy) - 1
         /\ Cardinality(Busy) # 0
<1>1. Busy' = Busy \ {w} /\ w \in Busy
  BY DEF Busy
<1>2. Cardinality(Busy)' = Cardinality(Busy) - 1
  BY <1>1, BusyFinite, FS_RemoveElement
<1>3. Cardinality(Busy) # 0
  BY <1>1, BusyFinite, FS_EmptySet
<1> QED BY <1>2, <1>3

-----------------------------------------------------------------------------
(* The queue *)

\* Enqueue puts an accepted task at the end of the queue, or refuses it.
LEMMA EnqueueInv ==
  ASSUME IInv, NEW t \in Tasks, t \notin accepted \cup refused, Enqueue(t),
         delayed' \subseteq Tasks \cap (delayed \cup {t}),
         delayed' \cap (accepted' \cup refused') = {},
         future' \in [Clients -> SUBSET Tasks],
         UNCHANGED <<quit, popQuit, worker, job, owner, started, finished, drain>>
  PROVE  IInv'
<1> USE DEF IInv, Accounting
<1>1. CASE quit
  <2>1. UNCHANGED <<queue, pending, accepted>> /\ refused' = refused \cup {t}
    BY <1>1 DEF Enqueue
  <2>2. TypeOK'
    BY <2>1 DEF TypeOK
  <2>3. BusyCount' /\ NoneLost' /\ StopWaitAllDrains' /\ Stopping'
    BY <2>1 DEF BusyCount, NoneLost, StopWaitAllDrains, Stopping, Busy, Queued, AllExited
  <2>4. Queuing'
    BY <2>1 DEF Queuing, Queued
  <2> QED BY <2>2, <2>3, <2>4
<1>2. CASE ~quit
  <2>1. /\ pending' = pending + 1 /\ queue' = Append(queue, t)
        /\ accepted' = accepted \cup {t} /\ refused' = refused
    BY <1>2 DEF Enqueue
  <2>2. /\ queue \in Seq(Tasks) /\ queue' \in Seq(Tasks)
        /\ Len(queue) \in Nat /\ Len(queue') = Len(queue) + 1
        /\ \A i \in 1..Len(queue) : queue'[i] = queue[i]
        /\ queue'[Len(queue) + 1] = t
    BY <2>1 DEF TypeOK
  <2>3. TypeOK'
    BY <2>1, <2>2 DEF TypeOK
  <2>4. BusyCount'
    <3>1. Cardinality(Busy)' = Cardinality(Busy)
      BY DEF Busy
    <3>2. Cardinality(Busy) \in Nat
      BY BusyFinite
    <3> QED BY <2>1, <2>2, <3>1, <3>2 DEF BusyCount, TypeOK
  <2>5. \A u \in Tasks : Queued(u)' <=> Queued(u) \/ u = t
    BY <2>2 DEF Queued
  <2>6. NoneLost'
    BY <2>1, <2>5 DEF NoneLost, TypeOK
  <2>7. StopWaitAllDrains' /\ Stopping'
    BY <2>1 DEF StopWaitAllDrains, Stopping, AllExited
  <2>8. Queuing'
    <3>1. \A i \in 1..Len(queue) : queue[i] # t
      BY DEF Queuing
    <3>2. (\A i, j \in 1..Len(queue) : queue[i] = queue[j] => i = j)'
      BY <2>2, <3>1 DEF Queuing
    <3>3. t \notin started
      BY DEF Queuing
    <3>4. (\A i \in 1..Len(queue) : queue[i] \in accepted \ started)'
      BY <2>1, <2>2, <3>3 DEF Queuing
    <3>5. (\A u \in accepted \ started : Queued(u))'
      BY <2>1, <2>5 DEF Queuing, TypeOK
    <3> QED BY <2>1, <3>2, <3>4, <3>5 DEF Queuing
  <2> QED BY <2>3, <2>4, <2>6, <2>7, <2>8
<1> QED BY <1>1, <1>2

\* The head leaves the queue for a worker.
LEMMA TakeInv ==
  ASSUME IInv, NEW w \in Workers, worker[w] = "wait", queue # <<>>,
         worker' = [worker EXCEPT ![w] = "run"],
         job' = [job EXCEPT ![w] = {Head(queue)}],
         queue' = Tail(queue), started' = started \cup {Head(queue)},
         UNCHANGED <<quit, popQuit, pending, delayed, owner, future, accepted,
                     refused, finished, drain>>
  PROVE  IInv'
<1> USE DEF IInv, Accounting
<1>1. /\ queue \in Seq(Tasks) /\ Len(queue) \in Nat /\ Len(queue) # 0
      /\ Head(queue) = queue[1] /\ Head(queue) \in Tasks
      /\ queue' \in Seq(Tasks) /\ Len(queue') = Len(queue) - 1
      /\ \A i \in 1..Len(queue') : queue'[i] = queue[i + 1]
  BY DEF TypeOK
<1>2. TypeOK'
  BY <1>1 DEF TypeOK, WorkerPc
<1>3. BusyCount'
  <2>1. Cardinality(Busy)' = Cardinality(Busy) + 1
    BY BusyGrows DEF TypeOK
  <2>2. Cardinality(Busy) \in Nat
    BY BusyFinite
  <2> QED BY <1>1, <2>1, <2>2 DEF BusyCount, TypeOK
<1>4. \A u \in Tasks : Queued(u) => Queued(u)' \/ u = Head(queue)
  <2> SUFFICES ASSUME NEW u \in Tasks, NEW i \in 1..Len(queue), queue[i] = u,
                      u # Head(queue)
               PROVE  Queued(u)'
    BY DEF Queued
  <2>1. i # 1 /\ i - 1 \in 1..Len(queue') /\ queue'[i - 1] = u
    BY <1>1
  <2> QED BY <2>1 DEF Queued
<1>5. NoneLost'
  <2> SUFFICES ASSUME NEW u \in accepted \ finished
               PROVE  Queued(u)' \/ \E v \in Workers : worker'[v] = "run" /\ job'[v] = {u}
    BY DEF NoneLost
  <2>1. CASE Queued(u) /\ u # Head(queue)
    BY <2>1, <1>4 DEF TypeOK
  <2>2. CASE u = Head(queue)
    BY <2>2 DEF TypeOK
  <2>3. ASSUME NEW v \in Workers, worker[v] = "run", job[v] = {u}
        PROVE  worker'[v] = "run" /\ job'[v] = {u}
    BY <2>3 DEF TypeOK
  <2> QED BY <2>1, <2>2, <2>3 DEF NoneLost
<1>6. StopWaitAllDrains'
  BY DEF StopWaitAllDrains
<1>7. Stopping'
  BY DEF Stopping, AllExited, TypeOK
<1>8. Queuing'
  <2>1. Head(queue) \in accepted \ started
    BY <1>1 DEF Queuing
  <2>2. (\A i, j \in 1..Len(queue) : queue[i] = queue[j] => i = j)'
    BY <1>1 DEF Queuing
  <2>3. (\A i \in 1..Len(queue) : queue[i] \in accepted \ started)'
    <3> SUFFICES ASSUME NEW i \in 1..Len(queue')
                 PROVE  queue'[i] \in accepted \ (started \cup {Head(queue)})
      OBVIOUS
    <3>1. i + 1 \in 1..Len(queue) /\ 1 \in 1..Len(queue) /\ i + 1 # 1
      BY <1>1
    <3> QED BY <1>1, <3>1 DEF Queuing
  <2>4. (\A u \in accepted \ started : Queued(u))'
    BY <1>4 DEF Queuing, TypeOK
  <2> QED BY <2>1, <2>2, <2>3, <2>4 DEF Queuing
<1> QED BY <1>2, <1>3, <1>5, <1>6, <1>7, <1>8

-----------------------------------------------------------------------------
(* One step of the group *)

LEMMA InitInv == Init => IInv
<1> SUFFICES ASSUME Init PROVE IInv
  OBVIOUS
<1> USE DEF Init
<1>1. TypeOK
  <2>1. queue \in Seq(Tasks)
    BY EmptySeq
  <2>2. worker \in [Workers -> WorkerPc] /\ owner \in OwnerPc
    BY DEF WorkerPc, OwnerPc
  <2> QED BY <2>1, <2>2 DEF TypeOK
<1>2. BusyCount
  <2>1. Busy = {}
    BY DEF Busy
  <2> QED BY <2>1, FS_EmptySet DEF BusyCount
<1>3. NoneLost /\ StopWaitAllDrains /\ Queuing /\ Stopping
  BY DEF NoneLost, StopWaitAllDrains, Queuing, Stopping
<1> QED BY <1>1, <1>2, <1>3 DEF IInv, Accounting

\* Posting, at once or later, and a delayed task coming due.
LEMMA PostInv == ASSUME IInv, Post PROVE IInv'
<1> USE DEF IInv, Accounting
<1>1. ASSUME NEW t \in Tasks, NEW c \in Workers \cup Clients, PostAsyncTask(c, t)
      PROVE  IInv'
  BY <1>1, EnqueueInv DEF PostAsyncTask, Posted, Enqueue, TypeOK, Queuing
<1>2. ASSUME NEW t \in Tasks, NEW c \in Clients, RunUntilCompleted(c, t)
      PROVE  IInv'
  BY <1>2, EnqueueInv DEF RunUntilCompleted, Posted, Enqueue, TypeOK, Queuing
<1>3. ASSUME NEW t \in Tasks, DelayedDue(t)
      PROVE  IInv'
  BY <1>3, EnqueueInv DEF DelayedDue, Enqueue, TypeOK, Queuing
<1>4. ASSUME NEW t \in Tasks, NEW c \in Workers \cup Clients, PostAsyncDelayed(c, t)
      PROVE  IInv'
  <2> USE <1>4 DEF PostAsyncDelayed, queueVars, historyVars
  <2>1. TypeOK'
    BY DEF TypeOK
  <2>2. BusyCount' /\ NoneLost' /\ StopWaitAllDrains' /\ Stopping'
    BY DEF BusyCount, NoneLost, StopWaitAllDrains, Stopping, Busy, Queued, AllExited
  <2>3. Queuing'
    BY DEF Queuing, Queued, Posted
  <2> QED BY <2>1, <2>2, <2>3
<1> QED BY <1>1, <1>2, <1>3, <1>4 DEF Post

\* A turn of runLoop.
LEMMA WorkerInv == ASSUME IInv, NEW w \in Workers, WorkerStep(w) PROVE IInv'
<1> USE DEF IInv, Accounting, queueVars, historyVars
<1>1. CASE CheckQuit(w)
  <2> USE <1>1 DEF CheckQuit
  <2>1. TypeOK'
    BY DEF TypeOK, WorkerPc
  <2>2. Busy' = Busy
    BY DEF Busy, TypeOK
  <2>3. BusyCount' /\ StopWaitAllDrains' /\ Queuing'
    BY <2>2 DEF BusyCount, StopWaitAllDrains, Queuing, Queued
  <2>4. NoneLost'
    BY DEF NoneLost, Queued, TypeOK
  <2>5. Stopping'
    BY DEF Stopping, AllExited, TypeOK
  <2> QED BY <2>1, <2>3, <2>4, <2>5
<1>2. CASE PopWait(w)
  <2>1. CASE popQuit
    <3> USE <1>2, <2>1 DEF PopWait
    <3>1. TypeOK'
      BY DEF TypeOK, WorkerPc
    <3>2. Busy' = Busy
      BY DEF Busy, TypeOK
    <3>3. BusyCount' /\ StopWaitAllDrains' /\ Queuing'
      BY <3>2 DEF BusyCount, StopWaitAllDrains, Queuing, Queued
    <3>4. NoneLost'
      BY DEF NoneLost, Queued, TypeOK
    <3>5. Stopping'
      BY DEF Stopping, AllExited, TypeOK
    <3> QED BY <3>1, <3>3, <3>4, <3>5
  <2>2. CASE ~popQuit
    BY <1>2, <2>2, TakeInv DEF PopWait
  <2> QED BY <2>1, <2>2
<1>3. CASE FinishTask(w)
  <2> USE <1>3 DEF FinishTask
  <2>1. TypeOK'
    BY DEF TypeOK, WorkerPc
  <2>2. Busy' = Busy
    BY DEF Busy, TypeOK
  <2>3. NoneLost'
    <3> SUFFICES ASSUME NEW t \in accepted \ finished, t \notin job[w]
                 PROVE  Queued(t) \/ \E v \in Workers : worker'[v] = "run" /\ job[v] = {t}
      BY DEF NoneLost, Queued
    <3>1. ASSUME NEW v \in Workers, worker[v] = "run", job[v] = {t}
          PROVE  v # w /\ worker'[v] = "run"
      BY <3>1 DEF TypeOK
    <3> QED BY <3>1 DEF NoneLost
  <2>4. BusyCount' /\ StopWaitAllDrains' /\ Queuing'
    BY <2>2 DEF BusyCount, StopWaitAllDrains, Queuing, Queued
  <2>5. Stopping'
    BY DEF Stopping, AllExited, TypeOK
  <2> QED BY <2>1, <2>3, <2>4, <2>5
<1>4. CASE CountDown(w)
  <2> USE <1>4 DEF CountDown
  <2>1. Cardinality(Busy)' = Cardinality(Busy) - 1 /\ Cardinality(Busy) # 0
    BY BusyShrinks DEF TypeOK
  <2>2. BusyCount' /\ pending' \in Nat
    <3> DEFINE q == Len(queue)
               n == Cardinality(Busy)
    <3>1. q \in Nat /\ q' = q
      BY DEF TypeOK
    <3>2. pending = q + n /\ pending' = pending - 1 /\ n \in Nat
      BY BusyFinite DEF BusyCount
    <3>3. n' = n - 1 /\ n # 0
      BY <2>1
    <3> HIDE DEF q, n
    <3>4. pending' = q' + n' /\ pending' \in Nat
      BY <3>1, <3>2, <3>3
    <3> QED BY <3>4 DEF BusyCount, q, n
  <2>3. TypeOK'
    BY <2>2 DEF TypeOK, WorkerPc
  <2>4. NoneLost'
    <3> SUFFICES ASSUME NEW t \in accepted \ finished
                 PROVE  Queued(t) \/ \E v \in Workers : worker'[v] = "run" /\ job'[v] = {t}
      BY DEF NoneLost, Queued
    <3>1. ASSUME NEW v \in Workers, worker[v] = "run", job[v] = {t}
          PROVE  worker'[v] = "run" /\ job'[v] = {t}
      BY <3>1 DEF TypeOK
    <3> QED BY <3>1 DEF NoneLost
  <2>5. StopWaitAllDrains' /\ Queuing' /\ Stopping'
    BY DEF StopWaitAllDrains, Queuing, Stopping, Queued, AllExited, TypeOK
  <2> QED BY <2>2, <2>3, <2>4, <2>5
<1> QED BY <1>1, <1>2, <1>3, <1>4 DEF WorkerStep

\* Nothing accepted is left unfinished when pending_tasks_ is zero.
LEMMA IdleMeansDone == ASSUME IInv, pending = 0 PROVE accepted \subseteq finished
<1> USE DEF IInv, Accounting
<1>1. Len(queue) = 0 /\ Cardinality(Busy) = 0
  BY BusyFinite DEF BusyCount, TypeOK
<1>2. Busy = {}
  BY <1>1, BusyFinite, FS_EmptySet
<1> QED BY <1>1, <1>2 DEF NoneLost, Queued, Busy

\* Stop, StopWaitAll and the caller of RunUntilCompleted.
LEMMA OwnerInv ==
  ASSUME IInv, \/ StopWaitAll \/ SeeIdle \/ TimeOut \/ Stop \/ Joined
               \/ \E c \in Clients : Completed(c)
  PROVE  IInv'
<1> USE DEF IInv, Accounting, queueVars, historyVars
<1>1. UNCHANGED <<queue, pending, worker, job, delayed, historyVars>>
  BY DEF StopWaitAll, SeeIdle, TimeOut, Stop, Joined, Completed
<1>2. TypeOK'
  BY <1>1 DEF TypeOK, OwnerPc, StopWaitAll, SeeIdle, TimeOut, Stop, Joined, Completed
<1>3. BusyCount' /\ NoneLost' /\ Queuing'
  BY <1>1 DEF BusyCount, NoneLost, Queuing, Busy, Queued
<1>4. StopWaitAllDrains'
  <2>1. CASE SeeIdle
    BY <1>1, <2>1, IdleMeansDone DEF SeeIdle, Idle, StopWaitAllDrains, Stopping
  <2>2. CASE ~SeeIdle
    BY <1>1, <2>2 DEF StopWaitAll, TimeOut, Stop, Joined, Completed, StopWaitAllDrains,
                      Stopping
  <2> QED BY <2>1, <2>2
<1>5. Stopping'
  BY <1>1 DEF Stopping, AllExited, StopWaitAll, SeeIdle, TimeOut, Stop, Joined,
              Completed
<1> QED BY <1>2, <1>3, <1>4, <1>5

LEMMA StepInv == IInv /\ [Next]_vars => IInv'
<1>1. ASSUME IInv, UNCHANGED vars PROVE IInv'
  BY <1>1 DEF IInv, Accounting, TypeOK, BusyCount, NoneLost, StopWaitAllDrains,
              Queuing, Stopping, Busy, Queued, AllExited, vars, queueVars, historyVars
<1> QED BY <1>1, PostInv, WorkerInv, OwnerInv DEF Next

-----------------------------------------------------------------------------
(* What holds of every behaviour *)

\* The inductive invariant.
THEOREM Invariance == Spec => []IInv
<1> QED BY InitInv, StepInv, PTL DEF Spec

\* pending_tasks_, the queue and the workers agree on every task, so IsBusy never
\* lies and no accepted task is lost (task_group.cc:17-36, 69-73).
THEOREM BooksBalance == Spec => []Accounting
<1>1. IInv => Accounting
  BY DEF IInv
<1> QED BY <1>1, Invariance, PTL

\* StopWaitAll stops the workers only after every task accepted before the call
\* has finished (task_group.cc:104-112).
THEOREM Drains == Spec => []StopWaitAllDrains
<1>1. IInv => StopWaitAllDrains
  BY DEF IInv
<1> QED BY <1>1, Invariance, PTL

\* After Stop set quit_ nothing enters the queue, and after Stop returned no task
\* starts or finishes (task_group.cc:69-73, 93-102).
THEOREM StopIsFinal == Spec => QuietAfterStop
<1>1. ASSUME IInv, [Next]_vars, quit PROVE accepted' = accepted
  BY <1>1 DEF Next, Post, PostAsyncTask, PostAsyncDelayed, DelayedDue, Enqueue,
              RunUntilCompleted, Completed, WorkerStep, CheckQuit, PopWait, FinishTask,
              CountDown, StopWaitAll, SeeIdle, TimeOut, Stop, Joined, vars, historyVars
<1>2. ASSUME IInv, [Next]_vars, owner = "stopped"
      PROVE  started' = started /\ finished' = finished
  <2>1. \A w \in Workers : ~WorkerStep(w)
    BY <1>2 DEF IInv, Stopping, AllExited, WorkerStep, CheckQuit, PopWait, FinishTask,
                CountDown
  <2> QED BY <1>2, <2>1 DEF Next, Post, PostAsyncTask, PostAsyncDelayed, DelayedDue,
              RunUntilCompleted, Completed, StopWaitAll, SeeIdle, TimeOut, Stop, Joined,
              vars, historyVars
<1> QED BY <1>1, <1>2, Invariance, PTL DEF Spec, QuietAfterStop

-----------------------------------------------------------------------------
(* TaskGroup implements Executor *)

\* The phase of a task when the books balance: "again" and the second "dropped" of
\* PhaseOf never show.
SimplePhase(t) ==
  IF t \in refused THEN "dropped"
  ELSE IF t \in started THEN "started"
  ELSE IF t \in accepted \cup delayed THEN "pending"
  ELSE "new"

LEMMA PhaseIsSimple == ASSUME IInv, NEW t \in Tasks PROVE PhaseOf(t) = SimplePhase(t)
<1>1. Queued(t) => t \in accepted \ started
  BY DEF IInv, Queuing, Queued
<1>2. t \in accepted \ started => Queued(t)
  BY DEF IInv, Queuing
<1> QED BY <1>1, <1>2 DEF IInv, Queuing, PhaseOf, SimplePhase

\* The mapped phases, before and after a step.
Phases == [t \in Tasks |-> SimplePhase(t)]

\* "phase" of Executor, as Abstract maps it.
Mapped == [t \in Tasks |-> PhaseOf(t)]

LEMMA PhasesMapped == IInv => Mapped = Phases
  BY PhaseIsSimple DEF Mapped, Phases

\* A step that moves one task through the phases.
LEMMA OneMove ==
  ASSUME IInv, IInv', NEW t \in Tasks, NEW from, NEW to,
         SimplePhase(t) \in from, SimplePhase(t)' = to,
         \A u \in Tasks \ {t} : SimplePhase(u)' = SimplePhase(u), quit' = quit
  PROVE  Abstract!Move(t, from, to)
<1>1. Phases[t] \in from /\ Phases' = [Phases EXCEPT ![t] = to]
  BY DEF Phases
<1>2. Mapped = Phases /\ (Mapped = Phases)'
  BY PhasesMapped, PTL
<1>3. Mapped[t] \in from /\ Mapped' = [Mapped EXCEPT ![t] = to]
  BY <1>1, <1>2
<1> QED BY <1>3 DEF Abstract!Move, Mapped

\* A step that leaves every task in its phase.
LEMMA NoMove ==
  ASSUME IInv, IInv', \A u \in Tasks : SimplePhase(u)' = SimplePhase(u)
  PROVE  Mapped' = Mapped
<1>1. Phases' = Phases
  BY DEF Phases
<1>2. Mapped = Phases /\ (Mapped = Phases)'
  BY PhasesMapped, PTL
<1> QED BY <1>1, <1>2

\* Enqueue accepts or drops a new task, and drops or keeps a delayed one.
LEMMA EnqueueMoves ==
  ASSUME IInv, IInv', NEW t \in Tasks, t \notin accepted \cup refused, Enqueue(t),
         delayed' = delayed \ {t}, quit' = quit, started' = started
  PROVE  Abstract!Next \/ (Mapped' = Mapped /\ quit' = quit)
<1>0. t \notin started
  BY DEF IInv, Queuing
<1>1. \A u \in Tasks \ {t} : SimplePhase(u)' = SimplePhase(u)
  BY DEF SimplePhase, Enqueue
<1>2. SimplePhase(t) = IF t \in delayed THEN "pending" ELSE "new"
  BY <1>0 DEF SimplePhase
<1>3. CASE quit
  <2>1. SimplePhase(t)' = "dropped"
    BY <1>3 DEF SimplePhase, Enqueue
  <2>2. Abstract!Move(t, {"new", "pending"}, "dropped")
    BY <1>1, <1>2, <2>1, OneMove
  <2> QED BY <1>3, <2>2 DEF Abstract!Drop, Abstract!Next
<1>4. CASE ~quit
  <2>1. SimplePhase(t)' = "pending"
    BY <1>0, <1>4 DEF SimplePhase, Enqueue
  <2>2. CASE t \in delayed
    BY <1>1, <1>2, <2>1, <2>2, NoMove
  <2>3. CASE t \notin delayed
    <3>1. Abstract!Move(t, {"new"}, "pending")
      BY <1>1, <1>2, <2>1, <2>3, OneMove
    <3> QED BY <3>1 DEF Abstract!Accept, Abstract!Next
  <2> QED BY <2>2, <2>3
<1> QED BY <1>3, <1>4

LEMMA PostMoves ==
  ASSUME IInv, IInv', Post PROVE Abstract!Next \/ (Mapped' = Mapped /\ quit' = quit)
<1>1. ASSUME NEW t \in Tasks, NEW c \in Workers \cup Clients, PostAsyncTask(c, t)
      PROVE  Abstract!Next \/ (Mapped' = Mapped /\ quit' = quit)
  BY <1>1, EnqueueMoves DEF PostAsyncTask, Posted
<1>2. ASSUME NEW t \in Tasks, NEW c \in Clients, RunUntilCompleted(c, t)
      PROVE  Abstract!Next \/ (Mapped' = Mapped /\ quit' = quit)
  BY <1>2, EnqueueMoves DEF RunUntilCompleted, Posted
<1>3. ASSUME NEW t \in Tasks, DelayedDue(t)
      PROVE  Abstract!Next \/ (Mapped' = Mapped /\ quit' = quit)
  BY <1>3, EnqueueMoves DEF DelayedDue, IInv, Queuing
<1>4. ASSUME NEW t \in Tasks, NEW c \in Workers \cup Clients, PostAsyncDelayed(c, t)
      PROVE  Abstract!Next
  <2> USE <1>4 DEF PostAsyncDelayed, Posted, queueVars, historyVars
  <2>1. t \notin started
    BY DEF IInv, Queuing
  <2>2. SimplePhase(t) = "new" /\ SimplePhase(t)' = "pending"
    BY <2>1 DEF SimplePhase
  <2>3. \A u \in Tasks \ {t} : SimplePhase(u)' = SimplePhase(u)
    BY DEF SimplePhase
  <2>4. Abstract!Move(t, {"new"}, "pending")
    BY <2>2, <2>3, OneMove
  <2> QED BY <2>4 DEF Abstract!Accept, Abstract!Next
<1> QED BY <1>1, <1>2, <1>3, <1>4 DEF Post

\* A task is started by the worker that pops it; its other steps show nothing.
LEMMA WorkerMoves ==
  ASSUME IInv, IInv', NEW w \in Workers, WorkerStep(w)
  PROVE  Abstract!Next \/ (Mapped' = Mapped /\ quit' = quit)
<1> USE DEF queueVars, historyVars
<1>1. CASE PopWait(w) /\ ~popQuit
  <2>1. /\ queue \in Seq(Tasks) /\ queue # <<>> /\ started' = started \cup {Head(queue)}
        /\ UNCHANGED <<accepted, refused, delayed, quit>>
    BY <1>1 DEF PopWait, IInv, Accounting, TypeOK
  <2>2. 1 \in 1..Len(queue) /\ Head(queue) = queue[1] /\ Head(queue) \in Tasks
    BY <2>1
  <2>3. PICK t \in Tasks : t = Head(queue) /\ t \in accepted \ (started \cup refused)
    BY <2>2 DEF IInv, Queuing
  <2>4. SimplePhase(t) = "pending" /\ SimplePhase(t)' = "started"
    BY <2>1, <2>3 DEF SimplePhase
  <2>5. \A u \in Tasks \ {t} : SimplePhase(u)' = SimplePhase(u)
    BY <2>1, <2>3 DEF SimplePhase
  <2>6. Abstract!Move(t, {"pending"}, "started")
    BY <2>1, <2>4, <2>5, OneMove
  <2> QED BY <2>6 DEF Abstract!Start, Abstract!Next
<1>2. CASE ~(PopWait(w) /\ ~popQuit)
  <2>1. UNCHANGED <<quit, accepted, refused, started, delayed>>
    BY <1>2 DEF WorkerStep, CheckQuit, PopWait, FinishTask, CountDown
  <2> QED BY <2>1, NoMove DEF SimplePhase
<1> QED BY <1>1, <1>2

LEMMA OwnerMoves ==
  ASSUME IInv, IInv', \/ StopWaitAll \/ SeeIdle \/ TimeOut \/ Stop \/ Joined
                      \/ \E c \in Clients : Completed(c)
  PROVE  Abstract!Next \/ (Mapped' = Mapped /\ quit' = quit)
<1>1. UNCHANGED <<accepted, refused, started, delayed>>
  BY DEF StopWaitAll, SeeIdle, TimeOut, Stop, Joined, Completed, historyVars
<1>2. Mapped' = Mapped
  BY <1>1, NoMove DEF SimplePhase
<1>3. quit' = quit \/ quit' \in BOOLEAN
  BY DEF StopWaitAll, SeeIdle, TimeOut, Stop, Joined, Completed, queueVars
<1> QED BY <1>2, <1>3 DEF Abstract!Next, Abstract!SetStopped, Mapped

\* A task accepted by the group starts at most once, and only a group told to stop
\* drops tasks: every step of TaskGroup is a step of Executor or changes nothing
\* there (task_group.cc:17-36, 68-102).
THEOREM Implements == Spec => ImplementsExecutor
<1>1. Init => Abstract!Init
  <2> SUFFICES ASSUME Init PROVE Abstract!Init
    OBVIOUS
  <2>1. \A t \in Tasks : PhaseOf(t) = "new"
    BY DEF Init, PhaseOf, Queued
  <2> QED BY <2>1 DEF Init, Abstract!Init
<1>2. IInv /\ IInv' /\ [Next]_vars => Abstract!Next \/ (Mapped' = Mapped /\ quit' = quit)
  <2>1. ASSUME IInv, IInv', UNCHANGED vars PROVE Mapped' = Mapped /\ quit' = quit
    BY <2>1, NoMove DEF vars, queueVars, historyVars, SimplePhase
  <2> QED BY <2>1, PostMoves, WorkerMoves, OwnerMoves DEF Next
<1>3. IInv /\ IInv' /\ [Next]_vars
        => [Abstract!Next]_<<[t \in Tasks |-> PhaseOf(t)], quit>>
  BY <1>2 DEF Mapped
<1> QED BY <1>1, <1>3, Invariance, PTL DEF Spec, ImplementsExecutor, Abstract!Spec

-----------------------------------------------------------------------------
(* Chains of futures *)

\* What programs attach: to the promise's state or to that of an earlier attachment, no
\* two of them to one state, which takes one continuation.
Attachment == [of : Nat, kind : {"then", "error"}, exec : BOOLEAN, throws : BOOLEAN]
Linear ==
  \A p \in Programs :
    /\ p \in Seq(Attachment) /\ \A i \in DOMAIN p : p[i].of < i
    /\ \A i, j \in DOMAIN p : p[i].of = p[j].of => i = j

\* The attachment whose continuation t has to run, and those still to be run.
Job(t) == IF task[t].at = "taken" THEN task[t].with ELSE IF task[t].at = "run" THEN task[t].of ELSE 0
Pending(i) ==
  \/ \E s \in Fut!States : continuation[s] = i
  \/ \E j \in DOMAIN posts : posts[j] = i
  \/ \E t \in Fut!Threads : Job(t) = i

Outcomes == {Fut!Value} \cup {Fut!Error(i) : i \in Fut!States}
Shape(k) ==
  \/ k = Fut!Idle
  \/ \E tries \in Seq(1..attached) :
       \/ \E s \in 0..attached, v \in Outcomes : k = Fut!Settling(s, v, tries)
       \/ \E i \in 1..attached : k \in {Fut!Taken(program[i].of, i, tries), Fut!Running(i, tries)}
Shapes ==
  /\ program \in Programs /\ attached \in 0..Len(program) /\ outcome \in {Fut!Value, Fut!Error(0)}
  /\ value \in [Fut!States -> {<<>>} \cup Outcomes] /\ continuation \in [Fut!States -> 0..attached]
  /\ executor \in [Fut!States -> BOOLEAN] /\ held \in [Fut!Threads -> SUBSET Fut!States]
  /\ task = [t \in Fut!Threads |-> task[t]] /\ \A t \in Fut!Threads : Shape(task[t])
  /\ posts \in Seq(1..attached) /\ calls \in Seq([of : 1..attached, by : Fut!Threads])

\* A continuation waits at a state that is not ready, and is posted, taken or run for one
\* that is; it is in one of these places.
Waiting ==
  \A s \in Fut!States : continuation[s] # 0 =>
    LET i == continuation[s] IN
    program[i].of = s /\ value[s] = <<>> /\ executor[s] = program[i].exec
PostedOnes ==
  /\ \A j \in DOMAIN posts : value[program[posts[j]].of] # <<>> /\ program[posts[j]].exec
  /\ \A j, k \in DOMAIN posts : posts[j] = posts[k] => j = k
  /\ \A j \in DOMAIN posts, s \in Fut!States : posts[j] # continuation[s]
InHand ==
  \A t \in Fut!Threads : Job(t) # 0 =>
    /\ value[program[Job(t)].of] # <<>>
    /\ task[t].at = "taken" => executor[task[t].of] = program[Job(t)].exec
    /\ task[t].at = "run" /\ program[Job(t)].exec => t \in Workers
    /\ \A u \in Fut!Threads : Job(t) = Job(u) => t = u
    /\ \A s \in Fut!States : continuation[s] # Job(t)
    /\ \A j \in DOMAIN posts : posts[j] # Job(t)

\* A state is settled by one thread, after its function, with what its chain comes to, and
\* perhaps again, with what a handler has thrown, when its continuation has been run.
Ended(s)  == s = 0 \/ (s <= attached /\ ~Pending(s))
Closed(s) == \E i \in 1..attached : program[i].of = s /\ ~Pending(i)
Thrown(s, v) ==
  /\ Fut!Result[s] = Fut!Value /\ Closed(s)
  /\ \E n \in DOMAIN calls : v = Fut!Error(calls[n].of) /\ Fut!ThrowsAfter(calls[n].of, s)
Deciding ==
  \A t \in Fut!Threads : task[t].at = "settle" =>
    LET s == task[t].of IN
    /\ Ended(s)
    /\ \/ /\ value[s] = <<>> /\ task[t].with = Fut!Result[s]
          /\ \A u \in Fut!Threads : task[u].at = "settle" /\ task[u].of = s => t = u
       \/ value[s] # <<>> /\ Thrown(s, task[t].with)
Decided ==
  \A s \in Fut!States : value[s] # <<>> =>
    Ended(s) /\ (value[s] = Fut!Result[s] \/ Thrown(s, value[s]))

\* The tries a thread is inside are of states that had values, before what it goes on with,
\* and their continuations are the one it has in hand or have been run.
GoesOn(t) == task[t].at # "settle" \/ value[task[t].of] = <<>>
Enclosing(t) ==
  /\ task[t].at = "run" /\ task[t].tries # <<>> => ~program[task[t].of].exec
  /\ \A m \in DOMAIN task[t].tries :
       LET s == task[t].tries[m] IN
       /\ Fut!Result[s] = Fut!Value /\ Ended(s) /\ (GoesOn(t) => Fut!Before(s, task[t].of))
       /\ \/ task[t].at = "settle" /\ task[t].of = s
          \/ value[s] # <<>> /\ (Closed(s) \/ (Job(t) # 0 /\ program[Job(t)].of = s))
Trying == \A t \in Fut!Threads : Enclosing(t)
Called ==
  \A n \in DOMAIN calls :
    LET i == calls[n].of IN ~Pending(i) /\ value[program[i].of] # <<>>

ChainInv ==
  /\ Shapes /\ Waiting /\ PostedOnes /\ InHand /\ Deciding /\ Decided /\ Trying /\ Called
  /\ Fut!CalledInTurn

\* A set of numbers that is not empty has a least one.
LEMMA LeastNatural ==
  ASSUME NEW T \in SUBSET Nat, T # {}
  PROVE  \E m \in T : \A n \in T : m <= n
<1>1. \A x, y \in Nat : <<x, y>> \in OpToRel(<, Nat) <=> x < y
  BY Zenon DEF OpToRel
<1>2. PICK m \in T : \A n \in T : ~(<<n, m>> \in OpToRel(<, Nat))
  BY NatLessThanWellFounded, WFMin
<1>3. \A n \in T : ~(n < m)
  BY <1>1, <1>2, Zenon
<1> QED BY <1>3

\* What chains come to, of a program and an outcome.
ResultOf(p, o) ==
  CHOOSE r : r = [s \in 0..Len(p) |->
    IF s = 0 THEN o
    ELSE IF r[p[s].of] # Fut!Value THEN r[p[s].of]
         ELSE IF p[s].throws THEN Fut!Error(s) ELSE Fut!Value]

\* Result is of the program and the outcome of the moment.
LEMMA ResultIs == Fut!Result = ResultOf(program, outcome)
BY DEF Fut!Result, ResultOf, Fut!States

\* A program names earlier states, so that Result is what its equation says.
LEMMA ResultStep ==
  ASSUME NEW p \in Seq(Attachment), \A i \in DOMAIN p : p[i].of < i, NEW o
  PROVE  /\ ResultOf(p, o)[0] = o
         /\ \A s \in 1..Len(p) :
              LET of == ResultOf(p, o)[p[s].of] IN
              ResultOf(p, o)[s] = IF of # Fut!Value THEN of
                                  ELSE IF p[s].throws THEN Fut!Error(s) ELSE Fut!Value
<1> DEFINE Comes(r, s) == IF s = 0 THEN o
                       ELSE IF r[p[s].of] # Fut!Value THEN r[p[s].of]
                            ELSE IF p[s].throws THEN Fut!Error(s) ELSE Fut!Value
           Upto(n) == \E r : r = [s \in 0..n |-> Comes(r, s)]
           Off == {n \in 0..Len(p) : ~Upto(n)}
<1>1. Len(p) \in Nat /\ \A s \in 1..Len(p) : p[s].of \in 0..(s - 1)
  <2>1. Len(p) \in Nat /\ DOMAIN p = 1..Len(p)
    BY LenProperties
  <2>2. ASSUME NEW s \in 1..Len(p) PROVE p[s].of \in 0..(s - 1)
    <3>1. p[s] \in Attachment /\ p[s].of < s
      BY <2>1, ElementOfSeq
    <3>2. p[s].of \in Nat
      BY <3>1 DEF Attachment
    <3> QED BY <3>1, <3>2
  <2> QED BY <2>1, <2>2
<1>2. Upto(0)
  <2>1. [s \in 0..0 |-> o] = [s \in 0..0 |-> Comes([k \in 0..0 |-> o], s)]
    OBVIOUS
  <2> QED BY <2>1
<1>3. ASSUME NEW n \in 1..Len(p), Upto(n - 1) PROVE Upto(n)
  <2>1. PICK f : f = [s \in 0..(n - 1) |-> Comes(f, s)]
    BY <1>3
  <2> DEFINE g == [s \in 0..n |-> IF s < n THEN f[s] ELSE Comes(f, n)]
  <2>2. ASSUME NEW s \in 0..n PROVE g[s] = Comes(g, s)
    <3>1. s = 0 \/ (s \in 1..n /\ p[s].of \in 0..(s - 1) /\ p[s].of \in 0..(n - 1))
      BY <1>1
    <3>2. Comes(g, s) = Comes(f, s)
      BY <3>1
    <3>3. s < n => f[s] = Comes(f, s)
      <4> HIDE DEF Comes
      <4> QED BY <2>1
    <3> HIDE DEF Comes
    <3> QED BY <3>2, <3>3
  <2>3. g = [s \in 0..n |-> Comes(g, s)]
    <3> HIDE DEF Comes
    <3> QED BY <2>2
  <2> HIDE DEF g, Comes
  <2> QED BY <2>3, Zenon
<1>4. Off = {}
  <2> HIDE DEF Upto
  <2> SUFFICES ASSUME Off # {} PROVE FALSE
    OBVIOUS
  <2>1. Off \in SUBSET Nat
    BY <1>1
  <2>2. PICK m \in Off : \A n \in Off : m <= n
    BY <2>1, LeastNatural
  <2>3. m # 0 /\ m \in 1..Len(p)
    BY <1>1, <1>2, <2>2
  <2>4. m - 1 \notin Off /\ m - 1 \in 0..Len(p)
    BY <1>1, <2>2, <2>3
  <2> QED BY <1>3, <2>2, <2>3, <2>4
<1>5. PICK r : r = [s \in 0..Len(p) |-> Comes(r, s)]
  BY <1>1, <1>4
<1>6. ResultOf(p, o) = CHOOSE q : q = [s \in 0..Len(p) |-> Comes(q, s)]
  BY DEF ResultOf
<1>7. ResultOf(p, o) = [s \in 0..Len(p) |-> Comes(ResultOf(p, o), s)]
  <2> HIDE DEF Comes
  <2> QED BY <1>5, <1>6, Zenon
<1>8. \A s \in 0..Len(p) : ResultOf(p, o)[s] = Comes(ResultOf(p, o), s)
  <2> HIDE DEF Comes
  <2> QED BY <1>7
<1> QED BY <1>1, <1>8

\* An outcome is there, and not <<>>.
LEMMA Outcome ==
  /\ Fut!Value # <<>> /\ \A i : Fut!Error(i) # <<>> /\ Fut!Error(i) # Fut!Value
  /\ \A i : Fut!Error(i) # <<>>
BY DEF Fut!Value, Fut!Error

\* What the steps rely on of the program.
LEMMA ProgramIs ==
  ASSUME Linear, Shapes
  PROVE  /\ Len(program) \in Nat /\ DOMAIN program = 1..Len(program) /\ attached \in 0..Len(program)
         /\ \A i \in 1..Len(program) : program[i].of \in 0..(i - 1) /\ program[i].exec \in BOOLEAN
         /\ \A i, j \in 1..Len(program) : program[i].of = program[j].of => i = j
         /\ Fut!Result[0] = outcome
         /\ \A i \in 1..Len(program) :
              Fut!Result[i] = IF Fut!Result[program[i].of] # Fut!Value THEN Fut!Result[program[i].of]
                              ELSE IF program[i].throws THEN Fut!Error(i) ELSE Fut!Value
<1>1. /\ program \in Seq(Attachment) /\ \A i \in DOMAIN program : program[i].of < i
      /\ \A i, j \in DOMAIN program : program[i].of = program[j].of => i = j
  BY DEF Linear, Shapes
<1>2. Len(program) \in Nat /\ DOMAIN program = 1..Len(program)
  BY <1>1, LenProperties
<1>3. ASSUME NEW i \in 1..Len(program) PROVE program[i].of \in 0..(i - 1) /\ program[i].exec \in BOOLEAN
  <2>1. program[i] \in Attachment /\ program[i].of < i
    BY <1>1, <1>2, ElementOfSeq
  <2>2. program[i].of \in Nat /\ program[i].exec \in BOOLEAN
    BY <2>1 DEF Attachment
  <2> QED BY <2>1, <2>2
<1>4. /\ Fut!Result[0] = outcome
      /\ \A i \in 1..Len(program) :
           Fut!Result[i] = IF Fut!Result[program[i].of] # Fut!Value THEN Fut!Result[program[i].of]
                           ELSE IF program[i].throws THEN Fut!Error(i) ELSE Fut!Value
  <2> DEFINE r == ResultOf(program, outcome)
  <2>1. /\ r[0] = outcome
        /\ \A i \in 1..Len(program) :
             r[i] = IF r[program[i].of] # Fut!Value THEN r[program[i].of]
                    ELSE IF program[i].throws THEN Fut!Error(i) ELSE Fut!Value
    BY <1>1, ResultStep
  <2>2. Fut!Result = r
    BY ResultIs
  <2> HIDE DEF r
  <2> QED BY <2>1, <2>2
<1>5. attached \in 0..Len(program)
  BY DEF Shapes
<1> QED BY <1>1, <1>2, <1>3, <1>4, <1>5

\* Result is of the program and its outcome only.
LEMMA ResultStays == program' = program /\ outcome' = outcome => Fut!Result' = Fut!Result
<1>1. Fut!Result = ResultOf(program, outcome) /\ (Fut!Result = ResultOf(program, outcome))'
  BY ResultIs, PTL
<1> QED BY <1>1

\* The shapes by what a thread does.
LEMMA ShapeOf ==
  ASSUME Linear, Shapes, NEW t \in Fut!Threads
  PROVE  /\ task[t].at \in {"idle", "settle", "taken", "run"}
         /\ task[t].at = "idle" => task[t] = Fut!Idle
         /\ task[t].at = "settle" =>
              task[t].of \in 0..attached /\ task[t].of \in Fut!States /\ task[t].with \in Outcomes
         /\ task[t].at = "taken" =>
              Job(t) \in 1..attached /\ task[t].of = program[Job(t)].of /\ task[t].with = Job(t)
         /\ task[t].at = "run" => Job(t) \in 1..attached /\ task[t].of = Job(t)
         /\ task[t].at \in {"idle", "settle"} => Job(t) = 0
         /\ Job(t) \in 0..attached /\ task[t].tries \in Seq(1..attached)
<1>1. Shape(task[t]) /\ attached \in 0..Len(program) /\ Len(program) \in Nat
  BY ProgramIs DEF Shapes
<1>2. \A s \in 0..attached : s \in Fut!States
  BY <1>1 DEF Fut!States
<1>3. CASE task[t] = Fut!Idle
  BY <1>1, <1>3 DEF Fut!Idle, Job
<1> DEFINE Tries == Seq(1..attached)
<1>4. ASSUME NEW tries \in Tries, NEW s \in 0..attached, NEW v \in Outcomes,
             task[t] = Fut!Settling(s, v, tries)
      PROVE  /\ task[t].at = "settle" /\ task[t].of = s /\ task[t].with = v /\ Job(t) = 0
             /\ task[t].tries \in Tries
  BY <1>4 DEF Fut!Settling, Job
<1>5. ASSUME NEW tries \in Tries, NEW i \in 1..attached, task[t] = Fut!Taken(program[i].of, i, tries)
      PROVE  /\ task[t].at = "taken" /\ task[t].of = program[i].of /\ task[t].with = i /\ Job(t) = i
             /\ task[t].tries \in Tries
  BY <1>5 DEF Fut!Taken, Job
<1>6. ASSUME NEW tries \in Tries, NEW i \in 1..attached, task[t] = Fut!Running(i, tries)
      PROVE  task[t].at = "run" /\ task[t].of = i /\ Job(t) = i /\ task[t].tries \in Tries
  BY <1>6 DEF Fut!Running, Job
<1> QED BY <1>1, <1>2, <1>3, <1>4, <1>5, <1>6 DEF Shape

\* A sequence, what Append makes of it, and its tail.
LEMMA SeqFacts ==
  ASSUME NEW S, NEW s \in Seq(S)
  PROVE  Len(s) \in Nat /\ DOMAIN s = 1..Len(s) /\ \A k \in 1..Len(s) : s[k] \in S
OBVIOUS

LEMMA Appended ==
  ASSUME NEW S, NEW s \in Seq(S), NEW x \in S
  PROVE  /\ Append(s, x) \in Seq(S) /\ DOMAIN Append(s, x) = 1..(Len(s) + 1)
         /\ Append(s, x)[Len(s) + 1] = x /\ \A k \in 1..Len(s) : Append(s, x)[k] = s[k]
BY AppendProperties

LEMMA Tailed ==
  ASSUME NEW S, NEW s \in Seq(S), s # <<>>
  PROVE  /\ Head(s) = s[1] /\ 1 \in 1..Len(s) /\ Tail(s) \in Seq(S)
         /\ DOMAIN Tail(s) = 1..(Len(s) - 1) /\ \A k \in 1..(Len(s) - 1) : Tail(s)[k] = s[k + 1]
OBVIOUS

LEMMA Fronted ==
  ASSUME NEW S, NEW s \in Seq(S), s # <<>>
  PROVE  /\ Len(s) \in DOMAIN s /\ SubSeq(s, 1, Len(s) - 1) \in Seq(S)
         /\ \A k \in DOMAIN SubSeq(s, 1, Len(s) - 1) :
              k \in DOMAIN s /\ SubSeq(s, 1, Len(s) - 1)[k] = s[k]
OBVIOUS

\* What has been posted and called was attached.
LEMMA Listed ==
  ASSUME Shapes
  PROVE  /\ posts \in Seq(1..attached) /\ Len(posts) \in Nat /\ DOMAIN posts = 1..Len(posts)
         /\ Len(calls) \in Nat /\ DOMAIN calls = 1..Len(calls)
         /\ \A j \in DOMAIN posts : posts[j] \in 1..attached
         /\ \A n \in DOMAIN calls : calls[n].of \in 1..attached
<1>1. Len(posts) \in Nat /\ DOMAIN posts = 1..Len(posts) /\ \A j \in 1..Len(posts) : posts[j] \in 1..attached
  BY SeqFacts DEF Shapes
<1> DEFINE Call == [of : 1..attached, by : Fut!Threads]
<1>2. Len(calls) \in Nat /\ DOMAIN calls = 1..Len(calls) /\ \A n \in 1..Len(calls) : calls[n] \in Call
  <2>1. calls \in Seq(Call)
    BY DEF Shapes
  <2> HIDE DEF Call
  <2> QED BY <2>1, SeqFacts
<1> QED BY <1>1, <1>2 DEF Shapes

\* What comes before what.
LEMMA Earlier ==
  ASSUME NEW i
  PROVE  /\ Fut!Before(i, i)
         /\ i # 0 => \A s : Fut!Before(s, program[i].of) => Fut!Before(s, i)
BY DEF Fut!Before

\* What has been run and thrown stays so.
LEMMA Remains ==
  ASSUME program' = program, outcome' = outcome, attached \in Nat, attached' \in Nat,
         attached <= attached', \A x \in 1..attached : Pending(x)' => Pending(x),
         \A n \in DOMAIN calls : n \in DOMAIN calls' /\ calls'[n] = calls[n]
  PROVE  /\ \A s : Closed(s) => Closed(s)'
         /\ \A s, v : Thrown(s, v) => Thrown(s, v)'
         /\ \A s, i : Fut!Before(s, i)' <=> Fut!Before(s, i)
<1>1. Fut!Result' = Fut!Result
  BY ResultStays
<1>2. \A s, i : Fut!Before(s, i)' <=> Fut!Before(s, i)
  BY DEF Fut!Before, Fut!States
<1>3. ASSUME NEW s, Closed(s) PROVE Closed(s)'
  <2>1. PICK i \in 1..attached : program[i].of = s /\ ~Pending(i)
    BY <1>3 DEF Closed
  <2>2. i \in 1..attached'
    OBVIOUS
  <2> QED BY <2>1, <2>2 DEF Closed
<1>4. ASSUME NEW s, NEW v, Thrown(s, v) PROVE Thrown(s, v)'
  <2>1. PICK n \in DOMAIN calls : v = Fut!Error(calls[n].of) /\ Fut!ThrowsAfter(calls[n].of, s)
    BY <1>4 DEF Thrown
  <2>2. n \in DOMAIN calls' /\ calls'[n] = calls[n]
    OBVIOUS
  <2>3. Fut!ThrowsAfter(calls[n].of, s)'
    BY <1>2, <2>1, <2>2 DEF Fut!ThrowsAfter
  <2>4. Fut!Error(calls[n].of)' = Fut!Error(calls[n].of)
    BY <2>2 DEF Fut!Error
  <2> QED BY <1>1, <1>3, <1>4, <2>1, <2>2, <2>3, <2>4 DEF Thrown, Fut!Value
<1> QED BY <1>2, <1>3, <1>4

\* The shapes go by what is attached.
LEMMA ShapeKept ==
  ASSUME program' = program, attached' = attached
  PROVE  \A k : Shape(k)' <=> Shape(k)
<1>1. Outcomes' = Outcomes
  BY DEF Outcomes, Fut!States
<1> QED BY <1>1 DEF Shape

\* A thread that does the same is inside the same tries.
LEMMA StillInside ==
  ASSUME NEW t, Enclosing(t), task'[t] = task[t], Job(t)' = Job(t), program' = program,
         Fut!Result' = Fut!Result,
         \A m \in DOMAIN task[t].tries :
           LET s == task[t].tries[m] IN
           /\ Ended(s) => Ended(s)'
           /\ value[s] # <<>> => value'[s] # <<>>
           /\ Closed(s) => Closed(s)',
         \A s, i : Fut!Before(s, i)' <=> Fut!Before(s, i), GoesOn(t)' => GoesOn(t)
  PROVE  Enclosing(t)'
<1>1. (task[t].at = "run" /\ task[t].tries # <<>> => ~program[task[t].of].exec)'
  BY DEF Enclosing
<1>2. ASSUME NEW m \in DOMAIN task[t].tries
      PROVE  (LET s == task[t].tries[m] IN
              /\ Fut!Result[s] = Fut!Value /\ Ended(s) /\ (GoesOn(t) => Fut!Before(s, task[t].of))
              /\ \/ task[t].at = "settle" /\ task[t].of = s
                 \/ value[s] # <<>> /\ (Closed(s) \/ (Job(t) # 0 /\ program[Job(t)].of = s)))'
  <2> DEFINE s == task[t].tries[m]
  <2>1. /\ Fut!Result[s] = Fut!Value /\ Ended(s) /\ (GoesOn(t) => Fut!Before(s, task[t].of))
        /\ \/ task[t].at = "settle" /\ task[t].of = s
           \/ value[s] # <<>> /\ (Closed(s) \/ (Job(t) # 0 /\ program[Job(t)].of = s))
    BY DEF Enclosing
  <2>2. s' = s /\ Fut!Value' = Fut!Value
    BY DEF Fut!Value
  <2>3. Ended(s)' /\ (value[s] # <<>> => value'[s] # <<>>) /\ (Closed(s) => Closed(s)')
    BY <2>1
  <2>4. GoesOn(t)' => Fut!Before(s, task[t].of)'
    BY <2>1, <2>2
  <2> QED BY <2>1, <2>2, <2>3, <2>4
<1> QED BY <1>1, <1>2 DEF Enclosing

\* A thread that is inside no try.
LEMMA Outside == ASSUME NEW t, task[t].tries = <<>> PROVE Enclosing(t)
BY DEF Enclosing

\* Only the promise's state is being settled at the start.
LEMMA ChainInit == ASSUME Linear, Fut!Init PROVE ChainInv
<1> USE DEF Fut!Init
<1>0. program \in Seq(Attachment) /\ Len(program) \in Nat
  BY DEF Linear
<1>1. 0 \in Fut!States /\ outcome \in Outcomes /\ attached = 0
  BY <1>0 DEF Fut!States, Outcomes
<1>2. \A t \in Fut!Threads : /\ Shape(task[t]) /\ Job(t) = 0
                             /\ task[t].at = "settle" => t = c1 /\ task[t].of = 0 /\ task[t].with = outcome
                             /\ task[t].tries = <<>>
  <2>1. <<>> \in Seq(1..attached)
    OBVIOUS
  <2>2. ASSUME NEW t \in Fut!Threads PROVE task[t] \in {Fut!Idle, Fut!Settling(0, outcome, <<>>)}
    OBVIOUS
  <2>3. ASSUME NEW k, k \in {Fut!Idle, Fut!Settling(0, outcome, <<>>)} PROVE Shape(k)
    <3>1. 0 \in 0..attached /\ outcome \in Outcomes
      BY <1>1
    <3> QED BY <2>1, <2>3, <3>1 DEF Shape
  <2>4. \A t \in Fut!Threads \ {c1} : task[t] = Fut!Idle
    OBVIOUS
  <2> HIDE DEF Fut!Init
  <2> QED BY <2>2, <2>3, <2>4 DEF Job, Fut!Idle, Fut!Settling
<1>3. Shapes
  BY <1>0, <1>1, <1>2 DEF Shapes
<1>4. Fut!Result[0] = outcome
  BY <1>3, ProgramIs
<1>5. Deciding /\ Decided /\ Trying
  BY <1>1, <1>2, <1>4, Outside DEF Deciding, Decided, Trying, Ended
<1>6. Waiting /\ PostedOnes /\ InHand
  <2>1. InHand
    BY <1>2 DEF InHand
  <2>2. Waiting
    BY DEF Waiting
  <2>3. PostedOnes
    BY DEF PostedOnes
  <2> QED BY <2>1, <2>2, <2>3
<1>7. Called /\ Fut!CalledInTurn
  BY DEF Called, Fut!CalledInTurn
<1> QED BY <1>3, <1>5, <1>6, <1>7 DEF ChainInv

\* A state is settled with what its chain comes to, and its continuation is taken.
LEMMA ChainSettle == ASSUME Linear, ChainInv, NEW t \in Fut!Threads, Fut!Settle(t) PROVE ChainInv'
<1> DEFINE s == task[t].of
           i == continuation[s]
<1> USE DEF ChainInv
<1>1. /\ s \in 0..attached /\ s \in Fut!States /\ task[t].with \in Outcomes /\ task[t].at = "settle"
      /\ Ended(s) /\ i \in 0..attached /\ Job(t) = 0 /\ task[t].tries \in Seq(1..attached)
      /\ \/ /\ value[s] = <<>> /\ task[t].with = Fut!Result[s]
            /\ \A u \in Fut!Threads : task[u].at = "settle" /\ task[u].of = s => t = u
         \/ value[s] # <<>> /\ Thrown(s, task[t].with)
  <2>1. task[t].at = "settle"
    BY DEF Fut!Settle
  <2> QED BY <2>1, ShapeOf DEF Deciding, Shapes
<1>2. /\ program' = program /\ outcome' = outcome /\ attached' = attached /\ executor' = executor
      /\ posts' = posts /\ calls' = calls /\ Fut!Result' = Fut!Result /\ Fut!States' = Fut!States
      /\ Outcomes' = Outcomes
  BY ResultStays DEF Fut!Settle, Fut!States, Outcomes
<1>3. /\ value' \in [Fut!States -> {<<>>} \cup Outcomes] /\ value'[s] = task[t].with /\ value'[s] # <<>>
      /\ \A x \in Fut!States \ {s} : value'[x] = value[x]
  <2>1. value' = [value EXCEPT ![s] = task[t].with] /\ task[t].with # <<>>
    BY <1>1, Outcome DEF Fut!Settle, Outcomes
  <2> QED BY <1>1, <2>1 DEF Shapes
<1>4. /\ continuation' \in [Fut!States -> 0..attached] /\ continuation'[s] = 0
      /\ \A x \in Fut!States \ {s} : continuation'[x] = continuation[x]
  BY <1>1 DEF Shapes, Fut!Settle
<1>5. /\ task' = [u \in Fut!Threads |-> task'[u]] /\ \A u \in Fut!Threads \ {t} : task'[u] = task[u]
      /\ task'[t] = IF i = 0 THEN Fut!Idle ELSE Fut!Taken(s, i, task[t].tries)
      /\ held' \in [Fut!Threads -> SUBSET Fut!States]
  BY DEF Fut!Settle, Fut!Done, Fut!Does, Shapes
<1>6. /\ \A u \in Fut!Threads \ {t} : Job(u)' = Job(u)
      /\ Job(t)' = i /\ task'[t].at = (IF i = 0 THEN "idle" ELSE "taken") /\ task'[t].of = (IF i = 0 THEN 0 ELSE s)
  BY <1>5 DEF Job, Fut!Idle, Fut!Taken
<1>7. i # 0 => program[i].of = s /\ executor[s] = program[i].exec /\ value[s] = <<>>
  BY <1>1 DEF Waiting
<1>8. Shapes'
  <2>1. \A u \in Fut!Threads \ {t} : Shape(task[u])'
    BY <1>2, <1>5, ShapeKept DEF Shapes
  <2>2. Shape(task[t])'
    <3>1. i = 0 => Shape(task[t])'
      BY <1>5 DEF Shape
    <3>2. i # 0 => i \in 1..attached' /\ task'[t] = Fut!Taken(program'[i].of, i, task[t].tries)
      BY <1>1, <1>2, <1>5, <1>7
    <3>3. task[t].tries \in Seq(1..attached')
      BY <1>1, <1>2
    <3> QED BY <3>1, <3>2, <3>3 DEF Shape
  <2> QED BY <1>2, <1>3, <1>4, <1>5, <2>1, <2>2 DEF Shapes
<1>9. \A x : x # 0 /\ Pending(x)' => Pending(x)
  BY <1>1, <1>2, <1>4, <1>6 DEF Pending
<1>10. \A x : Ended(x) => Ended(x)'
  BY <1>2, <1>9 DEF Ended
<1>11. Waiting'
  BY <1>2, <1>3, <1>4 DEF Waiting
<1>12. \A j \in DOMAIN posts : posts[j] \in 1..attached
  BY Listed
<1>13. /\ \A n \in 1..attached : program[n].of \in Fut!States
       /\ \A x \in Fut!States : value[x] # <<>> => value'[x] # <<>>
  BY <1>1, <1>3, ProgramIs DEF Fut!States
<1>14. PostedOnes'
  BY <1>2, <1>4, <1>6, <1>12, <1>13 DEF PostedOnes
<1>15. InHand'
  <2> SUFFICES ASSUME NEW u \in Fut!Threads, Job(u)' # 0
               PROVE  (/\ value[program[Job(u)].of] # <<>>
                       /\ task[u].at = "taken" => executor[task[u].of] = program[Job(u)].exec
                       /\ task[u].at = "run" /\ program[Job(u)].exec => u \in Workers
                       /\ \A w \in Fut!Threads : Job(u) = Job(w) => u = w
                       /\ \A x \in Fut!States : continuation[x] # Job(u)
                       /\ \A j \in DOMAIN posts : posts[j] # Job(u))'
    BY <1>2 DEF InHand
  <2>1. CASE u # t
    <3>1. Job(u) \in 1..attached
      BY <1>6, <2>1, ShapeOf
    <3> QED BY <1>1, <1>2, <1>4, <1>5, <1>6, <1>13, <2>1, <3>1 DEF InHand
  <2>2. CASE u = t
    <3>1. i # 0 /\ Job(u)' = i /\ \A x \in Fut!States : continuation[x] = i => x = s
      BY <1>1, <1>6, <1>7, <2>2 DEF Waiting
    <3>2. \A w \in Fut!Threads \ {t} : Job(w)' # i
      BY <1>1, <1>6, <3>1, ShapeOf DEF InHand
    <3>3. \A j \in DOMAIN posts : posts[j] # i
      BY <1>1 DEF PostedOnes
    <3> QED BY <1>1, <1>2, <1>3, <1>4, <1>6, <1>7, <2>2, <3>1, <3>2, <3>3
  <2> QED BY <2>1, <2>2
<1>20. /\ \A x : Closed(x) => Closed(x)'
       /\ \A x, v : Thrown(x, v) => Thrown(x, v)'
       /\ \A x, n : Fut!Before(x, n)' <=> Fut!Before(x, n)
  <2>1. attached \in Nat /\ attached' = attached /\ \A x \in 1..attached : x # 0
    BY <1>2, ProgramIs
  <2> HIDE DEF ChainInv
  <2> QED BY <1>2, <1>9, <2>1, Remains
<1>16. Deciding'
  <2> SUFFICES ASSUME NEW u \in Fut!Threads, task'[u].at = "settle"
               PROVE  (LET x == task[u].of IN
                       /\ Ended(x)
                       /\ \/ /\ value[x] = <<>> /\ task[u].with = Fut!Result[x]
                             /\ \A w \in Fut!Threads : task[w].at = "settle" /\ task[w].of = x => u = w
                          \/ value[x] # <<>> /\ Thrown(x, task[u].with))'
    BY <1>2 DEF Deciding
  <2> DEFINE x == task[u].of
  <2>1. u # t /\ task'[u] = task[u] /\ x \in Fut!States
    BY <1>5, <1>6, ShapeOf
  <2>2. /\ Ended(x)
        /\ \/ /\ value[x] = <<>> /\ task[u].with = Fut!Result[x]
              /\ \A w \in Fut!Threads : task[w].at = "settle" /\ task[w].of = x => u = w
           \/ value[x] # <<>> /\ Thrown(x, task[u].with)
    BY <2>1 DEF Deciding
  <2>3. CASE value[x] = <<>>
    <3>1. x # s
      BY <1>1, <2>1, <2>2, <2>3
    <3>2. value'[x] = <<>>
      BY <1>3, <2>1, <2>3, <3>1
    <3> QED BY <1>2, <1>5, <1>6, <1>10, <2>1, <2>2, <2>3, <3>2
  <2>4. CASE value[x] # <<>>
    <3>1. value'[x] # <<>> /\ Thrown(x, task[u].with)'
      BY <1>13, <1>20, <2>1, <2>2, <2>4
    <3> QED BY <1>10, <2>1, <2>2, <3>1
  <2> QED BY <2>3, <2>4
<1>17. Decided'
  <2> SUFFICES ASSUME NEW x \in Fut!States, value'[x] # <<>>
               PROVE  (Ended(x) /\ (value[x] = Fut!Result[x] \/ Thrown(x, value[x])))'
    BY <1>2 DEF Decided
  <2>1. CASE x = s
    <3>1. \A v : v = value'[x] => v = Fut!Result[x] \/ Thrown(x, v)'
      <4>1. \A v : v = value'[x] => v = Fut!Result[x] \/ Thrown(x, v)
        BY <1>1, <1>3, <2>1
      <4> QED BY <1>20, <4>1
    <3>2. \A v : v = value'[x] /\ Thrown(x, v)' => Thrown(x, value[x])'
      BY DEF Thrown
    <3>3. Ended(x)'
      BY <1>1, <1>10, <2>1
    <3> HIDE DEF s, ChainInv
    <3> QED BY <1>2, <3>1, <3>2, <3>3
  <2>2. CASE x # s
    <3>1. value'[x] = value[x] /\ Ended(x) /\ (value[x] = Fut!Result[x] \/ Thrown(x, value[x]))
      BY <1>3, <2>2 DEF Decided
    <3>2. \A v : v = value'[x] /\ Thrown(x, v)' => Thrown(x, value[x])'
      BY DEF Thrown
    <3> HIDE DEF s, ChainInv
    <3> QED BY <1>2, <1>10, <1>20, <3>1, <3>2
  <2> QED BY <2>1, <2>2
<1>21. Trying'
  <2>1. ASSUME NEW u \in Fut!Threads \ {t} PROVE Enclosing(u)'
    <3>1. Enclosing(u) /\ task'[u] = task[u] /\ Job(u)' = Job(u)
      BY <1>5, <1>6 DEF Trying
    <3>2. \A m \in DOMAIN task[u].tries : task[u].tries[m] \in Fut!States
      BY <1>2, ShapeOf, ProgramIs DEF Fut!States
    <3>3. GoesOn(u)' => GoesOn(u)
      BY <1>13, <3>1, ShapeOf DEF GoesOn
    <3> HIDE DEF ChainInv
    <3> QED BY <1>2, <1>10, <1>13, <1>20, <3>1, <3>2, <3>3, StillInside
  <2>2. Enclosing(t)'
    <3>1. CASE i = 0
      <4>1. task'[t].tries = <<>>
        BY <1>5, <3>1 DEF Fut!Idle
      <4> QED BY <4>1 DEF Enclosing
    <3>2. CASE i # 0
      <4>1. /\ task'[t].tries = task[t].tries /\ task'[t].at = "taken" /\ task'[t].of = s
            /\ Job(t)' = i /\ program'[i].of = s
        BY <1>2, <1>5, <1>6, <1>7, <3>2 DEF Fut!Taken
      <4>2. ASSUME NEW m \in DOMAIN task[t].tries, NEW x, NEW of, x = task[t].tries[m], of = s
            PROVE  /\ Fut!Result[x] = Fut!Value /\ Ended(x)' /\ Fut!Before(x, of)'
                   /\ value'[x] # <<>> /\ (Closed(x)' \/ x = of)
        <5>1. /\ Fut!Result[x] = Fut!Value /\ Ended(x) /\ Fut!Before(x, of)
              /\ x = of \/ (value[x] # <<>> /\ Closed(x))
          BY <1>1, <1>7, <3>2, <4>2 DEF Trying, Enclosing, GoesOn
        <5>2. x \in Fut!States
          BY <1>1, <4>2, ProgramIs DEF Fut!States
        <5>3. value'[of] # <<>>
          BY <1>3, <4>2
        <5> HIDE DEF ChainInv, s, i
        <5> QED BY <1>10, <1>13, <1>20, <5>1, <5>2, <5>3
      <4>3. ~(task'[t].at = "run") /\ Fut!Value' = Fut!Value /\ i # 0
        BY <3>2, <4>1 DEF Fut!Value
      <4>4. PICK of : of = s
        OBVIOUS
      <4> SUFFICES ASSUME NEW m \in DOMAIN task[t].tries, NEW x, x = task[t].tries[m]
                   PROVE  /\ Fut!Result[x]' = Fut!Value' /\ Ended(x)' /\ Fut!Before(x, of)'
                          /\ value'[x] # <<>> /\ (Closed(x)' \/ (Job(t)' # 0 /\ program'[Job(t)'].of = x))
        <5> HIDE DEF i, s, ChainInv
        <5> QED BY <4>1, <4>3, <4>4 DEF Enclosing
      <4> QED BY <1>2, <4>1, <4>2, <4>3, <4>4
    <3> QED BY <3>1, <3>2
  <2> QED BY <1>2, <2>1, <2>2 DEF Trying, Fut!Threads
<1>18. \A n \in DOMAIN calls : calls[n].of \in 1..attached
  BY Listed
<1>19. Called' /\ Fut!CalledInTurn'
  <2>1. Called'
    BY <1>2, <1>9, <1>13, <1>18 DEF Called
  <2>2. Fut!CalledInTurn'
    BY <1>2 DEF Fut!CalledInTurn, Fut!ToBeCalled
  <2> QED BY <2>1, <2>2
<1> QED BY <1>8, <1>11, <1>14, <1>15, <1>16, <1>17, <1>19, <1>21

\* The continuation taken is posted to its group, or run by the thread that took it.
LEMMA ChainDispatch == ASSUME Linear, ChainInv, NEW t \in Fut!Threads, Fut!Dispatch(t) PROVE ChainInv'
<1> DEFINE i == task[t].with
<1> USE DEF ChainInv
<1>1. /\ task[t].at = "taken" /\ i = Job(t) /\ i \in 1..attached /\ task[t].of = program[i].of
      /\ i \in 1..Len(program) /\ executor[task[t].of] = program[i].exec
      /\ value[program[i].of] # <<>> /\ i # 0
  BY ShapeOf, ProgramIs DEF Fut!Dispatch, InHand
<1>2. /\ program' = program /\ outcome' = outcome /\ attached' = attached /\ executor' = executor
      /\ value' = value /\ continuation' = continuation /\ calls' = calls
      /\ Fut!Result' = Fut!Result /\ Fut!States' = Fut!States /\ Outcomes' = Outcomes
  BY ResultStays DEF Fut!Dispatch, Fut!States, Outcomes
<1>3. /\ \/ program[i].exec /\ posts' = Append(posts, i) /\ task' = [task EXCEPT ![t] = Fut!Idle]
         \/ ~program[i].exec /\ posts' = posts /\ task' = [task EXCEPT ![t] = Fut!Running(i, task[t].tries)]
      /\ held' \in [Fut!Threads -> SUBSET Fut!States]
  BY <1>1 DEF Fut!Dispatch, Fut!Done, Fut!Does, Shapes
<1>4. \A u \in Fut!Threads \ {t} : task'[u] = task[u] /\ Job(u)' = Job(u)
  BY <1>3 DEF Shapes, Job
<1>5. /\ \A j \in DOMAIN posts : posts[j] # i
      /\ \A u \in Fut!Threads \ {t} : Job(u) # i
      /\ \A x \in Fut!States : continuation[x] # i
  BY <1>1 DEF InHand
<1>6. Waiting' /\ Fut!CalledInTurn'
  BY <1>2 DEF Waiting, Fut!CalledInTurn, Fut!ToBeCalled
<1>9. attached \in Nat /\ attached' = attached /\ \A x \in 1..attached : x # 0
  BY <1>2, ProgramIs
<1>10. /\ Enclosing(t) /\ task[t].tries \in Seq(1..attached) /\ 1..attached \subseteq Fut!States
       /\ \A u \in Fut!Threads \ {t} :
            Enclosing(u) /\ \A m \in DOMAIN task[u].tries : task[u].tries[m] \in Fut!States
  <2>1. 1..attached \subseteq Fut!States
    BY ProgramIs DEF Fut!States
  <2>2. ASSUME NEW u \in Fut!Threads, NEW m \in DOMAIN task[u].tries PROVE task[u].tries[m] \in Fut!States
    <3> DEFINE tries == task[u].tries
    <3>1. tries \in Seq(1..attached)
      BY ShapeOf
    <3> HIDE DEF tries
    <3>2. DOMAIN tries = 1..Len(tries) /\ \A k \in 1..Len(tries) : tries[k] \in 1..attached
      BY <3>1, SeqFacts
    <3> QED BY <2>1, <3>2 DEF tries
  <2> QED BY <2>1, <2>2, ShapeOf DEF Trying
\* What follows of either step, which puts the continuation nowhere new.
<1>11. ASSUME \A x : x # 0 /\ Pending(x)' => Pending(x), \A x : Ended(x) => Ended(x)', Enclosing(t)',
              task'[t].at # "settle"
       PROVE  Deciding' /\ Decided' /\ Trying'
  <2>1. /\ \A x : Closed(x) => Closed(x)'
        /\ \A x, v : Thrown(x, v) => Thrown(x, v)'
        /\ \A x, n : Fut!Before(x, n)' <=> Fut!Before(x, n)
    <3> HIDE DEF ChainInv
    <3> QED BY <1>2, <1>9, <1>11, Remains
  <2>2. Decided'
    BY <1>2, <1>11, <2>1 DEF Decided
  <2>3. Deciding'
    BY <1>2, <1>4, <1>11, <2>1 DEF Deciding
  <2>4. \A u \in Fut!Threads \ {t} : Enclosing(u)'
    <3>1. \A u \in Fut!Threads \ {t} : GoesOn(u)' <=> GoesOn(u)
      BY <1>2, <1>4 DEF GoesOn
    <3> HIDE DEF ChainInv, i
    <3> QED BY <1>2, <1>4, <1>10, <1>11, <2>1, <3>1, StillInside
  <2> QED BY <1>11, <2>2, <2>3, <2>4 DEF Trying, Fut!Threads
<1>7. CASE program[i].exec
  <2>1. /\ posts' \in Seq(1..attached) /\ DOMAIN posts' = 1..(Len(posts) + 1) /\ Len(posts) \in Nat
        /\ DOMAIN posts = 1..Len(posts) /\ posts'[Len(posts) + 1] = i
        /\ \A j \in 1..Len(posts) : posts'[j] = posts[j] /\ posts[j] \in 1..attached
    <3>1. posts' = Append(posts, i) /\ posts \in Seq(1..attached) /\ i \in 1..attached
      BY <1>1, <1>3, <1>7, Listed
    <3> HIDE DEF i
    <3>2. /\ Append(posts, i) \in Seq(1..attached) /\ DOMAIN Append(posts, i) = 1..(Len(posts) + 1)
          /\ Append(posts, i)[Len(posts) + 1] = i
          /\ \A j \in 1..Len(posts) : Append(posts, i)[j] = posts[j]
      BY <3>1, Appended
    <3> QED BY <3>1, <3>2, Listed
  <2>2. task'[t] = Fut!Idle /\ Job(t)' = 0 /\ task' = [u \in Fut!Threads |-> task'[u]] /\ task'[t].at = "idle"
    BY <1>3, <1>7 DEF Shapes, Job, Fut!Idle
  <2>3. Shapes'
    <3>0. \A u \in Fut!Threads : Shape(task[u])
      BY DEF Shapes
    <3>1. \A u \in Fut!Threads \ {t} : Shape(task[u])'
      BY <1>2, <1>4, <3>0, ShapeKept
    <3>2. Shape(task[t])'
      BY <2>2 DEF Shape
    <3> QED BY <1>2, <1>3, <2>1, <2>2, <3>1, <3>2 DEF Shapes
  <2>4. \A x : x # 0 /\ Pending(x)' => Pending(x)
    BY <1>1, <1>2, <1>4, <2>1, <2>2 DEF Pending
  <2>5. \A x : Ended(x) => Ended(x)'
    BY <1>2, <2>4 DEF Ended
  <2>6. PostedOnes'
    <3>1. \A k \in DOMAIN posts' :
            \/ k = Len(posts) + 1 /\ posts'[k] = i
            \/ k \in DOMAIN posts /\ posts'[k] = posts[k] /\ posts[k] # i
      BY <1>5, <2>1
    <3>2. \A k \in DOMAIN posts' : value'[program'[posts'[k]].of] # <<>> /\ program'[posts'[k]].exec
      BY <1>1, <1>2, <1>7, <3>1 DEF PostedOnes
    <3>3. \A j, k \in DOMAIN posts' : posts'[j] = posts'[k] => j = k
      BY <3>1 DEF PostedOnes
    <3>4. \A j \in DOMAIN posts', x \in Fut!States : posts'[j] # continuation'[x]
      BY <1>2, <1>5, <3>1 DEF PostedOnes
    <3> QED BY <1>2, <3>2, <3>3, <3>4 DEF PostedOnes
  <2>7. InHand'
    BY <1>2, <1>4, <1>5, <2>1, <2>2 DEF InHand
  <2>8. Deciding' /\ Decided' /\ Trying'
    <3>1. Enclosing(t)'
      BY <2>2 DEF Enclosing, Fut!Idle
    <3> QED BY <1>11, <2>2, <2>4, <2>5, <3>1
  <2>9. Called'
    BY <1>2, <2>4, Listed DEF Called
  <2> QED BY <1>6, <2>3, <2>6, <2>7, <2>8, <2>9
<1>8. CASE ~program[i].exec
  <2>1. posts' = posts
    BY <1>3, <1>8
  <2>2. /\ task'[t] = Fut!Running(i, task[t].tries) /\ Job(t)' = i /\ task' = [u \in Fut!Threads |-> task'[u]]
        /\ task'[t].at = "run"
    BY <1>3, <1>8 DEF Shapes, Job, Fut!Running
  <2>3. Shapes'
    <3>0. \A u \in Fut!Threads : Shape(task[u])
      BY DEF Shapes
    <3>1. \A u \in Fut!Threads \ {t} : Shape(task[u])'
      BY <1>2, <1>4, <3>0, ShapeKept
    <3>2. Shape(task[t])'
      BY <1>1, <1>2, <1>10, <2>2 DEF Shape
    <3> QED BY <1>2, <1>3, <2>1, <2>2, <3>1, <3>2 DEF Shapes
  <2>4. \A x : x # 0 /\ Pending(x)' => Pending(x)
    BY <1>1, <1>2, <1>4, <2>1, <2>2 DEF Pending
  <2>5. \A x : Ended(x) => Ended(x)'
    BY <1>2, <2>4 DEF Ended
  <2>6. PostedOnes'
    BY <1>2, <2>1 DEF PostedOnes
  <2>7. InHand'
    BY <1>1, <1>2, <1>4, <1>5, <1>8, <2>1, <2>2 DEF InHand
  <2>8. Deciding' /\ Decided' /\ Trying'
    <3>1. Enclosing(t)'
      <4>1. \A m \in DOMAIN task[t].tries :
              LET x == task[t].tries[m] IN
              /\ Fut!Result[x] = Fut!Value /\ Ended(x) /\ Fut!Before(x, i)
              /\ value[x] # <<>> /\ (Closed(x) \/ program[i].of = x)
        BY <1>1, <1>10, Earlier DEF Enclosing, GoesOn
      <4>2. task'[t].tries = task[t].tries /\ task'[t].of = i
        BY <2>2 DEF Fut!Running
      <4>3. /\ \A x : Closed(x) => Closed(x)'
            /\ \A x, n : Fut!Before(x, n)' <=> Fut!Before(x, n)
        <5> HIDE DEF ChainInv
        <5> QED BY <1>2, <1>9, <2>4, Remains
      <4>4. PICK n : n = i
        OBVIOUS
      <4> HIDE DEF i, ChainInv
      <4>5. ASSUME NEW m \in DOMAIN task[t].tries, NEW x, x = task[t].tries[m]
            PROVE  /\ Fut!Result[x]' = Fut!Value' /\ Ended(x)' /\ Fut!Before(x, n)'
                   /\ value'[x] # <<>> /\ (Closed(x)' \/ (Job(t)' # 0 /\ program'[Job(t)'].of = x))
        BY <1>1, <1>2, <2>2, <2>5, <4>1, <4>3, <4>4, <4>5 DEF Fut!Value
      <4> QED BY <1>2, <1>8, <2>2, <4>2, <4>4, <4>5 DEF Enclosing
    <3> QED BY <1>11, <2>2, <2>4, <2>5, <3>1
  <2>9. Called'
    BY <1>2, <2>4, Listed DEF Called
  <2> QED BY <1>6, <2>3, <2>6, <2>7, <2>8, <2>9
<1> QED BY <1>7, <1>8, <1>1, ProgramIs

\* A thread that has run a continuation has called its function, where that is called for,
\* for the only time, and before those of the states that follow.
LEMMA ChainCalls ==
  ASSUME Linear, ChainInv, NEW t \in Fut!Threads, NEW i, i = Job(t), task[t].at = "run",
         UNCHANGED <<program, outcome, attached, value, continuation, posts>>,
         \A u \in Fut!Threads \ {t} : Job(u)' = Job(u), Job(t)' = 0,
         \/ calls' = calls
         \/ calls' = Append(calls, [of |-> i, by |-> t]) /\ Fut!ToBeCalled(i)
  PROVE  /\ calls' \in Seq([of : 1..attached, by : Fut!Threads])
         /\ \A x : x # 0 => (Pending(x)' <=> Pending(x) /\ x # i)
         /\ \A n \in DOMAIN calls : n \in DOMAIN calls' /\ calls'[n] = calls[n]
         /\ calls' # calls => \E n \in DOMAIN calls' : calls'[n].of = i
         /\ Called' /\ Fut!CalledInTurn'
<1> USE DEF ChainInv
<1> DEFINE call == [of |-> i, by |-> t]
           Call == [of : 1..attached, by : Fut!Threads]
<1>1. /\ i \in 1..attached /\ i # 0 /\ value[program[i].of] # <<>> /\ Pending(i)
      /\ program[i].exec => t \in Workers
      /\ \A u \in Fut!Threads \ {t} : Job(u) # i
      /\ \A s \in Fut!States : continuation[s] # i
      /\ \A j \in DOMAIN posts : posts[j] # i
  BY ShapeOf DEF InHand, Pending
<1>2. /\ Fut!Result' = Fut!Result /\ Fut!States' = Fut!States
      /\ \A x : Fut!ToBeCalled(x)' <=> Fut!ToBeCalled(x)
  <2>1. Fut!Result' = Fut!Result
    BY ResultStays
  <2> QED BY <2>1 DEF Fut!States, Fut!ToBeCalled
<1>3. \A x : x # 0 => (Pending(x)' <=> Pending(x) /\ x # i)
  BY <1>1, <1>2 DEF Pending
<1>4. \A n \in DOMAIN calls : calls[n].of \in 1..attached /\ calls[n].of # i
  BY <1>1, Listed DEF Called
<1>5. CASE calls' = calls
  <2>1. calls' \in Seq(Call)
    BY <1>5 DEF Shapes
  <2>2. Called'
    BY <1>3, <1>4, <1>5 DEF Called
  <2>3. Fut!CalledInTurn'
    BY <1>2, <1>5 DEF Fut!CalledInTurn
  <2> QED BY <1>3, <1>5, <2>1, <2>2, <2>3
<1>6. CASE calls' = Append(calls, call) /\ Fut!ToBeCalled(i)
  <2>1. call \in Call /\ calls \in Seq(Call) /\ call.of = i /\ call.by = t
    BY <1>1 DEF Shapes
  <2>2. /\ calls' \in Seq(Call) /\ DOMAIN calls' = 1..(Len(calls) + 1) /\ calls'[Len(calls) + 1] = call
        /\ \A n \in 1..Len(calls) : calls'[n] = calls[n]
    <3> HIDE DEF call, Call
    <3>1. /\ Append(calls, call) \in Seq(Call) /\ DOMAIN Append(calls, call) = 1..(Len(calls) + 1)
          /\ Append(calls, call)[Len(calls) + 1] = call
          /\ \A n \in 1..Len(calls) : Append(calls, call)[n] = calls[n]
      BY <2>1, Appended
    <3> QED BY <1>6, <3>1
  <2>3. Len(calls) \in Nat /\ DOMAIN calls = 1..Len(calls)
    BY Listed
  <2> HIDE DEF call, Call
  <2>4. \A n \in DOMAIN calls' : IF n = Len(calls) + 1 THEN calls'[n].of = i /\ calls'[n].by = t
                                 ELSE n \in DOMAIN calls /\ calls'[n] = calls[n]
    BY <2>1, <2>2, <2>3
  <2>5. Called'
    <3> SUFFICES ASSUME NEW n \in DOMAIN calls'
                 PROVE  (~Pending(calls[n].of) /\ value[program[calls[n].of].of] # <<>>)'
      BY DEF Called
    <3>1. CASE n = Len(calls) + 1
      BY <1>1, <1>3, <2>4, <3>1
    <3>2. CASE n # Len(calls) + 1
      BY <1>1, <1>3, <1>4, <2>4, <3>2 DEF Called
    <3> QED BY <3>1, <3>2
  <2>6. Fut!CalledInTurn'
    <3> SUFFICES ASSUME NEW m \in DOMAIN calls', NEW n \in DOMAIN calls'
                 PROVE  LET k == calls'[n].of IN
                        /\ calls'[m].of = k => m = n
                        /\ calls'[m].of = program[k].of => m < n
                        /\ Fut!ToBeCalled(k) /\ (program[k].exec => calls'[n].by \in Workers)
      BY <1>2 DEF Fut!CalledInTurn
    <3>1. CASE n = Len(calls) + 1
      <4>1. calls'[n].of = i /\ calls'[n].by = t /\ program[i].of # i
        BY <1>1, <2>4, <3>1, ProgramIs
      <4>2. m = n \/ (m \in DOMAIN calls /\ m < n /\ calls'[m].of # i)
        BY <1>4, <2>3, <2>4, <3>1
      <4> QED BY <1>1, <1>6, <2>4, <3>1, <4>1, <4>2
    <3>2. CASE n # Len(calls) + 1
      <4> DEFINE k == calls[n].of
      <4>1. n \in DOMAIN calls /\ calls'[n] = calls[n] /\ k # i /\ k \in 1..attached
        BY <1>4, <2>4, <3>2
      <4>2. value[program[k].of] # <<>>
        BY <4>1 DEF Called
      <4>3. program[k].of # i
        <5>1. program[k].of \in Fut!States
          BY <4>1, ProgramIs DEF Fut!States
        <5> QED BY <1>1, <4>2, <5>1 DEF Decided, Ended
      <4>4. CASE m = Len(calls) + 1
        BY <2>4, <4>1, <4>3, <4>4 DEF Fut!CalledInTurn
      <4>5. CASE m # Len(calls) + 1
        BY <2>4, <4>1, <4>5 DEF Fut!CalledInTurn
      <4> QED BY <4>4, <4>5
    <3> QED BY <3>1, <3>2
  <2>7. /\ \A n \in DOMAIN calls : n \in DOMAIN calls' /\ calls'[n] = calls[n]
        /\ \E n \in DOMAIN calls' : calls'[n].of = i
    BY <2>1, <2>2, <2>3
  <2> QED BY <1>3, <2>2, <2>5, <2>6, <2>7 DEF Call
<1> QED BY <1>5, <1>6

\* The conjuncts that a thread leaves alone when it has run a continuation.
LEMMA ChainRan ==
  ASSUME Linear, ChainInv, NEW t \in Fut!Threads, task[t].at = "run", NEW of, NEW done,
         UNCHANGED <<program, outcome, attached, value, continuation, executor, posts>>,
         task' = [task EXCEPT ![t] = done], Shape(done), done.at \in {"idle", "settle"},
         held' \in [Fut!Threads -> SUBSET Fut!States],
         of = Job(t), calls' \in Seq([of : 1..attached, by : Fut!Threads]),
         \A n \in DOMAIN calls : n \in DOMAIN calls' /\ calls'[n] = calls[n],
         \A x : x # 0 => (Pending(x)' <=> Pending(x) /\ x # of), Enclosing(t)',
         done.at = "settle" =>
           \/ value[done.of] = <<>> /\ done.with = Fut!Result[done.of] /\ done.of = of
           \/ value[done.of] # <<>> /\ Ended(done.of) /\ Thrown(done.of, done.with)'
  PROVE  Shapes' /\ Waiting' /\ PostedOnes' /\ InHand' /\ Deciding' /\ Decided' /\ Trying'
<1> USE DEF ChainInv
<1>1. Fut!Result' = Fut!Result /\ Fut!States' = Fut!States /\ Outcomes' = Outcomes
  <2>1. Fut!Result' = Fut!Result
    BY ResultStays
  <2> QED BY <2>1 DEF Fut!States, Outcomes
<1>2. /\ task'[t] = done /\ Job(t)' = 0 /\ task' = [u \in Fut!Threads |-> task'[u]]
      /\ \A u \in Fut!Threads \ {t} : task'[u] = task[u] /\ Job(u)' = Job(u)
  BY DEF Shapes, Job
<1>3. Shapes'
  <2>2. \A u \in Fut!Threads : Shape(task'[u])
    BY <1>2 DEF Shapes
  <2>3. \A u \in Fut!Threads : Shape(task[u])'
    BY <1>1, <2>2, ShapeKept
  <2> QED BY <1>1, <1>2, <2>3 DEF Shapes
<1>4. Waiting' /\ PostedOnes'
  BY <1>1 DEF Waiting, PostedOnes
<1>5. InHand'
  BY <1>1, <1>2 DEF InHand
<1>6. of \in 1..attached /\ Pending(of) /\ of # 0 /\ attached \in Nat
  BY ShapeOf, ProgramIs DEF Pending
<1>7. \A x : Ended(x) => Ended(x)'
  BY <1>6 DEF Ended
<1>10. /\ \A x : Closed(x) => Closed(x)'
       /\ \A x, v : Thrown(x, v) => Thrown(x, v)'
       /\ \A x, n : Fut!Before(x, n)' <=> Fut!Before(x, n)
  <2>1. attached <= attached' /\ \A x \in 1..attached : Pending(x)' => Pending(x)
    BY <1>6
  <2> HIDE DEF ChainInv
  <2> QED BY <1>6, <2>1, Remains
<1>8. Decided'
  BY <1>1, <1>7, <1>10 DEF Decided
<1>9. Deciding'
  <2> SUFFICES ASSUME NEW u \in Fut!Threads, task[u]'.at = "settle"
               PROVE  (LET s == task[u].of IN
                       /\ Ended(s)
                       /\ \/ /\ value[s] = <<>> /\ task[u].with = Fut!Result[s]
                             /\ \A w \in Fut!Threads : task[w].at = "settle" /\ task[w].of = s => u = w
                          \/ value[s] # <<>> /\ Thrown(s, task[u].with))'
    BY <1>1 DEF Deciding
  <2>1. \A w \in Fut!Threads \ {t} : task[w].at = "settle" => task[w].of # of
    BY <1>6 DEF Deciding, Ended
  <2>2. CASE u = t
    <3>1. Ended(of)'
      BY <1>6 DEF Ended
    <3>2. CASE value[done.of] = <<>> /\ done.with = Fut!Result[done.of] /\ done.of = of
      BY <1>1, <1>2, <2>1, <2>2, <3>1, <3>2
    <3>3. CASE value[done.of] # <<>> /\ Ended(done.of) /\ Thrown(done.of, done.with)'
      BY <1>2, <1>7, <2>2, <3>3
    <3> QED BY <1>2, <2>2, <3>2, <3>3
  <2>3. CASE u # t
    <3> DEFINE s == task[u].of
    <3>1. /\ task'[u] = task[u] /\ Ended(s)
          /\ \/ /\ value[s] = <<>> /\ task[u].with = Fut!Result[s]
                /\ \A w \in Fut!Threads : task[w].at = "settle" /\ task[w].of = s => u = w
             \/ value[s] # <<>> /\ Thrown(s, task[u].with)
      BY <1>2, <2>3 DEF Deciding
    <3>2. CASE value[s] = <<>>
      <4>1. s # of
        BY <1>2, <2>1, <2>3
      <4>2. done.at = "settle" => done.of # s
        BY <3>2, <4>1
      <4> QED BY <1>1, <1>2, <1>7, <2>3, <3>1, <3>2, <4>2
    <3>3. CASE value[s] # <<>>
      BY <1>7, <1>10, <3>1, <3>3
    <3> QED BY <3>2, <3>3
  <2> QED BY <2>2, <2>3
<1>11. Trying'
  <2>1. ASSUME NEW u \in Fut!Threads \ {t} PROVE Enclosing(u)'
    <3>1. Enclosing(u) /\ (GoesOn(u)' => GoesOn(u))
      BY <1>2 DEF Trying, GoesOn
    <3> HIDE DEF ChainInv
    <3> QED BY <1>1, <1>2, <1>7, <1>10, <3>1, StillInside
  <2> QED BY <1>1, <2>1 DEF Trying, Fut!Threads
<1> QED BY <1>3, <1>4, <1>5, <1>8, <1>9, <1>11

\* A continuation of Then goes on to settle the state that Then returned; a handler that
\* throws, the state of the innermost try.
LEMMA ChainRun ==
  ASSUME Linear, ChainInv, NEW t \in Fut!Threads, Fut!RunThen(t) \/ Fut!RunOnError(t)
  PROVE  ChainInv'
<1> DEFINE i == task[t].of
           v == value[program[i].of]
           tries == task[t].tries
<1> USE DEF ChainInv
<1>1. /\ task[t].at = "run" /\ i = Job(t) /\ i \in 1..attached /\ i \in 1..Len(program)
      /\ i # 0 /\ i \in Fut!States /\ program[i].of \in Fut!States /\ v # <<>>
      /\ tries \in Seq(1..attached)
  <2>1. task[t].at = "run"
    BY DEF Fut!RunThen, Fut!RunOnError
  <2>2. i = Job(t) /\ i \in 1..attached /\ i \in 1..Len(program) /\ i \in Fut!States
        /\ program[i].of \in Fut!States /\ tries \in Seq(1..attached)
    BY <2>1, ShapeOf, ProgramIs DEF Fut!States
  <2> QED BY <2>1, <2>2 DEF InHand
<1>2. v = Fut!Result[program[i].of] /\ v \in Outcomes
  <2>1. Pending(i)
    BY <1>1 DEF Pending
  <2>2. ~Closed(program[i].of)
    BY <1>1, <2>1, ProgramIs DEF Closed
  <2> QED BY <1>1, <2>2 DEF Decided, Thrown, Shapes
<1>3. value[i] = <<>> /\ Pending(i)
  BY <1>1 DEF Decided, Ended, Pending
<1>4. UNCHANGED <<program, outcome, attached, value, continuation, executor, posts>>
  BY DEF Fut!RunThen, Fut!RunOnError
<1>5. /\ \/ calls' = calls
         \/ calls' = Append(calls, [of |-> i, by |-> t]) /\ Fut!ToBeCalled(i)
  BY <1>2 DEF Fut!RunThen, Fut!RunOnError, Fut!Calls, Fut!ToBeCalled
<1>6. PICK done : /\ task' = [task EXCEPT ![t] = done] /\ done.at \in {"idle", "settle"}
                  /\ held' \in [Fut!Threads -> SUBSET Fut!States]
                  /\ \/ done = Fut!Idle
                     \/ LET p == Fut!Passed(i, v) IN
                        Fut!RunThen(t) /\ done = Fut!Settling(i, p, Fut!Within(i, p, tries))
                     \/ /\ Fut!RunOnError(t) /\ tries # <<>> /\ program[i].throws
                        /\ calls' = Append(calls, [of |-> i, by |-> t])
                        /\ done = Fut!Settling(Fut!Last(tries), Fut!Error(i), Fut!Front(tries))
  <2>1. CASE Fut!RunThen(t)
    BY <2>1 DEF Fut!RunThen, Fut!Does, Fut!Settling, Shapes
  <2>2. CASE Fut!RunOnError(t)
    <3>1. held' \in [Fut!Threads -> SUBSET Fut!States]
      BY <2>2 DEF Fut!RunOnError, Fut!Done, Shapes
    <3> QED BY <2>2, <3>1 DEF Fut!RunOnError, Fut!Done, Fut!Does, Fut!Calls, Fut!Settling, Fut!Idle
  <2> QED BY <2>1, <2>2
<1>7. Job(t)' = 0 /\ \A u \in Fut!Threads \ {t} : Job(u)' = Job(u)
  BY <1>6 DEF Shapes, Job
<1>10. /\ ~program[i].exec \/ tries = <<>>
       /\ \A m \in DOMAIN tries :
            LET s == tries[m] IN
            /\ s \in 1..attached /\ Fut!Result[s] = Fut!Value /\ Ended(s) /\ Fut!Before(s, i)
            /\ value[s] # <<>> /\ (Closed(s) \/ program[i].of = s)
  <2>1. \A m \in DOMAIN tries : tries[m] \in 1..attached
    <3> HIDE DEF tries
    <3> QED BY <1>1, SeqFacts
  <2> QED BY <1>1, <2>1 DEF Trying, Enclosing, GoesOn
<1>13. task'[t] = done
  BY <1>6 DEF Shapes
\* From here on, i and tries are what they were before the step.
<1>14. PICK of : of = i
  OBVIOUS
<1> HIDE DEF i
<1>8. /\ calls' \in Seq([of : 1..attached, by : Fut!Threads])
      /\ \A x : x # 0 => (Pending(x)' <=> Pending(x) /\ x # i)
      /\ \A n \in DOMAIN calls : n \in DOMAIN calls' /\ calls'[n] = calls[n]
      /\ calls' # calls => \E n \in DOMAIN calls' : calls'[n].of = i
      /\ Called' /\ Fut!CalledInTurn'
  BY <1>1, <1>4, <1>5, <1>7, ChainCalls
<1>15. /\ \A s : Closed(s) \/ program[of].of = s => Closed(s)'
       /\ \A s : Ended(s) => Ended(s)'
       /\ Ended(of)' /\ Fut!Before(of, of)'
       /\ \A s, n : Fut!Before(s, n)' <=> Fut!Before(s, n)
       /\ Fut!Result' = Fut!Result /\ attached \in Nat
  <2>1. attached \in Nat /\ attached <= attached' /\ \A x \in 1..attached : Pending(x)' => Pending(x)
    BY <1>4, <1>8, ProgramIs
  <2>2. /\ \A s : Closed(s) => Closed(s)'
        /\ \A s, n : Fut!Before(s, n)' <=> Fut!Before(s, n)
    <3> HIDE DEF ChainInv
    <3> QED BY <1>4, <1>8, <2>1, Remains
  <2>3. ~Pending(of)'
    BY <1>1, <1>8, <1>14
  <2>4. Closed(program[of].of)'
    BY <1>1, <1>4, <1>14, <2>3 DEF Closed
  <2>5. Ended(of)' /\ \A s : Ended(s) => Ended(s)'
    BY <1>1, <1>4, <1>8, <1>14, <2>3 DEF Ended
  <2> QED BY <1>4, <2>1, <2>2, <2>4, <2>5, ResultStays, Earlier
<1>16. \A m \in DOMAIN tries :
         LET s == tries[m] IN
         /\ s \in 1..attached /\ Fut!Result[s] = Fut!Value /\ Ended(s) /\ Fut!Before(s, of)
         /\ value[s] # <<>> /\ (Closed(s) \/ program[of].of = s)
  BY <1>10, <1>14
<1>17. PICK inside : inside = tries
  OBVIOUS
<1>18. \A m \in DOMAIN inside :
         /\ inside[m] \in 1..attached /\ Fut!Result[inside[m]] = Fut!Value /\ Ended(inside[m])'
         /\ Fut!Before(inside[m], of)' /\ value[inside[m]] # <<>> /\ Closed(inside[m])'
  BY <1>15, <1>16, <1>17
<1> HIDE DEF tries, ChainInv
<1>19. CASE done = Fut!Idle
  <2>1. Enclosing(t)'
    BY <1>13, <1>19 DEF Enclosing, Fut!Idle
  <2>2. Shape(done) /\ done.at = "idle"
    BY <1>19 DEF Shape, Fut!Idle
  <2>3. Shapes' /\ Waiting' /\ PostedOnes' /\ InHand' /\ Deciding' /\ Decided' /\ Trying'
    BY <1>1, <1>4, <1>6, <1>8, <2>1, <2>2, ChainRan
  <2> QED BY <1>8, <2>3 DEF ChainInv
<1>20. ASSUME NEW p, p = Fut!Passed(i, v), Fut!RunThen(t), done = Fut!Settling(i, p, Fut!Within(i, p, tries))
       PROVE  ChainInv'
  <2>1. p = Fut!Result[i] /\ p \in Outcomes
    BY <1>1, <1>2, <1>20, ProgramIs DEF ChainInv, Fut!Passed, Outcomes
  <2> DEFINE within == IF p = Fut!Value THEN Append(inside, of) ELSE inside
  <2>2. /\ done.at = "settle" /\ done.of = of /\ done.with = p /\ done.tries = within
        /\ done = Fut!Settling(of, p, within)
    BY <1>14, <1>17, <1>20 DEF Fut!Settling, Fut!Within
  <2>3. /\ within \in Seq(1..attached)
        /\ \A m \in DOMAIN within : \/ m \in DOMAIN inside /\ within[m] = inside[m]
                                    \/ p = Fut!Value /\ within[m] = of
    <3>1. inside \in Seq(1..attached) /\ of \in 1..attached
      BY <1>1, <1>14, <1>17
    <3>2. /\ Append(inside, of) \in Seq(1..attached) /\ DOMAIN Append(inside, of) = 1..(Len(inside) + 1)
          /\ Append(inside, of)[Len(inside) + 1] = of
          /\ \A k \in 1..Len(inside) : Append(inside, of)[k] = inside[k]
      BY <3>1, Appended
    <3>3. Len(inside) \in Nat /\ DOMAIN inside = 1..Len(inside)
      BY <3>1, SeqFacts
    <3>4. \A k \in 1..(Len(inside) + 1) : k \in 1..Len(inside) \/ k = Len(inside) + 1
      BY <3>3
    <3>5. CASE p = Fut!Value
      <4>1. within = Append(inside, of)
        BY <3>5
      <4> HIDE DEF within
      <4>2. \A m \in DOMAIN within : (m \in DOMAIN inside /\ within[m] = inside[m]) \/ within[m] = of
        BY <3>2, <3>3, <3>4, <4>1
      <4>3. within \in Seq(1..attached)
        BY <3>2, <4>1
      <4> QED BY <3>5, <4>2, <4>3
    <3>6. CASE p # Fut!Value
      <4>1. within = inside
        BY <3>6
      <4> HIDE DEF within
      <4> QED BY <3>1, <4>1
    <3> QED BY <3>5, <3>6
  <2> HIDE DEF within
  <2>4. Shape(done)
    <3>1. of \in 0..attached
      BY <1>1, <1>14
    <3> QED BY <2>1, <2>2, <2>3, <3>1 DEF Shape
  <2>5. Enclosing(t)'
    <3>1. ASSUME NEW m \in DOMAIN within, NEW s, s = within[m]
          PROVE  /\ Fut!Result[s] = Fut!Value /\ Ended(s)' /\ Fut!Before(s, of)'
                 /\ s = of \/ (value[s] # <<>> /\ Closed(s)')
      BY <1>14, <1>15, <1>18, <2>1, <2>3, <3>1
    <3>2. (task[t].at = "settle" /\ task[t].of = of /\ task[t].tries = within)'
      BY <1>13, <2>2
    <3> QED BY <1>4, <1>15, <3>1, <3>2 DEF Enclosing, Fut!Value
  <2>6. value[done.of] = <<>> /\ done.with = Fut!Result[done.of] /\ done.of = of
    BY <1>3, <1>14, <2>1, <2>2
  <2>7. Shapes' /\ Waiting' /\ PostedOnes' /\ InHand' /\ Deciding' /\ Decided' /\ Trying'
    BY <1>1, <1>4, <1>6, <1>8, <1>14, <2>4, <2>5, <2>6, ChainRan
  <2> QED BY <1>8, <2>7 DEF ChainInv
<1>21. ASSUME Fut!RunOnError(t), tries # <<>>, program[i].throws,
              calls' = Append(calls, [of |-> i, by |-> t]),
              done = Fut!Settling(Fut!Last(tries), Fut!Error(i), Fut!Front(tries))
       PROVE  ChainInv'
  <2> DEFINE last == inside[Len(inside)]
             rest == SubSeq(inside, 1, Len(inside) - 1)
  <2>1. /\ done.at = "settle" /\ done.of = last /\ done.with = Fut!Error(of) /\ done.tries = rest
        /\ done = Fut!Settling(last, Fut!Error(of), rest)
    BY <1>14, <1>17, <1>21 DEF Fut!Settling, Fut!Last, Fut!Front
  <2>2. /\ Len(inside) \in DOMAIN inside /\ rest \in Seq(1..attached)
        /\ \A m \in DOMAIN rest : m \in DOMAIN inside /\ rest[m] = inside[m]
    <3>1. inside \in Seq(1..attached) /\ inside # <<>>
      BY <1>1, <1>17, <1>21
    <3> QED BY <3>1, Fronted
  <2> HIDE DEF last, rest
  <2>3. /\ last \in 1..attached /\ Fut!Result[last] = Fut!Value /\ value[last] # <<>>
        /\ Ended(last) /\ Closed(last)' /\ Fut!Before(last, of)'
    BY <1>16, <1>17, <1>18, <2>2 DEF last
  <2>4. Shape(done)
    <3>1. last \in 0..attached /\ Fut!Error(of) \in Outcomes
      BY <1>1, <1>14, <2>3 DEF Outcomes
    <3> QED BY <2>1, <2>2, <3>1 DEF Shape
  <2>5. Thrown(last, Fut!Error(of))'
    <3>1. calls' # calls
      <4>1. Len(calls) \in Nat /\ calls \in Seq([of : 1..attached, by : Fut!Threads])
        BY Listed DEF ChainInv, Shapes
      <4>2. Len(Append(calls, [of |-> i, by |-> t])) = Len(calls) + 1
        BY <4>1
      <4> QED BY <1>21, <4>1, <4>2
    <3>2. PICK n \in DOMAIN calls' : calls'[n].of = of
      BY <1>8, <1>14, <3>1
    <3>3. Fut!ThrowsAfter(of, last)'
      <4>1. program[of].kind = "error" /\ program[of].throws /\ ~program[of].exec
        BY <1>10, <1>14, <1>21 DEF Fut!RunOnError, i
      <4> QED BY <1>4, <2>3, <4>1 DEF Fut!ThrowsAfter
    <3> QED BY <1>15, <2>3, <3>2, <3>3 DEF Thrown, Fut!Value, Fut!Error
  <2>6. Enclosing(t)'
    <3>1. ASSUME NEW m \in DOMAIN rest, NEW s, s = rest[m]
          PROVE  /\ Fut!Result[s] = Fut!Value /\ Ended(s)' /\ value[s] # <<>> /\ Closed(s)'
      BY <1>18, <2>2, <3>1
    <3>2. (task[t].at = "settle" /\ task[t].of = last /\ task[t].tries = rest /\ ~GoesOn(t))'
      BY <1>4, <1>13, <2>1, <2>3 DEF GoesOn
    <3> QED BY <1>4, <1>15, <3>1, <3>2 DEF Enclosing, Fut!Value
  <2>7. Shapes' /\ Waiting' /\ PostedOnes' /\ InHand' /\ Deciding' /\ Decided' /\ Trying'
    BY <1>1, <1>4, <1>6, <1>8, <1>14, <2>1, <2>3, <2>4, <2>5, <2>6, ChainRan
  <2> QED BY <1>8, <2>7 DEF ChainInv
<1> QED BY <1>6, <1>19, <1>20, <1>21

\* A sequence of some things is one of more.
LEMMA Wider == ASSUME NEW S, NEW T, S \subseteq T, NEW s \in Seq(S) PROVE s \in Seq(T)
OBVIOUS

\* The next attachment is nowhere yet, and what is somewhere stays there.
LEMMA ChainAttach == ASSUME Linear, ChainInv, Fut!Attach PROVE ChainInv'
<1> DEFINE i == attached + 1
           s == program[i].of
<1> USE DEF ChainInv
<1>1. /\ i \in 1..Len(program) /\ i # 0 /\ i \notin 0..attached /\ s \in Fut!States /\ s \in 0..attached
      /\ attached \in 0..attached /\ attached < i /\ attached \in Nat /\ attached' = i
      /\ 0..attached \subseteq 0..i /\ 1..attached \subseteq 1..i /\ i \in 1..i /\ program[i].exec \in BOOLEAN
  <2>1. attached < Len(program) /\ attached' = i
    BY DEF Fut!Attach
  <2>2. attached \in Nat /\ Len(program) \in Nat
    BY ProgramIs
  <2>3. i \in 1..Len(program)
    BY <2>1, <2>2
  <2> QED BY <2>1, <2>2, <2>3, ProgramIs DEF Fut!States
<1>2. /\ \A t \in Fut!Threads : Job(t) \in 0..attached /\ Job(t) # i
      /\ \A x \in Fut!States : continuation[x] \in 0..attached /\ continuation[x] # i
      /\ \A j \in DOMAIN posts : posts[j] \in 1..attached /\ posts[j] # i
      /\ \A n \in DOMAIN calls : calls[n].of \in 1..attached /\ calls[n].of # i
  BY <1>1, ShapeOf, Listed DEF Shapes
<1>3. \A j \in 1..attached : program[j].of # s /\ program[j].of \in Fut!States
  BY <1>1, ProgramIs DEF Fut!States
<1>4. continuation[s] = 0
  BY <1>1, <1>2, <1>3 DEF Waiting
<1>5. /\ program' = program /\ outcome' = outcome /\ value' = value /\ calls' = calls
      /\ Fut!Result' = Fut!Result /\ Fut!States' = Fut!States /\ Outcomes' = Outcomes
  BY ResultStays DEF Fut!Attach, Fut!States, Outcomes
<1>6. /\ executor' \in [Fut!States -> BOOLEAN] /\ executor'[s] = program[i].exec
      /\ \A x \in Fut!States \ {s} : executor'[x] = executor[x]
  <2>1. executor' = [executor EXCEPT ![s] = program[i].exec]
    BY DEF Fut!Attach
  <2> QED BY <1>1, <2>1 DEF Shapes
<1>7. /\ posts \in Seq(1..i) /\ calls \in Seq([of : 1..i, by : Fut!Threads])
  <2>1. posts \in Seq(1..attached) /\ calls \in Seq([of : 1..attached, by : Fut!Threads])
    BY DEF Shapes
  <2>2. posts \in Seq(1..i)
    BY <1>1, <2>1, Wider
  <2>3. [of : 1..attached, by : Fut!Threads] \subseteq [of : 1..i, by : Fut!Threads]
    BY <1>1
  <2>4. calls \in Seq([of : 1..i, by : Fut!Threads])
    BY <2>1, <2>3, Wider
  <2> QED BY <2>2, <2>4
<1>8. \A t \in Fut!Threads : Shape(task[t]) /\ \A k : Shape(k) => Shape(k)'
  <2>1. ASSUME NEW k, Shape(k) PROVE Shape(k)'
    <3>1. CASE k = Fut!Idle
      BY <3>1 DEF Shape, Fut!Idle
    <3>2. ASSUME NEW tries \in Seq(1..attached), NEW x \in 0..attached, NEW v \in Outcomes,
                 k = Fut!Settling(x, v, tries)
          PROVE  Shape(k)'
      <4>1. tries \in Seq(1..i) /\ x \in 0..i
        BY <1>1, <3>2, Wider
      <4> QED BY <1>1, <1>5, <3>2, <4>1 DEF Shape
    <3>3. ASSUME NEW tries \in Seq(1..attached), NEW x \in 1..attached,
                 k \in {Fut!Taken(program[x].of, x, tries), Fut!Running(x, tries)}
          PROVE  Shape(k)'
      <4>1. tries \in Seq(1..i) /\ x \in 1..i
        BY <1>1, <3>3, Wider
      <4> QED BY <1>1, <1>5, <3>3, <4>1 DEF Shape
    <3> QED BY <2>1, <3>1, <3>2, <3>3 DEF Shape
  <2> QED BY <2>1 DEF Shapes
<1>9. /\ continuation \in [Fut!States -> 0..i] /\ held \in [Fut!Threads -> SUBSET Fut!States]
      /\ task = [t \in Fut!Threads |-> task[t]] /\ c2 \in Fut!Threads /\ task[c2] = Fut!Idle /\ Job(c2) = 0
  <2>1. task[c2] = Fut!Idle /\ c2 \in Fut!Threads
    BY DEF Fut!Attach, Fut!Threads
  <2> QED BY <1>1, <2>1 DEF Shapes, Job, Fut!Idle
<1>10. Fut!CalledInTurn'
  BY <1>5 DEF Fut!CalledInTurn, Fut!ToBeCalled
<1>11. \A t \in Fut!Threads : Job(t) # 0 =>
         /\ Job(t) \in 1..attached /\ program[Job(t)].of \in Fut!States /\ program[Job(t)].of # s
         /\ task[t].at = "taken" => task[t].of \in Fut!States \ {s}
  BY <1>1, <1>3, ShapeOf
<1>12. (/\ program \in Programs /\ attached \in 0..Len(program) /\ outcome \in {Fut!Value, Fut!Error(0)}
        /\ value \in [Fut!States -> {<<>>} \cup Outcomes] /\ executor \in [Fut!States -> BOOLEAN]
        /\ calls \in Seq([of : 1..attached, by : Fut!Threads]))'
  BY <1>1, <1>5, <1>6, <1>7, ProgramIs DEF Shapes, Fut!Threads
\* What follows of a step, whichever, that has put the continuation in one place.
<1>13. ASSUME \A x : x # 0 /\ Pending(x)' => Pending(x) \/ x = i,
              \A u \in Fut!Threads :
                \/ task'[u] = task[u] /\ Job(u)' = Job(u)
                \/ task'[u].at = "run" /\ task'[u].tries = <<>>
       PROVE  Called' /\ Decided' /\ Deciding' /\ Trying'
  <2>1. \A x \in Fut!States : Ended(x) => Ended(x)'
    <3> SUFFICES ASSUME NEW x \in Fut!States, x # 0, x <= attached, ~Pending(x)
                 PROVE  x <= i /\ ~Pending(x)'
      BY <1>1 DEF Ended
    <3>1. x \in Nat /\ x <= i /\ x # i
      BY <1>1, ProgramIs DEF Fut!States
    <3> QED BY <1>13, <3>1
  <2>2. Called'
    BY <1>2, <1>5, <1>13 DEF Called
  <2>3. /\ \A x : Closed(x) => Closed(x)'
        /\ \A x, v : Thrown(x, v) => Thrown(x, v)'
        /\ \A x, n : Fut!Before(x, n)' <=> Fut!Before(x, n)
    <3>1. attached' \in Nat /\ attached <= attached'
      BY <1>1
    <3>2. \A x \in 1..attached : Pending(x)' => Pending(x)
      BY <1>1, <1>13
    <3>3. \A n \in DOMAIN calls : n \in DOMAIN calls' /\ calls'[n] = calls[n]
      BY <1>5
    <3> HIDE DEF ChainInv, i, s
    <3> QED BY <1>1, <1>5, <3>1, <3>2, <3>3, Remains
  <2>4. Decided'
    BY <1>5, <2>1, <2>3 DEF Decided
  <2>5. \A u \in Fut!Threads : task'[u].at = "settle" => task'[u] = task[u] /\ task[u].of \in Fut!States
    BY <1>13, ShapeOf
  <2>6. Deciding'
    BY <1>5, <2>1, <2>3, <2>5 DEF Deciding
  <2>7. ASSUME NEW u \in Fut!Threads, task'[u] = task[u], Job(u)' = Job(u) PROVE Enclosing(u)'
    <3>1. Enclosing(u) /\ (GoesOn(u)' <=> GoesOn(u))
      BY <1>5, <2>7 DEF Trying, GoesOn
    <3>2. \A m \in DOMAIN task[u].tries : task[u].tries[m] \in Fut!States
      <4> DEFINE tries == task[u].tries
      <4>1. tries \in Seq(1..attached) /\ 1..attached \subseteq Fut!States
        BY ShapeOf, ProgramIs DEF Fut!States
      <4> HIDE DEF tries
      <4>2. DOMAIN tries = 1..Len(tries) /\ \A m \in 1..Len(tries) : tries[m] \in 1..attached
        BY <4>1, SeqFacts
      <4> QED BY <4>1, <4>2 DEF tries
    <3> HIDE DEF ChainInv, i, s
    <3> QED BY <1>5, <2>1, <2>3, <2>7, <3>1, <3>2, StillInside
  <2>8. Trying'
    <3>1. ASSUME NEW u \in Fut!Threads, task'[u].tries = <<>> PROVE Enclosing(u)'
      BY <3>1 DEF Enclosing
    <3> QED BY <1>13, <2>7, <3>1 DEF Trying, Fut!Threads
  <2> QED BY <2>2, <2>4, <2>6, <2>8
<1>14. CASE value[s] = <<>> /\ continuation' = [continuation EXCEPT ![s] = i] /\ UNCHANGED <<task, held, posts>>
  <2>1. /\ continuation' \in [Fut!States -> 0..i] /\ continuation'[s] = i
        /\ \A x \in Fut!States \ {s} : continuation'[x] = continuation[x]
    BY <1>1, <1>9, <1>14
  <2>2. \A t : Job(t)' = Job(t)
    BY <1>14 DEF Job
  <2>3. \A x : x # 0 /\ Pending(x)' => Pending(x) \/ x = i
    BY <1>5, <1>14, <2>1, <2>2 DEF Pending
  <2>4. Shapes'
    <3>1. \A t \in Fut!Threads : Shape(task[t])'
      BY <1>8, <1>14
    <3> QED BY <1>1, <1>5, <1>7, <1>9, <1>14, <1>12, <2>1, <3>1 DEF Shapes
  <2>5. Waiting'
    BY <1>1, <1>3, <1>5, <1>6, <1>14, <2>1 DEF Waiting
  <2>6. PostedOnes'
    BY <1>2, <1>5, <1>14, <2>1 DEF PostedOnes
  <2>7. InHand'
    BY <1>2, <1>5, <1>6, <1>14, <1>11, <2>1, <2>2 DEF InHand
  <2>8. Called' /\ Decided' /\ Deciding' /\ Trying'
    BY <1>13, <1>14, <2>2, <2>3
  <2> QED BY <1>10, <2>4, <2>5, <2>6, <2>7, <2>8
<1>15. CASE value[s] # <<>> /\ program[i].exec /\ posts' = Append(posts, i) /\ UNCHANGED <<task, held, continuation>>
  <2>1. /\ posts' \in Seq(1..i) /\ DOMAIN posts' = 1..(Len(posts) + 1) /\ posts'[Len(posts) + 1] = i
        /\ \A j \in 1..Len(posts) : posts'[j] = posts[j]
        /\ Len(posts) \in Nat /\ DOMAIN posts = 1..Len(posts)
    <3>1. posts' = Append(posts, i) /\ posts \in Seq(1..i) /\ i \in 1..i
      BY <1>1, <1>7, <1>15
    <3> HIDE DEF i
    <3>2. /\ Append(posts, i) \in Seq(1..i) /\ DOMAIN Append(posts, i) = 1..(Len(posts) + 1)
          /\ Append(posts, i)[Len(posts) + 1] = i
          /\ \A j \in 1..Len(posts) : Append(posts, i)[j] = posts[j]
      BY <3>1, Appended
    <3> QED BY <3>1, <3>2, Listed
  <2>2. \A t : Job(t)' = Job(t)
    BY <1>15 DEF Job
  <2>3. \A x : x # 0 /\ Pending(x)' => Pending(x) \/ x = i
    BY <1>5, <1>15, <2>1, <2>2 DEF Pending
  <2>4. Shapes'
    <3>1. \A t \in Fut!Threads : Shape(task[t])'
      BY <1>8, <1>15
    <3> QED BY <1>1, <1>5, <1>9, <1>15, <1>12, <2>1, <3>1 DEF Shapes
  <2>5. Waiting'
    BY <1>3, <1>4, <1>5, <1>6, <1>15, <1>2 DEF Waiting
  <2>6. PostedOnes'
    BY <1>2, <1>5, <1>15, <2>1 DEF PostedOnes
  <2>7. InHand'
    BY <1>2, <1>5, <1>6, <1>15, <1>11, <2>1, <2>2 DEF InHand
  <2>8. Called' /\ Decided' /\ Deciding' /\ Trying'
    BY <1>13, <1>15, <2>2, <2>3
  <2> QED BY <1>10, <2>4, <2>5, <2>6, <2>7, <2>8
<1>16. CASE /\ value[s] # <<>> /\ ~program[i].exec /\ task' = [task EXCEPT ![c2] = Fut!Running(i, <<>>)]
            /\ held' = [held EXCEPT ![c2] = {s}] /\ UNCHANGED <<posts, continuation>>
  <2>1. /\ task' = [u \in Fut!Threads |-> task'[u]] /\ task'[c2] = Fut!Running(i, <<>>)
        /\ Job(c2)' = i /\ task'[c2].at = "run" /\ task'[c2].tries = <<>>
        /\ \A u \in Fut!Threads \ {c2} : task'[u] = task[u] /\ Job(u)' = Job(u)
        /\ held' \in [Fut!Threads -> SUBSET Fut!States]
    BY <1>1, <1>9, <1>16 DEF Job, Fut!Running
  <2>2. \A x : x # 0 /\ Pending(x)' => Pending(x) \/ x = i
    BY <1>5, <1>16, <2>1 DEF Pending
  <2>3. Shapes'
    <3>1. \A t \in Fut!Threads \ {c2} : Shape(task[t])'
      BY <1>8, <2>1
    <3>2. Shape(task[c2])'
      <4>1. <<>> \in Seq(1..i)
        OBVIOUS
      <4> QED BY <1>1, <1>5, <2>1, <4>1 DEF Shape
    <3>3. \A t \in Fut!Threads : Shape(task[t])'
      BY <3>1, <3>2
    <3> QED BY <1>1, <1>5, <1>7, <1>9, <1>16, <1>12, <2>1, <3>3 DEF Shapes
  <2>4. Waiting'
    BY <1>3, <1>4, <1>5, <1>6, <1>16, <1>2 DEF Waiting
  <2>5. PostedOnes'
    BY <1>2, <1>5, <1>16 DEF PostedOnes
  <2>6. InHand'
    BY <1>1, <1>2, <1>5, <1>6, <1>16, <1>11, <2>1 DEF InHand
  <2>7. Called' /\ Decided' /\ Deciding' /\ Trying'
    BY <1>13, <2>1, <2>2
  <2> QED BY <1>10, <2>3, <2>4, <2>5, <2>6, <2>7
<1> QED BY <1>14, <1>15, <1>16 DEF Fut!Attach, Fut!Does

\* A worker runs the oldest continuation posted.
LEMMA ChainWork == ASSUME Linear, ChainInv, NEW w \in Workers, Fut!Work(w) PROVE ChainInv'
<1> DEFINE i == Head(posts)
<1> USE DEF ChainInv
<1>1. /\ w \in Fut!Threads /\ task[w] = Fut!Idle /\ Job(w) = 0 /\ task[w].at = "idle"
      /\ posts # <<>> /\ posts \in Seq(1..attached)
  BY Listed DEF Fut!Work, Fut!Threads, Fut!Idle, Job
<1>2. /\ program' = program /\ outcome' = outcome /\ attached' = attached /\ executor' = executor
      /\ value' = value /\ continuation' = continuation /\ calls' = calls /\ held' = held
      /\ Fut!Result' = Fut!Result /\ Fut!States' = Fut!States /\ Outcomes' = Outcomes
      /\ posts' = Tail(posts) /\ task' = [task EXCEPT ![w] = Fut!Running(i, <<>>)]
  BY ResultStays DEF Fut!Work, Fut!Does, Fut!States, Outcomes
<1>3. /\ i = posts[1] /\ 1 \in DOMAIN posts /\ Tail(posts) \in Seq(1..attached)
      /\ DOMAIN Tail(posts) = 1..(Len(posts) - 1) /\ DOMAIN posts = 1..Len(posts) /\ Len(posts) \in Nat
      /\ \A k \in 1..(Len(posts) - 1) : Tail(posts)[k] = posts[k + 1]
  BY <1>1, Tailed, SeqFacts
<1>4. \A k \in DOMAIN posts' : k + 1 \in DOMAIN posts /\ posts'[k] = posts[k + 1] /\ k \in Nat /\ k + 1 # 1
  BY <1>2, <1>3
<1>5. /\ i \in 1..attached /\ value[program[i].of] # <<>> /\ program[i].exec
      /\ \A x \in Fut!States : continuation[x] # i
      /\ \A k \in DOMAIN posts' : posts'[k] # i
      /\ \A u \in Fut!Threads : Job(u) # i
  <2>1. i \in 1..attached
    BY <1>3, Listed
  <2>2. \A k \in DOMAIN posts' : posts'[k] # i
    BY <1>3, <1>4 DEF PostedOnes
  <2>3. \A u \in Fut!Threads : Job(u) # i
    BY <1>3, <2>1 DEF InHand
  <2> QED BY <1>3, <2>1, <2>2, <2>3 DEF PostedOnes
<1> HIDE DEF i
<1>6. /\ task' = [u \in Fut!Threads |-> task'[u]] /\ task'[w] = Fut!Running(i, <<>>)
      /\ Job(w)' = i /\ task'[w].at = "run" /\ task'[w].tries = <<>>
      /\ \A u \in Fut!Threads \ {w} : task'[u] = task[u] /\ Job(u)' = Job(u)
  BY <1>1, <1>2 DEF Shapes, Job, Fut!Running
<1>7. Shapes'
  <2>0. \A u \in Fut!Threads : Shape(task[u])
    BY DEF Shapes
  <2>1. \A u \in Fut!Threads \ {w} : Shape(task[u])'
    BY <1>2, <1>6, <2>0, ShapeKept
  <2>2. Shape(task[w])'
    <3>1. <<>> \in Seq(1..attached)
      OBVIOUS
    <3> QED BY <1>2, <1>5, <1>6, <3>1 DEF Shape
  <2> QED BY <1>2, <1>3, <1>6, <2>1, <2>2 DEF Shapes
<1>8. \A x : Pending(x)' => Pending(x)
  <2> SUFFICES ASSUME NEW x, Pending(x)' PROVE Pending(x)
    OBVIOUS
  <2>1. CASE \E k \in DOMAIN posts' : posts'[k] = x
    BY <1>4, <2>1 DEF Pending
  <2>2. CASE x = i
    BY <1>3, <2>2 DEF Pending
  <2> QED BY <1>2, <1>6, <2>1, <2>2 DEF Pending
<1>9. \A x : Ended(x) => Ended(x)'
  BY <1>2, <1>8 DEF Ended
<1>10. Waiting' /\ Fut!CalledInTurn'
  BY <1>2 DEF Waiting, Fut!CalledInTurn, Fut!ToBeCalled
<1>11. PostedOnes'
  <2>1. \A j \in DOMAIN posts' : value'[program'[posts'[j]].of] # <<>> /\ program'[posts'[j]].exec
    BY <1>2, <1>4 DEF PostedOnes
  <2>2. \A j, k \in DOMAIN posts' : posts'[j] = posts'[k] => j = k
    BY <1>4 DEF PostedOnes
  <2>3. \A j \in DOMAIN posts', s \in Fut!States' : posts'[j] # continuation'[s]
    BY <1>2, <1>4 DEF PostedOnes
  <2> QED BY <2>1, <2>2, <2>3 DEF PostedOnes
<1>12. InHand'
  <2>1. \A u \in Fut!Threads \ {w} : \A k \in DOMAIN posts' : Job(u) # 0 => posts'[k] # Job(u)
    BY <1>4 DEF InHand
  <2> QED BY <1>2, <1>5, <1>6, <2>1 DEF InHand
<1>13. /\ \A x : Closed(x) => Closed(x)'
       /\ \A x, v : Thrown(x, v) => Thrown(x, v)'
       /\ \A x, n : Fut!Before(x, n)' <=> Fut!Before(x, n)
  <2>1. attached \in Nat /\ attached <= attached
    BY ProgramIs
  <2> HIDE DEF ChainInv
  <2> QED BY <1>2, <1>8, <2>1, Remains
<1>14. Deciding' /\ Decided'
  BY <1>2, <1>6, <1>9, <1>13 DEF Deciding, Decided
<1>15. Trying'
  <2>1. ASSUME NEW u \in Fut!Threads \ {w} PROVE Enclosing(u)'
    <3>1. Enclosing(u) /\ (GoesOn(u)' <=> GoesOn(u))
      BY <1>2, <1>6 DEF Trying, GoesOn
    <3> HIDE DEF ChainInv
    <3> QED BY <1>2, <1>6, <1>9, <1>13, <3>1, StillInside
  <2>2. Enclosing(w)'
    BY <1>6 DEF Enclosing
  <2> QED BY <2>1, <2>2 DEF Trying, Fut!Threads
<1>16. Called'
  BY <1>2, <1>8 DEF Called
<1> QED BY <1>7, <1>10, <1>11, <1>12, <1>14, <1>15, <1>16

\* Every step preserves the invariant.
LEMMA ChainStep == ASSUME Linear, ChainInv, [Fut!Next]_(Fut!vars) PROVE ChainInv'
<1>1. CASE UNCHANGED Fut!vars
  <2>1. Fut!Result' = Fut!Result
    BY <1>1, ResultStays DEF Fut!vars
  <2> USE <1>1 DEF Fut!vars, ChainInv
  <2>2. \A x : Job(x)' = Job(x)
    BY DEF Job
  <2>3. \A x : Pending(x)' <=> Pending(x)
    BY <2>2 DEF Pending, Fut!States
  <2>4. Shapes'
    <3>1. Outcomes' = Outcomes /\ Fut!States' = Fut!States
      BY DEF Outcomes, Fut!States
    <3>2. \A u \in Fut!Threads : Shape(task[u])'
      BY <3>1 DEF Shapes, Shape
    <3> QED BY <3>1, <3>2 DEF Shapes
  <2>5. Waiting' /\ PostedOnes' /\ InHand'
    BY <2>2 DEF Waiting, PostedOnes, InHand, Fut!States
  <2>6. Deciding' /\ Decided' /\ Trying' /\ Called'
    <3>1. \A x : Ended(x) => Ended(x)'
      BY <2>3 DEF Ended
    <3>2. attached \in Nat /\ attached <= attached
      BY DEF Shapes
    <3>3. /\ \A x : Closed(x) => Closed(x)'
          /\ \A x, v : Thrown(x, v) => Thrown(x, v)'
          /\ \A x, n : Fut!Before(x, n)' <=> Fut!Before(x, n)
      <4> HIDE DEF ChainInv
      <4> QED BY <2>3, <3>2, Remains
    <3>4. Trying'
      <4>1. \A u \in Fut!Threads : Enclosing(u) /\ (GoesOn(u)' <=> GoesOn(u))
        BY DEF Trying, GoesOn
      <4>2. \A u \in Fut!Threads : Enclosing(u)'
        <5> HIDE DEF ChainInv
        <5> QED BY <2>1, <2>2, <3>1, <3>3, <4>1, StillInside
      <4> QED BY <4>2 DEF Trying, Fut!Threads
    <3> QED BY <2>1, <2>3, <3>1, <3>3, <3>4 DEF Deciding, Decided, Called, Fut!States
  <2>7. Fut!CalledInTurn'
    BY <2>1 DEF Fut!CalledInTurn, Fut!ToBeCalled
  <2> QED BY <2>4, <2>5, <2>6, <2>7
<1>2. CASE Fut!Next
  <2>1. Workers \subseteq Fut!Threads
    BY DEF Fut!Threads
  <2> QED BY <1>2, <2>1, ChainAttach, ChainSettle, ChainDispatch, ChainRun, ChainWork
          DEF Fut!Next, Fut!ThreadsStep, Fut!Step
<1> QED BY <1>1, <1>2

\* However settling and attaching meet, for every program of one continuation to a state: a
\* state holds what its chain comes to, or the error of a handler further on that threw and
\* ended in its catch, and a function is called at most once, after the one before it, and
\* where its group is (future.h:32-78, 212-255).
THEOREM ChainsHold == ASSUME Linear PROVE Fut!Spec => []Fut!Chained
<1>1. Fut!Init => ChainInv
  BY ChainInit
<1>2. ChainInv /\ [Fut!Next]_(Fut!vars) => ChainInv'
  BY ChainStep
<1>3. ChainInv => Fut!Chained
  <2> SUFFICES ASSUME ChainInv PROVE Fut!Chained
    OBVIOUS
  <2>1. Fut!TypeOK
    <3>1. \A s \in Fut!States : value[s] = <<>> \/ value[s] \in {Fut!Value} \cup {Fut!Error(i) : i \in Fut!States}
      BY DEF ChainInv, Shapes, Outcomes
    <3> QED BY <3>1 DEF ChainInv, Shapes, Fut!TypeOK
  <2>2. Fut!ResultsFollow
    BY DEF ChainInv, Decided, Thrown, Fut!ResultsFollow, Fut!Overwritten
  <2> QED BY <2>1, <2>2 DEF ChainInv, Fut!Chained
<1> QED BY <1>1, <1>2, <1>3, PTL DEF Fut!Spec

-----------------------------------------------------------------------------
(* WebSocketClient: the invariant *)

\* What the runner's task may still have to do.
Todos ==
  {<<>>, <<"handshake">>, <<"frames">>, <<"failed">>, <<"failed", "refused">>, <<"refused">>,
   <<"failed", "frames">>, <<"lost">>}
Framing == todo \in {<<"frames">>, <<"failed", "frames">>}
Failing == todo \in {<<"failed">>, <<"failed", "refused">>, <<"refused">>, <<"failed", "frames">>}

Halves  == [kind : Web!Kind, item : Nat, last : BOOLEAN]
Tidings == [what : {"connected", "message", "ping", "closed", "error"}, of : Seq(Nat)]

WebTyped ==
  /\ use \in Talks /\ web \in Web!State /\ phase \in {"idle", "connecting", "failed", "open"}
  /\ handshaken \in BOOLEAN /\ fragmented \in BOOLEAN /\ closeSent \in BOOLEAN
  /\ inCallback \in BOOLEAN /\ stale \in BOOLEAN
  /\ buffer \in Seq(Halves) /\ message \in Seq(Nat) /\ told \in Seq(Tidings) /\ todo \in Todos
  /\ reconnects \in Nat /\ arrived \in 0..(2 * Len(script)) /\ closes \in {0, 1}
  /\ script = <<>> \/ script \in use.scripts

\* The buffer holds the halves that arrived since the first ones were used, whole items,
\* perhaps behind what an earlier connection left.
Junked == buffer # <<>> /\ buffer[1] = Web!Junk
Before == IF Junked THEN 1 ELSE 0
Spent  == arrived + Before - Len(buffer)

Buffered ==
  /\ Spent \in Nat /\ Spent = 2 * (Spent \div 2)
  /\ \A k \in 1..Len(buffer) : k > Before => buffer[k] = Web!Half(Spent + k - Before)
  /\ handshaken => ~Junked /\ Spent >= 2
  /\ Junked => Spent = 0

\* What the tasks of the connection go by.
Tasking ==
  /\ todo = <<"handshake">> => ~handshaken
  /\ Framing => handshaken
  /\ Failing => Web!Failed
  /\ phase = "connecting" => ~handshaken /\ todo = <<>>
  /\ ~handshaken => Web!Tells("connected") = {} /\ Web!Tells("message") = {}
  /\ handshaken /\ ~Web!Failed /\ ~Framing => Len(buffer) < 2

\* After the end was told, nothing can come.
Gone == phase = "idle" /\ todo \in {<<>>, <<"lost">>}
Over ==
  /\ handshaken /\ buffer = <<>> /\ arrived = 2 * Len(script)
  /\ todo \in {<<>>, <<"frames">>} /\ (phase = "open" => web = "closed")
Ending ==
  /\ todo = <<"lost">> => Gone /\ Web!Tells("closed") # {}
  /\ Web!Tells("closed") # {} => Gone \/ Over

Closings ==
  /\ closes = 1 => closeSent
  /\ closeSent => stale \/ closes = 1
  /\ handshaken /\ ~Web!Failed /\ Web!Tells("closed") = {} => web = "connected" \/ closeSent

\* The messages of the items that were used, and the fragments of the open one. When an
\* earlier connection left the client fragmented, nothing fits and nothing was said yet.
Data == {"text", "start", "more", "end"}
Conversed(n) ==
  /\ Web!Heard(n)
  /\ fragmented /\ OpenAt(script, n) => Web!Lists(message, Web!Since(n))
  /\ ~fragmented => ~OpenAt(script, n)
  /\ fragmented /\ ~OpenAt(script, n) => \A i \in 1..n : script[i] \notin Data
Conversing == use.legal /\ ~Web!Failed /\ handshaken => Conversed(Spent \div 2)

WebInv ==
  /\ WebTyped /\ Buffered /\ Tasking /\ Ending /\ Closings /\ Conversing
  /\ Web!LifeOfConnection /\ Web!ClosesOnce

-----------------------------------------------------------------------------
(* Scripts *)

LEMMA Scripted == ASSUME WebTyped PROVE script \in Seq(Web!Kind) /\ Len(script) \in Nat
<1>1. CASE script = <<>>
  BY <1>1
<1>2. CASE script \in use.scripts
  BY <1>2, WebAssumption DEF WebTyped
<1> QED BY <1>1, <1>2 DEF WebTyped

\* An item in its place on a connection that has one.
LEMMA Placed ==
  ASSUME WebTyped, NEW i \in 1..Len(script)
  PROVE  /\ script \in use.scripts /\ Answers(script) /\ (use.legal => Legal(script))
         /\ script[i] \in Web!Kind /\ script[i] # "junk"
         /\ script[i] \in {"ok", "bad"} <=> i = 1
         /\ script[i] = "close" => i = Len(script)
<1>1. script \in use.scripts /\ use \in Talks /\ script \in Seq(Web!Kind)
  BY Scripted DEF WebTyped
<1>2. Answers(script) /\ (use.legal => Legal(script))
  BY <1>1, WebAssumption
<1>3. script[i] \in Web!Kind
  BY <1>1
<1> QED BY <1>1, <1>2, <1>3, Scripted DEF Answers

LEMMA OpenNext ==
  ASSUME NEW n \in Nat
  PROVE  /\ script[n + 1] \notin {"start", "end"} => (OpenAt(script, n + 1) <=> OpenAt(script, n))
         /\ script[n + 1] = "start" => OpenAt(script, n + 1)
         /\ script[n + 1] = "end" => ~OpenAt(script, n + 1)
<1>1. ASSUME script[n + 1] \notin {"start", "end"} PROVE OpenAt(script, n + 1) <=> OpenAt(script, n)
  <2>1. ASSUME NEW i \in 1..n, script[i] = "start", \A j \in i..n : script[j] # "end"
        PROVE  OpenAt(script, n + 1)
    <3>1. \A j \in i..(n + 1) : j = n + 1 \/ j \in i..n
      OBVIOUS
    <3>2. i \in 1..(n + 1) /\ \A j \in i..(n + 1) : script[j] # "end"
      BY <3>1, <2>1, <1>1
    <3> QED BY <3>2, <2>1 DEF OpenAt
  <2>2. ASSUME NEW i \in 1..(n + 1), script[i] = "start", \A j \in i..(n + 1) : script[j] # "end"
        PROVE  OpenAt(script, n)
    <3>1. i \in 1..n /\ \A j \in i..n : j \in i..(n + 1)
      BY <2>2, <1>1
    <3> QED BY <3>1, <2>2 DEF OpenAt
  <2> QED BY <2>1, <2>2 DEF OpenAt
<1>2. ASSUME script[n + 1] = "start" PROVE OpenAt(script, n + 1)
  <2>1. n + 1 \in 1..(n + 1) /\ \A j \in (n + 1)..(n + 1) : script[j] # "end"
    BY <1>2
  <2> QED BY <2>1, <1>2 DEF OpenAt
<1>3. ASSUME script[n + 1] = "end", OpenAt(script, n + 1) PROVE FALSE
  BY <1>3 DEF OpenAt
<1> QED BY <1>1, <1>2, <1>3

LEMMA SinceNext ==
  ASSUME NEW n \in Nat
  PROVE  /\ script[n + 1] \notin Data => Web!Since(n + 1) = Web!Since(n)
         /\ script[n + 1] = "start" => Web!Since(n + 1) = {n + 1}
         /\ script[n + 1] \in {"more", "end"} => Web!Since(n + 1) = Web!Since(n) \cup {n + 1}
<1> DEFINE In(j, m) == /\ j \in 1..m /\ script[j] \in {"start", "more", "end"}
                       /\ \A k \in (j + 1)..m : script[k] # "start"
<1>1. \A m : \A j : j \in Web!Since(m) <=> In(j, m)
  BY DEF Web!Since
<1>2. \A j : j \in 1..(n + 1) <=> j \in 1..n \/ j = n + 1
  OBVIOUS
<1>3. \A j \in 1..n : \A k : k \in (j + 1)..(n + 1) <=> k \in (j + 1)..n \/ k = n + 1
  OBVIOUS
<1>4. (n + 1) + 1 > n + 1 /\ ~\E k \in ((n + 1) + 1)..(n + 1) : TRUE
  OBVIOUS
<1>5. \A j \in 1..n : In(j, n + 1) <=> In(j, n) /\ script[n + 1] # "start"
  BY <1>2, <1>3
<1>6. In(n + 1, n + 1) <=> script[n + 1] \in {"start", "more", "end"}
  BY <1>2, <1>4
<1>7. \A j : In(j, n + 1) => j \in 1..n \/ j = n + 1
  BY <1>2
<1> HIDE DEF In
<1>8. \A j : In(j, n) => j \in 1..n
  BY DEF In
<1>9. n + 1 \notin 1..n
  OBVIOUS
<1>10. ASSUME script[n + 1] \notin Data PROVE Web!Since(n + 1) = Web!Since(n)
  <2>1. \A j : j \in Web!Since(n + 1) <=> j \in Web!Since(n)
    BY <1>10, <1>1, <1>5, <1>6, <1>7, <1>8 DEF Data
  <2> QED BY <2>1
<1>11. ASSUME script[n + 1] = "start" PROVE Web!Since(n + 1) = {n + 1}
  <2>1. \A j : j \in Web!Since(n + 1) <=> j = n + 1
    BY <1>11, <1>1, <1>5, <1>6, <1>7
  <2> QED BY <2>1
<1>12. ASSUME script[n + 1] \in {"more", "end"} PROVE Web!Since(n + 1) = Web!Since(n) \cup {n + 1}
  <2>1. \A j : j \in Web!Since(n + 1) <=> j \in Web!Since(n) \/ j = n + 1
    BY <1>12, <1>1, <1>5, <1>6, <1>7, <1>8
  <2> QED BY <2>1
<1> QED BY <1>10, <1>11, <1>12

LEMMA EndsNext ==
  ASSUME NEW n \in Nat
  PROVE  Web!Ends(n + 1) = IF script[n + 1] \in {"text", "end"} THEN Web!Ends(n) \cup {n + 1}
                           ELSE Web!Ends(n)
<1>1. \A j : j \in 1..(n + 1) <=> j \in 1..n \/ j = n + 1
  OBVIOUS
<1> QED BY <1>1 DEF Web!Ends

\* An item that is no data leaves the messages as they are.
LEMMA Passes ==
  ASSUME NEW n \in Nat, script[n + 1] \notin Data, Conversed(n)
  PROVE  Conversed(n + 1)
<1>1. Web!Ends(n + 1) = Web!Ends(n) /\ Web!Since(n + 1) = Web!Since(n)
  BY EndsNext, SinceNext DEF Data
<1>2. OpenAt(script, n + 1) <=> OpenAt(script, n)
  BY OpenNext DEF Data
<1>3. \A j : j \in 1..(n + 1) <=> j \in 1..n \/ j = n + 1
  OBVIOUS
<1>4. Web!Heard(n + 1)
  BY <1>1 DEF Conversed, Web!Heard
<1> QED BY <1>1, <1>2, <1>3, <1>4 DEF Conversed

-----------------------------------------------------------------------------
(* What the listener was told *)

Kinds == {"connected", "message", "ping", "closed", "error"}

LEMMA TellsIn ==
  ASSUME WebTyped, NEW what
  PROVE  \A i : i \in Web!Tells(what) <=> i \in 1..Len(told) /\ told[i].what = what
BY DEF Web!Tells, WebTyped

LEMMA ToldOne ==
  ASSUME WebTyped, NEW what \in Kinds, NEW of \in Seq(Nat),
         told' = Append(told, Web!Told(what, of))
  PROVE  /\ told' \in Seq(Tidings) /\ Len(told') = Len(told) + 1 /\ Len(told) \in Nat
         /\ \A i \in 1..Len(told) : told'[i] = told[i]
         /\ told'[Len(told) + 1] = [what |-> what, of |-> of]
         /\ \A v \in Kinds \ {what} : Web!Tells(v)' = Web!Tells(v)
         /\ Web!Tells(what)' = Web!Tells(what) \cup {Len(told) + 1}
<1> DEFINE n == Len(told)
<1>1. told \in Seq(Tidings) /\ n \in Nat
  BY DEF WebTyped
<1>2. Web!Told(what, of) = [what |-> what, of |-> of] /\ [what |-> what, of |-> of] \in Tidings
  BY DEF Web!Told, Tidings, Kinds
<1>3. told' \in Seq(Tidings) /\ Len(told') = n + 1
  BY <1>1, <1>2
<1>4. \A i \in 1..n : told'[i] = told[i]
  BY <1>1, <1>2
<1>5. told'[n + 1] = [what |-> what, of |-> of]
  BY <1>1, <1>2
<1>6. \A i : i \in 1..(n + 1) <=> i \in 1..n \/ i = n + 1
  BY <1>1
<1>7. DOMAIN told = 1..n /\ DOMAIN told' = 1..(n + 1)
  BY <1>1, <1>3
<1>8. \A v : Web!Tells(v)' = {i \in DOMAIN told' : told'[i].what = v}
  BY DEF Web!Tells
<1>9. \A v : Web!Tells(v) = {i \in DOMAIN told : told[i].what = v}
  BY DEF Web!Tells
<1>10. n + 1 \notin 1..n /\ told'[n + 1].what = what
  BY <1>1, <1>5
<1>11. \A v : \A i : i \in Web!Tells(v)' <=> i \in Web!Tells(v) \/ (i = n + 1 /\ v = what)
  BY <1>4, <1>6, <1>7, <1>8, <1>9, <1>10
<1> HIDE DEF n
<1>12. Web!Tells(what)' = Web!Tells(what) \cup {n + 1}
  BY <1>11
<1>13. ASSUME NEW v \in Kinds \ {what} PROVE Web!Tells(v)' = Web!Tells(v)
  <2>1. \A i : i \in Web!Tells(v)' <=> i \in Web!Tells(v)
    BY <1>11
  <2>3. \A S, T : (\A i : i \in S <=> i \in T) => S = T
    OBVIOUS
  <2> QED BY <2>1, <2>3
<1> QED BY <1>1, <1>3, <1>4, <1>5, <1>12, <1>13 DEF n

LEMMA ToldSame ==
  ASSUME told' = told
  PROVE  /\ \A v : Web!Tells(v)' = Web!Tells(v)
         /\ \A i : Web!Ender(i)' = Web!Ender(i)
         /\ Web!Failed' = Web!Failed /\ Web!Answered' = Web!Answered
BY DEF Web!Tells, Web!Ender, Web!Failed, Web!Answered

\* Nothing but a message changes what the messages are.
LEMMA HeardStays ==
  ASSUME WebTyped, NEW what \in Kinds \ {"message"}, NEW of \in Seq(Nat),
         told' = told \/ told' = Append(told, Web!Told(what, of)), script' = script,
         NEW n
  PROVE  Web!Heard(n)' <=> Web!Heard(n)
<1>1. \A i \in Web!Tells("message") : told'[i] = told[i]
  BY ToldOne, TellsIn
<1>2. Web!Tells("message")' = Web!Tells("message")
  BY ToldOne, ToldSame DEF Kinds
<1>3. \A i \in Web!Tells("message") : Web!Ender(i)' = Web!Ender(i)
  BY <1>1 DEF Web!Ender
<1>4. Web!Ends(n)' = Web!Ends(n) /\ \A i : Web!PartsOf(i)' = Web!PartsOf(i)
  BY DEF Web!Ends, Web!PartsOf, Web!Since
<1> DEFINE M == Web!Tells("message")
<1>5. {Web!Ender(i) : i \in M}' = {Web!Ender(i) : i \in M}
  BY <1>2, <1>3
<1>6. Web!Heard(n)' <=>
        /\ {Web!Ender(i) : i \in M}' = Web!Ends(n)'
        /\ \A i \in M' : Web!Lists(told'[i].of, Web!PartsOf(Web!Ender(i))')
        /\ \A i, j \in M' : i < j => Web!Ender(i)' < Web!Ender(j)'
  BY DEF Web!Heard
<1>7. \A i \in M : Web!PartsOf(Web!Ender(i))' = Web!PartsOf(Web!Ender(i))
  BY <1>3, <1>4 DEF Web!PartsOf, Web!Since
<1> QED BY <1>1, <1>2, <1>3, <1>4, <1>5, <1>6, <1>7 DEF Web!Heard

LEMMA ConversedStays ==
  ASSUME WebTyped, NEW what \in Kinds \ {"message"}, NEW of \in Seq(Nat),
         told' = told \/ told' = Append(told, Web!Told(what, of)),
         UNCHANGED <<script, fragmented, message>>,
         NEW n, Conversed(n)
  PROVE  Conversed(n)'
<1>1. Web!Heard(n)'
  BY HeardStays DEF Conversed
<1>2. OpenAt(script, n)' = OpenAt(script, n) /\ Web!Since(n)' = Web!Since(n)
  BY DEF OpenAt, Web!Since
<1> QED BY <1>1, <1>2 DEF Conversed

\* A message is told when its last item is.
LEMMA HeardNext ==
  ASSUME WebTyped, NEW n \in Nat, Web!Heard(n), script[n + 1] \in {"text", "end"},
         NEW of \in Seq(Nat), of # <<>>, of[Len(of)] = n + 1, Web!Lists(of, Web!PartsOf(n + 1)),
         told' = Append(told, Web!Told("message", of)), script' = script
  PROVE  Web!Heard(n + 1)'
<1> PICK m : m = Len(told) + 1
  OBVIOUS
<1> DEFINE M == Web!Tells("message")
<1>1. /\ M' = M \cup {m} /\ Len(told) \in Nat
      /\ \A i \in 1..Len(told) : told'[i] = told[i]
      /\ told'[m] = [what |-> "message", of |-> of]
  BY ToldOne DEF Kinds
<1>2. \A i \in M : i \in 1..Len(told) /\ i < m /\ told'[i] = told[i]
  BY <1>1, TellsIn
<1>3. (\A i \in M : Web!Ender(i)' = Web!Ender(i)) /\ Web!Ender(m)' = n + 1
  BY <1>1, <1>2 DEF Web!Ender
<1>4. Web!Ends(n + 1)' = Web!Ends(n + 1) /\ \A i : Web!PartsOf(i)' = Web!PartsOf(i)
  BY DEF Web!Ends, Web!PartsOf, Web!Since
<1>5. Web!Ends(n + 1) = Web!Ends(n) \cup {n + 1}
  BY EndsNext
<1>6. \A i \in M : Web!Ender(i) \in Web!Ends(n) /\ Web!Ender(i) \in 1..n
  <2>1. \A i \in M : Web!Ender(i) \in Web!Ends(n)
    BY DEF Web!Heard
  <2> QED BY <2>1 DEF Web!Ends
<1>7. {Web!Ender(i) : i \in M}' = Web!Ends(n + 1)'
  <2>1. \A e : e \in {Web!Ender(i) : i \in M}' <=> e = n + 1 \/ \E i \in M : e = Web!Ender(i)
    BY <1>1, <1>3
  <2>2. \A e : e \in Web!Ends(n) <=> \E i \in M : e = Web!Ender(i)
    BY DEF Web!Heard
  <2> QED BY <2>1, <2>2, <1>4, <1>5
<1>8. \A i \in M' : Web!Lists(told'[i].of, Web!PartsOf(Web!Ender(i))')
  <2>1. ASSUME NEW e, NEW i, Web!Ender(i)' = e PROVE Web!PartsOf(Web!Ender(i))' = Web!PartsOf(e)
    BY <2>1 DEF Web!PartsOf, Web!Since
  <2>2. told'[m].of = of
    BY <1>1
  <2>3. \A i \in M : Web!Lists(told[i].of, Web!PartsOf(Web!Ender(i)))
    BY DEF Web!Heard
  <2>4. ASSUME NEW i \in M PROVE Web!Lists(told'[i].of, Web!PartsOf(Web!Ender(i))')
    <3>1. Web!PartsOf(Web!Ender(i))' = Web!PartsOf(Web!Ender(i))
      BY <2>1, <1>3
    <3> QED BY <3>1, <2>3, <1>2
  <2>5. Web!Lists(told'[m].of, Web!PartsOf(Web!Ender(m))')
    <3>1. Web!PartsOf(Web!Ender(m))' = Web!PartsOf(n + 1)
      BY <2>1, <1>3
    <3> QED BY <3>1, <2>2
  <2> QED BY <2>4, <2>5, <1>1
<1>9. \A i, j \in M' : i < j => Web!Ender(i)' < Web!Ender(j)'
  <2> SUFFICES ASSUME NEW i \in M', NEW j \in M', i < j PROVE Web!Ender(i)' < Web!Ender(j)'
    OBVIOUS
  <2>1. i \in M
    BY <1>1, <1>2
  <2>2. CASE j = m
    BY <2>1, <2>2, <1>3, <1>6
  <2>3. CASE j \in M
    BY <2>1, <2>3, <1>3 DEF Web!Heard
  <2> QED BY <2>2, <2>3, <1>1
<1>10. Web!Heard(n + 1)' <=>
        /\ {Web!Ender(i) : i \in M}' = Web!Ends(n + 1)'
        /\ \A i \in M' : Web!Lists(told'[i].of, Web!PartsOf(Web!Ender(i))')
        /\ \A i, j \in M' : i < j => Web!Ender(i)' < Web!Ender(j)'
  BY DEF Web!Heard
<1> QED BY <1>7, <1>8, <1>9, <1>10

-----------------------------------------------------------------------------
(* What the task still does, and the buffer *)

LEMMA Firsts ==
  /\ Head(<<"handshake">>) = "handshake" /\ Head(<<"frames">>) = "frames"
  /\ Head(<<"failed">>) = "failed" /\ Tail(<<"failed">>) = <<>>
  /\ Head(<<"failed", "refused">>) = "failed" /\ Tail(<<"failed", "refused">>) = <<"refused">>
  /\ Head(<<"refused">>) = "refused" /\ Tail(<<"refused">>) = <<>>
  /\ Head(<<"failed", "frames">>) = "failed" /\ Tail(<<"failed", "frames">>) = <<"frames">>
  /\ Head(<<"lost">>) = "lost" /\ Tail(<<"lost">>) = <<>>
OBVIOUS

LEMMA Dues ==
  ASSUME WebTyped
  PROVE  /\ Web!Due("handshake") => todo = <<"handshake">>
         /\ Web!Due("frames") => todo = <<"frames">>
         /\ Web!Due("refused") => todo = <<"refused">> /\ Tail(todo) = <<>>
         /\ Web!Due("lost") => todo = <<"lost">> /\ Tail(todo) = <<>>
         /\ Web!Due("failed") =>
              \/ todo = <<"failed">> /\ Tail(todo) = <<>>
              \/ todo = <<"failed", "refused">> /\ Tail(todo) = <<"refused">>
              \/ todo = <<"failed", "frames">> /\ Tail(todo) = <<"frames">>
BY Firsts DEF WebTyped, Todos, Web!Due

LEMMA Errors ==
  /\ <<"failed">> \o <<>> = <<"failed">>
  /\ <<"failed">> \o <<"refused">> = <<"failed", "refused">>
  /\ <<"failed">> \o <<"frames">> = <<"failed", "frames">>
<1> DEFINE S == {"failed", "refused", "frames"}
<1>1. <<"failed">> \in Seq(S) /\ <<"refused">> \in Seq(S) /\ <<"frames">> \in Seq(S)
  OBVIOUS
<1>2. \A s \in Seq(S) : s \o <<>> = s
  OBVIOUS
<1>3. \A s \in Seq(S) : \A a \in S : Len(s) = 2 /\ s[1] = "failed" /\ s[2] = a => s = <<"failed", a>>
  OBVIOUS
<1>4. \A a \in S : <<"failed">> \o <<a>> \in Seq(S) /\ Len(<<"failed">> \o <<a>>) = 2
  BY <1>1
<1>5. \A a \in S : (<<"failed">> \o <<a>>)[1] = "failed" /\ (<<"failed">> \o <<a>>)[2] = a
  BY <1>1
<1>6. \A a \in S : <<"failed">> \o <<a>> = <<"failed", a>>
  BY <1>3, <1>4, <1>5
<1> QED BY <1>1, <1>2, <1>6

LEMMA HalfIs ==
  ASSUME NEW n \in Nat
  PROVE  /\ Web!Half(2 * n + 1) = [kind |-> script[n + 1], item |-> n + 1, last |-> FALSE]
         /\ Web!Half(2 * n + 2) = [kind |-> script[n + 1], item |-> n + 1, last |-> TRUE]
<1>1. (2 * n + 1 + 1) \div 2 = n + 1 /\ (2 * n + 2 + 1) \div 2 = n + 1
  OBVIOUS
<1>2. (2 * n + 1) % 2 = 1 /\ (2 * n + 2) % 2 = 0
  OBVIOUS
<1>3. \A k : Web!Half(k) = [kind |-> script[(k + 1) \div 2], item |-> (k + 1) \div 2, last |-> k % 2 = 0]
  BY DEF Web!Half
<1>4. ((2 * n + 1) % 2 = 0) = FALSE /\ ((2 * n + 2) % 2 = 0) = TRUE
  BY <1>2
<1>5. Web!Half(2 * n + 1) = [kind |-> script[n + 1], item |-> n + 1, last |-> FALSE]
  <2>1. Web!Half(2 * n + 1) = [kind |-> script[n + 1], item |-> n + 1, last |-> (2 * n + 1) % 2 = 0]
    BY <1>1, <1>3
  <2> QED BY <2>1, <1>4, Zenon
<1>6. Web!Half(2 * n + 2) = [kind |-> script[n + 1], item |-> n + 1, last |-> TRUE]
  <2>1. Web!Half(2 * n + 2) = [kind |-> script[n + 1], item |-> n + 1, last |-> (2 * n + 2) % 2 = 0]
    BY <1>1, <1>3
  <2> QED BY <2>1, <1>4, Zenon
<1> QED BY <1>5, <1>6

LEMMA HalfOf ==
  ASSUME WebTyped, NEW p \in 1..(2 * Len(script))
  PROVE  \E n \in Nat : /\ p \in {2 * n + 1, 2 * n + 2} /\ n + 1 \in 1..Len(script)
                        /\ Web!Half(p).kind = script[n + 1] /\ Web!Half(p).item = n + 1
                        /\ (Web!Half(p).last <=> p = 2 * n + 2)
                        /\ Web!Half(p) \in Halves /\ Web!Half(p) # Web!Junk
<1> DEFINE n == (p - 1) \div 2
<1>0. Len(script) \in Nat
  BY Scripted
<1>1. n \in Nat /\ p \in {2 * n + 1, 2 * n + 2}
  BY <1>0
<1> HIDE DEF n
<1>2. n + 1 \in 1..Len(script)
  BY <1>0, <1>1
<1>3. script[n + 1] \in Web!Kind /\ script[n + 1] # "junk"
  BY <1>2, Placed
<1>4. \/ /\ p = 2 * n + 1 /\ p # 2 * n + 2
         /\ Web!Half(p) = [kind |-> script[n + 1], item |-> n + 1, last |-> FALSE]
      \/ /\ p = 2 * n + 2
         /\ Web!Half(p) = [kind |-> script[n + 1], item |-> n + 1, last |-> TRUE]
  BY <1>1, HalfIs
<1>5. /\ Web!Half(p).kind = script[n + 1] /\ Web!Half(p).item = n + 1
      /\ (Web!Half(p).last <=> p = 2 * n + 2)
  BY <1>4
<1>6. Web!Half(p) \in Halves /\ Web!Half(p) # Web!Junk
  <2>1. \A v \in BOOLEAN : [kind |-> script[n + 1], item |-> n + 1, last |-> v] \in Halves
    BY <1>1, <1>3 DEF Halves
  <2>2. Web!Junk.kind = "junk"
    BY DEF Web!Junk
  <2> QED BY <2>1, <2>2, <1>3, <1>4, <1>5
<1> QED BY <1>1, <1>2, <1>5, <1>6

LEMMA Lengths ==
  ASSUME WebTyped
  PROVE  /\ Len(buffer) \in Nat /\ arrived \in Nat /\ Len(script) \in Nat /\ arrived <= 2 * Len(script)
         /\ Before \in {0, 1} /\ (Before = 1 <=> Junked) /\ (Junked => Len(buffer) >= 1)
         /\ \A k \in 1..Len(buffer) : buffer[k] \in Halves
<1>1. buffer \in Seq(Halves)
  BY DEF WebTyped
<1>2. Len(buffer) \in Nat /\ (buffer # <<>> => Len(buffer) >= 1)
  BY <1>1
<1> QED BY <1>1, <1>2, Scripted DEF WebTyped, Before, Junked

\* The first k halves leave the buffer: the junk and whole items.
LEMMA Shifting ==
  ASSUME WebTyped, Buffered, NEW k \in 1..Len(buffer), NEW m \in Nat, m >= 1,
         Spent + k - Before = 2 * m, buffer' = Web!Rest(k), UNCHANGED <<script, arrived>>
  PROVE  /\ buffer' \in Seq(Halves) /\ ~Junked'
         /\ Spent' = 2 * m /\ Spent' \div 2 = m /\ Len(buffer') = arrived - 2 * m
         /\ 2 * m <= arrived /\ Buffered'
<1> PICK b : b = Len(buffer)
  OBVIOUS
<1>1. b \in Nat /\ k \in 1..b /\ arrived \in Nat /\ Before \in {0, 1} /\ buffer \in Seq(Halves)
  BY Lengths DEF WebTyped
<1>2. buffer' = SubSeq(buffer, k + 1, b)
  BY DEF Web!Rest
<1>3. /\ buffer' \in Seq(Halves) /\ Len(buffer') = b - k
      /\ \A i \in 1..(b - k) : buffer'[i] = buffer[k + i]
  BY <1>1, <1>2, SubSeqProperties
<1>4. Spent = arrived + Before - b /\ Spent \in Nat
  BY DEF Spent, Buffered
<1>5. \A i \in 1..(b - k) : buffer'[i] = Web!Half(2 * m + i)
  <2> SUFFICES ASSUME NEW i \in 1..(b - k) PROVE buffer'[i] = Web!Half(2 * m + i)
    OBVIOUS
  <2>1. k + i \in 1..b /\ k + i > Before
    BY <1>1
  <2>2. buffer[k + i] = Web!Half(Spent + (k + i) - Before)
    BY <2>1 DEF Buffered
  <2>3. Spent + (k + i) - Before = 2 * m + i
    BY <1>1, <1>4
  <2> QED BY <2>2, <2>3, <1>3
<1>6. 2 * m + (b - k) = arrived
  BY <1>1, <1>4
<1>7. ~Junked'
  <2> SUFFICES ASSUME Junked' PROVE FALSE
    OBVIOUS
  <2>1. Len(buffer') # 0
    BY <1>3 DEF Junked
  <2>2. 1 \in 1..(b - k) /\ 2 * m + 1 \in 1..(2 * Len(script))
    BY <2>1, <1>1, <1>3, <1>6, Lengths
  <2>3. Web!Half(2 * m + 1) # Web!Junk
    BY <2>2, HalfOf
  <2> QED BY <2>2, <2>3, <1>5 DEF Junked, Web!Junk
<1>8. Before' = 0 /\ Spent' = 2 * m
  BY <1>1, <1>3, <1>6, <1>7 DEF Before, Spent
<1>9. (2 * m) \div 2 = m
  OBVIOUS
<1>10. Buffered'
  <2>1. ASSUME NEW i, NEW e, Spent' + i - Before' = e
        PROVE  Web!Half(Spent + i - Before)' = Web!Half(e)
    BY <2>1 DEF Web!Half
  <2>2. ASSUME NEW i \in 1..Len(buffer') PROVE buffer'[i] = Web!Half(Spent + i - Before)'
    <3>1. i \in 1..(b - k) /\ Spent' + i - Before' = 2 * m + i
      BY <1>1, <1>3, <1>8
    <3> QED BY <1>5, <3>1, <2>1
  <2>3. Spent' >= 2 /\ Spent' \in Nat /\ Spent' = 2 * (Spent' \div 2)
    BY <1>8, <1>9
  <2> QED BY <2>2, <2>3, <1>7 DEF Buffered
<1> QED BY <1>1, <1>3, <1>6, <1>7, <1>8, <1>9, <1>10

\* The end of the response is the second half of the first item.
LEMMA Heading ==
  ASSUME WebTyped, Buffered, NEW k \in Web!HeaderEnds
  PROVE  /\ k \in 1..Len(buffer) /\ Spent = 0 /\ k = Before + 2
         /\ Len(script) >= 1 /\ script[1] = buffer[k].kind
<1> PICK b : b = Len(buffer)
  OBVIOUS
<1>1. b \in Nat /\ arrived \in Nat /\ Before \in {0, 1} /\ buffer \in Seq(Halves)
  BY Lengths DEF WebTyped
<1>2. k \in 1..b /\ buffer[k].kind \in {"ok", "bad"} /\ buffer[k].last
  BY <1>1 DEF Web!HeaderEnds
<1>3. Spent = arrived + Before - b /\ Spent \in Nat /\ Spent = 2 * (Spent \div 2)
  BY DEF Spent, Buffered
<1>4. k > Before
  <2> SUFFICES ASSUME ~(k > Before) PROVE FALSE
    OBVIOUS
  <2>1. k = 1 /\ Before = 1
    BY <1>1, <1>2
  <2>2. buffer[k] = Web!Junk
    BY <2>1 DEF Before, Junked
  <2> QED BY <2>2, <1>2 DEF Web!Junk
<1>5. buffer[k] = Web!Half(Spent + k - Before)
  BY <1>2, <1>4 DEF Buffered
<1> DEFINE p == Spent + k - Before
<1>6. p \in 1..(2 * Len(script))
  BY <1>1, <1>2, <1>3, <1>4, Lengths
<1>7. PICK n \in Nat : /\ p \in {2 * n + 1, 2 * n + 2} /\ n + 1 \in 1..Len(script)
                       /\ Web!Half(p).kind = script[n + 1]
                       /\ (Web!Half(p).last <=> p = 2 * n + 2)
  BY <1>6, HalfOf
<1>8. n + 1 = 1
  BY <1>2, <1>5, <1>7, Placed
<1>9. p = 2
  BY <1>2, <1>5, <1>7, <1>8
<1>10. Spent = 0 /\ k = Before + 2
  <2> PICK q : q = Spent \div 2
    OBVIOUS
  <2>1. q \in Int /\ Spent = 2 * q
    BY <1>3
  <2>2. Spent < 2
    BY <1>1, <1>2, <1>3, <1>4, <1>9
  <2>3. Spent = 0
    BY <2>1, <2>2, <1>3
  <2> QED BY <2>3, <1>1, <1>2, <1>9
<1> QED BY <1>2, <1>5, <1>7, <1>8, <1>10, Scripted

\* The first frame of the buffer is the item after those used.
LEMMA Framed ==
  ASSUME WebTyped, Buffered, handshaken, Len(buffer) >= 2, NEW n, n = Spent \div 2
  PROVE  /\ n \in Nat /\ n >= 1 /\ n + 1 \in 1..Len(script) /\ Spent = 2 * n /\ Before = 0
         /\ buffer[1].kind = script[n + 1] /\ buffer[1].item = n + 1
         /\ script[n + 1] \in Web!Kind \ {"ok", "bad", "junk"}
<1> PICK b : b = Len(buffer)
  OBVIOUS
<1>1. b \in Nat /\ b >= 2 /\ arrived \in Nat /\ Before = 0 /\ arrived <= 2 * Len(script) /\ Len(script) \in Nat
  BY Lengths DEF Buffered
<1>2. Spent = arrived + 0 - b /\ Spent \in Nat /\ Spent = 2 * n /\ Spent >= 2
  BY <1>1 DEF Spent, Buffered
<1>3. n \in Nat /\ n >= 1 /\ n + 1 \in 1..Len(script)
  BY <1>1, <1>2
<1>4. buffer[1] = Web!Half(2 * n + 1)
  <2>1. 1 \in 1..b /\ 1 > Before /\ Spent + 1 - Before = 2 * n + 1
    BY <1>1, <1>2, <1>3
  <2> QED BY <2>1 DEF Buffered
<1>5. buffer[1].kind = script[n + 1] /\ buffer[1].item = n + 1
  <2>1. Web!Half(2 * n + 1) = [kind |-> script[n + 1], item |-> n + 1, last |-> FALSE]
    BY <1>3, HalfIs
  <2> QED BY <2>1, <1>4
<1> QED BY <1>1, <1>2, <1>3, <1>5, Placed

LEMMA Erasing ==
  ASSUME WebTyped, Buffered, handshaken, Len(buffer) >= 2, NEW n, n = Spent \div 2,
         Web!Erased, UNCHANGED <<script, arrived>>
  PROVE  /\ buffer' \in Seq(Halves) /\ Buffered'
         /\ Spent' = 2 * (n + 1) /\ Spent' \div 2 = n + 1 /\ 2 * (n + 1) <= arrived
         /\ Len(buffer') = arrived - 2 * (n + 1)
<1>1. n \in Nat /\ Spent = 2 * n /\ Before = 0
  BY Framed
<1>2. 2 \in 1..Len(buffer) /\ n + 1 \in Nat /\ n + 1 >= 1 /\ Spent + 2 - Before = 2 * (n + 1)
  BY <1>1, Lengths
<1>3. buffer' = Web!Rest(2)
  BY DEF Web!Erased
<1> QED BY <1>2, <1>3, Shifting

-----------------------------------------------------------------------------
(* Steps that leave the connection and its items as they are *)

LEMMA LifeTold ==
  ASSUME WebTyped, Web!LifeOfConnection, NEW what \in Kinds, NEW of \in Seq(Nat),
         told' = Append(told, Web!Told(what, of)),
         what = "connected" => Web!Tells("connected") = {} /\ Web!Tells("message") = {},
         what \in {"closed", "message"} => Web!Tells("closed") = {}
  PROVE  Web!LifeOfConnection'
<1> PICK m : m = Len(told) + 1
  OBVIOUS
<1>0. \A v \in Kinds \ {what} : Web!Tells(v)' = Web!Tells(v)
  BY ToldOne
<1>9. m \in Nat
  BY ToldOne
<1>1. Web!Tells(what)' = Web!Tells(what) \cup {m}
  BY ToldOne
<1>2. \A v : \A i \in Web!Tells(v) : i \in Nat /\ i < m
  BY TellsIn, ToldOne
<1>3. \A i \in Web!Tells("message") : \A j \in Web!Tells("connected") : j < i
  BY DEF Web!LifeOfConnection
<1>4. \A i \in Web!Tells("message") : \A j \in Web!Tells("closed") : i < j
  BY DEF Web!LifeOfConnection
<1>5. \A v \in {"connected", "closed"} : \A i, j \in Web!Tells(v) : i = j
  BY DEF Web!LifeOfConnection
<1>6. \A v \in {"connected", "closed"} : \A i, j \in Web!Tells(v)' : i = j
  BY <1>0, <1>1, <1>5 DEF Kinds
<1>7. \A i \in Web!Tells("message")' : \A j \in Web!Tells("connected")' : j < i
  BY <1>0, <1>9, <1>1, <1>2, <1>3 DEF Kinds
<1>8. \A i \in Web!Tells("message")' : \A j \in Web!Tells("closed")' : i < j
  BY <1>0, <1>9, <1>1, <1>2, <1>4 DEF Kinds
<1> QED BY <1>6, <1>7, <1>8 DEF Web!LifeOfConnection

\* A ping or an error is told, or nothing.
LEMMA Within ==
  ASSUME WebInv, NEW what \in {"ping", "error"},
         told' = told \/ told' = Append(told, Web!Told(what, <<>>)),
         stale' = stale, closes' \in {0, 1}, closes = 1 => closes' = 1
  PROVE  /\ told' \in Seq(Tidings) /\ Web!LifeOfConnection' /\ Web!ClosesOnce'
         /\ \A v \in {"connected", "message", "closed"} : Web!Tells(v)' = Web!Tells(v)
         /\ Web!Failed => Web!Failed'
         /\ told' = told => Web!Failed' = Web!Failed
         /\ what = "error" /\ told' # told => Web!Failed'
         /\ what = "ping" => Web!Failed' = Web!Failed
<1> USE DEF WebInv
<1>0. <<>> \in Seq(Nat) /\ what \in Kinds
  BY DEF Kinds
<1>1. CASE told' = told
  <2>1. Web!LifeOfConnection'
    BY <1>1, ToldSame DEF Web!LifeOfConnection
  <2>2. Web!ClosesOnce'
    BY <1>1, ToldSame DEF Web!ClosesOnce, Web!EchoesClose
  <2> QED BY <2>1, <2>2, <1>1, ToldSame DEF WebTyped
<1>2. CASE told' = Append(told, Web!Told(what, <<>>))
  <2> PICK m : m = Len(told) + 1
    OBVIOUS
  <2>1. /\ told' \in Seq(Tidings) /\ Web!Tells(what)' = Web!Tells(what) \cup {m}
        /\ \A v \in Kinds \ {what} : Web!Tells(v)' = Web!Tells(v)
        /\ \A i \in 1..Len(told) : told'[i] = told[i]
    BY <1>0, <1>2, ToldOne
  <2>2. Web!LifeOfConnection'
    BY <1>0, <1>2, LifeTold
  <2>3. \A v \in {"connected", "message", "closed"} : Web!Tells(v)' = Web!Tells(v)
    BY <2>1 DEF Kinds
  <2>4. /\ Web!Failed => Web!Failed'
        /\ what = "error" => Web!Failed'
        /\ what = "ping" => Web!Failed' = Web!Failed
    BY <2>1 DEF Kinds, Web!Failed
  <2>5. Web!Answered' => Web!Answered
    BY <2>1, <2>3, TellsIn DEF Web!Answered
  <2>6. Web!ClosesOnce'
    BY <2>4, <2>5 DEF Web!ClosesOnce, Web!EchoesClose
  <2>7. told' # told
    BY <1>0, <1>2, ToldOne
  <2> QED BY <2>1, <2>2, <2>3, <2>4, <2>6, <2>7
<1> QED BY <1>1, <1>2

LEMMA Keeps ==
  ASSUME Buffered, UNCHANGED <<buffer, script, arrived, handshaken>>
  PROVE  Buffered' /\ Spent' = Spent /\ Junked' = Junked
BY DEF Buffered, Spent, Before, Junked, Web!Half, Web!Junk

\* The items that were used, by their number.
LEMMA Rebased ==
  ASSUME NEW n, (Spent \div 2)' = n, Conversed(n)'
  PROVE  Conversed(Spent \div 2)'
BY DEF Conversed, Web!Heard, Web!Ends, OpenAt, Web!Since

LEMMA ConversingStays ==
  ASSUME WebInv, NEW what \in {"ping", "error"},
         told' = told \/ told' = Append(told, Web!Told(what, <<>>)),
         UNCHANGED <<script, fragmented, message, handshaken, use>>, Spent' = Spent,
         Web!Failed => Web!Failed'
  PROVE  Conversing'
<1>1. <<>> \in Seq(Nat) /\ what \in Kinds \ {"message"}
  BY DEF Kinds
<1>2. \A n : Conversed(n) => Conversed(n)'
  BY <1>1, ConversedStays DEF WebInv
<1>3. ASSUME NEW n, n = Spent \div 2, Conversed(n)' PROVE Conversed(Spent \div 2)'
  BY <1>3, Rebased
<1> QED BY <1>2, <1>3 DEF Conversing, WebInv

LEMMA Nothing ==
  ASSUME WebInv, UNCHANGED <<told, script, arrived, handshaken, buffer, fragmented, message, use, stale>>,
         closes' \in {0, 1}, closes = 1 => closes' = 1,
         WebTyped', Tasking', Ending', Closings'
  PROVE  WebInv'
<1>1. Buffered' /\ Spent' = Spent
  BY Keeps DEF WebInv
<1>2. Web!LifeOfConnection' /\ Web!ClosesOnce' /\ Web!Failed' = Web!Failed
  BY Within
<1>3. Conversing'
  BY <1>1, <1>2, ConversingStays
<1> QED BY <1>1, <1>2, <1>3 DEF WebInv

\* A call of the application, or what follows a callback.
LEMMA CallsInv ==
  ASSUME WebInv, Web!Return \/ Web!SendClose \/ Web!Disconnect \/ Web!AfterError \/ Web!AfterLoss
                 \/ Web!AwaitHeader \/ Web!AwaitFrame
  PROVE  WebInv'
<1> USE DEF WebInv, Web!frames, Web!server, Web!past
<1> DEFINE Kept ==
      /\ UNCHANGED <<told, script, arrived, handshaken, buffer, fragmented, message, use, stale>>
      /\ closes' \in {0, 1} /\ (closes = 1 => closes' = 1)
<1>10. closes \in {0, 1} /\ (Web!CountClose => closes' \in {0, 1} /\ (closes = 1 => closes' = 1))
  BY DEF WebTyped, Closings, Web!CountClose, Web!Closes
<1>11. ASSUME Web!SendClose \/ Web!Disconnect PROVE Kept
  BY <1>10, <1>11 DEF Web!SendClose, Web!Disconnect
<1>12. ASSUME Web!Return \/ Web!AfterError \/ Web!AfterLoss \/ Web!AwaitHeader \/ Web!AwaitFrame
      PROVE  Kept
  BY <1>10, <1>12 DEF Web!Return, Web!AfterError, Web!AfterLoss, Web!AwaitHeader, Web!AwaitFrame, Web!Continue
<1>0. Kept
  BY <1>11, <1>12
<1>1. (\A v : Web!Tells(v)' = Web!Tells(v)) /\ Web!Failed' = Web!Failed
  BY <1>0, ToldSame
<1> USE <1>0, <1>1
<1>2. CASE Web!Return
  <2> USE <1>2 DEF Web!Return
  <2>1. WebTyped'
    BY DEF WebTyped
  <2>2. Tasking' /\ Closings' /\ Ending'
    BY DEF Tasking, Framing, Failing, Ending, Gone, Over, Closings
  <2> QED BY <2>1, <2>2, Nothing
<1>3. CASE Web!SendClose
  <2> USE <1>3 DEF Web!SendClose, Web!CountClose, Web!Closes
  <2>1. WebTyped'
    BY DEF WebTyped, Web!State
  <2>2. Tasking' /\ Closings'
    BY DEF WebTyped, Tasking, Framing, Failing, Closings
  <2>3. Ending'
    BY DEF Ending, Gone, Over
  <2> QED BY <2>1, <2>2, <2>3, Nothing
<1>4. CASE Web!Disconnect
  <2> USE <1>4 DEF Web!Disconnect, Web!CountClose, Web!Closes
  <2>1. WebTyped'
    BY DEF WebTyped, Web!State
  <2>2. Tasking'
    BY DEF Tasking, Framing, Failing
  <2>4. ASSUME Web!Closes PROVE Closings'
    <3>1. closeSent' /\ closes = 0
      BY <2>4 DEF WebTyped, Closings, Web!Closes
    <3>2. closes' = 1
      BY <2>4, <3>1 DEF Web!Closes
    <3> QED BY <3>1, <3>2 DEF Closings
  <2>5. ASSUME ~Web!Closes PROVE Closings'
    <3>1. (closeSent' <=> closeSent) /\ (web = "connected" => closeSent)
      BY <2>5 DEF Web!Closes
    <3>2. closes' = closes
      BY <2>5 DEF Web!Closes
    <3> QED BY <3>1, <3>2 DEF Closings
  <2>6. Closings'
    BY <2>4, <2>5
  <2>3. Ending'
    BY DEF Ending, Gone, Over
  <2> QED BY <2>1, <2>2, <2>3, <2>6, Nothing
<1>5. CASE Web!AfterError
  <2> USE <1>5 DEF Web!AfterError, Web!Continue, Web!ScheduleReconnect
  <2>1. \/ todo = <<"failed">> /\ todo' = <<>>
        \/ todo = <<"failed", "refused">> /\ todo' = <<"refused">>
        \/ todo = <<"failed", "frames">> /\ todo' = <<"frames">>
    BY Dues
  <2>2. WebTyped'
    BY <2>1 DEF WebTyped, Web!State, Todos
  <2>3. Web!Failed
    BY <2>1 DEF Tasking, Failing
  <2>4. Tasking' /\ Closings'
    BY <2>1, <2>3 DEF Tasking, Framing, Failing, Closings
  <2>5. Ending'
    BY <2>1 DEF Ending, Gone, Over
  <2> QED BY <2>2, <2>4, <2>5, Nothing
<1>6. CASE Web!AfterLoss
  <2> USE <1>6 DEF Web!AfterLoss, Web!Continue, Web!ScheduleReconnect
  <2>1. todo = <<"lost">> /\ todo' = <<>>
    BY Dues
  <2>2. WebTyped'
    BY <2>1 DEF WebTyped, Web!State, Todos
  <2>3. Tasking' /\ Closings'
    BY <2>1 DEF Tasking, Framing, Failing, Closings, Ending
  <2>4. Ending'
    BY <2>1 DEF Ending, Gone, Over
  <2> QED BY <2>2, <2>3, <2>4, Nothing
<1>7. CASE Web!AwaitHeader
  <2> USE <1>7 DEF Web!AwaitHeader, Web!Continue
  <2>1. todo = <<"handshake">> /\ todo' = <<>>
    BY Dues
  <2>2. WebTyped'
    BY <2>1 DEF WebTyped, Todos
  <2>3. Tasking' /\ Closings' /\ Ending'
    BY <2>1 DEF Tasking, Framing, Failing, Closings, Ending, Gone, Over
  <2> QED BY <2>2, <2>3, Nothing
<1>8. CASE Web!AwaitFrame
  <2> USE <1>8 DEF Web!AwaitFrame, Web!Continue, Web!Complete
  <2>1. todo = <<"frames">> /\ todo' = <<>>
    BY Dues
  <2>2. WebTyped'
    BY <2>1 DEF WebTyped, Todos
  <2>3. Tasking' /\ Closings' /\ Ending'
    BY <2>1, Lengths DEF Tasking, Framing, Failing, Closings, Ending, Gone, Over
  <2> QED BY <2>2, <2>3, Nothing
<1> QED BY <1>2, <1>3, <1>4, <1>5, <1>6, <1>7, <1>8

-----------------------------------------------------------------------------
(* Connections that begin, fail and end *)

\* A new connection has nothing of the old one but junk and flags.
LEMMA StartInv == ASSUME WebInv, Web!Idle, Web!StartConnecting, reconnects' \in Nat PROVE WebInv'
<1> USE DEF WebInv, Web!StartConnecting, Web!Idle
<1>1. (\A v : Web!Tells(v)' = {}) /\ ~Web!Failed' /\ ~Web!Answered'
  BY DEF Web!Tells, Web!Failed, Web!Answered
<1>2. WebTyped'
  <2>1. Web!Junk \in Halves
    BY DEF Web!Junk, Halves, Web!Kind
  <2>2. buffer' \in Seq(Halves) /\ message' \in Seq(Nat)
    BY <2>1
  <2>3. script' \in Seq(Web!Kind) /\ arrived' \in 0..(2 * Len(script'))
    BY WebAssumption DEF WebTyped
  <2>4. told' \in Seq(Tidings)
    OBVIOUS
  <2> QED BY <2>2, <2>3, <2>4 DEF WebTyped, Web!State
<1>3. Buffered'
  <2>1. CASE buffer = <<>>
    <3>1. buffer' = <<>> /\ Len(buffer') = 0
      BY <2>1
    <3>2. ~Junked' /\ Before' = 0 /\ Spent' = 0
      BY <3>1 DEF Junked, Before, Spent
    <3> QED BY <3>1, <3>2 DEF Buffered
  <2>2. CASE buffer # <<>>
    <3>1. buffer' = <<Web!Junk>> /\ Len(buffer') = 1
      BY <2>2
    <3>2. Before' = 1 /\ Spent' = 0
      BY <3>1 DEF Junked, Before, Spent, Web!Junk
    <3> QED BY <3>1, <3>2 DEF Buffered
  <2> QED BY <2>1, <2>2
<1>4. Tasking'
  BY <1>1 DEF Tasking, Framing, Failing
<1>5. Ending'
  BY <1>1 DEF Ending
<1>6. Closings'
  BY DEF Closings
<1>7. Conversing' /\ Web!LifeOfConnection' /\ Web!ClosesOnce'
  BY <1>1 DEF Conversing, Web!LifeOfConnection, Web!ClosesOnce, Web!EchoesClose
<1> QED BY <1>2, <1>3, <1>4, <1>5, <1>6, <1>7

\* An error leaves the buffer as it is.
LEMMA ErrorKeeps ==
  ASSUME WebInv, NEW next \in {<<>>, <<"refused">>}, Web!HandleError(next),
         UNCHANGED <<use, script, arrived, handshaken, buffer, fragmented, message, closeSent,
                     reconnects, stale, closes>>,
         phase' \in {"idle", "failed", "open"}, Web!Tells("closed") = {}
  PROVE  WebInv'
<1> USE DEF WebInv, Web!HandleError, Web!Call
<1>1. told' = Append(told, Web!Told("error", <<>>)) /\ todo' \in {<<"failed">>, <<"failed", "refused">>}
  BY Errors
<1>2. /\ told' \in Seq(Tidings) /\ Web!LifeOfConnection' /\ Web!ClosesOnce' /\ Web!Failed'
      /\ \A v \in {"connected", "message", "closed"} : Web!Tells(v)' = Web!Tells(v)
  <2>1. closes' \in {0, 1}
    BY DEF WebTyped
  <2>2. told' # told
    BY <1>1, ToldOne DEF Kinds
  <2> QED BY <1>1, <2>1, <2>2, Within
<1>3. Buffered'
  BY Keeps
<1>4. WebTyped'
  BY <1>1, <1>2 DEF WebTyped, Web!State, Todos
<1>5. Tasking'
  BY <1>1, <1>2 DEF Tasking, Framing, Failing
<1>6. Ending' /\ Conversing'
  BY <1>1, <1>2 DEF Ending, Conversing
<1>7. Closings'
  BY <1>2 DEF Closings
<1> QED BY <1>2, <1>3, <1>4, <1>5, <1>6, <1>7

LEMMA AnswerInv ==
  ASSUME WebInv, Web!OnConnected \/ Web!OnError \/ Web!OnConnectFailed \/ Web!Masked
  PROVE  WebInv'
<1> USE DEF WebInv, Web!frames, Web!server
<1>1. CASE Web!OnConnected
  <2> USE <1>1 DEF Web!OnConnected, Web!Idle
  <2>1. ~handshaken /\ Web!Tells("closed") = {}
    BY DEF Tasking, Ending, Gone, Over
  <2>2. CASE web' = "handshaking" /\ Web!Continue(<<>>)
    <3>1. told' = told /\ todo' = <<>>
      BY <2>2 DEF Web!Continue
    <3>2. (\A v : Web!Tells(v)' = Web!Tells(v)) /\ Web!Failed' = Web!Failed
      BY <3>1, ToldSame
    <3>3. WebTyped'
      BY <2>2, <3>1 DEF WebTyped, Web!State, Todos, Web!Continue
    <3>4. Tasking' /\ Ending' /\ Closings'
      BY <2>1, <3>1, <3>2 DEF Tasking, Framing, Failing, Ending, Closings
    <3>5. closes' \in {0, 1}
      BY DEF WebTyped
    <3> QED BY <3>1, <3>3, <3>4, <3>5, Nothing
  <2>3. CASE Web!HandleError(<<>>)
    BY <2>1, <2>3, ErrorKeeps
  <2> QED BY <2>2, <2>3
<1>2. CASE Web!OnError
  <2> USE <1>2 DEF Web!OnError, Web!Idle
  <2>1. ~handshaken /\ Web!Tells("closed") = {}
    BY DEF Tasking, Ending, Gone, Over
  <2> QED BY <2>1, ErrorKeeps
<1>3. CASE Web!OnConnectFailed
  <2> USE <1>3 DEF Web!OnConnectFailed
  <2>1. todo = <<"refused">> /\ Tail(todo) = <<>>
    BY Dues
  <2>2. Web!Tells("closed") = {}
    BY <2>1 DEF Ending, Gone, Over
  <2>3. Web!HandleError(<<>>) /\ phase # "connecting"
    BY <2>1 DEF Tasking
  <2> QED BY <2>2, <2>3, ErrorKeeps DEF WebTyped
<1>4. CASE Web!Masked
  <2> USE <1>4 DEF Web!Masked, Web!Frame, Web!Complete
  <2>1. todo = <<"frames">> /\ Len(buffer) >= 2
    BY Dues
  <2>2. Web!Tells("closed") = {}
    <3>1. buffer # <<>>
      BY <2>1, Lengths
    <3> QED BY <2>1, <3>1 DEF Ending, Gone, Over
  <2>3. phase # "connecting"
    BY <2>1 DEF Tasking
  <2> QED BY <2>2, <2>3, ErrorKeeps DEF WebTyped
<1> QED BY <1>1, <1>2, <1>3, <1>4

\* The transport ends when the runner's task has used what came.
LEMMA LossInv == ASSUME WebInv, Web!OnDisconnected PROVE WebInv'
<1> USE DEF WebInv, Web!frames, Web!server, Web!OnDisconnected, Web!Idle
<1>0. closes' \in {0, 1} /\ <<>> \in Seq(Nat)
  BY DEF WebTyped
<1>1. CASE web = "closed" /\ UNCHANGED web /\ Web!Continue(<<>>)
  <2> USE <1>1 DEF Web!Continue
  <2>1. (\A v : Web!Tells(v)' = Web!Tells(v)) /\ Web!Failed' = Web!Failed
    BY ToldSame
  <2>2. WebTyped'
    BY DEF WebTyped, Todos
  <2>3. Tasking' /\ Ending' /\ Closings'
    BY <2>1 DEF Tasking, Framing, Failing, Ending, Gone, Closings
  <2> QED BY <2>2, <2>3, <1>0, Nothing
<1>2. CASE web # "closed" /\ web' = "disconnected" /\ Web!Call("closed", <<>>, <<"lost">>)
  <2> USE <1>2 DEF Web!Call
  <2>1. Web!Tells("closed") = {}
    BY DEF Ending, Gone, Over
  <2> PICK m : m = Len(told) + 1
    OBVIOUS
  <2>2. /\ told' \in Seq(Tidings) /\ told'[m] = [what |-> "closed", of |-> <<>>]
        /\ Web!Tells("closed")' = Web!Tells("closed") \cup {m}
        /\ \A v \in Kinds \ {"closed"} : Web!Tells(v)' = Web!Tells(v)
    BY <1>0, ToldOne DEF Kinds
  <2>3. Web!LifeOfConnection'
    BY <1>0, <2>1, LifeTold DEF Kinds
  <2>4. Web!Failed' = Web!Failed
    BY <2>2 DEF Web!Failed, Kinds
  <2>5. WebTyped'
    BY <2>2 DEF WebTyped, Web!State, Todos
  <2>6. Tasking'
    BY <2>2, <2>4 DEF Tasking, Framing, Failing, Kinds
  <2>7. Ending' /\ Closings'
    BY <2>2 DEF Ending, Gone, Closings
  <2>8. ~Web!Answered'
    BY <2>1, <2>2 DEF Web!Answered
  <2>9. Web!ClosesOnce'
    BY <2>8, <1>0 DEF Web!ClosesOnce, Web!EchoesClose
  <2>10. Buffered' /\ Spent' = Spent
    BY Keeps
  <2>11. Conversing'
    <3>1. "closed" \in Kinds \ {"message"}
      BY DEF Kinds
    <3>2. \A n : Conversed(n) => Conversed(n)'
      BY <1>0, <3>1, ConversedStays
    <3>3. ASSUME NEW n, n = Spent \div 2, Conversed(n)' PROVE Conversed(Spent \div 2)'
      BY <2>10, <3>3, Rebased
    <3> QED BY <2>4, <3>2, <3>3 DEF Conversing
  <2> QED BY <2>3, <2>5, <2>6, <2>7, <2>9, <2>10, <2>11
<1> QED BY <1>1, <1>2

-----------------------------------------------------------------------------
(* What arrives, and the handshake *)

LEMMA DataInv == ASSUME WebInv, Web!OnDataReceived PROVE WebInv'
<1> USE DEF WebInv
<1>1. PICK n \in 1..(2 * Len(script) - arrived) :
        arrived' = arrived + n /\ buffer' = buffer \o [k \in 1..n |-> Web!Half(arrived + k)]
  BY DEF Web!OnDataReceived
<1>0. /\ phase = "open" /\ todo = <<>> /\ Web!Continue(IF handshaken THEN <<"frames">> ELSE <<"handshake">>)
      /\ UNCHANGED <<use, web, phase, handshaken, fragmented, message, closeSent, reconnects, script,
                     stale, closes>>
  BY DEF Web!OnDataReceived, Web!Idle
<1> PICK b : b = Len(buffer)
  OBVIOUS
<1> DEFINE new == [k \in 1..n |-> Web!Half(arrived + k)]
<1>2. b \in Nat /\ arrived \in Nat /\ Len(script) \in Nat /\ Before \in {0, 1} /\ buffer \in Seq(Halves)
  BY Lengths DEF WebTyped
<1>3. n \in Nat /\ n >= 1 /\ arrived + n <= 2 * Len(script)
  BY <1>1, <1>2
<1>4. told' = told /\ todo' = (IF handshaken THEN <<"frames">> ELSE <<"handshake">>)
  BY <1>0 DEF Web!Continue
<1>5. (\A v : Web!Tells(v)' = Web!Tells(v)) /\ Web!Failed' = Web!Failed
  BY <1>4, ToldSame
<1>6. ASSUME NEW k \in 1..n
      PROVE  Web!Half(arrived + k) \in Halves /\ Web!Half(arrived + k) # Web!Junk
  <2>1. arrived + k \in 1..(2 * Len(script))
    BY <1>2, <1>3
  <2> QED BY <2>1, HalfOf
<1>7. new \in Seq(Halves) /\ Len(new) = n /\ \A k \in 1..n : new[k] = Web!Half(arrived + k)
  BY <1>3, <1>6
<1> HIDE DEF new
<1>8. /\ buffer' \in Seq(Halves) /\ Len(buffer') = b + n
      /\ \A k \in 1..b : buffer'[k] = buffer[k]
      /\ \A k \in (b + 1)..(b + n) : buffer'[k] = Web!Half(arrived + (k - b))
  <2>1. buffer' = buffer \o new
    BY <1>1 DEF new
  <2>2. /\ buffer' \in Seq(Halves) /\ Len(buffer') = b + n
        /\ \A k \in 1..b : buffer'[k] = buffer[k]
        /\ \A k \in (b + 1)..(b + n) : buffer'[k] = new[k - b]
    <3>1. /\ buffer \o new \in Seq(Halves) /\ Len(buffer \o new) = Len(buffer) + Len(new)
          /\ \A k \in 1..(Len(buffer) + Len(new)) :
               (buffer \o new)[k] = IF k <= Len(buffer) THEN buffer[k] ELSE new[k - Len(buffer)]
      BY <1>2, <1>7, ConcatProperties
    <3>2. \A k \in 1..b : k \in 1..(b + n) /\ k <= b
      BY <1>2, <1>3
    <3>3. \A k \in (b + 1)..(b + n) : k \in 1..(b + n) /\ ~(k <= b)
      BY <1>2, <1>3
    <3>4. buffer' \in Seq(Halves) /\ Len(buffer') = b + n
      BY <2>1, <3>1, <1>7
    <3>5. \A k \in 1..(b + n) : buffer'[k] = IF k <= b THEN buffer[k] ELSE new[k - b]
      BY <2>1, <3>1, <1>7
    <3> QED BY <3>2, <3>3, <3>4, <3>5
  <2>3. \A k \in (b + 1)..(b + n) : k - b \in 1..n
    BY <1>2, <1>3
  <2> QED BY <2>2, <2>3, <1>7
<1>9. Junked' = Junked
  <2>1. CASE b = 0
    <3>1. 1 \in (b + 1)..(b + n) /\ arrived + (1 - b) = arrived + 1 /\ 1 \in 1..n
      BY <2>1, <1>3, <1>2
    <3>2. buffer'[1] # Web!Junk
      BY <3>1, <1>8, <1>6
    <3>3. buffer = <<>>
      BY <2>1, <1>2, EmptySeq
    <3> QED BY <3>2, <3>3 DEF Junked, Web!Junk
  <2>2. CASE b >= 1
    <3>1. buffer # <<>> /\ buffer' # <<>> /\ buffer'[1] = buffer[1]
      BY <2>2, <1>2, <1>3, <1>8
    <3> QED BY <3>1 DEF Junked, Web!Junk
  <2> QED BY <2>1, <2>2, <1>2
<1>10. Before' = Before /\ Spent' = Spent
  <2>1. Before' = Before
    BY <1>9 DEF Before
  <2>2. (arrived + n) + Before - (b + n) = arrived + Before - b
    BY <1>2, <1>3
  <2> QED BY <2>1, <2>2, <1>1, <1>8 DEF Spent
<1>11. Buffered'
  <2>1. Spent = arrived + Before - b
    BY DEF Spent
  <2>2. ASSUME NEW k \in 1..(b + n), k > Before
        PROVE  buffer'[k] = Web!Half(Spent + k - Before)
    <3>1. CASE k \in 1..b
      <4>1. buffer[k] = Web!Half(Spent + k - Before)
        BY <3>1, <2>2 DEF Buffered
      <4> QED BY <3>1, <4>1, <1>8
    <3>2. CASE k \in (b + 1)..(b + n)
      <4>1. Spent + k - Before = arrived + (k - b)
        BY <2>1, <1>2, <1>3, <3>2
      <4> QED BY <3>2, <4>1, <1>8
    <3>3. k \in 1..b \/ k \in (b + 1)..(b + n)
      BY <1>2, <1>3
    <3> QED BY <3>1, <3>2, <3>3
  <2>3. ASSUME NEW i, NEW e, Spent' + i - Before' = e
        PROVE  Web!Half(Spent + i - Before)' = Web!Half(e)
    BY <1>0, <2>3 DEF Web!Half
  <2>4. \A k \in 1..Len(buffer') : k > Before' => buffer'[k] = Web!Half(Spent + k - Before)'
    BY <1>8, <1>10, <2>2, <2>3
  <2> QED BY <1>0, <1>9, <1>10, <2>4 DEF Buffered
<1>12. WebTyped'
  <2>1. arrived' \in 0..(2 * Len(script))
    BY <1>1, <1>2, <1>3
  <2>2. inCallback' = inCallback
    BY <1>0 DEF Web!Continue
  <2> QED BY <2>1, <2>2, <1>0, <1>4, <1>8 DEF WebTyped, Todos
<1>13. Web!Tells("closed") = {}
  <2> SUFFICES ASSUME Over PROVE FALSE
    BY <1>0 DEF Ending, Gone
  <2> QED BY <1>2, <1>3 DEF Over
<1>14. Tasking' /\ Ending' /\ Closings'
  BY <1>0, <1>4, <1>5, <1>13 DEF Tasking, Framing, Failing, Ending, Closings
<1>15. Conversing'
  BY <1>0, <1>4, <1>5, <1>10, ConversingStays
<1>16. closes' \in {0, 1}
  BY <1>0 DEF WebTyped
<1>17. Web!LifeOfConnection' /\ Web!ClosesOnce'
  BY <1>0, <1>4, <1>16, Within
<1> QED BY <1>11, <1>12, <1>14, <1>15, <1>17

\* The first item was the response: no message, and none open.
LEMMA Responded ==
  ASSUME script[1] \in {"ok", "bad"}, Web!Tells("message") = {}
  PROVE  Conversed(1)
<1>1. \A i \in 1..1 : i = 1
  OBVIOUS
<1>2. Web!Ends(1) = {} /\ ~OpenAt(script, 1)
  BY <1>1 DEF Web!Ends, OpenAt
<1>3. {Web!Ender(i) : i \in Web!Tells("message")} = {}
  OBVIOUS
<1>4. Web!Heard(1)
  BY <1>2, <1>3 DEF Web!Heard
<1> QED BY <1>1, <1>2, <1>4 DEF Conversed, Data

LEMMA AcceptInv == ASSUME WebInv, Web!Accept PROVE WebInv'
<1> USE DEF WebInv, Web!Accept, Web!Call
<1>1. PICK k \in Web!HeaderEnds : buffer[k].kind = "ok" /\ buffer' = Web!Rest(k)
  OBVIOUS
<1>2. todo = <<"handshake">> /\ ~handshaken /\ phase # "connecting"
  BY Dues DEF Tasking
<1>3. Web!Tells("connected") = {} /\ Web!Tells("message") = {} /\ Web!Tells("closed") = {}
  BY <1>2 DEF Tasking, Ending, Gone, Over
<1>4. k \in 1..Len(buffer) /\ Spent + k - Before = 2 * 1 /\ script[1] = "ok"
  <2>1. k \in 1..Len(buffer) /\ Spent = 0 /\ k = Before + 2 /\ script[1] = buffer[k].kind
    BY Heading
  <2> QED BY <2>1, <1>1, Lengths
<1>5. /\ buffer' \in Seq(Halves) /\ Buffered' /\ Spent' \div 2 = 1
  <2>1. UNCHANGED <<script, arrived>> /\ 1 \in Nat /\ 1 >= 1
    BY DEF Web!server
  <2> QED BY <2>1, <1>1, <1>4, Shifting
<1>6. <<>> \in Seq(Nat)
  OBVIOUS
<1>7. /\ told' \in Seq(Tidings)
      /\ \A v \in Kinds \ {"connected"} : Web!Tells(v)' = Web!Tells(v)
  BY <1>6, ToldOne DEF Kinds
<1>8. Web!LifeOfConnection'
  BY <1>3, <1>6, LifeTold DEF Kinds
<1>9. Web!Failed' = Web!Failed /\ Web!Tells("closed")' = {} /\ Web!Tells("message")' = {}
  BY <1>3, <1>7 DEF Web!Failed, Kinds
<1>10. WebTyped'
  BY <1>5, <1>7 DEF WebTyped, Web!State, Todos, Web!server
<1>11. Tasking' /\ Ending' /\ Closings'
  BY <1>2, <1>9 DEF Tasking, Framing, Failing, Ending, Closings
<1>12. Web!ClosesOnce'
  <2>1. ~Web!Answered'
    BY <1>9 DEF Web!Answered
  <2>2. closes' \in {0, 1}
    BY DEF WebTyped
  <2> QED BY <2>1, <2>2 DEF Web!ClosesOnce, Web!EchoesClose
<1>13. Conversing'
  <2>1. Conversed(1)
    BY <1>3, <1>4, Responded
  <2>2. Conversed(1)'
    BY <2>1, <1>6, ConversedStays DEF Kinds, Web!server
  <2> QED BY <2>2, <1>5, Rebased DEF Conversing
<1> QED BY <1>5, <1>8, <1>10, <1>11, <1>12, <1>13

LEMMA RejectInv == ASSUME WebInv, Web!Reject PROVE WebInv'
<1> USE DEF WebInv, Web!Reject, Web!HandleError, Web!Call
<1>1. PICK k \in Web!HeaderEnds : buffer' = Web!Rest(k)
  OBVIOUS
<1>2. todo = <<"handshake">> /\ ~handshaken /\ phase # "connecting"
  BY Dues DEF Tasking
<1>3. Web!Tells("closed") = {} /\ closes' \in {0, 1}
  BY <1>2 DEF Ending, Gone, Over, WebTyped
<1>4. k \in 1..Len(buffer) /\ Spent + k - Before = 2 * 1
  <2>1. k \in 1..Len(buffer) /\ Spent = 0 /\ k = Before + 2
    BY Heading
  <2> QED BY <2>1, Lengths
<1>5. buffer' \in Seq(Halves) /\ Buffered'
  <2>1. UNCHANGED <<script, arrived>> /\ 1 \in Nat /\ 1 >= 1
    BY DEF Web!server
  <2> QED BY <2>1, <1>1, <1>4, Shifting
<1>6. told' = Append(told, Web!Told("error", <<>>)) /\ todo' = <<"failed">>
  BY Errors
<1>7. told' # told
  BY <1>6, ToldOne DEF Kinds
<1>8. /\ told' \in Seq(Tidings) /\ Web!LifeOfConnection' /\ Web!ClosesOnce' /\ Web!Failed'
      /\ \A v \in {"connected", "message", "closed"} : Web!Tells(v)' = Web!Tells(v)
  BY <1>3, <1>6, <1>7, Within
<1>9. WebTyped'
  BY <1>5, <1>6, <1>8 DEF WebTyped, Web!State, Todos, Web!server
<1>10. Tasking' /\ Ending' /\ Closings' /\ Conversing'
  BY <1>2, <1>3, <1>6, <1>8 DEF Tasking, Framing, Failing, Ending, Closings, Conversing
<1> QED BY <1>5, <1>8, <1>9, <1>10

-----------------------------------------------------------------------------
(* Frames *)

LEMMA FrameFacts ==
  ASSUME WebInv, NEW kind, Web!Frame(kind), NEW n, n = Spent \div 2
  PROVE  /\ todo = <<"frames">> /\ ~inCallback /\ handshaken /\ Len(buffer) >= 2
         /\ phase # "connecting" /\ Web!Tells("closed") = {}
         /\ n \in Nat /\ n >= 1 /\ n + 1 \in 1..Len(script) /\ Len(script) \in Nat
         /\ script[n + 1] = kind /\ Web!Item = n + 1
<1> USE DEF WebInv
<1>1. todo = <<"frames">> /\ ~inCallback /\ Len(buffer) >= 2 /\ buffer[1].kind = kind
  BY Dues DEF Web!Frame, Web!Due, Web!Complete
<1>2. handshaken /\ phase # "connecting"
  BY <1>1 DEF Tasking, Framing
<1>3. buffer # <<>>
  BY <1>1, Lengths
<1>4. Web!Tells("closed") = {}
  BY <1>1, <1>3 DEF Ending, Gone, Over
<1> QED BY <1>1, <1>2, <1>4, Framed, Lengths DEF Web!Item

\* What a frame leaves when it is erased and nobody is told of an error or of the end.
LEMMA FrameInv ==
  ASSUME WebInv, NEW kind, Web!Frame(kind), NEW n, n = Spent \div 2, Web!Erased,
         UNCHANGED <<use, web, phase, handshaken, closeSent, reconnects, script, arrived, stale,
                     closes, todo>>,
         inCallback' \in BOOLEAN, fragmented' \in BOOLEAN, message' \in Seq(Nat),
         told' \in Seq(Tidings), Web!LifeOfConnection', Web!Failed' = Web!Failed,
         Web!Tells("closed")' = Web!Tells("closed"),
         use.legal /\ ~Web!Failed => Conversed(n + 1)'
  PROVE  WebInv'
<1> USE DEF WebInv
<1>1. todo = <<"frames">> /\ handshaken /\ Web!Tells("closed") = {} /\ Len(buffer) >= 2
  BY FrameFacts
<1>2. buffer' \in Seq(Halves) /\ Buffered' /\ (Spent \div 2)' = n + 1
  BY <1>1, Erasing
<1>3. WebTyped'
  BY <1>2 DEF WebTyped
<1>4. Tasking' /\ Ending' /\ Closings'
  BY <1>1 DEF Tasking, Framing, Failing, Ending, Closings
<1>5. Conversing'
  BY <1>1, <1>2, Rebased DEF Conversing
<1>6. Web!ClosesOnce'
  <2>1. ~Web!Answered'
    BY <1>1 DEF Web!Answered
  <2> QED BY <2>1 DEF Web!ClosesOnce, Web!EchoesClose
<1> QED BY <1>2, <1>3, <1>4, <1>5, <1>6

\* What telling a message changes.
LEMMA ToldMessage ==
  ASSUME WebInv, NEW of \in Seq(Nat), told' = Append(told, Web!Told("message", of)),
         Web!Tells("closed") = {}
  PROVE  /\ told' \in Seq(Tidings) /\ Web!LifeOfConnection' /\ Web!Failed' = Web!Failed
         /\ Web!Tells("closed")' = Web!Tells("closed")
<1> USE DEF WebInv
<1>1. told' \in Seq(Tidings) /\ \A v \in Kinds \ {"message"} : Web!Tells(v)' = Web!Tells(v)
  BY ToldOne DEF Kinds
<1>2. Web!Failed' = Web!Failed /\ Web!Tells("closed")' = Web!Tells("closed")
  BY <1>1 DEF Web!Failed, Kinds
<1>3. Web!LifeOfConnection'
  BY LifeTold DEF Kinds
<1> QED BY <1>1, <1>2, <1>3

LEMMA ListsOne == ASSUME NEW i \in Nat PROVE Web!Lists(<<i>>, {i}) /\ <<i>> \in Seq(Nat)
BY DEF Web!Lists

LEMMA ListsNext ==
  ASSUME NEW items \in Seq(Nat), NEW S, NEW i \in Nat, Web!Lists(items, S), \A j \in S : j < i
  PROVE  /\ Web!Lists(Append(items, i), S \cup {i}) /\ Append(items, i) \in Seq(Nat)
         /\ Append(items, i) # <<>> /\ Append(items, i)[Len(Append(items, i))] = i
<1> PICK m : m = Len(items)
  OBVIOUS
<1> PICK t : t = Append(items, i)
  OBVIOUS
<1>1. /\ m \in Nat /\ t \in Seq(Nat) /\ Len(t) = m + 1 /\ t[m + 1] = i
      /\ \A k \in 1..m : t[k] = items[k]
  OBVIOUS
<1>2. DOMAIN items = 1..m /\ DOMAIN t = 1..(m + 1) /\ t # <<>>
  BY <1>1
<1>3. \A k : k \in 1..(m + 1) <=> k \in 1..m \/ k = m + 1
  BY <1>1
<1>4. \A j : j \in S <=> \E k \in 1..m : j = items[k]
  BY <1>2 DEF Web!Lists
<1>5. \A j : j \in {t[k] : k \in DOMAIN t} <=> j \in S \cup {i}
  BY <1>1, <1>2, <1>3, <1>4
<1>6. \A k, l \in 1..m : k < l => items[k] < items[l]
  BY <1>2 DEF Web!Lists
<1>7. \A k, l \in DOMAIN t : k < l => t[k] < t[l]
  <2> SUFFICES ASSUME NEW k \in DOMAIN t, NEW l \in DOMAIN t, k < l PROVE t[k] < t[l]
    OBVIOUS
  <2>1. k \in 1..m
    BY <1>1, <1>2, <1>3
  <2>2. CASE l \in 1..m
    BY <2>1, <2>2, <1>1, <1>6
  <2>3. CASE l = m + 1
    BY <2>1, <2>3, <1>1, <1>4
  <2> QED BY <2>2, <2>3, <1>2, <1>3
<1>8. {t[k] : k \in DOMAIN t} = S \cup {i}
  BY <1>5
<1> QED BY <1>1, <1>2, <1>7, <1>8 DEF Web!Lists

LEMMA WholeInv == ASSUME WebInv, Web!Whole PROVE WebInv'
<1> USE DEF Web!Whole, Web!Call
<1> PICK n : n = Spent \div 2
  OBVIOUS
<1>1. /\ Web!Tells("closed") = {} /\ handshaken /\ todo = <<"frames">> /\ n \in Nat
      /\ script[n + 1] = "text" /\ Web!Item = n + 1 /\ ~fragmented /\ n + 1 \in Nat
  BY FrameFacts
<1>2. Web!Lists(<<n + 1>>, {n + 1}) /\ <<n + 1>> \in Seq(Nat)
  BY <1>1, ListsOne
<1>3. told' = Append(told, Web!Told("message", <<n + 1>>))
  BY <1>1
<1>4. /\ told' \in Seq(Tidings) /\ Web!LifeOfConnection' /\ Web!Failed' = Web!Failed
      /\ Web!Tells("closed")' = Web!Tells("closed")
  BY <1>1, <1>2, <1>3, ToldMessage
<1>5. ASSUME use.legal, ~Web!Failed PROVE Conversed(n + 1)'
  <2>1. Web!Heard(n)
    BY <1>1, <1>5 DEF WebInv, Conversing, Conversed
  <2>2. Web!PartsOf(n + 1) = {n + 1}
    BY <1>1 DEF Web!PartsOf
  <2>3. <<n + 1>> # <<>> /\ <<n + 1>>[Len(<<n + 1>>)] = n + 1
    OBVIOUS
  <2>4. WebTyped /\ script' = script
    BY DEF WebInv, Web!server
  <2>5. Web!Heard(n + 1)'
    BY <1>1, <1>2, <1>3, <2>1, <2>2, <2>3, <2>4, HeardNext
  <2>6. ~OpenAt(script, n)
    BY <1>1, <1>5 DEF WebInv, Conversing, Conversed
  <2>7. ~OpenAt(script, n + 1)
    BY <1>1, <2>6, OpenNext
  <2>8. ~OpenAt(script, n + 1)'
    BY <2>4, <2>7 DEF OpenAt
  <2> QED BY <1>1, <2>5, <2>8 DEF Conversed
<1>6. /\ UNCHANGED <<use, web, phase, handshaken, closeSent, reconnects, script, arrived, stale, closes, todo>>
      /\ inCallback' \in BOOLEAN /\ fragmented' \in BOOLEAN /\ message' \in Seq(Nat)
  BY DEF WebInv, WebTyped, Web!server
<1> QED BY <1>4, <1>5, <1>6, FrameInv

\* In the place that the protocol gives it, a fragment goes on with the open message.
LEMMA Continues ==
  ASSUME WebInv, use.legal, NEW n \in Nat, n >= 1, n + 1 \in 1..Len(script),
         script[n + 1] \in {"more", "end"}, fragmented, Conversed(n)
  PROVE  /\ OpenAt(script, n) /\ Web!Lists(message, Web!Since(n))
         /\ \A j \in Web!Since(n) : j < n + 1
<1>1. Legal(script) /\ n + 1 \in 2..Len(script)
  BY Placed, Lengths DEF WebInv
<1>2. OpenAt(script, (n + 1) - 1) /\ (n + 1) - 1 = n
  BY <1>1 DEF Legal
<1>3. \A j \in Web!Since(n) : j < n + 1
  BY DEF Web!Since
<1> QED BY <1>2, <1>3 DEF Conversed

\* Items that do not end a message: what the listener has stays.
LEMMA HeardOn ==
  ASSUME NEW n \in Nat, Web!Heard(n), script[n + 1] \notin {"text", "end"}
  PROVE  Web!Heard(n + 1)
BY EndsNext DEF Web!Heard

LEMMA FragmentInv == ASSUME WebInv, Web!Fragment PROVE WebInv'
<1> USE DEF Web!Fragment, Web!Continue
<1> PICK n : n = Spent \div 2
  OBVIOUS
<1> PICK kind \in {"start", "more"} :
      /\ Web!Frame(kind)
      /\ kind = "start" => ~fragmented /\ message' = <<Web!Item>>
      /\ kind = "more" => fragmented /\ message' = Append(message, Web!Item)
  OBVIOUS
<1>1. /\ Web!Tells("closed") = {} /\ handshaken /\ todo = <<"frames">> /\ n \in Nat /\ n >= 1
      /\ script[n + 1] = kind /\ Web!Item = n + 1 /\ n + 1 \in 1..Len(script) /\ n + 1 \in Nat
  BY FrameFacts
<1>2. told' = told /\ fragmented' = TRUE /\ script' = script /\ message \in Seq(Nat) /\ told \in Seq(Tidings)
  BY DEF WebInv, WebTyped, Web!server
<1>3. message' \in Seq(Nat)
  <2>1. <<n + 1>> \in Seq(Nat) /\ Append(message, n + 1) \in Seq(Nat)
    BY <1>1, <1>2
  <2>2. message' = <<n + 1>> \/ message' = Append(message, n + 1)
    BY <1>1
  <2> QED BY <2>1, <2>2
<1>4. Web!LifeOfConnection' /\ Web!Failed' = Web!Failed /\ Web!Tells("closed")' = Web!Tells("closed")
  BY <1>2, ToldSame DEF WebInv, Web!LifeOfConnection
<1>5. ASSUME use.legal, ~Web!Failed PROVE Conversed(n + 1)'
  <2>1. Conversed(n)
    BY <1>1, <1>5 DEF WebInv, Conversing
  <2>2. Web!Heard(n + 1)
    BY <2>1, <1>1, HeardOn DEF Conversed
  <2>3. Web!Heard(n + 1)'
    <3>1. <<>> \in Seq(Nat) /\ "ping" \in Kinds \ {"message"}
      BY DEF Kinds
    <3> QED BY <2>2, <3>1, <1>2, HeardStays DEF WebInv
  <2>4. OpenAt(script, n + 1) /\ Web!Lists(message', Web!Since(n + 1))
    <3>1. CASE kind = "start"
      <4>1. Web!Since(n + 1) = {n + 1} /\ message' = <<n + 1>>
        BY <3>1, <1>1, SinceNext
      <4> QED BY <4>1, <3>1, <1>1, ListsOne, OpenNext
    <3>2. CASE kind = "more"
      <4>1. OpenAt(script, n) /\ Web!Lists(message, Web!Since(n)) /\ \A j \in Web!Since(n) : j < n + 1
        BY <3>2, <2>1, <1>1, <1>5, Continues
      <4>2. Web!Since(n + 1) = Web!Since(n) \cup {n + 1} /\ message' = Append(message, n + 1)
        BY <3>2, <1>1, SinceNext
      <4>3. Web!Lists(Append(message, n + 1), Web!Since(n) \cup {n + 1})
        BY <4>1, <1>1, <1>2, ListsNext
      <4>4. OpenAt(script, n + 1)
        BY <4>1, <3>2, <1>1, OpenNext
      <4> QED BY <4>2, <4>3, <4>4
    <3> QED BY <3>1, <3>2
  <2>5. OpenAt(script, n + 1)' /\ Web!Since(n + 1)' = Web!Since(n + 1)
    BY <2>4, <1>2 DEF OpenAt, Web!Since
  <2>6. Web!Lists(message, Web!Since(n + 1))'
    BY <2>4, <2>5 DEF Web!Lists
  <2> QED BY <2>3, <2>5, <2>6, <1>2 DEF Conversed
<1>6. /\ UNCHANGED <<use, web, phase, handshaken, closeSent, reconnects, script, arrived, stale, closes, todo>>
      /\ inCallback' \in BOOLEAN /\ fragmented' \in BOOLEAN
  BY <1>2 DEF WebInv, WebTyped, Web!server
<1>7. told' \in Seq(Tidings)
  BY <1>2
<1> QED BY <1>3, <1>4, <1>5, <1>6, <1>7, FrameInv

LEMMA LastInv == ASSUME WebInv, Web!LastFragment PROVE WebInv'
<1> USE DEF Web!LastFragment, Web!Call
<1> PICK n : n = Spent \div 2
  OBVIOUS
<1> PICK of : of = Append(message, n + 1)
  OBVIOUS
<1>1. /\ Web!Tells("closed") = {} /\ handshaken /\ todo = <<"frames">> /\ n \in Nat /\ n >= 1
      /\ script[n + 1] = "end" /\ Web!Item = n + 1 /\ n + 1 \in 1..Len(script) /\ n + 1 \in Nat
  BY FrameFacts
<1>2. message \in Seq(Nat) /\ fragmented' = FALSE /\ script' = script /\ WebTyped
  BY DEF WebInv, WebTyped, Web!server
<1>3. of \in Seq(Nat) /\ told' = Append(told, Web!Told("message", of))
  BY <1>1, <1>2
<1>4. /\ told' \in Seq(Tidings) /\ Web!LifeOfConnection' /\ Web!Failed' = Web!Failed
      /\ Web!Tells("closed")' = Web!Tells("closed")
  BY <1>1, <1>3, ToldMessage
<1>5. ASSUME use.legal, ~Web!Failed PROVE Conversed(n + 1)'
  <2>1. Conversed(n)
    BY <1>1, <1>5 DEF WebInv, Conversing
  <2>2. Web!Lists(message, Web!Since(n)) /\ \A j \in Web!Since(n) : j < n + 1
    BY <2>1, <1>1, <1>5, Continues
  <2>3. Web!PartsOf(n + 1) = Web!Since(n) \cup {n + 1}
    BY <1>1, SinceNext DEF Web!PartsOf
  <2>4. Web!Lists(of, Web!PartsOf(n + 1)) /\ of # <<>> /\ of[Len(of)] = n + 1
    <3>1. /\ Web!Lists(Append(message, n + 1), Web!Since(n) \cup {n + 1})
          /\ Append(message, n + 1) # <<>>
          /\ Append(message, n + 1)[Len(Append(message, n + 1))] = n + 1
      BY <2>2, <1>1, <1>2, ListsNext
    <3> QED BY <3>1, <2>3
  <2>5. Web!Heard(n)
    BY <2>1 DEF Conversed
  <2>6. Web!Heard(n + 1)'
    BY <1>1, <1>2, <1>3, <2>4, <2>5, HeardNext
  <2>7. ~OpenAt(script, n + 1)
    BY <1>1, OpenNext
  <2>8. ~OpenAt(script, n + 1)'
    BY <1>2, <2>7 DEF OpenAt
  <2> QED BY <1>2, <2>6, <2>8 DEF Conversed
<1>6. /\ UNCHANGED <<use, web, phase, handshaken, closeSent, reconnects, script, arrived, stale, closes, todo>>
      /\ inCallback' \in BOOLEAN /\ fragmented' \in BOOLEAN /\ message' \in Seq(Nat)
  <2>1. message' = <<>> /\ <<>> \in Seq(Nat) /\ inCallback' = TRUE
    OBVIOUS
  <2> QED BY <2>1, <1>2 DEF Web!server
<1> QED BY <1>4, <1>5, <1>6, FrameInv

LEMMA PingInv == ASSUME WebInv, Web!Ping PROVE WebInv'
<1> USE DEF Web!Ping, Web!Call
<1> PICK n : n = Spent \div 2
  OBVIOUS
<1>1. handshaken /\ n \in Nat /\ script[n + 1] = "ping" /\ todo = <<"frames">>
  BY FrameFacts
<1>2. /\ UNCHANGED <<use, web, phase, handshaken, closeSent, reconnects, script, arrived, stale, closes, todo>>
      /\ UNCHANGED <<fragmented, message>> /\ closes' \in {0, 1}
      /\ inCallback' \in BOOLEAN /\ fragmented' \in BOOLEAN /\ message' \in Seq(Nat)
  BY DEF WebInv, WebTyped, Web!server
<1>3. /\ told' \in Seq(Tidings) /\ Web!LifeOfConnection' /\ Web!Failed' = Web!Failed
      /\ Web!Tells("closed")' = Web!Tells("closed")
  BY <1>2, Within
<1>4. ASSUME use.legal, ~Web!Failed PROVE Conversed(n + 1)'
  <2>1. Conversed(n)
    BY <1>1, <1>4 DEF WebInv, Conversing
  <2>2. Conversed(n + 1)
    BY <2>1, <1>1, Passes DEF Data
  <2>3. <<>> \in Seq(Nat) /\ "ping" \in Kinds \ {"message"} /\ WebTyped
    BY DEF Kinds, WebInv
  <2> QED BY <2>2, <2>3, <1>2, ConversedStays
<1> QED BY <1>2, <1>3, <1>4, FrameInv

LEMMA MisplacedInv == ASSUME WebInv, Web!Misplaced PROVE WebInv'
<1> USE DEF Web!Misplaced, Web!HandleError, Web!Call
<1> PICK n : n = Spent \div 2
  OBVIOUS
<1>1. PICK kind : Web!Frame(kind)
  OBVIOUS
<1>2. /\ handshaken /\ todo = <<"frames">> /\ Len(buffer) >= 2 /\ Web!Tells("closed") = {}
      /\ phase # "connecting"
  BY <1>1, FrameFacts
<1>3. told' = Append(told, Web!Told("error", <<>>)) /\ todo' = <<"failed", "frames">>
  BY <1>2, Errors
<1>4. closes' \in {0, 1} /\ told' # told
  BY <1>3, ToldOne DEF WebInv, WebTyped, Kinds
<1>5. /\ told' \in Seq(Tidings) /\ Web!LifeOfConnection' /\ Web!ClosesOnce' /\ Web!Failed'
      /\ \A v \in {"connected", "message", "closed"} : Web!Tells(v)' = Web!Tells(v)
  BY <1>3, <1>4, Within
<1>6. buffer' \in Seq(Halves) /\ Buffered'
  BY <1>2, Erasing DEF WebInv, Web!server
<1>7. WebTyped'
  BY <1>3, <1>5, <1>6 DEF WebInv, WebTyped, Web!State, Todos, Web!server
<1>8. Tasking'
  BY <1>2, <1>3, <1>5 DEF Tasking, Framing, Failing
<1>9. Ending' /\ Conversing'
  BY <1>2, <1>3, <1>5 DEF Ending, Conversing
<1>10. Closings'
  BY <1>2, <1>5 DEF WebInv, Closings
<1> QED BY <1>5, <1>6, <1>7, <1>8, <1>9, <1>10 DEF WebInv

\* The close frame is the last item, so that nothing is left.
LEMMA CloseInv == ASSUME WebInv, Web!CloseFrame PROVE WebInv'
<1> USE DEF Web!CloseFrame, Web!Call
<1> PICK n : n = Spent \div 2
  OBVIOUS
<1>1. /\ handshaken /\ todo = <<"frames">> /\ Len(buffer) >= 2 /\ Web!Tells("closed") = {}
      /\ phase # "connecting" /\ n \in Nat /\ n + 1 \in 1..Len(script) /\ script[n + 1] = "close"
      /\ Web!Item = n + 1 /\ Len(script) \in Nat
  BY FrameFacts
<1>2. /\ UNCHANGED <<use, phase, handshaken, reconnects, script, arrived, stale, todo>>
      /\ UNCHANGED <<fragmented, message>> /\ web' = "closed"
      /\ told' = Append(told, Web!Told("closed", <<n + 1>>)) /\ <<n + 1>> \in Seq(Nat)
  BY <1>1 DEF Web!server
<1>3. /\ buffer' \in Seq(Halves) /\ Buffered' /\ (Spent \div 2)' = n + 1
      /\ 2 * (n + 1) <= arrived /\ Len(buffer') = arrived - 2 * (n + 1)
  BY <1>1, <1>2, Erasing DEF WebInv
<1>4. buffer' = <<>> /\ arrived = 2 * Len(script)
  <2>1. n + 1 = Len(script) /\ arrived <= 2 * Len(script) /\ arrived \in Nat
    BY <1>1, Placed, Lengths DEF WebInv
  <2>2. Len(buffer') = 0 /\ arrived = 2 * Len(script)
    <3> PICK l : l = Len(script)
      OBVIOUS
    <3>1. n + 1 = l /\ arrived <= 2 * l /\ l \in Nat /\ 2 * l <= arrived /\ Len(buffer') = arrived - 2 * l
      BY <2>1, <1>1, <1>3
    <3>2. arrived = 2 * l /\ Len(buffer') = 0
      BY <3>1, <2>1
    <3> QED BY <3>2
  <2> QED BY <2>2, <1>3, EmptySeq
<1> PICK m : m = Len(told) + 1
  OBVIOUS
<1>5. /\ told' \in Seq(Tidings) /\ Web!Tells("closed")' = Web!Tells("closed") \cup {m}
      /\ \A v \in Kinds \ {"closed"} : Web!Tells(v)' = Web!Tells(v)
  BY <1>2, ToldOne DEF WebInv, Kinds
<1>6. Web!Failed' = Web!Failed
  BY <1>5 DEF Web!Failed, Kinds
<1>7. Web!LifeOfConnection'
  BY <1>1, <1>2, LifeTold DEF WebInv, Kinds
<1>8. /\ closes' \in {0, 1} /\ closeSent' \in BOOLEAN
      /\ closes' = 1 => closeSent'
      /\ closeSent' => stale \/ closes' = 1
      /\ stale \/ Web!Failed \/ closes' = 1
  <2>1. /\ closes \in {0, 1} /\ closeSent \in BOOLEAN /\ (closes = 1 => closeSent)
        /\ (closeSent => stale \/ closes = 1) /\ (web = "connected" \/ closeSent \/ Web!Failed)
    BY <1>1 DEF WebInv, WebTyped, Closings
  <2>2. CASE Web!Closes
    <3>1. closes' = 1 /\ closeSent'
      <4>1. closeSent'
        BY <2>2
      <4>2. closes = 0
        BY <2>1, <2>2 DEF Web!Closes
      <4>3. closes' = closes + 1
        BY <2>2 DEF Web!CountClose
      <4> QED BY <4>1, <4>2, <4>3
    <3>2. closeSent' \in BOOLEAN
      BY <2>2, Zenon
    <3> QED BY <3>1, <3>2
  <2>3. CASE ~Web!Closes
    <3>1. closes' = closes /\ (closeSent' <=> closeSent) /\ closeSent' \in BOOLEAN
      BY <2>1, <2>3 DEF Web!Closes, Web!CountClose
    <3>2. closeSent \/ Web!Failed
      BY <2>1, <2>3 DEF Web!Closes
    <3> QED BY <2>1, <3>1, <3>2
  <2> QED BY <2>2, <2>3
<1>9. WebTyped'
  BY <1>2, <1>3, <1>5, <1>8 DEF WebInv, WebTyped, Web!State
<1>10. Tasking'
  BY <1>1, <1>2 DEF Tasking, Framing, Failing
<1>14. Closings'
  BY <1>5, <1>6, <1>8 DEF Closings
<1>11. Ending'
  BY <1>1, <1>2, <1>4 DEF Ending, Over
<1>12. Web!ClosesOnce'
  BY <1>2, <1>6, <1>8 DEF Web!ClosesOnce, Web!EchoesClose
<1>13. Conversing'
  <2> SUFFICES ASSUME use.legal, ~Web!Failed PROVE Conversed(Spent \div 2)'
    BY <1>2, <1>6 DEF Conversing
  <2>1. Conversed(n)
    BY <1>1 DEF WebInv, Conversing
  <2>2. Conversed(n + 1)
    BY <2>1, <1>1, Passes DEF Data
  <2>3. Conversed(n + 1)'
    BY <2>2, <1>2, ConversedStays DEF WebInv, Kinds
  <2> QED BY <2>3, <1>3, Rebased
<1> QED BY <1>3, <1>7, <1>9, <1>10, <1>11, <1>12, <1>13, <1>14 DEF WebInv

-----------------------------------------------------------------------------
(* WebSocketClient: the theorem *)

LEMMA WebInit == Web!Init => WebInv
<1> SUFFICES ASSUME Web!Init PROVE WebInv
  OBVIOUS
<1> USE DEF Web!Init
<1>1. (\A v : Web!Tells(v) = {}) /\ ~Web!Failed /\ ~Web!Answered
  BY DEF Web!Tells, Web!Failed, Web!Answered
<1>2. WebTyped
  <2>1. buffer \in Seq(Halves) /\ message \in Seq(Nat) /\ told \in Seq(Tidings)
    OBVIOUS
  <2>2. arrived \in 0..(2 * Len(script))
    OBVIOUS
  <2> QED BY <2>1, <2>2 DEF WebTyped, Web!State, Todos
<1>3. Buffered
  <2>1. ~Junked /\ Before = 0
    BY DEF Junked, Before
  <2>2. Len(buffer) = 0 /\ arrived = 0
    OBVIOUS
  <2>3. Spent = 0
    <3>1. arrived + Before - Len(buffer) = 0 + 0 - 0
      BY <2>1, <2>2, Zenon
    <3>2. 0 + 0 - 0 = 0
      OBVIOUS
    <3> QED BY <3>1, <3>2, Zenon DEF Spent
  <2> QED BY <2>1, <2>2, <2>3 DEF Buffered
<1>4. Tasking
  BY <1>1 DEF Tasking, Framing, Failing
<1>5. Ending
  BY <1>1 DEF Ending
<1>6. Closings
  BY DEF Closings
<1>7. Conversing /\ Web!LifeOfConnection /\ Web!ClosesOnce
  BY <1>1 DEF Conversing, Web!LifeOfConnection, Web!ClosesOnce, Web!EchoesClose
<1> QED BY <1>2, <1>3, <1>4, <1>5, <1>6, <1>7 DEF WebInv

LEMMA WebRests ==
  ASSUME WebInv, reconnects' \in Nat,
         UNCHANGED <<web, phase, handshaken, buffer, fragmented, message, closeSent, inCallback,
                     todo, use, script, arrived, told, stale, closes>>
  PROVE  WebInv'
<1> USE DEF WebInv
<1>1. (\A v : Web!Tells(v)' = Web!Tells(v)) /\ Web!Failed' = Web!Failed
  BY ToldSame
<1>2. WebTyped'
  BY DEF WebTyped
<1>3. Tasking' /\ Closings'
  BY <1>1 DEF Tasking, Framing, Failing, Closings
<1>4. Ending'
  BY <1>1 DEF Ending, Gone, Over
<1>5. closes' \in {0, 1}
  BY DEF WebTyped
<1> QED BY <1>2, <1>3, <1>4, <1>5, Nothing

LEMMA WebStep == ASSUME WebInv, [Web!Next]_(Web!vars) PROVE WebInv'
<1>0. reconnects \in Nat /\ (reconnects > 0 => reconnects - 1 \in Nat)
  BY DEF WebInv, WebTyped
<1>1. CASE Web!Connect
  BY <1>0, <1>1, StartInv DEF Web!Connect
<1>2. CASE Web!Reconnect
  <2>1. CASE Web!StartConnecting
    BY <1>0, <1>2, <2>1, StartInv DEF Web!Reconnect
  <2>2. CASE ~Web!CanConnect
    BY <1>0, <1>2, <2>2, WebRests
       DEF Web!Reconnect, Web!StartConnecting, Web!frames, Web!server, Web!past
  <2> QED BY <2>1, <2>2, <1>2 DEF Web!Reconnect
<1>3. CASE UNCHANGED Web!vars
  BY <1>0, <1>3, WebRests DEF Web!vars, Web!frames, Web!server, Web!past
<1>4. CASE Web!SendClose \/ Web!Disconnect
  BY <1>4, CallsInv
<1>5. CASE Web!OnConnected \/ Web!OnError
  BY <1>5, AnswerInv
<1>6. CASE Web!OnDataReceived \/ Web!OnDisconnected
  BY <1>6, DataInv, LossInv
<1>7. CASE Web!TaskStep
  BY <1>7, CallsInv, AnswerInv, AcceptInv, RejectInv, MisplacedInv, WholeInv, FragmentInv, LastInv,
     PingInv, CloseInv DEF Web!TaskStep
<1> QED BY <1>1, <1>2, <1>3, <1>4, <1>5, <1>6, <1>7 DEF Web!Next

LEMMA WebMeans == WebInv => Web!Conversation
<1> SUFFICES ASSUME WebInv PROVE Web!Conversation
  OBVIOUS
<1> USE DEF WebInv
<1>1. Web!TypeOK
  <2>1. \A k \in 1..Len(buffer) : buffer[k] \in Halves
    BY Lengths
  <2>2. DOMAIN buffer = 1..Len(buffer)
    BY DEF WebTyped
  <2>3. \A k \in DOMAIN buffer : buffer[k].kind \in Web!Kind
    BY <2>1, <2>2 DEF Halves
  <2> QED BY <2>3 DEF WebTyped, Web!TypeOK
<1>2. Web!MessagesDelivered
  <2> SUFFICES ASSUME use.legal, ~Web!Failed, handshaken
               PROVE  IF Web!Idle THEN Web!Heard(arrived \div 2)
                      ELSE \E n \in 0..(arrived \div 2) : Web!Heard(n)
    BY DEF Web!MessagesDelivered
  <2> PICK n : n = Spent \div 2
    OBVIOUS
  <2> PICK b : b = Len(buffer)
    OBVIOUS
  <2>1. Web!Heard(n)
    BY DEF Conversing, Conversed
  <2>2. b \in Nat /\ arrived \in Nat /\ arrived - b \in Nat /\ arrived - b = 2 * n
    <3>1. Before = 0 /\ b \in Nat /\ arrived \in Nat
      BY Lengths DEF Buffered
    <3> QED BY <3>1 DEF Buffered, Spent
  <2>3. n \in 0..(arrived \div 2)
    BY <2>2
  <2>4. ASSUME Web!Idle PROVE n = arrived \div 2
    <3>1. todo = <<>>
      BY <2>4 DEF Web!Idle
    <3>2. b < 2
      BY <3>1 DEF Tasking, Framing
    <3> QED BY <2>2, <3>2
  <2> QED BY <2>1, <2>3, <2>4
<1> QED BY <1>1, <1>2 DEF Web!Conversation

\* However a server's frames are cut and joined, whatever an earlier connection left behind and
\* whatever the listener calls from its callbacks: messages are whole, once and in order, a
\* connection is announced once and ends once, and at most one close frame is sent
\* (websocket_client.cc:59-613).
THEOREM Converses == Web!Spec => []Web!Conversation
BY WebInit, WebStep, WebMeans, PTL DEF Web!Spec

-----------------------------------------------------------------------------
(* TcpClient's types *)

\* A chunk that waits in the socket was sent on this connection.
TcpInv ==
  /\ Tcp!Attached /\ peer \in Tcp!Peer /\ connects \in 0..Connects
  /\ chunks \in 0..Chunks /\ inbound \in 0..chunks

LEMMA TcpStep == ASSUME TcpInv, [Tcp!Next]_(Tcp!vars) PROVE TcpInv'
<1> USE TcpAssumption DEF TcpInv, Tcp!Peer
<1>1. Tcp!Attached'
  BY Tcp!AttachedStep
<1> SUFFICES (peer \in Tcp!Peer /\ connects \in 0..Connects /\ chunks \in 0..Chunks /\ inbound \in 0..chunks)'
  BY <1>1
<1> USE DEF Tcp!link, Tcp!world
<1>2. CASE Tcp!Connect
  BY <1>2 DEF Tcp!Connect
<1>3. CASE Tcp!Read
  BY <1>3 DEF Tcp!Read
<1>4. CASE Tcp!Answer \/ Tcp!Send \/ Tcp!Hangup
  BY <1>4 DEF Tcp!Answer, Tcp!Send, Tcp!Hangup
<1>5. CASE Tcp!Disconnect \/ Tcp!SendFails \/ Tcp!ReadEnd \/ Tcp!TellFailure
  BY <1>5 DEF Tcp!Disconnect, Tcp!SendFails, Tcp!ReadEnd, Tcp!TellFailure
<1>6. CASE Tcp!Established \/ Tcp!Unreachable \/ Tcp!ReadNothing
  BY <1>6 DEF Tcp!Established, Tcp!Unreachable, Tcp!ReadNothing
<1>7. CASE Tcp!Spurious \/ Tcp!Refused \/ Tcp!OnDisconnect \/ UNCHANGED Tcp!vars
  BY <1>7 DEF Tcp!Spurious, Tcp!Refused, Tcp!OnDisconnect, Tcp!vars
<1> QED BY <1>2, <1>3, <1>4, <1>5, <1>6, <1>7 DEF Tcp!Next, Tcp!RunnerStep

LEMMA TcpMeans == TcpInv => Tcp!TypeOK
<1> SUFFICES ASSUME TcpInv PROVE Tcp!TypeOK
  OBVIOUS
<1>1. posted \in Seq(Tcp!Posted)
  <2>1. /\ <<>> \in Seq(Tcp!Posted) /\ <<"event">> \in Seq(Tcp!Posted)
        /\ <<"refused">> \in Seq(Tcp!Posted) /\ <<"gone">> \in Seq(Tcp!Posted)
        /\ <<"event", "gone">> \in Seq(Tcp!Posted)
    BY DEF Tcp!Posted
  <2>2. posted \in {<<>>, <<"event">>, <<"refused">>, <<"gone">>, <<"event", "gone">>}
    BY DEF TcpInv, Tcp!Attached
  <2> QED BY <2>1, <2>2
<1>2. tcp \in Tcp!State /\ socket \in Tcp!Socket
  BY DEF TcpInv, Tcp!Attached, Tcp!State, Tcp!Socket
<1>3. inbound \in 0..Chunks
  BY TcpAssumption DEF TcpInv
<1> QED BY <1>1, <1>2, <1>3 DEF TcpInv, Tcp!TypeOK

LEMMA TcpTyped == Tcp!Spec => []Tcp!TypeOK
<1>1. Tcp!Init => TcpInv
  BY TcpAssumption DEF Tcp!Init, TcpInv, Tcp!Attached, Tcp!Peer
<1> QED BY <1>1, TcpStep, TcpMeans, PTL DEF Tcp!Spec

-----------------------------------------------------------------------------
(* The composition *)

\* Whatever is exercised, each part does what it does alone, or rests.
LEMMA PartsAlone ==
  /\ Quiet => Init /\ Tcp!Init /\ Fut!Init /\ Web!Init
  /\ [OfGroup(Next) \/ OfFuture(Fut!Next) \/ OfWeb(Web!Next) \/ OfTcp(Tcp!Next)]_allVars
       => [Next]_vars /\ [Tcp!Next]_(Tcp!vars) /\ [Fut!Next]_(Fut!vars) /\ [Web!Next]_(Web!vars)
<1> USE DEF allVars, OfGroup, OfFuture, OfWeb, OfTcp, tcpVars, futureVars, webVars,
            Tcp!vars, Tcp!link, Tcp!world, Fut!vars, Web!vars, Web!frames, Web!server, Web!past
<1>1. Quiet => Init /\ Tcp!Init /\ Fut!Init /\ Web!Init
  BY DEF Quiet
<1> QED BY <1>1

\* Beside the others too, every step of TcpClient is a step of Transport or shows nothing
\* there (tcp_client.cc).
THEOREM Transports == All => ImplementsTransport
<1>1. All => Tcp!Spec
  BY PartsAlone, PTL DEF All, Tcp!Spec
<1> QED BY <1>1, Tcp!ImplementsTheTransport, PTL DEF ImplementsTransport

\* What the chains come to and call, beside the others too (future.h).
THEOREM ChainsFollow == ASSUME Linear PROVE All => []Chained
<1>1. All => Fut!Spec
  BY PartsAlone, PTL DEF All, Fut!Spec
<1> QED BY <1>1, ChainsHold, PTL DEF Chained

\* The same for the conversations of WebSocketClient (websocket_client.cc), for any scripts
\* that keep to WebAssumption, and for TcpClient's types.
THEOREM ConnectionsHold == All => []Connections
<1>1. All => Web!Spec /\ Tcp!Spec
  BY PartsAlone, PTL DEF All, Web!Spec, Tcp!Spec
<1> QED BY <1>1, Converses, TcpTyped, PTL DEF Connections
=============================================================================
