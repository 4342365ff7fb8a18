-------------------------------- MODULE App --------------------------------
(***************************************************************************)
(* The life of an application: App::Run on a thread of its own or on the   *)
(* caller's, the services it brings up in the order of their dependencies  *)
(* and down again, Shutdown by a signal or a call, and the heartbeat that  *)
(* goes from the timer through a worker to the main runner.                *)
(***************************************************************************)
EXTENDS Naturals, Sequences, SequencesExt, FiniteSets

CONSTANT
  Plans \* [services |-> what is registered: [name, deps], daemon |-> RunDaemon
        \*  is called and not Run, by |-> who calls Shutdown: "user", "runner" or "signal"]

VARIABLES
  plan,     \* one of Plans
  service,  \* service_
  stage,    \* where App::Run is
  running,  \* running_
  shutdown, \* SignalHandler::shutdown_requested_
  group,    \* async_tg_: up, stopped or gone
  caller,   \* where the user's thread is
  job,      \* the task of RunDaemon: none, posted or done
  beat,     \* the heartbeat: none, worker, posted or runs
  task,     \* what the main runner's user task does: none or shutdown
  fate,     \* of the process: alive, exited, crashed or killed by its logger
  log       \* history: the calls of the services, [call, of]

vars == <<plan, service, stage, running, shutdown, group, caller, job, beat, task, fate, log>>

Alive == fate = "alive"

-----------------------------------------------------------------------------
(* TopoSortServices *)

Names(services) == {services[k].name : k \in DOMAIN services}
AnyDep  == \E k \in DOMAIN service : service[k].deps # {}
Unknown == \E k \in DOMAIN service : ~(service[k].deps \subseteq Names(service))

\* Kahn's algorithm after k turns: the head of ready is taken, and those that waited for
\* nothing else (whose indegree comes to zero) become ready as they were registered.
Kahn[k \in 0..Len(service)] ==
  IF k = 0
  THEN [ordered |-> <<>>, ready |-> SelectSeq(service, LAMBDA s : s.deps = {})]
  ELSE LET last == Kahn[k - 1] IN
       IF last.ready = <<>> THEN last
       ELSE LET ordered == Append(last.ordered, Head(last.ready))
                Waited(s) == Head(last.ready).name \in s.deps
                Freed(s)  == Waited(s) /\ s.deps \subseteq Names(ordered)
            IN  [ordered |-> ordered, ready |-> Tail(last.ready) \o SelectSeq(service, Freed)]

TopoSortServices == IF AnyDep THEN Kahn[Len(service)].ordered ELSE service

Sortable_CyclesToo == ~Unknown
Sortable == ~Unknown /\ Len(TopoSortServices) = Len(service)

-----------------------------------------------------------------------------
(* App::Run, on thread main_ or on the caller's *)

Called(call, k) == log' = Append(log, [call |-> call, of |-> service[k]])

EnterRun ==
  /\ stage = <<"enter">> /\ running' = TRUE /\ stage' = <<"sort">>
  /\ UNCHANGED <<plan, service, shutdown, group, caller, job, beat, task, fate, log>>

\* pre_run: a cycle or an unknown dependency ends the process.
SortServices ==
  /\ stage = <<"sort">>
  /\ IF Sortable THEN /\ service' = TopoSortServices /\ stage' = <<"init", 1>>
                      /\ UNCHANGED fate
     ELSE fate' = "exited" /\ UNCHANGED <<service, stage>>
  /\ UNCHANGED <<plan, running, shutdown, group, caller, job, beat, task, log>>

InitService ==
  /\ stage[1] = "init" /\ stage[2] <= Len(service)
  /\ Called("Init", stage[2]) /\ stage' = <<"init", stage[2] + 1>>
  /\ UNCHANGED <<plan, service, running, shutdown, group, caller, job, beat, task, fate>>

\* The heartbeat's timer is set, and Run sleeps and looks again until IsOk is false.
EnterLoop ==
  /\ stage = <<"init", Len(service) + 1>> /\ stage' = <<"loop">>
  /\ UNCHANGED <<plan, service, running, shutdown, group, caller, job, beat, task, fate, log>>

LeaveLoop ==
  /\ stage = <<"loop">> /\ shutdown /\ stage' = <<"deinit", Len(service)>>
  /\ UNCHANGED <<plan, service, running, shutdown, group, caller, job, beat, task, fate, log>>

DeinitService ==
  /\ stage[1] = "deinit" /\ stage[2] > 0
  /\ Called("Deinit", stage[2]) /\ stage' = <<"deinit", stage[2] - 1>>
  /\ UNCHANGED <<plan, service, running, shutdown, group, caller, job, beat, task, fate>>

StopGroup ==
  /\ stage = <<"deinit", 0>> /\ group' = "stopped" /\ stage' = <<"join">>
  /\ UNCHANGED <<plan, service, running, shutdown, caller, job, beat, task, fate, log>>

\* No worker is left when the timer and the group go.
ResetGroup ==
  /\ stage = <<"join">> /\ beat # "worker" /\ group' = "gone" /\ stage' = <<"reset">>
  /\ UNCHANGED <<plan, service, running, shutdown, caller, job, beat, task, fate, log>>

\* The group takes its main runner with it, which ends its task and drops the others.
DropRunner ==
  /\ stage = <<"reset">> /\ beat # "runs" /\ task # "shutdown"
  /\ stage' = <<"flush">> /\ beat' = "none"
  /\ UNCHANGED <<plan, service, running, shutdown, group, caller, job, task, fate, log>>

\* DefaultLogger's Shutdown: it returns, or waits for a worker that sleeps on (Logger's
\* ShutdownReturns), or the worker writes to a file that was not opened again (its Crash).
FlushLog ==
  /\ stage = <<"flush">>
  /\ \/ stage' \in {<<"end">>, <<"stuck">>} /\ UNCHANGED fate
     \/ fate' = "killed" /\ UNCHANGED stage
  /\ UNCHANGED <<plan, service, running, shutdown, group, caller, job, beat, task, log>>

EndRun_StillRunning ==
  /\ stage = <<"end">> /\ stage' = <<"over">>
  /\ UNCHANGED <<plan, service, running, shutdown, group, caller, job, beat, task, fate, log>>
EndRun ==
  /\ stage = <<"end">> /\ running' = FALSE /\ stage' = <<"over">>
  /\ UNCHANGED <<plan, service, shutdown, group, caller, job, beat, task, fate, log>>

Run ==
  \/ EnterRun \/ SortServices \/ InitService \/ EnterLoop \/ LeaveLoop
  \/ DeinitService \/ StopGroup \/ ResetGroup \/ DropRunner \/ FlushLog \/ EndRun

-----------------------------------------------------------------------------
(* The user's thread: RunDaemon or Run, Shutdown, the destructor *)

CallRun ==
  /\ caller = "ready" /\ stage' = <<"enter">>
  /\ caller' = IF plan.daemon THEN "posts" ELSE "runs"
  /\ UNCHANGED <<plan, service, running, shutdown, group, job, beat, task, fate, log>>

\* RunDaemon's RunUntilCompleted. A group that is stopped takes no task, and the
\* future is not set.
PostJob ==
  /\ caller = "posts"
  /\ IF group = "gone" THEN fate' = "crashed" /\ UNCHANGED <<caller, job>>
     ELSE /\ caller' = "waits" /\ job' = IF group = "up" THEN "posted" ELSE job
          /\ UNCHANGED fate
  /\ UNCHANGED <<plan, service, stage, running, shutdown, group, beat, task, log>>

DoJob ==
  /\ job = "posted" /\ group = "up" /\ job' = "done"
  /\ UNCHANGED <<plan, service, stage, running, shutdown, group, caller, beat, task, fate, log>>

Return ==
  /\ \/ caller = "waits" /\ job = "done"
     \/ caller = "runs" /\ stage = <<"over">>
  /\ caller' = "back"
  /\ UNCHANGED <<plan, service, stage, running, shutdown, group, job, beat, task, fate, log>>

\* xtils::Shutdown, and then its wait for IsRunning.
AskShutdown ==
  /\ caller = "back" /\ plan.by = "user" /\ shutdown' = TRUE /\ caller' = "asked"
  /\ UNCHANGED <<plan, service, stage, running, group, job, beat, task, fate, log>>

Release ==
  /\ caller = "asked" /\ ~running /\ caller' = "released"
  /\ UNCHANGED <<plan, service, stage, running, shutdown, group, job, beat, task, fate, log>>

\* ~App joins main_.
Destroy ==
  /\ caller = "released" \/ (caller = "back" /\ plan.by # "user")
  /\ stage = <<"over">> /\ caller' = "gone"
  /\ UNCHANGED <<plan, service, stage, running, shutdown, group, job, beat, task, fate, log>>

Caller == CallRun \/ PostJob \/ Return \/ AskShutdown \/ Release \/ Destroy

-----------------------------------------------------------------------------
(* Signals, the heartbeat, and a task of the user on the main runner *)

HandleShutdownSignal ==
  /\ plan.by = "signal" /\ ~shutdown /\ shutdown' = TRUE
  /\ UNCHANGED <<plan, service, stage, running, group, caller, job, beat, task, fate, log>>

\* Nothing is posted to a runner that is gone.
MainRunnerIdle == beat # "runs" /\ task # "shutdown"

\* A worker executes the timer, then Spawn posts to the main runner.
TakeBeat ==
  /\ beat = "none" /\ group = "up" /\ stage[1] \in {"loop", "deinit"} /\ beat' = "worker"
  /\ UNCHANGED <<plan, service, stage, running, shutdown, group, caller, job, task, fate, log>>

SpawnBeat ==
  /\ beat = "worker" /\ beat' = "posted"
  /\ UNCHANGED <<plan, service, stage, running, shutdown, group, caller, job, task, fate, log>>

RunBeat ==
  /\ beat = "posted" /\ MainRunnerIdle /\ beat' = "runs"
  /\ UNCHANGED <<plan, service, stage, running, shutdown, group, caller, job, task, fate, log>>

\* The heartbeat asks async_tg_ whether it is busy.
AskBusy ==
  /\ beat = "runs" /\ beat' = "none" /\ fate' = IF group = "gone" THEN "crashed" ELSE fate
  /\ UNCHANGED <<plan, service, stage, running, shutdown, group, caller, job, task, log>>

\* A task that calls Shutdown waits for the end of Run.
RunTask ==
  /\ plan.by = "runner" /\ task = "none" /\ stage = <<"loop">> /\ MainRunnerIdle
  /\ task' = "shutdown" /\ shutdown' = TRUE
  /\ UNCHANGED <<plan, service, stage, running, group, caller, job, beat, fate, log>>

-----------------------------------------------------------------------------

Init ==
  /\ plan \in Plans /\ service = plan.services /\ stage = <<"off">> /\ running = FALSE
  /\ shutdown = FALSE /\ group = "up" /\ caller = "ready" /\ job = "none" /\ beat = "none"
  /\ task = "none" /\ fate = "alive" /\ log = <<>>

Workers == DoJob \/ TakeBeat \/ SpawnBeat
Runner  == RunBeat \/ AskBusy \/ RunTask

Next == Alive /\ (Run \/ Caller \/ Workers \/ Runner \/ HandleShutdownSignal)
Spec == Init /\ [][Next]_vars

\* Threads are scheduled and what they call returns; nobody has to call Run or Shutdown.
RunSteps    == Alive /\ Run
CallerSteps == Alive /\ (PostJob \/ Return \/ Release \/ Destroy)
TaskSteps   == Alive /\ (DoJob \/ SpawnBeat \/ AskBusy)
FairSpec == Spec /\ WF_vars(RunSteps) /\ WF_vars(CallerSteps) /\ WF_vars(TaskSteps)

-----------------------------------------------------------------------------
(* Properties *)

TypeOK ==
  /\ plan \in Plans /\ {running, shutdown} \subseteq BOOLEAN
  /\ group \in {"up", "stopped", "gone"} /\ fate \in {"alive", "exited", "crashed", "killed"}
  /\ stage[1] \in {"off", "enter", "sort", "init", "loop", "deinit", "join", "reset",
                   "flush", "stuck", "end", "over"}
  /\ caller \in {"ready", "posts", "waits", "runs", "back", "asked", "released", "gone"}

Begun == SelectSeq(log, LAMBDA l : l.call = "Init")
Ended == SelectSeq(log, LAMBDA l : l.call = "Deinit")
Those(calls) == [k \in DOMAIN calls |-> calls[k].of]

\* "App initialises dependencies first": a service comes up once, after those it depends
\* on, and goes down before them.
InOrder ==
  LET up == Those(Begun) IN
  /\ \A i, j \in DOMAIN up : up[i] = up[j] => i = j
  /\ \A j \in DOMAIN up : up[j].deps \subseteq Names(SubSeq(up, 1, j - 1))
  /\ IsPrefix(Those(Ended), Reverse(up))

\* A cycle: services each of which depends on one of them.
Cyclic ==
  \E some \in SUBSET ToSet(plan.services) :
    some # {} /\ \A s \in some : \E t \in some : t.name \in s.deps

\* Only services that cannot be put in such an order end the process.
ExitsOnlyIf == fate = "exited" => Unknown \/ Cyclic

\* "Falls back to registration order when no service declares any dependency."
AsRegistered == ~AnyDep => IsPrefix(Those(Begun), plan.services)

\* "Deinit services FIRST while infrastructure is still running": every service that was
\* registered has gone down when the group is stopped.
DownBeforeGroup == group # "up" => ToSet(Those(Ended)) = ToSet(plan.services)

Lifecycle == TypeOK /\ InOrder /\ ExitsOnlyIf /\ AsRegistered /\ DownBeforeGroup

\* A shutdown ends Run, and Shutdown returns, unless the main runner's own task asked
\* (Run then waits for the runner and the runner for Run) or the logger's worker sleeps on
\* when it is joined; all services are down before Run can stick there.
Stuck == stage = <<"stuck">> /\ ToSet(Those(Ended)) = ToSet(plan.services)
Over == stage = <<"over">> \/ fate # "alive" \/ task = "shutdown" \/ Stuck
Ending == shutdown /\ stage # <<"off">>
Asking == caller = "asked"
Gone   == caller = "gone" \/ fate # "alive" \/ Stuck
Ends   == (Ending ~> Over) /\ (Asking ~> Gone)

\* "Block until the daemon thread has finished bringing services up."
UpWhenBack == caller = "back" => stage[1] \notin {"enter", "sort", "init"}

\* "wait until resource released", said of Shutdown.
ReleasedWhenBack == caller = "released" => stage = <<"over">>

\* Nothing uses the group when it is gone.
NoUseOfGone == fate # "crashed"
=============================================================================
