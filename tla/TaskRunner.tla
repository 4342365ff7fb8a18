----------------------------- MODULE TaskRunner -----------------------------
(***************************************************************************)
(* UnixTaskRunner: one thread runs a poll(2) loop over an eventfd and the  *)
(* watched file descriptors, and executes immediate tasks, delayed tasks   *)
(* and watch callbacks; any thread, the loop's own tasks included, posts,  *)
(* cancels, adds and removes watches, and quits.                           *)
(*                                                                         *)
(* Every section under lock_ is one action. The WakeUp() a call makes      *)
(* after it unlocks is an action of its own, so that every interleaving of *)
(* push, wake-up, poll and eventfd clear is explored.                      *)
(***************************************************************************)
EXTENDS Naturals, Sequences, FiniteSets

CONSTANTS
  Threads,  \* client threads
  Loop,     \* the thread inside Run(), which also calls in from its tasks
  Tasks,    \* immediate tasks, each posted at most once
  DTasks,   \* delayed tasks, each posted at most once; its own handle
  Fds,      \* file descriptors that may be watched
  WakeFd,   \* event_.fd()
  Delays,   \* delay_ms arguments
  MaxTime,  \* bound on the clock
  MaxRuns   \* bound on the number of Run() calls

ASSUME RunnerAssumption ==
  /\ Loop \notin Threads
  /\ Fds \subseteq Nat
  /\ WakeFd \in Nat \ Fds
  /\ Delays \subseteq Nat
  /\ MaxTime \in Nat
  /\ MaxRuns \in Nat

VARIABLES
  loop,      \* program counter of Run()
  quit,      \* quit_
  immediate, \* immediate_tasks_
  delayed,   \* delayed_tasks_, with the insertion order of equal keys
  inserted,  \* how many entries delayed_tasks_ has had
  watches,   \* keys of watch_tasks_
  changed,   \* watch_tasks_changed_
  pollFds,   \* poll_fds_: "armed" (positive fd) or "masked" (negated fd)
  revents,   \* entries of poll_fds_ whose revents is still to be handled
  wakeAt,    \* when poll times out: {} is -1 (never), {t} is time t
  imm, dly,  \* immediate_task and delayed_task of RunImmediateAndDelayedTask
  event,     \* the eventfd's counter is positive
  call,      \* call[c] = "wake": c has unlocked and not yet called WakeUp()
  readable,  \* descriptors with data to read
  now,       \* the clock
  runs,      \* calls of Run() so far
  posted,    \* history: tasks handed in
  started, refused, cancelled, \* history: tasks started, dropped, cancelled
  denied     \* history: tasks whose CancelDelayedTask returned false

queueVars   == <<immediate, delayed, inserted>>
watchVars   == <<watches, changed, pollFds>>
historyVars == <<posted, started, refused, cancelled, denied>>
vars == <<loop, quit, queueVars, watchVars, revents, wakeAt, imm, dly, event,
          call, readable, now, runs, historyVars>>

Callers == Threads \cup {Loop}
Item == [kind : {"task"}, id : Tasks] \cup [kind : {"fd"}, id : Fds]
TaskItem(t) == [kind |-> "task", id |-> t]
FdItem(f)   == [kind |-> "fd", id |-> f]
Slot == [task : DTasks, due : Nat, order : Nat]

LoopPc == {"out", "top", "poll", "post", "pop", "imm", "immRun", "dly", "dlyRun"}

\* multimap order: by time, and by insertion among equal times.
Before(r, s) == r.due < s.due \/ (r.due = s.due /\ r.order <= s.order)
FirstDelayed == {r \in delayed : \A s \in delayed : Before(r, s)}

\* A thread may call in when it is not inside another call; the loop's thread
\* does so from the body of a task.
CanCall(c) ==
  /\ call[c] = "idle"
  /\ c = Loop => loop \in {"immRun", "dlyRun"}

-----------------------------------------------------------------------------
(* The loop *)

Run ==
  /\ loop = "out" /\ runs < MaxRuns
  /\ loop' = "top" /\ quit' = FALSE /\ runs' = runs + 1
  /\ UNCHANGED <<queueVars, watchVars, revents, wakeAt, imm, dly, event, call,
                 readable, now, historyVars>>

\* UpdateWatchTasksLocked: a rebuild makes every descriptor positive again.
RebuiltPollFds_NotCleared ==
  IF changed THEN [f \in watches \cup DOMAIN pollFds |-> "armed"] ELSE pollFds
RebuiltPollFds_KeepsMask ==
  IF changed
    THEN [f \in watches |-> IF f \in DOMAIN pollFds THEN pollFds[f] ELSE "armed"]
    ELSE pollFds
RebuiltPollFds == IF changed THEN [f \in watches |-> "armed"] ELSE pollFds

\* GetDelayMsToNextTaskLocked.
NextTimeout ==
  IF immediate # <<>> THEN {now} ELSE {r.due : r \in FirstDelayed}

Top ==
  /\ loop = "top"
  /\ IF quit
       THEN loop' = "out" /\ UNCHANGED <<wakeAt, pollFds, changed>>
       ELSE /\ loop' = "poll"
            /\ wakeAt' = NextTimeout
            /\ pollFds' = RebuiltPollFds
            /\ changed' = FALSE
  /\ UNCHANGED <<quit, queueVars, watches, revents, imm, dly, event, call,
                 readable, now, runs, historyVars>>

Ready ==
  {f \in DOMAIN pollFds :
     pollFds[f] = "armed" /\ (f \in readable \/ (f = WakeFd /\ event))}

Poll ==
  /\ loop = "poll"
  /\ Ready # {} \/ \E t \in wakeAt : t <= now
  /\ loop' = "post" /\ revents' = Ready
  /\ UNCHANGED <<quit, queueVars, watchVars, wakeAt, imm, dly, event, call,
                 readable, now, runs, historyVars>>

\* One descriptor of PostFileDescriptorWatches, in the order of the map.
\* PostTask drops the callback when quit_ is set, the descriptor is negated
\* all the same.
PostWatch(f) ==
  /\ loop = "post"
  /\ f \in revents /\ \A g \in revents : f <= g
  /\ revents' = revents \ {f}
  /\ IF f = WakeFd
       THEN event' = FALSE /\ UNCHANGED <<immediate, pollFds>>
       ELSE /\ immediate' = IF quit THEN immediate ELSE Append(immediate, FdItem(f))
            /\ event' = (event \/ (~quit /\ immediate = <<>>))
            /\ pollFds' = [pollFds EXCEPT ![f] = "masked"]
  /\ UNCHANGED <<loop, quit, delayed, inserted, watches, changed, wakeAt, imm,
                 dly, call, readable, now, runs, historyVars>>

PostDone ==
  /\ loop = "post" /\ revents = {}
  /\ loop' = "pop"
  /\ UNCHANGED <<quit, queueVars, watchVars, revents, wakeAt, imm, dly, event,
                 call, readable, now, runs, historyVars>>

\* delayed_tasks_.erase(it).
WithoutDelayed_NotErased(due) == delayed
WithoutDelayed(due) == delayed \ due

\* RunImmediateAndDelayedTask takes one task of each queue in one section.
Pop ==
  LET due == {r \in FirstDelayed : r.due <= now} IN
  /\ loop = "pop"
  /\ loop' = "imm"
  /\ IF immediate = <<>>
       THEN imm' = {} /\ UNCHANGED immediate
       ELSE imm' = {Head(immediate)} /\ immediate' = Tail(immediate)
  /\ dly' = {r.task : r \in due}
  /\ delayed' = WithoutDelayed(due)
  /\ UNCHANGED <<quit, inserted, watchVars, revents, wakeAt, event, call,
                 readable, now, runs, historyVars>>

StartTask ==
  /\ loop = "imm"
  /\ \E t \in Tasks : imm = {TaskItem(t)} /\ started' = started \cup {t}
  /\ loop' = "immRun"
  /\ UNCHANGED <<quit, queueVars, watchVars, revents, wakeAt, imm, dly, event,
                 call, readable, now, runs, posted, refused, cancelled, denied>>

\* RunFileDescriptorWatch up to the call of the callback.
StartWatch ==
  /\ loop = "imm"
  /\ \E f \in Fds :
       /\ imm = {FdItem(f)}
       /\ IF f \in watches
            THEN /\ pollFds' = [RebuiltPollFds EXCEPT ![f] = "armed"]
                 /\ changed' = FALSE
                 /\ loop' = "immRun" /\ UNCHANGED imm
            ELSE loop' = "dly" /\ imm' = {} /\ UNCHANGED <<pollFds, changed>>
  /\ UNCHANGED <<quit, queueVars, watches, revents, wakeAt, dly, event, call,
                 readable, now, runs, historyVars>>

\* The body returns; a watch callback may have read its descriptor dry.
FinishImmediate ==
  /\ loop = "immRun" /\ call[Loop] = "idle"
  /\ loop' = "dly" /\ imm' = {}
  /\ \/ UNCHANGED readable
     \/ \E f \in Fds : imm = {FdItem(f)} /\ readable' = readable \ {f}
  /\ UNCHANGED <<quit, queueVars, watchVars, revents, wakeAt, dly, event, call,
                 now, runs, historyVars>>

NoImmediate ==
  /\ loop = "imm" /\ imm = {}
  /\ loop' = "dly"
  /\ UNCHANGED <<quit, queueVars, watchVars, revents, wakeAt, imm, dly, event,
                 call, readable, now, runs, historyVars>>

StartDelayed ==
  /\ loop = "dly"
  /\ \E d \in DTasks : dly = {d} /\ started' = started \cup {d}
  /\ loop' = "dlyRun"
  /\ UNCHANGED <<quit, queueVars, watchVars, revents, wakeAt, imm, dly, event,
                 call, readable, now, runs, posted, refused, cancelled, denied>>

FinishDelayed ==
  /\ \/ loop = "dlyRun" /\ call[Loop] = "idle"
     \/ loop = "dly" /\ dly = {}
  /\ loop' = "top" /\ dly' = {}
  /\ UNCHANGED <<quit, queueVars, watchVars, revents, wakeAt, imm, event, call,
                 readable, now, runs, historyVars>>

LoopStep ==
  \/ Top \/ Poll \/ (\E f \in revents : PostWatch(f)) \/ PostDone \/ Pop
  \/ StartTask \/ StartWatch \/ FinishImmediate \/ NoImmediate
  \/ StartDelayed \/ FinishDelayed

-----------------------------------------------------------------------------
(* Calls from any thread *)

\* The caller has unlocked and is about to call WakeUp().
ToBeWoken_Forgotten(c) == UNCHANGED call
ToBeWoken(c) == call' = [call EXCEPT ![c] = "wake"]

PostTask(c, t) ==
  /\ CanCall(c) /\ t \notin posted
  /\ posted' = posted \cup {t}
  /\ IF quit
       THEN refused' = refused \cup {t} /\ UNCHANGED <<immediate, call>>
       ELSE /\ immediate' = Append(immediate, TaskItem(t))
            /\ IF immediate = <<>> THEN ToBeWoken(c) ELSE UNCHANGED call
            /\ UNCHANGED refused
  /\ UNCHANGED <<loop, quit, delayed, inserted, watchVars, revents, wakeAt, imm,
                 dly, event, readable, now, runs, started, cancelled, denied>>

\* PostDelayedTask and PostDelayedTaskWithHandle: accepted even after Quit.
PostDelayedTask(c, d, delay) ==
  /\ CanCall(c) /\ d \notin posted
  /\ posted' = posted \cup {d}
  /\ now + delay <= MaxTime
  /\ delayed' = delayed \cup {[task |-> d, due |-> now + delay, order |-> inserted]}
  /\ inserted' = inserted + 1
  /\ ToBeWoken(c)
  /\ UNCHANGED <<loop, quit, immediate, watchVars, revents, wakeAt, imm, dly,
                 event, readable, now, runs, started, refused, cancelled, denied>>

\* A handle exists once its task was posted.
CancelDelayedTask(c, d) ==
  LET found == {r \in delayed : r.task = d} IN
  /\ CanCall(c) /\ d \in posted
  /\ delayed' = delayed \ found
  /\ IF found # {}
       THEN cancelled' = cancelled \cup {d} /\ UNCHANGED denied
       ELSE denied' = denied \cup {d} /\ UNCHANGED cancelled
  /\ UNCHANGED <<loop, quit, immediate, inserted, watchVars, revents, wakeAt,
                 imm, dly, event, call, readable, now, runs, posted,
                 started, refused>>

AddFileDescriptorWatch(c, f) ==
  /\ CanCall(c) /\ f \notin watches
  /\ watches' = watches \cup {f} /\ changed' = TRUE
  /\ ToBeWoken(c)
  /\ UNCHANGED <<loop, quit, queueVars, pollFds, revents, wakeAt, imm, dly,
                 event, readable, now, runs, historyVars>>

RemoveFileDescriptorWatch(c, f) ==
  /\ CanCall(c)
  /\ watches' = watches \ {f} /\ changed' = TRUE
  /\ UNCHANGED <<loop, quit, queueVars, pollFds, revents, wakeAt, imm, dly,
                 event, call, readable, now, runs, historyVars>>

\* Quit wakes the loop while it still holds lock_.
Quit(c) ==
  /\ CanCall(c)
  /\ quit' = TRUE /\ event' = TRUE
  /\ UNCHANGED <<loop, queueVars, watchVars, revents, wakeAt, imm, dly, call,
                 readable, now, runs, historyVars>>

WakeUp(c) ==
  /\ call[c] = "wake"
  /\ call' = [call EXCEPT ![c] = "idle"] /\ event' = TRUE
  /\ UNCHANGED <<loop, quit, queueVars, watchVars, revents, wakeAt, imm, dly,
                 readable, now, runs, historyVars>>

Call(c) ==
  \/ \E t \in Tasks : PostTask(c, t)
  \/ \E d \in DTasks, delay \in Delays : PostDelayedTask(c, d, delay)
  \/ \E d \in DTasks : CancelDelayedTask(c, d)
  \/ \E f \in Fds : AddFileDescriptorWatch(c, f) \/ RemoveFileDescriptorWatch(c, f)
  \/ Quit(c)

-----------------------------------------------------------------------------
(* Environment *)

Tick ==
  /\ now < MaxTime /\ now' = now + 1
  /\ UNCHANGED <<loop, quit, queueVars, watchVars, revents, wakeAt, imm, dly,
                 event, call, readable, runs, historyVars>>

DataArrives(f) ==
  /\ readable' = readable \cup {f}
  /\ UNCHANGED <<loop, quit, queueVars, watchVars, revents, wakeAt, imm, dly,
                 event, call, now, runs, historyVars>>

-----------------------------------------------------------------------------

\* The constructor registers the eventfd, which also raises it.
Init ==
  /\ loop = "out" /\ quit = FALSE /\ runs = 0
  /\ immediate = <<>> /\ delayed = {} /\ inserted = 0
  /\ watches = {WakeFd} /\ changed = TRUE /\ pollFds = [f \in {} |-> "armed"]
  /\ revents = {} /\ wakeAt = {} /\ imm = {} /\ dly = {}
  /\ event = TRUE /\ call = [c \in Callers |-> "idle"]
  /\ readable = {} /\ now = 0
  /\ posted = {} /\ started = {} /\ refused = {} /\ cancelled = {} /\ denied = {}

Next ==
  \/ Run \/ LoopStep \/ Tick
  \/ \E c \in Callers : Call(c) \/ WakeUp(c)
  \/ \E f \in Fds : DataArrives(f)

Spec == Init /\ [][Next]_vars

\* The thread in Run() is scheduled, its tasks return, a call that unlocked
\* gets to its WakeUp, and time passes. Nobody is obliged to call anything.
Fairness ==
  /\ WF_vars(LoopStep)
  /\ SF_vars(FinishImmediate) /\ SF_vars(FinishDelayed)
  /\ \A c \in Callers : WF_vars(WakeUp(c))
  /\ WF_vars(Tick)

FairSpec == Spec /\ Fairness

-----------------------------------------------------------------------------
(* Properties *)

TypeOK ==
  /\ loop \in LoopPc
  /\ quit \in BOOLEAN /\ changed \in BOOLEAN /\ event \in BOOLEAN
  /\ immediate \in Seq(Item)
  /\ delayed \subseteq Slot /\ inserted \in Nat
  /\ watches \subseteq Fds \cup {WakeFd} /\ WakeFd \in watches
  /\ DOMAIN pollFds \subseteq Fds \cup {WakeFd}
  /\ \A f \in DOMAIN pollFds : pollFds[f] \in {"armed", "masked"}
  /\ revents \subseteq DOMAIN pollFds
  /\ wakeAt \subseteq Nat /\ now \in Nat /\ runs \in Nat
  /\ imm \subseteq Item /\ dly \subseteq DTasks
  /\ call \in [Callers -> {"idle", "wake"}]
  /\ readable \subseteq Fds
  /\ posted \subseteq Tasks \cup DTasks /\ started \subseteq Tasks \cup DTasks
  /\ refused \subseteq Tasks /\ cancelled \subseteq DTasks /\ denied \subseteq DTasks

\* The eventfd is polled, and raised or about to be.
WillWake ==
  /\ WakeFd \in DOMAIN pollFds /\ pollFds[WakeFd] = "armed"
  /\ event \/ \E c \in Threads : call[c] = "wake"

PollTimesOutBy(m) == \E t \in wakeAt : t <= m \/ t <= now

\* The loop never sleeps past work: when it is blocked in poll and nothing will
\* raise the eventfd, Quit has not been called, every watched descriptor is
\* polled, and poll times out no later than the first task is due. PostTask
\* wakes only when the queue was empty, so this depends on who emptied it.
NoLostWakeup ==
  (loop = "poll" /\ ~WillWake) =>
    /\ ~quit
    /\ watches \subseteq DOMAIN pollFds
    /\ immediate # <<>> => PollTimesOutBy(now)
    /\ \A r \in delayed : PollTimesOutBy(r.due)

\* XTILS_DCHECK(abs(poll_fds_[fd_index].fd) == fd) in RunFileDescriptorWatch:
\* unless a rebuild is due, poll_fds_ holds exactly the watched descriptors.
PollSetMatchesWatches == ~changed => DOMAIN pollFds = watches

CallbackPending(f) ==
  \/ \E i \in 1..Len(immediate) : immediate[i] = FdItem(f)
  \/ loop = "imm" /\ imm = {FdItem(f)}

\* "we just make the fd negative while its task is pending": a watched
\* descriptor that poll ignores has a callback coming that makes poll look at
\* it again, or it would never be served any more.
MaskedOnlyWhilePending ==
  (~quit /\ ~changed) =>
    \A f \in watches : pollFds[f] = "masked" => CallbackPending(f)

\* CancelDelayedTask: "Returns false if the task already ran, already started
\* running, or the handle is unknown": a task it refused to cancel has started.
DeniedHasStarted == \A d \in denied : d \in started \cup cancelled

Waiting(t) ==
  \/ \E i \in 1..Len(immediate) : immediate[i] = TaskItem(t)
  \/ \E r \in delayed : r.task = t
  \/ loop = "imm" /\ imm = {TaskItem(t)}
  \/ loop \in {"imm", "immRun", "dly"} /\ t \in dly

\* The runner is an executor: it accepts or drops a task once, starts it at
\* most once, never starts a cancelled one and never loses one. A started task
\* that could start again is in no phase of the abstract executor.
PhaseOf(t) ==
  IF t \notin posted THEN "new"
  ELSE IF t \in refused THEN "dropped"
  ELSE IF t \in cancelled THEN "cancelled"
  ELSE IF Waiting(t) /\ t \in started THEN "again"
  ELSE IF Waiting(t) THEN "pending"
  ELSE IF t \in started THEN "started"
  ELSE "dropped"

Abstract == INSTANCE Executor WITH
  Task <- Tasks \cup DTasks,
  phase <- [t \in Tasks \cup DTasks |-> PhaseOf(t)],
  stopped <- quit

ImplementsExecutor == Abstract!Spec

\* An accepted immediate task runs, unless the runner is told to quit.
ImmediateRuns ==
  \A t \in Tasks :
    (t \in posted \ refused /\ loop # "out") ~> (t \in started \/ quit)

\* A delayed task runs once its time has come, unless cancelled or quit.
DelayedRuns ==
  \A d \in DTasks :
    (d \in posted /\ loop # "out") ~> (d \in started \cup cancelled \/ quit)

\* Data on a watched descriptor reaches its callback, however many rebuilds
\* of the poll set happen on the way.
WatchServed ==
  \A f \in Fds :
    (f \in watches /\ f \in readable /\ loop # "out") ~>
      (f \notin watches \/ f \notin readable \/ quit
       \/ (loop = "immRun" /\ imm = {FdItem(f)}))

\* Quit makes Run return, wherever the loop was.
QuitReturns == quit ~> (loop = "out")

\* What the loop polls is what the callers watch, in every reachable state.
PollSet == TypeOK /\ PollSetMatchesWatches /\ MaskedOnlyWhilePending

\* What was asked of the loop is done, whatever wake-ups cross.
Progress == ImmediateRuns /\ DelayedRuns /\ WatchServed /\ QuitReturns
=============================================================================
