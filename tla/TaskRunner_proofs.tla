-------------------------- MODULE TaskRunner_proofs --------------------------
(***************************************************************************)
(* UnixTaskRunner, for any number of threads, tasks and descriptors: the   *)
(* loop never sleeps past work (NoLostWakeup), what it polls is what the   *)
(* callers watch (PollSet, of a runner that is run once), and the runner   *)
(* is an executor (ImplementsExecutor).                                    *)
(***************************************************************************)
EXTENDS TaskRunner, TLAPS, WellFoundedInduction, SequenceTheorems

\* What makes NoLostWakeup inductive: the eventfd enters the poll set at the
\* first rebuild and is never masked; poll_fds_ follows the watches; revents is
\* consumed before the loop goes on; and the loop's own thread is in no call
\* while it polls, so a promised wake-up is another thread's.
IInv ==
  /\ TypeOK
  /\ PollSetMatchesWatches
  /\ WakeFd \in DOMAIN pollFds => pollFds[WakeFd] = "armed"
  /\ loop \notin {"out", "top"} => WakeFd \in DOMAIN pollFds
  /\ loop # "post" => revents = {}
  /\ call[Loop] = "wake" => loop \in {"immRun", "dlyRun"}
  /\ NoLostWakeup

\* A nonempty set of naturals has a least element.
LEMMA LeastNatural ==
  ASSUME NEW T \in SUBSET Nat, T # {}
  PROVE  \E m \in T : \A n \in T : m <= n
<1>1. \A x, y \in Nat : <<x, y>> \in OpToRel(<, Nat) <=> x < y
  BY Zenon DEF OpToRel
<1>2. PICK m \in T : \A n \in T : ~(<<n, m>> \in OpToRel(<, Nat))
  BY NatLessThanWellFounded, WFMin
<1>3. \A n \in T : ~(n < m)
  BY <1>1, <1>2, Zenon
<1> QED BY <1>3

\* The begin() of delayed_tasks_ is no later than any of its entries, so a
\* timeout computed from it is early enough for all of them.
LEMMA FirstIsEarliest ==
  ASSUME TypeOK, NEW r \in delayed
  PROVE  \E s \in FirstDelayed : s.due <= r.due
<1> DEFINE Due == {s.due : s \in delayed}
<1>1. Due \subseteq Nat /\ Due # {}
  BY DEF TypeOK, Slot
<1>2. PICK m \in Due : \A n \in Due : m <= n
  <2> HIDE DEF Due
  <2> QED BY <1>1, LeastNatural
<1> DEFINE Orders == {s.order : s \in {q \in delayed : q.due = m}}
<1>4. Orders \subseteq Nat /\ Orders # {}
  BY <1>2 DEF TypeOK, Slot
<1>5. PICK k \in Orders : \A n \in Orders : k <= n
  <2> HIDE DEF Orders
  <2> QED BY <1>4, LeastNatural
<1>7. PICK s \in delayed : s.due = m /\ s.order = k
  BY <1>5
<1>8. s \in FirstDelayed
  <2> SUFFICES ASSUME NEW q \in delayed PROVE Before(s, q)
    BY <1>7 DEF FirstDelayed
  <2>1. q.due \in Due /\ q.due \in Nat /\ q.order \in Nat /\ m \in Nat /\ k \in Nat
    BY <1>1, <1>4 DEF TypeOK, Slot
  <2>2. CASE q.due = m
    BY <2>1, <2>2, <1>5, <1>7 DEF Before
  <2>3. CASE q.due # m
    BY <2>1, <2>3, <1>2, <1>7 DEF Before
  <2> QED BY <2>2, <2>3
<1> QED BY <1>2, <1>7, <1>8

LEMMA InitInv == Init => IInv
<1> SUFFICES ASSUME Init PROVE IInv
  OBVIOUS
<1>1. TypeOK
  BY RunnerAssumption, EmptySeq DEF Init, TypeOK, LoopPc, Callers
<1>2. PollSetMatchesWatches /\ NoLostWakeup
  BY DEF Init, PollSetMatchesWatches, NoLostWakeup
<1> QED BY <1>1, <1>2 DEF Init, IInv, Callers

\* The steps of the loop.
LEMMA LoopInv == IInv /\ LoopStep => IInv'
<1> SUFFICES ASSUME IInv, LoopStep PROVE IInv'
  OBVIOUS
<1> USE RunnerAssumption DEF IInv, TypeOK, LoopPc, PollSetMatchesWatches, NoLostWakeup,
      queueVars, watchVars, historyVars
<1>1. CASE Top
  <2>1. CASE quit
    BY <1>1, <2>1 DEF Top
  <2>2. CASE ~quit
    <3> USE <1>1, <2>2 DEF Top
    <3>1. wakeAt' \subseteq Nat
      BY DEF NextTimeout, FirstDelayed, Slot
    <3>2. DOMAIN pollFds' = watches /\ \A f \in watches : pollFds'[f] \in {"armed", "masked"}
      BY DEF RebuiltPollFds
    <3>3. pollFds'[WakeFd] = "armed"
      BY DEF RebuiltPollFds
    <3>4. immediate # <<>> => wakeAt' = {now}
      BY DEF NextTimeout
    <3>5. ASSUME NEW r \in delayed PROVE PollTimesOutBy(r.due)'
      <4>1. CASE immediate # <<>>
        BY <3>4, <4>1 DEF PollTimesOutBy
      <4>2. CASE immediate = <<>>
        <5>1. PICK s \in FirstDelayed : s.due <= r.due
          BY FirstIsEarliest
        <5> QED BY <4>2, <5>1 DEF NextTimeout, PollTimesOutBy
      <4> QED BY <4>1, <4>2
    <3>6. TypeOK'
      BY <3>1, <3>2
    <3>7. (immediate # <<>> => PollTimesOutBy(now))'
      BY <3>4 DEF PollTimesOutBy
    <3>8. NoLostWakeup'
      <4> HIDE DEF TypeOK
      <4> QED BY <3>2, <3>5, <3>7 DEF NoLostWakeup
    <3>9. WakeFd \in watches
      OBVIOUS
    <3> HIDE DEF TypeOK, NoLostWakeup
    <3> QED BY <3>2, <3>3, <3>6, <3>8, <3>9
  <2> QED BY <2>1, <2>2
<1>2. CASE Poll
  BY <1>2 DEF Poll, Ready
<1>3. ASSUME NEW f \in revents, PostWatch(f) PROVE IInv'
  <2>1. CASE f = WakeFd
    BY <1>3, <2>1 DEF PostWatch
  <2>2. CASE f # WakeFd
    <3>1. f \in Fds /\ FdItem(f) \in Item
      BY <2>2 DEF FdItem, Item
    <3>2. immediate' \in Seq(Item)
      BY <1>3, <2>2, <3>1, AppendProperties DEF PostWatch
    <3> QED BY <1>3, <2>2, <3>1, <3>2 DEF PostWatch
  <2> QED BY <2>1, <2>2
<1>4. CASE PostDone
  BY <1>4 DEF PostDone
<1>5. CASE Pop
  <2>1. immediate # <<>> => Head(immediate) \in Item /\ Tail(immediate) \in Seq(Item)
    BY HeadTailProperties
  <2>2. dly' \subseteq DTasks /\ delayed' \subseteq Slot
    BY <1>5 DEF Pop, FirstDelayed, WithoutDelayed, Slot
  <2> QED BY <1>5, <2>1, <2>2 DEF Pop
<1>6. CASE StartTask
  BY <1>6 DEF StartTask
<1>7. CASE StartWatch
  BY <1>7 DEF StartWatch, RebuiltPollFds
<1>8. CASE FinishImmediate
  BY <1>8 DEF FinishImmediate
<1>9. CASE NoImmediate
  BY <1>9 DEF NoImmediate
<1>10. CASE StartDelayed
  BY <1>10 DEF StartDelayed
<1>11. CASE FinishDelayed
  BY <1>11 DEF FinishDelayed
<1> QED
  BY <1>1, <1>2, <1>3, <1>4, <1>5, <1>6, <1>7, <1>8, <1>9, <1>10, <1>11 DEF LoopStep

\* The calls, from any thread and from the loop's own tasks.
LEMMA CallInv == ASSUME IInv, NEW c \in Callers, Call(c) \/ WakeUp(c) PROVE IInv'
<1> USE RunnerAssumption DEF IInv, TypeOK, LoopPc, PollSetMatchesWatches, NoLostWakeup,
      WillWake, PollTimesOutBy, CanCall, ToBeWoken, Callers, queueVars, watchVars, historyVars
<1>1. ASSUME NEW t \in Tasks, PostTask(c, t) PROVE IInv'
  <2>1. CASE quit
    BY <1>1, <2>1 DEF PostTask
  <2>2. CASE ~quit
    <3>1. TaskItem(t) \in Item
      BY DEF TaskItem, Item
    <3>2. immediate' \in Seq(Item) /\ immediate' # <<>>
      BY <1>1, <2>2, <3>1, AppendProperties DEF PostTask
    <3>3. CASE immediate = <<>>
      BY <1>1, <2>2, <3>2, <3>3 DEF PostTask
    <3>4. CASE immediate # <<>>
      BY <1>1, <2>2, <3>2, <3>4 DEF PostTask
    <3> QED BY <3>3, <3>4
  <2> QED BY <2>1, <2>2
<1>2. ASSUME NEW d \in DTasks, NEW delay \in Delays, PostDelayedTask(c, d, delay) PROVE IInv'
  BY <1>2 DEF PostDelayedTask, Slot
<1>3. ASSUME NEW d \in DTasks, CancelDelayedTask(c, d) PROVE IInv'
  BY <1>3 DEF CancelDelayedTask
<1>4. ASSUME NEW f \in Fds, AddFileDescriptorWatch(c, f) PROVE IInv'
  BY <1>4 DEF AddFileDescriptorWatch
<1>5. ASSUME NEW f \in Fds, RemoveFileDescriptorWatch(c, f) PROVE IInv'
  BY <1>5 DEF RemoveFileDescriptorWatch
<1>6. CASE Quit(c)
  BY <1>6 DEF Quit
<1>7. CASE WakeUp(c)
  BY <1>7 DEF WakeUp
<1> QED BY <1>1, <1>2, <1>3, <1>4, <1>5, <1>6, <1>7 DEF Call

\* The clock, the data, and Run() entered again.
LEMMA EnvironmentInv ==
  ASSUME IInv, Run \/ Tick \/ (\E f \in Fds : DataArrives(f)) \/ UNCHANGED vars
  PROVE  IInv'
<1> USE DEF IInv, TypeOK, LoopPc, PollSetMatchesWatches, NoLostWakeup, WillWake,
      PollTimesOutBy, queueVars, watchVars, historyVars
<1>1. CASE Run
  <2>1. TypeOK'
    <3>1. runs' \in Nat
      <4> HIDE DEF NoLostWakeup, PollSetMatchesWatches
      <4> QED BY <1>1 DEF Run
    <3>2. quit' \in BOOLEAN /\ loop' \in LoopPc
      BY <1>1 DEF Run
    <3> HIDE DEF NoLostWakeup, PollSetMatchesWatches
    <3> QED BY <1>1, <3>1, <3>2 DEF Run
  <2>2. PollSetMatchesWatches' /\ NoLostWakeup'
    BY <1>1 DEF Run
  <2>3. /\ (WakeFd \in DOMAIN pollFds => pollFds[WakeFd] = "armed")'
        /\ (loop # "post" => revents = {})'
        /\ (call[Loop] = "wake" => loop \in {"immRun", "dlyRun"})'
    BY <1>1 DEF Run
  <2>4. loop' = "top"
    BY <1>1 DEF Run
  <2> HIDE DEF TypeOK, PollSetMatchesWatches, NoLostWakeup
  <2> QED BY <2>1, <2>2, <2>3, <2>4
<1>2. CASE Tick
  BY <1>2 DEF Tick
<1>3. ASSUME NEW f \in Fds, DataArrives(f) PROVE IInv'
  BY <1>3 DEF DataArrives
<1>4. CASE UNCHANGED vars
  BY <1>4 DEF vars
<1> QED BY <1>1, <1>2, <1>3, <1>4

LEMMA StepInv == IInv /\ [Next]_vars => IInv'
BY LoopInv, CallInv, EnvironmentInv DEF Next

\* Every reachable state satisfies the inductive invariant.
THEOREM Invariance == Spec => []IInv
<1> QED BY InitInv, StepInv, PTL DEF Spec

\* The variables keep their types, for any number of threads, tasks and
\* descriptors (UnixTaskRunner's members).
THEOREM TypeCorrect == Spec => []TypeOK
<1>1. IInv => TypeOK
  BY DEF IInv
<1> QED BY Invariance, <1>1, PTL

\* The loop never blocks in poll past a posted task, a due delayed task, a new
\* watch or a Quit without the eventfd being raised.
THEOREM NeverSleepsPastWork == Spec => []NoLostWakeup
<1>1. IInv => NoLostWakeup
  BY DEF IInv
<1> QED BY Invariance, <1>1, PTL

\* Unless a rebuild is due, poll_fds_ holds exactly the watched descriptors, so
\* the index RunFileDescriptorWatch uses is in range.
THEOREM PollSetCorrect == Spec => []PollSetMatchesWatches
<1>1. IInv => PollSetMatchesWatches
  BY DEF IInv
<1> QED BY Invariance, <1>1, PTL

-----------------------------------------------------------------------------
(* A runner that is run once serves every watched descriptor *)

\* A second Run() after Quit finds the descriptors masked for the callbacks that
\* PostTask dropped, so MaskedOnlyWhilePending is a property of the first one.
OneRun ==
  /\ loop # "out" => runs # 0
  /\ runs = 0 => changed
  /\ MaskedOnlyWhilePending

\* A callback still queued after a step is pending after it.
LEMMA StaysPending ==
  ASSUME NEW f \in Fds, loop # "imm", CallbackPending(f),
         \A i \in 1..Len(immediate) :
           \E j \in 1..Len(immediate') : immediate'[j] = immediate[i]
  PROVE  CallbackPending(f)'
<1>1. PICK i \in 1..Len(immediate) : immediate[i] = FdItem(f)
  BY DEF CallbackPending
<1> QED BY <1>1 DEF CallbackPending, FdItem

\* PostFileDescriptorWatches masks a descriptor and queues its callback together.
LEMMA PostWatchOneRun ==
  ASSUME IInv, OneRun, NEW f \in revents, PostWatch(f) PROVE MaskedOnlyWhilePending'
<1> SUFFICES ASSUME ~quit, ~changed, NEW g \in watches, pollFds'[g] = "masked"
             PROVE  CallbackPending(g)'
  BY DEF MaskedOnlyWhilePending, PostWatch, watchVars
<1>1. DOMAIN pollFds = watches /\ f \in watches /\ watches \subseteq Fds \cup {WakeFd}
  BY DEF IInv, TypeOK, PollSetMatchesWatches, PostWatch
<1>2. CASE f = WakeFd
  BY <1>2 DEF PostWatch, OneRun, MaskedOnlyWhilePending, CallbackPending, FdItem
<1>3. CASE f # WakeFd
  <2>1. immediate' = Append(immediate, FdItem(f)) /\ immediate \in Seq(Item) /\ f \in Fds
    BY <1>3 DEF PostWatch, IInv, TypeOK
  <2>2. /\ Len(immediate') = Len(immediate) + 1 /\ Len(immediate) \in Nat
        /\ immediate'[Len(immediate')] = FdItem(f)
        /\ \A i \in 1..Len(immediate) : immediate'[i] = immediate[i]
    <3>1. FdItem(f) \in Item
      BY <2>1 DEF FdItem, Item
    <3> QED BY <2>1, <3>1, AppendProperties
  <2>3. CASE g = f
    <3>1. Len(immediate') \in 1..Len(immediate')
      BY <2>2
    <3> QED BY <2>2, <2>3, <3>1 DEF CallbackPending, FdItem
  <2>4. CASE g # f
    <3>1. pollFds[g] = "masked"
      BY <1>1, <1>3, <2>4 DEF PostWatch
    <3>2. CallbackPending(g) /\ loop # "imm"
      BY <3>1 DEF OneRun, MaskedOnlyWhilePending, PostWatch
    <3>3. g \in Fds
      BY <3>1 DEF IInv, TypeOK
    <3> QED BY <2>2, <3>2, <3>3, StaysPending
  <2> QED BY <2>3, <2>4
<1> QED BY <1>2, <1>3

\* RunImmediateAndDelayedTask takes the head of the queue into its own hands.
LEMMA PopOneRun == ASSUME IInv, OneRun, Pop PROVE MaskedOnlyWhilePending'
<1> SUFFICES ASSUME ~quit, ~changed, NEW g \in watches, pollFds[g] = "masked"
             PROVE  CallbackPending(g)'
  BY DEF MaskedOnlyWhilePending, Pop, watchVars
<1>1. CallbackPending(g) /\ loop = "pop" /\ loop' = "imm"
  BY DEF OneRun, MaskedOnlyWhilePending, Pop
<1>2. PICK i \in 1..Len(immediate) : immediate[i] = FdItem(g)
  BY <1>1 DEF CallbackPending
<1>3. immediate \in Seq(Item) /\ immediate # <<>>
  BY <1>2 DEF IInv, TypeOK
<1>4. /\ imm' = {Head(immediate)} /\ immediate' = Tail(immediate)
      /\ Head(immediate) = immediate[1]
      /\ Len(immediate') = Len(immediate) - 1 /\ Len(immediate) \in Nat
      /\ \A j \in 1..Len(immediate') : immediate'[j] = immediate[j + 1]
  <2>1. imm' = {Head(immediate)} /\ immediate' = Tail(immediate)
    BY <1>3 DEF Pop
  <2> QED BY <1>3, <2>1
<1>5. CASE i = 1
  BY <1>1, <1>2, <1>4, <1>5 DEF CallbackPending, FdItem
<1>6. CASE i # 1
  <2>1. i - 1 \in 1..Len(immediate') /\ immediate'[i - 1] = FdItem(g)
    BY <1>2, <1>4, <1>6
  <2> QED BY <2>1 DEF CallbackPending, FdItem
<1> QED BY <1>5, <1>6

\* RunFileDescriptorWatch makes the descriptor positive again before the callback.
LEMMA StartWatchOneRun == ASSUME IInv, OneRun, StartWatch PROVE MaskedOnlyWhilePending'
<1> SUFFICES ASSUME ~quit, ~changed', NEW g \in watches, pollFds'[g] = "masked"
             PROVE  CallbackPending(g)'
  BY DEF MaskedOnlyWhilePending, StartWatch
<1>1. PICK f \in Fds : imm = {FdItem(f)} /\ loop = "imm"
                       /\ IF f \in watches
                            THEN pollFds' = [RebuiltPollFds EXCEPT ![f] = "armed"]
                            ELSE UNCHANGED <<pollFds, changed>>
  BY DEF StartWatch
<1>2. g # f /\ ~changed /\ pollFds[g] = "masked"
  <2>1. CASE f \in watches
    <3>1. CASE changed
      BY <1>1, <2>1, <3>1 DEF RebuiltPollFds
    <3>2. CASE ~changed
      BY <1>1, <2>1, <3>2 DEF RebuiltPollFds, IInv, PollSetMatchesWatches
    <3> QED BY <3>1, <3>2
  <2>2. CASE f \notin watches
    BY <1>1, <2>2
  <2> QED BY <2>1, <2>2
<1>3. CallbackPending(g)
  BY <1>2 DEF OneRun, MaskedOnlyWhilePending
<1>4. imm # {FdItem(g)}
  <2>1. FdItem(f).id = f /\ FdItem(g).id = g
    BY DEF FdItem
  <2>2. FdItem(f) # FdItem(g)
    BY <1>2, <2>1
  <2> QED BY <1>1, <2>2
<1>5. immediate' = immediate
  BY DEF StartWatch, queueVars
<1> QED BY <1>3, <1>4, <1>5 DEF CallbackPending, FdItem

LEMMA OneRunLoop == ASSUME IInv, OneRun, LoopStep PROVE OneRun'
<1> USE DEF queueVars, watchVars, historyVars
<1>1. CASE Top
  <2>1. CASE quit
    BY <1>1, <2>1 DEF Top, OneRun, MaskedOnlyWhilePending, CallbackPending
  <2>2. CASE ~quit
    <3> USE <1>1, <2>2 DEF Top
    <3>1. CASE changed
      BY <3>1 DEF OneRun, MaskedOnlyWhilePending, RebuiltPollFds
    <3>2. CASE ~changed
      BY <3>2 DEF OneRun, MaskedOnlyWhilePending, CallbackPending, RebuiltPollFds
    <3> QED BY <3>1, <3>2
  <2> QED BY <2>1, <2>2
<1>2. CASE Poll
  BY <1>2 DEF Poll, OneRun, MaskedOnlyWhilePending, CallbackPending
<1>3. ASSUME NEW f \in revents, PostWatch(f) PROVE OneRun'
  BY <1>3, PostWatchOneRun DEF PostWatch, OneRun
<1>4. CASE PostDone
  BY <1>4 DEF PostDone, OneRun, MaskedOnlyWhilePending, CallbackPending
<1>5. CASE Pop
  BY <1>5, PopOneRun DEF Pop, OneRun
<1>6. CASE StartTask
  <2>1. \A f \in Fds : imm # {FdItem(f)}
    <3>1. PICK t \in Tasks : imm = {TaskItem(t)}
      BY <1>6 DEF StartTask
    <3>2. \A f \in Fds : FdItem(f).kind = "fd" /\ TaskItem(t).kind = "task"
      BY DEF FdItem, TaskItem
    <3> QED BY <3>1, <3>2
  <2>2. \A f \in watches \ {WakeFd} : CallbackPending(f) => CallbackPending(f)'
    BY <1>6, <2>1 DEF StartTask, CallbackPending, IInv, TypeOK
  <2> QED BY <1>6, <2>2 DEF StartTask, OneRun, MaskedOnlyWhilePending, IInv, TypeOK
<1>7. CASE StartWatch
  BY <1>7, StartWatchOneRun DEF StartWatch, OneRun
<1>8. CASE FinishImmediate
  BY <1>8 DEF FinishImmediate, OneRun, MaskedOnlyWhilePending, CallbackPending
<1>9. CASE NoImmediate
  BY <1>9 DEF NoImmediate, OneRun, MaskedOnlyWhilePending, CallbackPending
<1>10. CASE StartDelayed
  BY <1>10 DEF StartDelayed, OneRun, MaskedOnlyWhilePending, CallbackPending
<1>11. CASE FinishDelayed
  BY <1>11 DEF FinishDelayed, OneRun, MaskedOnlyWhilePending, CallbackPending
<1> QED
  BY <1>1, <1>2, <1>3, <1>4, <1>5, <1>6, <1>7, <1>8, <1>9, <1>10, <1>11 DEF LoopStep

LEMMA OneRunCall ==
  ASSUME IInv, OneRun, NEW c \in Callers, Call(c) \/ WakeUp(c) PROVE OneRun'
<1> USE DEF queueVars, watchVars, historyVars
<1>1. ASSUME NEW t \in Tasks, PostTask(c, t) PROVE OneRun'
  <2>1. CASE quit
    BY <1>1, <2>1 DEF PostTask, OneRun, MaskedOnlyWhilePending
  <2>2. CASE ~quit
    <3>1. TaskItem(t) \in Item /\ immediate' = Append(immediate, TaskItem(t))
      BY <1>1, <2>2 DEF PostTask, TaskItem, Item
    <3>2. /\ Len(immediate') = Len(immediate) + 1 /\ Len(immediate) \in Nat
          /\ \A i \in 1..Len(immediate) : immediate'[i] = immediate[i]
      BY <3>1, AppendProperties DEF IInv, TypeOK
    <3>3. \A f \in watches : CallbackPending(f) => CallbackPending(f)'
      BY <1>1, <3>2 DEF PostTask, CallbackPending, FdItem
    <3> QED BY <1>1, <3>3 DEF PostTask, OneRun, MaskedOnlyWhilePending
  <2> QED BY <2>1, <2>2
<1>2. ASSUME NEW d \in DTasks, NEW delay \in Delays, PostDelayedTask(c, d, delay) PROVE OneRun'
  BY <1>2 DEF PostDelayedTask, OneRun, MaskedOnlyWhilePending, CallbackPending
<1>3. ASSUME NEW d \in DTasks, CancelDelayedTask(c, d) PROVE OneRun'
  BY <1>3 DEF CancelDelayedTask, OneRun, MaskedOnlyWhilePending, CallbackPending
<1>4. ASSUME NEW f \in Fds, AddFileDescriptorWatch(c, f) \/ RemoveFileDescriptorWatch(c, f)
      PROVE  OneRun'
  BY <1>4 DEF AddFileDescriptorWatch, RemoveFileDescriptorWatch, OneRun,
              MaskedOnlyWhilePending
<1>5. CASE Quit(c)
  BY <1>5 DEF Quit, OneRun, MaskedOnlyWhilePending
<1>6. CASE WakeUp(c)
  BY <1>6 DEF WakeUp, OneRun, MaskedOnlyWhilePending, CallbackPending
<1> QED BY <1>1, <1>2, <1>3, <1>4, <1>5, <1>6 DEF Call

LEMMA OneRunStep == ASSUME MaxRuns <= 1, IInv, OneRun, [Next]_vars PROVE OneRun'
<1> USE DEF queueVars, watchVars, historyVars
<1>1. CASE Run
  <2>1. runs = 0 /\ runs' # 0
    BY <1>1, RunnerAssumption DEF Run, IInv, TypeOK
  <2> QED BY <1>1, <2>1 DEF Run, OneRun, MaskedOnlyWhilePending
<1>2. CASE Tick
  BY <1>2 DEF Tick, OneRun, MaskedOnlyWhilePending, CallbackPending
<1>3. ASSUME NEW f \in Fds, DataArrives(f) PROVE OneRun'
  BY <1>3 DEF DataArrives, OneRun, MaskedOnlyWhilePending, CallbackPending
<1>4. CASE UNCHANGED vars
  BY <1>4 DEF vars, OneRun, MaskedOnlyWhilePending, CallbackPending
<1> QED BY <1>1, <1>2, <1>3, <1>4, OneRunLoop, OneRunCall DEF Next

\* As long as Run() is called once, poll watches what the callers watch: every
\* watched descriptor is in the poll set, and one that poll ignores has a callback
\* coming that makes poll look at it again (unix_task_runner.cc:82-99, 128-173).
THEOREM PollSetServed == ASSUME MaxRuns <= 1 PROVE Spec => []PollSet
<1>1. Init => OneRun
  BY DEF Init, OneRun, MaskedOnlyWhilePending
<1>2. IInv /\ OneRun /\ [Next]_vars => OneRun'
  BY OneRunStep
<1>3. IInv /\ OneRun => PollSet
  BY DEF IInv, OneRun, PollSet
<1> QED BY <1>1, <1>2, <1>3, Invariance, PTL DEF Spec

-----------------------------------------------------------------------------
(* The runner implements Executor, however often it is run *)

\* The four places an unstarted task can be in.
InQueue(t)   == \E i \in 1..Len(immediate) : immediate[i] = TaskItem(t)
InDelayed(t) == \E r \in delayed : r.task = t
InHand(t)    == loop = "imm" /\ imm = {TaskItem(t)}
InDly(t)     == loop \in {"imm", "immRun", "dly"} /\ t \in dly

\* An unstarted task is in one place, once.
OnePlace ==
  /\ \A i, j \in 1..Len(immediate) : \A t \in Tasks :
       immediate[i] = TaskItem(t) /\ immediate[j] = TaskItem(t) => i = j
  /\ \A r, s \in delayed : r.task = s.task => r = s
  /\ \A t \in Tasks \cup DTasks :
       /\ InQueue(t) => ~InDelayed(t) /\ ~InHand(t) /\ ~InDly(t)
       /\ InDelayed(t) => ~InHand(t) /\ ~InDly(t)
       /\ InHand(t) => ~InDly(t)

Settled == started \cup refused \cup cancelled

\* The histories exclude each other, and what none of them holds still waits.
History ==
  /\ Settled \subseteq posted
  /\ started \cap refused = {} /\ started \cap cancelled = {} /\ refused \cap cancelled = {}

Queuing ==
  /\ OnePlace
  /\ History
  /\ \A t \in Tasks \cup DTasks : Waiting(t) <=> t \in posted \ Settled

LEMMA WaitingPlaces ==
  ASSUME NEW t PROVE Waiting(t) <=> InQueue(t) \/ InDelayed(t) \/ InHand(t) \/ InDly(t)
BY DEF Waiting, InQueue, InDelayed, InHand, InDly

\* Items of tasks and of descriptors are told apart.
LEMMA ItemsDiffer ==
  /\ \A t, u : TaskItem(t) = TaskItem(u) => t = u
  /\ \A t, f : TaskItem(t) # FdItem(f)
<1>1. \A t : TaskItem(t).id = t /\ TaskItem(t).kind = "task"
  BY DEF TaskItem
<1>2. \A f : FdItem(f).kind = "fd"
  BY DEF FdItem
<1> QED BY <1>1, <1>2

\* A step that leaves the queues and the histories alone, and does not take the
\* loop into or out of the places where it holds a task.
LEMMA SamePlaces ==
  ASSUME Queuing, UNCHANGED <<immediate, delayed>>,
         UNCHANGED <<posted, started, refused, cancelled>>,
         \A t \in Tasks \cup DTasks : (InHand(t)' <=> InHand(t)) /\ (InDly(t)' <=> InDly(t))
  PROVE  Queuing'
<1>1. \A t : (InQueue(t)' <=> InQueue(t)) /\ (InDelayed(t)' <=> InDelayed(t))
  BY DEF InQueue, InDelayed
<1>2. \A t : Waiting(t)' <=> InQueue(t)' \/ InDelayed(t)' \/ InHand(t)' \/ InDly(t)'
  BY DEF Waiting, InQueue, InDelayed, InHand, InDly
<1>3. \A t \in Tasks \cup DTasks : Waiting(t)' <=> Waiting(t)
  BY <1>1, <1>2, WaitingPlaces
<1>4. OnePlace'
  BY <1>1 DEF Queuing, OnePlace
<1>5. History' /\ Settled' = Settled
  BY DEF Queuing, History, Settled
<1> QED BY <1>3, <1>4, <1>5 DEF Queuing

\* Append puts one item at the end.
LEMMA Appended ==
  ASSUME IInv, NEW x \in Item, immediate' = Append(immediate, x)
  PROVE  /\ \A i \in 1..Len(immediate') :
              immediate'[i] = IF i \in 1..Len(immediate) THEN immediate[i] ELSE x
         /\ Len(immediate') = Len(immediate) + 1 /\ Len(immediate) \in Nat
<1>1. immediate \in Seq(Item)
  BY DEF IInv, TypeOK
<1>2. /\ Len(immediate') = Len(immediate) + 1 /\ Len(immediate) \in Nat
      /\ immediate'[Len(immediate')] = x
      /\ \A i \in 1..Len(immediate) : immediate'[i] = immediate[i]
  BY <1>1, AppendProperties
<1> QED BY <1>2

\* A watch callback in the queue is no task's.
LEMMA PostWatchQueuing ==
  ASSUME IInv, Queuing, NEW f \in revents, PostWatch(f) PROVE Queuing'
<1> USE DEF PostWatch, historyVars
<1>1. \A t : (InHand(t)' <=> InHand(t)) /\ (InDly(t)' <=> InDly(t))
  BY DEF InHand, InDly
<1>2. CASE immediate' = immediate
  BY <1>1, <1>2, SamePlaces
<1>3. CASE immediate' # immediate
  <2>1. FdItem(f) \in Item /\ immediate' = Append(immediate, FdItem(f))
    BY <1>3 DEF IInv, TypeOK, FdItem, Item
  <2>2. /\ \A i \in 1..Len(immediate') :
             immediate'[i] = IF i \in 1..Len(immediate) THEN immediate[i] ELSE FdItem(f)
        /\ Len(immediate') = Len(immediate) + 1 /\ Len(immediate) \in Nat
    BY <2>1, Appended
  <2>3. \A t, i : i \in 1..Len(immediate') /\ immediate'[i] = TaskItem(t)
                    <=> i \in 1..Len(immediate) /\ immediate[i] = TaskItem(t)
    BY <2>2, ItemsDiffer
  <2>4. \A t : InQueue(t)' <=> InQueue(t)
    BY <2>3 DEF InQueue
  <2>5. \A t : InDelayed(t)' <=> InDelayed(t)
    BY DEF InDelayed
  <2>6. \A t : Waiting(t)' <=> InQueue(t)' \/ InDelayed(t)' \/ InHand(t)' \/ InDly(t)'
    BY DEF Waiting, InQueue, InDelayed, InHand, InDly
  <2>7. \A t : Waiting(t)' <=> Waiting(t)
    BY <1>1, <2>4, <2>5, <2>6, WaitingPlaces
  <2>8. OnePlace'
    <3>1. \A i, j \in 1..Len(immediate') : \A t \in Tasks :
            immediate'[i] = TaskItem(t) /\ immediate'[j] = TaskItem(t) => i = j
      <4> HIDE DEF PostWatch
      <4>1. \A i, j \in 1..Len(immediate) : \A t \in Tasks :
              immediate[i] = TaskItem(t) /\ immediate[j] = TaskItem(t) => i = j
        BY DEF Queuing, OnePlace
      <4> QED BY <2>3, <4>1, Zenon
    <3>2. \A r, s \in delayed' : r.task = s.task => r = s
      BY DEF Queuing, OnePlace
    <3> QED BY <1>1, <2>4, <2>5, <3>1, <3>2, Zenon DEF Queuing, OnePlace
  <2> QED BY <2>7, <2>8 DEF Queuing, History, Settled
<1> QED BY <1>2, <1>3

\* A new task enters the queue, or is refused.
LEMMA PostTaskQueuing ==
  ASSUME IInv, Queuing, NEW c \in Callers, NEW t \in Tasks, PostTask(c, t) PROVE Queuing'
<1> USE DEF PostTask
<1>1. /\ \A u : (InHand(u)' <=> InHand(u)) /\ (InDly(u)' <=> InDly(u))
      /\ \A u : InDelayed(u)' <=> InDelayed(u)
  BY DEF InHand, InDly, InDelayed
<1>2. \A u : Waiting(u)' <=> InQueue(u)' \/ InDelayed(u)' \/ InHand(u)' \/ InDly(u)'
  BY DEF Waiting, InQueue, InDelayed, InHand, InDly
<1>3. ~Waiting(t) /\ t \notin Settled
  BY DEF Queuing, History
<1>4. CASE quit
  <2>1. \A u : Waiting(u)' <=> Waiting(u)
    BY <1>1, <1>2, <1>4, WaitingPlaces DEF InQueue
  <2>2. Settled' = Settled \cup {t} /\ posted' = posted \cup {t} /\ History'
    BY <1>3, <1>4 DEF Settled, Queuing, History
  <2>3. OnePlace'
    BY <1>1, <1>4 DEF Queuing, OnePlace, InQueue
  <2> QED BY <1>3, <2>1, <2>2, <2>3 DEF Queuing
<1>5. CASE ~quit
  <2>1. TaskItem(t) \in Item /\ immediate' = Append(immediate, TaskItem(t))
    BY <1>5 DEF TaskItem, Item
  <2>2. /\ \A i \in 1..Len(immediate') :
             immediate'[i] = IF i \in 1..Len(immediate) THEN immediate[i] ELSE TaskItem(t)
        /\ Len(immediate') = Len(immediate) + 1 /\ Len(immediate) \in Nat
    BY <2>1, Appended
  <2>3. \A u : u # t => (InQueue(u)' <=> InQueue(u))
    BY <2>2, ItemsDiffer DEF InQueue
  <2>4. InQueue(t)'
    BY <2>2 DEF InQueue
  <2>5. \A u \in Tasks \cup DTasks : Waiting(u)' <=> Waiting(u) \/ u = t
    BY <1>1, <1>2, <2>3, <2>4, WaitingPlaces
  <2>6. Settled' = Settled /\ posted' = posted \cup {t} /\ History'
    BY <1>5 DEF Settled, Queuing, History
  <2>7. \A i, j \in 1..Len(immediate') : \A u \in Tasks :
          immediate'[i] = TaskItem(u) /\ immediate'[j] = TaskItem(u) => i = j
    <3> SUFFICES ASSUME NEW i \in 1..Len(immediate'), NEW j \in 1..Len(immediate'),
                        NEW u \in Tasks, immediate'[i] = TaskItem(u),
                        immediate'[j] = TaskItem(u)
                 PROVE  i = j
      OBVIOUS
    <3>1. CASE u = t
      <4>1. i \notin 1..Len(immediate) /\ j \notin 1..Len(immediate)
        BY <1>3, <2>2, <3>1, WaitingPlaces DEF InQueue
      <4> QED BY <2>2, <4>1
    <3>2. CASE u # t
      <4>1. i \in 1..Len(immediate) /\ j \in 1..Len(immediate)
        BY <2>2, <3>2, ItemsDiffer
      <4> QED BY <2>2, <4>1 DEF Queuing, OnePlace
    <3> QED BY <3>1, <3>2
  <2>8. OnePlace'
    <3>1. ~InDelayed(t) /\ ~InHand(t) /\ ~InDly(t)
      BY <1>3, WaitingPlaces
    <3>2. \A r, s \in delayed' : r.task = s.task => r = s
      BY DEF Queuing, OnePlace
    <3>3. \A u \in Tasks \cup DTasks :
            /\ InQueue(u) => ~InDelayed(u) /\ ~InHand(u) /\ ~InDly(u)
            /\ InDelayed(u) => ~InHand(u) /\ ~InDly(u)
            /\ InHand(u) => ~InDly(u)
      BY DEF Queuing, OnePlace
    <3> QED BY <1>1, <2>3, <2>7, <3>1, <3>2, <3>3, Zenon DEF OnePlace
  <2> QED BY <1>3, <2>5, <2>6, <2>8 DEF Queuing
<1> QED BY <1>4, <1>5

\* A delayed task enters its slot, or leaves it when it is cancelled.
LEMMA DelayedQueuing ==
  ASSUME IInv, Queuing, NEW c \in Callers, NEW d \in DTasks,
         \/ \E delay \in Delays : PostDelayedTask(c, d, delay)
         \/ CancelDelayedTask(c, d)
  PROVE  Queuing'
<1>1. \A u : (InQueue(u)' <=> InQueue(u)) /\ (InHand(u)' <=> InHand(u)) /\ (InDly(u)' <=> InDly(u))
  BY DEF PostDelayedTask, CancelDelayedTask, InQueue, InHand, InDly
<1>2. \A u : Waiting(u)' <=> InQueue(u)' \/ InDelayed(u)' \/ InHand(u)' \/ InDly(u)'
  BY DEF Waiting, InQueue, InDelayed, InHand, InDly
<1>3. \A i, j \in 1..Len(immediate') : \A u \in Tasks :
        immediate'[i] = TaskItem(u) /\ immediate'[j] = TaskItem(u) => i = j
  BY DEF Queuing, OnePlace, PostDelayedTask, CancelDelayedTask
<1>4. \A u \in Tasks \cup DTasks :
        /\ InQueue(u) => ~InDelayed(u) /\ ~InHand(u) /\ ~InDly(u)
        /\ InDelayed(u) => ~InHand(u) /\ ~InDly(u)
        /\ InHand(u) => ~InDly(u)
  BY DEF Queuing, OnePlace
<1>5. ASSUME NEW delay \in Delays, PostDelayedTask(c, d, delay) PROVE Queuing'
  <2> USE <1>5 DEF PostDelayedTask
  <2>1. ~Waiting(d) /\ d \notin Settled /\ ~InQueue(d) /\ ~InDelayed(d) /\ ~InHand(d) /\ ~InDly(d)
    BY WaitingPlaces DEF Queuing, History
  <2>2. \A u : InDelayed(u)' <=> InDelayed(u) \/ u = d
    <3> DEFINE slot == [task |-> d, due |-> now + delay, order |-> inserted]
    <3>1. delayed' = delayed \cup {slot} /\ slot.task = d
      OBVIOUS
    <3> HIDE DEF slot, PostDelayedTask
    <3> QED BY <3>1 DEF InDelayed
  <2>3. \A u \in Tasks \cup DTasks : Waiting(u)' <=> Waiting(u) \/ u = d
    BY <1>1, <1>2, <2>2, WaitingPlaces
  <2>4. \A r, s \in delayed' : r.task = s.task => r = s
    BY <2>1 DEF InDelayed, Queuing, OnePlace
  <2>5. OnePlace'
    BY <1>1, <1>3, <1>4, <2>1, <2>2, <2>4, Zenon DEF OnePlace
  <2>6. Settled' = Settled /\ posted' = posted \cup {d} /\ History'
    BY DEF Settled, Queuing, History
  <2> QED BY <2>1, <2>3, <2>5, <2>6 DEF Queuing
<1>6. CASE CancelDelayedTask(c, d)
  <2> USE <1>6 DEF CancelDelayedTask
  <2>1. \A u : InDelayed(u)' <=> InDelayed(u) /\ u # d
    BY DEF InDelayed
  <2>2. \A r, s \in delayed' : r.task = s.task => r = s
    BY DEF Queuing, OnePlace
  <2>3. OnePlace'
    BY <1>1, <1>3, <1>4, <2>1, <2>2, Zenon DEF OnePlace
  <2>4. CASE InDelayed(d)
    <3>1. Waiting(d) /\ d \in posted \ Settled /\ ~InQueue(d) /\ ~InHand(d) /\ ~InDly(d)
      BY <1>4, <2>4, WaitingPlaces DEF Queuing
    <3>2. cancelled' = cancelled \cup {d}
      BY <2>4 DEF InDelayed
    <3>3. Settled' = Settled \cup {d} /\ History' /\ posted' = posted
      BY <3>1, <3>2 DEF Settled, Queuing, History
    <3>4. \A u \in Tasks \cup DTasks : Waiting(u)' <=> Waiting(u) /\ u # d
      BY <1>1, <1>2, <2>1, <3>1, WaitingPlaces
    <3> QED BY <2>3, <3>1, <3>3, <3>4 DEF Queuing
  <2>5. CASE ~InDelayed(d)
    <3>1. delayed' = delayed /\ cancelled' = cancelled
      BY <2>5 DEF InDelayed
    <3> QED BY <1>1, <3>1, SamePlaces
  <2> QED BY <2>4, <2>5
<1> QED BY <1>5, <1>6

\* One section takes a task of each queue into the loop's hands.
LEMMA PopQueuing == ASSUME IInv, Queuing, Pop PROVE Queuing'
<1> USE DEF Pop, historyVars
<1>1. PICK due \in SUBSET delayed : dly' = {r.task : r \in due} /\ delayed' = delayed \ due
  BY DEF WithoutDelayed, FirstDelayed
<1>2. \A u : (InDelayed(u)' \/ InDly(u)' <=> InDelayed(u)) /\ ~(InDelayed(u)' /\ InDly(u)')
  BY <1>1 DEF InDelayed, InDly, Queuing, OnePlace
<1>3. \A u : ~InHand(u) /\ ~InDly(u)
  BY DEF InHand, InDly
<1>4. /\ \A u : (InQueue(u)' \/ InHand(u)' <=> InQueue(u))
      /\ \A u \in Tasks : ~(InQueue(u)' /\ InHand(u)')
      /\ \A i, j \in 1..Len(immediate') : \A u \in Tasks :
           immediate'[i] = TaskItem(u) /\ immediate'[j] = TaskItem(u) => i = j
  <2>1. CASE immediate = <<>>
    BY <2>1 DEF InQueue, InHand, Queuing, OnePlace
  <2>2. CASE immediate # <<>>
    <3>1. imm' = {Head(immediate)} /\ immediate' = Tail(immediate) /\ immediate \in Seq(Item)
      BY <2>2 DEF IInv, TypeOK
    <3>2. /\ Head(immediate) = immediate[1]
          /\ Len(immediate') = Len(immediate) - 1 /\ Len(immediate) \in Nat \ {0}
          /\ \A j \in 1..Len(immediate') : immediate'[j] = immediate[j + 1]
      BY <2>2, <3>1
    <3>3. \A u : InHand(u)' <=> immediate[1] = TaskItem(u)
      BY <3>1, <3>2 DEF InHand
    <3>4. \A u : InQueue(u)' <=> \E i \in 2..Len(immediate) : immediate[i] = TaskItem(u)
      <4>1. ASSUME NEW u, InQueue(u)'
            PROVE  \E i \in 2..Len(immediate) : immediate[i] = TaskItem(u)
        BY <3>2, <4>1 DEF InQueue
      <4>2. ASSUME NEW u, NEW i \in 2..Len(immediate), immediate[i] = TaskItem(u)
            PROVE  InQueue(u)'
        <5>1. i - 1 \in 1..Len(immediate') /\ immediate'[i - 1] = immediate[i]
          BY <3>2
        <5> QED BY <4>2, <5>1 DEF InQueue
      <4> QED BY <4>1, <4>2
    <3>5. \A u : InQueue(u) <=> (immediate[1] = TaskItem(u)
                                 \/ \E i \in 2..Len(immediate) : immediate[i] = TaskItem(u))
      BY <3>2 DEF InQueue
    <3>6. \A u \in Tasks : ~(InQueue(u)' /\ InHand(u)')
      BY <3>2, <3>3, <3>4 DEF Queuing, OnePlace
    <3>7. \A i, j \in 1..Len(immediate') : \A u \in Tasks :
            immediate'[i] = TaskItem(u) /\ immediate'[j] = TaskItem(u) => i = j
      BY <3>2 DEF Queuing, OnePlace
    <3> QED BY <3>3, <3>4, <3>5, <3>6, <3>7
  <2> QED BY <2>1, <2>2
<1>5. \A u : Waiting(u)' <=> InQueue(u)' \/ InDelayed(u)' \/ InHand(u)' \/ InDly(u)'
  BY DEF Waiting, InQueue, InDelayed, InHand, InDly
<1>6. \A u : Waiting(u)' <=> Waiting(u)
  BY <1>2, <1>3, <1>4, <1>5, WaitingPlaces
<1>7. \A u : InQueue(u)' /\ InHand(u)' => FALSE
  <2>1. \A u : InHand(u)' => u \in Tasks
    <3>1. \A x \in Item : x.kind = "task" => x.id \in Tasks
      BY DEF Item
    <3>2. \A i \in 1..Len(immediate) : immediate[i] \in Item
      BY DEF IInv, TypeOK
    <3>3. \A u : TaskItem(u).kind = "task" /\ TaskItem(u).id = u
      BY DEF TaskItem
    <3>4. \A u : InHand(u)' => InQueue(u)
      BY <1>4
    <3> QED BY <3>1, <3>2, <3>3, <3>4 DEF InQueue
  <2> QED BY <1>4, <2>1
<1>8. OnePlace'
  <2>1. \A u \in Tasks \cup DTasks : InQueue(u) => ~InDelayed(u)
    BY DEF Queuing, OnePlace
  <2>2. \A r, s \in delayed' : r.task = s.task => r = s
    BY <1>1 DEF Queuing, OnePlace
  <2> QED BY <1>2, <1>4, <1>7, <2>1, <2>2, Zenon DEF OnePlace
<1>9. History' /\ Settled' = Settled /\ posted' = posted
  BY DEF History, Queuing, Settled
<1> QED BY <1>6, <1>8, <1>9 DEF Queuing

\* A task in the loop's hands is started, and is nowhere else.
LEMMA StartQueuing == ASSUME IInv, Queuing, StartTask \/ StartDelayed PROVE Queuing'
<1> USE DEF StartTask, StartDelayed, queueVars
<1>1. PICK t \in Tasks \cup DTasks :
        /\ started' = started \cup {t}
        /\ \/ StartTask /\ t \in Tasks /\ imm = {TaskItem(t)}
           \/ StartDelayed /\ dly = {t}
  OBVIOUS
<1>2. \A u : (InQueue(u)' <=> InQueue(u)) /\ (InDelayed(u)' <=> InDelayed(u))
  BY DEF InQueue, InDelayed
<1>3. /\ \A u : InHand(u)' \/ InDly(u)' <=> (InHand(u) \/ InDly(u)) /\ u # t
      /\ \A u : (InHand(u)' => InHand(u)) /\ (InDly(u)' => InDly(u))
      /\ InHand(t) \/ InDly(t)
  <2>1. CASE StartTask /\ t \in Tasks /\ imm = {TaskItem(t)}
    <3>1. InHand(t) /\ \A u : InHand(u) <=> u = t
      BY <2>1, ItemsDiffer DEF InHand
    <3>2. \A u : ~InHand(u)' /\ (InDly(u)' <=> InDly(u))
      BY <2>1 DEF InHand, InDly
    <3>3. ~InDly(t)
      BY <3>1 DEF Queuing, OnePlace
    <3> QED BY <3>1, <3>2, <3>3
  <2>2. CASE StartDelayed /\ dly = {t}
    BY <2>2 DEF InHand, InDly
  <2> QED BY <1>1, <2>1, <2>2
<1>4. \A u : Waiting(u)' <=> InQueue(u)' \/ InDelayed(u)' \/ InHand(u)' \/ InDly(u)'
  BY DEF Waiting, InQueue, InDelayed, InHand, InDly
<1>5. Waiting(t) /\ ~InQueue(t) /\ ~InDelayed(t)
  BY <1>3, WaitingPlaces DEF Queuing, OnePlace
<1>6. \A u : Waiting(u)' <=> Waiting(u) /\ u # t
  BY <1>2, <1>3, <1>4, <1>5, WaitingPlaces
<1>7. t \in posted \ Settled
  BY <1>5 DEF Queuing
<1>8. UNCHANGED <<posted, refused, cancelled, immediate, delayed>>
  OBVIOUS
<1>9. History' /\ Settled' = Settled \cup {t} /\ posted' = posted
  BY <1>1, <1>7, <1>8 DEF Queuing, History, Settled
<1>10. OnePlace'
  <2>1. /\ \A i, j \in 1..Len(immediate') : \A u \in Tasks :
             immediate'[i] = TaskItem(u) /\ immediate'[j] = TaskItem(u) => i = j
        /\ \A r, s \in delayed' : r.task = s.task => r = s
    BY <1>8 DEF Queuing, OnePlace
  <2>2. \A u \in Tasks \cup DTasks :
        /\ InQueue(u) => ~InDelayed(u) /\ ~InHand(u) /\ ~InDly(u)
        /\ InDelayed(u) => ~InHand(u) /\ ~InDly(u)
        /\ InHand(u) => ~InDly(u)
    BY DEF Queuing, OnePlace
  <2> QED BY <1>2, <1>3, <2>1, <2>2, Zenon DEF OnePlace
<1> QED BY <1>6, <1>9, <1>10 DEF Queuing

\* Every other step of the loop leaves each waiting task where it is.
LEMMA LoopQueuing == ASSUME IInv, Queuing, LoopStep PROVE Queuing'
<1> USE DEF queueVars, watchVars, historyVars
<1>1. CASE Top \/ Poll \/ PostDone
  BY <1>1, SamePlaces DEF Top, Poll, PostDone, InHand, InDly
<1>2. CASE StartWatch
  <2>1. \A t : ~InHand(t)
    BY <1>2, ItemsDiffer DEF StartWatch, InHand
  <2>2. UNCHANGED <<immediate, delayed>> /\ UNCHANGED <<posted, started, refused, cancelled>>
    BY <1>2 DEF StartWatch
  <2>3. \A t : ~InHand(t)' /\ (InDly(t)' <=> InDly(t))
    BY <1>2 DEF StartWatch, InHand, InDly
  <2> QED BY <2>1, <2>2, <2>3, SamePlaces
<1>3. CASE FinishImmediate \/ NoImmediate
  BY <1>3, SamePlaces DEF FinishImmediate, NoImmediate, InHand, InDly
<1>4. CASE FinishDelayed
  BY <1>4, SamePlaces DEF FinishDelayed, InHand, InDly
<1> QED BY <1>1, <1>2, <1>3, <1>4, PostWatchQueuing, PopQueuing, StartQueuing DEF LoopStep

LEMMA StepQueuing == ASSUME IInv, Queuing, [Next]_vars PROVE Queuing'
<1> USE DEF queueVars, watchVars, historyVars
<1>1. ASSUME NEW c \in Callers, Call(c) \/ WakeUp(c) PROVE Queuing'
  <2>1. ASSUME NEW f \in Fds, \/ AddFileDescriptorWatch(c, f)
                              \/ RemoveFileDescriptorWatch(c, f)
        PROVE  Queuing'
    BY <2>1, SamePlaces DEF AddFileDescriptorWatch, RemoveFileDescriptorWatch, InHand, InDly
  <2>2. CASE Quit(c) \/ WakeUp(c)
    BY <2>2, SamePlaces DEF Quit, WakeUp, InHand, InDly
  <2> QED BY <1>1, <2>1, <2>2, PostTaskQueuing, DelayedQueuing DEF Call
<1>2. CASE Run
  BY <1>2, SamePlaces DEF Run, InHand, InDly
<1>3. CASE Tick \/ (\E f \in Fds : DataArrives(f)) \/ UNCHANGED vars
  BY <1>3, SamePlaces DEF Tick, DataArrives, vars, InHand, InDly
<1> QED BY <1>1, <1>2, <1>3, LoopQueuing DEF Next

\* The phase of a task when the histories and the places agree: "again" and the
\* second "dropped" of PhaseOf never show.
SimplePhase(t) ==
  IF t \notin posted THEN "new"
  ELSE IF t \in refused THEN "dropped"
  ELSE IF t \in cancelled THEN "cancelled"
  ELSE IF t \in started THEN "started"
  ELSE "pending"

LEMMA PhaseIsSimple ==
  ASSUME Queuing, NEW t \in Tasks \cup DTasks PROVE PhaseOf(t) = SimplePhase(t)
<1>1. Waiting(t) <=> t \in posted \ Settled
  BY DEF Queuing
<1> QED BY <1>1 DEF PhaseOf, SimplePhase, Settled

Phases == [t \in Tasks \cup DTasks |-> SimplePhase(t)]

\* "phase" of Executor, as Abstract maps it.
Mapped == [t \in Tasks \cup DTasks |-> PhaseOf(t)]

LEMMA PhasesMapped == Queuing => Mapped = Phases
  BY PhaseIsSimple DEF Mapped, Phases

\* A step that moves one task through the phases.
LEMMA OneMove ==
  ASSUME Queuing, Queuing', NEW t \in Tasks \cup DTasks, NEW from, NEW to,
         SimplePhase(t) \in from, SimplePhase(t)' = to, quit' = quit,
         \A u \in (Tasks \cup DTasks) \ {t} : SimplePhase(u)' = SimplePhase(u)
  PROVE  Abstract!Move(t, from, to)
<1>1. Phases[t] \in from /\ Phases' = [Phases EXCEPT ![t] = to]
  BY DEF Phases
<1>2. Mapped = Phases /\ (Mapped = Phases)'
  BY PhasesMapped, PTL
<1>3. Mapped[t] \in from /\ Mapped' = [Mapped EXCEPT ![t] = to]
  BY <1>1, <1>2
<1> QED BY <1>3 DEF Abstract!Move, Mapped

\* A step that leaves every task in its phase.
LEMMA NoMove ==
  ASSUME Queuing, Queuing', UNCHANGED <<posted, started, refused, cancelled>>
  PROVE  Mapped' = Mapped
<1>1. Phases' = Phases
  BY DEF Phases, SimplePhase
<1>2. Mapped = Phases /\ (Mapped = Phases)'
  BY PhasesMapped, PTL
<1> QED BY <1>1, <1>2

\* The loop starts tasks; its other steps show nothing.
LEMMA LoopMoves ==
  ASSUME IInv, Queuing, Queuing', LoopStep
  PROVE  Abstract!Next \/ (Mapped' = Mapped /\ quit' = quit)
<1> USE DEF queueVars, watchVars, historyVars
<1>1. CASE StartTask \/ StartDelayed
  <2>1. PICK t \in Tasks \cup DTasks :
          started' = started \cup {t} /\ (InHand(t) \/ InDly(t))
    BY <1>1 DEF StartTask, StartDelayed, InHand, InDly
  <2>2. t \in posted \ Settled
    BY <2>1, WaitingPlaces DEF Queuing
  <2>3. UNCHANGED <<posted, refused, cancelled, quit>>
    BY <1>1 DEF StartTask, StartDelayed
  <2>4. /\ SimplePhase(t) = "pending" /\ SimplePhase(t)' = "started"
        /\ \A u \in (Tasks \cup DTasks) \ {t} : SimplePhase(u)' = SimplePhase(u)
    BY <2>1, <2>2, <2>3 DEF SimplePhase, Settled
  <2>5. Abstract!Move(t, {"pending"}, "started")
    BY <2>3, <2>4, OneMove
  <2> QED BY <2>5 DEF Abstract!Start, Abstract!Next
<1>2. CASE ~(StartTask \/ StartDelayed)
  <2>1. UNCHANGED <<posted, started, refused, cancelled, quit>>
    BY <1>2 DEF LoopStep, Top, Poll, PostWatch, PostDone, Pop, StartWatch, FinishImmediate,
                NoImmediate, FinishDelayed
  <2> QED BY <2>1, NoMove
<1> QED BY <1>1, <1>2

\* PostTask accepts or drops a new task.
LEMMA PostTaskMoves ==
  ASSUME Queuing, Queuing', NEW c \in Callers, NEW t \in Tasks, PostTask(c, t)
  PROVE  Abstract!Next
<1> USE DEF PostTask
<1>1. t \notin Settled /\ SimplePhase(t) = "new"
  BY DEF Queuing, History, SimplePhase
<1>2. \A u \in (Tasks \cup DTasks) \ {t} : SimplePhase(u)' = SimplePhase(u)
  BY DEF SimplePhase
<1>3. CASE quit
  <2>1. SimplePhase(t)' = "dropped"
    BY <1>3 DEF SimplePhase
  <2>2. Abstract!Move(t, {"new", "pending"}, "dropped")
    BY <1>1, <1>2, <2>1, OneMove
  <2> QED BY <1>3, <2>2 DEF Abstract!Drop, Abstract!Next
<1>4. CASE ~quit
  <2>1. SimplePhase(t)' = "pending"
    BY <1>1, <1>4 DEF SimplePhase, Settled
  <2>2. Abstract!Move(t, {"new"}, "pending")
    BY <1>1, <1>2, <2>1, OneMove
  <2> QED BY <2>2 DEF Abstract!Accept, Abstract!Next
<1> QED BY <1>3, <1>4

\* PostDelayedTask accepts, CancelDelayedTask cancels what still waits in its slot.
LEMMA DelayedMoves ==
  ASSUME Queuing, Queuing', NEW c \in Callers, NEW d \in DTasks,
         \/ \E delay \in Delays : PostDelayedTask(c, d, delay)
         \/ CancelDelayedTask(c, d)
  PROVE  Abstract!Next \/ (Mapped' = Mapped /\ quit' = quit)
<1>1. ASSUME NEW delay \in Delays, PostDelayedTask(c, d, delay) PROVE Abstract!Next
  <2> USE <1>1 DEF PostDelayedTask
  <2>1. d \notin Settled
    BY DEF Queuing, History
  <2>2. /\ SimplePhase(d) = "new" /\ SimplePhase(d)' = "pending"
        /\ \A u \in (Tasks \cup DTasks) \ {d} : SimplePhase(u)' = SimplePhase(u)
    BY <2>1 DEF SimplePhase, Settled
  <2>3. Abstract!Move(d, {"new"}, "pending")
    BY <2>2, OneMove
  <2> QED BY <2>3 DEF Abstract!Accept, Abstract!Next
<1>2. CASE CancelDelayedTask(c, d)
  <2> USE <1>2 DEF CancelDelayedTask
  <2>1. CASE InDelayed(d)
    <3>1. d \in posted \ Settled /\ cancelled' = cancelled \cup {d}
      BY <2>1, WaitingPlaces DEF Queuing, InDelayed
    <3>2. /\ SimplePhase(d) = "pending" /\ SimplePhase(d)' = "cancelled"
          /\ \A u \in (Tasks \cup DTasks) \ {d} : SimplePhase(u)' = SimplePhase(u)
      BY <3>1 DEF SimplePhase, Settled
    <3>3. Abstract!Move(d, {"pending"}, "cancelled")
      BY <3>2, OneMove
    <3> QED BY <3>3 DEF Abstract!Cancel, Abstract!Next
  <2>2. CASE ~InDelayed(d)
    <3>1. cancelled' = cancelled
      BY <2>2 DEF InDelayed
    <3> QED BY <3>1, NoMove
  <2> QED BY <2>1, <2>2
<1> QED BY <1>1, <1>2

\* A task posted to the runner starts at most once, a cancelled one never, and only
\* a runner told to quit drops tasks: every step of the runner is a step of Executor
\* or changes nothing there (unix_task_runner.cc:101-126, 185-237).
THEOREM Implements == Spec => ImplementsExecutor
<1>1. Init => Abstract!Init
  <2> SUFFICES ASSUME Init PROVE Abstract!Init
    OBVIOUS
  <2>1. \A t \in Tasks \cup DTasks : PhaseOf(t) = "new"
    BY DEF Init, PhaseOf
  <2> QED BY <2>1 DEF Init, Abstract!Init
<1>2. Init => Queuing
  <2> SUFFICES ASSUME Init PROVE Queuing
    OBVIOUS
  <2>1. \A t : ~InQueue(t) /\ ~InDelayed(t) /\ ~InHand(t) /\ ~InDly(t)
    BY DEF Init, InQueue, InDelayed, InHand, InDly
  <2> QED BY <2>1, WaitingPlaces DEF Init, Queuing, OnePlace, History, Settled
<1>3. IInv /\ Queuing /\ [Next]_vars => Queuing'
  BY StepQueuing
<1>4. IInv /\ Queuing /\ Queuing' /\ [Next]_vars
        => [Abstract!Next]_<<[t \in Tasks \cup DTasks |-> PhaseOf(t)], quit>>
  <2> SUFFICES ASSUME IInv, Queuing, Queuing', [Next]_vars
               PROVE  Abstract!Next \/ (Mapped' = Mapped /\ quit' = quit)
    BY DEF Mapped
  <2> USE DEF historyVars
  <2>1. ASSUME NEW c \in Callers, Call(c) \/ WakeUp(c)
        PROVE  Abstract!Next \/ (Mapped' = Mapped /\ quit' = quit)
    <3>1. CASE Quit(c)
      <4>1. Mapped' = Mapped /\ quit' \in BOOLEAN
        BY <3>1, NoMove DEF Quit
      <4> QED BY <4>1 DEF Abstract!Next, Abstract!SetStopped, Mapped
    <3>2. CASE \/ WakeUp(c)
               \/ \E f \in Fds : \/ AddFileDescriptorWatch(c, f)
                                 \/ RemoveFileDescriptorWatch(c, f)
      BY <3>2, NoMove DEF WakeUp, AddFileDescriptorWatch, RemoveFileDescriptorWatch
    <3> QED BY <2>1, <3>1, <3>2, PostTaskMoves, DelayedMoves DEF Call
  <2>2. CASE Run
    <3>1. Mapped' = Mapped /\ quit' \in BOOLEAN
      BY <2>2, NoMove DEF Run
    <3> QED BY <3>1 DEF Abstract!Next, Abstract!SetStopped, Mapped
  <2>3. CASE Tick \/ (\E f \in Fds : DataArrives(f)) \/ UNCHANGED vars
    BY <2>3, NoMove DEF Tick, DataArrives, vars
  <2> QED BY <2>1, <2>2, <2>3, LoopMoves DEF Next
<1> QED BY <1>1, <1>2, <1>3, <1>4, Invariance, PTL DEF Spec, ImplementsExecutor, Abstract!Spec
=============================================================================
