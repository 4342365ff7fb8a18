---------------------------- MODULE CronScheduler ----------------------------
(***************************************************************************)
(* CronScheduler: a table of tasks, a heap of pointers into it ordered by  *)
(* nextRun, and a thread that runs the earliest one without the lock. Any  *)
(* thread, a running task's too, adds and cancels tasks, which builds the  *)
(* heap anew. The heap is the vector of std::priority_queue: the thread    *)
(* changes nextRun under it, after which it need not be a heap any more.   *)
(* Tasks of every() have a run each interval; for those of cron()          *)
(* calcNextRunTime finds the next instant that matches a set of values per *)
(* field, on a calendar with the parts of the real one, leap years and     *)
(* weeks that drift too, and sizes that are parameters.                    *)
(***************************************************************************)
EXTENDS Integers, Sequences, SequencesExt, FiniteSetsExt

CONSTANTS
  Tasks,     \* task ids: nextId_ never repeats one
  Interval,  \* Interval[t]: every(Interval[t], fn)
  MaxTime,   \* bound: the last instant of a behaviour
  MaxStarts, \* bound: calls of start
  Minute, Hour, Day,  \* seconds of a minute, minutes of an hour, hours of a day
  MonthDays,          \* MonthDays[m]: days of month m
  LeapMonth, LeapEvery, \* the month that has a day more in a leap year, and how often one is
  Week,               \* days of a week
  Offset,             \* tzOffsetMinutes_, in seconds
  MaxJumps,           \* the bound of calcNextRunTime's loop
  Fallback            \* what is added when it is reached

VARIABLES
  now,       \* Clock::now()
  running,   \* running_
  state,     \* state[t]: not in tasks_, on its way there, active or not
  nextRun,   \* nextRun[t]
  queue,     \* taskQueue_: the vector of the heap, the top first
  thread,    \* worker_: where schedulerThread is
  current,   \* the task whose fn runs, as a set
  checked,   \* the thread's local now; while it waits, the end of the wait
  owner,     \* the thread in start or stop
  begun,     \* history: begun[t]: when t last began, or was added
  starts

tableVars == <<state, nextRun, queue>>
vars == <<now, running, tableVars, thread, current, checked, owner, begun, starts>>

TaskState == {"none", "adding", "active", "cancelled"}
Thread    == {"none", "loop", "waiting", "running", "ended"}
Active    == {t \in Tasks : state[t] = "active"}

-----------------------------------------------------------------------------
(* std::push_heap and std::pop_heap, as libstdc++ does them *)

RECURSIVE Raise(_, _, _), Sink(_, _, _, _)

Raise(q, k, next) ==
  IF k > 1 /\ next[q[k \div 2]] > next[q[k]]
    THEN Raise([q EXCEPT ![k] = q[k \div 2], ![k \div 2] = q[k]], k \div 2, next)
    ELSE q

Push(q, t, next) == Raise(Append(q, t), Len(q) + 1, next)

\* The hole at k goes down along the earlier children, then t rises from there.
Sink(q, k, t, next) ==
  IF 2 * k > Len(q) THEN Raise([q EXCEPT ![k] = t], k, next)
  ELSE LET child == IF 2 * k = Len(q) \/ next[q[2 * k + 1]] > next[q[2 * k]]
                    THEN 2 * k ELSE 2 * k + 1
       IN  Sink([q EXCEPT ![k] = q[child]], child, t, next)

Pop(q, next) == IF Len(q) = 1 THEN <<>> ELSE Sink(Front(q), 1, Last(q), next)

\* rebuildQueue goes through an unordered map.
Rebuilt(tasks, next) ==
  {FoldLeft(LAMBDA q, t : Push(q, t, next), <<>>, order) : order \in SetToSeqs(tasks)}

-----------------------------------------------------------------------------
(* The calendar of cron(): gmtime_r and timegm, in seconds *)

Fields == {"sec", "min", "hour", "mday", "mon", "wday"}

DaySeconds == Day * Hour * Minute
Months     == DOMAIN MonthDays

MonthLength(year, mon) ==
  MonthDays[mon] + (IF mon = LeapMonth /\ year % LeapEvery = 0 THEN 1 ELSE 0)
DaysBefore(year, mon) ==
  MapThenSumSet(LAMBDA m : MonthLength(year, m), {m \in Months : m < mon})
CommonYear == MapThenSumSet(LAMBDA m : MonthDays[m], Months)
FirstDay(year) == year * CommonYear + (year + LeapEvery - 1) \div LeapEvery

Tm(n) ==
  LET days == n \div DaySeconds
      year == Max({y \in (days \div (CommonYear + 1))..(days \div CommonYear) : FirstDay(y) <= days})
      yday == days - FirstDay(year)
      mon  == Max({m \in Months : DaysBefore(year, m) <= yday})
  IN  [sec |-> n % Minute, min |-> (n \div Minute) % Hour,
       hour |-> (n \div (Minute * Hour)) % Day,
       mday |-> yday - DaysBefore(year, mon) + 1, mon |-> mon,
       year |-> year, wday |-> days % Week]

\* Fields beyond their range are carried over.
Seconds(tm) ==
  LET days == FirstDay(tm.year) + DaysBefore(tm.year, tm.mon) + tm.mday - 1
  IN  ((days * Day + tm.hour) * Hour + tm.min) * Minute + tm.sec

-----------------------------------------------------------------------------
(* calcNextRunTime jumps from the first field that does not match to its *)
(* next value.                                                            *)

Off(s, tm, f) == s[f] # {} /\ tm[f] \notin s[f]
Matches(s, tm) == \A f \in Fields : ~Off(s, tm, f)

First(s, f, least) == IF s[f] = {} THEN least ELSE Min(s[f])

\* The next value of field f, or the first one and a carry.
Moved(s, tm, f, carry) ==
  LET later == {v \in s[f] : v > tm[f]}
  IN  IF later = {} THEN [tm EXCEPT ![carry] = @ + 1, ![f] = Min(s[f])]
      ELSE [tm EXCEPT ![f] = Min(later)]

FromSecond(s, tm) == [tm EXCEPT !.sec = First(s, "sec", 0)]
FromMinute(s, tm) == FromSecond(s, [tm EXCEPT !.min = First(s, "min", 0)])
FromHour(s, tm)   == FromMinute(s, [tm EXCEPT !.hour = First(s, "hour", 0)])

Jumped_KeepsSmaller(s, tm) ==
  IF Off(s, tm, "sec") THEN Moved(s, tm, "sec", "min")
  ELSE IF Off(s, tm, "min") THEN Moved(s, tm, "min", "hour")
  ELSE IF Off(s, tm, "hour") THEN Moved(s, tm, "hour", "mday")
  ELSE IF Off(s, tm, "mday") THEN FromHour(s, [tm EXCEPT !.mday = @ + 1])
  ELSE IF Off(s, tm, "mon")
    THEN FromHour(s, [Moved(s, tm, "mon", "year") EXCEPT !.mday = First(s, "mday", 1)])
  ELSE FromHour(s, [tm EXCEPT !.mday = @ + 1])
Jumped(s, tm) ==
  IF Off(s, tm, "sec") THEN Moved(s, tm, "sec", "min")
  ELSE IF Off(s, tm, "min") THEN FromSecond(s, Moved(s, tm, "min", "hour"))
  ELSE IF Off(s, tm, "hour") THEN FromMinute(s, Moved(s, tm, "hour", "mday"))
  ELSE IF Off(s, tm, "mday") THEN FromHour(s, [tm EXCEPT !.mday = @ + 1])
  ELSE IF Off(s, tm, "mon")
    THEN FromHour(s, [Moved(s, tm, "mon", "year") EXCEPT !.mday = First(s, "mday", 1)])
  ELSE FromHour(s, [tm EXCEPT !.mday = @ + 1])

RECURSIVE Search(_, _, _)
Search(s, n, jumps) ==
  IF jumps = MaxJumps THEN {}
  ELSE IF Matches(s, Tm(n)) THEN {n}
  ELSE Search(s, Seconds(Jumped(s, Tm(n))), jumps + 1)

NextRun(s, from) ==
  LET found == Search(s, from + 1 + Offset, 0)
  IN  IF found = {} THEN from + Fallback ELSE Max(found) - Offset

-----------------------------------------------------------------------------
(* addTask and cancel, by any thread *)

\* The first run is computed before the lock is taken.
Add(t) ==
  /\ state[t] = "none"
  /\ state' = [state EXCEPT ![t] = "adding"]
  /\ nextRun' = [nextRun EXCEPT ![t] = now + Interval[t]]
  /\ begun' = [begun EXCEPT ![t] = now]
  /\ UNCHANGED <<now, running, queue, thread, current, checked, owner, starts>>

Insert(t) ==
  /\ state[t] = "adding"
  /\ state' = [state EXCEPT ![t] = "active"]
  /\ queue' \in Rebuilt(Active \cup {t}, nextRun)
  /\ UNCHANGED <<now, running, nextRun, thread, current, checked, owner, begun, starts>>

Cancel(t) ==
  /\ state[t] \in {"active", "cancelled"}
  /\ state' = [state EXCEPT ![t] = "cancelled"]
  /\ queue' \in Rebuilt(Active \ {t}, nextRun)
  /\ UNCHANGED <<now, running, nextRun, thread, current, checked, owner, begun, starts>>

-----------------------------------------------------------------------------
(* start and stop; cv_ is notified after every change of its predicates *)

Start ==
  /\ owner = "idle" /\ ~running /\ starts < MaxStarts
  /\ running' = TRUE /\ thread' = "loop" /\ starts' = starts + 1
  /\ UNCHANGED <<now, tableVars, current, checked, owner, begun>>

Stop ==
  /\ owner = "idle" /\ running
  /\ running' = FALSE /\ owner' = "join"
  /\ UNCHANGED <<now, tableVars, thread, current, checked, begun, starts>>

Join ==
  /\ owner = "join" /\ thread = "ended"
  /\ thread' = "none" /\ owner' = "idle"
  /\ UNCHANGED <<now, running, tableVars, current, checked, begun, starts>>

-----------------------------------------------------------------------------
(* schedulerThread *)

Leave ==
  /\ thread = "loop" /\ ~running /\ thread' = "ended"
  /\ UNCHANGED <<now, running, tableVars, current, checked, owner, begun, starts>>

\* The section from a wake-up to the next unlock or wait.
DropCancelled ==
  /\ thread = "loop" /\ running /\ queue # <<>> /\ state[queue[1]] # "active"
  /\ queue' = Pop(queue, nextRun)
  /\ UNCHANGED <<now, running, state, nextRun, thread, current, checked, owner, begun, starts>>

Run ==
  /\ thread = "loop" /\ running /\ queue # <<>> /\ state[queue[1]] = "active"
  /\ nextRun[queue[1]] <= now
  /\ thread' = "running" /\ current' = {queue[1]} /\ checked' = now
  /\ queue' = Pop(queue, nextRun)
  /\ begun' = [begun EXCEPT ![queue[1]] = now]
  /\ UNCHANGED <<now, running, state, nextRun, owner, starts>>

WaitForTop ==
  /\ thread = "loop" /\ running /\ queue # <<>> /\ state[queue[1]] = "active"
  /\ nextRun[queue[1]] > now
  /\ thread' = "waiting" /\ checked' = nextRun[queue[1]]
  /\ UNCHANGED <<now, running, tableVars, current, owner, begun, starts>>

\* wait_for's predicate is !running_ alone.
Wake ==
  /\ thread = "waiting" /\ (~running \/ now >= checked)
  /\ thread' = "loop"
  /\ UNCHANGED <<now, running, tableVars, current, checked, owner, begun, starts>>

\* fn has returned or thrown: the task is pushed again, whatever the others did.
Finish_CatchesUp(t) ==
  /\ thread = "running" /\ t \in current
  /\ thread' = "loop" /\ current' = {}
  /\ nextRun' = [nextRun EXCEPT ![t] = @ + Interval[t]]
  /\ queue' = Push(queue, t, nextRun')
  /\ UNCHANGED <<now, running, state, checked, owner, begun, starts>>
Finish_OnlyOnce(t) ==
  /\ thread = "running" /\ t \in current
  /\ thread' = "loop" /\ current' = {}
  /\ nextRun' = [nextRun EXCEPT ![t] = checked + Interval[t]]
  /\ queue' = IF queue = <<>> THEN Push(queue, t, nextRun') ELSE queue
  /\ UNCHANGED <<now, running, state, checked, owner, begun, starts>>
Finish(t) ==
  /\ thread = "running" /\ t \in current
  /\ thread' = "loop" /\ current' = {}
  /\ nextRun' = [nextRun EXCEPT ![t] = checked + Interval[t]]
  /\ queue' = Push(queue, t, nextRun')
  /\ UNCHANGED <<now, running, state, checked, owner, begun, starts>>

Tick ==
  /\ now < MaxTime /\ now' = now + 1
  /\ UNCHANGED <<running, tableVars, thread, current, checked, owner, begun, starts>>

-----------------------------------------------------------------------------

Init ==
  /\ now = 0 /\ running = FALSE
  /\ state = [t \in Tasks |-> "none"] /\ nextRun = [t \in Tasks |-> 0]
  /\ queue = <<>> /\ thread = "none" /\ current = {} /\ checked = 0
  /\ owner = "idle" /\ begun = [t \in Tasks |-> 0] /\ starts = 0

ThreadStep ==
  Leave \/ DropCancelled \/ Run \/ WaitForTop \/ Wake \/ (\E t \in Tasks : Finish(t))

Next ==
  \/ \E t \in Tasks : Add(t) \/ Insert(t) \/ Cancel(t)
  \/ Start \/ Stop \/ Join
  \/ ThreadStep
  \/ Tick

Spec == Init /\ [][Next]_vars

\* The thread is scheduled, tasks return, stop joins and time passes.
Fairness == WF_vars(ThreadStep) /\ WF_vars(Join) /\ WF_vars(Tick)
FairSpec == Spec /\ Fairness

-----------------------------------------------------------------------------
(* Properties *)

TypeOK ==
  /\ now \in 0..MaxTime /\ running \in BOOLEAN
  /\ state \in [Tasks -> TaskState] /\ nextRun \in [Tasks -> Nat]
  /\ queue \in Seq(Tasks) /\ thread \in Thread /\ current \subseteq Tasks
  /\ checked \in Nat /\ owner \in {"idle", "join"}
  /\ begun \in [Tasks -> 0..MaxTime] /\ starts \in 0..MaxStarts
  /\ current # {} <=> thread = "running"

\* Whatever rebuilds the heap while a task runs, every active task is in the
\* heap or running: the thread cannot lose one.
NothingLost == TypeOK /\ Active \subseteq ToSet(queue) \cup current

\* "every() schedules fixed intervals": though a task may be in the heap more than
\* once, it begins no sooner than an interval after it began before, or was
\* added; and a task that is cancelled does not begin.
BeginsRight ==
  [][\A t \in current' \ current :
       t \in Active /\ now >= begun[t] + Interval[t]]_vars

\* "every() schedules fixed intervals from creation time": a thread that waits on
\* does so until the earliest task, and no longer.
WakesForEarliest ==
  thread = "waiting" /\ running /\ now < checked =>
    \A t \in Active : checked <= nextRun[t]

\* stop returns, wherever the thread is.
StopReturns == (owner = "join") ~> (owner = "idle")

\* The next run that cron() finds is the earliest later instant whose every field matches; or else none of a whole year does
\* (the loop goes that far at least), and the run is a year away, matching or not.
EarliestMatch(s, from) ==
  LET MatchesAt(n) == Matches(s, Tm(n + Offset))
      next == NextRun(s, from)
  IN  IF MatchesAt(next) THEN next > from /\ \A n \in (from + 1)..(next - 1) : ~MatchesAt(n)
      ELSE /\ next = from + Fallback
           /\ \A n \in (from + 1)..(from + (CommonYear + 1) * DaySeconds) : ~MatchesAt(n)

\* "one set per field ...; an empty set means wildcard": if any instant matches, the next run
\* does. It fails for a day and a weekday that do not meet within a year.
RunMatches(s, from, horizon) ==
  (\E n \in (from + 1)..(from + horizon) : Matches(s, Tm(n + Offset)))
    => Matches(s, Tm(NextRun(s, from) + Offset))
=============================================================================
