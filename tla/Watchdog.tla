------------------------------ MODULE Watchdog ------------------------------
(***************************************************************************)
(* Watchdog: fatal timers that threads hold while they work, one timer fd  *)
(* armed for the earliest of them, and a thread that polls the fd, kills   *)
(* the process when a timer is overdue, and on every turn samples memory   *)
(* and CPU time into a ring buffer each. What is done under mutex_ is one  *)
(* step. Time is in milliseconds, on one clock: steady_clock is what       *)
(* CLOCK_MONOTONIC counts.                                                 *)
(***************************************************************************)
EXTENDS Integers, Sequences, FiniteSets, FiniteSetsExt, SequencesExt

CONSTANTS
  Users,       \* threads that hold timers
  Spans,       \* ms of CreateFatalTimer
  Polling,     \* polling_interval_ms_
  Limits,      \* limits: bytes, for memory, or percent, per sample, zero for none; and
               \* polls, window_ms / polling_interval_ms_
  Loads,       \* what one sample of memory, or of CPU time since the last, may be
  MaxTime,     \* bound: the last instant
  MaxTimers,   \* bound: timers created
  MaxSets      \* bound: calls of SetMemoryLimit and SetCpuLimit

VARIABLES
  now,        \* GetWallTimeMs()
  enabled,    \* enabled_
  timers,     \* timers_: who holds each, and its deadline
  armed,      \* timer_fd_: the instant it expires, 0 if disarmed
  thread,     \* ThreadMain: its step, when poll began, the time it read
  memory,     \* memory_window_bytes_ and memory_limit_bytes_
  cpu,        \* cpu_window_time_ticks_ and cpu_limit_percentage_
  ticks,      \* utime + stime of the process
  killed,     \* why the process was killed
  created,    \* history: timers created
  overdue,    \* history: timers held past their deadline
  sets        \* history: calls of Set...Limit

guards == <<memory, cpu, ticks, sets>>
vars == <<now, enabled, timers, armed, thread, guards, killed, created, overdue>>

Timer == [by : Users, deadline : Nat]
Alive == killed = "no"

-----------------------------------------------------------------------------
(* WindowedInterval. recent is history: the samples since Reset. *)

Window == [limit : Nat, size : Nat, position : Nat, filled : BOOLEAN, buffer : Seq(Nat),
           recent : Seq(Nat)]
Unused == [limit |-> 0, size |-> 0, position |-> 0, filled |-> FALSE, buffer |-> <<>>,
           recent |-> <<>>]

\* filled_ is as it was.
Reset(w, limit, size) ==
  [w EXCEPT !.limit = limit, !.size = size, !.position = 0, !.recent = <<>>,
            !.buffer = [i \in 1..size |-> 0]]

Push(w, sample) ==
  LET next == (w.position + 1) % w.size
  IN [w EXCEPT !.buffer[w.position + 1] = sample, !.position = next,
               !.filled = @ \/ next = 0, !.recent = Append(@, sample)]

Newest(w) == w.buffer[((w.position + w.size - 1) % w.size) + 1]
Oldest(w) == w.buffer[w.position + 1]
Sum(w) == FoldSeq(LAMBDA x, y : x + y, 0, w.buffer)

CheckMemory(w) == w.limit > 0 /\ w.filled /\ Sum(w) > w.limit * w.size
CheckCpu(w) == w.limit > 0 /\ w.filled /\ Newest(w) - Oldest(w) > w.limit * (w.size - 1)

-----------------------------------------------------------------------------
(* The calls *)

Earliest(ts) == IF ts = {} THEN 0 ELSE Min({t.deadline : t \in ts})
RearmTimerFd == armed' = IF enabled THEN Earliest(timers') ELSE armed

\* The thread polls from its start.
Start ==
  /\ Alive /\ ~enabled /\ thread.pc = "none"
  /\ enabled' = TRUE /\ armed' = Earliest(timers)
  /\ thread' = [pc |-> "poll", since |-> now, seen |-> 0]
  /\ UNCHANGED <<now, timers, guards, killed, created, overdue>>

\* The handle is a no-op, and no timer, before Start.
CreateFatalTimer(u, ms) ==
  /\ Alive /\ enabled /\ created < MaxTimers /\ ~\E t \in timers : t.by = u
  /\ timers' = timers \cup {[by |-> u, deadline |-> now + ms]}
  /\ created' = created + 1
  /\ RearmTimerFd
  /\ UNCHANGED <<now, enabled, thread, guards, killed, overdue>>

RemoveFatalTimer_NoRearm(t) ==
  /\ Alive /\ t \in timers /\ timers' = timers \ {t}
  /\ UNCHANGED <<now, enabled, armed, thread, guards, killed, created, overdue>>
\* The handle is destroyed.
RemoveFatalTimer(t) ==
  /\ Alive /\ t \in timers /\ timers' = timers \ {t}
  /\ RearmTimerFd
  /\ UNCHANGED <<now, enabled, thread, guards, killed, created, overdue>>

\* No limit needs no buffer.
Sized(l) == IF l.bytes = 0 THEN 0 ELSE l.polls + 1

SetMemoryLimit(l) ==
  /\ Alive /\ sets < MaxSets /\ sets' = sets + 1
  /\ memory' = Reset(memory, l.bytes, Sized(l))
  /\ UNCHANGED <<now, enabled, timers, armed, thread, cpu, ticks, killed, created, overdue>>

SetCpuLimit(l) ==
  /\ Alive /\ sets < MaxSets /\ sets' = sets + 1
  /\ cpu' = Reset(cpu, l.bytes, Sized(l))
  /\ UNCHANGED <<now, enabled, timers, armed, thread, memory, ticks, killed, created, overdue>>

\* The destructor, when nobody holds a timer: the fd expires at once, and the thread
\* is waited for.
Destroy ==
  /\ Alive /\ enabled /\ timers = {}
  /\ enabled' = FALSE /\ armed' = now
  /\ UNCHANGED <<now, timers, thread, guards, killed, created, overdue>>

-----------------------------------------------------------------------------
(* ThreadMain *)

Expired == armed > 0 /\ now >= armed

PollReturns ==
  /\ Alive /\ thread.pc = "poll" /\ (Expired \/ now >= thread.since + Polling)
  /\ thread' = [thread EXCEPT !.pc = IF enabled THEN "read" ELSE "ended"]
  /\ UNCHANGED <<now, enabled, timers, armed, guards, killed, created, overdue>>

\* read() takes the expiration, if it is still there, and leaves the fd disarmed.
Read ==
  /\ Alive /\ thread.pc = "read"
  /\ thread' = [thread EXCEPT !.pc = "timers", !.seen = now]
  /\ armed' = IF Expired THEN 0 ELSE armed
  /\ UNCHANGED <<now, enabled, timers, guards, killed, created, overdue>>

\* SerializeLogsAndKillThread ends the process.
CheckTimers ==
  /\ Alive /\ thread.pc = "timers" /\ thread' = [thread EXCEPT !.pc = "sample"]
  /\ killed' = IF \E t \in timers : thread.seen >= t.deadline THEN "timer" ELSE killed
  /\ UNCHANGED <<now, enabled, timers, armed, guards, created, overdue>>

\* A window without a limit takes no samples.
Sampled(w, sample) == IF w.limit = 0 THEN w ELSE Push(w, sample)

\* CPU is not sampled when memory is over its limit. ReadProcStat may fail.
CheckGuards ==
  /\ Alive /\ thread.pc = "sample"
  /\ thread' = [thread EXCEPT !.pc = "poll", !.since = now]
  /\ \/ \E used, load \in Loads :
          /\ ticks' = ticks + load
          /\ memory' = Sampled(memory, used)
          /\ IF CheckMemory(memory')
               THEN killed' = "memory" /\ UNCHANGED cpu
               ELSE /\ cpu' = Sampled(cpu, ticks')
                    /\ killed' = IF CheckCpu(cpu') THEN "cpu" ELSE killed
     \/ UNCHANGED <<memory, cpu, ticks, killed>>
  /\ UNCHANGED <<now, enabled, timers, armed, created, overdue, sets>>

Tick ==
  /\ Alive /\ now < MaxTime /\ now' = now + 1
  /\ overdue' = overdue \cup {t \in timers : now' >= t.deadline}
  /\ UNCHANGED <<enabled, timers, armed, thread, guards, killed, created>>

-----------------------------------------------------------------------------

Init ==
  /\ now = 1 /\ enabled = FALSE /\ timers = {} /\ armed = 0 /\ ticks = 1
  /\ thread = [pc |-> "none", since |-> 0, seen |-> 0]
  /\ memory = Unused /\ cpu = Unused /\ killed = "no"
  /\ created = 0 /\ overdue = {} /\ sets = 0

ThreadStep == PollReturns \/ Read \/ CheckTimers \/ CheckGuards

Next ==
  \/ Start \/ Destroy \/ ThreadStep \/ Tick
  \/ \E u \in Users, ms \in Spans : CreateFatalTimer(u, ms)
  \/ \E t \in timers : RemoveFatalTimer(t)
  \/ \E l \in Limits : SetMemoryLimit(l) \/ SetCpuLimit(l)

Spec == Init /\ [][Next]_vars

\* The thread runs, and time passes.
FairSpec == Spec /\ WF_vars(ThreadStep) /\ WF_vars(Tick)
-----------------------------------------------------------------------------
(* Properties *)

TypeOK ==
  /\ now \in 1..MaxTime /\ enabled \in BOOLEAN /\ timers \subseteq Timer /\ armed \in Nat
  /\ thread \in [pc : {"none", "poll", "read", "timers", "sample", "ended"},
                 since : Nat, seen : Nat]
  /\ {memory, cpu} \subseteq Window /\ ticks \in Nat
  /\ killed \in {"no", "timer", "memory", "cpu"} /\ overdue \subseteq Timer
  /\ created \in 0..MaxTimers /\ sets \in 0..MaxSets

\* "If the handle is dropped, the timer is removed so the program does not crash": it
\* crashes only for a timer that was held past its deadline.
KilledForCause == killed = "timer" => timers \cap overdue # {}

\* "Keep it armed to the task expiring soonest": while the thread polls, the fd expires
\* with the earliest timer.
ArmedForEarliest == (enabled /\ thread.pc = "poll") => armed = Earliest(timers)

\* "Averaged over the last window_ms": what kills the process is a mean, and a use of
\* CPU time, over a whole window since the limit was set.
LastWindow(w) == SubSeq(w.recent, Len(w.recent) - w.size + 1, Len(w.recent))
WholeWindow ==
  /\ killed = "memory" =>
       /\ Len(memory.recent) >= memory.size
       /\ FoldSeq(LAMBDA x, y : x + y, 0, LastWindow(memory)) > memory.limit * memory.size
  /\ killed = "cpu" =>
       /\ Len(cpu.recent) >= cpu.size
       /\ Last(LastWindow(cpu)) - Head(LastWindow(cpu)) > cpu.limit * (cpu.size - 1)
\* It is so for limits that are set once: Reset leaves filled_ alone.
FirstWindow == sets <= 1 => WholeWindow

Safe == TypeOK /\ KilledForCause /\ ArmedForEarliest /\ FirstWindow

\* A timer that is overdue ends the process, unless it is dropped before the thread looks.
Overdue(u) == \E t \in timers : t.by = u /\ now >= t.deadline
Fires == \A u \in Users : Overdue(u) ~> (killed # "no" \/ ~Overdue(u))
=============================================================================
