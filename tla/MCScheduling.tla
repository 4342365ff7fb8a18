---------------------------- MODULE MCScheduling ----------------------------
\* Timers, a cron scheduler and its calendar, and a watchdog, all small. A behaviour
\* exercises one of them and the others rest; for the calendar it is one call.
EXTENDS Timer, TLC
CONSTANTS w1, w2, a, b, x, y, Crons, CronTime, DogTime

TwoWorkers == {w1, w2}
TwoTimers == {a, b}
OneWhen == {2}
SomeIntervals == {1}

TwoCrons == {x, y}
ThreeCrons == {x, y, a}
Intervals == (x :> 2) @@ (y :> 1) @@ (a :> 3)

\* Minutes, hours and days of two; three months, of three days, of one and in every second
\* year two, and of two, so that some have no day 3; weeks of four days, which drift against
\* years of six and seven. As in the code, the loop goes some jumps further than a year.
Upto(k, S) == {sub \in SUBSET S : Cardinality(sub) <= k}
Lengths == <<3, 1, 2>>
Schedules ==
  [sec : Upto(1, 0..1), min : Upto(1, 0..1), hour : {{}, {1}},
   mday : Upto(2, 1..3), mon : Upto(1, 1..3), wday : {{}, {0}, {0, 2}}]
Origins == {0, 3, 21, 40, 85}

VARIABLES used, clock, running, state, nextRun, queue, thread, current, checked, owner,
          begun, starts, schedule, from,
          instant, enabled, deadlines, armed, poller, memory, cpu, ticks, killed, created,
          overdue, sets

cronVars == <<clock, running, state, nextRun, queue, thread, current, checked, owner, begun,
              starts>>
dogVars == <<instant, enabled, deadlines, armed, poller, memory, cpu, ticks, killed, created,
             overdue, sets>>
callVars == <<schedule, from>>
allVars == <<used, vars, cronVars, dogVars, callVars>>

Cron == INSTANCE CronScheduler WITH
  Tasks <- Crons, Interval <- [t \in Crons |-> Intervals[t]], MaxTime <- CronTime,
  MaxStarts <- 2, now <- clock,
  Minute <- 2, Hour <- 2, Day <- 2, MonthDays <- Lengths, LeapMonth <- 2, LeapEvery <- 2,
  Week <- 4, Offset <- 3, MaxJumps <- 11, Fallback <- 48

\* A limit, and none.
SomeLimits == {[bytes |-> 1, polls |-> 1], [bytes |-> 0, polls |-> 1]}
Dog == INSTANCE Watchdog WITH
  Users <- {x, y}, Spans <- {1, 2}, Polling <- 2, Limits <- SomeLimits, Loads <- {0, 2},
  MaxTime <- DogTime, MaxTimers <- 2, MaxSets <- 1,
  now <- instant, timers <- deadlines, thread <- poller

-----------------------------------------------------------------------------
OfTimer(A) == used = "timer" /\ A /\ UNCHANGED <<used, cronVars, dogVars, callVars>>
OfCron(A)  == used = "cron" /\ A /\ UNCHANGED <<used, vars, dogVars, callVars>>
OfDog(A)   == used = "watchdog" /\ A /\ UNCHANGED <<used, vars, cronVars, callVars>>

Chosen ==
  /\ Init /\ Cron!Init /\ Dog!Init
  /\ used \in {"timer", "cron", "watchdog", "calendar"}
  /\ IF used = "calendar" THEN from \in Origins /\ schedule \in Schedules
     ELSE from = 0 /\ schedule = [f \in Cron!Fields |-> {}]

All == Chosen /\ [][OfTimer(Next) \/ OfCron(Cron!Next) \/ OfDog(Dog!Next)]_allVars

\* One of them is used, so a pair that is weakly fair makes each of it so.
FairAll ==
  /\ All
  /\ WF_allVars(OfTimer(Schedule(a)) \/ OfCron(Cron!ThreadStep) \/ OfDog(Dog!ThreadStep))
  /\ WF_allVars(OfTimer(Schedule(b)) \/ OfCron(Cron!Join))
  /\ WF_allVars(OfTimer(Tick) \/ OfCron(Cron!Tick) \/ OfDog(Dog!Tick))
  /\ \A w \in Workers : WF_allVars(OfTimer(Execute(w)))

BeginsRight == Cron!BeginsRight

\* Fires of both kinds of timer and Cron!StopReturns, as only one of them is used;
\* and repeating timers keep firing.
Owed == <<Awaited(a) \/ owner = "join" \/ Dog!Overdue(x), Awaited(b) \/ Dog!Overdue(y)>>
Paid == CASE used = "timer" -> <<Fired(a), Fired(b)>>
          [] used = "watchdog" -> <<killed # "no" \/ ~Dog!Overdue(x),
                                    killed # "no" \/ ~Dog!Overdue(y)>>
          [] OTHER -> <<owner = "idle", TRUE>>
OnTime == KeepsFiring /\ \A i \in 1..2 : Owed[i] ~> Paid[i]

\* What was added to the scheduler is run, at the times that the calendar gives; and what
\* the watchdog was told to watch is watched.
OnSchedule ==
  /\ Cron!NothingLost
  /\ used = "watchdog" => Dog!Safe
  /\ used = "calendar" => Cron!EarliestMatch(schedule, from)
=============================================================================
