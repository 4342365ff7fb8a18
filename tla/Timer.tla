-------------------------------- MODULE Timer --------------------------------
(***************************************************************************)
(* BaseTimer: a map of active timers under a mutex, and executions posted  *)
(* to a TaskGroup, whose workers run ExecuteTimer. A timer is set in two   *)
(* steps (inserted, then posted) and executed in three (looked up under    *)
(* the lock, called back without it, posted again), so that any thread can *)
(* cancel, destroy or stop between them. The group is reduced to what      *)
(* timers see of it: a posted execution is popped no earlier than its      *)
(* delay, and never after the group stopped (module TaskGroup). Time is in *)
(* milliseconds.                                                           *)
(***************************************************************************)
EXTENDS Naturals, FiniteSets

CONSTANTS
  Workers,    \* the group's worker threads
  Timers,     \* timer ids: next_timer_id_ never repeats one
  Delays,     \* delays and intervals asked for
  Whens,      \* absolute times asked for
  MaxDelay,   \* the largest delay a uint32_t holds
  MaxTime,    \* bound: the last instant of a behaviour
  MaxRuns,    \* bound: the callbacks of a timer
  StopFirst   \* the owner stops the group before it destroys the timers

ASSUME TimerAssumption ==
  /\ Delays \subseteq Nat /\ Whens \subseteq Nat
  /\ MaxDelay \in Nat /\ MaxTime \in Nat /\ MaxRuns \in Nat
  /\ StopFirst \in BOOLEAN

VARIABLES
  now,        \* steady::Now()
  info,       \* info[t]: the TimerInfo of a timer that was set
  active,     \* keys of active_timers_
  cancelled,  \* timers whose TimerInfo::cancelled is true
  unposted,   \* inserted by Set*Timer, ScheduleTimerExecution still to come
  posted,     \* executions waiting in the group
  worker,     \* worker[w]: what w does of ExecuteTimer
  stopped,    \* the group was stopped and its workers joined
  destroyed,  \* ~BaseTimer ran
  runs,       \* history: runs[t] counts the callbacks of t
  confirmed,  \* history: CancelTimer(t) returned true
  denied      \* history: CancelTimer(t) returned false

mapVars == <<info, active, cancelled, unposted>>
history == <<runs, confirmed, denied>>
vars == <<now, mapVars, posted, worker, stopped, destroyed, history>>

TimerType == {"oneshot", "repeating"}
Info == [type : TimerType, interval : Nat, next : Nat, first : Nat]

Ids == DOMAIN info
Repeating(t) == info[t].type = "repeating"

-----------------------------------------------------------------------------
(* Setting *)

\* CalculateDelayMs: zero in the past, clamped to 32 bits.
Delay(when) ==
  IF when <= now THEN 0
  ELSE IF when - now > MaxDelay THEN MaxDelay ELSE when - now

Execution(t, when) == [timer |-> t, due |-> now + Delay(when)]

Set(t, type, interval, when) ==
  /\ ~destroyed /\ t \in Timers \ Ids
  /\ info' = [x \in Ids \cup {t} |->
       IF x = t THEN [type |-> type, interval |-> interval, next |-> when,
                      first |-> when]
                ELSE info[x]]
  /\ active' = active \cup {t} /\ unposted' = unposted \cup {t}
  /\ UNCHANGED <<now, cancelled, posted, worker, stopped, destroyed, history>>

SetRelativeTimer(t, type, delay) == Set(t, type, delay, now + delay)
SetAbsoluteTimer(t, type, when)  == Set(t, type, 0, when)
SetRepeatingTimer(t, interval) ==
  interval # 0 /\ SetRelativeTimer(t, "repeating", interval)

\* ScheduleTimerExecution, called by Set*Timer after it unlocked.
Schedule(t) ==
  /\ t \in unposted /\ unposted' = unposted \ {t}
  /\ posted' = posted \cup {Execution(t, info[t].next)}
  /\ UNCHANGED <<now, info, active, cancelled, worker, stopped, destroyed,
                 history>>

-----------------------------------------------------------------------------
(* Cancelling: a caller has the id only once Set*Timer has returned *)

CancelTimer_LeavesEntry(t) ==
  /\ ~destroyed /\ t \in Ids \ unposted
  /\ IF t \in active
       THEN confirmed' = confirmed \cup {t} /\ UNCHANGED denied
       ELSE denied' = denied \cup {t} /\ UNCHANGED confirmed
  /\ UNCHANGED <<now, mapVars, posted, worker, stopped, destroyed, runs>>
CancelTimer(t) ==
  /\ ~destroyed /\ t \in Ids \ unposted
  /\ IF t \in active
       THEN /\ cancelled' = cancelled \cup {t} /\ active' = active \ {t}
            /\ confirmed' = confirmed \cup {t} /\ UNCHANGED denied
       ELSE denied' = denied \cup {t} /\ UNCHANGED <<cancelled, active, confirmed>>
  /\ UNCHANGED <<now, info, unposted, posted, worker, stopped, destroyed, runs>>

CancelAllTimers ==
  /\ ~destroyed
  /\ cancelled' = cancelled \cup active /\ active' = {}
  /\ UNCHANGED <<now, info, unposted, posted, worker, stopped, destroyed, history>>

\* The destructor cancels everything and clears the weak pointers; nobody else
\* may be inside a call.
Destroy ==
  /\ ~destroyed /\ unposted = {} /\ (StopFirst => stopped)
  /\ destroyed' = TRUE
  /\ cancelled' = cancelled \cup active /\ active' = {}
  /\ UNCHANGED <<now, info, unposted, posted, worker, stopped, history>>

-----------------------------------------------------------------------------
(* ExecuteTimer, on a worker of the group *)

Idle == [pc |-> "idle"]
At(pc, t) == [pc |-> pc, timer |-> t]
WorkerState == {Idle} \cup [pc : {"entered", "callback", "again"}, timer : Timers]

Busy(w, t) == worker[w] # Idle /\ worker[w].timer = t

\* A worker pops an execution that is due and tests the weak pointer.
Pop(w, e) ==
  /\ worker[w] = Idle /\ ~stopped
  /\ e \in posted /\ e.due <= now /\ runs[e.timer] < MaxRuns
  /\ posted' = posted \ {e}
  /\ worker' = [worker EXCEPT ![w] = IF destroyed THEN Idle ELSE At("entered", e.timer)]
  /\ UNCHANGED <<now, mapVars, stopped, destroyed, history>>

\* The section of ExecuteTimer, and the call of the callback.
LookUp_KeepsOneShot(w, t) ==
  /\ worker[w] = At("entered", t)
  /\ IF t \in active /\ t \notin cancelled
       THEN /\ worker' = [worker EXCEPT ![w] = At("callback", t)]
            /\ runs' = [runs EXCEPT ![t] = @ + 1]
       ELSE worker' = [worker EXCEPT ![w] = Idle] /\ UNCHANGED runs
  /\ UNCHANGED <<now, mapVars, posted, stopped, destroyed, confirmed, denied>>
LookUp(w, t) ==
  /\ worker[w] = At("entered", t)
  /\ IF t \in active /\ t \notin cancelled
       THEN /\ active' = IF Repeating(t) THEN active ELSE active \ {t}
            /\ worker' = [worker EXCEPT ![w] = At("callback", t)]
            /\ runs' = [runs EXCEPT ![t] = @ + 1]
       ELSE worker' = [worker EXCEPT ![w] = Idle] /\ UNCHANGED <<active, runs>>
  /\ UNCHANGED <<now, info, cancelled, unposted, posted, stopped, destroyed,
                 confirmed, denied>>

\* The callback returns or throws. The cancelled flag is then read without the
\* lock, so a cancellation may or may not be seen.
Return_NeverAgain(w, t) ==
  /\ worker[w] = At("callback", t)
  /\ worker' = [worker EXCEPT ![w] = Idle]
  /\ UNCHANGED <<now, mapVars, posted, stopped, destroyed, history>>
Return(w, t) ==
  /\ worker[w] = At("callback", t)
  /\ \/ Repeating(t) /\ worker' = [worker EXCEPT ![w] = At("again", t)]
     \/ /\ ~Repeating(t) \/ t \in cancelled
        /\ worker' = [worker EXCEPT ![w] = Idle]
  /\ UNCHANGED <<now, mapVars, posted, stopped, destroyed, history>>

\* ScheduleRepeatingTimer: next_execution advances from its own value.
Reschedule(w, t) ==
  /\ worker[w] = At("again", t)
  /\ LET next == info[t].next + info[t].interval
     IN  /\ info' = [info EXCEPT ![t].next = next]
         /\ posted' = posted \cup {Execution(t, next)}
  /\ worker' = [worker EXCEPT ![w] = Idle]
  /\ UNCHANGED <<now, active, cancelled, unposted, stopped, destroyed, history>>

Execute(w) ==
  \/ \E e \in posted : Pop(w, e)
  \/ \E t \in Timers : LookUp(w, t) \/ Return(w, t) \/ Reschedule(w, t)

-----------------------------------------------------------------------------
(* The group and the clock *)

\* TaskGroup::Stop joins the workers; what is still posted never runs.
StopGroup ==
  /\ ~stopped /\ \A w \in Workers : worker[w] = Idle
  /\ stopped' = TRUE
  /\ UNCHANGED <<now, mapVars, posted, worker, destroyed, history>>

Tick ==
  /\ now < MaxTime /\ now' = now + 1
  /\ UNCHANGED <<mapVars, posted, worker, stopped, destroyed, history>>

Init ==
  /\ now = 0 /\ info = [t \in {} |-> {}] /\ active = {} /\ cancelled = {}
  /\ unposted = {} /\ posted = {} /\ worker = [w \in Workers |-> Idle]
  /\ stopped = FALSE /\ destroyed = FALSE
  /\ runs = [t \in Timers |-> 0] /\ confirmed = {} /\ denied = {}

Next ==
  \/ \E t \in Timers :
       \/ \E d \in Delays, type \in TimerType : SetRelativeTimer(t, type, d)
       \/ \E d \in Delays : SetRepeatingTimer(t, d)
       \/ \E when \in Whens, type \in TimerType : SetAbsoluteTimer(t, type, when)
       \/ Schedule(t)
       \/ CancelTimer(t)
  \/ CancelAllTimers \/ Destroy
  \/ \E w \in Workers : Execute(w)
  \/ StopGroup \/ Tick

Spec == Init /\ [][Next]_vars

\* Setters finish, workers are scheduled, callbacks return and time passes.
Fairness ==
  /\ \A t \in Timers : WF_vars(Schedule(t))
  /\ \A w \in Workers : WF_vars(Execute(w))
  /\ WF_vars(Tick)
FairSpec == Spec /\ Fairness

-----------------------------------------------------------------------------
(* Properties *)

TypeOK ==
  /\ now \in Nat /\ Ids \subseteq Timers /\ info \in [Ids -> Info]
  /\ active \subseteq Ids /\ cancelled \subseteq Ids /\ unposted \subseteq Ids
  /\ posted \subseteq [timer : Ids, due : Nat]
  /\ worker \in [Workers -> WorkerState]
  /\ stopped \in BOOLEAN /\ destroyed \in BOOLEAN
  /\ runs \in [Timers -> Nat] /\ confirmed \subseteq Ids /\ denied \subseteq Ids

Executions(t) == {e \in posted : e.timer = t}
Tokens(t) ==
  Cardinality(Executions(t)) + Cardinality({w \in Workers : Busy(w, t)})
    + (IF t \in unposted THEN 1 ELSE 0)

\* However setting, cancelling and executing interleave, an active timer has
\* exactly one execution posted, under way or about to be posted: it can
\* neither stall in active_timers_ nor overlap or multiply itself.
OneExecution ==
  /\ \A t \in active : Tokens(t) = 1
  /\ \A t \in Ids : Tokens(t) <= 1

\* For a one-shot timer CancelTimer is exact: true means that the callback never
\* runs, false (of a timer nobody else cancelled) that it has begun.
CancelExact ==
  \A t \in Ids : ~Repeating(t) =>
    /\ t \in confirmed => runs[t] = 0
    /\ t \in denied \ cancelled => runs[t] = 1

\* A cancelled repeating timer runs no more than the callback that was past its
\* look-up when CancelTimer took the lock.
CancelFinal == [][\A t \in confirmed : runs'[t] = runs[t]]_vars

\* "execute after specified milliseconds", "at specified time point", "every
\* interval_ms": the k-th callback begins no earlier than k-1 intervals after
\* the first execution time, whatever late workers did to the ones before.
NotEarly ==
  \A t \in Ids : runs[t] > 0 => now >= info[t].first + (runs[t] - 1) * info[t].interval

\* A timer's lambda tests its weak pointer and then uses the timer: "any
\* accesses to the returned pointer need to be made on the thread that
\* created/reset the factory", or it may be gone.
NotUsedDestroyed ==
  destroyed => \A w \in Workers : worker[w].pc \notin {"entered", "again"}

\* A timer that is set fires, unless it is cancelled or the group stops first.
Awaited(t) == t \in active /\ info[t].next <= MaxTime
Fired(t) == runs[t] > 0 \/ t \in cancelled \/ stopped
Fires == \A t \in Timers : Awaited(t) ~> Fired(t)

\* A repeating timer keeps its rate: as long as it is active, every execution
\* that falls within the bound runs; Fires speaks of the first.
KeepsFiring ==
  \A t \in Timers, k \in 2..MaxRuns :
    (/\ t \in active /\ Repeating(t) /\ info[t].interval > 0
     /\ info[t].first + (k - 1) * info[t].interval <= MaxTime)
      ~> (runs[t] >= k \/ t \in cancelled \/ stopped)

\* Map, group and workers agree on every timer, none outlives the service, and
\* callbacks come neither early nor after a cancellation that said so.
Scheduling == TypeOK /\ OneExecution /\ NotUsedDestroyed /\ CancelExact /\ NotEarly

\* Timers fire, the repeating ones again and again.
Progress == Fires /\ KeepsFiring
=============================================================================
