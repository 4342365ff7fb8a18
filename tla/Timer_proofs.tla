---------------------------- MODULE Timer_proofs ----------------------------
(***************************************************************************)
(* Timers, for any number of workers and timers: an active timer has one   *)
(* execution, CancelTimer is exact and final, no callback comes early, and *)
(* none uses a destroyed timer service.                                    *)
(***************************************************************************)
EXTENDS Timer, TLAPS, FiniteSetTheorems

HasExecution(t) == \E e \in posted : e.timer = t
HasWorker(t)    == \E w \in Workers : Busy(w, t)

\* The execution of a timer is in one place: about to be posted, posted, or in one
\* worker's hands; that of an active timer is in one of them.
Places ==
  /\ \A e, f \in posted : e.timer = f.timer => e = f
  /\ \A v, w \in Workers : \A t \in Timers : Busy(v, t) /\ Busy(w, t) => v = w
  /\ \A t \in Timers :
       /\ HasExecution(t) => ~HasWorker(t) /\ t \notin unposted
       /\ HasWorker(t) => t \in Ids \ unposted
       /\ t \in active => HasExecution(t) \/ HasWorker(t) \/ t \in unposted

\* What the map, the flags and the answers of CancelTimer say of each other: a
\* one-shot timer leaves the map in the section that starts its callback.
Books ==
  /\ active \cap (cancelled \cup denied) = {}
  /\ confirmed \subseteq cancelled
  /\ destroyed => active = {}
  /\ \A t \in Timers \ Ids : runs[t] = 0
  /\ \A t \in Ids : ~Repeating(t) => runs[t] = IF t \in active \cup cancelled THEN 0 ELSE 1
  /\ \A w \in Workers : \A t \in Ids :
       worker[w] = At("callback", t) /\ ~Repeating(t) => t \notin active

Stopping ==
  /\ stopped => \A w \in Workers : worker[w] = Idle
  /\ (destroyed /\ StopFirst) => stopped

IInv == TypeOK /\ Places /\ Books /\ Stopping

\* No delay is clamped to 32 bits (49 days).
NoClamp == \A d \in Delays \cup Whens : d <= MaxDelay

\* The time of callback k + 1 of t.
DueAt(t, k) == info[t].first + k * info[t].interval

\* next_execution is the time of the callback to come until it begins, and of the
\* last one until ScheduleRepeatingTimer advances it; an execution is posted for
\* no earlier time.
Timing ==
  /\ NotEarly
  /\ \A t \in Ids : info[t].interval <= MaxDelay
  /\ \A t \in unposted : info[t].next = DueAt(t, runs[t]) /\ info[t].next <= now + MaxDelay
  /\ \A e \in posted :
       info[e.timer].next = DueAt(e.timer, runs[e.timer]) /\ info[e.timer].next <= e.due
  /\ \A w \in Workers : \A t \in Ids :
       /\ worker[w] = At("entered", t) =>
            info[t].next = DueAt(t, runs[t]) /\ info[t].next <= now
       /\ worker[w] \in {At("callback", t), At("again", t)} =>
            runs[t] > 0 /\ info[t].next = DueAt(t, runs[t] - 1) /\ info[t].next <= now

-----------------------------------------------------------------------------
(* The operators *)

LEMMA States ==
  /\ \A pc, t : At(pc, t).pc = pc /\ At(pc, t).timer = t
  /\ Idle.pc = "idle"
  /\ \A pc, t : pc # "idle" => At(pc, t) # Idle
<1>1. \A pc, t : At(pc, t).pc = pc /\ At(pc, t).timer = t
  BY DEF At
<1>2. Idle.pc = "idle"
  BY DEF Idle
<1> QED BY <1>1, <1>2

\* A worker that is not idle is busy with the timer of its state.
LEMMA BusyWith ==
  ASSUME TypeOK, NEW w \in Workers
  PROVE  /\ \A t : worker[w] \in {At("entered", t), At("callback", t), At("again", t)} => Busy(w, t)
         /\ worker[w] = Idle => \A t : ~Busy(w, t)
         /\ \A t : Busy(w, t) => worker[w] \in {At("entered", t), At("callback", t), At("again", t)}
<1>1. \A t : worker[w] \in {At("entered", t), At("callback", t), At("again", t)} => Busy(w, t)
  BY States DEF Busy
<1>2. worker[w] \in WorkerState
  BY DEF TypeOK
<1>3. ASSUME NEW t, Busy(w, t)
      PROVE  worker[w] \in {At("entered", t), At("callback", t), At("again", t)}
  BY <1>2, <1>3 DEF Busy, WorkerState, At
<1> QED BY <1>1, <1>3 DEF Busy

\* A posted execution is due no earlier than the time asked for, unless it is clamped.
LEMMA DelayReaches ==
  ASSUME TimerAssumption, now \in Nat, NEW when \in Nat
  PROVE  /\ Delay(when) \in Nat
         /\ when <= now + MaxDelay => when <= now + Delay(when)
BY DEF TimerAssumption, Delay

\* One place means one token.
LEMMA OneToken ==
  ASSUME Places, NEW t \in Timers
  PROVE  /\ Tokens(t) <= 1
         /\ t \in active => Tokens(t) = 1
<1>1. \/ Executions(t) = {} /\ ~HasExecution(t)
      \/ HasExecution(t) /\ \E e : Executions(t) = {e}
  <2>1. CASE HasExecution(t)
    <3>1. PICK e \in posted : e.timer = t
      BY <2>1 DEF HasExecution
    <3>2. Executions(t) = {e}
      BY <3>1 DEF Places, Executions
    <3> QED BY <2>1, <3>2
  <2>2. CASE ~HasExecution(t)
    BY <2>2 DEF HasExecution, Executions
  <2> QED BY <2>1, <2>2
<1> DEFINE B == {w \in Workers : Busy(w, t)}
<1>2. (B = {} /\ ~HasWorker(t)) \/ (HasWorker(t) /\ \E w : B = {w})
  <2>1. CASE HasWorker(t)
    <3>1. PICK w \in Workers : Busy(w, t)
      BY <2>1 DEF HasWorker
    <3>2. B = {w}
      BY <3>1 DEF Places
    <3> QED BY <2>1, <3>2
  <2>2. CASE ~HasWorker(t)
    BY <2>2 DEF HasWorker
  <2> QED BY <2>1, <2>2
<1>3. Cardinality({}) = 0 /\ \A x : Cardinality({x}) = 1
  BY FS_EmptySet, FS_Singleton
<1>4. Cardinality(Executions(t)) = IF HasExecution(t) THEN 1 ELSE 0
  BY <1>1, <1>3
<1>5. Cardinality(B) = IF HasWorker(t) THEN 1 ELSE 0
  BY <1>2, <1>3
<1>6. Tokens(t) = Cardinality(Executions(t)) + Cardinality(B) + (IF t \in unposted THEN 1 ELSE 0)
  BY DEF Tokens
<1> QED BY <1>4, <1>5, <1>6 DEF Places

-----------------------------------------------------------------------------
(* One lemma per operation *)

\* A step that changes neither the map nor where an execution is.
LEMMA SameTimers ==
  ASSUME IInv, UNCHANGED <<info, active, cancelled, unposted, posted, worker, history>>,
         now' \in Nat, now' >= now, stopped' \in BOOLEAN, destroyed' = destroyed,
         Stopping'
  PROVE  IInv' /\ (Timing => Timing')
<1> USE DEF history
<1>1. TypeOK'
  BY DEF IInv, TypeOK, Ids
<1>2. Places' /\ Books'
  BY DEF IInv, Places, Books, HasExecution, HasWorker, Busy, Ids, Repeating
<1>3. ASSUME Timing PROVE Timing'
  <2>1. /\ Ids' = Ids /\ \A t, k : DueAt(t, k)' = DueAt(t, k)
        /\ \A t \in Ids : info[t].next \in Nat /\ info[t].first \in Nat /\ info[t].interval \in Nat
        /\ MaxDelay \in Nat /\ now \in Nat
    BY TimerAssumption DEF Ids, DueAt, IInv, TypeOK, Info
  <2>2. NotEarly'
    <3> SUFFICES ASSUME NEW t \in Ids, runs[t] > 0
                 PROVE  now' >= info[t].first + (runs[t] - 1) * info[t].interval
      BY <2>1 DEF NotEarly
    <3>1. now >= info[t].first + (runs[t] - 1) * info[t].interval
      BY <1>3 DEF Timing, NotEarly
    <3>2. runs[t] \in Nat /\ (runs[t] - 1) * info[t].interval \in Int
      BY <2>1 DEF IInv, TypeOK
    <3> QED BY <2>1, <3>1, <3>2
  <2>3. /\ \A t \in unposted : info[t].next = DueAt(t, runs[t]) /\ info[t].next <= now' + MaxDelay
        /\ \A w \in Workers : \A t \in Ids :
             /\ worker[w] = At("entered", t) =>
                  info[t].next = DueAt(t, runs[t]) /\ info[t].next <= now'
             /\ worker[w] \in {At("callback", t), At("again", t)} =>
                  runs[t] > 0 /\ info[t].next = DueAt(t, runs[t] - 1) /\ info[t].next <= now'
    <3>1. unposted \subseteq Ids
      BY DEF IInv, TypeOK
    <3> HIDE DEF DueAt
    <3> QED BY <1>3, <2>1, <3>1 DEF Timing
  <2> QED BY <1>3, <2>1, <2>2, <2>3 DEF Timing
<1> QED BY <1>1, <1>2, <1>3 DEF IInv

\* Set*Timer inserts an entry whose execution is about to be posted.
LEMMA SetInv ==
  ASSUME IInv, NEW t \in Timers, NEW type \in TimerType, NEW interval \in Nat, NEW when \in Nat,
         Set(t, type, interval, when)
  PROVE  /\ IInv'
         /\ (Timing /\ interval <= MaxDelay /\ when <= now + MaxDelay) => Timing'
<1> USE DEF Set, history
<1>1. /\ Ids' = Ids \cup {t} /\ t \notin Ids
      /\ \A x \in Ids : x # t /\ info'[x] = info[x]
      /\ info'[t] = [type |-> type, interval |-> interval, next |-> when, first |-> when]
  BY DEF Ids
<1>2. TypeOK'
  <2>1. info' \in [Ids' -> Info]
    BY <1>1 DEF IInv, TypeOK, Ids, Info
  <2>2. Ids' \subseteq Timers /\ Ids \subseteq Ids'
    BY <1>1 DEF IInv, TypeOK
  <2>3. posted' \subseteq [timer : Ids', due : Nat]
    BY <2>2 DEF IInv, TypeOK
  <2> QED BY <1>1, <2>1, <2>2, <2>3 DEF IInv, TypeOK
<1>3. ~HasExecution(t) /\ ~HasWorker(t) /\ runs[t] = 0
      /\ t \notin active \cup cancelled \cup unposted \cup confirmed \cup denied
  <2>1. posted \subseteq [timer : Ids, due : Nat]
    BY DEF IInv, TypeOK
  <2> QED BY <1>1, <2>1 DEF IInv, TypeOK, Places, HasExecution, Books
<1>4. Places'
  <2>1. \A x : (HasExecution(x)' <=> HasExecution(x)) /\ (HasWorker(x)' <=> HasWorker(x))
    BY DEF HasExecution, HasWorker, Busy
  <2>2. \A v, w \in Workers : \A x \in Timers : Busy(v, x)' /\ Busy(w, x)' => v = w
    BY DEF IInv, Places, Busy
  <2> QED BY <1>1, <1>3, <2>1, <2>2 DEF IInv, Places
<1>5. Books'
  <2>1. \A x \in Ids : Repeating(x)' = Repeating(x)
    BY <1>1 DEF Repeating
  <2>2. \A w \in Workers : worker[w] # At("callback", t)
    BY <1>3, BusyWith DEF IInv, HasWorker
  <2> QED BY <1>1, <1>3, <2>1, <2>2 DEF IInv, Books
<1>6. Stopping'
  BY DEF IInv, Stopping
<1>7. ASSUME Timing, interval <= MaxDelay, when <= now + MaxDelay PROVE Timing'
  <2>1. \A x \in Ids : \A k : DueAt(x, k)' = DueAt(x, k)
    BY <1>1 DEF DueAt
  <2>2. DueAt(t, 0)' = when
    BY <1>1 DEF DueAt
  <2>3. NotEarly'
    BY <1>1, <1>3, <1>7 DEF Timing, NotEarly
  <2>4. \A w \in Workers : worker[w] \notin {At("entered", t), At("callback", t), At("again", t)}
    BY <1>3, BusyWith DEF IInv, HasWorker
  <2>5. \A e \in posted : e.timer \in Ids
    BY DEF IInv, TypeOK
  <2>6. unposted \subseteq Ids
    BY DEF IInv, TypeOK
  <2> HIDE DEF DueAt
  <2>7. \A x \in unposted' :
          info'[x].next = DueAt(x, runs[x])' /\ info'[x].next <= now' + MaxDelay
    BY <1>1, <1>3, <1>7, <2>1, <2>2, <2>6 DEF Timing
  <2>8. \A x \in Ids' : info'[x].interval <= MaxDelay
    BY <1>1, <1>7 DEF Timing
  <2>9. \A e \in posted' :
          info'[e.timer].next = DueAt(e.timer, runs[e.timer])' /\ info'[e.timer].next <= e.due
    BY <1>1, <1>7, <2>1, <2>5 DEF Timing
  <2>10. \A w \in Workers : \A x \in Ids' :
       /\ worker'[w] = At("entered", x) =>
            info'[x].next = DueAt(x, runs[x])' /\ info'[x].next <= now'
       /\ worker'[w] \in {At("callback", x), At("again", x)} =>
            runs'[x] > 0 /\ info'[x].next = DueAt(x, runs[x] - 1)' /\ info'[x].next <= now'
    BY <1>1, <1>7, <2>1, <2>4 DEF Timing
  <2> QED BY <2>3, <2>7, <2>8, <2>9, <2>10 DEF Timing
<1> QED BY <1>2, <1>4, <1>5, <1>6, <1>7 DEF IInv

\* An execution that is posted takes its only place from the caller or the worker.
LEMMA PostInv ==
  ASSUME IInv, NEW t \in Ids, NEW when \in Nat,
         ~HasExecution(t), ~HasWorker(t)', t \notin unposted',
         posted' = posted \cup {Execution(t, when)},
         unposted' \subseteq unposted, unposted \subseteq unposted' \cup {t},
         \A u \in Timers \ {t}, w \in Workers : Busy(w, u)' <=> Busy(w, u),
         \A w \in Workers : ~Busy(w, t)',
         Ids' = Ids, active' = active
  PROVE  Places'
<1>1. Execution(t, when).timer = t
  BY DEF Execution
<1>2. \A u : HasExecution(u)' <=> HasExecution(u) \/ u = t
  BY <1>1 DEF HasExecution
<1>3. \A e, f \in posted' : e.timer = f.timer => e = f
  BY <1>1 DEF IInv, Places, HasExecution
<1>4. \A u \in Timers \ {t} : HasWorker(u)' <=> HasWorker(u)
  BY DEF HasWorker
<1>5. \A v, w \in Workers : \A u \in Timers : Busy(v, u)' /\ Busy(w, u)' => v = w
  BY DEF IInv, Places
<1>6. t \in Timers /\ active \subseteq Ids
  BY DEF IInv, TypeOK
<1> HIDE DEF Ids
<1> QED BY <1>2, <1>3, <1>4, <1>5, <1>6 DEF IInv, Places

LEMMA ScheduleInv ==
  ASSUME IInv, NEW t \in Timers, Schedule(t) PROVE IInv' /\ (Timing => Timing')
<1> USE DEF Schedule, history
<1>1. t \in Ids /\ info[t].next \in Nat /\ info[t] \in Info
  BY DEF IInv, TypeOK, Info
<1>2. Ids' = Ids /\ now \in Nat
  BY DEF Ids, IInv, TypeOK
<1>3. ~HasExecution(t) /\ ~HasWorker(t)
  BY <1>1 DEF IInv, Places
<1>4. Places'
  <2>1. \A u, w : Busy(w, u)' <=> Busy(w, u)
    BY DEF Busy
  <2>2. ~HasWorker(t)' /\ \A w \in Workers : ~Busy(w, t)'
    BY <1>3, <2>1 DEF HasWorker
  <2> QED BY <1>1, <1>2, <1>3, <2>1, <2>2, PostInv
<1>5. Execution(t, info[t].next) \in [timer : Ids, due : Nat]
  BY <1>1, <1>2, DelayReaches, TimerAssumption DEF Execution
<1>6. TypeOK'
  BY <1>2, <1>5 DEF IInv, TypeOK
<1>7. Books' /\ Stopping'
  BY <1>2 DEF IInv, Books, Stopping, Repeating
<1>8. ASSUME Timing PROVE Timing'
  <2>1. \A x, k : DueAt(x, k)' = DueAt(x, k)
    BY DEF DueAt
  <2>2. info[t].next = DueAt(t, runs[t]) /\ info[t].next <= now + MaxDelay
    BY <1>8 DEF Timing
  <2>3. info[t].next <= Execution(t, info[t].next).due /\ Execution(t, info[t].next).timer = t
    BY <1>1, <1>2, <2>2, DelayReaches, TimerAssumption DEF Execution
  <2>4. NotEarly'
    BY <1>2, <1>8 DEF Timing, NotEarly
  <2> HIDE DEF DueAt
  <2> QED BY <1>2, <1>8, <2>1, <2>2, <2>3, <2>4 DEF Timing
<1> QED BY <1>4, <1>6, <1>7, <1>8 DEF IInv

\* Cancelling takes timers out of the map; their executions find nothing there.
LEMMA CancelInv ==
  ASSUME IInv, NEW gone \in SUBSET active, ~destroyed,
         active' = active \ gone, cancelled' = cancelled \cup gone,
         confirmed \subseteq confirmed', confirmed' \subseteq confirmed \cup gone,
         denied' \subseteq Ids \ active', destroyed' \in BOOLEAN,
         destroyed' => active' = {} /\ (StopFirst => stopped),
         UNCHANGED <<now, info, unposted, posted, worker, stopped, runs>>
  PROVE  IInv' /\ (Timing => Timing')
<1>1. Ids' = Ids /\ active \subseteq Ids
  BY DEF Ids, IInv, TypeOK
<1>2. TypeOK'
  BY <1>1 DEF IInv, TypeOK
<1>3. Places'
  BY <1>1 DEF IInv, Places, HasExecution, HasWorker, Busy
<1>4. Books'
  BY <1>1 DEF IInv, Books, Repeating
<1>5. Stopping'
  BY DEF IInv, Stopping
<1>6. Timing => Timing'
  BY <1>1 DEF Timing, NotEarly, DueAt
<1> QED BY <1>2, <1>3, <1>4, <1>5, <1>6 DEF IInv

LEMMA CancellingInv ==
  ASSUME IInv, (\E t \in Timers : CancelTimer(t)) \/ CancelAllTimers \/ Destroy
  PROVE  IInv' /\ (Timing => Timing')
<1> USE DEF history
<1>1. ASSUME NEW t \in Timers, CancelTimer(t) PROVE IInv' /\ (Timing => Timing')
  <2> USE <1>1 DEF CancelTimer
  <2>1. CASE t \in active
    <3>1. /\ active' = active \ {t} /\ cancelled' = cancelled \cup {t}
          /\ denied \subseteq Ids \ active /\ destroyed' \in BOOLEAN /\ Ids' = Ids
      BY <2>1 DEF IInv, TypeOK, Books, Ids
    <3> DEFINE gone == {t}
    <3>2. gone \in SUBSET active
      BY <2>1
    <3>3. /\ active' = active \ gone /\ cancelled' = cancelled \cup gone
          /\ confirmed \subseteq confirmed' /\ confirmed' \subseteq confirmed \cup gone
          /\ denied' \subseteq Ids \ active' /\ destroyed' \in BOOLEAN /\ ~destroyed'
      BY <2>1, <3>1
    <3>4. UNCHANGED <<now, info, unposted, posted, worker, stopped, runs>>
      BY <2>1
    <3> HIDE DEF gone
    <3> QED BY <3>2, <3>3, <3>4, CancelInv
  <2>2. CASE t \notin active
    <3>1. denied \subseteq Ids \ active /\ t \in Ids /\ destroyed' \in BOOLEAN
      BY DEF IInv, TypeOK, Books
    <3> DEFINE gone == {}
    <3>2. /\ gone \in SUBSET active
          /\ active' = active \ gone /\ cancelled' = cancelled \cup gone
          /\ confirmed \subseteq confirmed' /\ confirmed' \subseteq confirmed \cup gone
      BY <2>2
    <3>3. UNCHANGED <<now, info, unposted, posted, worker, stopped, runs>>
      BY <2>2
    <3>4. denied' \subseteq Ids \ active' /\ ~destroyed'
      BY <2>2, <3>1
    <3> HIDE DEF gone
    <3> QED BY <3>1, <3>2, <3>3, <3>4, CancelInv
  <2> QED BY <2>1, <2>2
<1>2. CASE CancelAllTimers \/ Destroy
  <2> USE <1>2 DEF CancelAllTimers, Destroy
  <2>1. denied \subseteq Ids
    BY DEF IInv, TypeOK
  <2>2. active' = active \ active /\ destroyed' \in BOOLEAN
    BY DEF IInv, TypeOK
  <2> QED BY <2>1, <2>2, CancelInv
<1> QED BY <1>1, <1>2

\* A worker takes a due execution: its only place is now in the worker's hands.
LEMMA PopInv ==
  ASSUME IInv, NEW w \in Workers, NEW e \in posted, Pop(w, e)
  PROVE  IInv' /\ (Timing => Timing')
<1> USE DEF Pop, mapVars, history
<1>1. /\ e.timer \in Ids /\ e.timer \in Timers /\ e.due \in Nat /\ Ids' = Ids
      /\ active \subseteq Ids
  BY DEF IInv, TypeOK, Ids
<1>2. /\ worker' = [worker EXCEPT ![w] = IF destroyed THEN Idle ELSE At("entered", e.timer)]
      /\ worker[w] = Idle /\ worker \in [Workers -> WorkerState]
  BY DEF IInv, TypeOK
<1>3. At("entered", e.timer) \in WorkerState /\ Idle \in WorkerState
  BY <1>1 DEF At, WorkerState
<1>4. TypeOK'
  BY <1>1, <1>2, <1>3 DEF IInv, TypeOK
<1>5. \A u : HasExecution(u)' <=> HasExecution(u) /\ u # e.timer
  BY DEF HasExecution, IInv, Places
<1>6. HasExecution(e.timer) /\ ~HasWorker(e.timer) /\ e.timer \notin unposted
  BY <1>1 DEF HasExecution, IInv, Places
<1>7. \A v \in Workers : \A u : Busy(v, u)' <=> Busy(v, u) \/ (v = w /\ u = e.timer /\ ~destroyed)
  BY <1>2, States DEF Busy
<1>8. \A u : HasWorker(u)' <=> HasWorker(u) \/ (u = e.timer /\ ~destroyed)
  BY <1>7 DEF HasWorker
<1>9. Places'
  <2>1. \A f, g \in posted' : f.timer = g.timer => f = g
    BY DEF IInv, Places
  <2>2. \A v, x \in Workers : \A u \in Timers : Busy(v, u)' /\ Busy(x, u)' => v = x
    BY <1>6, <1>7 DEF IInv, Places, HasWorker
  <2>3. destroyed => active = {}
    BY DEF IInv, Books
  <2> HIDE DEF Pop
  <2>4. UNCHANGED <<active, unposted>>
    BY DEF Pop
  <2> QED BY <1>1, <1>5, <1>6, <1>8, <2>1, <2>2, <2>3, <2>4 DEF IInv, Places
<1>10. \A v \in Workers : \A u : \A pc \in {"callback", "again"} :
         worker'[v] = At(pc, u) => worker[v] = At(pc, u)
  BY <1>2, States
<1>11. Books'
  BY <1>1, <1>10 DEF IInv, Books, Repeating
<1>12. Stopping'
  BY <1>1 DEF IInv, Stopping
<1>13. ASSUME Timing PROVE Timing'
  <2>1. /\ info[e.timer].next = DueAt(e.timer, runs[e.timer])
        /\ info[e.timer].next <= e.due /\ e.due <= now
        /\ info[e.timer].next \in Nat /\ now \in Nat
    BY <1>1, <1>13 DEF Timing, IInv, TypeOK, Info
  <2>2. \A v \in Workers : \A u \in Ids : worker'[v] = At("entered", u) =>
          worker[v] = At("entered", u) \/ u = e.timer
    BY <1>2, States
  <2>3. \A u, k : DueAt(u, k)' = DueAt(u, k)
    BY DEF DueAt
  <2>4. NotEarly'
    BY <1>1, <1>13 DEF Timing, NotEarly
  <2>5. info[e.timer].next <= now
    BY <1>1, <2>1
  <2> HIDE DEF DueAt
  <2> QED BY <1>1, <1>10, <1>13, <2>1, <2>2, <2>3, <2>4, <2>5 DEF Timing
<1> QED BY <1>4, <1>9, <1>11, <1>12, <1>13 DEF IInv

\* A worker that is through with a timer which is not active, or still has it.
LEMMA WorkerMoves ==
  ASSUME IInv, NEW w \in Workers, NEW t \in Ids, Busy(w, t),
         \/ \E pc \in {"callback", "again"} :
              worker' = [worker EXCEPT ![w] = At(pc, t)] /\ active' \subseteq active
         \/ worker' = [worker EXCEPT ![w] = Idle] /\ active' = active /\ t \notin active,
         UNCHANGED <<unposted, posted>>, Ids' = Ids
  PROVE  Places'
<1>1. t \in Timers /\ worker \in [Workers -> WorkerState] /\ active \subseteq Ids
  BY DEF IInv, TypeOK
<1>2. \A v, u : v \in Workers \ {w} => (Busy(v, u)' <=> Busy(v, u))
  BY <1>1 DEF Busy
<1>3. \A u : Busy(w, u) <=> u = t
  BY DEF Busy
<1>4. HasWorker(t) /\ ~HasExecution(t) /\ t \notin unposted
  BY <1>1 DEF HasWorker, IInv, Places
<1>5. \A u : HasExecution(u)' <=> HasExecution(u)
  BY DEF HasExecution
<1>6. CASE \E pc \in {"callback", "again"} :
             worker' = [worker EXCEPT ![w] = At(pc, t)] /\ active' \subseteq active
  <2>1. \A u : Busy(w, u)' <=> u = t
    BY <1>1, <1>6, States DEF Busy
  <2>2. \A v \in Workers : \A u : Busy(v, u)' <=> Busy(v, u)
    BY <1>2, <1>3, <2>1
  <2>3. \A u : HasWorker(u)' <=> HasWorker(u)
    BY <2>2 DEF HasWorker
  <2> QED BY <1>5, <1>6, <2>2, <2>3 DEF IInv, Places
<1>7. CASE worker' = [worker EXCEPT ![w] = Idle] /\ active' = active /\ t \notin active
  <2>1. \A u : ~Busy(w, u)'
    BY <1>1, <1>7 DEF Busy
  <2>2. \A v \in Workers : \A u : Busy(v, u)' <=> Busy(v, u) /\ u # t
    <3>1. \A v \in Workers \ {w} : ~Busy(v, t)
      BY <1>1 DEF IInv, Places
    <3> QED BY <1>2, <1>3, <2>1, <3>1
  <2>3. \A u : HasWorker(u)' <=> HasWorker(u) /\ u # t
    BY <2>2 DEF HasWorker
  <2> QED BY <1>4, <1>5, <1>7, <2>2, <2>3 DEF IInv, Places
<1> QED BY <1>6, <1>7

\* The section of ExecuteTimer: a one-shot timer leaves the map as its callback begins.
LEMMA LookUpInv ==
  ASSUME IInv, NEW w \in Workers, NEW t \in Timers, LookUp(w, t)
  PROVE  IInv' /\ (Timing => Timing')
<1> USE DEF LookUp, history
<1>1. /\ Busy(w, t) /\ HasWorker(t) /\ t \in Ids /\ Ids' = Ids /\ ~HasExecution(t)
      /\ t \notin unposted /\ active \subseteq Ids /\ worker \in [Workers -> WorkerState]
  BY BusyWith DEF IInv, TypeOK, HasWorker, Places, Ids
<1>2. At("callback", t) \in WorkerState /\ Idle \in WorkerState
  BY DEF At, WorkerState
<1>3. CASE t \in active /\ t \notin cancelled
  <2>1. /\ worker' = [worker EXCEPT ![w] = At("callback", t)] /\ active' \subseteq active
        /\ runs' = [runs EXCEPT ![t] = @ + 1] /\ active \ {t} \subseteq active'
        /\ (~Repeating(t) => t \notin active')
    BY <1>3
  <2>2. Places'
    BY <1>1, <2>1, WorkerMoves
  <2>3. TypeOK'
    BY <1>1, <1>2, <2>1 DEF IInv, TypeOK
  <2>4. \A v \in Workers : \A u \in Ids :
          worker'[v] = At("callback", u) => worker[v] = At("callback", u) \/ u = t
    BY <1>1, <2>1, States
  <2>5. Books'
    <3>1. runs[t] \in Nat /\ runs'[t] = runs[t] + 1 /\ \A u \in Timers \ {t} : runs'[u] = runs[u]
      BY <2>1 DEF IInv, TypeOK
    <3>2. /\ \A u \in Timers \ Ids' : runs'[u] = 0
          /\ \A u \in Ids' : ~Repeating(u)' =>
               runs'[u] = IF u \in active' \cup cancelled' THEN 0 ELSE 1
      BY <1>1, <1>3, <2>1, <3>1 DEF IInv, Books, Repeating
    <3>3. \A v \in Workers : \A u \in Ids :
            worker'[v] = At("callback", u) /\ ~Repeating(u) => u \notin active'
      BY <2>1, <2>4 DEF IInv, Books
    <3>4. \A u : Repeating(u)' = Repeating(u)
      BY DEF Repeating
    <3> QED BY <1>1, <2>1, <3>2, <3>3, <3>4 DEF IInv, Books
  <2>6. Stopping'
    BY <1>1 DEF IInv, Stopping, Busy
  <2>7. ASSUME Timing PROVE Timing'
    <3>1. \A u, k : DueAt(u, k)' = DueAt(u, k)
      BY DEF DueAt
    <3>2. info[t].next = DueAt(t, runs[t]) /\ info[t].next <= now
      BY <1>1, <2>7 DEF Timing
    <3>3. /\ runs'[t] = runs[t] + 1 /\ runs[t] \in Nat
          /\ runs'[t] - 1 = runs[t] /\ \A u \in Ids \ {t} : runs'[u] = runs[u]
      BY <2>1 DEF IInv, TypeOK
    <3>4. NotEarly'
      <4>1. now >= info[t].first + (runs'[t] - 1) * info[t].interval
        <5>1. now \in Nat /\ info[t].next \in Nat
          BY <1>1 DEF IInv, TypeOK, Info
        <5>2. info[t].next = info[t].first + (runs'[t] - 1) * info[t].interval
          BY <3>2, <3>3 DEF DueAt
        <5> QED BY <3>2, <5>1, <5>2
      <4>2. \A u \in Ids \ {t} : runs'[u] > 0 =>
              now >= info[u].first + (runs'[u] - 1) * info[u].interval
        BY <2>7, <3>3 DEF Timing, NotEarly
      <4> QED BY <1>1, <4>1, <4>2 DEF NotEarly
    <3>5. \A v \in Workers : \A u \in Ids : \A pc \in {"entered", "callback", "again"} :
            worker'[v] = At(pc, u) =>
              \/ u # t /\ worker[v] = At(pc, u)
              \/ u = t /\ pc = "callback"
      <4>1. \A v \in Workers \ {w} : ~Busy(v, t)
        BY <1>1 DEF IInv, Places
      <4> QED BY <1>1, <2>1, <4>1, States, BusyWith DEF IInv
    <3>6. \A e \in posted : e.timer # t /\ e.timer \in Ids
      BY <1>1 DEF HasExecution, IInv, TypeOK
    <3>7. unposted \subseteq Ids
      BY DEF IInv, TypeOK
    <3> HIDE DEF DueAt, LookUp
    <3>8. UNCHANGED <<info, now, unposted, posted>>
      BY DEF LookUp
    <3>9. /\ \A u \in Ids' : info'[u].interval <= MaxDelay
          /\ \A u \in unposted' :
               info'[u].next = DueAt(u, runs[u])' /\ info'[u].next <= now' + MaxDelay
          /\ \A e \in posted' :
               info'[e.timer].next = DueAt(e.timer, runs[e.timer])' /\ info'[e.timer].next <= e.due
      BY <1>1, <2>7, <3>1, <3>3, <3>6, <3>7, <3>8 DEF Timing
    <3>10. \A v \in Workers : \A u \in Ids : \A pc \in {"callback", "again"} :
             worker'[v] = At(pc, u) =>
               runs'[u] > 0 /\ info[u].next = DueAt(u, runs'[u] - 1) /\ info[u].next <= now
      <4> SUFFICES ASSUME NEW v \in Workers, NEW u \in Ids, NEW pc \in {"callback", "again"},
                          worker'[v] = At(pc, u)
                   PROVE  /\ runs'[u] > 0 /\ info[u].next = DueAt(u, runs'[u] - 1)
                          /\ info[u].next <= now
        OBVIOUS
      <4>1. CASE u = t
        BY <3>2, <3>3, <4>1
      <4>2. CASE u # t
        <5>1. worker[v] = At(pc, u) /\ runs'[u] = runs[u]
          BY <3>3, <3>5, <4>2
        <5>2. worker[v] \in {At("callback", u), At("again", u)}
          BY <5>1
        <5> QED BY <2>7, <5>1, <5>2 DEF Timing
      <4> QED BY <4>1, <4>2
    <3>11. \A v \in Workers : \A u \in Ids :
             worker'[v] = At("entered", u) =>
               info[u].next = DueAt(u, runs'[u]) /\ info[u].next <= now
      <4> SUFFICES ASSUME NEW v \in Workers, NEW u \in Ids, worker'[v] = At("entered", u)
                   PROVE  info[u].next = DueAt(u, runs'[u]) /\ info[u].next <= now
        OBVIOUS
      <4>1. worker[v] = At("entered", u) /\ u # t
        BY <3>5
      <4> QED BY <2>7, <3>3, <4>1 DEF Timing
    <3>12. \A u : DueAt(u, runs[u])' = DueAt(u, runs'[u]) /\ DueAt(u, runs[u] - 1)' = DueAt(u, runs'[u] - 1)
      BY <3>8 DEF DueAt
    <3> QED BY <1>1, <3>4, <3>8, <3>9, <3>10, <3>11, <3>12 DEF Timing
  <2> QED BY <2>2, <2>3, <2>5, <2>6, <2>7 DEF IInv
<1>4. CASE ~(t \in active /\ t \notin cancelled)
  <2>1. worker' = [worker EXCEPT ![w] = Idle] /\ UNCHANGED <<active, runs>>
    BY <1>4
  <2>2. t \notin active
    BY <1>4 DEF IInv, Books
  <2>3. Places'
    BY <1>1, <2>1, <2>2, WorkerMoves
  <2>4. TypeOK'
    BY <1>1, <1>2, <2>1 DEF IInv, TypeOK
  <2>5. \A v \in Workers : \A u, pc : pc # "idle" /\ worker'[v] = At(pc, u) => worker[v] = At(pc, u)
    BY <1>1, <2>1, States
  <2>6. Books' /\ Stopping'
    BY <1>1, <2>1, <2>5 DEF IInv, Books, Stopping, Repeating, Busy
  <2>7. ASSUME Timing PROVE Timing'
    <3>1. \A u, k : DueAt(u, k)' = DueAt(u, k)
      BY DEF DueAt
    <3>2. NotEarly'
      BY <1>1, <2>1, <2>7 DEF Timing, NotEarly
    <3> HIDE DEF DueAt
    <3> QED BY <1>1, <2>1, <2>5, <2>7, <3>1, <3>2 DEF Timing
  <2> QED BY <2>3, <2>4, <2>6, <2>7 DEF IInv
<1> QED BY <1>3, <1>4

LEMMA ReturnInv ==
  ASSUME IInv, NEW w \in Workers, NEW t \in Timers, Return(w, t)
  PROVE  IInv' /\ (Timing => Timing')
<1> USE DEF Return, mapVars, history
<1>1. /\ Busy(w, t) /\ HasWorker(t) /\ t \in Ids /\ Ids' = Ids
      /\ worker \in [Workers -> WorkerState]
  BY BusyWith DEF IInv, TypeOK, HasWorker, Places, Ids
<1>2. At("again", t) \in WorkerState /\ Idle \in WorkerState
  BY DEF At, WorkerState
<1>3. \/ worker' = [worker EXCEPT ![w] = At("again", t)]
      \/ worker' = [worker EXCEPT ![w] = Idle] /\ t \notin active
  BY <1>1 DEF IInv, Books
<1>4. Places'
  BY <1>1, <1>3, WorkerMoves
<1>5. TypeOK'
  BY <1>1, <1>2 DEF IInv, TypeOK
<1>6. \A v \in Workers : \A u \in Ids : \A pc \in {"entered", "callback"} :
        worker'[v] = At(pc, u) => worker[v] = At(pc, u)
  BY <1>1, States
<1>7. Books' /\ Stopping'
  BY <1>1, <1>6 DEF IInv, Books, Stopping, Repeating, Busy
<1>8. ASSUME Timing PROVE Timing'
  <2>1. \A u, k : DueAt(u, k)' = DueAt(u, k)
    BY DEF DueAt
  <2>2. NotEarly'
    BY <1>1, <1>8 DEF Timing, NotEarly
  <2>3. \A v \in Workers : \A u \in Ids : worker'[v] = At("again", u) =>
          worker[v] \in {At("callback", u), At("again", u)}
    BY <1>1, States
  <2> HIDE DEF DueAt
  <2>4. UNCHANGED <<info, now, unposted, posted, runs>>
    OBVIOUS
  <2> HIDE DEF Return
  <2> QED BY <1>1, <1>6, <1>8, <2>1, <2>2, <2>3, <2>4 DEF Timing
<1> QED BY <1>4, <1>5, <1>7, <1>8 DEF IInv

\* ScheduleRepeatingTimer: the next execution is one interval after the last.
LEMMA RescheduleInv ==
  ASSUME IInv, NEW w \in Workers, NEW t \in Timers, Reschedule(w, t)
  PROVE  IInv' /\ (Timing => Timing')
<1> DEFINE next == info[t].next + info[t].interval
<1>1. /\ Busy(w, t) /\ HasWorker(t) /\ t \in Ids /\ ~HasExecution(t) /\ t \notin unposted
      /\ worker \in [Workers -> WorkerState]
  BY BusyWith DEF Reschedule, IInv, TypeOK, HasWorker, Places
<1>2. /\ info' = [info EXCEPT ![t].next = next] /\ posted' = posted \cup {Execution(t, next)}
      /\ worker' = [worker EXCEPT ![w] = Idle] /\ worker[w] = At("again", t)
      /\ UNCHANGED <<now, active, cancelled, unposted, stopped, destroyed, runs, confirmed, denied>>
  BY DEF Reschedule, history
<1>3. /\ Ids' = Ids /\ info[t] \in Info /\ next \in Nat /\ now \in Nat
      /\ info'[t] = [info[t] EXCEPT !.next = next]
      /\ \A u \in Ids \ {t} : info'[u] = info[u]
  BY <1>1, <1>2 DEF Ids, IInv, TypeOK, Info
<1>4. \A u \in Ids : info'[u].interval = info[u].interval /\ info'[u].first = info[u].first
                     /\ info'[u].type = info[u].type
  BY <1>3 DEF Info
<1>5. \A v \in Workers : \A u : Busy(v, u)' <=> Busy(v, u) /\ v # w
  BY <1>1, <1>2 DEF Busy
<1>6. \A v \in Workers : \A u : Busy(v, u)' <=> Busy(v, u) /\ u # t
  <2>1. \A v \in Workers \ {w} : ~Busy(v, t)
    BY <1>1 DEF IInv, Places
  <2>2. \A u : Busy(w, u) => u = t
    BY <1>1 DEF Busy
  <2> QED BY <1>5, <2>1, <2>2
<1>7. Places'
  <2>1. ~HasWorker(t)' /\ \A v \in Workers : ~Busy(v, t)'
    BY <1>6 DEF HasWorker
  <2>2. \A u \in Timers \ {t}, v \in Workers : Busy(v, u)' <=> Busy(v, u)
    BY <1>6
  <2> QED BY <1>1, <1>2, <1>3, <2>1, <2>2, PostInv
<1>8. Execution(t, next).timer = t /\ Execution(t, next) \in [timer : Ids, due : Nat]
  BY <1>1, <1>3, DelayReaches, TimerAssumption DEF Execution
<1>9. TypeOK'
  <2>1. info'[t] \in Info
    BY <1>3 DEF Info
  <2>2. info' \in [Ids -> Info]
    BY <1>2, <2>1 DEF IInv, TypeOK
  <2>3. worker' \in [Workers -> WorkerState]
    BY <1>1, <1>2 DEF WorkerState
  <2> HIDE DEF next
  <2> QED BY <1>2, <1>3, <1>8, <2>2, <2>3 DEF IInv, TypeOK
<1>10. \A v \in Workers : \A u, pc : pc # "idle" /\ worker'[v] = At(pc, u) =>
         worker[v] = At(pc, u) /\ u # t
  <2>1. \A v \in Workers : \A u, pc : pc # "idle" /\ worker'[v] = At(pc, u) =>
          worker[v] = At(pc, u) /\ Busy(v, u)'
    BY <1>1, <1>2, States DEF Busy
  <2> QED BY <1>6, <2>1
<1>11. Books' /\ Stopping'
  <2>1. \A u \in Ids : Repeating(u)' = Repeating(u)
    BY <1>4 DEF Repeating
  <2> HIDE DEF next
  <2>2. \A v \in Workers : \A u \in Ids : worker'[v] = At("callback", u) => worker[v] = At("callback", u)
    BY <1>10
  <2>3. Books'
    BY <1>2, <1>3, <2>1, <2>2 DEF IInv, Books
  <2>4. Stopping'
    BY <1>1, <1>2 DEF IInv, Stopping, Busy
  <2> QED BY <2>3, <2>4
<1>12. ASSUME Timing PROVE Timing'
  <2>1. \A u \in Ids : \A k : DueAt(u, k)' = DueAt(u, k)
    BY <1>3, <1>4 DEF DueAt
  <2>2. /\ info[t].next <= now /\ info[t].interval <= MaxDelay
        /\ info[t].next = DueAt(t, runs[t] - 1) /\ runs[t] > 0
    BY <1>1, <1>2, <1>12 DEF Timing
  <2>3. next = DueAt(t, runs[t])
    <3>1. /\ runs[t] \in Nat /\ info[t].first \in Nat /\ info[t].interval \in Nat
          /\ info[t].next \in Nat
      BY <1>1, <1>3 DEF IInv, TypeOK, Info
    <3>2. \A k, i \in Nat : k > 0 => (k - 1) * i + i = k * i
      OBVIOUS
    <3>3. (runs[t] - 1) * info[t].interval + info[t].interval = runs[t] * info[t].interval
      BY <2>2, <3>1, <3>2
    <3>4. (runs[t] - 1) * info[t].interval \in Int /\ runs[t] * info[t].interval \in Int
      BY <3>1
    <3> QED BY <2>2, <3>1, <3>3, <3>4 DEF DueAt
  <2>4. next <= now + MaxDelay
    BY <1>3, <2>2, TimerAssumption DEF Info
  <2>5. next <= Execution(t, next).due
    BY <1>3, <2>4, DelayReaches, TimerAssumption DEF Execution
  <2>6. NotEarly'
    BY <1>2, <1>3, <1>4, <1>12 DEF Timing, NotEarly
  <2>7. \A e \in posted : e.timer \in Ids \ {t}
    BY <1>1 DEF IInv, TypeOK, HasExecution
  <2>8. unposted \subseteq Ids \ {t} /\ info'[t].next = next
    BY <1>1, <1>3 DEF IInv, TypeOK, Info
  <2> HIDE DEF DueAt, next
  <2>9. \A e \in posted' :
          info'[e.timer].next = DueAt(e.timer, runs[e.timer])' /\ info'[e.timer].next <= e.due
    BY <1>1, <1>2, <1>3, <1>8, <1>12, <2>1, <2>3, <2>5, <2>7, <2>8 DEF Timing
  <2>10. \A u \in unposted' :
           info'[u].next = DueAt(u, runs[u])' /\ info'[u].next <= now' + MaxDelay
    BY <1>2, <1>3, <1>12, <2>1, <2>8 DEF Timing
  <2>11. \A v \in Workers : \A u \in Ids' :
       /\ worker'[v] = At("entered", u) =>
            info'[u].next = DueAt(u, runs[u])' /\ info'[u].next <= now'
       /\ worker'[v] \in {At("callback", u), At("again", u)} =>
            runs'[u] > 0 /\ info'[u].next = DueAt(u, runs[u] - 1)' /\ info'[u].next <= now'
    BY <1>2, <1>3, <1>10, <1>12, <2>1 DEF Timing
  <2> QED BY <1>3, <1>4, <1>12, <2>6, <2>9, <2>10, <2>11 DEF Timing
<1> QED BY <1>7, <1>9, <1>11, <1>12 DEF IInv

-----------------------------------------------------------------------------
(* What holds of every behaviour *)

LEMMA InitInv == Init => IInv /\ Timing
<1> SUFFICES ASSUME Init PROVE IInv /\ Timing
  OBVIOUS
<1> USE DEF Init
<1>1. Ids = {}
  BY DEF Ids
<1>2. TypeOK
  <2>1. Idle \in WorkerState
    BY DEF WorkerState
  <2>2. info \in [Ids -> Info]
    BY <1>1 DEF Ids
  <2> HIDE DEF Ids
  <2> QED BY <1>1, <2>1, <2>2 DEF TypeOK
<1>3. \A w \in Workers : worker[w] = Idle /\ \A t : ~Busy(w, t)
  BY DEF Busy
<1>4. Places
  BY <1>3 DEF Places, HasExecution, HasWorker
<1>5. Books /\ Stopping
  BY <1>1, <1>3 DEF Books, Stopping
<1>6. Timing
  BY <1>1 DEF Timing, NotEarly
<1> QED BY <1>2, <1>4, <1>5, <1>6 DEF IInv

\* The steps that set a timer. Nothing is clamped when no delay is.
LEMMA SettingInv ==
  ASSUME IInv, NEW t \in Timers,
         \/ \E d \in Delays, type \in TimerType : SetRelativeTimer(t, type, d)
         \/ \E d \in Delays : SetRepeatingTimer(t, d)
         \/ \E when \in Whens, type \in TimerType : SetAbsoluteTimer(t, type, when)
  PROVE  IInv' /\ (NoClamp /\ Timing => Timing')
<1>1. now \in Nat /\ Delays \subseteq Nat /\ Whens \subseteq Nat /\ MaxDelay \in Nat
  BY TimerAssumption DEF IInv, TypeOK
<1>2. ASSUME NEW d \in Delays, NEW type \in TimerType, SetRelativeTimer(t, type, d)
      PROVE  IInv' /\ (NoClamp /\ Timing => Timing')
  <2>1. now + d \in Nat /\ d \in Nat /\ (NoClamp => d <= MaxDelay /\ now + d <= now + MaxDelay)
    BY <1>1 DEF NoClamp
  <2> QED BY <1>2, <2>1, SetInv DEF SetRelativeTimer
<1>3. ASSUME NEW d \in Delays, SetRepeatingTimer(t, d)
      PROVE  IInv' /\ (NoClamp /\ Timing => Timing')
  BY <1>2, <1>3 DEF SetRepeatingTimer, TimerType
<1>4. ASSUME NEW when \in Whens, NEW type \in TimerType, SetAbsoluteTimer(t, type, when)
      PROVE  IInv' /\ (NoClamp /\ Timing => Timing')
  <2>1. when \in Nat /\ 0 <= MaxDelay /\ (NoClamp => when <= now + MaxDelay)
    BY <1>1 DEF NoClamp
  <2> QED BY <1>4, <2>1, SetInv DEF SetAbsoluteTimer
<1> QED BY <1>2, <1>3, <1>4

LEMMA StepInv == IInv /\ [Next]_vars => IInv' /\ (NoClamp /\ Timing => Timing')
<1> SUFFICES ASSUME IInv, [Next]_vars PROVE IInv' /\ (NoClamp /\ Timing => Timing')
  OBVIOUS
<1>0. now \in Nat
  BY DEF IInv, TypeOK
<1>1. ASSUME NEW w \in Workers, Execute(w) PROVE IInv' /\ (Timing => Timing')
  BY <1>1, PopInv, LookUpInv, ReturnInv, RescheduleInv DEF Execute
<1>2. CASE StopGroup
  <2>1. Stopping'
    BY <1>2 DEF StopGroup, IInv, Stopping
  <2> QED BY <1>0, <1>2, <2>1, SameTimers DEF StopGroup, mapVars
<1>3. CASE Tick
  <2>1. Stopping'
    BY <1>3 DEF Tick, IInv, Stopping
  <2>2. now' \in Nat /\ now' >= now /\ stopped' \in BOOLEAN /\ destroyed' = destroyed
    BY <1>0, <1>3 DEF Tick, IInv, TypeOK
  <2>3. UNCHANGED <<info, active, cancelled, unposted, posted, worker, history>>
    BY <1>3 DEF Tick, mapVars
  <2> QED BY <2>1, <2>2, <2>3, SameTimers
<1>4. CASE UNCHANGED vars
  <2>1. Stopping' /\ now' >= now /\ stopped' \in BOOLEAN
    BY <1>0, <1>4 DEF vars, IInv, Stopping, TypeOK
  <2> QED BY <1>0, <1>4, <2>1, SameTimers DEF vars, mapVars
<1> QED BY <1>1, <1>2, <1>3, <1>4, SettingInv, ScheduleInv, CancellingInv DEF Next

\* Map, group, workers and answers agree in every reachable state.
THEOREM Invariance == Spec => []IInv
<1> QED BY InitInv, StepInv, PTL DEF Spec

LEMMA Once == IInv => OneExecution
<1> SUFFICES ASSUME IInv PROVE OneExecution
  OBVIOUS
<1>1. Ids \subseteq Timers /\ active \subseteq Ids
  BY DEF IInv, TypeOK
<1> QED BY <1>1, OneToken DEF IInv, OneExecution

\* However setting, cancelling and executing interleave, an active timer has exactly
\* one execution posted, under way or about to be posted (timer.cc:9-147).
THEOREM OneExecutionEach == Spec => []OneExecution
<1> QED BY Once, Invariance, PTL

\* A cancelled timer runs no more than the callback that was past its look-up when
\* CancelTimer took the lock (timer.cc:65-75, 92-121).
THEOREM CancelIsFinal == Spec => CancelFinal
<1>1. IInv /\ [Next]_vars => [\A t \in confirmed : runs'[t] = runs[t]]_vars
  <2> SUFFICES ASSUME IInv, [Next]_vars, NEW t \in confirmed PROVE runs'[t] = runs[t]
    OBVIOUS
  <2>1. ASSUME NEW w \in Workers, NEW u \in Timers, LookUp(w, u) PROVE runs'[t] = runs[t]
    <3>1. t \in cancelled /\ t \in Timers /\ runs \in [Timers -> Nat]
      BY DEF IInv, Books, TypeOK
    <3>2. u # t \/ runs' = runs
      BY <2>1, <3>1 DEF LookUp
    <3> QED BY <2>1, <3>1, <3>2 DEF LookUp
  <2>2. CASE ~\E w \in Workers, u \in Timers : LookUp(w, u)
    <3>1. runs' = runs
      BY <2>2 DEF Next, SetRelativeTimer, SetRepeatingTimer, SetAbsoluteTimer, Set, Schedule,
           CancelTimer, CancelAllTimers, Destroy, Execute, Pop, Return, Reschedule, StopGroup,
           Tick, vars, history
    <3> QED BY <3>1
  <2> QED BY <2>1, <2>2
<1> QED BY <1>1, Invariance, PTL DEF Spec, CancelFinal

\* Everything the service promises: also, when the owner stops the group before it
\* destroys the service, no lambda uses a destroyed one, and when no delay is longer
\* than 32 bits of milliseconds, no callback comes early.
THEOREM SchedulingCorrect == ASSUME StopFirst, NoClamp PROVE Spec => []Scheduling
<1>1. IInv /\ Timing /\ [Next]_vars => Timing'
  BY StepInv
<1>2. IInv /\ Timing => Scheduling
  <2> SUFFICES ASSUME IInv, Timing PROVE Scheduling
    OBVIOUS
  <2>1. OneExecution
    BY Once
  <2>2. NotUsedDestroyed
    <3>1. Idle.pc \notin {"entered", "again"}
      BY States
    <3> QED BY <3>1 DEF IInv, Stopping, NotUsedDestroyed
  <2>3. CancelExact
    <3> SUFFICES ASSUME NEW t \in Ids, ~Repeating(t)
                 PROVE  /\ t \in confirmed => runs[t] = 0
                        /\ t \in denied \ cancelled => runs[t] = 1
      BY DEF CancelExact
    <3>1. runs[t] = IF t \in active \cup cancelled THEN 0 ELSE 1
      BY DEF IInv, Books
    <3> QED BY <3>1 DEF IInv, Books
  <2> QED BY <2>1, <2>2, <2>3 DEF IInv, Timing, Scheduling
<1> QED BY <1>1, <1>2, InitInv, Invariance, PTL DEF Spec
=============================================================================
