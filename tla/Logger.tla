-------------------------------- MODULE Logger --------------------------------
(***************************************************************************)
(* Logger: threads that write an entry themselves (warn and above) or queue *)
(* it for the worker thread, Flush, which empties the queue on the caller's *)
(* thread, and Shutdown, which joins the worker; with one FileSink and its  *)
(* rotation behind them. A section under queue_mutex_ or sinks_mutex_ is    *)
(* one action; the worker keeps queue_mutex_ from the test of its loop to   *)
(* the wait, and Shutdown does not take it. Entries are numbered in the     *)
(* order in which they are logged, count as one byte, and are in the file   *)
(* as soon as fwrite has them.                                              *)
(***************************************************************************)
EXTENDS Naturals, FiniteSets, Sequences, SequencesExt

CONSTANTS
  Threads,    \* the threads that log, flush and shut down
  QueueSize,  \* kMaxQueueSize
  MaxBytes,   \* max_bytes_, in entries
  MaxItems,   \* max_items_
  MaxEntries, \* bound: entries logged
  MaxFlushes  \* bound: calls of Flush

ASSUME LoggerAssumption ==
  /\ QueueSize \in Nat /\ MaxBytes \in Nat /\ MaxItems \in Nat
  /\ MaxEntries \in Nat /\ MaxFlushes \in Nat

VARIABLES
  queue, dropped,    \* log_queue_; dropped_messages_, as the entries it counts
  shutdown,          \* shutdown_requested_
  worker, entry,     \* WorkerThread: program counter and entry, as a sequence
  pc, hand,          \* pc[t]; hand[t]: the entry or temp_queue t has to write
  opened, file,      \* FileSink: logger_file_ is open between its writes, and the files
  crashed,           \* the process wrote to a file that did not open again
  issued, accepted, written, lost, \* history: entries logged, queued, written, not written
  flushes, due,      \* history: calls of Flush; due[t]: what was queued before t's
  joined, before     \* history: Shutdown has joined; what was queued before it

queueVars  == <<queue, dropped, accepted>>
workerVars == <<worker, entry>>
callVars   == <<pc, hand>>
sinkVars   == <<opened, file, written, lost, crashed>>
flushVars  == <<flushes, due>>
stopVars   == <<joined, before>>
vars == <<queueVars, shutdown, workerVars, callVars, sinkVars, flushVars, stopVars,
          issued>>

Entries == 1..MaxEntries
WorkerPc == {"start", "top", "predicate", "block", "waiting", "woken", "take",
             "process", "done"}
CallerPc == {"out", "notify", "write", "flush", "notifyAll", "join"}

\* The worker holds queue_mutex_ between its loop's test and its wait.
MutexFree == worker \notin {"top", "predicate", "block"}

-----------------------------------------------------------------------------
(* FileSink, with its file in a directory, <<>>                              *)

LogFile == <<"log">>

\* What absolute_path gives is the path of the file, and the names of the backups are
\* joined to it.
Backup(i) == IF i = 0 THEN LogFile ELSE Append(LogFile, i)

\* The system renames into a directory, and a file is none.
Renamed(there, from, to) ==
  IF from \notin DOMAIN there \/ Front(to) # <<>> THEN there
  ELSE [p \in (DOMAIN there \ {from}) \cup {to} |-> there[IF p = to THEN from ELSE p]]
Opened(there) == [p \in DOMAIN there \cup {LogFile} |-> IF p \in DOMAIN there THEN there[p] ELSE <<>>]

\* Rotate: the oldest backup goes, the others and the file move up, and it is opened again.
MovedUp ==
  LET kept == [p \in DOMAIN file \ (IF MaxItems = 0 THEN {} ELSE {Backup(MaxItems)}) |-> file[p]]
  IN FoldLeft(LAMBDA there, i : Renamed(there, Backup(i), Backup(i + 1)), kept,
              Reverse([i \in 1..(IF MaxItems = 0 THEN 1 ELSE MaxItems) |-> i - 1]))
Rotated_Empties == [p \in DOMAIN file |-> <<>>]
Rotated == Opened(MovedUp)

\* FileSink::write: a full file is rotated first. What did not open when the sink was made
\* takes nothing; what does not open after Rotate is written to all the same, see Crash.
Full == opened /\ Len(file[LogFile]) > MaxBytes
write(e) ==
  /\ IF opened
       THEN LET there == IF Full THEN Rotated ELSE file
            IN file' = [there EXCEPT ![LogFile] = Append(@, e)] /\ written' = Append(written, e)
               /\ UNCHANGED lost
       ELSE lost' = lost \cup {e} /\ UNCHANGED <<file, written>>
  /\ UNCHANGED <<opened, crashed>>

-----------------------------------------------------------------------------
(* Logging *)

Goto(t, label) == pc' = [pc EXCEPT ![t] = label]
NextEntry == issued + 1

\* WriteLogAsync, up to the unlock.
WriteLogAsync(t) ==
  /\ pc[t] = "out" /\ issued < MaxEntries /\ MutexFree
  /\ issued' = NextEntry
  /\ IF Len(queue) >= QueueSize
       THEN dropped' = dropped \cup {NextEntry} /\ UNCHANGED <<queue, accepted, pc>>
       ELSE /\ queue' = Append(queue, NextEntry) /\ accepted' = Append(accepted, NextEntry)
            /\ Goto(t, "notify") /\ UNCHANGED dropped
  /\ UNCHANGED <<shutdown, workerVars, hand, sinkVars, flushVars, stopVars>>

\* A notification reaches the worker only if it is waiting.
Notified == worker' = IF worker = "waiting" THEN "woken" ELSE worker

NotifyOne(t) ==
  /\ pc[t] = "notify" /\ Goto(t, "out") /\ Notified
  /\ UNCHANGED <<queueVars, shutdown, entry, hand, sinkVars, flushVars, stopVars, issued>>

\* WriteLogSync: a warning, an error, or a message that was truncated.
WriteLogSync(t) ==
  /\ pc[t] = "out" /\ issued < MaxEntries
  /\ issued' = NextEntry
  /\ hand' = [hand EXCEPT ![t] = <<NextEntry>>] /\ Goto(t, "write")
  /\ UNCHANGED <<queueVars, shutdown, workerVars, sinkVars, flushVars, stopVars>>

\* The caller writes the next entry it holds.
WriteNext(t) ==
  /\ pc[t] \in {"write", "flush"} /\ hand[t] # <<>>
  /\ write(Head(hand[t]))
  /\ hand' = [hand EXCEPT ![t] = Tail(@)]
  /\ IF pc[t] = "write" THEN Goto(t, "out") ELSE UNCHANGED pc
  /\ UNCHANGED <<queueVars, shutdown, workerVars, flushVars, stopVars, issued>>

Flush(t) ==
  /\ pc[t] = "out" /\ flushes < MaxFlushes /\ MutexFree
  /\ hand' = [hand EXCEPT ![t] = queue] /\ queue' = <<>> /\ Goto(t, "flush")
  /\ flushes' = flushes + 1 /\ due' = [due EXCEPT ![t] = ToSet(accepted)]
  /\ UNCHANGED <<dropped, accepted, shutdown, workerVars, sinkVars, stopVars, issued>>

\* The sinks are flushed and Flush returns.
FlushReturns(t) ==
  /\ pc[t] = "flush" /\ hand[t] = <<>> /\ Goto(t, "out")
  /\ due' = [due EXCEPT ![t] = {}]
  /\ UNCHANGED <<queueVars, shutdown, workerVars, hand, sinkVars, flushes, stopVars,
                 issued>>

-----------------------------------------------------------------------------
(* Shutdown: the exchange, notify_all and join, all without queue_mutex_. A *)
(* second call returns at once.                                            *)

Shutdown(t) ==
  /\ pc[t] = "out" /\ ~shutdown
  /\ shutdown' = TRUE /\ before' = ToSet(accepted) /\ Goto(t, "notifyAll")
  /\ UNCHANGED <<queueVars, workerVars, hand, sinkVars, flushVars, joined, issued>>

NotifyAll(t) ==
  /\ pc[t] = "notifyAll" /\ Goto(t, "join") /\ Notified
  /\ UNCHANGED <<queueVars, shutdown, entry, hand, sinkVars, flushVars, stopVars, issued>>

Join(t) ==
  /\ pc[t] = "join" /\ worker = "done"
  /\ joined' = TRUE /\ Goto(t, "out")
  /\ UNCHANGED <<queueVars, shutdown, workerVars, hand, sinkVars, flushVars, before, issued>>

-----------------------------------------------------------------------------
(* WorkerThread *)

Work(label) ==
  /\ worker' = label
  /\ UNCHANGED <<queueVars, shutdown, entry, callVars, sinkVars, flushVars, stopVars, issued>>

\* The test of the outer loop.
TestLoop_ShutdownOnly ==
  /\ worker \in {"start", "top"}
  /\ Work(IF shutdown THEN "done" ELSE "predicate")
TestLoop ==
  /\ worker \in {"start", "top"}
  /\ Work(IF shutdown /\ queue = <<>> THEN "done" ELSE "predicate")

\* cv_.wait: the predicate, and then the wait itself, which unlocks.
TestPredicate ==
  /\ worker \in {"predicate", "woken"}
  /\ Work(IF shutdown \/ queue # <<>> THEN "take" ELSE "block")
Wait == worker = "block" /\ Work("waiting")
WakesSpuriously == worker = "waiting" /\ Work("woken")

\* The inner loop takes entry after entry, unlocked while it writes one.
Take ==
  /\ worker = "take" /\ queue # <<>>
  /\ worker' = "process" /\ entry' = <<Head(queue)>> /\ queue' = Tail(queue)
  /\ UNCHANGED <<dropped, accepted, shutdown, callVars, sinkVars, flushVars, stopVars,
                 issued>>
TakeNone == worker = "take" /\ queue = <<>> /\ Work("top")

ProcessTaken ==
  /\ worker = "process" /\ write(entry[1])
  /\ worker' = "take" /\ entry' = <<>>
  /\ UNCHANGED <<queueVars, shutdown, callVars, flushVars, stopVars, issued>>

WorkerStep ==
  ~crashed /\ (TestLoop \/ TestPredicate \/ Wait \/ Take \/ TakeNone \/ ProcessTaken)

-----------------------------------------------------------------------------
\* Instead of a write that rotates: fopen fails, and fwrite gets the null pointer.
Crash ==
  /\ Full /\ (worker = "process" \/ \E t \in Threads : hand[t] # <<>>)
  /\ crashed' = TRUE /\ file' = MovedUp
  /\ UNCHANGED <<queueVars, shutdown, workerVars, callVars, opened, written, lost, flushVars,
                 stopVars, issued>>

-----------------------------------------------------------------------------

Init ==
  /\ queue = <<>> /\ dropped = {} /\ accepted = <<>> /\ shutdown = FALSE
  /\ worker = "start" /\ entry = <<>>
  /\ pc = [t \in Threads |-> "out"] /\ hand = [t \in Threads |-> <<>>]
  /\ opened \in BOOLEAN /\ file = [path \in {LogFile} |-> <<>>] /\ crashed = FALSE
  /\ written = <<>> /\ lost = {} /\ issued = 0
  /\ flushes = 0 /\ due = [t \in Threads |-> {}]
  /\ joined = FALSE /\ before = {}

CallerStep(t) ==
  ~crashed /\ (NotifyOne(t) \/ WriteNext(t) \/ FlushReturns(t) \/ NotifyAll(t) \/ Join(t))

Next ==
  /\ ~crashed
  /\ \/ \E t \in Threads :
          \/ WriteLogAsync(t) \/ WriteLogSync(t) \/ Flush(t) \/ Shutdown(t)
          \/ CallerStep(t)
     \/ WorkerStep \/ WakesSpuriously \/ Crash

Spec == Init /\ [][Next]_vars

\* The threads run; nothing else is sure to happen, a wake-up without a
\* notification least of all.
Fairness == WF_vars(WorkerStep) /\ \A t \in Threads : WF_vars(CallerStep(t))
FairSpec == Spec /\ Fairness

-----------------------------------------------------------------------------
(* Properties *)

TypeOK ==
  /\ queue \in Seq(Entries) /\ Len(queue) <= QueueSize /\ dropped \subseteq 1..issued
  /\ shutdown \in BOOLEAN /\ worker \in WorkerPc /\ entry \in Seq(Entries)
  /\ (entry # <<>> <=> worker = "process")
  /\ pc \in [Threads -> CallerPc] /\ hand \in [Threads -> Seq(Entries)]
  /\ opened \in BOOLEAN /\ crashed \in BOOLEAN /\ LogFile \in DOMAIN file
  /\ issued \in 0..MaxEntries /\ accepted \in Seq(Entries) /\ written \in Seq(Entries)
  /\ lost \subseteq 1..issued /\ flushes \in 0..MaxFlushes
  /\ due \in [Threads -> SUBSET Entries] /\ joined \in BOOLEAN
  /\ before \subseteq Entries

\* Worker, Flush and the callers hand entries on under two locks: every entry that
\* was logged is in one place, once, and written, lost with the file or counted as
\* dropped in the end.
Copies(e) ==
  LET in(s) == Cardinality({i \in DOMAIN s : s[i] = e})
      held == {t \in Threads : e \in ToSet(hand[t])}
  IN  in(queue) + in(entry) + in(written) + Cardinality(held)
        + (IF e \in dropped THEN 1 ELSE 0) + (IF e \in lost THEN 1 ELSE 0)
Conserved == \A e \in 1..issued : Copies(e) = 1

\* As long as nobody calls Flush, which overtakes the worker, queued entries reach
\* the file in the order in which they were queued.
AsyncInOrder ==
  (flushes = 0 /\ opened) =>
    LET out == written \o entry \o queue
    IN  /\ ToSet(accepted) \subseteq ToSet(out)
        /\ \A i, j \in DOMAIN out :
             i < j /\ {out[i], out[j]} \subseteq ToSet(accepted) => out[i] < out[j]

\* "flush all log": once Shutdown has joined the worker, what had been queued before
\* it is written, or in the hands of a Flush that is still writing.
ShutdownDrains ==
  joined =>
    \A e \in before :
      e \in ToSet(written) \cup lost \cup UNION {ToSet(hand[t]) : t \in Threads}

\* The backups and the file hold, in order, the last entries written, and nothing is
\* discarded before every backup is full.
Stored ==
  FlattenSeq([i \in 1..MaxItems + 2 |->
    LET path == Backup(MaxItems + 2 - i) IN IF path \in DOMAIN file THEN file[path] ELSE <<>>])
RotationKeepsRecent ==
  opened =>
    /\ IsSuffix(Stored, written)
    /\ Len(Stored) <= MaxItems * (MaxBytes + 1) => Stored = written

\* "Rotating file (path, max_bytes, max_items)": a file that is full takes one more entry
\* at most.
RotationBounds == Len(file[LogFile]) <= MaxBytes + 1

\* "After flush, all messages should be delivered": what was queued before a call of
\* Flush is written when it returns.
FlushDelivers ==
  [][\A t \in Threads : FlushReturns(t) => due[t] \subseteq ToSet(written) \cup lost]_vars

\* An entry that is queued while the worker lives is written, though Shutdown comes
\* and wake-ups are lost, unless the process ends.
Queued(e)  == e \in ToSet(queue) /\ worker # "done"
Settled(e) == e \in ToSet(written) \cup lost \/ crashed
QueuedIsWritten == \A e \in Entries : Queued(e) ~> Settled(e)

\* "After Shutdown, the worker thread is joined": Shutdown returns.
ShutdownReturns == shutdown ~> joined

\* The books of the logger, to the end, and the files.
EntryAccounting ==
  TypeOK /\ Conserved /\ AsyncInOrder /\ ShutdownDrains /\ RotationKeepsRecent
=============================================================================
