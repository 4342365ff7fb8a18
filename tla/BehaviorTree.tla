---------------------------- MODULE BehaviorTree ----------------------------
(***************************************************************************)
(* BtTree and its nodes. A tick walks down from the root, so Tick is a     *)
(* recursive operator from a state to the states it may leave: the result  *)
(* of a user's action and RandomSelector's shuffle are free. Between two   *)
(* ticks anyone may send or clear events, pause, resume or reset the tree, *)
(* and time passes; within a tick it does not.                             *)
(***************************************************************************)
EXTENDS Integers, Sequences

CONSTANTS
  Trees,     \* trees[n]: the node with id_ n; its parent has a smaller id
  Events,    \* event types
  Patience,  \* how often in a row a user's action may say Running
  MaxAge,    \* how much time is told apart: no port asks for more
  MaxSends,  \* bound on sendEvent
  Losses     \* what an int falls short of GetCurrentMs(): nothing below 2^31, else a
             \* multiple of 2^32

VARIABLES
  tree,      \* children, kind and ports of the nodes
  node,      \* node[n]: the members of node n that change
  events,    \* events[e]: how many e are in event_queue_
  paused,    \* paused_
  ticks,     \* the last bit of tick_count_
  sends,     \* bound: sendEvent calls so far
  unseen     \* history: unseen[e]: how many e were sent since the last tick

vars == <<tree, node, events, paused, ticks, sends, unseen>>

Composites == {"sequence", "selector", "fallback", "random"}
Decorators == {"inverter", "delay", "timeout", "retry", "repeater", "guard", "subtree"}
Kinds      == Composites \cup Decorators
                \cup {"success", "failure", "action", "wait", "waitEvent"}
Timed      == {"delay", "timeout", "wait", "waitEvent"}
Status     == {"Success", "Failure", "Running", "Idle"}

Nodes   == DOMAIN tree
Kind(n) == tree[n].kind
Kids(n) == tree[n].kids
Arg(n)  == tree[n].arg   \* delay_ms, timeout_ms, wait_ms, max_retries, repeat_count
Kid(n)  == Kids(n)[1]

Fresh(n) == [started |-> FALSE, status |-> "Idle", cur |-> 1, count |-> 0,
             age |-> 0, lost |-> 0, order |-> [i \in 1..Len(Kids(n)) |-> i]]

-----------------------------------------------------------------------------
(* A state of the walk: the nodes, the queue and the status just returned *)

Put(s, n, field, v) == [s EXCEPT !.node[n] = [@ EXCEPT ![field] = v]]
Return(s, st)       == [s EXCEPT !.ret = st]

RECURSIVE ResetNode(_, _), ResetAll(_, _)

Cleared(s, n) ==
  [s EXCEPT !.node[n].started = FALSE, !.node[n].status = "Idle", !.node[n].age = 0,
            !.node[n].cur = IF Kind(n) \in Composites THEN 1 ELSE @]

ResetAll(s, kids) ==
  IF kids = <<>> THEN s ELSE ResetAll(ResetNode(s, Head(kids)), Tail(kids))

\* Node::reset goes down the children; a SubTree keeps its inner tree outside them.
ResetNode(s, n) ==
  IF Kind(n) = "subtree" THEN Cleared(s, n) ELSE ResetAll(Cleared(s, n), Kids(n))

Shuffles(n) ==
  LET Places == 1..Len(Kids(n))
  IN  {p \in [Places -> Places] : \A i, j \in Places : p[i] = p[j] => i = j}

OnStart(n, s) ==
  CASE Kind(n) = "fallback" -> {Put(s, n, "cur", 1)}
    [] Kind(n) = "random" -> {Put(Put(s, n, "cur", 1), n, "order", p) : p \in Shuffles(n)}
    [] Kind(n) = "delay" -> {Put(s, n, "lost", k) : k \in Losses}
    [] Kind(n) \in {"retry", "repeater", "action"} -> {Put(s, n, "count", 0)}
    [] OTHER -> {s}

\* OnStop and the end of tick(). A SubTree resets its inner tree.
Ended(n, s) == [s EXCEPT !.node[n].started = FALSE, !.node[n].age = 0]

Finish(n, r) ==
  LET t == Put(r, n, "status", r.ret)
  IN  IF r.ret = "Running" THEN t
      ELSE IF Kind(n) = "subtree" THEN ResetNode(Ended(n, t), Kid(n))
      ELSE Ended(n, t)

RECURSIVE Tick(_, _), Walk(_, _, _), Again(_, _, _)

Other(st) == IF st = "Success" THEN "Failure" ELSE "Success"

\* The loop of the composites: tick child after child, until one says stop.
Walk_Keeps(n, s, stop) ==
  LET i == s.node[n].cur
  IN  IF i > Len(Kids(n)) THEN {Return(Put(s, n, "cur", 1), Other(stop))}
      ELSE UNION {IF r.ret \in {"Running", stop} THEN {r}
                  ELSE Walk(n, Put(r, n, "cur", i + 1), stop)
                    : r \in Tick(Kids(n)[s.node[n].order[i]], s)}
Walk(n, s, stop) ==
  LET i == s.node[n].cur
  IN  IF i > Len(Kids(n)) THEN {Return(Put(s, n, "cur", 1), Other(stop))}
      ELSE UNION {IF r.ret = "Running" THEN {r}
                  ELSE IF r.ret = stop THEN {Put(r, n, "cur", 1)}
                  ELSE Walk(n, Put(r, n, "cur", i + 1), stop)
                    : r \in Tick(Kids(n)[s.node[n].order[i]], s)}

\* The loop of Retry and Repeater: a child that did not say stop is reset and
\* ticked again.
Again(n, s, stop) ==
  IF s.node[n].count >= Arg(n) THEN {Return(s, Other(stop))}
  ELSE UNION {IF r.ret \in {"Running", stop} THEN {r}
              ELSE Again(n, ResetNode(Put(r, n, "count", s.node[n].count + 1), Kid(n)), stop)
                : r \in Tick(Kid(n), s)}

\* The event ports of EventGuard and WaitForEvent.
Heard(n, s)   == s.events[tree[n].event] > 0
Consume(n, s) == [s EXCEPT !.events[tree[n].event] = @ - 1]

\* In either mode the guard returns in the tick that sees the event.
TickGuard_BeforeChild(n, s) ==
  IF Heard(n, s) /\ ~s.node[Kid(n)].started
    THEN {Return(ResetNode(Consume(n, s), Kid(n)), tree[n].result)}
    ELSE Tick(Kid(n), s)
TickGuard(n, s) ==
  IF Heard(n, s)
    THEN {Return(ResetNode(Consume(n, s), Kid(n)), tree[n].result)}
    ELSE Tick(Kid(n), s)

\* now - start_time_ against the port of a timed node.
Elapsed(n, s) == s.node[n].age + s.node[n].lost >= Arg(n)

TickWaitForEvent(n, s) ==
  IF Heard(n, s) THEN {Return(Consume(n, s), "Success")}
  ELSE IF Arg(n) >= 0 /\ Elapsed(n, s) THEN {Return(s, "Failure")}
  ELSE {Return(s, "Running")}

TickTimeout(n, s) ==
  IF Elapsed(n, s) THEN {Return(s, "Failure")} ELSE Tick(Kid(n), s)

TickDelay(n, s) ==
  IF Elapsed(n, s) THEN Tick(Kid(n), s) ELSE {Return(s, "Running")}

TickInverter(n, s) ==
  {IF r.ret = "Running" THEN r ELSE Return(r, Other(r.ret)) : r \in Tick(Kid(n), s)}

\* A user's function: any status, but Running no more than Patience times.
TickAction(n, s) ==
  {Return(s, "Success"), Return(s, "Failure")}
    \cup IF s.node[n].count < Patience
           THEN {Return(Put(s, n, "count", s.node[n].count + 1), "Running")} ELSE {}

OnTick(n, s) ==
  CASE Kind(n) = "sequence"  -> Walk(n, s, "Failure")
    [] Kind(n) \in Composites \ {"sequence"} -> Walk(n, s, "Success")
    [] Kind(n) = "inverter"  -> TickInverter(n, s)
    [] Kind(n) = "delay"     -> TickDelay(n, s)
    [] Kind(n) = "timeout"   -> TickTimeout(n, s)
    [] Kind(n) = "retry"     -> Again(n, s, "Success")
    [] Kind(n) = "repeater"  -> Again(n, s, "Failure")
    [] Kind(n) = "guard"     -> TickGuard(n, s)
    [] Kind(n) = "subtree"   -> Tick(Kid(n), s)
    [] Kind(n) = "success"   -> {Return(s, "Success")}
    [] Kind(n) = "failure"   -> {Return(s, "Failure")}
    [] Kind(n) = "action"    -> TickAction(n, s)
    [] Kind(n) = "wait"      -> {Return(s, IF Elapsed(n, s) THEN "Success" ELSE "Running")}
    [] Kind(n) = "waitEvent" -> TickWaitForEvent(n, s)

Begin_Always(n, s) == OnStart(n, Put(Put(s, n, "started", TRUE), n, "status", "Running"))
Begin(n, s) ==
  IF s.node[n].started THEN {s}
  ELSE OnStart(n, Put(Put(s, n, "started", TRUE), n, "status", "Running"))

Tick(n, s) == {Finish(n, r) : r \in UNION {OnTick(n, b) : b \in Begin(n, s)}}

-----------------------------------------------------------------------------
(* What the user of a tree does *)

TickTree ==
  /\ ~paused
  /\ \E r \in Tick(1, [node |-> node, events |-> events, ret |-> "Idle"]) :
       node' = r.node /\ events' = r.events
  /\ ticks' = 1 - ticks /\ unseen' = [e \in Events |-> 0]
  /\ UNCHANGED <<tree, paused, sends>>

Reset ==
  /\ node' = ResetNode([node |-> node, events |-> events, ret |-> "Idle"], 1).node
  /\ UNCHANGED <<tree, events, paused, ticks, sends, unseen>>

SendEvent(e) ==
  /\ sends < MaxSends /\ sends' = sends + 1
  /\ events' = [events EXCEPT ![e] = @ + 1]
  /\ unseen' = [unseen EXCEPT ![e] = @ + 1]
  /\ UNCHANGED <<tree, node, paused, ticks>>

ClearEvents ==
  /\ events' = [e \in Events |-> 0] /\ unseen' = [e \in Events |-> 0]
  /\ UNCHANGED <<tree, node, paused, ticks, sends>>

Pause ==
  /\ ~paused /\ paused' = TRUE
  /\ UNCHANGED <<tree, node, events, ticks, sends, unseen>>

Resume ==
  /\ paused /\ paused' = FALSE
  /\ UNCHANGED <<tree, node, events, ticks, sends, unseen>>

\* Time passes for the nodes that are running.
Advance ==
  /\ node' = [n \in Nodes |->
       IF node[n].started /\ Kind(n) \in Timed /\ node[n].age < MaxAge
         THEN [node[n] EXCEPT !.age = @ + 1] ELSE node[n]]
  /\ UNCHANGED <<tree, events, paused, ticks, sends, unseen>>

Init ==
  /\ tree \in Trees
  /\ node = [n \in Nodes |-> Fresh(n)]
  /\ events = [e \in Events |-> 0] /\ unseen = [e \in Events |-> 0]
  /\ paused = FALSE /\ ticks = 0 /\ sends = 0

Next ==
  \/ TickTree \/ Reset \/ ClearEvents \/ Pause \/ Resume \/ Advance
  \/ \E e \in Events : SendEvent(e)

Spec == Init /\ [][Next]_vars

\* The tree is ticked again and again unless it is paused again and again, and
\* time passes.
Fairness == ([]<><<TRUE>>_ticks \/ []<>paused) /\ WF_vars(Advance)

FairSpec == Spec /\ Fairness

-----------------------------------------------------------------------------
(* Properties *)

NodeState == [started : BOOLEAN, status : Status, cur : Nat, count : Nat,
              age : 0..MaxAge, lost : Losses, order : Seq(Nat)]

TypeOK ==
  /\ tree \in Trees
  /\ node \in [Nodes -> NodeState]
  /\ events \in [Events -> 0..MaxSends]
  /\ paused \in BOOLEAN /\ ticks \in 0..1
  /\ sends \in 0..MaxSends /\ unseen \in [Events -> 0..MaxSends]

St(n)    == node[n].status
Child(n, i) == Kids(n)[node[n].order[i]]

\* A composite that goes through its children until one says stop.
WalkAgrees(n, stop) ==
  LET Passed(i) == \A j \in 1..(i - 1) : St(Child(n, j)) = Other(stop)
  IN  /\ St(n) = Other(stop) => Passed(Len(Kids(n)) + 1)
      /\ St(n) = stop => \E i \in 1..Len(Kids(n)) : Passed(i) /\ St(Child(n, i)) = stop
      /\ St(n) = "Running" =>
           Passed(node[n].cur) /\ St(Child(n, node[n].cur)) = "Running"

\* "Runs children in order, fails on first failure", "succeeds on first success",
\* "Inverts child result": the status a node reports is the one its children's
\* statuses give, and a running composite stands at its running child.
Agreement ==
  \A n \in Nodes :
    /\ Kind(n) = "sequence" => WalkAgrees(n, "Failure")
    /\ Kind(n) \in Composites \ {"sequence"} => WalkAgrees(n, "Success")
    /\ Kind(n) = "inverter" =>
         /\ St(n) \in {"Success", "Failure"} => St(Kid(n)) = Other(St(n))
         /\ St(n) = "Running" => St(Kid(n)) = "Running"
    /\ Kind(n) = "delay" /\ St(n) \in {"Success", "Failure"} => St(Kid(n)) = St(n)
    /\ Kind(n) = "timeout" =>
         /\ St(n) = "Success" => St(Kid(n)) = "Success"
         /\ St(n) = "Failure" => St(Kid(n)) # "Success"
    /\ Kind(n) = "retry" /\ St(n) = "Success" => St(Kid(n)) = "Success"
    /\ Kind(n) = "repeater" /\ St(n) = "Failure" => St(Kid(n)) = "Failure"

\* "Delays child execution by delay_ms": the child of a Delay is not started before.
DelayHolds ==
  \A n \in Nodes : Kind(n) = "delay" /\ node[n].started /\ node[Kid(n)].started =>
    node[n].age >= Arg(n)

\* Only a running chain from the root is started. What a timeout leaves running
\* when it expires, and an inner tree when its SubTree is reset from outside, stay
\* as they are and go on from there the next time. Other nodes begin anew, at their
\* first child.
LeftRunning(p) ==
  \/ Kind(p) = "timeout" /\ St(p) = "Failure"
  \/ Kind(p) = "subtree" /\ St(p) = "Idle"

OneLine ==
  /\ TypeOK /\ DelayHolds
  /\ \A p \in Nodes :
    /\ ~node[p].started => node[p].cur = 1
    /\ \A i \in 1..Len(Kids(p)) : node[Child(p, i)].started =>
         \/ node[p].started /\ (Kind(p) \in Composites => i = node[p].cur)
         \/ LeftRunning(p)

\* The tree's statuses, and what of it is started, fit together.
Coherent == Agreement /\ OneLine

\* "Guard child with event interrupt", "Blocks until event": an event in the queue
\* while its guard, or the node that waits for it, runs on the line of the root was
\* sent after the last tick.
Parent(n) == CHOOSE m \in Nodes : \E i \in 1..Len(Kids(m)) : Kids(m)[i] = n

OnLine(n) ==
  LET Line[m \in Nodes] == node[m].started /\ (m = 1 \/ Line[Parent(m)])
  IN  Line[n]

EventsHeard ==
  \A n \in Nodes : Kind(n) \in {"guard", "waitEvent"} /\ OnLine(n) =>
    events[tree[n].event] <= unseen[tree[n].event]

\* A tree that is ticked comes to an end, if no node waits for an event for ever.
Endless == \E n \in Nodes : Kind(n) = "waitEvent" /\ Arg(n) < 0

Ends ==
  (node[1].started /\ ~Endless) ~> (~node[1].started \/ paused)
=============================================================================
