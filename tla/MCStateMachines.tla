-------------------------- MODULE MCStateMachines ---------------------------
\* A machine of three states with two applications, and small trees with every kind
\* of node, under and above those that reset, interrupt or abandon their children.
\* A signal, and an event manager with a group of its own.
\* They do not meet: a behaviour exercises one and the others rest.
EXTENDS Fsm
CONSTANTS stop, go, Losses, Trees, u1, u2, worker, s1, s2, Modes

MCStates == {1, 2, 3}
MCEvents == {11, 12}
Cycle ==
  [s \in MCStates |->
    [e \in MCEvents |->
      CASE s = 1 /\ e = 11 -> <<2>>
        [] s = 1 /\ e = 12 -> <<3, 2>>
        [] s = 2 /\ e = 11 -> <<3>>
        [] s = 3 /\ e = 11 -> <<1, 3>>
        [] OTHER -> <<>>]]
Raising == [reenter |-> {"enter", "update"}, throw |-> {}, recordFailed |-> FALSE]
Throwing == [reenter |-> {"update"}, throw |-> {"guard", "update"}, recordFailed |-> TRUE]
MCApps == {Raising, Throwing}
TwoSizes == {1, 3}

TwoUsers == {u1, u2}
TwoSubs == {s1, s2}

VARIABLES used, tree, node, queued, paused, ticks, sends, unseen,
          mode, stopped, slots, nextId, handle, inCalls, tasks, off, emissions, heard, swept
eventVars ==
  <<mode, stopped, slots, nextId, handle, inCalls, tasks, off, emissions, heard, swept>>
Signals == INSTANCE Events WITH
  Users <- TwoUsers, Subs <- TwoSubs, MaxEmissions <- 2, MaxIds <- 3,
  stop <- stopped, stack <- inCalls

TwoEvents == {stop, go}
Tree == INSTANCE BehaviorTree WITH
  Events <- TwoEvents, events <- queued, Patience <- 1, MaxAge <- 2, MaxSends <- 2

N(kind, kids, arg) == [kind |-> kind, kids |-> kids, arg |-> arg]
On(kind, kids, arg, event) ==
  [kind |-> kind, kids |-> kids, arg |-> arg, event |-> event, result |-> "Failure"]

GuardedSequence ==
  << On("guard", <<2>>, 0, stop), N("sequence", <<3, 4, 5>>, 0), N("action", <<>>, 0),
     On("waitEvent", <<>>, -1, go), N("retry", <<6>>, 2), N("action", <<>>, 0) >>

Deadlines ==
  << N("sequence", <<2, 6>>, 0), N("timeout", <<3>>, 1), N("sequence", <<4, 5>>, 0),
     N("action", <<>>, 0), N("wait", <<>>, 2), N("inverter", <<7>>, 0),
     N("selector", <<8, 9>>, 0), N("action", <<>>, 0), N("failure", <<>>, 0) >>

Repeated ==
  << N("repeater", <<2>>, 2), N("fallback", <<3, 6>>, 0), N("random", <<4, 5>>, 0),
     N("action", <<>>, 0), N("action", <<>>, 0), N("subtree", <<7>>, 0),
     N("action", <<>>, 0) >>

GuardedSubTree ==
  << N("retry", <<2>>, 2), On("guard", <<3>>, 0, stop), N("subtree", <<4>>, 0),
     N("sequence", <<5, 6>>, 0), N("action", <<>>, 0), N("action", <<>>, 0) >>

Delayed ==
  << N("selector", <<2, 3>>, 0), On("waitEvent", <<>>, 1, go), N("sequence", <<4, 6>>, 0),
     N("delay", <<5>>, 1), N("action", <<>>, 0), N("success", <<>>, 0) >>

AllTrees == {GuardedSequence, Deadlines, Repeated, GuardedSubTree, Delayed}

Sent == [queued |-> FALSE, owns |-> FALSE, workers |-> {}, races |-> FALSE,
         emitters |-> {u1}, changers |-> {u1, u2}]
Owned == [Sent EXCEPT !.queued = TRUE, !.owns = TRUE, !.workers = {worker},
                      !.changers = {u2, worker}]
AllModes == {Sent, Owned}

treeVars == <<tree, node, queued, paused, ticks, sends, unseen>>

Started ==
  /\ Init /\ Tree!Init /\ Signals!Init /\ used \in {"fsm", "tree", "events"}
  \* What rests has one initial state.
  /\ (used = "tree" \/ tree = CHOOSE t \in Trees : TRUE)
  /\ (used = "fsm" \/ app = CHOOSE a \in Apps : TRUE)
  /\ (used = "events" \/ mode = CHOOSE m \in Modes : TRUE)

Step ==
  \/ used = "fsm" /\ Next /\ UNCHANGED <<used, treeVars, eventVars>>
  \/ used = "tree" /\ Tree!Next /\ UNCHANGED <<used, vars, eventVars>>
  \/ used = "events" /\ Signals!Next /\ UNCHANGED <<used, vars, treeVars>>

allVars == <<used, vars, treeVars, eventVars>>
All == Started /\ [][Step]_allVars

\* One of the two is used, so a pair that is weakly fair makes both of it so.
Fairness ==
  /\ []<><<TRUE>>_ticks \/ []<>paused \/ []<>(used # "tree")
  /\ WF_allVars(\/ used = "tree" /\ Tree!Advance /\ UNCHANGED <<used, vars, eventVars>>
                \/ used = "events" /\ Signals!ThreadsStep /\ UNCHANGED <<used, vars, treeVars>>)

FairSpec == All /\ Fairness

\* The machine's history is that of its last moves (fsm.cc:425, addToHistory), and a
\* tree's nodes agree with each other on what runs and has heard an event (nodes.h).
Coherent  == HistoryTracksMoves /\ Tree!Coherent /\ Tree!EventsHeard
Ends      == Tree!Ends /\ Signals!Dispatched
Emissions == Signals!Emissions
=============================================================================
