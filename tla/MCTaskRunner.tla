---------------------------- MODULE MCTaskRunner ----------------------------
\* Small runners for TLC. A load says which tasks and descriptors the callers of a
\* behaviour have: all of them at once would be too many.
EXTENDS TaskRunner
CONSTANTS t1, t2, a, b, d, e
TwoThreads == {t1, t2}
TwoTasks == {a, b}
TwoDelayed == {d, e}
OneFd == {5}
OneDelay == {1}

VARIABLE load
Loads == {{a, b}, {a, d, 5}, {d, e}}
Within == posted' \cup watches' \cup readable' \subseteq load \cup {WakeFd}

LoadedInit == Init /\ load \in Loads

LoadedSpec ==
  /\ LoadedInit
  /\ [][Next /\ Within /\ UNCHANGED load]_<<vars, load>>
  /\ Fairness
=============================================================================
