------------------------------ MODULE MCEventLog ------------------------------
(* Instances of EventLog for TLC: who appends through which instance. *)
EXTENDS EventLog
CONSTANTS a, b, t1, t2, t3
TwoLogs == {a, b}
ThreeThreads == {t1, t2, t3}
TwoThreads == {t1, t3}
HomeOf == [t \in Threads |-> IF t = t3 THEN b ELSE a]
=============================================================================
