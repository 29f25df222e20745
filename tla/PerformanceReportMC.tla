-------------------------- MODULE PerformanceReportMC --------------------------
(* Small instances of PerformanceReport: a method, and one of the same name, *)
(* and so of the same hash, in another class; and long requests with sets of *)
(* up to four functions.                                                     *)
EXTENDS PerformanceReport

Fn1 == [class |-> "A", name |-> "run"]
Fn2 == [class |-> "B", name |-> "run"]

MCFns == {Fn1, Fn2}
Collide == [f \in MCFns |-> 1]

Names == {"f", "g", "h", "i"}

\* Each function at most once, on one of two levels, one beyond the depth. No
\* hash code and no wall time is 0: the marks of an unused result.
MCLongRequests ==
  UNION { { {[fn |-> x, hash |-> 1, level |-> at[x][1], wall |-> at[x][2]] : x \in fs} :
            at \in [fs -> {1, 2} \X (1..3)] } : fs \in SUBSET Names }
=============================================================================
