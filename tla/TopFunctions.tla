------------------------------ MODULE TopFunctions ------------------------------
(***************************************************************************)
(* What the performance report shows (process_seaslog_performance_log of   *)
(* src/src/Performance.c): of the buckets of a request, for each level up  *)
(* to trace_performance_max_depth, the functions that took the most wall   *)
(* time. Buckets come in the order of their slots in the hash table: any.  *)
(***************************************************************************)
EXTENDS Naturals, Sequences, FiniteSets, FiniteSetsExt

CONSTANTS
  MaxDepth, \* seaslog.trace_performance_max_depth
  PerDepth, \* seaslog.trace_performance_max_functions_per_depth
  MinWall   \* seaslog.trace_performance_min_function_wall_time

VARIABLES
  todo, \* performance_buckets: the buckets not yet looked at
  seen, \* history: the others
  slots \* result_array: the results of each level

Levels == 1..MaxDepth
Ranks  == 1..PerDepth
NoResult == [fn |-> "none", hash |-> 0, level |-> 0, wall |-> 0]

NoSlots == [l \in Levels |-> [n \in Ranks |-> NoResult]]

\* Looks like a result that was never filled.
Unused(result) == result.hash = 0 /\ result.wall = 0

Swap(row, r) == [row EXCEPT ![r] = row[r - 1], ![r - 1] = row[r]]

\* Seeded fault: the shift starts one rank too high.
Shifted_Short(row, n) ==
  LET after[r \in (n + 1)..PerDepth] ==
        LET sofar == IF r >= PerDepth - 1 THEN row ELSE after[r + 1]
        IN IF Unused(sofar[r - 1]) THEN sofar ELSE Swap(sofar, r)
  IN IF n = PerDepth THEN row ELSE after[n + 1]

\* The results from rank n on each move down by one; the last one, or an
\* unused one, comes to rank n.
Shifted(row, n) ==
  LET after[r \in (n + 1)..PerDepth] ==
        LET sofar == IF r = PerDepth THEN row ELSE after[r + 1]
        IN IF Unused(sofar[r - 1]) THEN sofar ELSE Swap(sofar, r)
  IN IF n = PerDepth THEN row ELSE after[n + 1]

Yields(row, n, b) == row[n].wall < b.wall

\* The first rank whose result the bucket takes the place of.
Insert(row, b) ==
  LET first == row # << >> /\ row[1].hash = 0
      ranks == {n \in Ranks : Yields(row, n, b)}
  IN IF first THEN [row EXCEPT ![1] = b]
     ELSE IF ranks = {} THEN row
     ELSE [Shifted(row, Min(ranks)) EXCEPT ![Min(ranks)] = b]

Eligible(b) == b.level <= MaxDepth /\ b.wall >= MinWall

Look(b) ==
  /\ todo' = todo \ {b} /\ seen' = seen \cup {b}
  /\ slots' = IF Eligible(b) THEN [slots EXCEPT ![b.level] = Insert(@, b)] ELSE slots

-----------------------------------------------------------------------------
(* Properties *)

\* The results that the report shows of a level, and the buckets that it has.
Shown(l) == {n \in Ranks : slots[l][n].hash > 0}
ShownBuckets(l) == {slots[l][n] : n \in Shown(l)}
Candidates(l) == {b \in seen : b.level = l /\ Eligible(b)}

\* Of the buckets seen: after any number of buckets, in any order, a level shows as
\* many of those seen as there are ranks, none twice, none that took less
\* than one it leaves out, the longest first.
ReportIsTop ==
  \A l \in Levels :
    /\ ShownBuckets(l) \subseteq Candidates(l)
    /\ Cardinality(ShownBuckets(l)) = Cardinality(Shown(l))
    /\ Cardinality(Shown(l)) = Min({PerDepth, Cardinality(Candidates(l))})
    /\ \A b \in Candidates(l) \ ShownBuckets(l) :
         \A c \in ShownBuckets(l) : b.wall <= c.wall
    /\ \A m, n \in Shown(l) : m < n => slots[l][m].wall >= slots[l][n].wall
=============================================================================
