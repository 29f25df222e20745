--------------------------- MODULE PerformanceReport ---------------------------
(***************************************************************************)
(* The tracer and its report together: the requests of CallProfile, and at *)
(* the end of a sampled one the report of TopFunctions over the buckets    *)
(* that the calls have left (seaslog_clear_performance).                   *)
(***************************************************************************)
EXTENDS CallProfile

CONSTANTS
  LongRequests, \* buckets of requests with more calls than MaxCalls
  MaxDepth,     \* seaslog.trace_performance_max_depth
  PerDepth,     \* seaslog.trace_performance_max_functions_per_depth
  MinWall       \* seaslog.trace_performance_min_function_wall_time

ASSUME ReportAssumption ==
  /\ MaxDepth \in Nat /\ PerDepth \in Nat /\ MinWall \in Nat
  /\ \A bs \in LongRequests : \A b \in bs :
       b.level \in Nat \ {0} /\ b.wall \in Nat /\ b.hash \in Nat

VARIABLES
  reporting, \* inside process_seaslog_performance_log
  followed,  \* history: the calls of the request were followed one by one
  todo, seen, slots \* see TopFunctions

Top == INSTANCE TopFunctions

report == <<reporting, followed, todo, seen, slots>>
reportVars == <<vars, report>>

ReportInit ==
  /\ Init
  /\ reporting = FALSE /\ followed = TRUE
  /\ todo = {} /\ seen = {} /\ slots = Top!NoSlots

BucketsLeft ==
  {[fn |-> k[1], hash |-> HashOf[k[1]], level |-> k[2], wall |-> buckets[k].wall] :
     k \in DOMAIN buckets}

ReportStart ==
  /\ running /\ sampled /\ php = << >> /\ ~reporting
  /\ reporting' = TRUE /\ todo' = BucketsLeft
  /\ UNCHANGED <<vars, followed, seen, slots>>

\* A request of more calls than are followed here: only its buckets are known.
ReportLong ==
  /\ running /\ sampled /\ php = << >> /\ ~reporting
  /\ requests = 1 /\ calls = << >>
  /\ reporting' = TRUE /\ followed' = FALSE
  /\ todo' \in LongRequests
  /\ UNCHANGED <<vars, seen, slots>>

ReportBucket(b) ==
  /\ reporting
  /\ Top!Look(b)
  /\ UNCHANGED <<vars, reporting, followed>>

\* The report is logged, and the request ends.
ReportEnd ==
  /\ reporting /\ todo = {}
  /\ RequestEnd
  /\ reporting' = FALSE /\ followed' = TRUE
  /\ todo' = {} /\ seen' = {} /\ slots' = Top!NoSlots

\* Without a report a request ends that is not sampled, or took less than
\* trace_performance_min_wall_time: RequestEnd drops its buckets.
ReportNext ==
  \/ ~reporting /\ Next /\ UNCHANGED report
  \/ ReportStart \/ ReportLong \/ ReportEnd
  \/ \E b \in todo : ReportBucket(b)

ReportSpec == ReportInit /\ [][ReportNext]_reportVars

-----------------------------------------------------------------------------
(* Properties *)

\* README: "Maximum number of functions per layer in descending order of
\* wall_time": after any number of buckets, in any order, a level shows as
\* many of those seen as there are ranks, none twice, none that took less
\* than one it leaves out, the longest first.
ReportIsTop == Top!ReportIsTop

\* When the report is made, it shows of each level the functions of the call
\* tree that took the most time there: what ran longer than a function that
\* is shown is shown too, with the time the tree gives it - over everything
\* between the first call and the report that adds up or drops times.
ReportIsProfile ==
  reporting /\ todo = {} /\ followed /\ ~cut =>
    \A l \in Top!Levels :
      LET time(f) == SumFunctionOnSet(Spent(calls), {c \in DOMAIN calls :
                       Depth(calls, c) >= StartDepth /\ KeyOf(calls, c) = <<f, l>>})
          shown == {b.fn : b \in Top!ShownBuckets(l)}
      IN /\ \A b \in Top!ShownBuckets(l) : b.wall = time(b.fn)
         /\ \A f \in Fns \ shown :
              time(f) < MinWall \/ (Cardinality(shown) = PerDepth
                                      /\ \A g \in shown : time(f) <= time(g))
=============================================================================
