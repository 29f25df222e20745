------------------------------ MODULE CallProfile ------------------------------
(***************************************************************************)
(* The performance tracer (src/src/Performance.c): the execute hooks       *)
(* around every PHP function, the frames and the buckets of a request, and *)
(* what RINIT and RSHUTDOWN do with them. What the report shows of the     *)
(* buckets is in TopFunctions, and both together in PerformanceReport.     *)
(***************************************************************************)
EXTENDS Naturals, Sequences, FiniteSets, FiniteSetsExt

CONSTANTS
  Fns,         \* user functions: class and name
  HashOf,      \* the hash_code of a function, from its name alone
  StartDepth,  \* seaslog.trace_performance_start_depth
  MaxCalls,    \* bound: traced or skipped calls of a request
  MaxInternal, \* bound: calls that are not traced, one inside the other
  MaxTime,     \* bound: the clock of a request
  MaxRequests  \* bound: requests

NoClass  == "no class"
Internal == [class |-> NoClass, name |-> "an internal function"]

ASSUME FnsAssumption == \A f \in Fns : DOMAIN f = {"class", "name"}
ASSUME HashAssumption ==
  \A f, g \in Fns : f.name = g.name => HashOf[f] = HashOf[g]
ASSUME BoundsAssumption ==
  /\ StartDepth \in Nat /\ MaxCalls \in Nat /\ MaxTime \in Nat \ {0}
  /\ MaxRequests \in Nat /\ MaxInternal \in Nat

Hashes == {HashOf[f] : f \in Fns}

VARIABLES
  requests,   \* requests begun
  running,    \* between RINIT and RSHUTDOWN
  sampled,    \* SEASLOG_G(trace_performance_sample_active)
  clock,      \* performance_microsecond(), from RINIT on
  php,        \* PHP's call stack, innermost first: what each hook returned
  stackLevel, \* SEASLOG_G(stack_level)
  frames,     \* SEASLOG_G(performance_frames), innermost first
  counters,   \* SEASLOG_G(function_hash_counters)
  buckets,    \* SEASLOG_G(performance_buckets): calls, wall_time of a key
  calls,      \* history: the calls of the request, in the order they began
  cut         \* history: exit() or a fatal error has cut calls of the request

vars == <<requests, running, sampled, clock, php, stackLevel, frames, counters,
          buckets, calls, cut>>

Pending == 0  \* end of a call that has not returned, or never will

Init ==
  /\ requests = 0 /\ running = FALSE /\ sampled = FALSE /\ clock = 0
  /\ php = << >> /\ stackLevel = 0 /\ frames = << >>
  /\ counters = [h \in Hashes |-> 0]
  /\ buckets = << >>
  /\ calls = << >> /\ cut = FALSE

\* seaslog_rinit_performance
RequestStart ==
  /\ ~running /\ requests < MaxRequests
  /\ requests' = requests + 1 /\ running' = TRUE
  /\ sampled' \in BOOLEAN
  /\ clock' = 1
  /\ stackLevel' = 0 /\ frames' = << >>
  /\ calls' = << >> /\ cut' = FALSE
  /\ UNCHANGED <<php, counters, buckets>>

\* RSHUTDOWN: seaslog_clear_performance reports the buckets, or drops them.
RequestEnd ==
  /\ running /\ php = << >>
  /\ running' = FALSE
  /\ IF sampled THEN stackLevel' = 0 /\ frames' = << >> /\ buckets' = << >>
                ELSE UNCHANGED <<stackLevel, frames, buckets>>
  /\ UNCHANGED <<requests, sampled, clock, php, counters, calls, cut>>

Tick ==
  /\ running /\ clock < MaxTime
  /\ clock' = clock + 1
  /\ UNCHANGED <<requests, running, sampled, php, stackLevel, frames, counters,
                 buckets, calls, cut>>

-----------------------------------------------------------------------------
(* performance_frame_begin *)

\* Seeded fault: the class is left out of the comparison.
SameFunction_NameOnly(f, g) == f.name = g.name

SameFunction(f, g) == f = g

\* The nearest frame of the same function, sought only if its counter says
\* there is one.
Ancestors(f) ==
  IF counters[HashOf[f]] > 0
    THEN {i \in DOMAIN frames : SameFunction(frames[i].fn, f)} ELSE {}

FrameLevel(f) ==
  IF Ancestors(f) = {} THEN (stackLevel + 1 + 1) - StartDepth
  ELSE frames[Min(Ancestors(f))].level

Frame(f) == [fn |-> f, level |-> FrameLevel(f), start |-> clock,
             call |-> Len(calls) + 1]

Record(f) ==
  calls' = Append(calls, [fn |-> f, start |-> clock, end |-> Pending,
                          above |-> php])

\* The hook leaves the call alone: no sample, or no user function.
CallUntraced(f) ==
  /\ running
  /\ Cardinality({i \in DOMAIN php : ~php[i].counted}) < MaxInternal
  /\ ~sampled \/ f = Internal
  /\ php' = <<[traced |-> FALSE, counted |-> FALSE, call |-> 0]>> \o php
  /\ UNCHANGED <<requests, running, sampled, clock, stackLevel, frames, counters,
                 buckets, calls, cut>>

\* SEASLOG_CONTINUE: the call is above the start depth.
CallSkipped(f) ==
  /\ running /\ sampled /\ Len(calls) < MaxCalls
  /\ stackLevel + 1 < StartDepth
  /\ stackLevel' = stackLevel + 1
  /\ Record(f)
  /\ php' = <<[traced |-> FALSE, counted |-> TRUE, call |-> Len(calls) + 1]>> \o php
  /\ UNCHANGED <<requests, running, sampled, clock, frames, counters, buckets,
                 cut>>

\* Seeded fault: only the first of several nested calls is counted.
CallTraced_CountsFirst(f) ==
  /\ running /\ sampled /\ Len(calls) < MaxCalls
  /\ stackLevel + 1 >= StartDepth
  /\ stackLevel' = stackLevel + 1
  /\ frames' = <<Frame(f)>> \o frames
  /\ counters' = [counters EXCEPT ![HashOf[f]] = IF Ancestors(f) = {} THEN @ + 1 ELSE @]
  /\ Record(f)
  /\ php' = <<[traced |-> TRUE, counted |-> TRUE, call |-> Len(calls) + 1]>> \o php
  /\ UNCHANGED <<requests, running, sampled, clock, buckets, cut>>

CallTraced(f) ==
  /\ running /\ sampled /\ Len(calls) < MaxCalls
  /\ stackLevel + 1 >= StartDepth
  /\ stackLevel' = stackLevel + 1
  /\ frames' = <<Frame(f)>> \o frames
  /\ counters' = [counters EXCEPT ![HashOf[f]] = @ + 1]
  /\ Record(f)
  /\ php' = <<[traced |-> TRUE, counted |-> TRUE, call |-> Len(calls) + 1]>> \o php
  /\ UNCHANGED <<requests, running, sampled, clock, buckets, cut>>

-----------------------------------------------------------------------------
(* performance_frame_end, and the hook after the call *)

\* Seeded fault: the bucket keeps the time of its last call only.
BucketProcess_LastOnly(fr) ==
  LET key == <<fr.fn, fr.level>>
      old == IF key \in DOMAIN buckets THEN buckets[key] ELSE [count |-> 0, wall |-> 0]
      new == [count |-> old.count + 1, wall |-> clock - fr.start]
  IN buckets' = [k \in DOMAIN buckets \cup {key} |-> IF k = key THEN new ELSE buckets[k]]

BucketProcess(fr) ==
  LET key == <<fr.fn, fr.level>>
      old == IF key \in DOMAIN buckets THEN buckets[key] ELSE [count |-> 0, wall |-> 0]
      new == [count |-> old.count + 1, wall |-> old.wall + (clock - fr.start)]
  IN buckets' = [k \in DOMAIN buckets \cup {key} |-> IF k = key THEN new ELSE buckets[k]]

Ended(c) == calls' = [calls EXCEPT ![c].end = clock]

ReturnTraced ==
  /\ php # << >> /\ Head(php).traced
  /\ BucketProcess(Head(frames))
  /\ stackLevel' = stackLevel - 1
  /\ counters' = [counters EXCEPT ![HashOf[Head(frames).fn]] = @ - 1]
  /\ frames' = Tail(frames)
  /\ Ended(Head(php).call)
  /\ php' = Tail(php)
  /\ UNCHANGED <<requests, running, sampled, clock, cut>>

\* Seeded fault: a skipped call does not give its level back.
ReturnSkipped_KeepsLevel ==
  /\ php # << >> /\ Head(php).counted /\ ~Head(php).traced
  /\ Ended(Head(php).call)
  /\ php' = Tail(php)
  /\ UNCHANGED <<requests, running, sampled, clock, stackLevel, frames, counters,
                 buckets, cut>>

ReturnSkipped ==
  /\ php # << >> /\ Head(php).counted /\ ~Head(php).traced
  /\ stackLevel' = stackLevel - 1
  /\ Ended(Head(php).call)
  /\ php' = Tail(php)
  /\ UNCHANGED <<requests, running, sampled, clock, frames, counters, buckets,
                 cut>>

ReturnUntraced ==
  /\ php # << >> /\ ~Head(php).counted
  /\ php' = Tail(php)
  /\ UNCHANGED <<requests, running, sampled, clock, stackLevel, frames, counters,
                 buckets, calls, cut>>

\* exit() or a fatal error leaves all calls at once, and no hook returns.
\* Shutdown functions and destructors may be called after it.
Bailout ==
  /\ php # << >>
  /\ php' = << >>
  /\ cut' = TRUE
  /\ UNCHANGED <<requests, running, sampled, clock, stackLevel, frames, counters,
                 buckets, calls>>

-----------------------------------------------------------------------------
Trace ==
  \/ RequestStart \/ Tick
  \/ \E f \in Fns \cup {Internal} : CallUntraced(f)
  \/ \E f \in Fns : CallSkipped(f) \/ CallTraced(f)
  \/ ReturnTraced \/ ReturnSkipped \/ ReturnUntraced \/ Bailout

Next == Trace \/ RequestEnd

Spec == Init /\ [][Next]_vars

-----------------------------------------------------------------------------
(* Properties *)

TypeOK ==
  /\ requests \in 0..MaxRequests /\ clock \in 0..MaxTime
  /\ running \in BOOLEAN /\ sampled \in BOOLEAN
  /\ cut \in BOOLEAN
  /\ stackLevel \in 0..MaxCalls
  /\ counters \in [Hashes -> Nat]
  /\ \A k \in DOMAIN buckets :
       k[1] \in Fns /\ buckets[k].count \in Nat \ {0} /\ buckets[k].wall \in Nat

\* As long as no bailout cuts calls of the request, its level is the number of
\* user functions PHP is in, and its frames are theirs.
LevelBalanced ==
  running /\ sampled /\ ~cut =>
    /\ stackLevel = Cardinality({i \in DOMAIN php : php[i].counted})
    /\ Len(frames) = Cardinality({i \in DOMAIN php : php[i].traced})

\* What a record cs of calls says of its call c. How deep in user functions c is:
Depth(cs, c) ==
  Cardinality({i \in DOMAIN cs[c].above : cs[c].above[i].counted}) + 1

\* The calls of the same function, from the start depth on, that c is in.
Same(cs, c) ==
  {i \in DOMAIN cs[c].above :
     LET x == cs[c].above[i]
     IN x.counted /\ Depth(cs, x.call) >= StartDepth /\ cs[x.call].fn = cs[c].fn}

\* The level a call should have, from the calls that it was made in: that of
\* the nearest of the same function, or else its own.
LevelsOf(cs) ==
  LET level[c \in DOMAIN cs] ==
        IF Same(cs, c) = {} THEN (Depth(cs, c) + 1) - StartDepth
        ELSE level[cs[c].above[Min(Same(cs, c))].call]
  IN level

\* The calls that should be in the buckets, under which key, with what time.
Returned(cs) ==
  {c \in DOMAIN cs : cs[c].end # Pending /\ Depth(cs, c) >= StartDepth}
KeyOf(cs, c) == <<cs[c].fn, LevelsOf(cs)[c]>>
Done(cs, k)  == {c \in Returned(cs) : KeyOf(cs, c) = k}
Spent(cs)    == [c \in DOMAIN cs |-> cs[c].end - cs[c].start]

\* At every moment of a sampled request that no bailout has cut, the buckets
\* are what its call tree says: each returned call from the start depth on is
\* counted once, with its wall time, at its level - whatever collides in the
\* hash, however calls nest, and whatever an earlier request left behind when
\* it was cut.
ProfileExact ==
  running /\ sampled /\ ~cut =>
    /\ DOMAIN buckets = {KeyOf(calls, c) : c \in Returned(calls)}
    /\ \A k \in DOMAIN buckets :
         /\ buckets[k].count = Cardinality(Done(calls, k))
         /\ buckets[k].wall = SumFunctionOnSet(Spent(calls), Done(calls, k))
=============================================================================
