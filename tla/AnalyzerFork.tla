------------------------------ MODULE AnalyzerFork ------------------------------
(***************************************************************************)
(* The parallel run of SeasLogAnalyzer (Analyzer/core/analyzer/pcntl.php): *)
(* the analyses of config.ini are cut into batches, a master process forks *)
(* a child for each, and may wait for it. An analysis that throws ends its *)
(* child, and pcntl_fork may fail.                                         *)
(***************************************************************************)
EXTENDS Naturals, Sequences, Functions

CONSTANTS
  Configs, \* settings of a run: the number of analyses and fork_count
  MaxFork, \* the largest fork_count
  Waits    \* values of setWait

ASSUME ConfigsAssumption ==
  MaxFork \in Nat /\ \A c \in Configs : c.analyses \in Nat /\ c.fork \in 1..MaxFork
ASSUME WaitsAssumption == Waits \subseteq BOOLEAN

VARIABLES
  config,   \* the settings
  waitFlag, \* whether the master waits for a child before the next fork
  master,   \* "forking", "waiting" in waitpid, "done", or "failed"
  children, \* the processes forked: whether they run, and their analyses left
  ran,      \* history: how often an analysis was run to its end
  broken    \* history: analyses that failed, and those after them in a batch

vars == <<config, waitFlag, master, children, ran, broken>>

Analyses == 1..config.analyses
InOrder  == [a \in Analyses |-> a]

\* array_chunk
Chunks(s, size) ==
  [i \in 1..((Len(s) + size - 1) \div size) |->
     SubSeq(s, (i - 1) * size + 1, IF i * size < Len(s) THEN i * size ELSE Len(s))]

\* self::$forkCount after getBatchArray
ForkCount ==
  IF config.fork > 1 /\ config.analyses <= config.fork
    THEN config.analyses ELSE config.fork

\* Seeded fault: the analyses left over by the division are dropped.
BatchArray_DropsRest ==
  LET n == config.analyses
      k == config.fork
      rest == n % k
  IN IF k = 1 THEN <<InOrder>>
     ELSE IF n <= k THEN Chunks(InOrder, 1)
     ELSE IF rest = 0 THEN Chunks(InOrder, k)
     ELSE Chunks(SubSeq(InOrder, 1, n - rest), n \div k)

\* getBatchArray
BatchArray ==
  LET n == config.analyses
      k == config.fork
      rest == n % k
      even == Chunks(SubSeq(InOrder, 1, n - rest), n \div k)
  IN IF k = 1 THEN <<InOrder>>
     ELSE IF n <= k THEN Chunks(InOrder, 1)
     ELSE IF rest = 0 THEN Chunks(InOrder, k)
     ELSE [even EXCEPT ![k] = @ \o SubSeq(InOrder, n - rest + 1, n)]

\* $batchArray[$i], if there is one
Batch(i) == IF i <= Len(BatchArray) THEN BatchArray[i] ELSE << >>

Init ==
  /\ config \in Configs /\ waitFlag \in Waits
  /\ master = "forking" /\ children = << >>
  /\ ran = [a \in Analyses |-> 0] /\ broken = {}

-----------------------------------------------------------------------------
(* The master *)

Fork ==
  /\ master = "forking" /\ Len(children) < ForkCount
  /\ children' = Append(children,
                        [runs |-> TRUE, left |-> Batch(Len(children) + 1)])
  /\ master' = IF waitFlag THEN "waiting" ELSE "forking"
  /\ UNCHANGED <<config, waitFlag, ran, broken>>

\* The exception 'analyzer couldn`t fork'
ForkFail ==
  /\ master = "forking" /\ Len(children) < ForkCount
  /\ master' = "failed"
  /\ UNCHANGED <<config, waitFlag, children, ran, broken>>

\* Seeded fault: wait for a child that has done all its analyses.
Waited_Success ==
  /\ master = "waiting"
  /\ LET c == children[Len(children)] IN ~c.runs /\ c.left = << >>
  /\ master' = "forking"
  /\ UNCHANGED <<config, waitFlag, children, ran, broken>>

Waited ==
  /\ master = "waiting" /\ ~children[Len(children)].runs
  /\ master' = "forking"
  /\ UNCHANGED <<config, waitFlag, children, ran, broken>>

MasterDone ==
  /\ master = "forking" /\ Len(children) = ForkCount
  /\ master' = "done"
  /\ UNCHANGED <<config, waitFlag, children, ran, broken>>

-----------------------------------------------------------------------------
(* A child *)

Analyze(c) ==
  /\ children[c].runs /\ children[c].left # << >>
  /\ ran' = [ran EXCEPT ![Head(children[c].left)] = @ + 1]
  /\ children' = [children EXCEPT ![c].left = Tail(@)]
  /\ UNCHANGED <<config, waitFlag, master, broken>>

\* An exception that nobody catches
AnalyzeThrow(c) ==
  /\ children[c].runs /\ children[c].left # << >>
  /\ broken' = broken \cup Range(children[c].left)
  /\ children' = [children EXCEPT ![c].runs = FALSE]
  /\ UNCHANGED <<config, waitFlag, master, ran>>

\* Seeded fault: after its batch a child is not ended and forks on, as the
\* master does; here its first step, which runs the next batch too.
ChildExit_RunsOn(c) ==
  /\ children[c].runs /\ children[c].left = << >>
  /\ children' = IF c < ForkCount
                   THEN Append([children EXCEPT ![c].runs = FALSE],
                               [runs |-> TRUE, left |-> Batch(c + 1)])
                   ELSE [children EXCEPT ![c].runs = FALSE]
  /\ UNCHANGED <<config, waitFlag, master, ran, broken>>

ChildExit(c) ==
  /\ children[c].runs /\ children[c].left = << >>
  /\ children' = [children EXCEPT ![c].runs = FALSE]
  /\ UNCHANGED <<config, waitFlag, master, ran, broken>>

-----------------------------------------------------------------------------
MasterStep == Fork \/ ForkFail \/ Waited \/ MasterDone
ChildStep(c) == Analyze(c) \/ AnalyzeThrow(c) \/ ChildExit(c)

Next == MasterStep \/ \E c \in DOMAIN children : ChildStep(c)

Spec == Init /\ [][Next]_vars

\* The operating system runs every process on.
FairSpec ==
  /\ Spec
  /\ WF_vars(MasterStep)
  /\ \A c \in 1..MaxFork : WF_vars(c \in DOMAIN children /\ ChildStep(c))

-----------------------------------------------------------------------------
(* Properties *)

TypeOK ==
  /\ config \in Configs /\ waitFlag \in Waits
  /\ master \in {"forking", "waiting", "done", "failed"}
  /\ Len(children) <= ForkCount
  /\ \A c \in DOMAIN children :
       children[c].runs \in BOOLEAN /\ children[c].left \in Seq(Analyses)
  /\ ran \in [Analyses -> 0..1] /\ broken \subseteq Analyses

\* The comment of getBatchArray: the analyses are given to the processes "on
\* average, and the last process gets the most": when master and children
\* are through, every analysis was run once, unless an exception or a failed
\* fork came before it; and none is ever run twice.
AllRunOnce ==
  /\ \A a \in Analyses : ran[a] <= IF a \in broken THEN 0 ELSE 1
  /\ master = "done" /\ (\A c \in DOMAIN children : ~children[c].runs) =>
       \A a \in Analyses : ran[a] = 1 \/ a \in broken

\* The master comes to its end, whatever its children meet.
MasterEnds == <>(master \in {"done", "failed"})
=============================================================================
