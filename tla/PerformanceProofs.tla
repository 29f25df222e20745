--------------------------- MODULE PerformanceProofs ---------------------------
(***************************************************************************)
(* Proofs about CallProfile and PerformanceReport, for every set of        *)
(* functions, every hash, setting and bound: the level and the frames of   *)
(* the tracer follow the calls, the buckets are exactly what the call tree *)
(* says, and the report shows of each level the longest functions.         *)
(***************************************************************************)
EXTENDS PerformanceReport, FiniteSetTheorems, SequenceTheorems,
        WellFoundedInduction, TLAPS

USE BoundsAssumption

-----------------------------------------------------------------------------
(* How many elements of a sequence are in a set *)

Marks(s, C)  == {i \in 1..Len(s) : s[i] \in C}
Number(s, C) == Cardinality(Marks(s, C))

LEMMA MarksFinite ==
  ASSUME NEW S, NEW s \in Seq(S), NEW C
  PROVE  /\ IsFiniteSet(Marks(s, C)) /\ Number(s, C) \in Nat
         /\ Number(s, C) <= Len(s)
<1>1. Len(s) \in Nat
  OBVIOUS
<1>2. IsFiniteSet(1..Len(s)) /\ Cardinality(1..Len(s)) = Len(s)
  BY <1>1, FS_Interval
<1>3. Marks(s, C) \in SUBSET (1..Len(s))
  BY DEF Marks
<1>4. IsFiniteSet(Marks(s, C)) /\ Cardinality(Marks(s, C)) <= Len(s)
  BY <1>2, <1>3, FS_Subset
<1> QED BY <1>4, FS_CardinalityType DEF Number

LEMMA Pushed ==
  ASSUME NEW S, NEW x \in S, NEW s \in Seq(S)
  PROVE  /\ <<x>> \o s \in Seq(S) /\ Len(<<x>> \o s) = Len(s) + 1
         /\ (<<x>> \o s)[1] = x
         /\ \A i \in 2..(Len(s) + 1) : (<<x>> \o s)[i] = s[i - 1]
<1>1. <<x>> \in Seq(S) /\ Len(<<x>>) = 1 /\ <<x>>[1] = x
  OBVIOUS
<1>2. /\ <<x>> \o s \in Seq(S) /\ Len(<<x>> \o s) = Len(s) + 1
      /\ \A i \in 1..(Len(s) + 1) :
           (<<x>> \o s)[i] = IF i <= 1 THEN <<x>>[i] ELSE s[i - 1]
  BY <1>1, ConcatProperties
<1>3. Len(s) \in Nat
  OBVIOUS
<1> QED BY <1>1, <1>2, <1>3

LEMMA NumberPushed ==
  ASSUME NEW S, NEW x \in S, NEW s \in Seq(S), NEW C
  PROVE  Number(<<x>> \o s, C) = Number(s, C) + IF x \in C THEN 1 ELSE 0
<1> DEFINE t == <<x>> \o s
           M == Marks(s, C)
           T == {i + 1 : i \in M}
<1>1. /\ t \in Seq(S) /\ Len(t) = Len(s) + 1 /\ t[1] = x /\ Len(s) \in Nat
      /\ \A i \in 2..(Len(s) + 1) : t[i] = s[i - 1]
  BY Pushed
<1> HIDE DEF t
<1>2. IsFiniteSet(M) /\ Cardinality(M) \in Nat /\ M \subseteq 1..Len(s)
  BY MarksFinite DEF Number, Marks
<1>3. [i \in M |-> i + 1] \in Bijection(M, T)
  BY <1>2 DEF Bijection, Injection, Surjection, IsInjective
<1>4. IsFiniteSet(T) /\ Cardinality(T) = Cardinality(M)
  BY <1>2, <1>3, FS_Bijection DEF ExistsBijection
<1>5. 1 \notin T
  BY <1>2
<1>6. Marks(t, C) = IF x \in C THEN T \cup {1} ELSE T
  <2>1. ASSUME NEW i \in Marks(t, C), i # 1 PROVE i \in T
    <3>1. i - 1 \in 1..Len(s) /\ t[i] = s[i - 1] /\ i = (i - 1) + 1
      BY <1>1, <2>1 DEF Marks
    <3>2. i - 1 \in M
      BY <3>1 DEF Marks
    <3> QED BY <3>1, <3>2
  <2>2. ASSUME NEW i \in M PROVE i + 1 \in Marks(t, C)
    <3>1. i + 1 \in 2..(Len(s) + 1) /\ (i + 1) - 1 = i
      BY <1>1, <1>2
    <3> QED BY <1>1, <3>1 DEF Marks
  <2>3. 1 \in Marks(t, C) <=> x \in C
    BY <1>1 DEF Marks
  <2> QED BY <1>5, <2>1, <2>2, <2>3
<1>7. Cardinality(T \cup {1}) = Cardinality(M) + 1
  BY <1>4, <1>5, FS_AddElement
<1> QED BY <1>2, <1>4, <1>6, <1>7 DEF Number, t

LEMMA NumberPopped ==
  ASSUME NEW S, NEW s \in Seq(S), s # << >>, NEW C
  PROVE  /\ Head(s) \in S /\ Tail(s) \in Seq(S) /\ Len(Tail(s)) = Len(s) - 1 /\ Len(s) >= 1
         /\ Number(s, C) = Number(Tail(s), C) + IF Head(s) \in C THEN 1 ELSE 0
<1>1. Len(s) \in Nat /\ Len(s) # 0
  BY EmptySeq
<1>2. /\ Head(s) \in S /\ Tail(s) \in Seq(S) /\ Len(Tail(s)) = Len(s) - 1
      /\ Head(s) = s[1] /\ \A i \in 1..(Len(s) - 1) : Tail(s)[i] = s[i + 1]
  BY <1>1, HeadTailProperties
<1>3. <<Head(s)>> \o Tail(s) = s
  <2> DEFINE t == <<Head(s)>> \o Tail(s)
  <2>1. /\ t \in Seq(S) /\ Len(t) = Len(Tail(s)) + 1 /\ t[1] = Head(s)
        /\ \A i \in 2..(Len(Tail(s)) + 1) : t[i] = Tail(s)[i - 1]
    BY <1>2, Pushed
  <2> HIDE DEF t
  <2>2. ASSUME NEW i \in 1..Len(s) PROVE t[i] = s[i]
    <3>1. CASE i = 1
      BY <1>2, <2>1, <3>1
    <3>2. CASE i # 1
      <4>1. i \in 2..Len(s) /\ i - 1 \in 1..(Len(s) - 1) /\ (i - 1) + 1 = i
        BY <1>1, <3>2
      <4> QED BY <1>1, <1>2, <2>1, <4>1
    <3> QED BY <3>1, <3>2
  <2>3. Len(t) = Len(s)
    BY <1>1, <1>2, <2>1
  <2>4. t = s
    BY <2>1, <2>2, <2>3, SeqEqual
  <2> QED BY <2>4 DEF t
<1>4. \A x \in S, t \in Seq(S) :
        Number(<<x>> \o t, C) = Number(t, C) + IF x \in C THEN 1 ELSE 0
  BY NumberPushed
<1>5. Number(<<Head(s)>> \o Tail(s), C) = Number(Tail(s), C) + IF Head(s) \in C THEN 1 ELSE 0
  <2> DEFINE x == Head(s)
             t == Tail(s)
  <2>1. x \in S /\ t \in Seq(S)
    BY <1>2
  <2> HIDE DEF x, t
  <2>2. Number(<<x>> \o t, C) = Number(t, C) + IF x \in C THEN 1 ELSE 0
    BY <1>4, <2>1
  <2> QED BY <2>2 DEF x, t
<1>6. Number(s, C) = Number(Tail(s), C) + IF Head(s) \in C THEN 1 ELSE 0
  BY <1>3, <1>5, Zenon
<1>7. Len(s) >= 1
  BY <1>1
<1> QED BY <1>2, <1>6, <1>7, Zenon

LEMMA Minimum ==
  ASSUME NEW T \in SUBSET Nat, T # {}
  PROVE  Min(T) \in T /\ \A y \in T : Min(T) <= y
<1> DEFINE R == OpToRel(<, Nat)
<1>1. IsWellFoundedOn(R, Nat)
  BY NatLessThanWellFounded
<1>2. R = {p \in Nat \X Nat : p[1] < p[2]}
  BY DEF OpToRel
<1> HIDE DEF R
<1>3. PICK x \in T : \A y \in T : <<y, x>> \notin R
  BY <1>1, WFMin
<1>4. ASSUME NEW y \in T PROVE x <= y
  <2>1. <<y, x>> \in Nat \X Nat /\ x \in Nat /\ y \in Nat
    OBVIOUS
  <2>2. ~(y < x)
    BY <1>2, <1>3, <2>1
  <2> QED BY <2>1, <2>2
<1> QED BY <1>4 DEF Min

-----------------------------------------------------------------------------
(* The inductive invariant *)

PhpCalls == {r \in [traced : BOOLEAN, counted : BOOLEAN, call : Nat] :
               r.traced => r.counted}
Counted  == {r \in PhpCalls : r.counted}
Traced   == {r \in PhpCalls : r.traced}
FrameSet == [fn : Fns, level : Nat, start : Nat, call : Nat]
CallSet  == [fn : Fns, start : Nat, end : Nat, above : Seq(PhpCalls)]

FramesOf(h) == {fr \in FrameSet : HashOf[fr.fn] = h}

Shapes ==
  /\ php \in Seq(PhpCalls) /\ frames \in Seq(FrameSet) /\ calls \in Seq(CallSet)
  /\ Len(calls) <= MaxCalls
  /\ ~running => php = << >>
  /\ \A i \in 1..Len(frames) : frames[i].start <= clock

\* Every call that will give something back has something to give back, and
\* this also where a bailout has left frames and levels of calls that are gone.
FramesCover   == Number(php, Traced) <= Len(frames)
LevelCovers   == Number(php, Counted) <= stackLevel /\ stackLevel <= Len(calls)
CounterCovers == \A h \in Hashes : Number(frames, FramesOf(h)) <= counters[h]

Balance ==
  running /\ sampled /\ ~cut =>
    stackLevel = Number(php, Counted) /\ Len(frames) = Number(php, Traced)

\* TypeOK in three parts.
Counts ==
  /\ requests \in 0..MaxRequests /\ clock \in 0..MaxTime
  /\ stackLevel \in 0..MaxCalls
  /\ counters \in [Hashes -> Nat]

Flags == running \in BOOLEAN /\ sampled \in BOOLEAN /\ cut \in BOOLEAN

BucketsOK ==
  \A k \in DOMAIN buckets :
    k[1] \in Fns /\ buckets[k].count \in Nat \ {0} /\ buckets[k].wall \in Nat

Inv ==
  /\ Counts /\ Flags /\ BucketsOK /\ Shapes
  /\ FramesCover /\ LevelCovers /\ CounterCovers /\ Balance

LEMMA NumberEmpty ==
  ASSUME NEW C
  PROVE  Number(<< >>, C) = 0
<1>1. Marks(<< >>, C) = {}
  BY DEF Marks
<1> QED BY <1>1, FS_EmptySet DEF Number

LEMMA BalanceIsLevelBalanced ==
  ASSUME Inv
  PROVE  LevelBalanced
<1>1. php \in Seq(PhpCalls) /\ DOMAIN php = 1..Len(php)
  BY DEF Inv, Shapes
<1>2. \A i \in DOMAIN php : php[i] \in PhpCalls
  BY <1>1
<1>3. /\ {i \in DOMAIN php : php[i].counted} = Marks(php, Counted)
      /\ {i \in DOMAIN php : php[i].traced} = Marks(php, Traced)
  BY <1>1, <1>2 DEF Marks, Counted, Traced
<1> QED BY <1>3 DEF Inv, Balance, LevelBalanced, Number

LEMMA InvInit == Init => Inv
<1> SUFFICES ASSUME Init PROVE Inv
  OBVIOUS
<1> USE DEF Init
<1>1. Counts /\ Flags /\ BucketsOK
  <2>1. DOMAIN buckets = {}
    OBVIOUS
  <2>2. BucketsOK
    BY <2>1 DEF BucketsOK
  <2>3. Counts
    BY DEF Counts
  <2>4. Flags
    BY DEF Flags
  <2> QED BY <2>2, <2>3, <2>4
<1>2. Shapes
  BY DEF Shapes
<1>3. \A C : Number(php, C) = 0 /\ Number(frames, C) = 0
  BY NumberEmpty
<1>4. FramesCover /\ LevelCovers /\ CounterCovers /\ Balance
  BY <1>3 DEF FramesCover, LevelCovers, CounterCovers, Balance
<1> QED BY <1>1, <1>2, <1>4 DEF Inv

\* What the frames, the calls and PHP's stack depend on.
LEMMA InvKept ==
  ASSUME Inv, Counts', Flags', BucketsOK', clock' \in Nat, clock' >= clock, running' = running,
         UNCHANGED <<php, stackLevel, frames, counters, calls, cut, sampled>>
  PROVE  Inv'
<1>1. Shapes'
  <2>1. \A i \in 1..Len(frames) : frames[i].start <= clock'
    <3>1. \A i \in 1..Len(frames) : frames[i] \in FrameSet /\ frames[i].start <= clock
      BY DEF Inv, Shapes
    <3>2. clock \in Nat
      BY DEF Inv, Counts
    <3> QED BY <3>1, <3>2 DEF FrameSet
  <2> QED BY <2>1 DEF Inv, Shapes
<1>2. FramesCover' /\ LevelCovers' /\ CounterCovers' /\ Balance'
  BY DEF Inv, FramesCover, LevelCovers, CounterCovers, Balance, Number, Marks
<1> QED BY <1>1, <1>2 DEF Inv

-----------------------------------------------------------------------------
(* One lemma for each action *)

LEMMA RequestStartInv == Inv /\ RequestStart => Inv'
<1> SUFFICES ASSUME Inv, RequestStart PROVE Inv'
  OBVIOUS
<1>1. php = << >> /\ php' = << >>
  BY DEF Inv, Shapes, RequestStart
<1>2. frames' = << >> /\ calls' = << >> /\ stackLevel' = 0 /\ running'
  BY DEF RequestStart
<1>3. \A C : Number(<< >>, C) = 0
  BY NumberEmpty
<1>4. Counts' /\ Flags' /\ BucketsOK'
  <2>1. Counts'
    BY DEF Inv, Counts, RequestStart
  <2>2. Flags'
    BY DEF Inv, Flags, RequestStart
  <2>3. BucketsOK'
    BY DEF Inv, BucketsOK, RequestStart
  <2> QED BY <2>1, <2>2, <2>3
<1>5. Shapes'
  BY <1>1, <1>2 DEF Shapes
<1>6. CounterCovers'
  <2>1. ASSUME NEW h \in Hashes PROVE Number(frames', FramesOf(h)) <= counters'[h]
    BY <1>2, <1>3 DEF Inv, Counts, RequestStart
  <2> QED BY <2>1 DEF CounterCovers, Number, Marks
<1>7. FramesCover' /\ LevelCovers' /\ Balance'
  <2>1. Number(php', Traced) = 0 /\ Number(php', Counted) = 0
    BY <1>1, <1>3
  <2>2. Len(frames') = 0 /\ Len(calls') = 0
    BY <1>2
  <2> QED BY <1>2, <2>1, <2>2 DEF FramesCover, LevelCovers, Balance, Number, Marks
<1> QED BY <1>4, <1>5, <1>6, <1>7 DEF Inv

LEMMA RequestEndInv == Inv /\ RequestEnd => Inv'
<1> SUFFICES ASSUME Inv, RequestEnd PROVE Inv'
  OBVIOUS
<1>1. php = << >> /\ php' = << >> /\ ~running'
  BY DEF RequestEnd
<1>2. \A C : Number(<< >>, C) = 0
  BY NumberEmpty
<1>3. /\ counters' = counters /\ calls' = calls /\ clock' = clock
      /\ requests' = requests /\ sampled' = sampled /\ cut' = cut
  BY DEF RequestEnd
<1>4. \/ stackLevel' = 0 /\ frames' = << >> /\ buckets' = << >>
      \/ UNCHANGED <<stackLevel, frames, buckets>>
  BY DEF RequestEnd
<1>5. Counts' /\ Flags' /\ BucketsOK'
  <2>1. Counts'
    BY <1>3, <1>4 DEF Inv, Counts
  <2>2. Flags'
    BY DEF Inv, Flags, RequestEnd
  <2>3. BucketsOK'
    <3>1. CASE buckets' = << >>
      <4>1. DOMAIN buckets' = {}
        BY <3>1
      <4> QED BY <4>1 DEF BucketsOK
    <3>2. CASE buckets' = buckets
      BY <3>2 DEF Inv, BucketsOK
    <3> QED BY <1>4, <3>1, <3>2
  <2> QED BY <2>1, <2>2, <2>3
<1>6. Shapes'
  <2>1. CASE frames' = << >>
    BY <1>1, <1>3, <2>1 DEF Inv, Shapes
  <2>2. CASE frames' = frames
    BY <1>1, <1>3, <2>2 DEF Inv, Shapes
  <2> QED BY <1>4, <2>1, <2>2
<1>7. CounterCovers'
  <2>1. ASSUME NEW h \in Hashes PROVE Number(frames', FramesOf(h)) <= counters'[h]
    <3>1. CASE frames' = << >>
      BY <1>2, <1>3, <3>1 DEF Inv, Counts
    <3>2. CASE frames' = frames
      BY <1>3, <3>2 DEF Inv, CounterCovers
    <3> QED BY <1>4, <3>1, <3>2
  <2> QED BY <2>1 DEF CounterCovers, Number, Marks
<1>8. FramesCover' /\ LevelCovers' /\ Balance'
  <2>1. /\ Number(php', Traced) = 0 /\ Number(php', Counted) = 0
        /\ Number(php, Counted) = 0
    BY <1>1, <1>2
  <2>2. Len(frames') \in Nat /\ Len(calls) \in Nat
    BY <1>6 DEF Inv, Shapes
  <2>3. stackLevel' \in Nat /\ stackLevel' <= Len(calls')
    BY <1>3, <1>4, <2>1, <2>2 DEF Inv, Counts, LevelCovers
  <2> QED BY <1>1, <2>1, <2>2, <2>3 DEF FramesCover, LevelCovers, Balance, Number, Marks
<1> QED BY <1>5, <1>6, <1>7, <1>8 DEF Inv

LEMMA TickInv == Inv /\ Tick => Inv'
<1> SUFFICES ASSUME Inv, Tick PROVE Inv'
  OBVIOUS
<1>1. clock' \in 0..MaxTime /\ clock' >= clock /\ clock' \in Nat
  BY DEF Inv, Counts, Tick
<1>2. Counts' /\ Flags' /\ BucketsOK'
  <2>1. Counts'
    BY <1>1 DEF Inv, Counts, Tick
  <2>2. Flags'
    BY DEF Inv, Flags, Tick
  <2>3. BucketsOK'
    BY DEF Inv, BucketsOK, Tick
  <2> QED BY <2>1, <2>2, <2>3
<1> QED BY <1>1, <1>2, InvKept DEF Tick

LEMMA BailoutInv == Inv /\ Bailout => Inv'
<1> SUFFICES ASSUME Inv, Bailout PROVE Inv'
  OBVIOUS
<1>1. php' = << >> /\ cut'
  BY DEF Bailout
<1>2. Number(<< >>, Traced) = 0 /\ Number(<< >>, Counted) = 0
  BY NumberEmpty
<1>3. Counts' /\ Flags' /\ BucketsOK'
  <2>1. Counts'
    BY DEF Inv, Counts, Bailout
  <2>2. Flags'
    BY DEF Inv, Flags, Bailout
  <2>3. BucketsOK'
    BY DEF Inv, BucketsOK, Bailout
  <2> QED BY <2>1, <2>2, <2>3
<1>4. Shapes'
  BY <1>1 DEF Inv, Shapes, Bailout
<1>5. CounterCovers'
  BY DEF Inv, CounterCovers, Bailout, Number, Marks
<1>6. FramesCover' /\ LevelCovers' /\ Balance'
  <2>1. Number(php', Traced) = 0 /\ Number(php', Counted) = 0
    BY <1>1, <1>2
  <2>2. Len(frames') \in Nat /\ stackLevel' \in Nat /\ stackLevel' <= Len(calls')
    BY <1>3, <1>4 DEF Inv, Shapes, LevelCovers, Bailout, Counts
  <2> QED BY <1>1, <2>1, <2>2 DEF FramesCover, LevelCovers, Balance, Number, Marks
<1> QED BY <1>3, <1>4, <1>5, <1>6 DEF Inv

\* A call that is left alone, of no account.
LEMMA CallUntracedInv ==
  ASSUME Inv, NEW f, CallUntraced(f)
  PROVE  Inv'
<1> DEFINE r == [traced |-> FALSE, counted |-> FALSE, call |-> 0]
<1>1. r \in PhpCalls /\ r \notin Traced /\ r \notin Counted
  BY DEF PhpCalls, Traced, Counted
<1>2. php' = <<r>> \o php /\ running
  BY DEF CallUntraced
<1>3. php \in Seq(PhpCalls) /\ frames \in Seq(FrameSet) /\ calls \in Seq(CallSet)
  BY DEF Inv, Shapes
<1> HIDE DEF r
<1>4. /\ php' \in Seq(PhpCalls)
      /\ Number(php', Traced) = Number(php, Traced)
      /\ Number(php', Counted) = Number(php, Counted)
  BY <1>1, <1>2, <1>3, Pushed, NumberPushed, MarksFinite
<1>5. Counts' /\ Flags' /\ BucketsOK'
  <2>1. Counts'
    BY DEF Inv, Counts, CallUntraced
  <2>2. Flags'
    BY DEF Inv, Flags, CallUntraced
  <2>3. BucketsOK'
    BY DEF Inv, BucketsOK, CallUntraced
  <2> QED BY <2>1, <2>2, <2>3
<1>6. Shapes'
  BY <1>2, <1>4 DEF Inv, Shapes, CallUntraced
<1>7. CounterCovers'
  BY DEF Inv, CounterCovers, CallUntraced, Number, Marks
<1>8. FramesCover' /\ LevelCovers' /\ Balance'
  BY <1>4 DEF Inv, FramesCover, LevelCovers, Balance, CallUntraced, Number, Marks
<1> QED BY <1>5, <1>6, <1>7, <1>8 DEF Inv

\* A call that counts: it has its record, and its level.
LEMMA Counting ==
  ASSUME Inv, NEW f \in Fns, Record(f), running, Len(calls) < MaxCalls,
         NEW r \in Counted,
         php' = <<r>> \o php, stackLevel' = stackLevel + 1
  PROVE  /\ php' \in Seq(PhpCalls) /\ calls' \in Seq(CallSet)
         /\ Len(calls') = Len(calls) + 1 /\ Len(calls') <= MaxCalls
         /\ stackLevel' \in 0..MaxCalls /\ LevelCovers'
         /\ Number(php', Counted) = Number(php, Counted) + 1
         /\ Number(php', Traced) = Number(php, Traced) + IF r \in Traced THEN 1 ELSE 0
<1>1. /\ php \in Seq(PhpCalls) /\ calls \in Seq(CallSet) /\ Len(calls) \in Nat
      /\ clock \in Nat /\ stackLevel \in 0..MaxCalls
  BY DEF Inv, Shapes, Counts
<1> DEFINE c == [fn |-> f, start |-> clock, end |-> Pending, above |-> php]
<1>2. c \in CallSet
  BY <1>1 DEF CallSet, Pending
<1>3. calls' = Append(calls, c)
  BY DEF Record
<1> HIDE DEF c
<1>4. calls' \in Seq(CallSet) /\ Len(calls') = Len(calls) + 1
  BY <1>1, <1>2, <1>3, AppendProperties
<1>5. r \in PhpCalls
  BY DEF Counted
<1>6. /\ php' \in Seq(PhpCalls)
      /\ Number(php', Counted) = Number(php, Counted) + 1
      /\ Number(php', Traced) = Number(php, Traced) + IF r \in Traced THEN 1 ELSE 0
  BY <1>1, <1>5, Pushed, NumberPushed
<1>7. Number(php, Counted) \in Nat
  BY <1>1, MarksFinite
<1>8. Number(php, Counted) <= stackLevel /\ stackLevel <= Len(calls)
  BY DEF Inv, LevelCovers
<1>9. Number(php', Counted) <= stackLevel' /\ stackLevel' <= Len(calls')
  BY <1>1, <1>4, <1>6, <1>7, <1>8
<1>10. stackLevel' \in 0..MaxCalls /\ Len(calls') <= MaxCalls
  BY <1>1, <1>4, <1>8
<1> QED BY <1>4, <1>6, <1>9, <1>10 DEF LevelCovers, Number, Marks

LEMMA CallSkippedInv ==
  ASSUME Inv, NEW f \in Fns, CallSkipped(f)
  PROVE  Inv'
<1> DEFINE r == [traced |-> FALSE, counted |-> TRUE, call |-> Len(calls) + 1]
<1>1. calls \in Seq(CallSet) /\ Len(calls) \in Nat
  BY DEF Inv, Shapes
<1>2. r \in Counted /\ r \notin Traced
  BY <1>1 DEF PhpCalls, Traced, Counted
<1>3. /\ php' = <<r>> \o php /\ running /\ Len(calls) < MaxCalls /\ Record(f)
      /\ stackLevel' = stackLevel + 1
  BY DEF CallSkipped
<1> HIDE DEF r
<1>4. /\ php' \in Seq(PhpCalls) /\ calls' \in Seq(CallSet)
      /\ Len(calls') = Len(calls) + 1 /\ Len(calls') <= MaxCalls
      /\ stackLevel' \in 0..MaxCalls /\ LevelCovers'
      /\ Number(php', Counted) = Number(php, Counted) + 1
      /\ Number(php', Traced) = Number(php, Traced) + IF r \in Traced THEN 1 ELSE 0
  BY <1>2, <1>3, Counting
<1>5. php \in Seq(PhpCalls) /\ frames \in Seq(FrameSet) /\ Number(php, Traced) \in Nat
  BY MarksFinite DEF Inv, Shapes
<1>6. Number(php', Traced) = Number(php, Traced)
  BY <1>2, <1>4, <1>5
<1>7. Counts' /\ Flags' /\ BucketsOK'
  <2>1. Counts'
    BY <1>4 DEF Inv, Counts, CallSkipped
  <2>2. Flags'
    BY DEF Inv, Flags, CallSkipped
  <2>3. BucketsOK'
    BY DEF Inv, BucketsOK, CallSkipped
  <2> QED BY <2>1, <2>2, <2>3
<1>8. Shapes'
  BY <1>3, <1>4 DEF Inv, Shapes, CallSkipped
<1>9. CounterCovers'
  BY DEF Inv, CounterCovers, CallSkipped, Number, Marks
<1>10. FramesCover'
  BY <1>6 DEF Inv, FramesCover, CallSkipped, Number, Marks
<1>11. Balance'
  BY <1>3, <1>4, <1>6 DEF Inv, Balance, CallSkipped, Number, Marks
<1> QED BY <1>4, <1>7, <1>8, <1>9, <1>10, <1>11 DEF Inv

\* The level of a frame: its own, or that of a frame there is.
LEMMA FrameIsTyped ==
  ASSUME Inv, NEW f \in Fns, stackLevel + 1 >= StartDepth
  PROVE  Frame(f) \in FrameSet /\ Frame(f).start = clock /\ Frame(f).fn = f
<1>1. /\ frames \in Seq(FrameSet) /\ DOMAIN frames = 1..Len(frames)
      /\ Len(frames) \in Nat /\ Len(calls) \in Nat
      /\ clock \in Nat /\ stackLevel \in Nat
  BY DEF Inv, Shapes, Counts
<1>2. FrameLevel(f) \in Nat
  <2>1. CASE Ancestors(f) = {}
    BY <1>1, <2>1 DEF FrameLevel
  <2>2. CASE Ancestors(f) # {}
    <3>1. Ancestors(f) \subseteq DOMAIN frames
      BY DEF Ancestors
    <3>2. Ancestors(f) \in SUBSET Nat
      BY <1>1, <3>1
    <3>3. Min(Ancestors(f)) \in DOMAIN frames
      BY <2>2, <3>1, <3>2, Minimum
    <3>4. frames[Min(Ancestors(f))] \in FrameSet
      BY <1>1, <3>3
    <3> QED BY <2>2, <3>4 DEF FrameLevel, FrameSet
  <2> QED BY <2>1, <2>2
<1> QED BY <1>1, <1>2 DEF Frame, FrameSet

LEMMA CallTracedInv ==
  ASSUME Inv, NEW f \in Fns, CallTraced(f)
  PROVE  Inv'
<1> DEFINE r  == [traced |-> TRUE, counted |-> TRUE, call |-> Len(calls) + 1]
           fr == Frame(f)
<1>1. /\ calls \in Seq(CallSet) /\ Len(calls) \in Nat
      /\ frames \in Seq(FrameSet) /\ Len(frames) \in Nat
  BY DEF Inv, Shapes
<1>2. r \in Counted /\ r \in Traced
  BY <1>1 DEF PhpCalls, Traced, Counted
<1>3. /\ php' = <<r>> \o php /\ running /\ Len(calls) < MaxCalls /\ Record(f)
      /\ stackLevel' = stackLevel + 1 /\ frames' = <<fr>> \o frames
      /\ running' = running /\ clock' = clock
      /\ counters' = [counters EXCEPT ![HashOf[f]] = @ + 1]
  BY DEF CallTraced
<1>4. fr \in FrameSet /\ fr.start = clock /\ fr.fn = f
  BY FrameIsTyped DEF CallTraced
<1> HIDE DEF r, fr
<1>5. /\ php' \in Seq(PhpCalls) /\ calls' \in Seq(CallSet)
      /\ Len(calls') = Len(calls) + 1 /\ Len(calls') <= MaxCalls
      /\ stackLevel' \in 0..MaxCalls /\ LevelCovers'
      /\ Number(php', Counted) = Number(php, Counted) + 1
      /\ Number(php', Traced) = Number(php, Traced) + IF r \in Traced THEN 1 ELSE 0
  BY <1>2, <1>3, Counting
<1>6. php \in Seq(PhpCalls) /\ Number(php, Traced) \in Nat
  BY MarksFinite DEF Inv, Shapes
<1>7. Number(php', Traced) = Number(php, Traced) + 1
  BY <1>2, <1>5, <1>6
<1>8. /\ frames' \in Seq(FrameSet) /\ Len(frames') = Len(frames) + 1 /\ frames'[1] = fr
      /\ \A i \in 2..(Len(frames) + 1) : frames'[i] = frames[i - 1]
  BY <1>1, <1>3, <1>4, Pushed
<1>9. Counts' /\ Flags' /\ BucketsOK'
  <2>1. counters' \in [Hashes -> Nat]
    <3>1. counters \in [Hashes -> Nat] /\ HashOf[f] \in Hashes
      BY DEF Inv, Counts, Hashes
    <3>2. counters[HashOf[f]] + 1 \in Nat
      BY <3>1
    <3> QED BY <1>3, <3>1, <3>2
  <2>2. Counts'
    BY <1>5, <2>1 DEF Inv, Counts, CallTraced
  <2>3. Flags'
    BY DEF Inv, Flags, CallTraced
  <2>4. BucketsOK'
    BY DEF Inv, BucketsOK, CallTraced
  <2> QED BY <2>2, <2>3, <2>4
<1>10. Shapes'
  <2>1. ASSUME NEW i \in 1..Len(frames') PROVE frames'[i].start <= clock'
    <3>1. CASE i = 1
      BY <1>3, <1>4, <1>8, <3>1 DEF Inv, Counts
    <3>2. CASE i # 1
      <4>1. i \in 2..(Len(frames) + 1) /\ i - 1 \in 1..Len(frames)
        BY <1>1, <1>8, <3>2
      <4> QED BY <1>3, <1>8, <4>1 DEF Inv, Shapes
    <3> QED BY <3>1, <3>2
  <2> QED BY <1>3, <1>5, <1>8, <2>1 DEF Shapes
<1>11. CounterCovers'
  <2>1. ASSUME NEW h \in Hashes PROVE Number(frames', FramesOf(h)) <= counters'[h]
    <3>1. Number(frames', FramesOf(h)) =
            Number(frames, FramesOf(h)) + IF fr \in FramesOf(h) THEN 1 ELSE 0
      BY <1>1, <1>3, <1>4, NumberPushed
    <3>2. /\ Number(frames, FramesOf(h)) \in Nat /\ counters[h] \in Nat
          /\ Number(frames, FramesOf(h)) <= counters[h]
      BY <1>1, MarksFinite DEF Inv, Counts, CounterCovers
    <3>3. fr \in FramesOf(h) <=> HashOf[f] = h
      BY <1>4 DEF FramesOf
    <3>4. counters'[h] = IF HashOf[f] = h THEN counters[h] + 1 ELSE counters[h]
      BY <1>3 DEF Inv, Counts
    <3> QED BY <3>1, <3>2, <3>3, <3>4
  <2> QED BY <2>1 DEF CounterCovers, Number, Marks
<1>12. FramesCover'
  <2>1. Number(php', Traced) <= Len(frames')
    BY <1>1, <1>6, <1>7, <1>8 DEF Inv, FramesCover
  <2> QED BY <2>1 DEF FramesCover, Number, Marks
<1>13. Balance'
  <2>1. running' /\ sampled' /\ ~cut' =>
          stackLevel' = Number(php', Counted) /\ Len(frames') = Number(php', Traced)
    BY <1>3, <1>5, <1>7, <1>8 DEF Inv, Balance, CallTraced
  <2> QED BY <2>1 DEF Balance, Number, Marks
<1> QED BY <1>5, <1>9, <1>10, <1>11, <1>12, <1>13 DEF Inv

\* What a return takes off PHP's stack.
LEMMA Popped ==
  ASSUME Inv, php # << >>, php' = Tail(php)
  PROVE  /\ running /\ Head(php) \in PhpCalls /\ php' \in Seq(PhpCalls)
         /\ \A C : Number(php, C) \in Nat /\ Number(php', C) \in Nat
         /\ Number(php, Counted) =
              Number(php', Counted) + IF Head(php) \in Counted THEN 1 ELSE 0
         /\ Number(php, Traced) =
              Number(php', Traced) + IF Head(php) \in Traced THEN 1 ELSE 0
<1>1. php \in Seq(PhpCalls) /\ (~running => php = << >>)
  BY DEF Inv, Shapes
<1>2. /\ Head(php) \in PhpCalls /\ Tail(php) \in Seq(PhpCalls)
      /\ \A C : Number(php, C) = Number(Tail(php), C) + IF Head(php) \in C THEN 1 ELSE 0
  BY <1>1, NumberPopped
<1>3. \A C : Number(php, C) \in Nat /\ Number(Tail(php), C) \in Nat
  BY <1>1, <1>2, MarksFinite
<1> QED BY <1>1, <1>2, <1>3

LEMMA EndedIsTyped ==
  ASSUME Inv, NEW c, Ended(c)
  PROVE  calls' \in Seq(CallSet) /\ Len(calls') = Len(calls)
<1>1. /\ calls \in Seq(CallSet) /\ Len(calls) \in Nat /\ clock \in Nat
      /\ calls \in [1..Len(calls) -> CallSet]
  BY DEF Inv, Shapes, Counts
<1>2. calls' = [calls EXCEPT ![c] = [calls[c] EXCEPT !.end = clock]]
  BY DEF Ended
<1>3. ASSUME c \in 1..Len(calls) PROVE [calls[c] EXCEPT !.end = clock] \in CallSet
  BY <1>1, <1>3 DEF CallSet
<1>4. calls' \in [1..Len(calls) -> CallSet]
  BY <1>1, <1>2, <1>3
<1> QED BY <1>1, <1>4

LEMMA ReturnSkippedInv == Inv /\ ReturnSkipped => Inv'
<1> SUFFICES ASSUME Inv, ReturnSkipped PROVE Inv'
  OBVIOUS
<1>1. /\ php # << >> /\ php' = Tail(php) /\ Head(php).counted /\ ~Head(php).traced
      /\ stackLevel' = stackLevel - 1 /\ Ended(Head(php).call)
  BY DEF ReturnSkipped
<1>2. /\ running /\ Head(php) \in PhpCalls /\ php' \in Seq(PhpCalls)
      /\ \A C : Number(php, C) \in Nat /\ Number(php', C) \in Nat
      /\ Number(php, Counted) =
           Number(php', Counted) + IF Head(php) \in Counted THEN 1 ELSE 0
      /\ Number(php, Traced) =
           Number(php', Traced) + IF Head(php) \in Traced THEN 1 ELSE 0
  BY <1>1, Popped
<1>3. Head(php) \in Counted /\ Head(php) \notin Traced
  BY <1>1, <1>2 DEF Counted, Traced
<1>4. /\ Number(php, Counted) = Number(php', Counted) + 1
      /\ Number(php, Traced) = Number(php', Traced)
  BY <1>2, <1>3
<1>5. calls' \in Seq(CallSet) /\ Len(calls') = Len(calls)
  BY <1>1, EndedIsTyped
<1>6. stackLevel \in 0..MaxCalls /\ Number(php, Counted) <= stackLevel
  BY DEF Inv, Counts, LevelCovers
<1>7. stackLevel' \in 0..MaxCalls /\ Number(php', Counted) <= stackLevel'
  BY <1>1, <1>2, <1>4, <1>6
<1>8. Counts' /\ Flags' /\ BucketsOK'
  <2>1. Counts'
    BY <1>7 DEF Inv, Counts, ReturnSkipped
  <2>2. Flags'
    BY DEF Inv, Flags, ReturnSkipped
  <2>3. BucketsOK'
    BY DEF Inv, BucketsOK, ReturnSkipped
  <2> QED BY <2>1, <2>2, <2>3
<1>9. Shapes'
  BY <1>2, <1>5 DEF Inv, Shapes, ReturnSkipped
<1>10. CounterCovers'
  BY DEF Inv, CounterCovers, ReturnSkipped, Number, Marks
<1>11. FramesCover'
  BY <1>4 DEF Inv, FramesCover, ReturnSkipped, Number, Marks
<1>12. LevelCovers'
  <2>1. stackLevel' <= Len(calls')
    BY <1>1, <1>5, <1>6 DEF Inv, LevelCovers, Shapes
  <2> QED BY <1>7, <2>1 DEF LevelCovers, Number, Marks
<1>13. Balance'
  <2>1. running' /\ sampled' /\ ~cut' =>
          stackLevel' = Number(php', Counted) /\ Len(frames') = Number(php', Traced)
    BY <1>1, <1>2, <1>4 DEF Inv, Balance, ReturnSkipped
  <2> QED BY <2>1 DEF Balance, Number, Marks
<1> QED BY <1>8, <1>9, <1>10, <1>11, <1>12, <1>13 DEF Inv

LEMMA ReturnUntracedInv == Inv /\ ReturnUntraced => Inv'
<1> SUFFICES ASSUME Inv, ReturnUntraced PROVE Inv'
  OBVIOUS
<1>1. php # << >> /\ php' = Tail(php) /\ ~Head(php).counted
  BY DEF ReturnUntraced
<1>2. /\ running /\ Head(php) \in PhpCalls /\ php' \in Seq(PhpCalls)
      /\ \A C : Number(php, C) \in Nat /\ Number(php', C) \in Nat
      /\ Number(php, Counted) =
           Number(php', Counted) + IF Head(php) \in Counted THEN 1 ELSE 0
      /\ Number(php, Traced) =
           Number(php', Traced) + IF Head(php) \in Traced THEN 1 ELSE 0
  BY <1>1, Popped
<1>3. Head(php) \notin Counted /\ Head(php) \notin Traced
  BY <1>1, <1>2 DEF PhpCalls, Counted, Traced
<1>4. /\ Number(php, Counted) = Number(php', Counted)
      /\ Number(php, Traced) = Number(php', Traced)
  BY <1>2, <1>3
<1>5. Counts' /\ Flags' /\ BucketsOK'
  <2>1. Counts'
    BY DEF Inv, Counts, ReturnUntraced
  <2>2. Flags'
    BY DEF Inv, Flags, ReturnUntraced
  <2>3. BucketsOK'
    BY DEF Inv, BucketsOK, ReturnUntraced
  <2> QED BY <2>1, <2>2, <2>3
<1>6. Shapes'
  BY <1>2 DEF Inv, Shapes, ReturnUntraced
<1>7. CounterCovers'
  BY DEF Inv, CounterCovers, ReturnUntraced, Number, Marks
<1>8. FramesCover' /\ LevelCovers' /\ Balance'
  BY <1>4 DEF Inv, FramesCover, LevelCovers, Balance, ReturnUntraced, Number, Marks
<1> QED BY <1>5, <1>6, <1>7, <1>8 DEF Inv

LEMMA BucketIsTyped ==
  ASSUME Inv, NEW fr \in FrameSet, fr.start <= clock, BucketProcess(fr)
  PROVE  BucketsOK'
<1> DEFINE key == <<fr.fn, fr.level>>
           old == IF key \in DOMAIN buckets THEN buckets[key] ELSE [count |-> 0, wall |-> 0]
           new == [count |-> old.count + 1, wall |-> old.wall + (clock - fr.start)]
<1>1. buckets' = [k \in DOMAIN buckets \cup {key} |-> IF k = key THEN new ELSE buckets[k]]
  BY Zenon DEF BucketProcess
<1>2. old.count \in Nat /\ old.wall \in Nat
  <2>1. CASE key \in DOMAIN buckets
    BY <2>1 DEF Inv, BucketsOK
  <2>2. CASE key \notin DOMAIN buckets
    BY <2>2
  <2> QED BY <2>1, <2>2
<1>3. fr.start \in Nat /\ clock \in Nat /\ fr.fn \in Fns
  BY DEF FrameSet, Inv, Counts
<1> HIDE DEF old
<1>4. new.count \in Nat \ {0} /\ new.wall \in Nat
  BY <1>2, <1>3
<1>5. key[1] \in Fns
  BY <1>3
<1> HIDE DEF new, key
<1>6. ASSUME NEW k \in DOMAIN buckets'
      PROVE  k[1] \in Fns /\ buckets'[k].count \in Nat \ {0} /\ buckets'[k].wall \in Nat
  <2>1. CASE k = key
    BY <1>1, <1>4, <1>5, <2>1
  <2>2. CASE k # key
    <3>1. k \in DOMAIN buckets /\ buckets'[k] = buckets[k]
      BY <1>1, <2>2
    <3> QED BY <3>1 DEF Inv, BucketsOK
  <2> QED BY <2>1, <2>2
<1> QED BY <1>6 DEF BucketsOK

LEMMA ReturnTracedInv == Inv /\ ReturnTraced => Inv'
<1> SUFFICES ASSUME Inv, ReturnTraced PROVE Inv'
  OBVIOUS
<1> DEFINE fr == Head(frames)
<1>1. /\ php # << >> /\ php' = Tail(php) /\ Head(php).traced
      /\ stackLevel' = stackLevel - 1 /\ Ended(Head(php).call)
      /\ frames' = Tail(frames) /\ BucketProcess(fr)
      /\ counters' = [counters EXCEPT ![HashOf[fr.fn]] = @ - 1]
      /\ running' = running /\ clock' = clock
  BY DEF ReturnTraced
<1>2. /\ running /\ Head(php) \in PhpCalls /\ php' \in Seq(PhpCalls)
      /\ \A C : Number(php, C) \in Nat /\ Number(php', C) \in Nat
      /\ Number(php, Counted) =
           Number(php', Counted) + IF Head(php) \in Counted THEN 1 ELSE 0
      /\ Number(php, Traced) =
           Number(php', Traced) + IF Head(php) \in Traced THEN 1 ELSE 0
  BY <1>1, Popped
<1>3. Head(php) \in Counted /\ Head(php) \in Traced
  BY <1>1, <1>2 DEF PhpCalls, Counted, Traced
<1>4. /\ Number(php, Counted) = Number(php', Counted) + 1
      /\ Number(php, Traced) = Number(php', Traced) + 1
  BY <1>2, <1>3
<1>5. calls' \in Seq(CallSet) /\ Len(calls') = Len(calls)
  BY <1>1, EndedIsTyped
<1>6. stackLevel \in 0..MaxCalls /\ Number(php, Counted) <= stackLevel
  BY DEF Inv, Counts, LevelCovers
<1>7. stackLevel' \in 0..MaxCalls /\ Number(php', Counted) <= stackLevel'
  BY <1>1, <1>2, <1>4, <1>6
<1>8. frames \in Seq(FrameSet) /\ Len(frames) \in Nat /\ frames # << >>
  <2>1. frames \in Seq(FrameSet) /\ Len(frames) \in Nat /\ Number(php, Traced) <= Len(frames)
    BY DEF Inv, Shapes, FramesCover
  <2>2. Len(frames) # 0
    BY <1>2, <1>4, <2>1
  <2> QED BY <2>1, <2>2
<1>9. /\ fr \in FrameSet /\ frames' \in Seq(FrameSet) /\ Len(frames') = Len(frames) - 1
      /\ fr = frames[1] /\ \A i \in 1..(Len(frames) - 1) : frames'[i] = frames[i + 1]
      /\ Len(frames) >= 1
  <2>1. /\ Head(frames) \in FrameSet /\ Tail(frames) \in Seq(FrameSet)
        /\ Len(Tail(frames)) = Len(frames) - 1 /\ Len(frames) >= 1
    BY <1>8, NumberPopped
  <2>2. /\ Head(frames) = frames[1]
        /\ \A i \in 1..(Len(frames) - 1) : Tail(frames)[i] = frames[i + 1]
    BY <1>8, HeadTailProperties
  <2> QED BY <1>1, <2>1, <2>2
<1>10. \A h \in Hashes : Number(frames, FramesOf(h)) =
         Number(frames', FramesOf(h)) + IF fr \in FramesOf(h) THEN 1 ELSE 0
  BY <1>1, <1>8, NumberPopped
<1> HIDE DEF fr
<1>11. fr.start <= clock
  BY <1>9 DEF Inv, Shapes
<1>12. HashOf[fr.fn] \in Hashes
  BY <1>9 DEF Hashes, FrameSet
<1>13. \A h \in Hashes : /\ Number(frames, FramesOf(h)) \in Nat
                         /\ Number(frames', FramesOf(h)) \in Nat
                         /\ Number(frames, FramesOf(h)) <= counters[h]
                         /\ counters[h] \in Nat
  BY <1>8, <1>9, MarksFinite DEF Inv, Counts, CounterCovers
<1>14. ASSUME NEW h \in Hashes
       PROVE  counters'[h] \in Nat /\ Number(frames', FramesOf(h)) <= counters'[h]
  <2>1. fr \in FramesOf(h) <=> HashOf[fr.fn] = h
    BY <1>9 DEF FramesOf
  <2>2. counters'[h] = IF HashOf[fr.fn] = h THEN counters[h] - 1 ELSE counters[h]
    BY <1>1 DEF Inv, Counts
  <2> QED BY <1>10, <1>13, <2>1, <2>2
<1>15. Counts' /\ Flags' /\ BucketsOK'
  <2>1. counters' \in [Hashes -> Nat]
    <3>1. counters' = [h \in Hashes |-> counters'[h]]
      BY <1>1 DEF Inv, Counts
    <3> QED BY <1>14, <3>1
  <2>2. Counts'
    BY <1>7, <2>1 DEF Inv, Counts, ReturnTraced
  <2>3. Flags'
    BY DEF Inv, Flags, ReturnTraced
  <2>4. BucketsOK'
    BY <1>1, <1>9, <1>11, BucketIsTyped
  <2> QED BY <2>2, <2>3, <2>4
<1>16. Shapes'
  <2>1. ASSUME NEW i \in 1..Len(frames') PROVE frames'[i].start <= clock'
    <3>1. i \in 1..(Len(frames) - 1) /\ i + 1 \in 1..Len(frames)
      BY <1>8, <1>9
    <3> QED BY <1>1, <1>9, <3>1 DEF Inv, Shapes
  <2> QED BY <1>1, <1>2, <1>5, <1>9, <2>1 DEF Inv, Shapes
<1>17. CounterCovers'
  BY <1>14 DEF CounterCovers, Number, Marks
<1>18. FramesCover'
  <2>1. Number(php', Traced) <= Len(frames')
    BY <1>2, <1>4, <1>8, <1>9 DEF Inv, FramesCover
  <2> QED BY <2>1 DEF FramesCover, Number, Marks
<1>19. LevelCovers'
  <2>1. stackLevel' <= Len(calls')
    BY <1>1, <1>5, <1>6 DEF Inv, LevelCovers, Shapes
  <2> QED BY <1>7, <2>1 DEF LevelCovers, Number, Marks
<1>20. Balance'
  <2>1. running' /\ sampled' /\ ~cut' =>
          stackLevel' = Number(php', Counted) /\ Len(frames') = Number(php', Traced)
    BY <1>2, <1>4, <1>6, <1>8, <1>9, <1>1 DEF Inv, Balance, ReturnTraced
  <2> QED BY <2>1 DEF Balance, Number, Marks
<1> QED BY <1>15, <1>16, <1>17, <1>18, <1>19, <1>20 DEF Inv

-----------------------------------------------------------------------------
(* The types and the level *)

LEMMA InvNext == Inv /\ [Next]_vars => Inv'
<1> SUFFICES ASSUME Inv, [Next]_vars PROVE Inv'
  OBVIOUS
<1>1. CASE UNCHANGED vars
  <2>1. clock \in Nat /\ clock' = clock
    BY <1>1 DEF Inv, Counts, vars
  <2>2. Counts' /\ Flags' /\ BucketsOK'
    BY <1>1 DEF Inv, Counts, Flags, BucketsOK, vars
  <2> QED BY <1>1, <2>1, <2>2, InvKept DEF vars
<1>2. CASE RequestStart
  BY <1>2, RequestStartInv
<1>3. CASE Tick
  BY <1>3, TickInv
<1>4. ASSUME NEW f, CallUntraced(f) PROVE Inv'
  BY <1>4, CallUntracedInv
<1>5. ASSUME NEW f \in Fns, CallSkipped(f) PROVE Inv'
  BY <1>5, CallSkippedInv
<1>6. ASSUME NEW f \in Fns, CallTraced(f) PROVE Inv'
  BY <1>6, CallTracedInv
<1>7. CASE ReturnTraced
  BY <1>7, ReturnTracedInv
<1>8. CASE ReturnSkipped
  BY <1>8, ReturnSkippedInv
<1>9. CASE ReturnUntraced
  BY <1>9, ReturnUntracedInv
<1>10. CASE Bailout
  BY <1>10, BailoutInv
<1>11. CASE RequestEnd
  BY <1>11, RequestEndInv
<1> QED BY <1>1, <1>2, <1>3, <1>4, <1>5, <1>6, <1>7, <1>8, <1>9, <1>10, <1>11
        DEF Next, Trace

LEMMA InvHolds == Spec => []Inv
<1> QED BY InvInit, InvNext, PTL DEF Spec

\* The level, the counters and the buckets of the tracer are always numbers a
\* report can be made of: no counter and no level is taken below zero by the
\* end of a frame (performance_frame_end), not even after exit() has left
\* frames of calls that are gone.
THEOREM TypeCorrect == Spec => []TypeOK
<1>1. Inv => TypeOK
  BY DEF Inv, Counts, Flags, BucketsOK, TypeOK
<1> QED BY <1>1, InvHolds, PTL

\* In a sampled request that no bailout has cut, the tracer's level is the
\* number of user functions PHP is in, and it has one frame for each of them
\* that is traced (performance_frame_begin and performance_frame_end).
THEOREM LevelHolds == Spec => []LevelBalanced
<1>1. Inv => LevelBalanced
  BY BalanceIsLevelBalanced
<1> QED BY <1>1, InvHolds, PTL

-----------------------------------------------------------------------------
(* Sums *)

\* Some element of a set, and g the sums of f over the sets in D, taken the way
\* that SumFunctionOnSet does.
Some(s) == CHOOSE x \in s : TRUE
Sums(f, g, D) == g = [s \in D |-> IF s = {} THEN 0 ELSE f[Some(s)] + g[s \ {Some(s)}]]

LEMMA LessOne ==
  ASSUME NEW s, s # {}, IsFiniteSet(s)
  PROVE  /\ Some(s) \in s /\ IsFiniteSet(s \ {Some(s)})
         /\ Cardinality(s) \in Nat /\ Cardinality(s) >= 1
         /\ Cardinality(s \ {Some(s)}) = Cardinality(s) - 1
<1>1. Some(s) \in s
  BY DEF Some
<1>2. Cardinality(s) \in Nat /\ Cardinality(s) # 0
  BY FS_CardinalityType, FS_EmptySet
<1>3. IsFiniteSet(s \ {Some(s)}) /\ Cardinality(s \ {Some(s)}) = Cardinality(s) - 1
  BY <1>1, FS_RemoveElement
<1> QED BY <1>1, <1>2, <1>3

LEMMA Smallest ==
  ASSUME NEW S, S # {}, \A s \in S : Cardinality(s) \in Nat
  PROVE  \E s \in S : \A t \in S : Cardinality(s) <= Cardinality(t)
<1> DEFINE T == {Cardinality(s) : s \in S}
<1>1. T \in SUBSET Nat /\ T # {}
  OBVIOUS
<1>2. Min(T) \in T /\ \A n \in T : Min(T) <= n
  BY <1>1, Minimum
<1> QED BY <1>2

LEMMA SumsExist ==
  ASSUME NEW f, NEW S, IsFiniteSet(S)
  PROVE  \E g : Sums(f, g, SUBSET S)
<1> DEFINE Upto(n) == {s \in SUBSET S : Cardinality(s) <= n}
           T == {n \in Nat : ~\E g : Sums(f, g, Upto(n))}
<1>1. \A s \in SUBSET S : IsFiniteSet(s) /\ Cardinality(s) \in Nat
  BY FS_Subset, FS_CardinalityType
<1>2. T = {}
  <2>1. ASSUME T # {} PROVE FALSE
    <3>1. PICK n \in Nat : n \in T /\ \A m \in T : n <= m
      <4>1. T \in SUBSET Nat
        OBVIOUS
      <4> QED BY <2>1, <4>1, Minimum
    <3>2. CASE n = 0
      <4>1. ASSUME NEW s \in Upto(0) PROVE s = {}
        BY <1>1, FS_EmptySet
      <4>2. Sums(f, [s \in Upto(0) |-> 0], Upto(0))
        <5> DEFINE g == [s \in Upto(0) |-> 0]
        <5>1. ASSUME NEW s \in Upto(0)
              PROVE  g[s] = IF s = {} THEN 0 ELSE f[Some(s)] + g[s \ {Some(s)}]
          BY <4>1
        <5> QED BY <5>1 DEF Sums
      <4> QED BY <3>1, <3>2, <4>2
    <3>3. CASE n # 0
      <4>1. n - 1 \in Nat /\ n - 1 \notin T
        <5>1. n - 1 \in Nat /\ ~(n <= n - 1)
          BY <3>3
        <5> QED BY <3>1, <5>1
      <4>2. PICK g : Sums(f, g, Upto(n - 1))
        BY <4>1
      <4> DEFINE h == [s \in Upto(n) |->
                         IF s = {} THEN 0 ELSE f[Some(s)] + g[s \ {Some(s)}]]
      <4>3. ASSUME NEW s \in Upto(n - 1) PROVE s \in Upto(n) /\ h[s] = g[s]
        <5>1. s \in Upto(n)
          BY <1>1
        <5>2. g[s] = IF s = {} THEN 0 ELSE f[Some(s)] + g[s \ {Some(s)}]
          BY <4>2, Zenon DEF Sums
        <5> QED BY <5>1, <5>2
      <4>4. ASSUME NEW s \in Upto(n), s # {} PROVE s \ {Some(s)} \in Upto(n - 1)
        BY <1>1, <4>4, LessOne
      <4>5. \A s \in Upto(n) : h[s] = IF s = {} THEN 0 ELSE f[Some(s)] + h[s \ {Some(s)}]
        BY <4>3, <4>4
      <4>6. Sums(f, h, Upto(n))
        <5> HIDE DEF Upto
        <5>1. h = [s \in Upto(n) |-> h[s]]
          OBVIOUS
        <5> HIDE DEF h
        <5> QED BY <4>5, <5>1, Zenon DEF Sums
      <4> QED BY <3>1, <4>6
    <3> QED BY <3>2, <3>3
  <2> QED BY <2>1
<1>3. Cardinality(S) \in Nat /\ Upto(Cardinality(S)) = SUBSET S
  <2>1. Cardinality(S) \in Nat /\ \A s \in SUBSET S : Cardinality(s) <= Cardinality(S)
    BY <1>1, FS_Subset
  <2> QED BY <2>1
<1>4. \E g : Sums(f, g, Upto(Cardinality(S)))
  <2> HIDE DEF Upto
  <2> QED BY <1>2, <1>3
<1> QED BY <1>3, <1>4

LEMMA SumsAgree ==
  ASSUME NEW f, NEW S, NEW R, NEW g, NEW h, IsFiniteSet(S), R \in SUBSET S,
         Sums(f, g, SUBSET S), Sums(f, h, SUBSET R)
  PROVE  g[R] = h[R]
<1> DEFINE Off == {s \in SUBSET R : g[s] # h[s]}
<1>1. ASSUME Off # {} PROVE FALSE
  <2>1. \A s \in SUBSET R : IsFiniteSet(s) /\ Cardinality(s) \in Nat /\ s \in SUBSET S
    BY FS_Subset, FS_CardinalityType
  <2>2. \A s \in Off : Cardinality(s) \in Nat
    BY <2>1
  <2>3. PICK s \in Off : \A t \in Off : Cardinality(s) <= Cardinality(t)
    <3> HIDE DEF Off
    <3> QED BY <1>1, <2>2, Smallest
  <2>4. /\ g[s] = IF s = {} THEN 0 ELSE f[Some(s)] + g[s \ {Some(s)}]
        /\ h[s] = IF s = {} THEN 0 ELSE f[Some(s)] + h[s \ {Some(s)}]
    BY <2>1, <2>3, Zenon DEF Sums
  <2>5. s # {}
    BY <2>3, <2>4
  <2>6. /\ s \ {Some(s)} \in SUBSET R /\ Cardinality(s) \in Nat
        /\ Cardinality(s \ {Some(s)}) = Cardinality(s) - 1
    BY <2>1, <2>5, LessOne
  <2>7. s \ {Some(s)} \notin Off
    <3>1. ~(Cardinality(s) <= Cardinality(s \ {Some(s)}))
      BY <2>6
    <3> QED BY <2>3, <3>1
  <2> QED BY <2>3, <2>4, <2>6, <2>7
<1> QED BY <1>1

LEMMA SumIs ==
  ASSUME NEW f, NEW S, IsFiniteSet(S)
  PROVE  \E g : Sums(f, g, SUBSET S) /\ SumFunctionOnSet(f, S) = g[S]
<1> DEFINE A == CHOOSE g : Sums(f, g, SUBSET S)
<1>1. SumFunctionOnSet(f, S) = A[S]
  BY DEF SumFunctionOnSet, FoldFunctionOnSet, MapThenFoldSet, Sums, Some
<1>2. Sums(f, A, SUBSET S)
  BY SumsExist
<1> QED BY <1>1, <1>2

LEMMA SumEmpty ==
  ASSUME NEW f
  PROVE  SumFunctionOnSet(f, {}) = 0
<1>1. PICK g : Sums(f, g, SUBSET {}) /\ SumFunctionOnSet(f, {}) = g[{}]
  BY SumIs, FS_EmptySet
<1> QED BY <1>1 DEF Sums

LEMMA SumLessOne ==
  ASSUME NEW f, NEW S, IsFiniteSet(S), S # {}
  PROVE  SumFunctionOnSet(f, S) = f[Some(S)] + SumFunctionOnSet(f, S \ {Some(S)})
<1>1. PICK R : R = S \ {Some(S)} /\ R \in SUBSET S /\ IsFiniteSet(R)
  BY LessOne
<1>2. PICK g : Sums(f, g, SUBSET S) /\ SumFunctionOnSet(f, S) = g[S]
  BY SumIs
<1>3. PICK h : Sums(f, h, SUBSET R) /\ SumFunctionOnSet(f, R) = h[R]
  BY <1>1, SumIs
<1>4. g[S] = f[Some(S)] + g[R]
  <2>1. g = [s \in SUBSET S |-> IF s = {} THEN 0 ELSE f[Some(s)] + g[s \ {Some(s)}]]
    BY <1>2 DEF Sums
  <2>2. S \in SUBSET S
    OBVIOUS
  <2> QED BY <1>1, <2>1, <2>2
<1>5. g[R] = h[R]
  <2>1. R \in SUBSET S => (Sums(f, g, SUBSET S) => (Sums(f, h, SUBSET R) => g[R] = h[R]))
    BY SumsAgree
  <2>2. R \in SUBSET S
    BY <1>1
  <2>3. Sums(f, g, SUBSET S)
    BY <1>2
  <2>4. Sums(f, h, SUBSET R)
    BY <1>3
  <2> QED BY <2>1, <2>2, <2>3, <2>4
<1> QED BY <1>1, <1>2, <1>3, <1>4, <1>5

LEMMA SumTyped ==
  ASSUME NEW f, NEW S, IsFiniteSet(S), \A x \in S : f[x] \in Int
  PROVE  SumFunctionOnSet(f, S) \in Int
<1> DEFINE Off == {s \in SUBSET S : SumFunctionOnSet(f, s) \notin Int}
<1>1. ASSUME Off # {} PROVE FALSE
  <2>1. \A s \in SUBSET S : IsFiniteSet(s) /\ Cardinality(s) \in Nat
    BY FS_Subset, FS_CardinalityType
  <2>2. \A s \in Off : Cardinality(s) \in Nat
    BY <2>1
  <2>3. PICK s \in Off : \A t \in Off : Cardinality(s) <= Cardinality(t)
    <3> HIDE DEF Off
    <3> QED BY <1>1, <2>2, Smallest
  <2>4. s # {}
    BY <2>3, SumEmpty
  <2>5. /\ s \ {Some(s)} \in SUBSET S /\ Cardinality(s) \in Nat /\ Some(s) \in S
        /\ Cardinality(s \ {Some(s)}) = Cardinality(s) - 1
    BY <2>1, <2>4, LessOne
  <2>6. SumFunctionOnSet(f, s \ {Some(s)}) \in Int
    BY <2>3, <2>5
  <2>7. SumFunctionOnSet(f, s) = f[Some(s)] + SumFunctionOnSet(f, s \ {Some(s)})
    BY <2>1, <2>4, SumLessOne
  <2> QED BY <2>3, <2>5, <2>6, <2>7
<1> QED BY <1>1

LEMMA SumSame ==
  ASSUME NEW f, NEW g, NEW S, IsFiniteSet(S), \A x \in S : f[x] = g[x]
  PROVE  SumFunctionOnSet(f, S) = SumFunctionOnSet(g, S)
<1> DEFINE Off == {s \in SUBSET S : SumFunctionOnSet(f, s) # SumFunctionOnSet(g, s)}
<1>1. ASSUME Off # {} PROVE FALSE
  <2>1. \A s \in SUBSET S : IsFiniteSet(s) /\ Cardinality(s) \in Nat
    BY FS_Subset, FS_CardinalityType
  <2>2. \A s \in Off : Cardinality(s) \in Nat
    BY <2>1
  <2>3. PICK s \in Off : \A t \in Off : Cardinality(s) <= Cardinality(t)
    <3> HIDE DEF Off
    <3> QED BY <1>1, <2>2, Smallest
  <2>4. s # {}
    BY <2>3, SumEmpty
  <2>5. /\ s \ {Some(s)} \in SUBSET S /\ Cardinality(s) \in Nat /\ Some(s) \in S
        /\ Cardinality(s \ {Some(s)}) = Cardinality(s) - 1
    BY <2>1, <2>4, LessOne
  <2>6. SumFunctionOnSet(f, s \ {Some(s)}) = SumFunctionOnSet(g, s \ {Some(s)})
    BY <2>3, <2>5
  <2>7. /\ SumFunctionOnSet(f, s) = f[Some(s)] + SumFunctionOnSet(f, s \ {Some(s)})
        /\ SumFunctionOnSet(g, s) = g[Some(s)] + SumFunctionOnSet(g, s \ {Some(s)})
    BY <2>1, <2>4, SumLessOne
  <2> QED BY <2>3, <2>5, <2>6, <2>7
<1> QED BY <1>1

\* The order does not matter.
LEMMA SumWithout ==
  ASSUME NEW f, NEW S, IsFiniteSet(S), \A x \in S : f[x] \in Int
  PROVE  \A x \in S : SumFunctionOnSet(f, S) = f[x] + SumFunctionOnSet(f, S \ {x})
<1> DEFINE Good(s) == \A x \in s : SumFunctionOnSet(f, s) = f[x] + SumFunctionOnSet(f, s \ {x})
           Off == {s \in SUBSET S : ~Good(s)}
<1>1. ASSUME Off # {} PROVE FALSE
  <2>1. \A s \in SUBSET S : /\ IsFiniteSet(s) /\ Cardinality(s) \in Nat
                            /\ SumFunctionOnSet(f, s) \in Int
    <3>1. ASSUME NEW s \in SUBSET S PROVE IsFiniteSet(s) /\ Cardinality(s) \in Nat
      BY FS_Subset, FS_CardinalityType
    <3>2. ASSUME NEW s \in SUBSET S PROVE SumFunctionOnSet(f, s) \in Int
      BY <3>1, SumTyped
    <3> QED BY <3>1, <3>2
  <2>2. \A s \in Off : Cardinality(s) \in Nat
    BY <2>1
  <2>3. PICK s \in Off : \A t \in Off : Cardinality(s) <= Cardinality(t)
    <3> HIDE DEF Off
    <3> QED BY <1>1, <2>2, Smallest
  <2>4. PICK x \in s : SumFunctionOnSet(f, s) # f[x] + SumFunctionOnSet(f, s \ {x})
    BY <2>3
  <2> DEFINE y == Some(s)
  <2>5. y \in s /\ SumFunctionOnSet(f, s) = f[y] + SumFunctionOnSet(f, s \ {y})
    BY <2>1, <2>4, SumLessOne, LessOne
  <2>6. x # y
    BY <2>4, <2>5
  <2> HIDE DEF y
  <2>7. \A z \in s : /\ s \ {z} \in SUBSET S /\ Cardinality(s \ {z}) = Cardinality(s) - 1
                     /\ Cardinality(s) \in Nat
    BY <2>1, FS_RemoveElement
  <2>8. \A z \in s : Good(s \ {z})
    <3>1. ASSUME NEW z \in s, s \ {z} \in Off PROVE FALSE
      <4>1. Cardinality(s) <= Cardinality(s \ {z})
        BY <2>3, <3>1
      <4> QED BY <2>7, <4>1
    <3> QED BY <2>7, <3>1
  <2>9. /\ SumFunctionOnSet(f, s \ {y}) = f[x] + SumFunctionOnSet(f, (s \ {y}) \ {x})
        /\ SumFunctionOnSet(f, s \ {x}) = f[y] + SumFunctionOnSet(f, (s \ {x}) \ {y})
    BY <2>4, <2>5, <2>6, <2>8
  <2>10. (s \ {y}) \ {x} = (s \ {x}) \ {y} /\ (s \ {x}) \ {y} \in SUBSET S
    OBVIOUS
  <2>11. f[x] \in Int /\ f[y] \in Int /\ SumFunctionOnSet(f, (s \ {x}) \ {y}) \in Int
    BY <2>1, <2>5, <2>10
  <2> DEFINE A == SumFunctionOnSet(f, (s \ {x}) \ {y})
  <2>12. SumFunctionOnSet(f, s) = f[y] + (f[x] + A) /\ SumFunctionOnSet(f, s \ {x}) = f[y] + A
    BY <2>5, <2>9, <2>10
  <2>13. f[x] \in Int /\ f[y] \in Int /\ A \in Int
    BY <2>11
  <2> HIDE DEF A
  <2>14. f[y] + (f[x] + A) = f[x] + (f[y] + A)
    BY <2>13
  <2> QED BY <2>4, <2>12, <2>14
<1>2. S \notin Off
  BY <1>1
<1> QED BY <1>2

LEMMA SumAdded ==
  ASSUME NEW f, NEW S, IsFiniteSet(S), NEW x, x \notin S, \A y \in S \cup {x} : f[y] \in Int
  PROVE  SumFunctionOnSet(f, S \cup {x}) = f[x] + SumFunctionOnSet(f, S)
<1>1. IsFiniteSet(S \cup {x}) /\ (S \cup {x}) \ {x} = S
  BY FS_AddElement
<1>2. x \in S \cup {x}
  OBVIOUS
<1>3. SumFunctionOnSet(f, S \cup {x}) = f[x] + SumFunctionOnSet(f, (S \cup {x}) \ {x})
  BY <1>1, <1>2, SumWithout
<1> QED BY <1>1, <1>3

-----------------------------------------------------------------------------
(* The levels of a call tree *)

\* Calls are made in calls that began before them.
TreeOK(cs) ==
  /\ cs \in Seq(CallSet)
  /\ \A c \in 1..Len(cs) : \A i \in 1..Len(cs[c].above) :
       cs[c].above[i].counted => cs[c].above[i].call \in 1..(c - 1)

Near(cs, c) == cs[c].above[Min(Same(cs, c))].call

LevelIn(cs, g, c) ==
  IF Same(cs, c) = {} THEN (Depth(cs, c) + 1) - StartDepth ELSE g[Near(cs, c)]

LEMMA CallIs ==
  ASSUME NEW cs, TreeOK(cs)
  PROVE  /\ Len(cs) \in Nat /\ DOMAIN cs = 1..Len(cs)
         /\ \A c \in 1..Len(cs) :
              /\ cs[c] \in CallSet /\ cs[c].above \in Seq(PhpCalls)
              /\ Len(cs[c].above) \in Nat /\ DOMAIN cs[c].above = 1..Len(cs[c].above)
<1>1. cs \in Seq(CallSet)
  BY DEF TreeOK
<1>2. \A c \in 1..Len(cs) : cs[c] \in CallSet
  BY <1>1
<1>3. ASSUME NEW c \in 1..Len(cs) PROVE cs[c].above \in Seq(PhpCalls)
  BY <1>2 DEF CallSet
<1> QED BY <1>1, <1>2, <1>3

LEMMA NearIsBefore ==
  ASSUME NEW cs, TreeOK(cs), NEW c \in 1..Len(cs), Same(cs, c) # {}
  PROVE  /\ Min(Same(cs, c)) \in Same(cs, c)
         /\ Near(cs, c) \in 1..Len(cs) /\ Near(cs, c) < c
<1>1. c \in Nat /\ Len(cs) \in Nat /\ DOMAIN cs[c].above = 1..Len(cs[c].above)
  BY CallIs
<1>2. Same(cs, c) \in SUBSET (1..Len(cs[c].above))
  BY <1>1 DEF Same
<1>3. Same(cs, c) \in SUBSET Nat
  BY <1>2
<1>4. Min(Same(cs, c)) \in Same(cs, c)
  BY <1>3, Minimum
<1>5. cs[c].above[Min(Same(cs, c))].counted
  BY <1>4 DEF Same
<1>6. Near(cs, c) \in 1..(c - 1)
  BY <1>2, <1>4, <1>5 DEF Near, TreeOK
<1> QED BY <1>1, <1>4, <1>6

LEMMA LevelsExist ==
  ASSUME NEW cs, TreeOK(cs)
  PROVE  \E g : g = [c \in DOMAIN cs |-> LevelIn(cs, g, c)]
<1> DEFINE Upto(n) == {c \in 1..Len(cs) : c <= n}
           T == {n \in Nat : ~\E g : g = [c \in Upto(n) |-> LevelIn(cs, g, c)]}
<1>1. Len(cs) \in Nat /\ DOMAIN cs = 1..Len(cs)
  BY CallIs
<1>2. ASSUME T # {} PROVE FALSE
  <2>1. PICK n \in Nat : n \in T /\ \A m \in T : n <= m
    <3>1. T \in SUBSET Nat
      OBVIOUS
    <3> QED BY <1>2, <3>1, Minimum
  <2>2. CASE n = 0
    <3>1. Upto(0) = {}
      BY <1>1
    <3> DEFINE h == [c \in Upto(0) |-> 0]
    <3>2. h = [c \in Upto(0) |-> LevelIn(cs, h, c)]
      BY <3>1
    <3> QED BY <2>1, <2>2, <3>2
  <2>3. CASE n # 0
    <3>1. n - 1 \in Nat /\ n - 1 \notin T
      <4>1. n - 1 \in Nat /\ ~(n <= n - 1)
        BY <2>3
      <4> QED BY <2>1, <4>1
    <3>2. PICK g : g = [c \in Upto(n - 1) |-> LevelIn(cs, g, c)]
      BY <3>1
    <3> DEFINE h == [c \in Upto(n) |-> LevelIn(cs, g, c)]
    <3>3. ASSUME NEW c \in Upto(n - 1) PROVE c \in Upto(n) /\ h[c] = g[c]
      <4>1. c \in Upto(n)
        BY <1>1
      <4>2. g[c] = LevelIn(cs, g, c)
        BY <3>2
      <4> QED BY <4>1, <4>2
    <3>4. ASSUME NEW c \in Upto(n) PROVE h[c] = LevelIn(cs, h, c)
      <4>1. CASE Same(cs, c) = {}
        BY <4>1 DEF LevelIn
      <4>2. CASE Same(cs, c) # {}
        <5>1. Near(cs, c) \in 1..Len(cs) /\ Near(cs, c) < c
          BY <4>2, NearIsBefore
        <5>2. Near(cs, c) \in Upto(n - 1)
          BY <1>1, <5>1
        <5>3. h[Near(cs, c)] = g[Near(cs, c)]
          BY <3>3, <5>2
        <5> QED BY <4>2, <5>3 DEF LevelIn
      <4> QED BY <4>1, <4>2
    <3>5. h = [c \in Upto(n) |-> LevelIn(cs, h, c)]
      <4>1. h = [c \in Upto(n) |-> h[c]]
        OBVIOUS
      <4> HIDE DEF h, Upto
      <4> QED BY <3>4, <4>1
    <3> QED BY <2>1, <3>5
  <2> QED BY <2>2, <2>3
<1>3. Upto(Len(cs)) = DOMAIN cs /\ Len(cs) \notin T
  <2>1. Upto(Len(cs)) = DOMAIN cs
    BY <1>1
  <2> HIDE DEF T
  <2>2. Len(cs) \notin T
    BY <1>2
  <2> QED BY <2>1, <2>2
<1>4. \E g : g = [c \in Upto(Len(cs)) |-> LevelIn(cs, g, c)]
  BY <1>1, <1>3
<1> QED BY <1>3, <1>4

LEMMA LevelIs ==
  ASSUME NEW cs, TreeOK(cs), NEW c \in 1..Len(cs)
  PROVE  LevelsOf(cs)[c] = LevelIn(cs, LevelsOf(cs), c)
<1> DEFINE A == CHOOSE g : g = [d \in DOMAIN cs |-> LevelIn(cs, g, d)]
<1>1. LevelsOf(cs) = A
  BY Zenon DEF LevelsOf, LevelIn, Near
<1>2. A = [d \in DOMAIN cs |-> LevelIn(cs, A, d)]
  BY LevelsExist
<1>3. c \in DOMAIN cs
  BY CallIs
<1> HIDE DEF A
<1>4. A[c] = LevelIn(cs, A, c)
  BY <1>2, <1>3
<1> QED BY <1>1, <1>4

\* More calls, and the ends of calls, leave the levels there are.
LEMMA LevelsKept ==
  ASSUME NEW cs, NEW ds, TreeOK(cs), TreeOK(ds), Len(cs) <= Len(ds),
         \A c \in 1..Len(cs) : ds[c].fn = cs[c].fn /\ ds[c].above = cs[c].above
  PROVE  \A c \in 1..Len(cs) : /\ Depth(ds, c) = Depth(cs, c) /\ Same(ds, c) = Same(cs, c)
                               /\ LevelsOf(ds)[c] = LevelsOf(cs)[c]
<1>1. /\ Len(cs) \in Nat /\ Len(ds) \in Nat
      /\ \A c \in 1..Len(cs) : c \in 1..Len(ds)
      /\ \A c \in 1..Len(cs) : DOMAIN cs[c].above = 1..Len(cs[c].above)
  <2>1. Len(cs) \in Nat /\ Len(ds) \in Nat
    BY CallIs
  <2>2. \A c \in 1..Len(cs) : DOMAIN cs[c].above = 1..Len(cs[c].above)
    BY CallIs
  <2> QED BY <2>1, <2>2
<1>2. ASSUME NEW c \in 1..Len(cs) PROVE Depth(ds, c) = Depth(cs, c)
  BY DEF Depth
<1>3. ASSUME NEW c \in 1..Len(cs) PROVE Same(ds, c) = Same(cs, c)
  <2>1. ASSUME NEW i \in DOMAIN cs[c].above, cs[c].above[i].counted
        PROVE  cs[c].above[i].call \in 1..Len(cs)
    <3>1. cs[c].above[i].call \in 1..(c - 1)
      BY <1>1, <2>1 DEF TreeOK
    <3> QED BY <1>1, <3>1
  <2>2. ASSUME NEW i \in DOMAIN cs[c].above
        PROVE  LET x == cs[c].above[i]
               IN  (x.counted /\ Depth(ds, x.call) >= StartDepth /\ ds[x.call].fn = cs[c].fn)
                     <=> (x.counted /\ Depth(cs, x.call) >= StartDepth
                            /\ cs[x.call].fn = cs[c].fn)
    BY <1>2, <2>1
  <2> QED BY <2>2 DEF Same
<1>4. \A c \in 1..Len(cs) : LevelsOf(ds)[c] = LevelsOf(cs)[c]
  <2> DEFINE Off == {c \in 1..Len(cs) : LevelsOf(ds)[c] # LevelsOf(cs)[c]}
  <2>1. ASSUME Off # {} PROVE FALSE
    <3>1. PICK c \in Off : \A d \in Off : c <= d
      <4>1. Off \in SUBSET Nat
        BY <1>1
      <4> HIDE DEF Off
      <4> QED BY <2>1, <4>1, Minimum
    <3>2. /\ LevelsOf(ds)[c] = LevelIn(ds, LevelsOf(ds), c)
          /\ LevelsOf(cs)[c] = LevelIn(cs, LevelsOf(cs), c)
      BY <1>1, LevelIs
    <3>3. Same(ds, c) = Same(cs, c) /\ Depth(ds, c) = Depth(cs, c) /\ Near(ds, c) = Near(cs, c)
      BY <1>2, <1>3 DEF Near
    <3>4. CASE Same(cs, c) = {}
      BY <3>1, <3>2, <3>3, <3>4 DEF LevelIn
    <3>5. CASE Same(cs, c) # {}
      <4>1. Near(cs, c) \in 1..Len(cs) /\ Near(cs, c) < c
        BY <3>5, NearIsBefore
      <4>2. Near(cs, c) \notin Off
        BY <1>1, <3>1, <4>1
      <4> QED BY <3>1, <3>2, <3>3, <3>5, <4>1, <4>2 DEF LevelIn
    <3> QED BY <3>4, <3>5
  <2> QED BY <2>1
<1> QED BY <1>2, <1>3, <1>4

-----------------------------------------------------------------------------
(* The buckets a call tree should have *)

Count(cs, k) == Cardinality(Done(cs, k))
Time(cs, k)  == SumFunctionOnSet(Spent(cs), Done(cs, k))
Keys(cs)     == {KeyOf(cs, c) : c \in Returned(cs)}

LEMMA DoneIsTyped ==
  ASSUME NEW cs, TreeOK(cs), NEW k
  PROVE  /\ IsFiniteSet(Done(cs, k)) /\ Done(cs, k) \in SUBSET (1..Len(cs))
         /\ Returned(cs) \in SUBSET (1..Len(cs))
         /\ \A c \in 1..Len(cs) : Spent(cs)[c] = cs[c].end - cs[c].start
                                    /\ Spent(cs)[c] \in Int
<1>1. Len(cs) \in Nat /\ DOMAIN cs = 1..Len(cs) /\ \A c \in 1..Len(cs) : cs[c] \in CallSet
  BY CallIs
<1>2. Returned(cs) \in SUBSET (1..Len(cs)) /\ Done(cs, k) \in SUBSET (1..Len(cs))
  BY <1>1 DEF Returned, Done
<1>3. IsFiniteSet(1..Len(cs))
  BY <1>1, FS_Interval
<1>4. IsFiniteSet(Done(cs, k))
  BY <1>2, <1>3, FS_Subset
<1> QED BY <1>1, <1>2, <1>4 DEF Spent, CallSet

\* A call that begins.
LEMMA BegunKeeps ==
  ASSUME NEW cs, NEW ds, TreeOK(cs), TreeOK(ds), Len(ds) = Len(cs) + 1,
         \A c \in 1..Len(cs) : ds[c] = cs[c], ds[Len(ds)].end = Pending
  PROVE  /\ Keys(ds) = Keys(cs)
         /\ \A k : Count(ds, k) = Count(cs, k) /\ Time(ds, k) = Time(cs, k)
<1>1. /\ Len(cs) \in Nat /\ DOMAIN cs = 1..Len(cs) /\ DOMAIN ds = 1..Len(ds)
      /\ \A c \in 1..Len(ds) : c \in 1..Len(cs) \/ c = Len(ds)
      /\ \A c \in 1..Len(cs) : c \in 1..Len(ds)
  <2>1. Len(cs) \in Nat /\ DOMAIN cs = 1..Len(cs) /\ DOMAIN ds = 1..Len(ds)
    BY CallIs
  <2> QED BY <2>1
<1>2. \A c \in 1..Len(cs) : Depth(ds, c) = Depth(cs, c) /\ LevelsOf(ds)[c] = LevelsOf(cs)[c]
  <2>1. Len(cs) <= Len(ds)
    BY <1>1
  <2> QED BY <2>1, LevelsKept
<1>3. Returned(ds) = Returned(cs)
  BY <1>1, <1>2 DEF Returned
<1>4. \A c \in Returned(cs) : c \in 1..Len(cs) /\ KeyOf(ds, c) = KeyOf(cs, c)
  BY <1>1, <1>2 DEF Returned, KeyOf
<1>5. Keys(ds) = Keys(cs)
  BY <1>3, <1>4 DEF Keys
<1>6. ASSUME NEW k PROVE Done(ds, k) = Done(cs, k)
  BY <1>3, <1>4 DEF Done
<1>7. ASSUME NEW k PROVE Time(ds, k) = Time(cs, k)
  <2>1. IsFiniteSet(Done(cs, k)) /\ Done(cs, k) \in SUBSET (1..Len(cs))
    BY DoneIsTyped
  <2>2. \A c \in 1..Len(cs) : Spent(ds)[c] = Spent(cs)[c]
    BY <1>1 DEF Spent
  <2>3. \A c \in Done(cs, k) : Spent(ds)[c] = Spent(cs)[c]
    BY <2>1, <2>2
  <2>4. SumFunctionOnSet(Spent(ds), Done(cs, k)) = SumFunctionOnSet(Spent(cs), Done(cs, k))
    BY <2>1, <2>3, SumSame
  <2> QED BY <1>6, <2>4 DEF Time
<1> QED BY <1>5, <1>6, <1>7 DEF Count

\* ds is cs with call c returned at time t.
Ends(cs, ds, c, t) ==
  /\ TreeOK(cs) /\ c \in 1..Len(cs) /\ cs[c].end = Pending /\ t \in Nat \ {0}
  /\ ds = [cs EXCEPT ![c] = [cs[c] EXCEPT !.end = t]]

LEMMA EndsIs ==
  ASSUME NEW cs, NEW ds, NEW c, NEW t, Ends(cs, ds, c, t)
  PROVE  /\ TreeOK(ds) /\ Len(ds) = Len(cs) /\ ds[c].end = t
         /\ \A d \in 1..Len(cs) :
              /\ ds[d].fn = cs[d].fn /\ ds[d].above = cs[d].above /\ ds[d].start = cs[d].start
              /\ d # c => ds[d] = cs[d]
              /\ Depth(ds, d) = Depth(cs, d) /\ LevelsOf(ds)[d] = LevelsOf(cs)[d]
              /\ KeyOf(ds, d) = KeyOf(cs, d)
<1>1. /\ TreeOK(cs) /\ c \in 1..Len(cs) /\ cs[c].end = Pending /\ t \in Nat
      /\ ds = [cs EXCEPT ![c] = [cs[c] EXCEPT !.end = t]]
  BY DEF Ends
<1>2. /\ Len(cs) \in Nat /\ \A d \in 1..Len(cs) : cs[d] \in CallSet
      /\ cs \in [1..Len(cs) -> CallSet]
  <2>1. Len(cs) \in Nat /\ \A d \in 1..Len(cs) : cs[d] \in CallSet
    BY <1>1, CallIs
  <2>2. cs \in Seq(CallSet)
    BY <1>1 DEF TreeOK
  <2> QED BY <2>1, <2>2
<1> DEFINE x == [cs[c] EXCEPT !.end = t]
<1>3. /\ x \in CallSet /\ x.end = t /\ x.fn = cs[c].fn /\ x.above = cs[c].above
      /\ x.start = cs[c].start
  BY <1>1, <1>2 DEF CallSet
<1> HIDE DEF x
<1>4. ds = [cs EXCEPT ![c] = x]
  BY <1>1 DEF x
<1>5. ds \in [1..Len(cs) -> CallSet]
  BY <1>2, <1>3, <1>4
<1>6. ds \in Seq(CallSet) /\ Len(ds) = Len(cs)
  BY <1>2, <1>5
<1>7. \A d \in 1..Len(cs) : ds[d] = IF d = c THEN x ELSE cs[d]
  BY <1>2, <1>4
<1>8. \A d \in 1..Len(cs) :
         /\ ds[d].fn = cs[d].fn /\ ds[d].above = cs[d].above /\ ds[d].start = cs[d].start
  BY <1>3, <1>7
<1>9. TreeOK(ds)
  BY <1>1, <1>6, <1>8 DEF TreeOK
<1>10. \A d \in 1..Len(cs) : Depth(ds, d) = Depth(cs, d) /\ LevelsOf(ds)[d] = LevelsOf(cs)[d]
  <2>1. Len(cs) <= Len(ds)
    BY <1>2, <1>6
  <2>2. \A d \in 1..Len(cs) : ds[d].fn = cs[d].fn /\ ds[d].above = cs[d].above
    BY <1>8
  <2>3. TreeOK(cs) /\ TreeOK(ds)
    BY <1>1, <1>9
  <2> QED BY <2>1, <2>2, <2>3, LevelsKept
<1>11. \A d \in 1..Len(cs) : KeyOf(ds, d) = KeyOf(cs, d)
  BY <1>8, <1>10 DEF KeyOf
<1> QED BY <1>1, <1>3, <1>6, <1>7, <1>8, <1>9, <1>10, <1>11

\* A call above the start depth returns.
LEMMA SkippedKeeps ==
  ASSUME NEW cs, NEW ds, NEW c, NEW t, Ends(cs, ds, c, t), ~(Depth(cs, c) >= StartDepth)
  PROVE  /\ Keys(ds) = Keys(cs)
         /\ \A k : Count(ds, k) = Count(cs, k) /\ Time(ds, k) = Time(cs, k)
<1>1. TreeOK(cs) /\ c \in 1..Len(cs) /\ DOMAIN cs = 1..Len(cs)
  BY CallIs DEF Ends
<1>2. /\ Len(ds) = Len(cs) /\ DOMAIN ds = 1..Len(cs)
      /\ \A d \in 1..Len(cs) : /\ d # c => ds[d] = cs[d]
                               /\ Depth(ds, d) = Depth(cs, d) /\ KeyOf(ds, d) = KeyOf(cs, d)
  BY EndsIs, CallIs
<1>3. Returned(ds) = Returned(cs)
  BY <1>1, <1>2 DEF Returned
<1>4. \A d \in Returned(cs) : d \in 1..Len(cs) /\ d # c /\ KeyOf(ds, d) = KeyOf(cs, d)
  BY <1>1, <1>2 DEF Returned
<1>5. Keys(ds) = Keys(cs)
  BY <1>3, <1>4 DEF Keys
<1>6. ASSUME NEW k PROVE Done(ds, k) = Done(cs, k)
  BY <1>3, <1>4 DEF Done
<1>7. ASSUME NEW k PROVE Time(ds, k) = Time(cs, k)
  <2>1. IsFiniteSet(Done(cs, k)) /\ Done(cs, k) \subseteq Returned(cs)
    BY <1>1, DoneIsTyped DEF Done
  <2>2. \A d \in Done(cs, k) : Spent(ds)[d] = Spent(cs)[d]
    BY <1>1, <1>2, <1>4, <2>1 DEF Spent
  <2>3. SumFunctionOnSet(Spent(ds), Done(cs, k)) = SumFunctionOnSet(Spent(cs), Done(cs, k))
    BY <2>1, <2>2, SumSame
  <2> QED BY <1>6, <2>3 DEF Time
<1> QED BY <1>5, <1>6, <1>7 DEF Count

\* A call from the start depth on returns.
LEMMA ReturnedCounts ==
  ASSUME NEW cs, NEW ds, NEW c, NEW t, Ends(cs, ds, c, t), Depth(cs, c) >= StartDepth,
         NEW key, key = KeyOf(cs, c)
  PROVE  /\ Keys(ds) = Keys(cs) \cup {key}
         /\ \A k : k # key => Count(ds, k) = Count(cs, k) /\ Time(ds, k) = Time(cs, k)
         /\ Count(ds, key) = Count(cs, key) + 1 /\ Time(ds, key) = Time(cs, key) + (t - cs[c].start)
         /\ key \notin Keys(cs) => Count(cs, key) = 0 /\ Time(cs, key) = 0
<1>1. /\ TreeOK(cs) /\ c \in 1..Len(cs) /\ DOMAIN cs = 1..Len(cs) /\ t # Pending
      /\ cs[c].end = Pending /\ t \in Nat
  BY CallIs DEF Ends, Pending
<1>2. /\ TreeOK(ds) /\ Len(ds) = Len(cs) /\ DOMAIN ds = 1..Len(cs) /\ ds[c].end = t
      /\ ds[c].start = cs[c].start
      /\ \A d \in 1..Len(cs) : /\ d # c => ds[d] = cs[d]
                               /\ Depth(ds, d) = Depth(cs, d) /\ KeyOf(ds, d) = KeyOf(cs, d)
  BY <1>1, EndsIs, CallIs
<1>3. Returned(ds) = Returned(cs) \cup {c} /\ c \notin Returned(cs)
  BY <1>1, <1>2 DEF Returned
<1>4. \A d \in Returned(cs) : d \in 1..Len(cs) /\ d # c
  BY <1>1 DEF Returned
<1>5. Keys(ds) = Keys(cs) \cup {key}
  BY <1>1, <1>2, <1>3, <1>4 DEF Keys
<1>6. ASSUME NEW k PROVE Done(ds, k) = IF k = key THEN Done(cs, k) \cup {c} ELSE Done(cs, k)
  BY <1>1, <1>2, <1>3, <1>4 DEF Done
<1>7. ASSUME NEW k PROVE /\ IsFiniteSet(Done(cs, k)) /\ c \notin Done(cs, k)
                         /\ Done(cs, k) \subseteq 1..Len(cs)
                         /\ SumFunctionOnSet(Spent(ds), Done(cs, k)) = Time(cs, k)
                         /\ Time(cs, k) \in Int
  <2>1. IsFiniteSet(Done(cs, k)) /\ Done(cs, k) \subseteq Returned(cs)
    BY <1>1, DoneIsTyped DEF Done
  <2>2. \A d \in Done(cs, k) : Spent(ds)[d] = Spent(cs)[d]
    BY <1>1, <1>2, <1>4, <2>1 DEF Spent
  <2>3. SumFunctionOnSet(Spent(ds), Done(cs, k)) = SumFunctionOnSet(Spent(cs), Done(cs, k))
    BY <2>1, <2>2, SumSame
  <2>4. \A d \in Done(cs, k) : Spent(cs)[d] \in Int
    BY <1>1, <1>4, <2>1, DoneIsTyped
  <2>5. SumFunctionOnSet(Spent(cs), Done(cs, k)) \in Int
    BY <2>1, <2>4, SumTyped
  <2> QED BY <1>3, <1>4, <2>1, <2>3, <2>5 DEF Time
<1>8. ASSUME NEW k, k # key PROVE Count(ds, k) = Count(cs, k) /\ Time(ds, k) = Time(cs, k)
  BY <1>6, <1>7, <1>8 DEF Count, Time
<1>9. Count(ds, key) = Count(cs, key) + 1
  BY <1>6, <1>7, FS_AddElement DEF Count
<1>10. Time(ds, key) = Time(cs, key) + (t - cs[c].start)
  <2>1. \A d \in 1..Len(cs) : Spent(ds)[d] \in Int /\ Spent(ds)[d] = ds[d].end - ds[d].start
    BY <1>2, DoneIsTyped
  <2>2. \A d \in Done(cs, key) \cup {c} : Spent(ds)[d] \in Int
    BY <1>1, <1>7, <2>1
  <2>3. SumFunctionOnSet(Spent(ds), Done(cs, key) \cup {c}) =
          Spent(ds)[c] + SumFunctionOnSet(Spent(ds), Done(cs, key))
    BY <1>7, <2>2, SumAdded
  <2>4. Spent(ds)[c] = t - cs[c].start
    BY <1>1, <1>2, <2>1
  <2>5. Time(ds, key) = Spent(ds)[c] + Time(cs, key)
    BY <1>6, <1>7, <2>3 DEF Time
  <2>6. Spent(ds)[c] \in Int /\ Time(cs, key) \in Int
    BY <1>1, <1>7, <2>1
  <2> QED BY <2>4, <2>5, <2>6
<1>11. ASSUME key \notin Keys(cs) PROVE Count(cs, key) = 0 /\ Time(cs, key) = 0
  <2>1. Done(cs, key) = {}
    BY <1>11 DEF Keys, Done
  <2> QED BY <2>1, SumEmpty, FS_EmptySet DEF Count, Time
<1> QED BY <1>5, <1>8, <1>9, <1>10, <1>11

-----------------------------------------------------------------------------
(* The buckets are exact *)

Uncut == running /\ sampled /\ ~cut

\* PHP's stack: calls that have not returned, the last begun first.
PhpTree ==
  /\ \A i \in 1..Len(php) : php[i].counted =>
       /\ php[i].call \in 1..Len(calls) /\ calls[php[i].call].end = Pending
       /\ php[i].traced <=> Depth(calls, php[i].call) >= StartDepth
  /\ \A i, j \in 1..Len(php) :
       i < j /\ php[i].counted /\ php[j].counted => php[j].call < php[i].call

FrameOf(fr, cs) ==
  fr.fn = cs[fr.call].fn /\ fr.start = cs[fr.call].start /\ fr.level = LevelsOf(cs)[fr.call]

\* A frame for each traced call on PHP's stack, in the same order, with the
\* level and the start the call has.
FramesTree ==
  /\ \A j \in 1..Len(frames) : \E i \in 1..Len(php) :
       php[i].traced /\ php[i].call = frames[j].call
  /\ \A i \in 1..Len(php) : php[i].traced =>
       \E j \in 1..Len(frames) : frames[j].call = php[i].call
  /\ \A i, j \in 1..Len(frames) : i < j => frames[j].call < frames[i].call
  /\ \A j \in 1..Len(frames) : FrameOf(frames[j], calls)

BucketsExact ==
  /\ DOMAIN buckets = Keys(calls)
  /\ \A k \in DOMAIN buckets : /\ buckets[k].count = Count(calls, k)
                               /\ buckets[k].wall = Time(calls, k)

Exact == TreeOK(calls) /\ PhpTree /\ FramesTree /\ BucketsExact

\* What an unsampled request leaves for the next one.
Idle ==
  ~running \/ ~sampled =>
    DOMAIN buckets = {} /\ \A i \in 1..Len(php) : ~php[i].traced

ExactInv == Inv /\ Idle /\ (running => clock >= 1) /\ (Uncut => Exact)

LEMMA ExactIsProfile ==
  ASSUME ExactInv
  PROVE  ProfileExact
BY DEF ExactInv, Uncut, Exact, BucketsExact, ProfileExact, Keys, Count, Time

LEMMA ExactInvInit == Init => ExactInv
<1> SUFFICES ASSUME Init PROVE ExactInv
  OBVIOUS
<1>1. Inv
  BY InvInit
<1>2. ~running /\ DOMAIN buckets = {} /\ Len(php) = 0
  BY DEF Init
<1> QED BY <1>1, <1>2 DEF ExactInv, Idle, Uncut

LEMMA StacksAre ==
  ASSUME Inv
  PROVE  /\ php \in Seq(PhpCalls) /\ DOMAIN php = 1..Len(php) /\ Len(php) \in Nat
         /\ \A i \in 1..Len(php) : php[i] \in PhpCalls /\ (php[i].traced => php[i].counted)
                                     /\ php[i].call \in Nat
         /\ frames \in Seq(FrameSet) /\ DOMAIN frames = 1..Len(frames) /\ Len(frames) \in Nat
         /\ \A j \in 1..Len(frames) : frames[j] \in FrameSet /\ frames[j].call \in Nat
         /\ calls \in Seq(CallSet) /\ DOMAIN calls = 1..Len(calls) /\ Len(calls) \in Nat
<1>1. php \in Seq(PhpCalls) /\ frames \in Seq(FrameSet) /\ calls \in Seq(CallSet)
  BY DEF Inv, Shapes
<1>2. ASSUME NEW i \in 1..Len(php)
      PROVE  /\ php[i] \in PhpCalls /\ (php[i].traced => php[i].counted)
             /\ php[i].call \in Nat
  <2>1. php[i] \in PhpCalls
    BY <1>1
  <2> QED BY <2>1 DEF PhpCalls
<1>3. ASSUME NEW j \in 1..Len(frames) PROVE frames[j] \in FrameSet /\ frames[j].call \in Nat
  <2>1. frames[j] \in FrameSet
    BY <1>1
  <2> QED BY <2>1 DEF FrameSet
<1> QED BY <1>1, <1>2, <1>3

\* The record cs, with one call more that PHP's stack is above.
Begins(ds, f) ==
  /\ TreeOK(ds) /\ Len(ds) = Len(calls) + 1 /\ Len(ds) \in 1..Len(ds)
  /\ \A c \in 1..Len(calls) : c \in 1..Len(ds) /\ ds[c] = calls[c]
  /\ ds[Len(ds)] = [fn |-> f, start |-> clock, end |-> Pending, above |-> php]

LEMMA RecordBegins ==
  ASSUME Inv, TreeOK(calls), PhpTree, NEW f \in Fns, Record(f), calls' \in Seq(CallSet)
  PROVE  Begins(calls', f)
<1> DEFINE c == [fn |-> f, start |-> clock, end |-> Pending, above |-> php]
<1>1. php \in Seq(PhpCalls) /\ calls \in Seq(CallSet) /\ Len(calls) \in Nat
  BY StacksAre
<1>2. calls' = Append(calls, c)
  BY DEF Record
<1>3. c.above = php
  OBVIOUS
<1> HIDE DEF c
<1>4. /\ Len(calls') = Len(calls) + 1 /\ calls'[Len(calls) + 1] = c
      /\ \A d \in 1..Len(calls) : calls'[d] = calls[d]
  BY <1>1, <1>2
<1>5. ASSUME NEW d \in 1..Len(calls'), NEW i \in 1..Len(calls'[d].above),
             calls'[d].above[i].counted
      PROVE  calls'[d].above[i].call \in 1..(d - 1)
  <2>1. CASE d \in 1..Len(calls)
    BY <1>4, <1>5, <2>1 DEF TreeOK
  <2>2. CASE d \notin 1..Len(calls)
    <3>1. d = Len(calls) + 1 /\ calls'[d].above = php
      BY <1>1, <1>3, <1>4, <2>2
    <3>2. php[i].call \in 1..Len(calls)
      BY <1>5, <3>1 DEF PhpTree
    <3> QED BY <1>1, <3>1, <3>2
  <2> QED BY <2>1, <2>2
<1>6. TreeOK(calls')
  BY <1>5 DEF TreeOK
<1>7. Len(calls') \in 1..Len(calls') /\ \A d \in 1..Len(calls) : d \in 1..Len(calls')
  BY <1>1, <1>4
<1> QED BY <1>4, <1>6, <1>7 DEF Begins, c

LEMMA BeginsKeeps ==
  ASSUME Inv, TreeOK(calls), NEW f, NEW ds, Begins(ds, f)
  PROVE  /\ Keys(ds) = Keys(calls)
         /\ \A k : Count(ds, k) = Count(calls, k) /\ Time(ds, k) = Time(calls, k)
         /\ \A c \in 1..Len(calls) : /\ Depth(ds, c) = Depth(calls, c)
                                     /\ LevelsOf(ds)[c] = LevelsOf(calls)[c]
<1>1. /\ TreeOK(ds) /\ Len(ds) = Len(calls) + 1 /\ ds[Len(ds)].end = Pending
      /\ \A c \in 1..Len(calls) : ds[c] = calls[c]
  BY DEF Begins
<1>2. Len(calls) <= Len(ds)
  BY <1>1, StacksAre
<1>3. \A c \in 1..Len(calls) : /\ Depth(ds, c) = Depth(calls, c)
                               /\ LevelsOf(ds)[c] = LevelsOf(calls)[c]
  BY <1>1, <1>2, LevelsKept
<1> QED BY <1>1, <1>3, BegunKeeps

\* The level that a frame is given is the one its call should have.
LEMMA FrameLevelIs ==
  ASSUME Inv, Uncut, Exact, NEW f \in Fns, NEW ds, Begins(ds, f)
  PROVE  /\ Depth(ds, Len(ds)) = stackLevel + 1
         /\ FrameLevel(f) = LevelsOf(ds)[Len(ds)]
<1> DEFINE n == Len(ds)
           P == {i \in 1..Len(php) : php[i].traced /\ calls[php[i].call].fn = f}
           F == {j \in 1..Len(frames) : frames[j].fn = f}
<1>1. /\ ds[n].above = php /\ ds[n].fn = f /\ n \in 1..Len(ds)
      /\ TreeOK(ds) /\ TreeOK(calls) /\ PhpTree /\ FramesTree
      /\ \A c \in 1..Len(calls) : ds[c] = calls[c]
  BY DEF Begins, Exact
<1>2. /\ DOMAIN php = 1..Len(php) /\ Len(php) \in Nat
      /\ \A i \in 1..Len(php) : php[i].traced => php[i].counted
      /\ \A i \in 1..Len(php) : php[i].call \in Nat
      /\ DOMAIN frames = 1..Len(frames) /\ Len(frames) \in Nat
      /\ \A j \in 1..Len(frames) : frames[j] \in FrameSet /\ frames[j].call \in Nat
      /\ frames \in Seq(FrameSet) /\ stackLevel \in Nat
  BY StacksAre DEF Inv, Counts
<1>3. Depth(ds, n) = stackLevel + 1
  <2>1. stackLevel = Cardinality({i \in DOMAIN php : php[i].counted})
    BY BalanceIsLevelBalanced DEF LevelBalanced, Uncut
  <2> QED BY <1>1, <2>1 DEF Depth
<1> HIDE DEF n
<1>4. Same(ds, n) = P
  <2>1. \A c \in 1..Len(calls) : Depth(ds, c) = Depth(calls, c)
    BY <1>1, BeginsKeeps
  <2>2. ASSUME NEW i \in 1..Len(php)
        PROVE  (php[i].counted /\ Depth(ds, php[i].call) >= StartDepth
                  /\ ds[php[i].call].fn = f) <=> i \in P
    <3>1. CASE php[i].counted
      <4>1. /\ php[i].call \in 1..Len(calls)
            /\ php[i].traced <=> Depth(calls, php[i].call) >= StartDepth
        BY <1>1, <3>1 DEF PhpTree
      <4> QED BY <1>1, <2>1, <3>1, <4>1
    <3>2. CASE ~php[i].counted
      BY <1>2, <3>2
    <3> QED BY <3>1, <3>2
  <2> QED BY <1>1, <1>2, <2>2 DEF Same
<1>5. Ancestors(f) = F
  <2>1. ASSUME NEW j \in F PROVE counters[HashOf[f]] > 0
    <3>1. HashOf[f] \in Hashes
      BY DEF Hashes
    <3>2. /\ counters[HashOf[f]] \in Nat
          /\ Number(frames, FramesOf(HashOf[f])) <= counters[HashOf[f]]
      BY <3>1 DEF Inv, Counts, CounterCovers
    <3>3. j \in Marks(frames, FramesOf(HashOf[f]))
      BY <1>2 DEF Marks, FramesOf
    <3>4. /\ IsFiniteSet(Marks(frames, FramesOf(HashOf[f])))
          /\ Number(frames, FramesOf(HashOf[f])) \in Nat
      BY <1>2, MarksFinite
    <3>5. Number(frames, FramesOf(HashOf[f])) # 0
      BY <3>3, <3>4, FS_EmptySet DEF Number
    <3> QED BY <3>2, <3>4, <3>5
  <2>2. CASE F = {}
    BY <1>2, <2>2 DEF Ancestors, SameFunction
  <2>3. CASE F # {}
    BY <1>2, <2>1, <2>3 DEF Ancestors, SameFunction
  <2> QED BY <2>2, <2>3
<1>6. \A j \in F : \E i \in P : php[i].call = frames[j].call
  <2> SUFFICES ASSUME NEW j \in F PROVE \E i \in P : php[i].call = frames[j].call
    OBVIOUS
  <2>1. PICK i \in 1..Len(php) : php[i].traced /\ php[i].call = frames[j].call
    BY <1>1 DEF FramesTree
  <2>2. frames[j].fn = calls[frames[j].call].fn
    BY <1>1 DEF FramesTree, FrameOf
  <2> QED BY <2>1, <2>2
<1>7. \A i \in P : \E j \in F : php[i].call = frames[j].call
  <2> SUFFICES ASSUME NEW i \in P PROVE \E j \in F : php[i].call = frames[j].call
    OBVIOUS
  <2>1. PICK j \in 1..Len(frames) : frames[j].call = php[i].call
    BY <1>1 DEF FramesTree
  <2>2. frames[j].fn = calls[frames[j].call].fn
    BY <1>1 DEF FramesTree, FrameOf
  <2> QED BY <2>1, <2>2
<1>8. LevelsOf(ds)[n] = LevelIn(ds, LevelsOf(ds), n)
  BY <1>1, LevelIs
<1>9. CASE P = {}
  <2>1. F = {}
    BY <1>6, <1>9
  <2> HIDE DEF P, F
  <2>2. FrameLevel(f) = (stackLevel + 1 + 1) - StartDepth
    BY <1>5, <2>1 DEF FrameLevel
  <2> QED BY <1>3, <1>4, <1>8, <1>9, <2>2 DEF LevelIn, n
<1>10. CASE P # {}
  <2>1. F # {}
    BY <1>7, <1>10
  <2>2. P \in SUBSET Nat /\ F \in SUBSET Nat
    BY <1>2
  <2>3. /\ Min(P) \in P /\ \A i \in P : Min(P) <= i
        /\ Min(F) \in F /\ \A j \in F : Min(F) <= j
    <3> HIDE DEF P, F
    <3> QED BY <1>10, <2>1, <2>2, Minimum
  <2> DEFINE p == Min(P)
             q == Min(F)
  <2> HIDE DEF p, q
  <2>4. php[p].call = frames[q].call
    <3>1. PICK j \in F : php[p].call = frames[j].call
      BY <1>7, <2>3 DEF p
    <3>2. PICK i \in P : php[i].call = frames[q].call
      BY <1>6, <2>3 DEF q
    <3>3. q <= j /\ p <= i /\ q \in F /\ p \in P
      BY <2>3 DEF p, q
    <3>4. frames[j].call <= frames[q].call
      <4>1. j \in 1..Len(frames) /\ q \in 1..Len(frames)
        BY <3>3
      <4>2. CASE q = j
        BY <1>2, <4>1, <4>2
      <4>3. CASE q < j
        <5>1. frames[j].call < frames[q].call
          BY <1>1, <4>1, <4>3 DEF FramesTree
        <5> QED BY <1>2, <4>1, <5>1
      <4> QED BY <1>2, <3>3, <4>1, <4>2, <4>3
    <3>5. php[i].call <= php[p].call
      <4>1. /\ i \in 1..Len(php) /\ p \in 1..Len(php) /\ php[i].counted /\ php[p].counted
            /\ p < i => php[i].call < php[p].call
        BY <1>1, <1>2, <3>3 DEF PhpTree
      <4> QED BY <1>2, <3>3, <4>1
    <3> QED BY <1>2, <3>1, <3>2, <3>3, <3>4, <3>5
  <2>5. FrameLevel(f) = frames[q].level
    <3> HIDE DEF P, F
    <3> QED BY <1>5, <2>1 DEF FrameLevel, q
  <2>6. q \in 1..Len(frames) /\ p \in 1..Len(php) /\ php[p].counted
    BY <1>2, <2>3 DEF p, q
  <2>7. frames[q].level = LevelsOf(calls)[frames[q].call]
    BY <1>1, <2>6 DEF FramesTree, FrameOf
  <2>8. php[p].call \in 1..Len(calls)
    BY <1>1, <2>6 DEF PhpTree
  <2>9. LevelsOf(ds)[php[p].call] = LevelsOf(calls)[php[p].call]
    BY <1>1, <2>8, BeginsKeeps
  <2>10. Near(ds, n) = php[p].call
    BY <1>1, <1>4 DEF Near, p
  <2>11. LevelsOf(ds)[n] = LevelsOf(ds)[php[p].call]
    <3> HIDE DEF P
    <3> QED BY <1>4, <1>8, <1>10, <2>10 DEF LevelIn
  <2>12. FrameLevel(f) = LevelsOf(ds)[n]
    BY <2>4, <2>5, <2>7, <2>9, <2>11
  <2> QED BY <1>3, <2>12 DEF n
<1> QED BY <1>9, <1>10

-----------------------------------------------------------------------------
(* One lemma for each action *)

LEMMA PushedPhp ==
  ASSUME Inv, NEW r \in PhpCalls, php' = <<r>> \o php
  PROVE  /\ Len(php) \in Nat /\ Len(php') = Len(php) + 1 /\ php'[1] = r /\ 1 \in 1..Len(php')
         /\ \A i \in 1..Len(php) : i + 1 \in 1..Len(php') /\ php'[i + 1] = php[i]
         /\ \A i \in 1..Len(php') : i = 1 \/ (i - 1 \in 1..Len(php) /\ php'[i] = php[i - 1])
<1>1. /\ php \in Seq(PhpCalls) /\ Len(php) \in Nat
  BY StacksAre
<1>2. /\ Len(php') = Len(php) + 1 /\ php'[1] = r
      /\ \A i \in 2..(Len(php) + 1) : php'[i] = php[i - 1]
  BY <1>1, Pushed
<1>3. ASSUME NEW i \in 1..Len(php) PROVE i + 1 \in 1..Len(php') /\ php'[i + 1] = php[i]
  <2>1. i + 1 \in 2..(Len(php) + 1) /\ (i + 1) - 1 = i
    BY <1>1
  <2>2. php'[i + 1] = php[i]
    BY <1>2, <2>1
  <2> QED BY <1>1, <1>2, <2>1, <2>2
<1>4. ASSUME NEW i \in 1..Len(php'), i # 1
      PROVE  i - 1 \in 1..Len(php) /\ php'[i] = php[i - 1]
  <2>1. i \in 2..(Len(php) + 1) /\ i - 1 \in 1..Len(php)
    BY <1>1, <1>2, <1>4
  <2> QED BY <1>2, <2>1
<1> QED BY <1>1, <1>2, <1>3, <1>4

\* A counted call goes on PHP's stack.
LEMMA PushTree ==
  ASSUME Inv, Exact, NEW f, Begins(calls', f), NEW r \in PhpCalls, php' = <<r>> \o php,
         r.counted, r.call = Len(calls'),
         r.traced <=> Depth(calls', Len(calls')) >= StartDepth
  PROVE  PhpTree'
<1>1. /\ Len(php) \in Nat /\ Len(php') = Len(php) + 1 /\ php'[1] = r
      /\ \A i \in 1..Len(php') : i = 1 \/ (i - 1 \in 1..Len(php) /\ php'[i] = php[i - 1])
  BY PushedPhp
<1>2. /\ Len(calls') = Len(calls) + 1 /\ Len(calls') \in 1..Len(calls') /\ Len(calls) \in Nat
      /\ \A c \in 1..Len(calls) : c \in 1..Len(calls') /\ calls'[c] = calls[c]
      /\ calls'[Len(calls')].end = Pending
      /\ \A c \in 1..Len(calls) : Depth(calls', c) = Depth(calls, c)
  <2>1. \A c \in 1..Len(calls) : Depth(calls', c) = Depth(calls, c)
    BY BeginsKeeps DEF Exact
  <2> QED BY <2>1, StacksAre DEF Begins
<1>3. PhpTree
  BY DEF Exact
<1>4. ASSUME NEW i \in 1..Len(php'), php'[i].counted
      PROVE  /\ php'[i].call \in 1..Len(calls') /\ calls'[php'[i].call].end = Pending
             /\ php'[i].traced <=> Depth(calls', php'[i].call) >= StartDepth
  <2>1. CASE i = 1
    BY <1>1, <1>2, <2>1
  <2>2. CASE i # 1
    <3>1. i - 1 \in 1..Len(php) /\ php'[i] = php[i - 1]
      BY <1>1, <2>2
    <3> DEFINE x == php'[i]
    <3>2. /\ x.call \in 1..Len(calls) /\ calls[x.call].end = Pending
          /\ x.traced <=> Depth(calls, x.call) >= StartDepth
      BY <1>3, <1>4, <3>1 DEF PhpTree
    <3> HIDE DEF x
    <3>3. /\ x.call \in 1..Len(calls') /\ calls'[x.call].end = Pending
          /\ x.traced <=> Depth(calls', x.call) >= StartDepth
      BY <1>2, <3>2
    <3> QED BY <3>3 DEF x
  <2> QED BY <2>1, <2>2
<1>5. ASSUME NEW i \in 1..Len(php'), NEW j \in 1..Len(php'), i < j,
             php'[i].counted, php'[j].counted
      PROVE  php'[j].call < php'[i].call
  <2>1. j - 1 \in 1..Len(php) /\ php'[j] = php[j - 1]
    BY <1>1, <1>5
  <2>2. CASE i = 1
    <3>1. php[j - 1].call \in 1..Len(calls)
      BY <1>3, <1>5, <2>1 DEF PhpTree
    <3> QED BY <1>1, <1>2, <2>1, <2>2, <3>1
  <2>3. CASE i # 1
    <3>1. i - 1 \in 1..Len(php) /\ php'[i] = php[i - 1]
      BY <1>1, <2>3
    <3>2. i - 1 < j - 1
      BY <1>1, <1>5
    <3> QED BY <1>3, <1>5, <2>1, <3>1, <3>2 DEF PhpTree
  <2> QED BY <2>2, <2>3
<1> QED BY <1>4, <1>5 DEF PhpTree

\* What a frame says of its call stays so.
LEMMA FramesStay ==
  ASSUME Exact, Inv, NEW ds, \A c \in 1..Len(calls) : /\ ds[c].fn = calls[c].fn
                                                      /\ ds[c].start = calls[c].start
                                                      /\ LevelsOf(ds)[c] = LevelsOf(calls)[c]
  PROVE  \A j \in 1..Len(frames) :
           frames[j].call \in 1..Len(calls) /\ FrameOf(frames[j], ds)
<1> SUFFICES ASSUME NEW j \in 1..Len(frames)
             PROVE  frames[j].call \in 1..Len(calls) /\ FrameOf(frames[j], ds)
  OBVIOUS
<1>1. PICK i \in 1..Len(php) : php[i].traced /\ php[i].call = frames[j].call
  BY DEF Exact, FramesTree
<1>2. php[i].call \in 1..Len(calls)
  BY <1>1, StacksAre DEF Exact, PhpTree
<1>3. FrameOf(frames[j], calls)
  BY DEF Exact, FramesTree
<1> QED BY <1>1, <1>2, <1>3 DEF FrameOf

LEMMA CallSkippedExact ==
  ASSUME ExactInv, NEW f \in Fns, CallSkipped(f)
  PROVE  ExactInv'
<1> DEFINE r == [traced |-> FALSE, counted |-> TRUE, call |-> Len(calls) + 1]
<1>1. Inv /\ Inv'
  BY CallSkippedInv DEF ExactInv
<1>2. /\ php' = <<r>> \o php /\ running /\ running' = running /\ sampled /\ sampled' = sampled
      /\ cut' = cut /\ clock' = clock /\ Record(f) /\ frames' = frames /\ buckets' = buckets
      /\ ~(stackLevel + 1 >= StartDepth)
  <2>1. stackLevel \in Nat /\ stackLevel + 1 < StartDepth
    BY <1>1 DEF CallSkipped, Inv, Counts
  <2>2. ~(stackLevel + 1 >= StartDepth)
    BY <2>1, BoundsAssumption
  <2> QED BY <2>2 DEF CallSkipped, r
<1>3. r \in PhpCalls /\ ~r.traced /\ r.counted /\ r.call = Len(calls) + 1
  BY <1>1, StacksAre DEF PhpCalls
<1> HIDE DEF r
<1>4. Idle' /\ (running' => clock' >= 1)
  BY <1>2 DEF ExactInv, Idle
<1>5. ASSUME Uncut' PROVE Exact'
  <2>1. Uncut /\ Exact
    BY <1>2, <1>5 DEF Uncut, ExactInv
  <2>2. calls' \in Seq(CallSet)
    BY <1>1 DEF Inv, Shapes
  <2>3. Begins(calls', f)
    BY <1>1, <1>2, <2>1, <2>2, RecordBegins DEF Exact
  <2>4. Depth(calls', Len(calls')) = stackLevel + 1 /\ r.call = Len(calls')
    BY <1>1, <1>3, <2>1, <2>3, FrameLevelIs DEF Begins
  <2>5. PhpTree'
    BY <1>1, <1>2, <1>3, <2>1, <2>3, <2>4, PushTree
  <2>6. /\ Keys(calls') = Keys(calls)
        /\ \A k : Count(calls', k) = Count(calls, k) /\ Time(calls', k) = Time(calls, k)
        /\ \A c \in 1..Len(calls) : LevelsOf(calls')[c] = LevelsOf(calls)[c]
    BY <1>1, <2>1, <2>3, BeginsKeeps DEF Exact
  <2>7. BucketsExact'
    BY <1>2, <2>1, <2>6 DEF Exact, BucketsExact
  <2>8. /\ php'[1] = r /\ \A i \in 1..Len(php) : i + 1 \in 1..Len(php') /\ php'[i + 1] = php[i]
        /\ \A i \in 1..Len(php') : i = 1 \/ (i - 1 \in 1..Len(php) /\ php'[i] = php[i - 1])
    BY <1>1, <1>2, <1>3, PushedPhp
  <2>9. FramesTree'
    <3>1. \A c \in 1..Len(calls) : /\ calls'[c].fn = calls[c].fn
                                   /\ calls'[c].start = calls[c].start
      BY <2>3 DEF Begins
    <3>2. \A j \in 1..Len(frames) : FrameOf(frames[j], calls')
      BY <1>1, <2>1, <2>6, <3>1, FramesStay
    <3>3. ASSUME NEW j \in 1..Len(frames)
          PROVE  \E i \in 1..Len(php') : php'[i].traced /\ php'[i].call = frames[j].call
      <4>1. PICK i \in 1..Len(php) : php[i].traced /\ php[i].call = frames[j].call
        BY <2>1 DEF Exact, FramesTree
      <4> QED BY <2>8, <4>1
    <3>4. ASSUME NEW i \in 1..Len(php'), php'[i].traced
          PROVE  \E j \in 1..Len(frames) : frames[j].call = php'[i].call
      <4>1. i - 1 \in 1..Len(php) /\ php'[i] = php[i - 1]
        BY <1>3, <2>8, <3>4
      <4> QED BY <2>1, <3>4, <4>1 DEF Exact, FramesTree
    <3>5. \A i, j \in 1..Len(frames) : i < j => frames[j].call < frames[i].call
      BY <2>1 DEF Exact, FramesTree
    <3> QED BY <1>2, <3>2, <3>3, <3>4, <3>5 DEF FramesTree, FrameOf
  <2> QED BY <2>3, <2>5, <2>7, <2>9 DEF Exact, Begins
<1> QED BY <1>1, <1>4, <1>5 DEF ExactInv

LEMMA CallTracedExact ==
  ASSUME ExactInv, NEW f \in Fns, CallTraced(f)
  PROVE  ExactInv'
<1> DEFINE r  == [traced |-> TRUE, counted |-> TRUE, call |-> Len(calls) + 1]
           fr == Frame(f)
<1>1. Inv /\ Inv'
  BY CallTracedInv DEF ExactInv
<1>2. /\ php' = <<r>> \o php /\ running /\ running' = running /\ sampled /\ sampled' = sampled
      /\ cut' = cut /\ clock' = clock /\ Record(f) /\ frames' = <<fr>> \o frames
      /\ buckets' = buckets /\ stackLevel + 1 >= StartDepth
  BY <1>1 DEF CallTraced
<1>3. r \in PhpCalls /\ r.traced /\ r.counted /\ r.call = Len(calls) + 1
  BY <1>1, StacksAre DEF PhpCalls
<1>4. /\ fr \in FrameSet /\ fr.fn = f /\ fr.start = clock /\ fr.level = FrameLevel(f)
      /\ fr.call = Len(calls) + 1
  <2>1. fr \in FrameSet
    BY <1>1, <1>2, FrameIsTyped
  <2> QED BY <2>1 DEF Frame
<1> HIDE DEF r, fr
<1>5. Idle' /\ (running' => clock' >= 1)
  BY <1>2 DEF ExactInv, Idle
<1>6. ASSUME Uncut' PROVE Exact'
  <2>1. Uncut /\ Exact
    BY <1>2, <1>6 DEF Uncut, ExactInv
  <2>2. calls' \in Seq(CallSet)
    BY <1>1 DEF Inv, Shapes
  <2>3. Begins(calls', f)
    BY <1>1, <1>2, <2>1, <2>2, RecordBegins DEF Exact
  <2>4. /\ Depth(calls', Len(calls')) = stackLevel + 1 /\ r.call = Len(calls')
        /\ fr.call = Len(calls') /\ fr.level = LevelsOf(calls')[Len(calls')]
    BY <1>1, <1>3, <1>4, <2>1, <2>3, FrameLevelIs DEF Begins
  <2>5. PhpTree'
    BY <1>1, <1>2, <1>3, <2>1, <2>3, <2>4, PushTree
  <2>6. /\ Keys(calls') = Keys(calls)
        /\ \A k : Count(calls', k) = Count(calls, k) /\ Time(calls', k) = Time(calls, k)
        /\ \A c \in 1..Len(calls) : LevelsOf(calls')[c] = LevelsOf(calls)[c]
    BY <1>1, <2>1, <2>3, BeginsKeeps DEF Exact
  <2>7. BucketsExact'
    BY <1>2, <2>1, <2>6 DEF Exact, BucketsExact
  <2>8. /\ php'[1] = r /\ 1 \in 1..Len(php')
        /\ \A i \in 1..Len(php) : i + 1 \in 1..Len(php') /\ php'[i + 1] = php[i]
        /\ \A i \in 1..Len(php') : i = 1 \/ (i - 1 \in 1..Len(php) /\ php'[i] = php[i - 1])
    BY <1>1, <1>2, <1>3, PushedPhp
  <2>9. FramesTree'
    <3>1. /\ \A c \in 1..Len(calls) : /\ calls'[c].fn = calls[c].fn
                                      /\ calls'[c].start = calls[c].start
          /\ FrameOf(fr, calls') /\ Len(calls') = Len(calls) + 1 /\ Len(calls) \in Nat
      BY <1>1, <1>4, <2>3, <2>4, StacksAre DEF Begins, FrameOf
    <3>2. \A j \in 1..Len(frames) :
            FrameOf(frames[j], calls') /\ frames[j].call \in 1..Len(calls)
      BY <1>1, <2>1, <2>6, <3>1, FramesStay
    <3>3. /\ Len(frames) \in Nat /\ Len(frames') = Len(frames) + 1 /\ frames'[1] = fr
          /\ 1 \in 1..Len(frames')
          /\ \A j \in 1..Len(frames) : j + 1 \in 1..Len(frames') /\ frames'[j + 1] = frames[j]
          /\ \A j \in 1..Len(frames') :
               j = 1 \/ (j - 1 \in 1..Len(frames) /\ frames'[j] = frames[j - 1])
      <4>1. frames \in Seq(FrameSet) /\ Len(frames) \in Nat
        BY <1>1, StacksAre
      <4>2. /\ Len(frames') = Len(frames) + 1 /\ frames'[1] = fr
            /\ \A i \in 2..(Len(frames) + 1) : frames'[i] = frames[i - 1]
        BY <1>2, <1>4, <4>1, Pushed
      <4>3. ASSUME NEW j \in 1..Len(frames)
            PROVE  j + 1 \in 1..Len(frames') /\ frames'[j + 1] = frames[j]
        <5>1. j + 1 \in 2..(Len(frames) + 1) /\ (j + 1) - 1 = j
          BY <4>1
        <5>2. frames'[j + 1] = frames[j]
          BY <4>2, <5>1
        <5> QED BY <4>1, <4>2, <5>1, <5>2
      <4>4. ASSUME NEW j \in 1..Len(frames'), j # 1
            PROVE  j - 1 \in 1..Len(frames) /\ frames'[j] = frames[j - 1]
        <5>1. j \in 2..(Len(frames) + 1) /\ j - 1 \in 1..Len(frames)
          BY <4>1, <4>2, <4>4
        <5> QED BY <4>2, <5>1
      <4> QED BY <4>1, <4>2, <4>3, <4>4
    <3>4. ASSUME NEW j \in 1..Len(frames')
          PROVE  /\ FrameOf(frames'[j], calls')
                 /\ \E i \in 1..Len(php') : php'[i].traced /\ php'[i].call = frames'[j].call
      <4>1. CASE j = 1
        BY <1>3, <2>4, <2>8, <3>1, <3>3, <4>1
      <4>2. CASE j # 1
        <5>1. j - 1 \in 1..Len(frames) /\ frames'[j] = frames[j - 1]
          BY <3>3, <4>2
        <5>2. PICK i \in 1..Len(php) : php[i].traced /\ php[i].call = frames[j - 1].call
          BY <2>1, <5>1 DEF Exact, FramesTree
        <5>3. FrameOf(frames[j - 1], calls')
          BY <3>2, <5>1
        <5>4. i + 1 \in 1..Len(php') /\ php'[i + 1] = php[i]
          BY <2>8, <5>2
        <5> QED BY <5>1, <5>2, <5>3, <5>4
      <4> QED BY <4>1, <4>2
    <3>5. ASSUME NEW i \in 1..Len(php'), php'[i].traced
          PROVE  \E j \in 1..Len(frames') : frames'[j].call = php'[i].call
      <4>1. CASE i = 1
        BY <2>4, <2>8, <3>3, <4>1
      <4>2. CASE i # 1
        <5>1. i - 1 \in 1..Len(php) /\ php'[i] = php[i - 1]
          BY <2>8, <4>2
        <5>2. PICK j \in 1..Len(frames) : frames[j].call = php[i - 1].call
          BY <2>1, <3>5, <5>1 DEF Exact, FramesTree
        <5> QED BY <3>3, <5>1, <5>2
      <4> QED BY <4>1, <4>2
    <3>6. ASSUME NEW i \in 1..Len(frames'), NEW j \in 1..Len(frames'), i < j
          PROVE  frames'[j].call < frames'[i].call
      <4>1. j - 1 \in 1..Len(frames) /\ frames'[j] = frames[j - 1]
        BY <3>3, <3>6
      <4>2. CASE i = 1
        <5>1. frames[j - 1].call \in 1..Len(calls)
          BY <3>2, <4>1
        <5> QED BY <2>4, <3>1, <3>3, <4>1, <4>2, <5>1
      <4>3. CASE i # 1
        <5>1. i - 1 \in 1..Len(frames) /\ frames'[i] = frames[i - 1] /\ i - 1 < j - 1
          BY <3>3, <3>6, <4>3
        <5> QED BY <2>1, <4>1, <5>1 DEF Exact, FramesTree
      <4> QED BY <4>2, <4>3
    <3> QED BY <3>4, <3>5, <3>6 DEF FramesTree, FrameOf
  <2> QED BY <2>3, <2>5, <2>7, <2>9 DEF Exact, Begins
<1> QED BY <1>1, <1>5, <1>6 DEF ExactInv

LEMMA CallUntracedExact ==
  ASSUME ExactInv, NEW f, CallUntraced(f)
  PROVE  ExactInv'
<1> DEFINE r == [traced |-> FALSE, counted |-> FALSE, call |-> 0]
<1>1. Inv /\ Inv'
  BY CallUntracedInv DEF ExactInv
<1>2. /\ php' = <<r>> \o php /\ running' = running /\ sampled' = sampled
      /\ cut' = cut /\ clock' = clock /\ calls' = calls /\ frames' = frames
      /\ buckets' = buckets
  BY DEF CallUntraced
<1>3. r \in PhpCalls /\ ~r.traced /\ ~r.counted
  BY DEF PhpCalls
<1> HIDE DEF r
<1>4. /\ php'[1] = r /\ Len(php) \in Nat /\ Len(php') = Len(php) + 1
      /\ \A i \in 1..Len(php) : i + 1 \in 1..Len(php') /\ php'[i + 1] = php[i]
      /\ \A i \in 1..Len(php') : i = 1 \/ (i - 1 \in 1..Len(php) /\ php'[i] = php[i - 1])
  BY <1>1, <1>2, <1>3, PushedPhp
<1>5. Idle' /\ (running' => clock' >= 1)
  <2>1. ASSUME ~running' \/ ~sampled', NEW i \in 1..Len(php') PROVE ~php'[i].traced
    <3>1. \A j \in 1..Len(php) : ~php[j].traced
      BY <1>2, <2>1 DEF ExactInv, Idle
    <3> QED BY <1>3, <1>4, <3>1
  <2> QED BY <1>2, <2>1 DEF ExactInv, Idle
<1>6. ASSUME Uncut' PROVE Exact'
  <2>1. Uncut /\ Exact
    BY <1>2, <1>6 DEF Uncut, ExactInv
  <2>2. TreeOK(calls') /\ BucketsExact'
    BY <1>2, <2>1 DEF Exact, BucketsExact
  <2>3. PhpTree'
    <3>1. ASSUME NEW i \in 1..Len(php'), php'[i].counted
          PROVE  i - 1 \in 1..Len(php) /\ php'[i] = php[i - 1]
      BY <1>3, <1>4, <3>1
    <3>2. ASSUME NEW i \in 1..Len(php'), php'[i].counted
          PROVE  /\ php'[i].call \in 1..Len(calls') /\ calls'[php'[i].call].end = Pending
                 /\ php'[i].traced <=> Depth(calls', php'[i].call) >= StartDepth
      BY <1>2, <2>1, <3>1, <3>2 DEF Exact, PhpTree
    <3>3. ASSUME NEW i \in 1..Len(php'), NEW j \in 1..Len(php'), i < j,
                 php'[i].counted, php'[j].counted
          PROVE  php'[j].call < php'[i].call
      <4>1. /\ i - 1 \in 1..Len(php) /\ php'[i] = php[i - 1]
            /\ j - 1 \in 1..Len(php) /\ php'[j] = php[j - 1] /\ i - 1 < j - 1
        BY <1>4, <3>1, <3>3
      <4> QED BY <2>1, <3>3, <4>1 DEF Exact, PhpTree
    <3> QED BY <3>2, <3>3 DEF PhpTree
  <2>4. FramesTree'
    <3>1. ASSUME NEW j \in 1..Len(frames)
          PROVE  \E i \in 1..Len(php') : php'[i].traced /\ php'[i].call = frames[j].call
      <4>1. PICK i \in 1..Len(php) : php[i].traced /\ php[i].call = frames[j].call
        BY <2>1 DEF Exact, FramesTree
      <4> QED BY <1>4, <4>1
    <3>2. ASSUME NEW i \in 1..Len(php'), php'[i].traced
          PROVE  \E j \in 1..Len(frames) : frames[j].call = php'[i].call
      <4>1. i - 1 \in 1..Len(php) /\ php'[i] = php[i - 1]
        BY <1>3, <1>4, <3>2
      <4> QED BY <2>1, <3>2, <4>1 DEF Exact, FramesTree
    <3> QED BY <1>2, <2>1, <3>1, <3>2 DEF Exact, FramesTree, FrameOf
  <2> QED BY <2>2, <2>3, <2>4 DEF Exact
<1> QED BY <1>1, <1>5, <1>6 DEF ExactInv

LEMMA PoppedPhp ==
  ASSUME Inv, php # << >>, php' = Tail(php)
  PROVE  /\ Len(php) \in Nat /\ 1 \in 1..Len(php) /\ Head(php) = php[1]
         /\ \A i \in 1..Len(php') : i + 1 \in 1..Len(php) /\ php'[i] = php[i + 1]
         /\ \A i \in 1..Len(php) : i = 1 \/ (i - 1 \in 1..Len(php') /\ php[i] = php'[i - 1])
<1>1. php \in Seq(PhpCalls) /\ Len(php) \in Nat
  BY StacksAre
<1>2. /\ Len(php) >= 1 /\ Len(php') = Len(php) - 1 /\ Head(php) = php[1]
      /\ \A i \in 1..(Len(php) - 1) : php'[i] = php[i + 1]
  <2>1. Len(php) # 0
    BY <1>1
  <2> QED BY <1>1, <2>1, HeadTailProperties
<1>3. ASSUME NEW i \in 1..Len(php') PROVE i + 1 \in 1..Len(php) /\ php'[i] = php[i + 1]
  BY <1>1, <1>2
<1>4. ASSUME NEW i \in 1..Len(php), i # 1
      PROVE  i - 1 \in 1..Len(php') /\ php[i] = php'[i - 1]
  <2>1. i - 1 \in 1..(Len(php) - 1) /\ (i - 1) + 1 = i
    BY <1>1, <1>4
  <2> QED BY <1>2, <2>1
<1> QED BY <1>1, <1>2, <1>3, <1>4

\* A call comes off PHP's stack.
LEMMA PopTree ==
  ASSUME Inv, Exact, php # << >>, php' = Tail(php), Len(calls') = Len(calls),
         \A c \in 1..Len(calls) :
           /\ Depth(calls', c) = Depth(calls, c)
           /\ (php[1].counted /\ c = php[1].call) \/ calls'[c].end = calls[c].end
  PROVE  PhpTree'
<1>1. /\ Len(php) \in Nat /\ 1 \in 1..Len(php)
      /\ \A i \in 1..Len(php') : i + 1 \in 1..Len(php) /\ php'[i] = php[i + 1]
  BY PoppedPhp
<1>2. PhpTree /\ Len(calls) \in Nat
  BY StacksAre DEF Exact
<1>3. ASSUME NEW i \in 1..Len(php'), php'[i].counted
      PROVE  /\ php'[i].call \in 1..Len(calls') /\ calls'[php'[i].call].end = Pending
             /\ php'[i].traced <=> Depth(calls', php'[i].call) >= StartDepth
  <2> DEFINE x == php'[i]
  <2>1. i + 1 \in 1..Len(php) /\ x = php[i + 1] /\ 1 < i + 1
    BY <1>1
  <2>2. /\ x.call \in 1..Len(calls) /\ calls[x.call].end = Pending
        /\ x.traced <=> Depth(calls, x.call) >= StartDepth
        /\ php[1].counted => x.call < php[1].call
    BY <1>1, <1>2, <1>3, <2>1 DEF PhpTree
  <2>3. php[1].counted => php[1].call \in 1..Len(calls)
    BY <1>1, <1>2 DEF PhpTree
  <2> HIDE DEF x
  <2>4. ~(php[1].counted /\ x.call = php[1].call)
    BY <1>2, <2>2, <2>3
  <2>5. /\ x.call \in 1..Len(calls') /\ calls'[x.call].end = Pending
        /\ x.traced <=> Depth(calls', x.call) >= StartDepth
    BY <2>2, <2>4
  <2> QED BY <2>5 DEF x
<1>4. ASSUME NEW i \in 1..Len(php'), NEW j \in 1..Len(php'), i < j,
             php'[i].counted, php'[j].counted
      PROVE  php'[j].call < php'[i].call
  <2>1. /\ i + 1 \in 1..Len(php) /\ php'[i] = php[i + 1]
        /\ j + 1 \in 1..Len(php) /\ php'[j] = php[j + 1] /\ i + 1 < j + 1
    BY <1>1, <1>4
  <2> QED BY <1>2, <1>4, <2>1 DEF PhpTree
<1> QED BY <1>3, <1>4 DEF PhpTree

\* A call without a frame comes off PHP's stack.
LEMMA PopFrameless ==
  ASSUME Inv, Exact, php # << >>, php' = Tail(php), ~php[1].traced, frames' = frames,
         \A c \in 1..Len(calls) : /\ calls'[c].fn = calls[c].fn
                                  /\ calls'[c].start = calls[c].start
                                  /\ LevelsOf(calls')[c] = LevelsOf(calls)[c]
  PROVE  FramesTree'
<1>1. \A i \in 1..Len(php') : i + 1 \in 1..Len(php) /\ php'[i] = php[i + 1]
  BY PoppedPhp
<1>2. \A i \in 1..Len(php) : i = 1 \/ (i - 1 \in 1..Len(php') /\ php[i] = php'[i - 1])
  BY PoppedPhp
<1>3. \A j \in 1..Len(frames) : FrameOf(frames[j], calls')
  BY FramesStay
<1>4. ASSUME NEW j \in 1..Len(frames)
      PROVE  \E i \in 1..Len(php') : php'[i].traced /\ php'[i].call = frames[j].call
  <2>1. PICK i \in 1..Len(php) : php[i].traced /\ php[i].call = frames[j].call
    BY DEF Exact, FramesTree
  <2>2. i - 1 \in 1..Len(php') /\ php[i] = php'[i - 1]
    BY <1>2, <2>1
  <2> QED BY <2>1, <2>2
<1>5. ASSUME NEW i \in 1..Len(php'), php'[i].traced
      PROVE  \E j \in 1..Len(frames) : frames[j].call = php'[i].call
  <2>1. i + 1 \in 1..Len(php) /\ php'[i] = php[i + 1]
    BY <1>1
  <2> QED BY <1>5, <2>1 DEF Exact, FramesTree
<1>6. \A i, j \in 1..Len(frames) : i < j => frames[j].call < frames[i].call
  BY DEF Exact, FramesTree
<1> QED BY <1>3, <1>4, <1>5, <1>6 DEF FramesTree, FrameOf

LEMMA ReturnUntracedExact == ExactInv /\ ReturnUntraced => ExactInv'
<1> SUFFICES ASSUME ExactInv, ReturnUntraced PROVE ExactInv'
  OBVIOUS
<1>1. Inv /\ Inv'
  BY ReturnUntracedInv DEF ExactInv
<1>2. /\ php # << >> /\ php' = Tail(php) /\ ~Head(php).counted /\ running' = running
      /\ sampled' = sampled /\ cut' = cut /\ clock' = clock /\ calls' = calls
      /\ frames' = frames /\ buckets' = buckets
  BY DEF ReturnUntraced
<1>3. /\ 1 \in 1..Len(php) /\ Head(php) = php[1]
      /\ \A i \in 1..Len(php') : i + 1 \in 1..Len(php) /\ php'[i] = php[i + 1]
  BY <1>1, <1>2, PoppedPhp
<1>4. ~php[1].traced
  BY <1>1, <1>2, <1>3, StacksAre
<1>5. Idle' /\ (running' => clock' >= 1)
  BY <1>2, <1>3 DEF ExactInv, Idle
<1>6. ASSUME Uncut' PROVE Exact'
  <2>1. Uncut /\ Exact
    BY <1>2, <1>6 DEF Uncut, ExactInv
  <2>2. TreeOK(calls') /\ BucketsExact'
    BY <1>2, <2>1 DEF Exact, BucketsExact
  <2>3. PhpTree'
    BY <1>1, <1>2, <2>1, PopTree
  <2>4. FramesTree'
    BY <1>1, <1>2, <1>4, <2>1, PopFrameless
  <2> QED BY <2>2, <2>3, <2>4 DEF Exact
<1> QED BY <1>1, <1>5, <1>6 DEF ExactInv

LEMMA HeadEnds ==
  ASSUME Inv, Exact, running => clock >= 1, php # << >>, Head(php).counted,
         Ended(Head(php).call)
  PROVE  Ends(calls, calls', php[1].call, clock)
<1>1. /\ 1 \in 1..Len(php) /\ Head(php) = php[1]
  <2>1. php \in Seq(PhpCalls) /\ Len(php) \in Nat
    BY StacksAre
  <2>2. Len(php) # 0
    BY <2>1
  <2> QED BY <2>1, <2>2
<1>2. php[1].call \in 1..Len(calls) /\ calls[php[1].call].end = Pending
  BY <1>1 DEF Exact, PhpTree
<1>3. clock \in Nat \ {0}
  BY DEF Inv, Shapes, Counts
<1>4. calls' = [calls EXCEPT ![php[1].call] = [calls[php[1].call] EXCEPT !.end = clock]]
  BY <1>1 DEF Ended
<1> QED BY <1>2, <1>3, <1>4 DEF Ends, Exact

LEMMA ReturnSkippedExact == ExactInv /\ ReturnSkipped => ExactInv'
<1> SUFFICES ASSUME ExactInv, ReturnSkipped PROVE ExactInv'
  OBVIOUS
<1>1. Inv /\ Inv'
  BY ReturnSkippedInv DEF ExactInv
<1>2. /\ php # << >> /\ php' = Tail(php) /\ Head(php).counted /\ ~Head(php).traced
      /\ running' = running /\ sampled' = sampled /\ cut' = cut /\ clock' = clock
      /\ frames' = frames /\ buckets' = buckets /\ Ended(Head(php).call)
  BY DEF ReturnSkipped
<1>3. /\ 1 \in 1..Len(php) /\ Head(php) = php[1]
      /\ \A i \in 1..Len(php') : i + 1 \in 1..Len(php) /\ php'[i] = php[i + 1]
  BY <1>1, <1>2, PoppedPhp
<1>4. Idle' /\ (running' => clock' >= 1)
  BY <1>2, <1>3 DEF ExactInv, Idle
<1>5. ASSUME Uncut' PROVE Exact'
  <2>1. Uncut /\ Exact
    BY <1>2, <1>5 DEF Uncut, ExactInv
  <2>2. Ends(calls, calls', php[1].call, clock)
    BY <1>1, <1>2, <2>1, HeadEnds DEF ExactInv
  <2>3. /\ TreeOK(calls') /\ Len(calls') = Len(calls)
        /\ \A d \in 1..Len(calls) :
             /\ calls'[d].fn = calls[d].fn /\ calls'[d].start = calls[d].start
             /\ d # php[1].call => calls'[d] = calls[d]
             /\ Depth(calls', d) = Depth(calls, d)
             /\ LevelsOf(calls')[d] = LevelsOf(calls)[d]
    BY <2>2, EndsIs
  <2>4. ~(Depth(calls, php[1].call) >= StartDepth)
    BY <1>2, <1>3, <2>1 DEF Exact, PhpTree
  <2>5. BucketsExact'
    BY <1>2, <2>1, <2>2, <2>4, SkippedKeeps DEF Exact, BucketsExact
  <2>6. PhpTree'
    BY <1>1, <1>2, <1>3, <2>1, <2>3, PopTree
  <2>7. FramesTree'
    BY <1>1, <1>2, <1>3, <2>1, <2>3, PopFrameless
  <2> QED BY <2>3, <2>5, <2>6, <2>7 DEF Exact
<1> QED BY <1>1, <1>4, <1>5 DEF ExactInv

\* The head of PHP's stack and the head of the frames are of the same call.
LEMMA HeadsAgree ==
  ASSUME Inv, Exact, php # << >>, php[1].traced
  PROVE  /\ frames # << >> /\ 1 \in 1..Len(frames) /\ Head(frames) = frames[1]
         /\ frames[1].call = php[1].call
         /\ frames[1] \in FrameSet /\ FrameOf(frames[1], calls)
<1>1. /\ Len(php) \in Nat /\ 1 \in 1..Len(php) /\ Len(frames) \in Nat
      /\ frames \in Seq(FrameSet)
  <2>1. php \in Seq(PhpCalls) /\ Len(php) \in Nat
    BY StacksAre
  <2>2. Len(php) # 0
    BY <2>1
  <2> QED BY <2>1, <2>2, StacksAre
<1>2. PICK j \in 1..Len(frames) : frames[j].call = php[1].call
  BY <1>1 DEF Exact, FramesTree
<1>3. 1 \in 1..Len(frames) /\ frames # << >> /\ Head(frames) = frames[1]
  <2>1. Len(frames) # 0
    BY <1>1, <1>2
  <2> QED BY <1>1, <2>1
<1>4. PICK i \in 1..Len(php) : php[i].traced /\ php[i].call = frames[1].call
  BY <1>3 DEF Exact, FramesTree
<1>5. frames[j].call <= frames[1].call
  <2>1. frames[1].call \in Nat /\ frames[j].call \in Nat
    BY <1>3, StacksAre
  <2>2. CASE j = 1
    BY <2>1, <2>2
  <2>3. CASE j # 1
    <3>1. 1 < j
      BY <1>1, <2>3
    <3>2. frames[j].call < frames[1].call
      BY <1>3, <3>1 DEF Exact, FramesTree
    <3> QED BY <2>1, <3>2
  <2> QED BY <2>2, <2>3
<1>6. php[i].call <= php[1].call
  <2>1. php[1].call \in Nat /\ php[i].call \in Nat /\ php[1].counted /\ php[i].counted
    BY <1>1, <1>4, StacksAre
  <2>2. CASE i = 1
    BY <2>1, <2>2
  <2>3. CASE i # 1
    <3>1. 1 < i
      BY <1>1, <2>3
    <3>2. php[i].call < php[1].call
      BY <1>1, <2>1, <3>1 DEF Exact, PhpTree
    <3> QED BY <2>1, <3>2
  <2> QED BY <2>2, <2>3
<1>7. frames[1].call = php[1].call
  <2>1. frames[1].call \in Nat /\ php[1].call \in Nat
    BY <1>1, <1>3, StacksAre
  <2> QED BY <1>2, <1>4, <1>5, <1>6, <2>1
<1>8. frames[1] \in FrameSet /\ FrameOf(frames[1], calls)
  BY <1>3, StacksAre DEF Exact, FramesTree
<1> QED BY <1>3, <1>7, <1>8

\* A call with a frame comes off PHP's stack, and its frame with it.
LEMMA PopFramed ==
  ASSUME Inv, Exact, php # << >>, php' = Tail(php), php[1].traced, frames' = Tail(frames),
         \A c \in 1..Len(calls) : /\ calls'[c].fn = calls[c].fn
                                  /\ calls'[c].start = calls[c].start
                                  /\ LevelsOf(calls')[c] = LevelsOf(calls)[c]
  PROVE  FramesTree'
<1>1. /\ frames # << >> /\ 1 \in 1..Len(frames) /\ frames[1].call = php[1].call
  BY HeadsAgree
<1>2. /\ Len(php) \in Nat /\ 1 \in 1..Len(php)
      /\ \A i \in 1..Len(php') : i + 1 \in 1..Len(php) /\ php'[i] = php[i + 1]
      /\ \A i \in 1..Len(php) : i = 1 \/ (i - 1 \in 1..Len(php') /\ php[i] = php'[i - 1])
  BY PoppedPhp
<1>3. /\ Len(frames) \in Nat
      /\ \A j \in 1..Len(frames') : j + 1 \in 1..Len(frames) /\ frames'[j] = frames[j + 1]
      /\ \A j \in 1..Len(frames) :
           j = 1 \/ (j - 1 \in 1..Len(frames') /\ frames[j] = frames'[j - 1])
  <2>1. frames \in Seq(FrameSet) /\ Len(frames) \in Nat /\ Len(frames) # 0
    <3>1. frames \in Seq(FrameSet) /\ Len(frames) \in Nat
      BY StacksAre
    <3> QED BY <1>1, <3>1
  <2>2. /\ Len(frames') = Len(frames) - 1
        /\ \A j \in 1..(Len(frames) - 1) : frames'[j] = frames[j + 1]
    BY <2>1, HeadTailProperties
  <2>3. ASSUME NEW j \in 1..Len(frames')
        PROVE  j + 1 \in 1..Len(frames) /\ frames'[j] = frames[j + 1]
    BY <2>1, <2>2
  <2>4. ASSUME NEW j \in 1..Len(frames), j # 1
        PROVE  j - 1 \in 1..Len(frames') /\ frames[j] = frames'[j - 1]
    <3>1. j - 1 \in 1..(Len(frames) - 1) /\ (j - 1) + 1 = j
      BY <2>1, <2>4
    <3> QED BY <2>2, <3>1
  <2> QED BY <2>1, <2>3, <2>4
<1>4. \A j \in 1..Len(frames) : FrameOf(frames[j], calls')
  BY FramesStay
<1>5. ASSUME NEW j \in 1..Len(frames')
      PROVE  /\ FrameOf(frames'[j], calls')
             /\ \E i \in 1..Len(php') : php'[i].traced /\ php'[i].call = frames'[j].call
  <2>1. j + 1 \in 1..Len(frames) /\ frames'[j] = frames[j + 1] /\ 1 < j + 1
    BY <1>3
  <2>2. frames[j + 1].call < frames[1].call
    BY <1>1, <2>1 DEF Exact, FramesTree
  <2>3. PICK i \in 1..Len(php) : php[i].traced /\ php[i].call = frames[j + 1].call
    BY <2>1 DEF Exact, FramesTree
  <2>4. i # 1
    <3>1. php[1].call \in Nat
      BY <1>2, StacksAre
    <3> QED BY <1>1, <2>2, <2>3, <3>1
  <2>5. i - 1 \in 1..Len(php') /\ php[i] = php'[i - 1]
    BY <1>2, <2>4
  <2>6. FrameOf(frames[j + 1], calls')
    BY <1>4, <2>1
  <2> QED BY <2>1, <2>3, <2>5, <2>6
<1>6. ASSUME NEW i \in 1..Len(php'), php'[i].traced
      PROVE  \E j \in 1..Len(frames') : frames'[j].call = php'[i].call
  <2>1. i + 1 \in 1..Len(php) /\ php'[i] = php[i + 1] /\ 1 < i + 1
    BY <1>2
  <2>2. php[i + 1].call < php[1].call
    BY <1>2, <1>6, <2>1, StacksAre DEF Exact, PhpTree
  <2>3. PICK j \in 1..Len(frames) : frames[j].call = php[i + 1].call
    BY <1>6, <2>1 DEF Exact, FramesTree
  <2>4. j # 1
    <3>1. php[1].call \in Nat
      BY <1>2, StacksAre
    <3> QED BY <1>1, <2>2, <2>3, <3>1
  <2>5. j - 1 \in 1..Len(frames') /\ frames[j] = frames'[j - 1]
    BY <1>3, <2>4
  <2> QED BY <2>1, <2>3, <2>5
<1>7. ASSUME NEW i \in 1..Len(frames'), NEW j \in 1..Len(frames'), i < j
      PROVE  frames'[j].call < frames'[i].call
  <2>1. /\ i + 1 \in 1..Len(frames) /\ frames'[i] = frames[i + 1]
        /\ j + 1 \in 1..Len(frames) /\ frames'[j] = frames[j + 1] /\ i + 1 < j + 1
    BY <1>3, <1>7
  <2> QED BY <2>1 DEF Exact, FramesTree
<1> QED BY <1>5, <1>6, <1>7 DEF FramesTree, FrameOf

\* What the buckets are after a call has gone into its own.
LEMMA BucketExact ==
  ASSUME BucketsExact, NEW fr, BucketProcess(fr), NEW c, Ends(calls, calls', c, clock),
         Depth(calls, c) >= StartDepth, <<fr.fn, fr.level>> = KeyOf(calls, c),
         fr.start = calls[c].start
  PROVE  BucketsExact'
<1> DEFINE key == <<fr.fn, fr.level>>
           old == IF key \in DOMAIN buckets THEN buckets[key] ELSE [count |-> 0, wall |-> 0]
           new == [count |-> old.count + 1, wall |-> old.wall + (clock - fr.start)]
<1>1. buckets' = [k \in DOMAIN buckets \cup {key} |-> IF k = key THEN new ELSE buckets[k]]
  BY Zenon DEF BucketProcess
<1>2. key = KeyOf(calls, c)
  OBVIOUS
<1>3. /\ Keys(calls') = Keys(calls) \cup {key}
      /\ \A k : k # key => /\ Count(calls', k) = Count(calls, k)
                           /\ Time(calls', k) = Time(calls, k)
      /\ Count(calls', key) = Count(calls, key) + 1
      /\ Time(calls', key) = Time(calls, key) + (clock - calls[c].start)
      /\ key \notin Keys(calls) => Count(calls, key) = 0 /\ Time(calls, key) = 0
  <2> HIDE DEF key
  <2> QED BY <1>2, ReturnedCounts
<1>4. /\ DOMAIN buckets = Keys(calls)
      /\ \A k \in DOMAIN buckets : /\ buckets[k].count = Count(calls, k)
                                   /\ buckets[k].wall = Time(calls, k)
  BY DEF BucketsExact
<1> HIDE DEF key
<1>5. old.count = Count(calls, key) /\ old.wall = Time(calls, key)
  <2>1. CASE key \in DOMAIN buckets
    BY <1>4, <2>1
  <2>2. CASE key \notin DOMAIN buckets
    BY <1>3, <1>4, <2>2
  <2> QED BY <2>1, <2>2
<1> HIDE DEF old
<1>6. new.count = Count(calls', key) /\ new.wall = Time(calls', key)
  BY <1>3, <1>5
<1> HIDE DEF new
<1>7. DOMAIN buckets' = Keys(calls')
  BY <1>1, <1>3, <1>4
<1>8. ASSUME NEW k \in DOMAIN buckets'
      PROVE  buckets'[k].count = Count(calls', k) /\ buckets'[k].wall = Time(calls', k)
  <2>1. CASE k = key
    BY <1>1, <1>6, <2>1
  <2>2. CASE k # key
    BY <1>1, <1>3, <1>4, <2>2
  <2> QED BY <2>1, <2>2
<1> QED BY <1>7, <1>8 DEF BucketsExact

LEMMA ReturnTracedExact == ExactInv /\ ReturnTraced => ExactInv'
<1> SUFFICES ASSUME ExactInv, ReturnTraced PROVE ExactInv'
  OBVIOUS
<1>1. Inv /\ Inv'
  BY ReturnTracedInv DEF ExactInv
<1>2. /\ php # << >> /\ php' = Tail(php) /\ Head(php).traced
      /\ running' = running /\ sampled' = sampled /\ cut' = cut /\ clock' = clock
      /\ frames' = Tail(frames) /\ Ended(Head(php).call) /\ BucketProcess(Head(frames))
  BY DEF ReturnTraced
<1>3. /\ 1 \in 1..Len(php) /\ Head(php) = php[1] /\ php[1].counted /\ php[1].traced
  <2>1. 1 \in 1..Len(php) /\ Head(php) = php[1]
    BY <1>1, <1>2, PoppedPhp
  <2> QED BY <1>1, <1>2, <2>1, StacksAre
<1>4. Idle' /\ (running' => clock' >= 1)
  BY <1>2, <1>3 DEF ExactInv, Idle
<1>5. ASSUME Uncut' PROVE Exact'
  <2>1. Uncut /\ Exact
    BY <1>2, <1>5 DEF Uncut, ExactInv
  <2> DEFINE c == php[1].call
  <2>2. Ends(calls, calls', c, clock)
    BY <1>1, <1>2, <1>3, <2>1, HeadEnds DEF ExactInv
  <2>3. /\ TreeOK(calls') /\ Len(calls') = Len(calls)
        /\ \A d \in 1..Len(calls) :
             /\ calls'[d].fn = calls[d].fn /\ calls'[d].start = calls[d].start
             /\ d # c => calls'[d] = calls[d]
             /\ Depth(calls', d) = Depth(calls, d)
             /\ LevelsOf(calls')[d] = LevelsOf(calls)[d]
    BY <2>2, EndsIs
  <2>4. Depth(calls, c) >= StartDepth
    BY <1>3, <2>1 DEF Exact, PhpTree
  <2>5. /\ Head(frames) = frames[1] /\ frames[1].call = c /\ FrameOf(frames[1], calls)
    BY <1>1, <1>2, <1>3, <2>1, HeadsAgree
  <2>6. /\ <<frames[1].fn, frames[1].level>> = KeyOf(calls, c)
        /\ frames[1].start = calls[c].start
    BY <2>5 DEF FrameOf, KeyOf
  <2>7. BucketsExact'
    <3>1. BucketsExact /\ BucketProcess(frames[1])
      BY <1>2, <2>1, <2>5 DEF Exact
    <3> HIDE DEF c
    <3> QED BY <2>2, <2>4, <2>6, <3>1, BucketExact
  <2>8. PhpTree'
    BY <1>1, <1>2, <1>3, <2>1, <2>3, PopTree
  <2>9. FramesTree'
    BY <1>1, <1>2, <1>3, <2>1, <2>3, PopFramed
  <2> QED BY <2>3, <2>7, <2>8, <2>9 DEF Exact
<1> QED BY <1>1, <1>4, <1>5 DEF ExactInv

LEMMA RequestStartExact == ExactInv /\ RequestStart => ExactInv'
<1> SUFFICES ASSUME ExactInv, RequestStart PROVE ExactInv'
  OBVIOUS
<1>1. Inv /\ Inv'
  BY RequestStartInv DEF ExactInv
<1>2. /\ php = << >> /\ php' = << >> /\ frames' = << >> /\ calls' = << >>
      /\ buckets' = buckets /\ ~running /\ clock' = 1
  BY <1>1 DEF RequestStart, Inv, Shapes
<1>3. DOMAIN buckets' = {}
  BY <1>2 DEF ExactInv, Idle
<1>4. Len(php') = 0 /\ Len(frames') = 0 /\ Len(calls') = 0 /\ DOMAIN calls' = {}
  BY <1>2
<1>5. Idle' /\ (running' => clock' >= 1)
  BY <1>2, <1>3, <1>4 DEF Idle
<1>6. Exact'
  <2>1. TreeOK(calls')
    BY <1>1, <1>4 DEF TreeOK, Inv, Shapes
  <2>2. PhpTree' /\ FramesTree'
    BY <1>4 DEF PhpTree, FramesTree
  <2>3. Keys(calls') = {}
    BY <1>4 DEF Keys, Returned
  <2> QED BY <1>3, <2>1, <2>2, <2>3 DEF Exact, BucketsExact
<1> QED BY <1>1, <1>5, <1>6 DEF ExactInv

LEMMA RequestEndExact == ExactInv /\ RequestEnd => ExactInv'
<1> SUFFICES ASSUME ExactInv, RequestEnd PROVE ExactInv'
  OBVIOUS
<1>1. Inv /\ Inv'
  BY RequestEndInv DEF ExactInv
<1>2. /\ php' = << >> /\ ~running' /\ sampled' = sampled
      /\ (sampled /\ buckets' = << >>) \/ (~sampled /\ buckets' = buckets)
  BY DEF RequestEnd
<1>3. DOMAIN buckets' = {}
  BY <1>2 DEF ExactInv, Idle
<1>4. Len(php') = 0
  BY <1>2
<1> QED BY <1>1, <1>2, <1>3, <1>4 DEF ExactInv, Idle, Uncut

LEMMA TickExact == ExactInv /\ Tick => ExactInv'
<1> SUFFICES ASSUME ExactInv, Tick PROVE ExactInv'
  OBVIOUS
<1>1. Inv /\ Inv'
  BY TickInv DEF ExactInv
<1>2. /\ clock' = clock + 1 /\ clock \in Nat
      /\ UNCHANGED <<running, sampled, php, frames, buckets, calls, cut>>
  BY <1>1 DEF Tick, Inv, Counts
<1>3. Idle' /\ (running' => clock' >= 1)
  BY <1>2 DEF ExactInv, Idle
<1>4. Uncut' => Exact'
  BY <1>2 DEF ExactInv, Uncut, Exact, PhpTree, FramesTree, FrameOf, BucketsExact
<1> QED BY <1>1, <1>3, <1>4 DEF ExactInv

LEMMA BailoutExact == ExactInv /\ Bailout => ExactInv'
<1> SUFFICES ASSUME ExactInv, Bailout PROVE ExactInv'
  OBVIOUS
<1>1. Inv /\ Inv'
  BY BailoutInv DEF ExactInv
<1>2. /\ php' = << >> /\ cut' /\ UNCHANGED <<running, sampled, clock, buckets>>
  BY DEF Bailout
<1>3. Len(php') = 0
  BY <1>2
<1> QED BY <1>1, <1>2, <1>3 DEF ExactInv, Idle, Uncut

LEMMA ExactInvNext == ExactInv /\ [Next]_vars => ExactInv'
<1> SUFFICES ASSUME ExactInv, [Next]_vars PROVE ExactInv'
  OBVIOUS
<1>1. CASE UNCHANGED vars
  <2>1. Inv'
    BY <1>1, InvNext DEF ExactInv
  <2>2. UNCHANGED <<running, sampled, clock, php, frames, buckets, calls, cut>>
    BY <1>1 DEF vars
  <2>3. Idle' /\ (running' => clock' >= 1)
    BY <2>2 DEF ExactInv, Idle
  <2>4. Uncut' => Exact'
    BY <2>2 DEF ExactInv, Uncut, Exact, PhpTree, FramesTree, FrameOf, BucketsExact
  <2> QED BY <2>1, <2>3, <2>4 DEF ExactInv
<1>2. CASE RequestStart
  BY <1>2, RequestStartExact
<1>3. CASE Tick
  BY <1>3, TickExact
<1>4. ASSUME NEW f, CallUntraced(f) PROVE ExactInv'
  BY <1>4, CallUntracedExact
<1>5. ASSUME NEW f \in Fns, CallSkipped(f) PROVE ExactInv'
  BY <1>5, CallSkippedExact
<1>6. ASSUME NEW f \in Fns, CallTraced(f) PROVE ExactInv'
  BY <1>6, CallTracedExact
<1>7. CASE ReturnTraced
  BY <1>7, ReturnTracedExact
<1>8. CASE ReturnSkipped
  BY <1>8, ReturnSkippedExact
<1>9. CASE ReturnUntraced
  BY <1>9, ReturnUntracedExact
<1>10. CASE Bailout
  BY <1>10, BailoutExact
<1>11. CASE RequestEnd
  BY <1>11, RequestEndExact
<1> QED BY <1>1, <1>2, <1>3, <1>4, <1>5, <1>6, <1>7, <1>8, <1>9, <1>10, <1>11
        DEF Next, Trace

LEMMA ExactInvHolds == Spec => []ExactInv
<1> QED BY ExactInvInit, ExactInvNext, PTL DEF Spec

-----------------------------------------------------------------------------
(* No call is lost *)

OnStack(c) == \E i \in 1..Len(php) : php[i].counted /\ php[i].call = c

\* As long as no bailout cuts calls, a call that has not returned is on PHP's
\* stack.
NoneLost == Uncut => \A c \in 1..Len(calls) : calls[c].end = Pending => OnStack(c)

LEMMA NoneLostCall ==
  ASSUME ExactInv, NoneLost, NEW f \in Fns, CallSkipped(f) \/ CallTraced(f)
  PROVE  NoneLost'
<1> SUFFICES ASSUME Uncut', NEW c \in 1..Len(calls'), calls'[c].end = Pending
             PROVE  OnStack(c)'
  BY DEF NoneLost
<1>1. Inv /\ Inv'
  BY CallSkippedInv, CallTracedInv DEF ExactInv
<1>2. PICK r \in PhpCalls :
        r.counted /\ r.call = Len(calls) + 1 /\ php' = <<r>> \o php
  <2>1. Len(calls) + 1 \in Nat
    BY <1>1, StacksAre
  <2>2. CASE CallSkipped(f)
    <3> DEFINE r == [traced |-> FALSE, counted |-> TRUE, call |-> Len(calls) + 1]
    <3>1. r \in PhpCalls /\ r.counted /\ r.call = Len(calls) + 1
      BY <2>1 DEF PhpCalls
    <3>2. php' = <<r>> \o php
      BY <2>2 DEF CallSkipped
    <3> QED BY <3>1, <3>2
  <2>3. CASE CallTraced(f)
    <3> DEFINE r == [traced |-> TRUE, counted |-> TRUE, call |-> Len(calls) + 1]
    <3>1. r \in PhpCalls /\ r.counted /\ r.call = Len(calls) + 1
      BY <2>1 DEF PhpCalls
    <3>2. php' = <<r>> \o php
      BY <2>3 DEF CallTraced
    <3> QED BY <3>1, <3>2
  <2> QED BY <2>2, <2>3
<1>3. Uncut /\ Exact /\ Record(f)
  <2>1. running' = running /\ sampled' = sampled /\ cut' = cut /\ Record(f)
    BY DEF CallSkipped, CallTraced
  <2>2. Uncut
    BY <2>1 DEF Uncut
  <2> QED BY <2>1, <2>2 DEF ExactInv
<1>4. Begins(calls', f)
  <2>1. calls' \in Seq(CallSet)
    BY <1>1 DEF Inv, Shapes
  <2> QED BY <1>1, <1>3, <2>1, RecordBegins DEF Exact
<1>5. /\ php'[1] = r /\ 1 \in 1..Len(php')
      /\ \A i \in 1..Len(php) : i + 1 \in 1..Len(php') /\ php'[i + 1] = php[i]
  BY <1>1, <1>2, PushedPhp
<1>6. CASE c \in 1..Len(calls)
  <2>1. calls[c].end = Pending
    BY <1>4, <1>6 DEF Begins
  <2>2. PICK i \in 1..Len(php) : php[i].counted /\ php[i].call = c
    BY <1>3, <1>6, <2>1 DEF NoneLost, OnStack
  <2>3. i + 1 \in 1..Len(php') /\ php'[i + 1].counted /\ php'[i + 1].call = c
    BY <1>5, <2>2
  <2> QED BY <2>3 DEF OnStack
<1>7. CASE c \notin 1..Len(calls)
  <2>1. c = Len(calls) + 1
    BY <1>1, <1>4, <1>7, StacksAre DEF Begins
  <2> QED BY <1>2, <1>5, <2>1 DEF OnStack
<1> QED BY <1>6, <1>7

LEMMA NoneLostReturn ==
  ASSUME ExactInv, NoneLost, ReturnTraced \/ ReturnSkipped
  PROVE  NoneLost'
<1> SUFFICES ASSUME Uncut', NEW c \in 1..Len(calls'), calls'[c].end = Pending
             PROVE  OnStack(c)'
  BY DEF NoneLost
<1>1. /\ php # << >> /\ php' = Tail(php) /\ Head(php) = php[1] /\ Ended(Head(php).call)
      /\ Head(php).counted
  <2>1. php # << >> /\ php' = Tail(php) /\ Ended(Head(php).call)
    BY DEF ReturnTraced, ReturnSkipped
  <2>2. 1 \in 1..Len(php) /\ Head(php) = php[1]
    BY <2>1, PoppedPhp DEF ExactInv
  <2>3. Head(php).traced \/ Head(php).counted
    BY DEF ReturnTraced, ReturnSkipped
  <2>4. Head(php).counted
    BY <2>2, <2>3, StacksAre DEF ExactInv
  <2> QED BY <2>1, <2>2, <2>4
<1>2. Uncut /\ Exact
  <2>1. running' = running /\ sampled' = sampled /\ cut' = cut
    BY DEF ReturnTraced, ReturnSkipped
  <2>2. Uncut
    BY <2>1 DEF Uncut
  <2> QED BY <2>2 DEF ExactInv
<1>3. Ends(calls, calls', php[1].call, clock)
  BY <1>1, <1>2, HeadEnds DEF ExactInv
<1>4. Len(calls') = Len(calls) /\ c # php[1].call /\ calls'[c] = calls[c]
  <2>1. /\ Len(calls') = Len(calls) /\ calls'[php[1].call].end = clock
        /\ \A d \in 1..Len(calls) : d # php[1].call => calls'[d] = calls[d]
    BY <1>3, EndsIs
  <2>2. clock # Pending
    BY <1>3 DEF Ends, Pending
  <2> QED BY <2>1, <2>2
<1>5. PICK i \in 1..Len(php) : php[i].counted /\ php[i].call = c
  BY <1>2, <1>4 DEF NoneLost, OnStack
<1>6. i - 1 \in 1..Len(php') /\ php[i] = php'[i - 1]
  <2>1. i # 1
    BY <1>4, <1>5
  <2> QED BY <1>1, <2>1, PoppedPhp DEF ExactInv
<1>7. php'[i - 1].counted /\ php'[i - 1].call = c
  BY <1>5, <1>6
<1> QED BY <1>6, <1>7 DEF OnStack

LEMMA NoneLostNext == ExactInv /\ NoneLost /\ [Next]_vars => NoneLost'
<1> SUFFICES ASSUME ExactInv, NoneLost, [Next]_vars PROVE NoneLost'
  OBVIOUS
<1>1. ASSUME UNCHANGED <<running, sampled, php, calls, cut>> PROVE NoneLost'
  BY <1>1 DEF NoneLost, OnStack, Uncut
<1>2. CASE UNCHANGED vars \/ Tick
  BY <1>1, <1>2 DEF vars, Tick
<1>3. CASE RequestStart
  <2>1. Len(calls') = 0
    BY <1>3 DEF RequestStart
  <2> QED BY <2>1 DEF NoneLost
<1>4. ASSUME NEW f, CallUntraced(f) PROVE NoneLost'
  <2> SUFFICES ASSUME Uncut', NEW c \in 1..Len(calls'), calls'[c].end = Pending
               PROVE  OnStack(c)'
    BY DEF NoneLost
  <2> DEFINE r == [traced |-> FALSE, counted |-> FALSE, call |-> 0]
  <2>1. r \in PhpCalls /\ php' = <<r>> \o php /\ calls' = calls /\ Uncut
    BY <1>4 DEF CallUntraced, PhpCalls, Uncut
  <2> HIDE DEF r
  <2>2. PICK i \in 1..Len(php) : php[i].counted /\ php[i].call = c
    BY <2>1 DEF NoneLost, OnStack
  <2>3. i + 1 \in 1..Len(php') /\ php'[i + 1] = php[i]
    BY <2>1, PushedPhp DEF ExactInv
  <2>4. php'[i + 1].counted /\ php'[i + 1].call = c
    BY <2>2, <2>3
  <2> QED BY <2>3, <2>4 DEF OnStack
<1>5. ASSUME NEW f \in Fns, CallSkipped(f) \/ CallTraced(f) PROVE NoneLost'
  BY <1>5, NoneLostCall
<1>6. CASE ReturnTraced \/ ReturnSkipped
  BY <1>6, NoneLostReturn
<1>7. CASE ReturnUntraced
  <2> SUFFICES ASSUME Uncut', NEW c \in 1..Len(calls'), calls'[c].end = Pending
               PROVE  OnStack(c)'
    BY DEF NoneLost
  <2>1. php # << >> /\ php' = Tail(php) /\ calls' = calls /\ Uncut /\ ~Head(php).counted
    BY <1>7 DEF ReturnUntraced, Uncut
  <2>2. PICK i \in 1..Len(php) : php[i].counted /\ php[i].call = c
    BY <2>1 DEF NoneLost, OnStack
  <2>3. i - 1 \in 1..Len(php') /\ php[i] = php'[i - 1]
    <3>1. Head(php) = php[1]
      BY <2>1, PoppedPhp DEF ExactInv
    <3>2. i # 1
      BY <2>1, <2>2, <3>1
    <3> QED BY <2>1, <3>2, PoppedPhp DEF ExactInv
  <2>4. php'[i - 1].counted /\ php'[i - 1].call = c
    BY <2>2, <2>3
  <2> QED BY <2>3, <2>4 DEF OnStack
<1>8. CASE Bailout
  BY <1>8 DEF Bailout, NoneLost, Uncut
<1>9. CASE RequestEnd
  BY <1>9 DEF RequestEnd, NoneLost, Uncut
<1> QED BY <1>2, <1>3, <1>4, <1>5, <1>6, <1>7, <1>8, <1>9 DEF Next, Trace

LEMMA NoneLostHolds == Spec => [](ExactInv /\ NoneLost)
<1>1. Init => NoneLost
  BY DEF Init, NoneLost, Uncut
<1> QED BY <1>1, ExactInvInit, ExactInvNext, NoneLostNext, PTL DEF Spec

-----------------------------------------------------------------------------
(* The profile *)

\* At every moment of a sampled request that no bailout has cut, the buckets
\* hold each returned call from the start depth on once, with its time, at the
\* level of the nearest call of the same function that it was made in, or else
\* its own - for every hash, however the calls nest, and whatever an earlier
\* request has left (performance_frame_begin, process_seaslog_performance_log).
THEOREM ProfileHolds == Spec => []ProfileExact
<1>1. ExactInv => ProfileExact
  BY ExactIsProfile
<1> QED BY <1>1, ExactInvHolds, PTL

-----------------------------------------------------------------------------
(* The report *)

HIDE BoundsAssumption
USE ReportAssumption

Ranks == Top!Ranks
NoResult == Top!NoResult

-----------------------------------------------------------------------------
(* The shift of a row *)

\* A row that is filled up to rank u, and unused behind it.
FilledTo(row, u) ==
  /\ u \in 0..PerDepth /\ row = [r \in 1..PerDepth |-> row[r]]
  /\ \A r \in 1..PerDepth :
       IF r <= u THEN ~Top!Unused(row[r]) ELSE row[r] = NoResult

\* The row when the shift has come down to rank r.
Coming(row, r) ==
  [j \in 1..PerDepth |-> IF j >= r THEN row[j - 1]
                         ELSE IF j = r - 1 THEN row[PerDepth] ELSE row[j]]

LEMMA ComingStep ==
  ASSUME NEW row, NEW u, FilledTo(row, u), NEW n \in 1..PerDepth,
         NEW r \in (n + 1)..PerDepth,
         NEW sofar, sofar = IF r = PerDepth THEN row ELSE Coming(row, r + 1)
  PROVE  Coming(row, r) = IF Top!Unused(sofar[r - 1]) THEN sofar ELSE Top!Swap(sofar, r)
<1>1. PerDepth \in Nat /\ n \in Nat /\ r \in Nat /\ r >= 2 /\ r <= PerDepth /\ u \in Nat
  BY DEF FilledTo
<1>2. row = [j \in 1..PerDepth |-> row[j]]
  BY DEF FilledTo
<1>3. /\ sofar = [j \in 1..PerDepth |-> sofar[j]]
      /\ \A j \in 1..PerDepth :
           sofar[j] = IF j > r THEN row[j - 1] ELSE IF j = r THEN row[PerDepth] ELSE row[j]
  <2>1. CASE r = PerDepth
    BY <1>1, <1>2, <2>1
  <2>2. CASE r # PerDepth
    BY <1>1, <2>2 DEF Coming
  <2> QED BY <2>1, <2>2
<1>4. sofar[r - 1] = row[r - 1] /\ r - 1 \in 1..PerDepth
  BY <1>1, <1>3
<1>5. CASE Top!Unused(row[r - 1])
  <2>1. r - 1 > u
    BY <1>1, <1>4, <1>5 DEF FilledTo
  <2>2. \A j \in 1..PerDepth : j >= r - 1 => row[j] = NoResult
    BY <1>1, <2>1 DEF FilledTo
  <2>3. ASSUME NEW j \in 1..PerDepth PROVE sofar[j] = Coming(row, r)[j]
    <3>1. CASE j > r
      BY <1>1, <1>3, <3>1 DEF Coming
    <3>2. CASE j = r
      <4>1. row[PerDepth] = NoResult /\ row[j - 1] = NoResult /\ r \in 1..PerDepth
        BY <1>1, <1>4, <2>2, <3>2
      <4> QED BY <1>1, <1>3, <3>2, <4>1 DEF Coming
    <3>3. CASE j = r - 1
      <4>1. row[PerDepth] = NoResult /\ row[j] = NoResult
        BY <1>1, <2>2, <3>3
      <4> QED BY <1>1, <1>3, <3>3, <4>1 DEF Coming
    <3>4. CASE j < r - 1
      BY <1>1, <1>3, <3>4 DEF Coming
    <3> QED BY <1>1, <3>1, <3>2, <3>3, <3>4
  <2>4. sofar = Coming(row, r)
    BY <1>3, <2>3 DEF Coming
  <2> QED BY <1>4, <1>5, <2>4
<1>6. CASE ~Top!Unused(row[r - 1])
  <2> DEFINE t == Top!Swap(sofar, r)
  <2>1. t = [sofar EXCEPT ![r] = sofar[r - 1], ![r - 1] = sofar[r]]
    BY DEF Top!Swap
  <2>2. /\ t = [j \in 1..PerDepth |-> t[j]]
        /\ \A j \in 1..PerDepth :
             t[j] = IF j = r - 1 THEN sofar[r] ELSE IF j = r THEN sofar[r - 1] ELSE sofar[j]
    BY <1>1, <1>3, <2>1
  <2> HIDE DEF t
  <2>3. ASSUME NEW j \in 1..PerDepth PROVE t[j] = Coming(row, r)[j]
    <3>1. CASE j = r - 1
      <4>1. r \in 1..PerDepth /\ sofar[r] = row[PerDepth]
        BY <1>1, <1>3
      <4>2. t[j] = row[PerDepth]
        BY <2>2, <3>1, <4>1
      <4> QED BY <1>1, <3>1, <4>2 DEF Coming
    <3>2. CASE j = r
      BY <1>1, <1>4, <2>2, <3>2 DEF Coming
    <3>3. CASE j # r - 1 /\ j # r
      <4>1. t[j] = sofar[j]
        BY <2>2, <3>3
      <4>2. CASE j > r
        BY <1>1, <1>3, <4>1, <4>2 DEF Coming
      <4>3. CASE j < r - 1
        BY <1>1, <1>3, <4>1, <4>3 DEF Coming
      <4> QED BY <1>1, <3>3, <4>2, <4>3
    <3> QED BY <3>1, <3>2, <3>3
  <2>4. t = Coming(row, r)
    BY <2>2, <2>3 DEF Coming
  <2> QED BY <1>4, <1>6, <2>4 DEF t
<1> QED BY <1>5, <1>6

LEMMA ShiftedIs ==
  ASSUME NEW row, NEW u, FilledTo(row, u), NEW n \in 1..PerDepth, n < PerDepth
  PROVE  Top!Shifted(row, n) = Coming(row, n + 1)
<1> DEFINE S == (n + 1)..PerDepth
           Body(f, r) == LET sofar == IF r = PerDepth THEN row ELSE f[r + 1]
                         IN IF Top!Unused(sofar[r - 1]) THEN sofar ELSE Top!Swap(sofar, r)
           A == CHOOSE f : f = [r \in S |-> Body(f, r)]
           E == [r \in S |-> Coming(row, r)]
<1>1. Top!Shifted(row, n) = A[n + 1]
  BY DEF Top!Shifted
<1>2. ASSUME NEW f, NEW r \in S, r # PerDepth => f[r + 1] = Coming(row, r + 1)
      PROVE  Body(f, r) = Coming(row, r)
  <2> DEFINE sofar == IF r = PerDepth THEN row ELSE f[r + 1]
  <2>1. sofar = IF r = PerDepth THEN row ELSE Coming(row, r + 1)
    BY <1>2
  <2> HIDE DEF sofar
  <2>2. Coming(row, r) = IF Top!Unused(sofar[r - 1]) THEN sofar ELSE Top!Swap(sofar, r)
    BY <2>1, ComingStep
  <2> QED BY <2>2 DEF sofar
<1>3. E = [r \in S |-> Body(E, r)]
  <2>1. ASSUME NEW r \in S PROVE E[r] = Body(E, r)
    <3>1. r # PerDepth => E[r + 1] = Coming(row, r + 1)
      OBVIOUS
    <3> HIDE DEF Body
    <3> QED BY <1>2, <3>1
  <2> HIDE DEF Body
  <2> QED BY <2>1
<1>4. A = [r \in S |-> Body(A, r)]
  <2> HIDE DEF E, Body
  <2> QED BY <1>3
<1> HIDE DEF A, Body, E
<1>5. \A r \in S : A[r] = Coming(row, r)
  <2> DEFINE T == {PerDepth - r : r \in {r \in S : A[r] # Coming(row, r)}}
  <2>1. ASSUME T # {} PROVE FALSE
    <3>1. T \in SUBSET Nat
      OBVIOUS
    <3>2. PICK r \in S : /\ A[r] # Coming(row, r)
                         /\ \A d \in T : PerDepth - r <= d
      <4>1. Min(T) \in T /\ \A d \in T : Min(T) <= d
        BY <2>1, <3>1, Minimum
      <4> QED BY <4>1
    <3>3. r # PerDepth => A[r + 1] = Coming(row, r + 1)
      <4>1. ASSUME r # PerDepth, A[r + 1] # Coming(row, r + 1) PROVE FALSE
        <5>1. PerDepth - (r + 1) \in T
          BY <4>1
        <5>2. ~(PerDepth - r <= PerDepth - (r + 1))
          OBVIOUS
        <5> HIDE DEF T
        <5> QED BY <3>2, <5>1, <5>2
      <4> QED BY <4>1
    <3> QED BY <1>2, <1>4, <3>2, <3>3
  <2> QED BY <2>1
<1> QED BY <1>1, <1>5

-----------------------------------------------------------------------------
(* A row and the buckets it was made of *)

Marked(b) == b.hash \in Nat \ {0} /\ b.wall \in Nat \ {0}

\* The row shows the first of the buckets C, the longest first.
RowOK(row, u, C) ==
  /\ FilledTo(row, u)
  /\ \A r \in 1..u : row[r] \in C
  /\ \A r, q \in 1..u : r < q => row[r].wall >= row[q].wall /\ row[r] # row[q]
  /\ \A c \in C : \/ \E r \in 1..u : row[r] = c
                  \/ u = PerDepth /\ \A r \in 1..u : c.wall <= row[r].wall

\* The row with b at rank n, those behind it moved down.
Moved(row, n, b) ==
  [r \in 1..PerDepth |-> IF r < n THEN row[r] ELSE IF r = n THEN b ELSE row[r - 1]]

LEMMA MovedIs ==
  ASSUME NEW row, NEW u, FilledTo(row, u), NEW n \in 1..PerDepth, NEW b
  PROVE  [Top!Shifted(row, n) EXCEPT ![n] = b] = Moved(row, n, b)
<1>1. PerDepth \in Nat /\ row = [r \in 1..PerDepth |-> row[r]]
  BY DEF FilledTo
<1> DEFINE t == Top!Shifted(row, n)
<1>2. /\ t = [r \in 1..PerDepth |-> t[r]]
      /\ \A r \in 1..PerDepth :
           r # n => t[r] = IF r < n THEN row[r] ELSE row[r - 1]
  <2>1. CASE n = PerDepth
    <3>1. t = row
      BY <2>1 DEF Top!Shifted
    <3> HIDE DEF t
    <3> QED BY <1>1, <2>1, <3>1
  <2>2. CASE n # PerDepth
    <3>1. n < PerDepth
      BY <1>1, <2>2
    <3>2. t = Coming(row, n + 1)
      BY <3>1, ShiftedIs
    <3> HIDE DEF t
    <3> QED BY <1>1, <3>1, <3>2 DEF Coming
  <2> QED BY <2>1, <2>2
<1> HIDE DEF t
<1>3. [t EXCEPT ![n] = b] = Moved(row, n, b)
  <2> DEFINE x == [t EXCEPT ![n] = b]
  <2>1. /\ x = [r \in 1..PerDepth |-> x[r]]
        /\ \A r \in 1..PerDepth : x[r] = IF r = n THEN b ELSE t[r]
    BY <1>2
  <2> HIDE DEF x
  <2>2. ASSUME NEW r \in 1..PerDepth PROVE x[r] = Moved(row, n, b)[r]
    <3>1. CASE r = n
      BY <1>1, <2>1, <3>1 DEF Moved
    <3>2. CASE r # n
      BY <1>1, <1>2, <2>1, <3>2 DEF Moved
    <3> QED BY <3>1, <3>2
  <2>3. x = Moved(row, n, b)
    BY <2>1, <2>2 DEF Moved
  <2> QED BY <2>3 DEF x
<1> QED BY <1>3 DEF t

\* A bucket that is put in its place.
LEMMA MovedOK ==
  ASSUME NEW row, NEW u, NEW C, RowOK(row, u, C), \A c \in C : Marked(c),
         NEW b, Marked(b), b \notin C,
         NEW n \in 1..PerDepth, n <= u + 1, n <= u => row[n].wall < b.wall,
         \A r \in 1..PerDepth : r < n => row[r].wall >= b.wall
  PROVE  RowOK(Moved(row, n, b), IF u < PerDepth THEN u + 1 ELSE u, C \cup {b})
<1> DEFINE v == IF u < PerDepth THEN u + 1 ELSE u
           K == Moved(row, n, b)
<1>1. /\ u \in 0..PerDepth /\ PerDepth \in Nat /\ row = [r \in 1..PerDepth |-> row[r]]
      /\ \A r \in 1..PerDepth : IF r <= u THEN ~Top!Unused(row[r]) ELSE row[r] = NoResult
      /\ \A r \in 1..u : row[r] \in C
      /\ \A r, q \in 1..u : r < q => row[r].wall >= row[q].wall /\ row[r] # row[q]
      /\ \A c \in C : \/ \E r \in 1..u : row[r] = c
                      \/ u = PerDepth /\ \A r \in 1..u : c.wall <= row[r].wall
  BY DEF RowOK, FilledTo
<1>2. /\ v \in 0..PerDepth /\ n \in 1..v /\ v \in Nat /\ n \in Nat /\ u \in Nat
      /\ (v = u + 1 /\ u < PerDepth) \/ (v = u /\ u = PerDepth)
  <2>1. CASE u < PerDepth
    BY <1>1, <2>1
  <2>2. CASE ~(u < PerDepth)
    BY <1>1, <2>2
  <2> QED BY <2>1, <2>2
<1>3. /\ K = [r \in 1..PerDepth |-> K[r]]
      /\ \A r \in 1..PerDepth :
           K[r] = IF r < n THEN row[r] ELSE IF r = n THEN b ELSE row[r - 1]
  BY DEF Moved
<1>4. /\ b.hash \in Nat \ {0} /\ b.wall \in Nat \ {0} /\ ~Top!Unused(b)
      /\ \A r \in 1..u : row[r].wall \in Nat
  BY <1>1 DEF Marked, Top!Unused
<1> HIDE DEF v, K
<1>5. ASSUME NEW r \in 1..v
      PROVE  /\ r \in Nat /\ r \in 1..PerDepth
             /\ r < n => r \in 1..u /\ K[r] = row[r]
             /\ r = n => K[r] = b
             /\ r > n => r - 1 \in 1..u /\ K[r] = row[r - 1]
  <2>1. r \in Nat /\ r \in 1..PerDepth
    BY <1>1, <1>2
  <2>2. CASE r < n
    BY <1>2, <1>3, <2>1, <2>2
  <2>3. CASE r = n
    BY <1>2, <1>3, <2>1, <2>3
  <2>4. CASE r > n
    <3>1. r - 1 \in 1..u
      BY <1>2, <2>1, <2>4
    <3> QED BY <1>2, <1>3, <2>1, <2>4, <3>1
  <2> QED BY <1>2, <2>1, <2>2, <2>3, <2>4
<1>6. FilledTo(K, v)
  <2>1. ASSUME NEW r \in 1..PerDepth
        PROVE  IF r <= v THEN ~Top!Unused(K[r]) ELSE K[r] = NoResult
    <3>1. CASE r <= v
      <4>1. r \in 1..v
        BY <1>2, <3>1
      <4>2. CASE r = n
        BY <1>4, <1>5, <3>1, <4>1, <4>2
      <4>3. CASE r < n
        <5>1. r <= u /\ K[r] = row[r]
          BY <1>2, <1>5, <4>1, <4>3
        <5>2. ~Top!Unused(row[r])
          BY <1>1, <5>1
        <5> QED BY <3>1, <5>1, <5>2
      <4>4. CASE r > n
        <5>1. r - 1 <= u /\ r - 1 \in 1..PerDepth /\ K[r] = row[r - 1]
          <6>1. r - 1 \in 1..u /\ K[r] = row[r - 1]
            BY <1>5, <4>1, <4>4
          <6> QED BY <1>1, <6>1
        <5>2. ~Top!Unused(row[r - 1])
          BY <1>1, <5>1
        <5> QED BY <3>1, <5>1, <5>2
      <4> QED BY <1>2, <4>1, <4>2, <4>3, <4>4
    <3>2. CASE ~(r <= v)
      <4>1. r > n /\ r - 1 \in 1..PerDepth /\ ~(r - 1 <= u)
        BY <1>1, <1>2, <3>2
      <4>2. K[r] = row[r - 1]
        BY <1>3, <4>1
      <4> QED BY <1>1, <3>2, <4>1, <4>2
    <3> QED BY <3>1, <3>2
  <2> QED BY <1>2, <1>3, <2>1 DEF FilledTo
<1>7. ASSUME NEW r \in 1..v PROVE K[r] \in C \cup {b}
  <2>1. CASE r < n
    BY <1>1, <1>5, <2>1
  <2>2. CASE r = n
    BY <1>5, <2>2
  <2>3. CASE r > n
    <3>1. r - 1 \in 1..u /\ K[r] = row[r - 1]
      BY <1>5, <2>3
    <3> QED BY <1>1, <3>1
  <2>4. r < n \/ r = n \/ r > n
    BY <1>2, <1>5
  <2> QED BY <2>1, <2>2, <2>3, <2>4
<1>8. ASSUME NEW r \in 1..v, NEW q \in 1..v, r < q
      PROVE  K[r].wall >= K[q].wall /\ K[r] # K[q]
  <2>1. r \in Nat /\ q \in Nat /\ n \in Nat
    BY <1>2
  <2>2. CASE q < n
    <3>1. r \in 1..u /\ q \in 1..u /\ K[r] = row[r] /\ K[q] = row[q]
      BY <1>5, <1>8, <2>1, <2>2
    <3> QED BY <1>1, <1>8, <3>1
  <2>3. CASE q = n
    <3>1. r < n /\ r \in 1..u /\ K[r] = row[r] /\ K[q] = b /\ r \in 1..PerDepth
      BY <1>1, <1>5, <1>8, <2>1, <2>3
    <3> QED BY <1>1, <3>1
  <2>4. CASE q > n /\ r < n
    <3>1. r \in 1..u /\ q - 1 \in 1..u /\ r < q - 1 /\ K[r] = row[r] /\ K[q] = row[q - 1]
      BY <1>5, <2>1, <2>4
    <3> QED BY <1>1, <3>1
  <2>5. CASE q > n /\ r = n
    <3>1. q - 1 \in 1..u /\ n \in 1..u /\ n <= q - 1 /\ K[r] = b /\ K[q] = row[q - 1]
      <4>1. q - 1 \in 1..u /\ K[q] = row[q - 1]
        BY <1>5, <2>5
      <4>2. K[r] = b
        BY <1>5, <2>5
      <4>3. n <= q - 1 /\ n >= 1 /\ u \in Nat
        BY <1>2, <2>1, <2>5
      <4>4. n \in 1..u
        BY <2>1, <4>1, <4>3
      <4> QED BY <4>1, <4>2, <4>3, <4>4
    <3>2. row[n].wall >= row[q - 1].wall
      <4>1. CASE n = q - 1
        <5>1. row[n].wall \in Nat
          BY <1>4, <3>1
        <5> QED BY <4>1, <5>1
      <4>2. CASE n < q - 1
        BY <1>1, <3>1, <4>2
      <4> QED BY <2>1, <3>1, <4>1, <4>2
    <3>3. row[n].wall < b.wall
      BY <3>1
    <3>4. row[n].wall \in Nat /\ row[q - 1].wall \in Nat /\ row[q - 1] \in C
      BY <1>1, <1>4, <3>1
    <3> QED BY <1>4, <3>1, <3>2, <3>3, <3>4
  <2>6. CASE q > n /\ r > n
    <3>1. /\ r - 1 \in 1..u /\ q - 1 \in 1..u /\ r - 1 < q - 1
          /\ K[r] = row[r - 1] /\ K[q] = row[q - 1]
      BY <1>5, <1>8, <2>1, <2>6
    <3> QED BY <1>1, <3>1
  <2> QED BY <1>8, <2>1, <2>2, <2>3, <2>4, <2>5, <2>6
<1>9. ASSUME NEW x \in Nat, x < b.wall, \A q \in 1..u : x <= row[q].wall
       PROVE  \A q \in 1..v : x <= K[q].wall
  <2> SUFFICES ASSUME NEW q \in 1..v PROVE x <= K[q].wall
    OBVIOUS
  <2>1. CASE q < n
    BY <1>5, <1>9, <2>1
  <2>2. CASE q = n
    BY <1>4, <1>5, <1>9, <2>2
  <2>3. CASE q > n
    <3>1. q - 1 \in 1..u /\ K[q] = row[q - 1]
      BY <1>5, <2>3
    <3> QED BY <1>9, <3>1
  <2>4. q < n \/ q = n \/ q > n
    BY <1>2, <1>5
  <2> QED BY <2>1, <2>2, <2>3, <2>4
<1>10. ASSUME NEW c \in C \cup {b}
      PROVE  \/ \E r \in 1..v : K[r] = c
             \/ v = PerDepth /\ \A r \in 1..v : c.wall <= K[r].wall
  <2>1. CASE c = b
    BY <1>2, <1>5, <2>1
  <2>2. ASSUME NEW r \in 1..u, row[r] = c
        PROVE  \/ \E q \in 1..v : K[q] = c
               \/ v = PerDepth /\ \A q \in 1..v : c.wall <= K[q].wall
    <3>1. CASE r < n
      <4>1. r \in 1..v /\ K[r] = row[r]
        BY <1>1, <1>2, <1>5, <3>1
      <4> QED BY <2>2, <4>1
    <3>2. CASE r >= n /\ r + 1 <= v
      <4>1. r + 1 \in 1..v /\ r + 1 > n /\ (r + 1) - 1 = r
        BY <1>1, <1>2, <3>2
      <4>2. K[r + 1] = row[r]
        BY <1>5, <4>1
      <4> QED BY <2>2, <4>1, <4>2
    <3>3. CASE r >= n /\ ~(r + 1 <= v)
      <4>1. r = u /\ v = u /\ u = PerDepth /\ n \in 1..u
        BY <1>1, <1>2, <3>3
      <4>2. \A q \in 1..u : c.wall <= row[q].wall
        BY <1>1, <1>4, <2>2, <4>1
      <4>3. c.wall < b.wall
        BY <1>1, <1>4, <2>2, <4>1, <4>2
      <4>4. c.wall \in Nat
        BY <1>4, <2>2
      <4>5. \A q \in 1..v : c.wall <= K[q].wall
        BY <1>9, <4>1, <4>2, <4>3, <4>4
      <4> QED BY <4>1, <4>5
    <3> QED BY <1>1, <1>2, <3>1, <3>2, <3>3
  <2>3. CASE c \in C /\ u = PerDepth /\ \A r \in 1..u : c.wall <= row[r].wall
    <3>1. v = PerDepth /\ n \in 1..u /\ n <= u
      BY <1>1, <1>2, <2>3
    <3>2. c.wall \in Nat /\ c.wall < b.wall
      <4>1. c.wall \in Nat
        BY <2>3 DEF Marked
      <4>2. c.wall <= row[n].wall /\ row[n].wall < b.wall /\ row[n].wall \in Nat
        BY <1>4, <2>3, <3>1
      <4> QED BY <1>4, <4>1, <4>2
    <3>3. \A q \in 1..v : c.wall <= K[q].wall
      BY <1>9, <2>3, <3>2
    <3> QED BY <3>1, <3>3
  <2> QED BY <1>1, <2>1, <2>2, <2>3
<1>11. RowOK(K, v, C \cup {b})
  BY <1>6, <1>7, <1>8, <1>10 DEF RowOK
<1> QED BY <1>11 DEF K, v

LEMMA MinimumIs ==
  ASSUME NEW T
  PROVE  Top!Min(T) = Min(T)
BY DEF Top!Min, Min

LEMMA CardinalityIs ==
  ASSUME NEW T
  PROVE  Top!Cardinality(T) = Cardinality(T)
BY DEF Top!Cardinality, Cardinality

LEMMA InsertOK ==
  ASSUME NEW row, NEW u, NEW C, RowOK(row, u, C), \A c \in C : Marked(c),
         NEW b, Marked(b), b \notin C
  PROVE  \E v : RowOK(Top!Insert(row, b), v, C \cup {b})
<1> DEFINE first == row # << >> /\ row[1].hash = 0
           ranks == {n \in 1..PerDepth : row[n].wall < b.wall}
<1>1. /\ u \in 0..PerDepth /\ PerDepth \in Nat /\ row = [r \in 1..PerDepth |-> row[r]]
      /\ \A r \in 1..PerDepth : IF r <= u THEN ~Top!Unused(row[r]) ELSE row[r] = NoResult
      /\ \A r \in 1..u : row[r] \in C
      /\ \A r, q \in 1..u : r < q => row[r].wall >= row[q].wall /\ row[r] # row[q]
      /\ \A c \in C : \/ \E r \in 1..u : row[r] = c
                      \/ u = PerDepth /\ \A r \in 1..u : c.wall <= row[r].wall
  BY DEF RowOK, FilledTo
<1>2. Top!Insert(row, b) =
        IF first THEN [row EXCEPT ![1] = b]
        ELSE IF ranks = {} THEN row
        ELSE [Top!Shifted(row, Min(ranks)) EXCEPT ![Min(ranks)] = b]
  <2>1. Top!Ranks = 1..PerDepth
    BY DEF Top!Ranks
  <2>2. {n \in Top!Ranks : Top!Yields(row, n, b)} = ranks
    BY <2>1 DEF Top!Yields
  <2> HIDE DEF ranks
  <2>3. Top!Min(ranks) = Min(ranks)
    BY MinimumIs
  <2> HIDE DEF first
  <2> QED BY <2>2, <2>3 DEF Top!Insert, first
<1>3. /\ b.wall \in Nat \ {0} /\ b.hash \in Nat \ {0} /\ NoResult.wall = 0 /\ NoResult.hash = 0
      /\ \A r \in 1..u : row[r].wall \in Nat /\ row[r].hash \in Nat \ {0}
  BY <1>1 DEF Marked, NoResult, Top!NoResult
<1> HIDE DEF first, ranks
<1>4. CASE PerDepth = 0
  <2>1. u = 0 /\ ranks = {}
    BY <1>1, <1>4 DEF ranks
  <2>2. Top!Insert(row, b) = row
    <3>1. [row EXCEPT ![1] = b] = row
      BY <1>1, <1>4
    <3> QED BY <1>2, <2>1, <3>1
  <2>3. RowOK(row, 0, C \cup {b})
    BY <1>1, <1>4, <2>1 DEF RowOK, FilledTo
  <2> QED BY <2>2, <2>3
<1>5. CASE PerDepth # 0 /\ u = 0
  <2>1. \A r \in 1..PerDepth : row[r] = NoResult
    BY <1>1, <1>5
  <2>2. first
    <3>1. 1 \in 1..PerDepth /\ 1 \in DOMAIN row
      BY <1>1, <1>5
    <3>2. 1 \notin DOMAIN << >>
      OBVIOUS
    <3> QED BY <1>3, <2>1, <3>1, <3>2 DEF first
  <2> DEFINE K == [row EXCEPT ![1] = b]
  <2>3. /\ Top!Insert(row, b) = K
        /\ K = [r \in 1..PerDepth |-> K[r]]
        /\ \A r \in 1..PerDepth : K[r] = IF r <= 1 THEN b ELSE NoResult
    BY <1>1, <1>2, <2>1, <2>2
  <2>4. C = {}
    BY <1>1, <1>5
  <2> HIDE DEF K
  <2>5. FilledTo(K, 1)
    BY <1>1, <1>3, <1>5, <2>3 DEF FilledTo, Top!Unused
  <2>6. RowOK(K, 1, C \cup {b})
    BY <1>1, <1>5, <2>3, <2>4, <2>5 DEF RowOK
  <2> QED BY <2>3, <2>6
<1>6. CASE u # 0
  <2>1. ~first /\ u \in Nat /\ 1 \in 1..u
    <3>1. u \in Nat /\ 1 \in 1..u
      BY <1>1, <1>6
    <3>2. row[1].hash # 0
      BY <1>3, <3>1
    <3> QED BY <3>1, <3>2 DEF first
  <2>2. CASE ranks = {}
    <3>1. \A r \in 1..PerDepth : ~(row[r].wall < b.wall)
      BY <2>2 DEF ranks
    <3>2. u = PerDepth
      <4>1. ASSUME u # PerDepth PROVE FALSE
        <5>1. u + 1 \in 1..PerDepth /\ ~(u + 1 <= u)
          BY <1>1, <4>1
        <5>2. row[u + 1] = NoResult
          BY <1>1, <5>1
        <5> QED BY <1>3, <3>1, <5>1, <5>2
      <4> QED BY <4>1
    <3>3. \A r \in 1..u : b.wall <= row[r].wall
      BY <1>3, <3>1, <3>2
    <3>4. RowOK(row, u, C \cup {b})
      BY <1>1, <3>2, <3>3 DEF RowOK
    <3> QED BY <1>2, <2>1, <2>2, <3>4
  <2>3. CASE ranks # {}
    <3> DEFINE n == Min(ranks)
    <3>1. ranks \in SUBSET Nat
      BY DEF ranks
    <3>2. n \in ranks /\ \A r \in ranks : n <= r
      BY <2>3, <3>1, Minimum
    <3> HIDE DEF n
    <3>3. n \in 1..PerDepth /\ row[n].wall < b.wall
      BY <3>2 DEF ranks
    <3>4. ASSUME NEW r \in 1..PerDepth, r < n PROVE row[r].wall >= b.wall
      <4>1. ~(row[r].wall < b.wall)
        BY <3>2, <3>3, <3>4 DEF ranks
      <4>2. row[r].wall \in Nat
        <5>1. CASE r <= u
          <6>1. r \in 1..u
            BY <1>1, <5>1
          <6> QED BY <1>3, <6>1
        <5>2. CASE ~(r <= u)
          BY <1>1, <1>3, <5>2
        <5> QED BY <5>1, <5>2
      <4> QED BY <1>3, <4>1, <4>2
    <3>5. n <= u + 1
      <4>1. ASSUME n > u + 1 PROVE FALSE
        <5>1. u + 1 \in 1..PerDepth /\ ~(u + 1 <= u) /\ u + 1 < n
          BY <1>1, <2>1, <3>3, <4>1
        <5>2. row[u + 1] = NoResult
          BY <1>1, <5>1
        <5> QED BY <1>3, <3>4, <5>1, <5>2
      <4> QED BY <1>1, <2>1, <3>3, <4>1
    <3>6. RowOK(Moved(row, n, b), IF u < PerDepth THEN u + 1 ELSE u, C \cup {b})
      BY <3>3, <3>4, <3>5, MovedOK
    <3>7. Top!Insert(row, b) = Moved(row, n, b)
      <4>1. FilledTo(row, u)
        BY DEF RowOK
      <4>2. [Top!Shifted(row, n) EXCEPT ![n] = b] = Moved(row, n, b)
        BY <3>3, <4>1, MovedIs
      <4> QED BY <1>2, <2>1, <2>3, <4>2 DEF n
    <3> QED BY <3>6, <3>7
  <2> QED BY <2>2, <2>3
<1> QED BY <1>4, <1>5, <1>6

-----------------------------------------------------------------------------
(* The inductive invariant *)

Typed == \A b \in todo \cup seen : b.wall \in Nat /\ b.hash \in Nat \ {0}

RowsOK ==
  /\ slots = [l \in Top!Levels |-> slots[l]]
  /\ \A l \in Top!Levels : \E u : RowOK(slots[l], u, Top!Candidates(l))

ReportInv ==
  /\ Inv /\ reporting \in BOOLEAN
  /\ ~reporting => todo = {} /\ seen = {} /\ slots = Top!NoSlots
  /\ Typed /\ todo \cap seen = {} /\ IsFiniteSet(seen)
  /\ RowsOK

\* No result of the report can be taken for an unused one.
NoMarks ==
  /\ MinWall > 0
  /\ \A f \in Fns : HashOf[f] \in Nat \ {0}
  /\ \A bs \in LongRequests : \A b \in bs : b.hash # 0

LEMMA RowsEmpty ==
  ASSUME NEW bs, bs = {}
  PROVE  \A l \in Top!Levels :
           RowOK(Top!NoSlots[l], 0, {b \in bs : b.level = l /\ Top!Eligible(b)})
<1> SUFFICES ASSUME NEW l \in Top!Levels
             PROVE  RowOK(Top!NoSlots[l], 0, {b \in bs : b.level = l /\ Top!Eligible(b)})
  OBVIOUS
<1>1. Top!NoSlots[l] = [r \in 1..PerDepth |-> NoResult]
  BY DEF Top!NoSlots, Top!Ranks, NoResult
<1>2. FilledTo(Top!NoSlots[l], 0)
  BY <1>1 DEF FilledTo
<1> QED BY <1>2 DEF RowOK

LEMMA NoSlotsOK ==
  ASSUME seen = {}, slots = Top!NoSlots
  PROVE  RowsOK
<1>1. slots = [l \in Top!Levels |-> slots[l]]
  BY DEF Top!NoSlots
<1>2. \A l \in Top!Levels : RowOK(slots[l], 0, Top!Candidates(l))
  BY RowsEmpty DEF Top!Candidates
<1> QED BY <1>1, <1>2 DEF RowsOK

LEMMA ReportInvInit == ReportInit => ReportInv
<1> SUFFICES ASSUME ReportInit PROVE ReportInv
  OBVIOUS
<1>1. Inv
  BY InvInit DEF ReportInit
<1>2. RowsOK
  BY NoSlotsOK DEF ReportInit
<1> QED BY <1>1, <1>2, FS_EmptySet DEF ReportInit, ReportInv, Typed

LEMMA LookRows ==
  ASSUME ReportInv, MinWall > 0, NEW b \in todo, Top!Look(b)
  PROVE  RowsOK'
<1>1. /\ b \notin seen /\ seen' = seen \cup {b}
      /\ slots' = IF Top!Eligible(b)
                  THEN [slots EXCEPT ![b.level] = Top!Insert(slots[b.level], b)] ELSE slots
  BY DEF ReportInv, Top!Look
<1>2. slots = [l \in Top!Levels |-> slots[l]]
  BY DEF ReportInv, RowsOK
<1>3. slots' = [l \in Top!Levels |-> slots'[l]]
  BY <1>1, <1>2
<1>4. ASSUME NEW l \in Top!Levels
      PROVE  \E u : RowOK(slots'[l], u, Top!Candidates(l)')
  <2>1. PICK u : RowOK(slots[l], u, Top!Candidates(l))
    BY DEF ReportInv, RowsOK
  <2>2. CASE Top!Eligible(b) /\ b.level = l
    <3>1. Top!Candidates(l)' = Top!Candidates(l) \cup {b}
      BY <1>1, <2>2 DEF Top!Candidates, Top!Eligible
    <3>2. slots'[l] = Top!Insert(slots[l], b)
      BY <1>1, <1>2, <2>2
    <3>3. Marked(b) /\ b \notin Top!Candidates(l)
      BY <1>1, <2>2 DEF ReportInv, Typed, Marked, Top!Eligible, Top!Candidates
    <3>4. \A c \in Top!Candidates(l) : Marked(c)
      BY DEF ReportInv, Typed, Marked, Top!Eligible, Top!Candidates
    <3>5. \E v : RowOK(Top!Insert(slots[l], b), v, Top!Candidates(l) \cup {b})
      BY <2>1, <3>3, <3>4, InsertOK
    <3> QED BY <3>1, <3>2, <3>5
  <2>3. CASE ~(Top!Eligible(b) /\ b.level = l)
    <3>1. Top!Candidates(l)' = Top!Candidates(l)
      BY <1>1, <2>3 DEF Top!Candidates, Top!Eligible
    <3>2. slots'[l] = slots[l]
      BY <1>1, <1>2, <2>3
    <3> QED BY <2>1, <3>1, <3>2
  <2> QED BY <2>2, <2>3
<1> QED BY <1>3, <1>4 DEF RowsOK

\* What a report does not touch.
LEMMA ReportStep ==
  ASSUME ReportNext
  PROVE  [Next]_vars
BY DEF ReportNext, ReportStart, ReportLong, ReportEnd, ReportBucket, Next

LEMMA ReportInvNext == NoMarks /\ ReportInv /\ [ReportNext]_reportVars => ReportInv'
<1> SUFFICES ASSUME NoMarks, ReportInv, [ReportNext]_reportVars PROVE ReportInv'
  OBVIOUS
<1>1. ASSUME UNCHANGED report PROVE /\ Typed' /\ (todo \cap seen = {})' /\ IsFiniteSet(seen)'
                                    /\ RowsOK' /\ (reporting \in BOOLEAN)'
                                    /\ (~reporting => todo = {} /\ seen = {}
                                                        /\ slots = Top!NoSlots)'
  <2>1. reporting' = reporting /\ todo' = todo /\ seen' = seen /\ slots' = slots
    BY <1>1 DEF report
  <2>2. RowsOK'
    BY <2>1 DEF ReportInv, RowsOK, Top!Candidates, Top!Eligible
  <2>3. Typed'
    BY <2>1 DEF ReportInv, Typed
  <2> QED BY <2>1, <2>2, <2>3 DEF ReportInv, Top!NoSlots
<1>2. CASE UNCHANGED reportVars
  <2>1. Inv'
    BY <1>2, InvNext DEF ReportInv, reportVars
  <2> QED BY <1>1, <1>2, <2>1 DEF ReportInv, reportVars
<1>3. CASE ~reporting /\ Next /\ UNCHANGED report
  <2>1. Inv'
    BY <1>3, InvNext DEF ReportInv
  <2> QED BY <1>1, <1>3, <2>1 DEF ReportInv
<1>4. ASSUME NEW bs, \A b \in bs : b.wall \in Nat /\ b.hash \in Nat \ {0},
             ~reporting, reporting' = TRUE, todo' = bs, UNCHANGED <<vars, seen, slots>>
      PROVE  ReportInv'
  <2>1. Inv'
    BY <1>4, InvNext DEF ReportInv
  <2>2. seen' = {} /\ slots' = slots /\ seen' = seen
    BY <1>4 DEF ReportInv
  <2>3. RowsOK'
    BY <2>2 DEF ReportInv, RowsOK, Top!Candidates, Top!Eligible
  <2>4. Typed'
    BY <1>4, <2>2 DEF Typed
  <2> QED BY <1>4, <2>1, <2>2, <2>3, <2>4, FS_EmptySet DEF ReportInv
<1>5. CASE ReportStart
  <2>1. \A b \in BucketsLeft : b.wall \in Nat /\ b.hash \in Nat \ {0}
    BY DEF BucketsLeft, ReportInv, Inv, BucketsOK, NoMarks
  <2> QED BY <1>4, <1>5, <2>1 DEF ReportStart
<1>6. CASE ReportLong
  <2>1. \A b \in todo' : b.wall \in Nat /\ b.hash \in Nat \ {0}
    BY <1>6 DEF ReportLong, NoMarks
  <2> QED BY <1>4, <1>6, <2>1 DEF ReportLong
<1>7. CASE ReportEnd
  <2>1. Inv'
    BY <1>7, RequestEndInv DEF ReportEnd, ReportInv
  <2>2. reporting' = FALSE /\ todo' = {} /\ seen' = {} /\ slots' = Top!NoSlots
    BY <1>7 DEF ReportEnd
  <2>3. RowsOK'
    BY <2>2, RowsEmpty DEF RowsOK, Top!Candidates, Top!NoSlots
  <2> QED BY <2>1, <2>2, <2>3, FS_EmptySet DEF ReportInv, Typed, Top!NoSlots
<1>8. ASSUME NEW b \in todo, ReportBucket(b) PROVE ReportInv'
  <2>1. Inv'
    BY <1>8, InvNext DEF ReportBucket, ReportInv
  <2>2. RowsOK'
    BY <1>8, LookRows DEF ReportBucket, NoMarks
  <2>3. reporting /\ reporting' = reporting /\ todo' = todo \ {b} /\ seen' = seen \cup {b}
    BY <1>8 DEF ReportBucket, Top!Look
  <2>4. Typed' /\ (todo \cap seen = {})'
    BY <2>3 DEF Typed, ReportInv
  <2>5. IsFiniteSet(seen')
    BY <2>3, FS_AddElement DEF ReportInv
  <2> QED BY <2>1, <2>2, <2>3, <2>4, <2>5 DEF ReportInv
<1> QED BY <1>2, <1>3, <1>5, <1>6, <1>7, <1>8 DEF ReportNext

-----------------------------------------------------------------------------
(* What the report shows *)

LEMMA RowIsTop ==
  ASSUME ReportInv, NEW l \in Top!Levels
  PROVE  /\ Top!ShownBuckets(l) \subseteq Top!Candidates(l)
         /\ Cardinality(Top!ShownBuckets(l)) = Cardinality(Top!Shown(l))
         /\ Cardinality(Top!Shown(l)) = Top!Min({PerDepth, Cardinality(Top!Candidates(l))})
         /\ \A b \in Top!Candidates(l) \ Top!ShownBuckets(l) :
              \A c \in Top!ShownBuckets(l) : b.wall <= c.wall
         /\ \A m, n \in Top!Shown(l) : m < n => slots[l][m].wall >= slots[l][n].wall
<1> DEFINE row == slots[l]
           C == Top!Candidates(l)
           S == Top!ShownBuckets(l)
<1>1. PICK u : RowOK(row, u, C)
  BY DEF ReportInv, RowsOK
<1> HIDE DEF row, C
<1>2. /\ u \in 0..PerDepth /\ u \in Nat /\ PerDepth \in Nat
      /\ \A r \in 1..PerDepth : ~(r <= u) => row[r] = NoResult
      /\ \A r \in 1..u : row[r] \in C
      /\ \A r, q \in 1..u : r < q => row[r].wall >= row[q].wall /\ row[r] # row[q]
      /\ \A c \in C : \/ \E r \in 1..u : row[r] = c
                      \/ u = PerDepth /\ \A r \in 1..u : c.wall <= row[r].wall
  <2>1. u \in 0..PerDepth /\ u \in Nat /\ PerDepth \in Nat
    BY <1>1 DEF RowOK, FilledTo
  <2>2. \A r \in 1..PerDepth : ~(r <= u) => row[r] = NoResult
    BY <1>1 DEF RowOK, FilledTo
  <2>3. \A r \in 1..u : row[r] \in C
    BY <1>1 DEF RowOK
  <2>4. \A r, q \in 1..u : r < q => row[r].wall >= row[q].wall /\ row[r] # row[q]
    BY <1>1 DEF RowOK
  <2>5. \A c \in C : \/ \E r \in 1..u : row[r] = c
                     \/ u = PerDepth /\ \A r \in 1..u : c.wall <= row[r].wall
    BY <1>1 DEF RowOK
  <2> QED BY <2>1, <2>2, <2>3, <2>4, <2>5
<1>3. IsFiniteSet(C) /\ \A c \in C : c.hash \in Nat \ {0}
  <2>1. C \in SUBSET seen
    BY DEF C, Top!Candidates
  <2>2. IsFiniteSet(C)
    BY <2>1, FS_Subset DEF ReportInv
  <2>3. \A c \in C : c.hash \in Nat \ {0}
    BY <2>1 DEF ReportInv, Typed
  <2> QED BY <2>2, <2>3
<1>4. Top!Shown(l) = 1..u
  <2>1. ASSUME NEW r \in 1..PerDepth PROVE row[r].hash > 0 <=> r \in 1..u
    <3>1. CASE r <= u
      <4>1. r \in 1..u
        BY <1>2, <3>1
      <4>2. row[r].hash \in Nat \ {0}
        BY <1>2, <1>3, <4>1
      <4> QED BY <4>1, <4>2
    <3>2. CASE ~(r <= u)
      <4>1. row[r].hash = 0
        BY <1>2, <3>2 DEF NoResult, Top!NoResult
      <4> QED BY <1>2, <3>2, <4>1
    <3> QED BY <3>1, <3>2
  <2>2. 1..u \subseteq 1..PerDepth
    BY <1>2
  <2> QED BY <2>1, <2>2 DEF row, Top!Shown, Top!Ranks
<1>5. S = {row[r] : r \in 1..u}
  BY <1>4 DEF row, Top!ShownBuckets
<1> HIDE DEF S
<1>6. S \subseteq C
  BY <1>2, <1>5
<1>7. Cardinality(S) = u /\ IsFiniteSet(S) /\ Cardinality(1..u) = u
  <2>1. IsFiniteSet(1..u) /\ Cardinality(1..u) = u
    <3>1. 1 \in Int /\ u \in Int
      BY <1>2
    <3>2. IsFiniteSet(1..u) /\ Cardinality(1..u) = IF 1 > u THEN 0 ELSE (u - 1) + 1
      BY <3>1, FS_Interval
    <3> QED BY <1>2, <3>2
  <2> DEFINE f == [r \in 1..u |-> row[r]]
  <2>2. \A r, q \in 1..u : f[r] = f[q] => r = q
    BY <1>2
  <2>3. f \in Bijection(1..u, S)
    BY <1>5, <2>2, Zenon DEF Bijection, Injection, Surjection, IsInjective
  <2>4. ExistsBijection(1..u, S)
    BY <2>3 DEF ExistsBijection
  <2> QED BY <2>1, <2>4, FS_Bijection
<1>8. u = Top!Min({PerDepth, Cardinality(C)})
  <2>1. Cardinality(C) \in Nat /\ u <= Cardinality(C)
    BY <1>3, <1>6, <1>7, FS_Subset, FS_CardinalityType
  <2>2. u = PerDepth \/ u = Cardinality(C)
    <3>1. ASSUME u # PerDepth PROVE S = C
      BY <1>2, <1>5, <1>6, <3>1
    <3> QED BY <1>7, <3>1
  <2>3. {PerDepth, Cardinality(C)} \in SUBSET Nat /\ {PerDepth, Cardinality(C)} # {}
    BY <1>2, <2>1
  <2> DEFINE m == Min({PerDepth, Cardinality(C)})
  <2>4. m \in {PerDepth, Cardinality(C)} /\ m <= PerDepth /\ m <= Cardinality(C)
    BY <2>3, Minimum
  <2>5. Top!Min({PerDepth, Cardinality(C)}) = m
    BY MinimumIs
  <2> HIDE DEF m
  <2> QED BY <1>2, <2>1, <2>2, <2>4, <2>5
<1>9. \A b \in C \ S : \A c \in S : b.wall <= c.wall
  BY <1>2, <1>5
<1> QED BY <1>2, <1>4, <1>6, <1>7, <1>8, <1>9 DEF C, S, row

-----------------------------------------------------------------------------
(* The report of a call tree *)

\* A report that follows the calls goes through the buckets they have left.
Left ==
  /\ ~reporting => followed
  /\ reporting => running /\ sampled /\ php = << >>
  /\ reporting /\ followed => todo \cup seen = BucketsLeft

LEMMA LeftInit == ReportInit => Left
BY DEF ReportInit, Left

LEMMA LeftNext == ReportInv /\ Left /\ [ReportNext]_reportVars => Left'
<1> SUFFICES ASSUME ReportInv, Left, [ReportNext]_reportVars PROVE Left'
  OBVIOUS
<1>1. ASSUME UNCHANGED vars PROVE BucketsLeft' = BucketsLeft /\ running' = running
                                  /\ sampled' = sampled /\ php' = php
  BY <1>1 DEF vars, BucketsLeft
<1>2. CASE UNCHANGED reportVars
  BY <1>1, <1>2 DEF reportVars, report, Left
<1>3. CASE ~reporting /\ Next /\ UNCHANGED report
  BY <1>3 DEF report, Left
<1>4. CASE ReportStart
  <2>1. UNCHANGED vars /\ reporting' /\ followed' = followed /\ todo' = BucketsLeft
    BY <1>4 DEF ReportStart
  <2>2. seen' = {}
    BY <1>4 DEF ReportStart, ReportInv
  <2>3. running /\ sampled /\ php = << >>
    BY <1>4 DEF ReportStart
  <2> QED BY <1>1, <2>1, <2>2, <2>3 DEF Left
<1>5. CASE ReportLong
  <2>1. UNCHANGED vars /\ reporting' /\ ~followed'
    BY <1>5 DEF ReportLong
  <2>2. running /\ sampled /\ php = << >>
    BY <1>5 DEF ReportLong
  <2> QED BY <1>1, <2>1, <2>2 DEF Left
<1>6. CASE ReportEnd
  BY <1>6 DEF ReportEnd, Left
<1>7. ASSUME NEW b \in todo, ReportBucket(b) PROVE Left'
  <2>1. /\ UNCHANGED vars /\ reporting /\ reporting' = reporting /\ followed' = followed
        /\ todo' = todo \ {b} /\ seen' = seen \cup {b}
    BY <1>7 DEF ReportBucket, Top!Look
  <2> QED BY <1>1, <2>1 DEF Left
<1> QED BY <1>2, <1>3, <1>4, <1>5, <1>6, <1>7 DEF ReportNext

LEMMA ProfileShown ==
  ASSUME NoMarks, ReportInv, Left, ExactInv, NoneLost
  PROVE  ReportIsProfile
<1> SUFFICES ASSUME reporting, todo = {}, followed, ~cut, NEW l \in Top!Levels
             PROVE
      LET time(f) == SumFunctionOnSet(Spent(calls), {c \in DOMAIN calls :
                       Depth(calls, c) >= StartDepth /\ KeyOf(calls, c) = <<f, l>>})
          shown == {b.fn : b \in Top!ShownBuckets(l)}
      IN /\ \A b \in Top!ShownBuckets(l) : b.wall = time(b.fn)
         /\ \A f \in Fns \ shown :
              time(f) < MinWall \/ (Cardinality(shown) = PerDepth
                                      /\ \A g \in shown : time(f) <= time(g))
  BY DEF ReportIsProfile
<1> DEFINE time(f) == SumFunctionOnSet(Spent(calls), {c \in DOMAIN calls :
                       Depth(calls, c) >= StartDepth /\ KeyOf(calls, c) = <<f, l>>})
           S     == Top!ShownBuckets(l)
           shown == {b.fn : b \in S}
           Cands == Top!Candidates(l)
           bucket(k) == [fn |-> k[1], hash |-> HashOf[k[1]], level |-> k[2],
                         wall |-> buckets[k].wall]
<1>1. Uncut /\ Exact /\ Len(php) = 0 /\ seen = BucketsLeft
  BY DEF Left, Uncut, ExactInv
<1>2. \A f : time(f) = Time(calls, <<f, l>>)
  <2>1. \A c \in DOMAIN calls : calls[c].end # Pending
    <3>1. DOMAIN calls = 1..Len(calls)
      BY StacksAre DEF ExactInv
    <3> QED BY <1>1, <3>1 DEF NoneLost, OnStack
  <2>2. Returned(calls) = {c \in DOMAIN calls : Depth(calls, c) >= StartDepth}
    BY <2>1 DEF Returned
  <2>3. \A f : Done(calls, <<f, l>>) =
          {c \in DOMAIN calls : Depth(calls, c) >= StartDepth /\ KeyOf(calls, c) = <<f, l>>}
    BY <2>2 DEF Done
  <2> QED BY <2>3 DEF Time
<1>3. /\ DOMAIN buckets = Keys(calls)
      /\ \A k \in DOMAIN buckets : /\ buckets[k].wall = Time(calls, k)
                                   /\ buckets[k].wall \in Nat
  <2>1. \A k \in DOMAIN buckets : buckets[k].wall \in Nat
    BY DEF ExactInv, Inv, BucketsOK
  <2> QED BY <1>1, <2>1 DEF Exact, BucketsExact
<1>4. \A k \in DOMAIN buckets : k = <<k[1], k[2]>>
  BY <1>3 DEF Keys, KeyOf
<1>5. seen = {bucket(k) : k \in DOMAIN buckets}
  BY <1>1 DEF BucketsLeft
<1> HIDE DEF time
<1>6. \A b \in Cands : b.level = l /\ b.wall = time(b.fn) /\ b.wall \in Nat
                         /\ b = bucket(<<b.fn, l>>)
  <2> SUFFICES ASSUME NEW b \in Cands
               PROVE  b.level = l /\ b.wall = time(b.fn) /\ b.wall \in Nat
                        /\ b = bucket(<<b.fn, l>>)
    OBVIOUS
  <2>1. b \in seen /\ b.level = l
    BY DEF Top!Candidates
  <2>2. PICK k \in DOMAIN buckets : b = bucket(k)
    BY <1>5, <2>1
  <2>3. b.fn = k[1] /\ b.level = k[2] /\ b.wall = buckets[k].wall
    BY <2>2
  <2>4. k = <<b.fn, l>>
    BY <1>4, <2>1, <2>3
  <2> HIDE DEF bucket
  <2> QED BY <1>2, <1>3, <2>1, <2>2, <2>3, <2>4
<1>7. /\ S \subseteq Cands
      /\ Cardinality(S) = Cardinality(Top!Shown(l))
      /\ Cardinality(Top!Shown(l)) = Top!Min({PerDepth, Cardinality(Cands)})
      /\ \A b \in Cands \ S : \A c \in S : b.wall <= c.wall
  BY RowIsTop
<1> HIDE DEF S, Cands
<1>8. \A b \in S : b.wall = time(b.fn)
  BY <1>6, <1>7
<1>9. IsFiniteSet(Cands) /\ IsFiniteSet(S) /\ Cardinality(S) \in Nat
  <2>1. Cands \in SUBSET seen
    BY DEF Cands, Top!Candidates
  <2> QED BY <1>7, <2>1, FS_Subset, FS_CardinalityType DEF ReportInv
<1>10. Cardinality(shown) = Cardinality(S)
  <2> DEFINE g == [b \in S |-> b.fn]
  <2>1. \A b, c \in S : g[b] = g[c] => b = c
    <3> HIDE DEF bucket
    <3> QED BY <1>6, <1>7
  <2>2. g \in Bijection(S, shown)
    BY <2>1, Zenon DEF Bijection, Injection, Surjection, IsInjective
  <2>3. ExistsBijection(S, shown)
    BY <2>2 DEF ExistsBijection
  <2> QED BY <1>9, <2>3, FS_Bijection
<1>11. ASSUME NEW f \in Fns \ shown, ~(time(f) < MinWall)
       PROVE  /\ Cardinality(shown) = PerDepth
              /\ \A g \in shown : time(f) <= time(g)
  <2> DEFINE k == <<f, l>>
             b == bucket(k)
  <2>1. k \in DOMAIN buckets
    <3>1. ASSUME k \notin DOMAIN buckets PROVE FALSE
      <4>1. Done(calls, k) = {}
        BY <1>3, <3>1 DEF Keys, Done
      <4>2. time(f) = 0
        BY <1>2, <4>1, SumEmpty DEF Time
      <4> QED BY <1>11, <4>2 DEF NoMarks
    <3> QED BY <3>1
  <2>2. b \in seen /\ b.level = l /\ b.fn = f /\ b.wall = time(f) /\ b.wall \in Nat
    BY <1>2, <1>3, <1>5, <2>1
  <2> HIDE DEF k, b
  <2>3. b \in Cands
    <3>1. l <= MaxDepth /\ b.wall >= MinWall
      BY <1>11, <2>2 DEF Top!Levels
    <3> QED BY <2>2, <3>1 DEF Cands, Top!Candidates, Top!Eligible
  <2>4. b \notin S
    BY <1>11, <2>2
  <2>5. Cardinality(S) = PerDepth
    <3>1. Cardinality(Cands) \in Nat /\ Cardinality(S) < Cardinality(Cands)
      <4>1. Cardinality(Cands) \in Nat /\ Cardinality(S) <= Cardinality(Cands)
        BY <1>7, <1>9, FS_Subset, FS_CardinalityType
      <4>2. Cardinality(S) # Cardinality(Cands)
        BY <1>7, <1>9, <2>3, <2>4, FS_Subset
      <4> QED BY <1>9, <4>1, <4>2
    <3> DEFINE m == Min({PerDepth, Cardinality(Cands)})
    <3>2. m \in {PerDepth, Cardinality(Cands)}
      <4>1. {PerDepth, Cardinality(Cands)} \in SUBSET Nat /\ {PerDepth, Cardinality(Cands)} # {}
        BY <3>1
      <4> QED BY <4>1, Minimum
    <3>3. Cardinality(S) = m
      BY <1>7, MinimumIs
    <3> HIDE DEF m
    <3> QED BY <1>9, <3>1, <3>2, <3>3
  <2>6. ASSUME NEW g \in shown PROVE time(f) <= time(g)
    <3>1. PICK c \in S : c.fn = g
      OBVIOUS
    <3>2. b.wall <= c.wall
      BY <1>7, <2>3, <2>4
    <3>3. c.wall = time(g)
      BY <1>8, <3>1
    <3> QED BY <2>2, <3>2, <3>3
  <2> QED BY <1>10, <2>5, <2>6
<1>12. \A f \in Fns \ shown :
         time(f) < MinWall \/ (Cardinality(shown) = PerDepth
                                 /\ \A g \in shown : time(f) <= time(g))
  <2> HIDE DEF shown
  <2> QED BY <1>11
<1> QED BY <1>8, <1>12 DEF time, S

-----------------------------------------------------------------------------
(* The theorems *)

\* The requests of PerformanceReport are requests of CallProfile: a report
\* reads the buckets, and only the end of the request drops them
\* (seaslog_clear_performance).
THEOREM ReportImplements == ReportSpec => Spec
<1>1. ReportInit => Init
  BY DEF ReportInit
<1>2. [ReportNext]_reportVars => [Next]_vars
  BY ReportStep DEF reportVars
<1> QED BY <1>1, <1>2, PTL DEF ReportSpec, Spec

\* So what is proved of the level and the buckets holds while reports are made.
THEOREM ReportTyped == ReportSpec => [](TypeOK /\ LevelBalanced /\ ProfileExact)
BY ReportImplements, TypeCorrect, LevelHolds, ProfileHolds, PTL

\* At every moment of a report, for any settings, any number of buckets and
\* any order of them, each level shows its longest functions, the longest
\* first, as many as there are and fit (process_seaslog_performance_log). It
\* needs what the code never asks: that no function hashes to 0, and that the
\* least wall time reported is not 0, for 0 is the mark of an unused result.
THEOREM ReportTopHolds ==
  ASSUME NoMarks
  PROVE  ReportSpec => []ReportIsTop
<1>1. ReportInv => ReportIsTop
  BY RowIsTop, CardinalityIs DEF ReportIsTop, Top!ReportIsTop
<1> QED BY <1>1, ReportInvInit, ReportInvNext, PTL DEF ReportSpec

\* When the report of a request that no bailout has cut is made, it shows of
\* each level the functions of the call tree that took the most time there,
\* with the time the tree gives them: what a frame takes and gives back, the
\* buckets, and the rows of the report lose nothing on the way.
THEOREM ReportProfileHolds ==
  ASSUME NoMarks
  PROVE  ReportSpec => []ReportIsProfile
<1>1. ReportSpec => [](ExactInv /\ NoneLost)
  BY ReportImplements, NoneLostHolds, PTL
<1>2. ReportSpec => [](ReportInv /\ Left)
  BY ReportInvInit, ReportInvNext, LeftInit, LeftNext, PTL DEF ReportSpec
<1>3. ReportInv /\ Left /\ ExactInv /\ NoneLost => ReportIsProfile
  BY ProfileShown
<1> QED BY <1>1, <1>2, <1>3, PTL
================================================================================
