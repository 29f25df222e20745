--------------------------- MODULE LogReentryProofs ---------------------------
(***************************************************************************)
(* Proofs about LogReentry, for every set of settings and keys, every      *)
(* buffer size and every number of log calls.                              *)
(***************************************************************************)
EXTENDS LogReentry, FiniteSetTheorems, SequenceTheorems, TLAPS

USE SettingsAssumption, KeysAssumption, BoundsAssumption

Rows == [key : Keys, ids : Seq(Nat)]

-----------------------------------------------------------------------------
(* Stacks *)

LEMMA Pushed ==
  ASSUME NEW S, NEW x \in S, NEW s \in Seq(S)
  PROVE  /\ <<x>> \o s \in Seq(S) /\ <<x>> \o s # << >>
         /\ Len(<<x>> \o s) = Len(s) + 1
         /\ (<<x>> \o s)[1] = x
         /\ \A i \in 2..(Len(s) + 1) : (<<x>> \o s)[i] = s[i - 1]
<1>1. <<x>> \in Seq(S) /\ Len(<<x>>) = 1 /\ <<x>>[1] = x
  OBVIOUS
<1>2. <<x>> \o s \in Seq(S)
  BY <1>1, ConcatProperties
<1>3. Len(<<x>> \o s) = Len(s) + 1
  BY <1>1, ConcatProperties
<1>4. \A i \in 1..(Len(s) + 1) :
        (<<x>> \o s)[i] = IF i <= 1 THEN <<x>>[i] ELSE s[i - 1]
  BY <1>1, ConcatProperties
<1>5. Len(s) \in Nat
  OBVIOUS
<1>6. <<x>> \o s # << >>
  BY <1>2, <1>3, <1>5, EmptySeq
<1> QED BY <1>1, <1>2, <1>3, <1>4, <1>5, <1>6

LEMMA Popped ==
  ASSUME NEW S, NEW s \in Seq(S), s # << >>
  PROVE  /\ Tail(s) \in Seq(S)
         /\ Len(Tail(s)) = Len(s) - 1 /\ Len(s) >= 1
         /\ Head(s) = s[1] /\ s[1] \in S
         /\ \A i \in 1..(Len(s) - 1) : Tail(s)[i] = s[i + 1]
<1>1. Len(s) \in Nat /\ Len(s) # 0
  BY EmptySeq
<1> QED BY <1>1, HeadTailProperties

\* The innermost call is at another step.
LEMMA Swapped ==
  ASSUME NEW S, NEW x \in S, NEW s \in Seq(S), s # << >>
  PROVE  /\ <<x>> \o Tail(s) \in Seq(S) /\ <<x>> \o Tail(s) # << >>
         /\ Len(<<x>> \o Tail(s)) = Len(s)
         /\ (<<x>> \o Tail(s))[1] = x
         /\ \A i \in 2..Len(s) : (<<x>> \o Tail(s))[i] = s[i]
<1>1. /\ Tail(s) \in Seq(S) /\ Len(Tail(s)) = Len(s) - 1
      /\ Len(s) \in Nat /\ Len(s) >= 1
      /\ \A i \in 1..(Len(s) - 1) : Tail(s)[i] = s[i + 1]
  BY Popped
<1>2. /\ <<x>> \o Tail(s) \in Seq(S) /\ <<x>> \o Tail(s) # << >>
      /\ Len(<<x>> \o Tail(s)) = (Len(s) - 1) + 1
      /\ (<<x>> \o Tail(s))[1] = x
      /\ \A i \in 2..((Len(s) - 1) + 1) : (<<x>> \o Tail(s))[i] = Tail(s)[i - 1]
  BY <1>1, Pushed
<1>3. \A i \in 2..Len(s) : i - 1 \in 1..(Len(s) - 1) /\ (i - 1) + 1 = i
  BY <1>1
<1> QED BY <1>1, <1>2, <1>3

-----------------------------------------------------------------------------
(* Type correctness *)

\* A flush is over the array of now, which has its rows, or over one of before.
FrameOK(f, g, n) ==
  /\ f \in Frames
  /\ f.fn = "flush" => f.pos >= 1 /\ f.gen <= g /\ (f.gen = g => f.last <= n)

StackOK(s, g, n) == s \in Seq(Frames) /\ \A i \in 1..Len(s) : FrameOK(s[i], g, n)

Sound == TypeOK /\ StackOK(stack, gen, Len(rows))

LEMMA PushOK ==
  ASSUME NEW s, NEW f, NEW g \in Nat, NEW n \in Nat, StackOK(s, g, n), FrameOK(f, g, n)
  PROVE  StackOK(<<f>> \o s, g, n)
<1>1. f \in Frames /\ s \in Seq(Frames) /\ Len(s) \in Nat
  BY DEF StackOK, FrameOK
<1>2. /\ <<f>> \o s \in Seq(Frames) /\ Len(<<f>> \o s) = Len(s) + 1 /\ (<<f>> \o s)[1] = f
      /\ \A i \in 2..(Len(s) + 1) : (<<f>> \o s)[i] = s[i - 1]
  BY <1>1, Pushed
<1>3. ASSUME NEW i \in 1..(Len(s) + 1) PROVE FrameOK((<<f>> \o s)[i], g, n)
  <2>1. CASE i = 1
    BY <1>2, <2>1
  <2>2. CASE i # 1
    <3>1. i \in 2..(Len(s) + 1) /\ i - 1 \in 1..Len(s)
      BY <1>1, <2>2
    <3> QED BY <3>1, <1>2 DEF StackOK
  <2> QED BY <2>1, <2>2
<1> QED BY <1>2, <1>3 DEF StackOK

LEMMA PopOK ==
  ASSUME NEW s, NEW g \in Nat, NEW n \in Nat, StackOK(s, g, n), s # << >>
  PROVE  StackOK(Tail(s), g, n) /\ FrameOK(Head(s), g, n)
<1>1. /\ Tail(s) \in Seq(Frames) /\ Len(Tail(s)) = Len(s) - 1 /\ Len(s) >= 1
      /\ Head(s) = s[1] /\ \A i \in 1..(Len(s) - 1) : Tail(s)[i] = s[i + 1]
  BY Popped DEF StackOK
<1>2. Len(s) \in Nat
  BY DEF StackOK
<1>3. FrameOK(s[1], g, n)
  BY <1>1, <1>2 DEF StackOK
<1>4. ASSUME NEW i \in 1..(Len(s) - 1) PROVE FrameOK(Tail(s)[i], g, n)
  <2>1. i + 1 \in 1..Len(s)
    BY <1>2
  <2> QED BY <2>1, <1>1 DEF StackOK
<1> QED BY <1>1, <1>3, <1>4 DEF StackOK

\* The array gets more rows.
LEMMA GrowOK ==
  ASSUME NEW s, NEW g \in Nat, NEW n \in Nat, NEW m \in Nat, n <= m, StackOK(s, g, n)
  PROVE  StackOK(s, g, m)
<1>1. ASSUME NEW i \in 1..Len(s) PROVE FrameOK(s[i], g, m)
  <2>1. FrameOK(s[i], g, n)
    BY DEF StackOK
  <2>2. s[i].fn = "flush" => s[i].last \in Nat
    BY <2>1 DEF FrameOK, Frames
  <2> QED BY <2>1, <2>2 DEF FrameOK
<1> QED BY <1>1 DEF StackOK

\* The array is another one, with no rows.
LEMMA RenewOK ==
  ASSUME NEW s, NEW g \in Nat, NEW n \in Nat, StackOK(s, g, n)
  PROVE  /\ StackOK(s, g + 1, 0)
         /\ (\A i \in DOMAIN s : s[i].fn # "flush") => StackOK(s, 0, 0)
<1>1. DOMAIN s = 1..Len(s)
  BY DEF StackOK
<1>2. ASSUME NEW i \in 1..Len(s) PROVE FrameOK(s[i], g + 1, 0)
  <2>1. FrameOK(s[i], g, n)
    BY DEF StackOK
  <2>2. s[i].fn = "flush" => s[i].gen \in Nat
    BY <2>1 DEF FrameOK, Frames
  <2> QED BY <2>1, <2>2 DEF FrameOK
<1>3. ASSUME NEW i \in 1..Len(s), s[i].fn # "flush" PROVE FrameOK(s[i], 0, 0)
  BY <1>3 DEF StackOK, FrameOK
<1> QED BY <1>1, <1>2, <1>3 DEF StackOK

LEMMA EmptyOK == ASSUME NEW g, NEW n PROVE StackOK(<< >>, g, n)
BY DEF StackOK

LEMMA RowTypes ==
  ASSUME Sound, NEW i \in DOMAIN rows
  PROVE  /\ i \in 1..Len(rows) /\ rows[i] \in Rows
         /\ rows[i].ids \in Seq(Nat) /\ Range(rows[i].ids) \subseteq Nat
<1>1. rows \in Seq(Rows)
  BY DEF Sound, TypeOK, Rows
<1>2. i \in 1..Len(rows) /\ rows[i] \in Rows
  BY <1>1, LenProperties, ElementOfSeq
<1>3. rows[i].ids \in Seq(Nat)
  BY <1>2 DEF Rows
<1>4. Range(rows[i].ids) \subseteq Nat
  BY <1>3 DEF Range
<1> QED BY <1>2, <1>3, <1>4

LEMMA NewRows ==
  ASSUME Sound, NEW k \in Keys
  PROVE  /\ AddRow(k, nextId) \in Seq(Rows)
         /\ Len(rows) <= Len(AddRow(k, nextId)) /\ Len(AddRow(k, nextId)) >= 1
<1>1. rows \in Seq(Rows) /\ nextId \in Nat /\ Len(rows) \in Nat /\ DOMAIN rows = 1..Len(rows)
  BY DEF Sound, TypeOK, Rows
<1>2. CASE \E i \in DOMAIN rows : rows[i].key = k
  <2> DEFINE r(i) == IF rows[i].key = k THEN [rows[i] EXCEPT !.ids = Append(@, nextId)]
                                        ELSE rows[i]
  <2>1. AddRow(k, nextId) = [i \in 1..Len(rows) |-> r(i)]
    BY <1>1, <1>2 DEF AddRow
  <2>2. ASSUME NEW i \in 1..Len(rows) PROVE r(i) \in Rows
    <3>1. rows[i] \in Rows
      BY <1>1
    <3>2. Append(rows[i].ids, nextId) \in Seq(Nat)
      BY <1>1, <3>1, AppendProperties DEF Rows
    <3> QED BY <3>1, <3>2 DEF Rows
  <2> HIDE DEF r
  <2>3. [i \in 1..Len(rows) |-> r(i)] \in Seq(Rows)
    BY <1>1, <2>2, IsASeq
  <2>4. Len([i \in 1..Len(rows) |-> r(i)]) = Len(rows)
    BY <1>1, <2>3, LenProperties
  <2> QED BY <1>1, <1>2, <2>1, <2>3, <2>4
<1>3. CASE ~\E i \in DOMAIN rows : rows[i].key = k
  <2>1. [key |-> k, ids |-> <<nextId>>] \in Rows
    BY <1>1 DEF Rows
  <2>2. AddRow(k, nextId) = Append(rows, [key |-> k, ids |-> <<nextId>>])
    BY <1>3 DEF AddRow
  <2> QED BY <1>1, <2>1, <2>2, AppendProperties
<1> QED BY <1>2, <1>3

\* What a log call leaves, the calls in progress apart, has its types.
Logged ==
  /\ gen \in Nat /\ count \in Nat /\ nextId \in Nat /\ rows \in Seq(Rows)
  /\ hooked \subseteq Nat /\ disturbed \in BOOLEAN

LEMMA SoundLogged == ASSUME Sound PROVE Logged /\ Len(rows) \in Nat
BY DEF Sound, TypeOK, Logged, Rows

\* A log call keeps the stack s it returns to, and everything well formed.
LEMMA LogCallSound ==
  ASSUME Sound, NEW k \in Keys, NEW s, StackOK(s, gen, Len(rows)), LogCall(k, s)
  PROVE  StackOK(stack', gen', Len(rows')) /\ Logged'
<1>1. /\ gen \in Nat /\ count \in Nat /\ nextId \in Nat /\ rows \in Seq(Rows)
      /\ Len(rows) \in Nat /\ hooked \subseteq Nat /\ disturbed \in BOOLEAN
  BY SoundLogged DEF Logged
<1>2. nextId' \in Nat /\ hooked' \subseteq Nat
  BY <1>1 DEF LogCall
<1>3. CASE BufferOn
  <2>1. /\ rows' = AddRow(k, nextId) /\ count' = count + 1
        /\ gen' = IF Moves(k, s) THEN gen + 1 ELSE gen
        /\ stack' = IF Fills THEN <<FlushFrame(gen', Len(rows'), TRUE)>> \o s ELSE s
    BY <1>3 DEF LogCall
  <2>2. rows' \in Seq(Rows) /\ Len(rows) <= Len(rows') /\ Len(rows') \in Nat
    BY <2>1, NewRows
  <2>3. gen' \in Nat /\ StackOK(s, gen', Len(rows'))
    <3>1. CASE Moves(k, s)
      <4>1. gen' = gen + 1 /\ 0 <= Len(rows')
        BY <2>1, <2>2, <3>1
      <4>2. StackOK(s, gen + 1, 0)
        BY <1>1, RenewOK
      <4>3. StackOK(s, gen + 1, Len(rows'))
        BY <1>1, <2>2, <4>1, <4>2, GrowOK
      <4> QED BY <1>1, <4>1, <4>3
    <3>2. CASE ~Moves(k, s)
      <4>1. gen' = gen
        BY <2>1, <3>2
      <4>2. StackOK(s, gen, Len(rows'))
        BY <1>1, <2>2, GrowOK
      <4> QED BY <1>1, <4>1, <4>2
    <3> QED BY <3>1, <3>2
  <2>4. FrameOK(FlushFrame(gen', Len(rows'), TRUE), gen', Len(rows'))
    BY <2>2, <2>3 DEF FlushFrame, FrameOK, Frames
  <2>5. StackOK(<<FlushFrame(gen', Len(rows'), TRUE)>> \o s, gen', Len(rows'))
    BY <2>2, <2>3, <2>4, PushOK
  <2>6. disturbed' \in BOOLEAN
    <3>1. disturbed' = (disturbed \/ Moves(k, s) \/ (Fills /\ Flushing(s)))
      BY <1>3 DEF LogCall
    <3> QED BY <3>1, Zenon
  <2>7. StackOK(stack', gen', Len(rows'))
    <3>1. CASE Fills
      BY <2>1, <2>5, <3>1
    <3>2. CASE ~Fills
      BY <2>1, <2>3, <3>2
    <3> QED BY <3>1, <3>2
  <2>8. count' \in Nat
    BY <1>1, <2>1
  <2> QED BY <1>2, <2>2, <2>3, <2>6, <2>7, <2>8 DEF Logged
<1>4. CASE ~BufferOn
  <2>1. stack' = <<WriteFrame(nextId)>> \o s /\ UNCHANGED <<gen, rows, count, disturbed>>
    BY <1>4 DEF LogCall, table
  <2>2. FrameOK(WriteFrame(nextId), gen, Len(rows))
    BY <1>1 DEF WriteFrame, FrameOK, Frames
  <2>3. StackOK(<<WriteFrame(nextId)>> \o s, gen, Len(rows))
    BY <1>1, <2>2, PushOK
  <2> QED BY <1>1, <1>2, <2>1, <2>3 DEF Logged
<1> QED BY <1>3, <1>4

LEMMA TellSound ==
  ASSUME Sound, NEW s, StackOK(s, gen, Len(rows)), NEW reaches, Tell(reaches, s)
  PROVE  StackOK(stack', gen', Len(rows')) /\ Logged'
<1>1. CASE LogCall(CriticalKey, s)
  BY <1>1, LogCallSound
<1>2. CASE stack' = s /\ UNCHANGED <<table, nextId, marks>>
  BY <1>2, SoundLogged DEF Logged, table, marks
<1> QED BY <1>1, <1>2 DEF Tell

LEMMA ReportOnOK ==
  ASSUME NEW s, NEW g \in Nat, NEW n \in Nat, StackOK(s, g, n)
  PROVE  StackOK(ReportOn(s), g, n)
<1>1. FrameOK(ReportFrame, g, n)
  BY DEF FrameOK, Frames, ReportFrame
<1> QED BY <1>1, PushOK DEF ReportOn

\* A step that is sound in its calls and in what it logs is sound.
LEMMA SoundAgain ==
  ASSUME Sound, StackOK(stack', gen', Len(rows')) /\ Logged', setting' = setting,
         phase' \in {"script", "report", "shutdown"}, errorLoop' \in 0..2,
         pending' \in BOOLEAN, cut' \in BOOLEAN,
         visited' \subseteq Nat, lost' \subseteq Nat, written' \in Seq(Nat)
  PROVE  Sound'
<1>1. stack' \in Seq(Frames)
  BY DEF StackOK
<1> QED BY <1>1 DEF Sound, TypeOK, Logged, Rows

LEMMA NewTableSound ==
  ASSUME Sound, NEW s, StackOK(s, gen, Len(rows)), NewTable(s),
         UNCHANGED <<nextId, marks>>
  PROVE  StackOK(s, gen', Len(rows')) /\ Logged' /\ lost' \subseteq Nat
<1>1. Logged /\ Len(rows) \in Nat /\ lost \subseteq Nat
  BY SoundLogged DEF Sound, TypeOK
<1>2. rows' = << >> /\ count' = 0 /\ Len(rows') = 0
  BY EmptySeq DEF NewTable
<1>3. gen' \in Nat /\ StackOK(s, gen', 0)
  BY <1>1, RenewOK DEF NewTable, Logged, Flushing
<1>4. IdsIn(rows) \subseteq Nat
  BY RowTypes DEF IdsIn
<1>5. lost' = lost \cup (IdsIn(rows) \ visited)
  BY DEF NewTable
<1>6. lost' \subseteq Nat
  BY <1>1, <1>4, <1>5
<1>7. Logged'
  BY <1>1, <1>2, <1>3 DEF Logged, marks
<1> QED BY <1>2, <1>3, <1>6, <1>7

\* What no step but those of a flush and of a report changes.
LEMMA SoundRest ==
  ASSUME Sound
  PROVE  /\ phase \in {"script", "report", "shutdown"} /\ errorLoop \in 0..2
         /\ pending \in BOOLEAN /\ cut \in BOOLEAN
         /\ visited \subseteq Nat /\ lost \subseteq Nat /\ written \in Seq(Nat)
BY DEF Sound, TypeOK

LEMMA StartSound ==
  ASSUME Sound
  PROVE  /\ \A k \in Keys : ScriptLog(k) => Sound'
         /\ ScriptFlush \/ ShutdownStart \/ ShutdownFlush \/ NextRequest => Sound'
<1>1. StackOK(<< >>, gen, Len(rows)) /\ gen \in Nat /\ Len(rows) \in Nat /\ Logged
  BY EmptyOK, SoundLogged DEF Logged
<1>2. ASSUME NEW r \in BOOLEAN
      PROVE  StackOK(<<FlushFrame(gen, Len(rows), r)>>, gen, Len(rows))
  <2>1. FrameOK(FlushFrame(gen, Len(rows), r), gen, Len(rows))
    BY <1>1 DEF FlushFrame, FrameOK, Frames
  <2>2. StackOK(<<FlushFrame(gen, Len(rows), r)>> \o << >>, gen, Len(rows))
    BY <1>1, <2>1, PushOK
  <2> QED BY <2>2
<1>3. ASSUME NEW k \in Keys, ScriptLog(k) PROVE Sound'
  <2>1. StackOK(stack', gen', Len(rows')) /\ Logged'
    BY <1>1, <1>3, LogCallSound DEF ScriptLog
  <2>2. pending' = FALSE /\ UNCHANGED <<setting, phase, errorLoop, visited, written, lost, cut>>
    BY <1>3 DEF ScriptLog, history
  <2> QED BY <2>1, <2>2, SoundRest, SoundAgain
<1>4. CASE ScriptFlush
  <2>1. /\ pending' = FALSE /\ stack' = <<FlushFrame(gen, Len(rows), TRUE)>>
        /\ UNCHANGED <<setting, phase, gen, rows, count, errorLoop, nextId, visited,
                       written, lost, cut, hooked, disturbed>>
    BY <1>4 DEF ScriptFlush, history, table, marks
  <2>2. StackOK(stack', gen', Len(rows')) /\ Logged'
    BY <1>1, <1>2, <2>1 DEF Logged
  <2> QED BY <2>1, <2>2, SoundRest, SoundAgain
<1>5. CASE ShutdownStart
  <2>1. /\ pending' = FALSE /\ phase' = "report"
        /\ UNCHANGED <<setting, errorLoop, visited, written, lost, cut>>
    BY <1>5 DEF ShutdownStart, history
  <2>2. CASE \E k \in Keys : LogCall(k, << >>)
    <3>1. StackOK(stack', gen', Len(rows')) /\ Logged'
      BY <1>1, <2>2, LogCallSound
    <3> QED BY <2>1, <3>1, SoundRest, SoundAgain
  <2>3. CASE UNCHANGED <<stack, table, nextId, marks>>
    <3>1. StackOK(stack', gen', Len(rows')) /\ Logged'
      BY <1>1, <2>3 DEF Sound, Logged, table, marks
    <3> QED BY <2>1, <3>1, SoundRest, SoundAgain
  <2> QED BY <1>5, <2>2, <2>3 DEF ShutdownStart
<1>6. CASE ShutdownFlush
  <2>1. /\ phase' = "shutdown"
        /\ UNCHANGED <<setting, gen, rows, count, errorLoop, pending, nextId, visited,
                       written, lost, cut, hooked, disturbed>>
    BY <1>6 DEF ShutdownFlush, history, table, marks
  <2>2. stack' = << >> \/ stack' = <<FlushFrame(gen, Len(rows), FALSE)>>
    BY <1>6 DEF ShutdownFlush
  <2>3. StackOK(stack', gen', Len(rows')) /\ Logged'
    BY <1>1, <1>2, <2>1, <2>2 DEF Logged
  <2> QED BY <2>1, <2>3, SoundRest, SoundAgain
<1>7. CASE NextRequest
  <2>1. /\ phase' = "script" /\ errorLoop' = 0 /\ pending' = FALSE /\ stack' = stack
        /\ UNCHANGED <<setting, nextId, visited, written, cut, marks>>
    BY <1>7 DEF NextRequest
  <2>2. StackOK(stack', gen', Len(rows')) /\ Logged' /\ lost' \subseteq Nat
    <3>1. CASE BufferOn
      <4>1. NewTable(stack) /\ StackOK(stack, gen, Len(rows))
        BY <1>7, <3>1 DEF NextRequest, Sound
      <4> QED BY <2>1, <4>1, NewTableSound
    <3>2. CASE ~BufferOn
      <4>1. UNCHANGED <<gen, rows, count, lost, nextId, hooked, disturbed>>
        BY <1>7, <3>2 DEF NextRequest, table, marks
      <4> QED BY <1>1, <2>1, <4>1, SoundRest DEF Sound, Logged
    <3> QED BY <3>1, <3>2
  <2>3. StackOK(stack', gen', Len(rows')) /\ Logged'
    BY <2>2
  <2>4. lost' \subseteq Nat
    BY <2>2
  <2>5. Sound /\ setting' = setting
    BY <2>1
  <2>6. errorLoop' \in 0..2 /\ phase' \in {"script", "report", "shutdown"}
    BY <1>7 DEF NextRequest
  <2>8. pending' \in BOOLEAN
    BY <1>7 DEF NextRequest
  <2>7. visited' \subseteq Nat /\ written' \in Seq(Nat) /\ cut' \in BOOLEAN
    BY <2>1, SoundRest
  <2> QED BY <2>3, <2>4, <2>5, <2>6, <2>7, <2>8, SoundAgain
<1> QED BY <1>3, <1>4, <1>5, <1>6, <1>7

\* The calls in progress without the innermost, and with it at another place.
LEMMA TopFacts ==
  ASSUME Sound, stack # << >>
  PROVE  /\ StackOK(Tail(stack), gen, Len(rows)) /\ FrameOK(Top, gen, Len(rows))
         /\ \A f : FrameOK(f, gen, Len(rows)) => StackOK(<<f>> \o Tail(stack), gen, Len(rows))
<1>1. gen \in Nat /\ Len(rows) \in Nat
  BY DEF Sound, TypeOK
<1>2. StackOK(Tail(stack), gen, Len(rows)) /\ FrameOK(Top, gen, Len(rows))
  BY <1>1, PopOK DEF Sound, Top
<1> QED BY <1>1, <1>2, PushOK

\* A write has attempts left; with one less it is again a write.
LEMMA WriteFacts ==
  ASSUME Sound, In("write")
  PROVE  /\ stack # << >> /\ Top.fn = "write" /\ Top \in Frames
         /\ Top.id \in Nat /\ Top.left \in Nat
         /\ Top.left > 1 => /\ [Top EXCEPT !.left = @ - 1] \in Frames
                            /\ [Top EXCEPT !.left = @ - 1].fn = "write"
                            /\ [Top EXCEPT !.left = @ - 1].id = Top.id
<1>1. stack # << >> /\ Top.fn = "write" /\ Top \in Frames
  BY TopFacts DEF In, Quiet, FrameOK
<1>2. Top \in [fn : {"write"}, id : Nat, left : Nat]
  BY <1>1 DEF Frames
<1>3. ASSUME Top.left > 1
      PROVE  [Top EXCEPT !.left = @ - 1] \in [fn : {"write"}, id : Nat, left : Nat]
  <2>1. Top.left - 1 \in Nat
    BY <1>2, <1>3
  <2> QED BY <1>2, <2>1
<1>4. Top.id \in Nat /\ Top.left \in Nat /\ [Top EXCEPT !.left = @ - 1].id = Top.id
  BY <1>2
<1> QED BY <1>1, <1>3, <1>4 DEF Frames

LEMMA WriteSound ==
  ASSUME Sound
  PROVE  WriteOk \/ OpenFail \/ WriteFail => Sound'
<1>1. gen \in Nat /\ Len(rows) \in Nat /\ Logged
  BY SoundLogged DEF Logged
<1>2. CASE WriteOk
  <2>1. StackOK(Tail(stack), gen, Len(rows)) /\ Top.id \in Nat
    BY <1>2, TopFacts, WriteFacts DEF WriteOk
  <2>2. Append(written, Top.id) \in Seq(Nat)
    BY <2>1, AppendProperties, SoundRest
  <2>3. /\ stack' = Tail(stack) /\ written' = Append(written, Top.id)
        /\ UNCHANGED <<setting, phase, gen, rows, count, errorLoop, pending, nextId,
                       visited, lost, cut, hooked, disturbed>>
    BY <1>2 DEF WriteOk, table, marks
  <2>4. StackOK(stack', gen', Len(rows')) /\ Logged'
    BY <1>1, <2>1, <2>3 DEF Logged
  <2> QED BY <2>2, <2>3, <2>4, SoundRest, SoundAgain
<1>3. CASE OpenFail \/ WriteFail
  <2>1. StackOK(Tail(stack), gen, Len(rows))
    BY <1>3, TopFacts DEF OpenFail, WriteFail, In, Quiet
  <2>2. StackOK(ReportOn(Tail(stack)), gen, Len(rows))
    BY <1>1, <2>1, ReportOnOK
  <2>3. CASE OpenFail
    <3>1. UNCHANGED <<setting, phase, errorLoop, pending, visited, written, lost, cut>>
      BY <2>3 DEF OpenFail, history
    <3>2. StackOK(stack', gen', Len(rows')) /\ Logged'
      BY <2>2, <2>3, TellSound DEF OpenFail
    <3> QED BY <3>1, <3>2, SoundRest, SoundAgain
  <2>4. CASE WriteFail
    <3>1. UNCHANGED <<setting, phase, errorLoop, pending, visited, written, lost, cut>>
      BY <2>4 DEF WriteFail, history
    <3>2. CASE Top.left > 1
      <4> DEFINE f == [Top EXCEPT !.left = @ - 1]
      <4>1. f \in Frames /\ f.fn = "write" /\ stack # << >>
        BY <2>4, <3>2, WriteFacts DEF WriteFail
      <4> HIDE DEF f
      <4>2. FrameOK(f, gen, Len(rows))
        BY <4>1 DEF FrameOK
      <4>3. StackOK(<<f>> \o Tail(stack), gen, Len(rows))
        BY <4>1, <4>2, TopFacts
      <4>4. Tell(setting.traceNotice, <<f>> \o Tail(stack))
        BY <2>4, <3>2 DEF WriteFail, f
      <4>5. StackOK(stack', gen', Len(rows')) /\ Logged'
        BY <4>3, <4>4, TellSound
      <4> QED BY <3>1, <4>5, SoundRest, SoundAgain
    <3>3. CASE ~(Top.left > 1)
      <4>1. Tell(setting.traceNotice, ReportOn(Tail(stack)))
        BY <2>4, <3>3 DEF WriteFail
      <4>2. StackOK(stack', gen', Len(rows')) /\ Logged'
        BY <2>2, <4>1, TellSound
      <4> QED BY <3>1, <4>2, SoundRest, SoundAgain
    <3> QED BY <3>2, <3>3
  <2> QED BY <1>3, <2>3, <2>4
<1> QED BY <1>2, <1>3

\* Where a flush is in its loops: at a row that is there, or at a message.
LEMMA FlushFacts ==
  ASSUME Sound, In("flush"), Top.gen = gen
  PROVE  /\ stack # << >> /\ Top.fn = "flush" /\ Top \in Frames
         /\ Top \in [fn : {"flush"}, gen : Nat, pos : Nat, todo : Seq(Nat), last : Nat,
                     reinit : BOOLEAN]
         /\ Top.pos >= 1 /\ Top.last <= Len(rows)
<1>1. stack # << >> /\ Top.fn = "flush" /\ FrameOK(Top, gen, Len(rows))
  BY TopFacts DEF In, Quiet
<1> QED BY <1>1 DEF FrameOK, Frames

\* Where a flush is at a row, it goes on to the row or to the next.
LEMMA RowFacts ==
  ASSUME Sound, AtRow
  PROVE  /\ Top.pos \in 1..Len(rows) /\ rows[Top.pos].ids \in Seq(Nat)
         /\ StackOK(NextRow, gen, Len(rows))
         /\ \A t \in Seq(Nat) :
              StackOK(<<[Top EXCEPT !.pos = @ + 1, !.todo = t]>> \o Tail(stack),
                      gen, Len(rows))
<1>1. /\ stack # << >> /\ Top.fn = "flush" /\ Top.gen = gen
      /\ Top \in [fn : {"flush"}, gen : Nat, pos : Nat, todo : Seq(Nat), last : Nat,
                  reinit : BOOLEAN]
      /\ Top.pos >= 1 /\ Top.pos <= Top.last /\ Top.last <= Len(rows)
  BY FlushFacts DEF AtRow
<1>2. Len(rows) \in Nat /\ rows \in Seq(Rows) /\ gen \in Nat
  BY SoundLogged DEF Logged
<1>3. Top.pos \in 1..Len(rows)
  BY <1>1, <1>2
<1>4. rows[Top.pos].ids \in Seq(Nat)
  BY <1>2, <1>3, LenProperties, RowTypes
<1>5. FrameOK([Top EXCEPT !.pos = @ + 1], gen, Len(rows))
  BY <1>1, <1>2 DEF FrameOK, Frames
<1>6. ASSUME NEW t \in Seq(Nat)
      PROVE  FrameOK([Top EXCEPT !.pos = @ + 1, !.todo = t], gen, Len(rows))
  <2> DEFINE f == [Top EXCEPT !.pos = @ + 1, !.todo = t]
  <2>1. f = [[Top EXCEPT !.pos = Top.pos + 1] EXCEPT !.todo = t] /\ Top.pos + 1 \in Nat
    BY <1>1
  <2>3. /\ f \in [fn : {"flush"}, gen : Nat, pos : Nat, todo : Seq(Nat), last : Nat,
                  reinit : BOOLEAN]
        /\ f.pos = Top.pos + 1 /\ f.gen = Top.gen /\ f.last = Top.last
    BY <1>1, <2>1
  <2> HIDE DEF f
  <2>2. FrameOK(f, gen, Len(rows))
    BY <1>1, <2>3 DEF FrameOK, Frames
  <2> QED BY <2>2 DEF f
<1> QED BY <1>1, <1>3, <1>4, <1>5, <1>6, TopFacts DEF NextRow

LEMMA MessageFacts ==
  ASSUME Sound, InRow
  PROVE  Head(Top.todo) \in Nat /\ StackOK(RowWritten, gen, Len(rows))
<1>1. /\ stack # << >> /\ Top.fn = "flush" /\ Top.gen = gen
      /\ Top \in [fn : {"flush"}, gen : Nat, pos : Nat, todo : Seq(Nat), last : Nat,
                  reinit : BOOLEAN]
      /\ Top.pos >= 1 /\ Top.last <= Len(rows) /\ Top.todo # << >>
  BY FlushFacts DEF InRow
<1>2. Head(Top.todo) \in Nat /\ Tail(Top.todo) \in Seq(Nat)
  BY <1>1, Popped
<1>3. FrameOK([Top EXCEPT !.todo = Tail(@)], gen, Len(rows))
  <2> DEFINE f == [Top EXCEPT !.todo = Tail(@)]
  <2>1. /\ f \in [fn : {"flush"}, gen : Nat, pos : Nat, todo : Seq(Nat), last : Nat,
                  reinit : BOOLEAN]
        /\ f.pos = Top.pos /\ f.gen = Top.gen /\ f.last = Top.last
    BY <1>1, <1>2
  <2> HIDE DEF f
  <2>2. FrameOK(f, gen, Len(rows))
    BY <1>1, <2>1 DEF FrameOK, Frames
  <2> QED BY <2>2 DEF f
<1> QED BY <1>1, <1>2, <1>3, TopFacts DEF RowWritten

LEMMA FlushSound ==
  ASSUME Sound
  PROVE  VisitRow \/ VisitFail \/ RowWriteOk \/ RowWriteFail \/ FlushDone \/ FlushStale
           => Sound'
<1>1. gen \in Nat /\ Len(rows) \in Nat /\ Logged
  BY SoundLogged DEF Logged
<1>2. CASE VisitRow
  <2>1. /\ stack' = <<[Top EXCEPT !.pos = @ + 1, !.todo = rows[Top.pos].ids]>> \o Tail(stack)
        /\ UNCHANGED <<setting, phase, gen, rows, count, errorLoop, pending, nextId,
                       visited, written, lost, cut, hooked, disturbed>>
    BY <1>2 DEF VisitRow, table, history, marks
  <2>2. StackOK(stack', gen, Len(rows))
    BY <1>2, <2>1, RowFacts DEF VisitRow
  <2>3. StackOK(stack', gen', Len(rows')) /\ Logged'
    BY <1>1, <2>1, <2>2 DEF Logged
  <2> QED BY <2>1, <2>3, SoundRest, SoundAgain
<1>3. CASE VisitFail
  <2>1. StackOK(NextRow, gen, Len(rows)) /\ Range(rows[Top.pos].ids) \subseteq Nat
    <3>1. StackOK(NextRow, gen, Len(rows)) /\ rows[Top.pos].ids \in Seq(Nat)
      BY <1>3, RowFacts DEF VisitFail
    <3> QED BY <3>1 DEF Range
  <2>2. StackOK(ReportOn(NextRow), gen, Len(rows))
    BY <1>1, <2>1, ReportOnOK
  <2>3. StackOK(stack', gen', Len(rows')) /\ Logged'
    BY <1>3, <2>2, TellSound DEF VisitFail
  <2>4. /\ visited' = visited \cup Range(rows[Top.pos].ids)
        /\ UNCHANGED <<setting, phase, errorLoop, pending, written, lost, cut>>
    BY <1>3 DEF VisitFail
  <2> QED BY <2>1, <2>3, <2>4, SoundRest, SoundAgain
<1>4. CASE RowWriteOk
  <2>1. Head(Top.todo) \in Nat /\ StackOK(RowWritten, gen, Len(rows))
    BY <1>4, MessageFacts DEF RowWriteOk
  <2>2. /\ written' = Append(written, Head(Top.todo)) /\ stack' = RowWritten
        /\ visited' = visited \cup {Head(Top.todo)}
        /\ UNCHANGED <<setting, phase, gen, rows, count, errorLoop, pending, nextId,
                       lost, cut, hooked, disturbed>>
    BY <1>4 DEF RowWriteOk, table, marks
  <2>3. written' \in Seq(Nat)
    BY <2>1, <2>2, AppendProperties, SoundRest
  <2>4. StackOK(stack', gen', Len(rows')) /\ Logged'
    BY <1>1, <2>1, <2>2 DEF Logged
  <2> QED BY <2>1, <2>2, <2>3, <2>4, SoundRest, SoundAgain
<1>5. CASE RowWriteFail
  <2>1. Head(Top.todo) \in Nat /\ StackOK(RowWritten, gen, Len(rows))
    BY <1>5, MessageFacts DEF RowWriteFail
  <2>2. StackOK(stack', gen', Len(rows')) /\ Logged'
    BY <1>5, <2>1, TellSound DEF RowWriteFail
  <2>3. /\ visited' = visited \cup {Head(Top.todo)}
        /\ UNCHANGED <<setting, phase, errorLoop, pending, written, lost, cut>>
    BY <1>5 DEF RowWriteFail
  <2> QED BY <2>1, <2>2, <2>3, SoundRest, SoundAgain
<1>6. CASE FlushDone
  <2>1. StackOK(Tail(stack), gen, Len(rows))
    BY <1>6, TopFacts DEF FlushDone, In, Quiet
  <2>2. /\ stack' = Tail(stack)
        /\ UNCHANGED <<setting, phase, errorLoop, pending, nextId, visited, written,
                       cut, marks>>
    BY <1>6 DEF FlushDone
  <2>3. StackOK(stack', gen', Len(rows')) /\ Logged' /\ lost' \subseteq Nat
    <3>1. CASE Top.reinit
      <4>1. NewTable(Tail(stack))
        BY <1>6, <3>1 DEF FlushDone
      <4> QED BY <2>1, <2>2, <4>1, NewTableSound
    <3>2. CASE ~Top.reinit
      <4>1. UNCHANGED <<gen, rows, count, lost, hooked, disturbed>>
        BY <1>6, <3>2 DEF FlushDone, table, marks
      <4> QED BY <1>1, <2>1, <2>2, <4>1, SoundRest DEF Logged
    <3> QED BY <3>1, <3>2
  <2>4. StackOK(stack', gen', Len(rows')) /\ Logged'
    BY <2>3
  <2>5. lost' \subseteq Nat
    BY <2>3
  <2>6. UNCHANGED <<setting, phase, errorLoop, pending, visited, written, cut>>
    BY <2>2
  <2> QED BY <2>4, <2>5, <2>6, SoundRest, SoundAgain
<1>7. CASE FlushStale
  <2>1. /\ stack' = << >> /\ phase' = "script" /\ NewTable(<< >>)
        /\ errorLoop' = 0 /\ pending' = FALSE
        /\ UNCHANGED <<setting, nextId, visited, written, cut, marks>>
    BY <1>7 DEF FlushStale
  <2>2. StackOK(<< >>, gen', Len(rows')) /\ Logged' /\ lost' \subseteq Nat
    BY <2>1, EmptyOK, NewTableSound
  <2>3. StackOK(stack', gen', Len(rows')) /\ Logged'
    BY <2>1, <2>2
  <2>4. errorLoop' \in 0..2 /\ phase' \in {"script", "report", "shutdown"}
    BY <1>7 DEF FlushStale
  <2>5. pending' \in BOOLEAN
    BY <1>7 DEF FlushStale
  <2>6. UNCHANGED <<setting, visited, written, cut>> /\ lost' \subseteq Nat
    BY <2>1, <2>2
  <2> QED BY <2>3, <2>4, <2>5, <2>6, SoundRest, SoundAgain
<1> QED BY <1>2, <1>3, <1>4, <1>5, <1>6, <1>7

\* A report goes to its next step.
LEMMA AdvanceFacts ==
  ASSUME Sound, NEW step \in {"warn", "throw", "bailout", "return"}, AtStep(step)
  PROVE  /\ stack # << >> /\ Top.fn = "report" /\ Top.step = step
         /\ StackOK(Tail(stack), gen, Len(rows))
         /\ \A t \in {"throw", "bailout", "return"} :
              StackOK(Advance(t), gen, Len(rows))
<1>1. /\ stack # << >> /\ Top.fn = "report" /\ Top.step = step
      /\ FrameOK(Top, gen, Len(rows))
  BY TopFacts DEF AtStep, In, Quiet
<1>2. Top \in [fn : {"report"}, step : {"warn", "throw", "bailout", "return"}]
  BY <1>1 DEF FrameOK, Frames
<1>3. ASSUME NEW t \in {"throw", "bailout", "return"}
      PROVE  FrameOK([Top EXCEPT !.step = t], gen, Len(rows))
  BY <1>2 DEF FrameOK, Frames
<1> QED BY <1>1, <1>3, TopFacts DEF Advance

LEMMA ReportSound ==
  ASSUME Sound
  PROVE  ReportWarn \/ ReportThrow \/ ReportFatal \/ ReportBailout \/ ReportReturn => Sound'
<1>0. Logged
  BY SoundLogged
<1>1. CASE ReportWarn
  <2>1. StackOK(Advance("throw"), gen, Len(rows))
    BY <1>1, AdvanceFacts DEF ReportWarn
  <2>2. StackOK(stack', gen', Len(rows')) /\ Logged'
    BY <1>1, <2>1, TellSound DEF ReportWarn
  <2>3. UNCHANGED <<setting, phase, errorLoop, pending, visited, written, lost, cut>>
    BY <1>1 DEF ReportWarn, history
  <2> QED BY <2>2, <2>3, SoundRest, SoundAgain
<1>2. CASE ReportThrow
  <2>1. StackOK(Advance("return"), gen, Len(rows))
    BY <1>2, AdvanceFacts DEF ReportThrow
  <2>2. errorLoop' \in 0..2 /\ pending' \in BOOLEAN
    <3>1. errorLoop \in 0..2 /\ pending \in BOOLEAN
      BY SoundRest
    <3>2. CASE Throws
      <4>1. errorLoop' = errorLoop + 1 /\ pending' = TRUE /\ errorLoop <= 1
        BY <1>2, <3>2 DEF ReportThrow, Throws
      <4> QED BY <3>1, <4>1
    <3>3. CASE ~Throws
      BY <1>2, <3>1, <3>3 DEF ReportThrow
    <3> QED BY <3>2, <3>3
  <2>3. StackOK(stack', gen', Len(rows')) /\ Logged'
    <3>1. CASE LogCall(CriticalKey, Advance("return"))
      BY <2>1, <3>1, LogCallSound
    <3>2. CASE stack' = Advance("return") /\ UNCHANGED <<table, nextId, marks>>
      BY <1>0, <2>1, <3>2 DEF Logged, table, marks
    <3> QED BY <1>2, <3>1, <3>2 DEF ReportThrow
  <2>4. UNCHANGED <<setting, phase, visited, written, lost, cut>>
    BY <1>2 DEF ReportThrow, history
  <2> QED BY <2>2, <2>3, <2>4, SoundRest, SoundAgain
<1>3. CASE ReportFatal
  <2>1. StackOK(Advance("bailout"), gen, Len(rows))
    BY <1>3, AdvanceFacts DEF ReportFatal
  <2>2. errorLoop' \in 0..2
    BY <1>3, SoundRest DEF ReportFatal, Fatal, Throws
  <2>3. StackOK(stack', gen', Len(rows')) /\ Logged'
    <3>1. CASE LogCall(CriticalKey, Advance("bailout"))
      BY <2>1, <3>1, LogCallSound
    <3>2. CASE stack' = Advance("bailout") /\ UNCHANGED <<table, nextId, marks>>
      BY <1>0, <2>1, <3>2 DEF Logged, table, marks
    <3> QED BY <1>3, <3>1, <3>2 DEF ReportFatal
  <2>4. cut' = TRUE /\ UNCHANGED <<setting, phase, pending, visited, written, lost>>
    BY <1>3 DEF ReportFatal
  <2> QED BY <2>2, <2>3, <2>4, SoundRest, SoundAgain
<1>4. CASE ReportBailout
  <2>1. /\ stack' = << >> /\ phase' = "shutdown"
        /\ UNCHANGED <<setting, gen, rows, count, errorLoop, pending, nextId, visited,
                       written, lost, cut, hooked, disturbed>>
    BY <1>4 DEF ReportBailout, history, table, marks
  <2>2. StackOK(stack', gen', Len(rows')) /\ Logged'
    BY <1>0, <2>1, EmptyOK DEF Logged
  <2> QED BY <2>1, <2>2, SoundRest, SoundAgain
<1>5. CASE ReportReturn
  <2>1. StackOK(Tail(stack), gen, Len(rows))
    BY <1>5, AdvanceFacts DEF ReportReturn
  <2>2. /\ stack' = Tail(stack)
        /\ UNCHANGED <<setting, phase, gen, rows, count, errorLoop, pending, nextId,
                       visited, written, lost, cut, hooked, disturbed>>
    BY <1>5 DEF ReportReturn, history, table, marks
  <2>3. StackOK(stack', gen', Len(rows')) /\ Logged'
    BY <1>0, <2>1, <2>2 DEF Logged
  <2> QED BY <2>2, <2>3, SoundRest, SoundAgain
<1> QED BY <1>1, <1>2, <1>3, <1>4, <1>5

LEMMA InitSound == Init => Sound
<1> SUFFICES ASSUME Init PROVE Sound
  OBVIOUS
<1>1. StackOK(stack, gen, Len(rows))
  BY EmptyOK DEF Init
<1>2. /\ stack \in Seq(Frames) /\ rows \in Seq([key : Keys, ids : Seq(Nat)])
      /\ written \in Seq(Nat)
  BY DEF Init
<1>3. errorLoop \in 0..2
  BY DEF Init
<1>4. pending \in BOOLEAN /\ cut \in BOOLEAN /\ disturbed \in BOOLEAN
  BY DEF Init
<1>5. /\ setting \in Settings /\ phase \in {"script", "report", "shutdown"}
      /\ gen \in Nat /\ count \in Nat /\ nextId \in Nat
      /\ visited \subseteq Nat /\ lost \subseteq Nat /\ hooked \subseteq Nat
  BY DEF Init
<1> QED BY <1>1, <1>2, <1>3, <1>4, <1>5 DEF Sound, TypeOK

LEMMA NextSound == Sound /\ [Next]_vars => Sound'
<1> SUFFICES ASSUME Sound, [Next]_vars PROVE Sound'
  OBVIOUS
<1>1. CASE UNCHANGED vars
  BY <1>1 DEF vars, Sound, TypeOK, StackOK
<1>2. CASE Next
  BY <1>2, StartSound, WriteSound, FlushSound, ReportSound DEF Next, InCall
<1> QED BY <1>1, <1>2

LEMMA SoundHolds == Spec => []Sound
BY InitSound, NextSound, PTL DEF Spec

\* A flush is always over an array with as many rows as it takes, or over one
\* that is gone; every other variable keeps its type.
THEOREM TypeCorrect == Spec => []TypeOK
<1>1. Sound => TypeOK
  BY DEF Sound
<1> QED BY <1>1, SoundHolds, PTL

-----------------------------------------------------------------------------
(* The depth of reports *)

\* The reports that a call is in progress in, counted from the outermost.
Under(s) == {j \in 1..(Len(s) - 1) : s[Len(s) + 1 - j].fn = "report"}

LEMMA UnderFinite ==
  ASSUME NEW s \in Seq(Frames)
  PROVE  IsFiniteSet(Under(s)) /\ Cardinality(Under(s)) \in Nat
<1>1. Len(s) \in Nat
  OBVIOUS
<1>2. IsFiniteSet(1..(Len(s) - 1))
  BY <1>1, FS_Interval
<1>3. Under(s) \in SUBSET (1..(Len(s) - 1))
  BY DEF Under
<1>4. IsFiniteSet(Under(s))
  BY <1>2, <1>3, FS_Subset
<1> QED BY <1>4, FS_CardinalityType

LEMMA UnderShort ==
  ASSUME NEW s, Len(s) <= 1, Len(s) \in Nat
  PROVE  Under(s) = {}
BY DEF Under

LEMMA UnderPushed ==
  ASSUME NEW f \in Frames, NEW s \in Seq(Frames)
  PROVE  Under(<<f>> \o s) \subseteq
           Under(s) \cup (IF s # << >> /\ s[1].fn = "report" THEN {Len(s)} ELSE {})
<1>1. /\ Len(<<f>> \o s) = Len(s) + 1 /\ Len(s) \in Nat
      /\ \A i \in 2..(Len(s) + 1) : (<<f>> \o s)[i] = s[i - 1]
  BY Pushed
<1> SUFFICES ASSUME NEW j \in Under(<<f>> \o s)
             PROVE  j \in Under(s) \/ (s # << >> /\ s[1].fn = "report" /\ j = Len(s))
  OBVIOUS
<1>2. j \in 1..Len(s) /\ (<<f>> \o s)[Len(s) + 1 + 1 - j].fn = "report"
  BY <1>1 DEF Under
<1>3. Len(s) + 1 + 1 - j \in 2..(Len(s) + 1) /\ (Len(s) + 1 + 1 - j) - 1 = Len(s) + 1 - j
  BY <1>1, <1>2
<1>4. s[Len(s) + 1 - j].fn = "report"
  BY <1>1, <1>2, <1>3
<1>5. CASE j = Len(s)
  <2>1. Len(s) + 1 - j = 1 /\ Len(s) # 0
    BY <1>1, <1>2, <1>5
  <2>2. s # << >>
    BY <2>1, EmptySeq
  <2> QED BY <1>4, <1>5, <2>1, <2>2
<1>6. CASE j # Len(s)
  BY <1>1, <1>2, <1>4, <1>6 DEF Under
<1> QED BY <1>5, <1>6

LEMMA UnderSwapped ==
  ASSUME NEW f \in Frames, NEW s \in Seq(Frames), s # << >>
  PROVE  Under(<<f>> \o Tail(s)) = Under(s)
<1> DEFINE t == <<f>> \o Tail(s)
<1>1. /\ Len(t) = Len(s) /\ \A i \in 2..Len(s) : t[i] = s[i]
  BY Swapped
<1> HIDE DEF t
<1>2. \A j \in 1..(Len(s) - 1) : Len(s) + 1 - j \in 2..Len(s)
  OBVIOUS
<1>3. Under(t) = Under(s)
  BY <1>1, <1>2 DEF Under
<1> QED BY <1>3 DEF t

LEMMA UnderPopped ==
  ASSUME NEW s \in Seq(Frames), s # << >>
  PROVE  Under(Tail(s)) \subseteq Under(s)
<1>1. /\ Len(Tail(s)) = Len(s) - 1 /\ Len(s) \in Nat /\ Len(s) >= 1
      /\ \A i \in 1..(Len(s) - 1) : Tail(s)[i] = s[i + 1]
  BY Popped
<1> SUFFICES ASSUME NEW j \in Under(Tail(s)) PROVE j \in Under(s)
  OBVIOUS
<1>2. j \in 1..(Len(s) - 2) /\ Tail(s)[Len(s) - j].fn = "report"
  BY <1>1 DEF Under
<1>3. Len(s) - j \in 1..(Len(s) - 1) /\ (Len(s) - j) + 1 = Len(s) + 1 - j
  BY <1>1, <1>2
<1>4. s[Len(s) + 1 - j].fn = "report"
  BY <1>1, <1>2, <1>3
<1> QED BY <1>1, <1>2, <1>4 DEF Under

\* No warning and no notice of a failure comes back to SeasLog.
Silent == ~WarningsReach /\ ~NoticesReach

\* Each report that another call is in progress in has let an exception out.
Deep == Silent => Cardinality(Under(stack)) <= errorLoop

\* The settings stay as they are.
LEMMA SettingKept == ASSUME Next PROVE setting' = setting
<1>1. CASE \E k \in Keys : ScriptLog(k)
  BY <1>1 DEF ScriptLog
<1>2. CASE ScriptFlush \/ ShutdownStart \/ ShutdownFlush \/ NextRequest
  BY <1>2 DEF ScriptFlush, ShutdownStart, ShutdownFlush, NextRequest
<1>3. CASE InCall
  BY <1>3 DEF InCall, WriteOk, OpenFail, WriteFail, VisitRow, VisitFail, RowWriteOk,
              RowWriteFail, FlushDone, FlushStale, ReportWarn, ReportThrow, ReportFatal,
              ReportBailout, ReportReturn
<1> QED BY <1>1, <1>2, <1>3 DEF Next

LEMMA SilentKept == ASSUME setting' = setting PROVE Silent' <=> Silent
BY DEF Silent, WarningsReach, NoticesReach

\* Nothing is logged then of what PHP or SeasLog tells.
LEMMA SilentTell ==
  ASSUME Silent, NEW s,
         \/ Tell(setting.openWarns /\ setting.traceWarning, s)
         \/ Tell(setting.traceNotice, s)
         \/ Tell(~setting.ignoreWarning /\ setting.traceWarning, s)
  PROVE  stack' = s
BY DEF Tell, Silent, WarningsReach, NoticesReach

LEMMA DeepKept ==
  ASSUME Sound, Sound', Deep, setting' = setting,
         Under(stack') \subseteq Under(stack), errorLoop' = errorLoop
  PROVE  Deep'
<1>1. stack \in Seq(Frames) /\ stack' \in Seq(Frames) /\ errorLoop \in Nat
  BY DEF Sound, TypeOK
<1>2. IsFiniteSet(Under(stack)) /\ Cardinality(Under(stack)) \in Nat
      /\ Cardinality(Under(stack')) \in Nat
  BY <1>1, UnderFinite
<1>3. Cardinality(Under(stack')) <= Cardinality(Under(stack))
  BY <1>2, FS_Subset
<1> QED BY <1>1, <1>2, <1>3, SilentKept DEF Deep

LEMMA DeepThrown ==
  ASSUME Sound, Sound', Deep, setting' = setting, NEW x,
         Under(stack') \subseteq Under(stack) \cup {x}, errorLoop' = errorLoop + 1
  PROVE  Deep'
<1>1. stack \in Seq(Frames) /\ stack' \in Seq(Frames) /\ errorLoop \in Nat
  BY DEF Sound, TypeOK
<1>2. IsFiniteSet(Under(stack)) /\ Cardinality(Under(stack)) \in Nat
      /\ Cardinality(Under(stack')) \in Nat
  BY <1>1, UnderFinite
<1>3. /\ IsFiniteSet(Under(stack) \cup {x})
      /\ Cardinality(Under(stack) \cup {x}) \in
           {Cardinality(Under(stack)), Cardinality(Under(stack)) + 1}
  BY <1>2, FS_AddElement
<1>4. Cardinality(Under(stack')) <= Cardinality(Under(stack) \cup {x})
  BY <1>3, FS_Subset
<1> QED BY <1>1, <1>2, <1>3, <1>4, SilentKept DEF Deep

LEMMA DeepShort ==
  ASSUME Sound', Len(stack') <= 1
  PROVE  Deep'
<1>1. Len(stack') \in Nat /\ errorLoop' \in Nat
  BY DEF Sound, TypeOK
<1>2. Under(stack') = {} /\ Cardinality({}) = 0
  BY <1>1, UnderShort, FS_EmptySet
<1> QED BY <1>1, <1>2 DEF Deep

\* What a log call adds to the calls in progress.
LEMMA LogCallStack ==
  ASSUME Sound, NEW k \in Keys, NEW s \in Seq(Frames), LogCall(k, s)
  PROVE  \E f \in Frames : stack' = s \/ stack' = <<f>> \o s
<1>1. gen \in Nat /\ nextId \in Nat
  BY DEF Sound, TypeOK
<1>2. CASE BufferOn
  <2>1. /\ rows' = AddRow(k, nextId) /\ gen' \in {gen, gen + 1}
        /\ stack' \in {s, <<FlushFrame(gen', Len(rows'), TRUE)>> \o s}
    BY <1>2 DEF LogCall
  <2>2. rows' \in Seq(Rows)
    BY <2>1, NewRows
  <2>3. FlushFrame(gen', Len(rows'), TRUE) \in Frames
    BY <1>1, <2>1, <2>2 DEF FlushFrame, Frames
  <2>4. WITNESS FlushFrame(gen', Len(rows'), TRUE) \in Frames
  <2> QED BY <2>1
<1>3. CASE ~BufferOn
  <2>1. stack' = <<WriteFrame(nextId)>> \o s
    BY <1>3 DEF LogCall
  <2>2. WriteFrame(nextId) \in Frames
    BY <1>1 DEF WriteFrame, Frames
  <2> QED BY <2>1, <2>2
<1> QED BY <1>2, <1>3

LEMMA LogCallUnder ==
  ASSUME Sound, NEW k \in Keys, NEW s \in Seq(Frames), LogCall(k, s)
  PROVE  /\ s = << >> => Len(stack') <= 1
         /\ Under(stack') \subseteq Under(s) \cup {Len(s)}
<1>1. PICK f \in Frames : stack' = s \/ stack' = <<f>> \o s
  BY LogCallStack
<1>2. Under(<<f>> \o s) \subseteq Under(s) \cup {Len(s)} /\ Len(<<f>> \o s) = Len(s) + 1
  BY UnderPushed, Pushed
<1>3. s = << >> => Len(s) = 0
  OBVIOUS
<1>4. CASE stack' = s
  BY <1>3, <1>4
<1>5. CASE stack' = <<f>> \o s
  <2>1. Len(stack') = Len(s) + 1 /\ Under(stack') \subseteq Under(s) \cup {Len(s)}
    BY <1>2, <1>5
  <2> QED BY <1>3, <2>1
<1> QED BY <1>1, <1>4, <1>5

LEMMA AdvanceUnder ==
  ASSUME Sound, NEW step \in {"warn", "throw", "bailout", "return"}, AtStep(step),
         NEW t \in {"throw", "bailout", "return"}
  PROVE  Advance(t) \in Seq(Frames) /\ Under(Advance(t)) = Under(stack)
<1>1. stack # << >> /\ Top.fn = "report" /\ Top \in Frames /\ stack \in Seq(Frames)
  BY AdvanceFacts, TopFacts DEF Sound, TypeOK, FrameOK
<1>2. [Top EXCEPT !.step = t] \in Frames
  BY <1>1 DEF Frames
<1> QED BY <1>1, <1>2, UnderSwapped, Swapped DEF Advance

\* Where a flush that goes on leaves the calls in progress.
LEMMA FlushMoves ==
  ASSUME Sound, VisitRow \/ VisitFail \/ RowWriteOk \/ RowWriteFail
  PROVE  \E f \in Frames :
           /\ stack # << >> /\ f.fn = "flush"
           /\ \/ stack' = <<f>> \o Tail(stack)
              \/ Tell(setting.openWarns /\ setting.traceWarning,
                      ReportOn(<<f>> \o Tail(stack)))
              \/ Tell(setting.traceNotice, <<f>> \o Tail(stack))
<1>1. /\ stack # << >> /\ Top.fn = "flush" /\ gen \in Nat
      /\ Top \in [fn : {"flush"}, gen : Nat, pos : Nat, todo : Seq(Nat), last : Nat,
                  reinit : BOOLEAN]
  BY FlushFacts, SoundLogged DEF VisitRow, VisitFail, RowWriteOk, RowWriteFail, AtRow, InRow, Logged
<1>2. CASE VisitRow
  <2> DEFINE f == [Top EXCEPT !.pos = @ + 1, !.todo = rows[Top.pos].ids]
  <2>1. rows[Top.pos].ids \in Seq(Nat) /\ stack' = <<f>> \o Tail(stack)
    BY <1>2, RowFacts DEF VisitRow
  <2>2. f \in Frames /\ f.fn = "flush"
    <3> DEFINE t == rows[Top.pos].ids
               g == [Top EXCEPT !.pos = Top.pos + 1]
    <3>1. f = [g EXCEPT !.todo = t] /\ t \in Seq(Nat)
      BY <1>1, <2>1
    <3>2. g \in [fn : {"flush"}, gen : Nat, pos : Nat, todo : Seq(Nat), last : Nat,
                 reinit : BOOLEAN]
      BY <1>1
    <3> HIDE DEF t, f, g
    <3>3. /\ f \in [fn : {"flush"}, gen : Nat, pos : Nat, todo : Seq(Nat), last : Nat,
                    reinit : BOOLEAN]
          /\ f.fn = "flush"
      BY <3>1, <3>2
    <3> QED BY <3>3 DEF Frames
  <2> HIDE DEF f
  <2> QED BY <1>1, <2>1, <2>2
<1>3. CASE VisitFail
  <2> DEFINE f == [Top EXCEPT !.pos = @ + 1]
  <2>1. Tell(setting.openWarns /\ setting.traceWarning, ReportOn(<<f>> \o Tail(stack)))
    BY <1>3 DEF VisitFail, NextRow
  <2>2. f \in Frames /\ f.fn = "flush"
    BY <1>1 DEF Frames
  <2> HIDE DEF f
  <2> QED BY <1>1, <2>1, <2>2
<1>4. CASE RowWriteOk \/ RowWriteFail
  <2> DEFINE f == [Top EXCEPT !.todo = Tail(@)]
  <2>1. stack' = <<f>> \o Tail(stack) \/ Tell(setting.traceNotice, <<f>> \o Tail(stack))
    BY <1>4 DEF RowWriteOk, RowWriteFail, RowWritten
  <2>2. Tail(Top.todo) \in Seq(Nat)
    BY <1>1, <1>4, Popped DEF RowWriteOk, RowWriteFail, InRow
  <2>3. f \in Frames /\ f.fn = "flush"
    BY <1>1, <2>2 DEF Frames
  <2> HIDE DEF f
  <2> QED BY <1>1, <2>1, <2>3
<1> QED BY <1>2, <1>3, <1>4

LEMMA NextDeep ==
  ASSUME Sound, Sound', Deep, Next
  PROVE  Deep'
<1>1. stack \in Seq(Frames)
  BY DEF Sound, TypeOK
<1>2. CASE \E k \in Keys : ScriptLog(k)
  <2>1. PICK k \in Keys : LogCall(k, << >>)
    BY <1>2 DEF ScriptLog
  <2>2. << >> \in Seq(Frames)
    OBVIOUS
  <2> QED BY <2>1, <2>2, LogCallUnder, DeepShort
<1>3. CASE ScriptFlush \/ ShutdownFlush \/ NextRequest \/ ReportBailout \/ FlushStale
  <2>1. stack' = << >> \/ \E f : stack' = <<f>>
    BY <1>3, Zenon DEF ScriptFlush, ShutdownFlush, NextRequest, ReportBailout, FlushStale, Quiet
  <2>2. Len(stack') <= 1
    <3>1. CASE stack' = << >>
      BY <3>1
    <3>2. ASSUME NEW f, stack' = <<f>> PROVE Len(stack') <= 1
      BY <3>2
    <3> QED BY <2>1, <3>1, <3>2
  <2> QED BY <2>2, DeepShort
<1>4. CASE ShutdownStart
  <2>1. CASE \E k \in Keys : LogCall(k, << >>)
    <3>1. << >> \in Seq(Frames)
      OBVIOUS
    <3> QED BY <2>1, <3>1, LogCallUnder, DeepShort
  <2>2. CASE stack' = << >>
    BY <2>2, DeepShort
  <2> QED BY <1>4, <2>1, <2>2 DEF ShutdownStart, Quiet
<1>5. CASE WriteOk \/ FlushDone \/ ReportReturn
  <2>1. /\ stack # << >> /\ stack' = Tail(stack)
        /\ setting' = setting /\ errorLoop' = errorLoop
    BY <1>5 DEF WriteOk, FlushDone, ReportReturn, AtStep, In, Quiet
  <2> QED BY <1>1, <2>1, UnderPopped, DeepKept
<1>6. CASE OpenFail \/ WriteFail
  <2>1. /\ In("write") /\ stack # << >>
        /\ setting' = setting /\ errorLoop' = errorLoop
    BY <1>6 DEF OpenFail, WriteFail, In, Quiet
  <2>2. CASE ~Silent
    BY <2>1, <2>2, SilentKept DEF Deep
  <2>3. CASE Silent
    <3> DEFINE f == [Top EXCEPT !.left = @ - 1]
    <3>1. /\ ReportFrame \in Frames
          /\ Top.left > 1 => f \in Frames
      BY <2>1, WriteFacts DEF ReportFrame, Frames
    <3>2. CASE OpenFail
      <4>1. stack' = ReportOn(Tail(stack))
        BY <2>3, <3>2, SilentTell DEF OpenFail
      <4>2. stack' \in {Tail(stack), <<ReportFrame>> \o Tail(stack)}
        BY <4>1 DEF ReportOn
      <4>3. Under(Tail(stack)) \subseteq Under(stack)
            /\ Under(<<ReportFrame>> \o Tail(stack)) = Under(stack)
        BY <1>1, <2>1, <3>1, UnderPopped, UnderSwapped
      <4> QED BY <2>1, <4>2, <4>3, DeepKept
    <3>3. CASE WriteFail
      <4>1. stack' = IF Top.left > 1 THEN <<f>> \o Tail(stack) ELSE ReportOn(Tail(stack))
        BY <2>3, <3>3, SilentTell DEF WriteFail
      <4>2. CASE Top.left > 1
        <5>1. stack' = <<f>> \o Tail(stack) /\ f \in Frames
          BY <3>1, <4>1, <4>2
        <5> HIDE DEF f
        <5>2. Under(stack') = Under(stack)
          BY <1>1, <2>1, <5>1, UnderSwapped
        <5> QED BY <2>1, <5>2, DeepKept
      <4>3. CASE ~(Top.left > 1)
        <5>1. stack' \in {Tail(stack), <<ReportFrame>> \o Tail(stack)}
          BY <4>1, <4>3 DEF ReportOn
        <5>2. Under(Tail(stack)) \subseteq Under(stack)
              /\ Under(<<ReportFrame>> \o Tail(stack)) = Under(stack)
          BY <1>1, <2>1, <3>1, UnderPopped, UnderSwapped
        <5> QED BY <2>1, <5>1, <5>2, DeepKept
      <4> QED BY <4>2, <4>3
    <3> QED BY <1>6, <3>2, <3>3
  <2> QED BY <2>2, <2>3
<1>7. CASE VisitRow \/ VisitFail \/ RowWriteOk \/ RowWriteFail
  <2>1. /\ AtRow \/ InRow
        /\ setting' = setting /\ errorLoop' = errorLoop
    BY <1>7 DEF VisitRow, VisitFail, RowWriteOk, RowWriteFail
  <2>2. CASE ~Silent
    BY <2>1, <2>2, SilentKept DEF Deep
  <2>3. CASE Silent
    <3>1. PICK f \in Frames :
            /\ stack # << >> /\ f.fn = "flush"
            /\ \/ stack' = <<f>> \o Tail(stack)
               \/ Tell(setting.openWarns /\ setting.traceWarning,
                       ReportOn(<<f>> \o Tail(stack)))
               \/ Tell(setting.traceNotice, <<f>> \o Tail(stack))
      BY <1>7, FlushMoves
    <3> DEFINE t == <<f>> \o Tail(stack)
    <3>2. t \in Seq(Frames) /\ t # << >> /\ t[1] = f /\ Under(t) = Under(stack)
      BY <1>1, <3>1, Swapped, UnderSwapped
    <3>3. stack' = t \/ stack' = ReportOn(t)
      BY <2>3, <3>1, SilentTell
    <3> HIDE DEF t
    <3>4. ReportFrame \in Frames /\ t[1].fn = "flush"
      BY <3>1, <3>2 DEF ReportFrame, Frames
    <3>5. Under(<<ReportFrame>> \o t) \subseteq Under(t)
      BY <3>2, <3>4, UnderPushed
    <3>6. Under(stack') \subseteq Under(stack)
      BY <3>2, <3>3, <3>5 DEF ReportOn
    <3> QED BY <2>1, <3>6, DeepKept
  <2> QED BY <2>2, <2>3
<1>8. CASE ReportWarn
  <2>1. setting' = setting /\ errorLoop' = errorLoop
    BY <1>8 DEF ReportWarn
  <2>2. CASE ~Silent
    BY <2>1, <2>2, SilentKept DEF Deep
  <2>3. CASE Silent
    <3>1. stack' = Advance("throw")
      BY <1>8, <2>3, SilentTell DEF ReportWarn
    <3>2. Under(stack') = Under(stack)
      BY <1>8, <3>1, AdvanceUnder DEF ReportWarn
    <3> QED BY <2>1, <3>2, DeepKept
  <2> QED BY <2>2, <2>3
<1>9. CASE ReportThrow
  <2>1. setting' = setting /\ AtStep("throw")
    BY <1>9 DEF ReportThrow
  <2>2. Advance("return") \in Seq(Frames) /\ Under(Advance("return")) = Under(stack)
    BY <2>1, AdvanceUnder
  <2>3. CASE Throws
    <3>1. /\ errorLoop' = errorLoop + 1
          /\ LogCall(CriticalKey, Advance("return")) \/ stack' = Advance("return")
      BY <1>9, <2>3 DEF ReportThrow
    <3>2. Under(stack') \subseteq Under(stack) \cup {Len(Advance("return"))}
      BY <2>2, <3>1, LogCallUnder
    <3> QED BY <2>1, <3>1, <3>2, DeepThrown
  <2>4. CASE ~Throws
    <3>1. errorLoop' = errorLoop /\ stack' = Advance("return")
      BY <1>9, <2>4 DEF ReportThrow
    <3> QED BY <2>1, <2>2, <3>1, DeepKept
  <2> QED BY <2>3, <2>4
<1>10. CASE ReportFatal
  <2>1. setting' = setting /\ AtStep("throw") /\ errorLoop' = errorLoop + 1
    BY <1>10 DEF ReportFatal
  <2>2. Advance("bailout") \in Seq(Frames) /\ Under(Advance("bailout")) = Under(stack)
    BY <2>1, AdvanceUnder
  <2>3. LogCall(CriticalKey, Advance("bailout")) \/ stack' = Advance("bailout")
    BY <1>10 DEF ReportFatal
  <2>4. Under(stack') \subseteq Under(stack) \cup {Len(Advance("bailout"))}
    BY <2>2, <2>3, LogCallUnder
  <2> QED BY <2>1, <2>4, DeepThrown
<1> QED BY <1>2, <1>3, <1>4, <1>5, <1>6, <1>7, <1>8, <1>9, <1>10 DEF Next, InCall

\* All reports but the innermost call are under another call.
LEMMA NestedUnder ==
  ASSUME Sound
  PROVE  Nested <= Cardinality(Under(stack)) + 1
<1> DEFINE n == Len(stack)
           reports == {i \in 1..n : stack[i].fn = "report"}
           f == [j \in Under(stack) |-> n + 1 - j]
           image == {n + 1 - j : j \in Under(stack)}
<1>1. stack \in Seq(Frames) /\ n \in Nat /\ DOMAIN stack = 1..n
  BY DEF Sound, TypeOK
<1>2. f \in Surjection(Under(stack), image)
  BY DEF Surjection
<1>3. IsFiniteSet(Under(stack)) /\ Cardinality(Under(stack)) \in Nat
  BY <1>1, UnderFinite
<1>4. IsFiniteSet(image) /\ Cardinality(image) <= Cardinality(Under(stack))
  BY <1>2, <1>3, FS_Surjection
<1>5. Cardinality(image) \in Nat
  BY <1>4, FS_CardinalityType
<1>6. /\ IsFiniteSet(image \cup {1})
      /\ Cardinality(image \cup {1}) \in {Cardinality(image), Cardinality(image) + 1}
  BY <1>4, FS_AddElement
<1>7. reports \subseteq image \cup {1}
  <2> SUFFICES ASSUME NEW i \in reports, i # 1 PROVE i \in image
    OBVIOUS
  <2>1. n + 1 - i \in 1..(n - 1) /\ n + 1 - (n + 1 - i) = i
    BY <1>1
  <2>2. n + 1 - i \in Under(stack)
    BY <1>1, <2>1 DEF Under
  <2> QED BY <2>1, <2>2
<1>8. IsFiniteSet(reports) /\ Cardinality(reports) <= Cardinality(image \cup {1})
  BY <1>6, <1>7, FS_Subset
<1>9. Cardinality(reports) \in Nat
  BY <1>8, FS_CardinalityType
<1>10. Nested = Cardinality(reports)
  BY <1>1 DEF Nested
<1> HIDE DEF image, reports
<1> QED BY <1>3, <1>4, <1>5, <1>6, <1>8, <1>9, <1>10

-----------------------------------------------------------------------------
(* With a buffer, only flushes fail *)

\* A report is a flush's, and nothing is written at once.
Paired(s) ==
  \A i \in 1..Len(s) :
    /\ s[i].fn # "write"
    /\ s[i].fn = "report" => i < Len(s) /\ s[i + 1].fn = "flush"

LEMMA PairedPushed ==
  ASSUME NEW f \in Frames, NEW s \in Seq(Frames), Paired(s),
         f.fn = "flush" \/ (f.fn = "report" /\ s # << >> /\ s[1].fn = "flush")
  PROVE  Paired(<<f>> \o s)
<1> DEFINE t == <<f>> \o s
<1>1. /\ Len(t) = Len(s) + 1 /\ Len(s) \in Nat /\ t[1] = f
      /\ \A i \in 2..(Len(s) + 1) : t[i] = s[i - 1]
  BY Pushed
<1>2. s # << >> => Len(s) >= 1
  BY EmptySeq
<1> HIDE DEF t
<1> SUFFICES ASSUME NEW i \in 1..Len(t)
             PROVE  /\ t[i].fn # "write"
                    /\ t[i].fn = "report" => i < Len(t) /\ t[i + 1].fn = "flush"
  BY DEF Paired, t
<1>3. CASE i = 1
  <2>1. s # << >> => t[2] = s[1]
    BY <1>1, <1>2
  <2> QED BY <1>1, <1>2, <1>3, <2>1
<1>4. CASE i # 1
  <2>1. i - 1 \in 1..Len(s) /\ t[i] = s[i - 1] /\ i - 1 + 1 = i
    BY <1>1, <1>4
  <2>2. i - 1 < Len(s) => t[i + 1] = s[i]
    BY <1>1, <2>1
  <2> QED BY <1>1, <2>1, <2>2 DEF Paired
<1> QED BY <1>3, <1>4

LEMMA PairedPopped ==
  ASSUME NEW s \in Seq(Frames), s # << >>, Paired(s)
  PROVE  Paired(Tail(s)) /\ s[1].fn # "write"
         /\ (s[1].fn = "report" => Tail(s) # << >> /\ Tail(s)[1].fn = "flush")
<1> DEFINE t == Tail(s)
<1>1. /\ Len(t) = Len(s) - 1 /\ Len(s) \in Nat /\ Len(s) >= 1 /\ t \in Seq(Frames)
      /\ \A i \in 1..(Len(s) - 1) : t[i] = s[i + 1]
  BY Popped
<1>2. t # << >> <=> Len(t) # 0
  BY <1>1, EmptySeq
<1> HIDE DEF t
<1>3. ASSUME NEW i \in 1..Len(t)
      PROVE  /\ t[i].fn # "write"
             /\ t[i].fn = "report" => i < Len(t) /\ t[i + 1].fn = "flush"
  <2>1. i + 1 \in 1..Len(s) /\ t[i] = s[i + 1]
    BY <1>1
  <2>2. i + 1 < Len(s) => t[i + 1] = s[i + 1 + 1]
    BY <1>1, <2>1
  <2> QED BY <1>1, <2>1, <2>2 DEF Paired
<1>4. 1 \in 1..Len(s) /\ (1 < Len(s) => t[1] = s[2])
  BY <1>1
<1>5. Paired(t)
  BY <1>3 DEF Paired
<1> QED BY <1>1, <1>2, <1>4, <1>5 DEF Paired, t

LEMMA PairedSwapped ==
  ASSUME NEW f \in Frames, NEW s \in Seq(Frames), s # << >>, Paired(s), f.fn = s[1].fn
  PROVE  Paired(<<f>> \o Tail(s))
<1>1. Tail(s) \in Seq(Frames) /\ Paired(Tail(s)) /\ s[1].fn # "write"
      /\ (s[1].fn = "report" => Tail(s) # << >> /\ Tail(s)[1].fn = "flush")
  BY PairedPopped, Popped
<1>2. f.fn = "write" \/ f.fn = "flush" \/ f.fn = "report"
  BY DEF Frames
<1> QED BY <1>1, <1>2, PairedPushed

LEMMA PairedLogged ==
  ASSUME Sound, BufferOn, NEW k \in Keys, NEW s \in Seq(Frames), Paired(s), LogCall(k, s)
  PROVE  Paired(stack')
<1>1. rows' = AddRow(k, nextId) /\ gen' \in {gen, gen + 1} /\ gen \in Nat
  BY DEF LogCall, Sound, TypeOK
<1>2. rows' \in Seq(Rows)
  BY <1>1, NewRows
<1>3. /\ FlushFrame(gen', Len(rows'), TRUE) \in Frames
      /\ FlushFrame(gen', Len(rows'), TRUE).fn = "flush"
  BY <1>1, <1>2 DEF FlushFrame, Frames
<1>4. stack' \in {s, <<FlushFrame(gen', Len(rows'), TRUE)>> \o s}
  BY DEF LogCall
<1> QED BY <1>3, <1>4, PairedPushed

LEMMA PairedTold ==
  ASSUME Sound, BufferOn, NEW r, NEW s \in Seq(Frames), Paired(s), Tell(r, s)
  PROVE  Paired(stack')
<1>1. CASE LogCall(CriticalKey, s)
  BY <1>1, PairedLogged
<1>2. CASE stack' = s
  BY <1>2
<1> QED BY <1>1, <1>2 DEF Tell

LEMMA PairedReportOn ==
  ASSUME NEW s \in Seq(Frames), s # << >>, s[1].fn = "flush", Paired(s)
  PROVE  Paired(ReportOn(s)) /\ ReportOn(s) \in Seq(Frames)
<1>1. ReportFrame \in Frames /\ ReportFrame.fn = "report"
  BY DEF ReportFrame, Frames
<1>2. Paired(<<ReportFrame>> \o s) /\ <<ReportFrame>> \o s \in Seq(Frames)
  BY <1>1, PairedPushed, Pushed
<1> QED BY <1>2 DEF ReportOn

LEMMA PairedAdvanced ==
  ASSUME Sound, NEW step \in {"warn", "throw", "bailout", "return"}, AtStep(step),
         NEW t \in {"throw", "bailout", "return"}, Paired(stack)
  PROVE  Advance(t) \in Seq(Frames) /\ Paired(Advance(t))
<1>1. stack # << >> /\ Top.fn = "report" /\ Top \in Frames /\ stack \in Seq(Frames)
  BY AdvanceFacts, TopFacts DEF Sound, TypeOK, FrameOK
<1>2. [Top EXCEPT !.step = t] \in Frames /\ [Top EXCEPT !.step = t].fn = Top.fn
  BY <1>1 DEF Frames
<1>3. Top = stack[1]
  BY <1>1, Popped DEF Top
<1> QED BY <1>1, <1>2, <1>3, PairedSwapped, Swapped DEF Advance

LEMMA NextPaired ==
  ASSUME Sound, Sound', BufferOn, Paired(stack), Next
  PROVE  Paired(stack')
<1>1. stack \in Seq(Frames) /\ gen \in Nat /\ << >> \in Seq(Frames) /\ Paired(<< >>)
  BY DEF Sound, TypeOK, Paired
<1>2. CASE (\E k \in Keys : ScriptLog(k)) \/ ShutdownStart
  <2>1. (\E k \in Keys : LogCall(k, << >>)) \/ stack' = << >>
    BY <1>2 DEF ScriptLog, ShutdownStart, Quiet
  <2> QED BY <1>1, <2>1, PairedLogged
<1>3. CASE ScriptFlush \/ ShutdownFlush \/ NextRequest \/ ReportBailout \/ FlushStale
  <2>1. stack' = << >> \/ \E f : f.fn = "flush" /\ stack' = <<f>>
    BY <1>3 DEF ScriptFlush, ShutdownFlush, NextRequest, ReportBailout, FlushStale, Quiet,
                FlushFrame
  <2>2. CASE stack' = << >>
    BY <1>1, <2>2
  <2>3. ASSUME NEW f, f.fn = "flush", stack' = <<f>> PROVE Paired(stack')
    BY <2>3 DEF Paired
  <2> QED BY <2>1, <2>2, <2>3
<1>4. CASE WriteOk \/ OpenFail \/ WriteFail
  <2>1. stack # << >> /\ Top.fn = "write"
    BY <1>4 DEF WriteOk, OpenFail, WriteFail, In, Quiet
  <2> QED BY <1>1, <2>1, PairedPopped, Popped DEF Top
<1>5. CASE FlushDone \/ ReportReturn
  <2>1. stack # << >> /\ stack' = Tail(stack)
    BY <1>5 DEF FlushDone, ReportReturn, AtStep, In, Quiet
  <2> QED BY <1>1, <2>1, PairedPopped
<1>6. CASE VisitRow \/ VisitFail \/ RowWriteOk \/ RowWriteFail
  <2>1. PICK f \in Frames :
          /\ stack # << >> /\ f.fn = "flush"
          /\ \/ stack' = <<f>> \o Tail(stack)
             \/ Tell(setting.openWarns /\ setting.traceWarning,
                     ReportOn(<<f>> \o Tail(stack)))
             \/ Tell(setting.traceNotice, <<f>> \o Tail(stack))
    BY <1>6, FlushMoves
  <2> DEFINE t == <<f>> \o Tail(stack)
  <2>2. stack[1].fn = "flush"
    BY <1>1, <1>6, Popped
       DEF VisitRow, VisitFail, RowWriteOk, RowWriteFail, AtRow, InRow, In, Top, Quiet
  <2>3. t \in Seq(Frames) /\ t # << >> /\ t[1] = f /\ Paired(t)
    BY <1>1, <2>1, <2>2, Swapped, PairedSwapped
  <2> HIDE DEF t
  <2>4. Paired(ReportOn(t)) /\ ReportOn(t) \in Seq(Frames)
    BY <2>1, <2>3, PairedReportOn
  <2>5. \/ stack' = t \/ Tell(setting.traceNotice, t)
        \/ Tell(setting.openWarns /\ setting.traceWarning, ReportOn(t))
    BY <2>1 DEF t
  <2> QED BY <2>3, <2>4, <2>5, PairedTold
<1>7. CASE ReportWarn
  <2>1. Advance("throw") \in Seq(Frames) /\ Paired(Advance("throw"))
    BY <1>7, PairedAdvanced DEF ReportWarn
  <2>2. Tell(~setting.ignoreWarning /\ setting.traceWarning, Advance("throw"))
    BY <1>7 DEF ReportWarn
  <2> QED BY <2>1, <2>2, PairedTold
<1>8. CASE ReportThrow
  <2>1. Advance("return") \in Seq(Frames) /\ Paired(Advance("return"))
    BY <1>8, PairedAdvanced DEF ReportThrow
  <2>2. LogCall(CriticalKey, Advance("return")) \/ stack' = Advance("return")
    BY <1>8 DEF ReportThrow
  <2> QED BY <2>1, <2>2, PairedLogged
<1>9. CASE ReportFatal
  <2>1. Advance("bailout") \in Seq(Frames) /\ Paired(Advance("bailout"))
    BY <1>9, PairedAdvanced DEF ReportFatal
  <2>2. LogCall(CriticalKey, Advance("bailout")) \/ stack' = Advance("bailout")
    BY <1>9 DEF ReportFatal
  <2> QED BY <2>1, <2>2, PairedLogged
<1> QED BY <1>2, <1>3, <1>4, <1>5, <1>6, <1>7, <1>8, <1>9 DEF Next, InCall

\* One flush at a time, one report at a time.
LEMMA PairedNested ==
  ASSUME Sound, Paired(stack), ~FlushInFlush
  PROVE  Nested <= 1
<1> DEFINE reports == {i \in DOMAIN stack : stack[i].fn = "report"}
<1>1. stack \in Seq(Frames) /\ DOMAIN stack = 1..Len(stack) /\ Len(stack) \in Nat
  BY DEF Sound, TypeOK
<1>2. ASSUME NEW i \in reports, NEW j \in reports PROVE i = j
  <2>1. i + 1 \in DOMAIN stack /\ j + 1 \in DOMAIN stack
        /\ stack[i + 1].fn = "flush" /\ stack[j + 1].fn = "flush"
    BY <1>1 DEF Paired
  <2>2. i + 1 = j + 1
    BY <2>1 DEF FlushInFlush
  <2> QED BY <1>1, <2>2
<1>3. IsFiniteSet({}) /\ Cardinality({}) = 0
  BY FS_EmptySet
<1>4. CASE reports = {}
  <2>1. Nested = Cardinality(reports)
    BY DEF Nested
  <2> HIDE DEF reports
  <2> QED BY <1>3, <1>4, <2>1
<1>5. ASSUME NEW i \in reports PROVE Nested <= 1
  <2>1. reports = {i}
    BY <1>2, <1>5
  <2>2. Cardinality({i}) = 1
    BY FS_Singleton
  <2>3. Nested = Cardinality(reports)
    BY DEF Nested
  <2> HIDE DEF reports
  <2> QED BY <2>1, <2>2, <2>3
<1> QED BY <1>4, <1>5

-----------------------------------------------------------------------------
(* The depth holds *)

Loops == Deep /\ (BufferOn => Paired(stack))

LEMMA LoopsHold == Spec => [](Sound /\ Loops)
<1>1. Init => Sound /\ Loops
  <2> SUFFICES ASSUME Init PROVE Sound /\ Loops
    OBVIOUS
  <2>1. Len(stack) = 0 /\ errorLoop = 0
    BY DEF Init
  <2>2. Cardinality(Under(stack)) = 0
    BY <2>1, UnderShort, FS_EmptySet
  <2> QED BY <2>1, <2>2, InitSound DEF Loops, Deep, Paired
<1>2. Sound /\ Loops /\ [Next]_vars => Sound' /\ Loops'
  <2> SUFFICES ASSUME Sound, Loops, [Next]_vars PROVE Sound' /\ Loops'
    OBVIOUS
  <2>1. Sound'
    BY NextSound
  <2>2. CASE UNCHANGED vars
    <3>1. stack' = stack /\ errorLoop' = errorLoop /\ setting' = setting
      BY <2>2 DEF vars
    <3> QED BY <2>1, <3>1, SilentKept DEF Loops, Deep, BufferOn
  <2>3. CASE Next
    <3>1. setting' = setting
      BY <2>3, SettingKept
    <3>2. Deep'
      BY <2>1, <2>3, NextDeep DEF Loops
    <3>3. BufferOn => Paired(stack')
      BY <2>1, <2>3, NextPaired DEF Loops
    <3> QED BY <2>1, <3>1, <3>2, <3>3 DEF Loops, BufferOn
  <2> QED BY <2>2, <2>3
<1> QED BY <1>1, <1>2, PTL DEF Spec

\* error_loop: a report never holds more than two others in it, unless the
\* failures come back as warnings or notices, and are written at once or by a
\* flush inside the flush (seaslog_throw_exception, seaslog_error_cb).
THEOREM DepthHolds == Spec => []DepthBounded
<1>1. ASSUME Sound, Loops PROVE DepthBounded
  <2>1. stack \in Seq(Frames) /\ errorLoop \in 0..2
    BY <1>1 DEF Sound, TypeOK
  <2>2. Nested \in Nat
    <3>1. DOMAIN stack = 1..Len(stack) /\ Len(stack) \in Nat
      BY <2>1
    <3>2. IsFiniteSet(1..Len(stack))
      BY <3>1, FS_Interval
    <3>3. IsFiniteSet({i \in DOMAIN stack : stack[i].fn = "report"})
      BY <3>1, <3>2, FS_Subset
    <3> QED BY <3>3, FS_CardinalityType DEF Nested
  <2>3. CASE Silent
    <3>1. Cardinality(Under(stack)) \in Nat /\ Cardinality(Under(stack)) <= errorLoop
      BY <1>1, <2>1, <2>3, UnderFinite DEF Loops, Deep
    <3>2. Nested <= Cardinality(Under(stack)) + 1
      BY <1>1, NestedUnder
    <3> QED BY <2>1, <2>2, <3>1, <3>2 DEF DepthBounded
  <2>4. CASE BufferOn /\ ~FlushInFlush
    <3>1. Nested <= 1
      BY <1>1, <2>4, PairedNested DEF Loops
    <3> QED BY <2>2, <3>1 DEF DepthBounded
  <2> QED BY <2>3, <2>4 DEF DepthBounded, HooksLoop, Silent
<1> QED BY <1>1, LoopsHold, PTL

-----------------------------------------------------------------------------
(* The flushes: as long as what hooks log while a flush runs neither fills    *)
(* the buffer nor moves its array, the flush runs over a live array, writes   *)
(* no message twice and leaves out only what was logged behind it.            *)

\* Only failures that come back are logged in a flush.
Reached ==
  /\ disturbed => hooked # {}
  /\ hooked # {} => \/ WarningsReach \/ ExceptionsReach \/ NoticesReach
                    \/ cut /\ setting.traceError

Once(s) == \A i, j \in 1..Len(s) : s[i] = s[j] => i = j

\* Without a buffer: each write in progress is of a message of its own, not
\* written yet.
Apart(s, n, w) ==
  /\ \A i \in 1..Len(s) :
       /\ s[i].fn # "flush"
       /\ s[i].fn = "write" => s[i].id < n /\ s[i].id \notin Range(w)
  /\ \A i, j \in 1..Len(s) :
       s[i].fn = "write" /\ s[j].fn = "write" /\ s[i].id = s[j].id => i = j

WholeDirect ==
  /\ Apart(stack, nextId, written)
  /\ Once(written) /\ \A id \in Range(written) : id < nextId
  /\ lost = {}

\* With a buffer: the messages in the rows rs and in the file w have numbers
\* below n.
Known(rs, n, w) ==
  /\ \A i, j \in 1..Len(rs) : rs[i].key = rs[j].key => i = j
  /\ \A i \in 1..Len(rs) : \A id \in Range(rs[i].ids) : id < n
  /\ \A id \in Range(w) : id < n

\* What is left to write, the messages todo and the rows from from on, is
\* nowhere else.
Left(rs, n, w, from, todo) ==
  /\ \A i \in 1..Len(rs) : i >= from =>
       Once(rs[i].ids) /\ Range(rs[i].ids) \cap (Range(w) \cup Range(todo)) = {}
  /\ \A i, j \in 1..Len(rs) : i >= from /\ j >= from /\ i # j =>
       Range(rs[i].ids) \cap Range(rs[j].ids) = {}
  /\ Once(todo) /\ Range(todo) \cap Range(w) = {} /\ \A id \in Range(todo) : id < n

\* What is not left to write was visited, or logged behind the loop by a hook.
Passed(rs, v, h, c, from, todo, last) ==
  /\ ~c => \A i \in 1..Len(rs) : i < from =>
             Range(rs[i].ids) \subseteq v \cup Range(todo) \cup h
  /\ \A i \in 1..Len(rs) : i > last => Range(rs[i].ids) \subseteq h

FlushFrames ==
  [fn : {"flush"}, gen : Nat, pos : Nat, todo : Seq(Nat), last : Nat, reinit : BOOLEAN]
ReportFrames == [fn : {"report"}, step : {"warn", "throw", "bailout", "return"}]

\* The calls in progress are the flush f and at most a report of it; only a
\* fatal error bails out.
Flushes(s, f, c) ==
  s = <<f>> \/ \E r \in ReportFrames : s = <<r, f>> /\ (r.step = "bailout" => c)

\* The flush f runs over the array of now.
Live(f, g, n, p) ==
  f.gen = g /\ f.pos <= f.last + 1 /\ f.last <= n /\ (f.reinit <=> p # "shutdown")

Idle ==
  /\ stack = << >>
  /\ phase # "shutdown" => Left(rows, nextId, written, 1, << >>)
  /\ phase = "shutdown" => Passed(rows, visited, hooked, cut, Len(rows) + 1, << >>, Len(rows))

Busy(f) ==
  /\ Flushes(stack, f, cut) /\ Live(f, gen, Len(rows), phase)
  /\ Left(rows, nextId, written, f.pos, f.todo)
  /\ Passed(rows, visited, hooked, cut, f.pos, f.todo, f.last)

Books ==
  /\ Known(rows, nextId, written) /\ (count = 0 => rows = << >>)
  /\ Once(written) /\ (~cut => lost \subseteq hooked)

WholeBuffer == Books /\ (Idle \/ \E f \in FlushFrames : Busy(f))

Whole == IF BufferOn THEN disturbed \/ WholeBuffer ELSE WholeDirect

-----------------------------------------------------------------------------
(* Sequences *)

LEMMA Pair == ASSUME NEW x, NEW y PROVE <<x>> \o <<y>> = <<x, y>>
<1> DEFINE S == {x, y}
           s == <<x>> \o <<y>>
<1>1. <<y>> \in Seq(S) /\ Len(<<y>>) = 1 /\ <<y>>[1] = y /\ x \in S
  OBVIOUS
<1>2. s \in Seq(S) /\ Len(s) = 2 /\ s[1] = x /\ s[2] = y
  <2>1. /\ s \in Seq(S) /\ Len(s) = 1 + 1 /\ s[1] = x
        /\ \A i \in 2..(1 + 1) : s[i] = <<y>>[i - 1]
    BY <1>1, Pushed
  <2> QED BY <1>1, <2>1
<1>3. <<x, y>> \in Seq(S) /\ Len(<<x, y>>) = 2 /\ <<x, y>>[1] = x /\ <<x, y>>[2] = y
  OBVIOUS
<1> HIDE DEF S, s
<1>4. s = <<x, y>>
  BY <1>2, <1>3, SeqEqual
<1> QED BY <1>4 DEF s

LEMMA Appended ==
  ASSUME NEW s \in Seq(Nat), NEW x \in Nat
  PROVE  /\ Range(Append(s, x)) = Range(s) \cup {x}
         /\ Once(s) /\ x \notin Range(s) => Once(Append(s, x))
<1>1. /\ Append(s, x) \in Seq(Nat) /\ Len(Append(s, x)) = Len(s) + 1 /\ Len(s) \in Nat
      /\ \A i \in 1..Len(s) : Append(s, x)[i] = s[i]
      /\ Append(s, x)[Len(s) + 1] = x
  BY AppendProperties
<1>2. DOMAIN s = 1..Len(s) /\ DOMAIN Append(s, x) = 1..(Len(s) + 1)
  BY <1>1, LenProperties
<1>3. 1..(Len(s) + 1) = (1..Len(s)) \cup {Len(s) + 1}
  BY <1>1
<1>4. Range(Append(s, x)) = Range(s) \cup {x}
  BY <1>1, <1>2, <1>3 DEF Range
<1>5. ASSUME Once(s), x \notin Range(s) PROVE Once(Append(s, x))
  <2>1. \A i \in 1..Len(s) : s[i] # x
    BY <1>2, <1>5 DEF Range
  <2> QED BY <1>1, <1>3, <1>5, <2>1 DEF Once
<1> QED BY <1>4, <1>5

-----------------------------------------------------------------------------
(* What reaches a hook *)

LEMMA LogCallReached ==
  ASSUME NEW k, NEW s, LogCall(k, s), Reached,
         Flushing(s) => \/ WarningsReach \/ ExceptionsReach \/ NoticesReach
                        \/ cut' /\ setting.traceError,
         setting' = setting, cut => cut'
  PROVE  Reached'
<1> DEFINE reach == WarningsReach \/ ExceptionsReach \/ NoticesReach
<1>1. (reach' <=> reach) /\ setting.traceError = setting'.traceError
  BY DEF WarningsReach, ExceptionsReach, NoticesReach
<1>2. Flushing(s) \/ hooked' = hooked
  BY DEF LogCall
<1>3. Flushing(s) => hooked' = hooked \cup {nextId}
  BY DEF LogCall
<1>4. disturbed' => disturbed \/ Flushing(s)
  BY DEF LogCall, Moves, Flushing
<1>5. disturbed' => hooked' # {}
  BY <1>2, <1>3, <1>4 DEF Reached
<1> HIDE DEF reach
<1>6. hooked' # {} => reach \/ (cut' /\ setting.traceError)
  BY <1>2 DEF Reached, reach
<1>7. hooked' # {} => reach' \/ (cut' /\ setting'.traceError)
  BY <1>1, <1>6
<1> QED BY <1>5, <1>7 DEF Reached, reach

LEMMA TellReached ==
  ASSUME NEW s, Reached, setting' = setting, cut' = cut,
         \/ Tell(setting.openWarns /\ setting.traceWarning, s)
         \/ Tell(setting.traceNotice, s)
         \/ Tell(~setting.ignoreWarning /\ setting.traceWarning, s)
  PROVE  Reached'
<1>1. CASE LogCall(CriticalKey, s) /\ (WarningsReach \/ NoticesReach)
  BY <1>1, LogCallReached
<1>2. CASE UNCHANGED marks
  BY <1>2 DEF Reached, marks, WarningsReach, ExceptionsReach, NoticesReach
<1> QED BY <1>1, <1>2 DEF Tell, WarningsReach, NoticesReach

LEMMA NextReached == ASSUME Reached, Next PROVE Reached'
<1>1. setting' = setting
  BY SettingKept
<1>2. ASSUME UNCHANGED marks, cut' = cut PROVE Reached'
  BY <1>1, <1>2 DEF Reached, marks, WarningsReach, ExceptionsReach, NoticesReach
<1>3. ~Flushing(<< >>)
  BY DEF Flushing
<1>4. ASSUME NEW k \in Keys, ScriptLog(k) PROVE Reached'
  BY <1>1, <1>3, <1>4, LogCallReached DEF ScriptLog, history
<1>5. CASE ShutdownStart
  <2>1. cut' = cut /\ ((\E k \in Keys : LogCall(k, << >>)) \/ UNCHANGED marks)
    BY <1>5 DEF ShutdownStart, history
  <2>2. ASSUME NEW k \in Keys, LogCall(k, << >>) PROVE Reached'
    BY <1>1, <1>3, <2>1, <2>2, LogCallReached
  <2> QED BY <1>2, <2>1, <2>2
<1>6. CASE \/ ScriptFlush \/ ShutdownFlush \/ NextRequest \/ WriteOk \/ VisitRow
           \/ RowWriteOk \/ FlushDone \/ FlushStale \/ ReportBailout \/ ReportReturn
  <2>1. UNCHANGED marks /\ cut' = cut
    BY <1>6, Zenon DEF ScriptFlush, ShutdownFlush, NextRequest, WriteOk, VisitRow, RowWriteOk,
                FlushDone, FlushStale, ReportBailout, ReportReturn, history
  <2> QED BY <1>2, <2>1
<1>7. CASE OpenFail
  BY <1>1, <1>7, TellReached DEF OpenFail, history
<1>8. CASE WriteFail
  BY <1>1, <1>8, TellReached DEF WriteFail, history
<1>9. CASE VisitFail
  BY <1>1, <1>9, TellReached DEF VisitFail
<1>10. CASE RowWriteFail
  BY <1>1, <1>10, TellReached DEF RowWriteFail
<1>11. CASE ReportWarn
  BY <1>1, <1>11, TellReached DEF ReportWarn, history
<1>12. CASE ReportThrow
  <2>1. /\ cut' = cut
        /\ \/ LogCall(CriticalKey, Advance("return")) /\ ExceptionsReach
           \/ UNCHANGED marks
    BY <1>12 DEF ReportThrow, Throws, ExceptionsReach, history
  <2>2. CASE LogCall(CriticalKey, Advance("return")) /\ ExceptionsReach
    BY <1>1, <2>1, <2>2, LogCallReached
  <2> QED BY <1>2, <2>1, <2>2
<1>13. CASE ReportFatal
  <2>1. /\ cut'
        /\ \/ LogCall(CriticalKey, Advance("bailout")) /\ setting.traceError
           \/ UNCHANGED marks
    BY <1>13 DEF ReportFatal
  <2>2. CASE LogCall(CriticalKey, Advance("bailout")) /\ setting.traceError
    BY <1>1, <2>1, <2>2, LogCallReached
  <2>3. CASE UNCHANGED marks
    BY <1>1, <2>1, <2>3 DEF Reached, marks, WarningsReach, ExceptionsReach, NoticesReach
  <2> QED BY <2>1, <2>2, <2>3
<1> QED BY <1>4, <1>5, <1>6, <1>7, <1>8, <1>9, <1>10, <1>11, <1>12, <1>13 DEF Next, InCall

-----------------------------------------------------------------------------
(* Without a buffer *)

LEMMA ApartPushed ==
  ASSUME NEW s \in Seq(Frames), NEW n \in Nat, NEW m \in Nat, n <= m, NEW w, Apart(s, n, w),
         NEW f \in Frames,
         \/ f.fn = "report"
         \/ /\ f.fn = "write" /\ f.id < m /\ f.id \notin Range(w)
            /\ \A i \in 1..Len(s) : s[i].fn = "write" => s[i].id # f.id
  PROVE  Apart(<<f>> \o s, m, w) /\ <<f>> \o s \in Seq(Frames)
<1> DEFINE t == <<f>> \o s
<1>1. /\ Len(t) = Len(s) + 1 /\ Len(s) \in Nat /\ t[1] = f /\ t \in Seq(Frames)
      /\ \A i \in 2..(Len(s) + 1) : t[i] = s[i - 1]
  BY Pushed
<1> HIDE DEF t
<1>2. \A i \in 1..Len(t) : i # 1 => i - 1 \in 1..Len(s) /\ t[i] = s[i - 1]
  BY <1>1
<1>3. \A i \in 1..Len(s) : s[i].fn = "write" => s[i].id \in Nat
  BY DEF Frames
<1>4. ASSUME NEW i \in 1..Len(t)
      PROVE  /\ t[i].fn # "flush"
             /\ t[i].fn = "write" => t[i].id < m /\ t[i].id \notin Range(w)
  <2>1. CASE i = 1
    BY <1>1, <2>1
  <2>2. CASE i # 1
    BY <1>2, <1>3, <2>2 DEF Apart
  <2> QED BY <2>1, <2>2
<1>5. ASSUME NEW i \in 1..Len(t), NEW j \in 1..Len(t),
             t[i].fn = "write", t[j].fn = "write", t[i].id = t[j].id
      PROVE  i = j
  <2>1. CASE i = 1 /\ j # 1
    BY <1>1, <1>2, <1>5, <2>1
  <2>2. CASE i # 1 /\ j = 1
    BY <1>1, <1>2, <1>5, <2>2
  <2>3. CASE i # 1 /\ j # 1
    <3>1. i - 1 = j - 1
      BY <1>2, <1>5, <2>3 DEF Apart
    <3> QED BY <1>1, <3>1
  <2> QED BY <2>1, <2>2, <2>3
<1>6. Apart(t, m, w)
  BY <1>4, <1>5 DEF Apart
<1> QED BY <1>1, <1>6 DEF t

LEMMA ApartPopped ==
  ASSUME NEW s \in Seq(Frames), s # << >>, NEW n, NEW w, Apart(s, n, w)
  PROVE  /\ Apart(Tail(s), n, w) /\ Tail(s) \in Seq(Frames)
         /\ s[1].fn # "flush"
         /\ s[1].fn = "write" =>
              /\ s[1].id < n /\ s[1].id \notin Range(w)
              /\ \A i \in 1..Len(Tail(s)) : Tail(s)[i].fn = "write" => Tail(s)[i].id # s[1].id
<1> DEFINE t == Tail(s)
<1>1. /\ Len(t) = Len(s) - 1 /\ Len(s) \in Nat /\ Len(s) >= 1 /\ t \in Seq(Frames)
      /\ \A i \in 1..(Len(s) - 1) : t[i] = s[i + 1]
  BY Popped
<1> HIDE DEF t
<1>2. \A i \in 1..Len(t) : i + 1 \in 1..Len(s) /\ i + 1 # 1 /\ t[i] = s[i + 1]
  BY <1>1
<1>3. 1 \in 1..Len(s)
  BY <1>1
<1>4. ASSUME NEW i \in 1..Len(t), NEW j \in 1..Len(t),
             t[i].fn = "write", t[j].fn = "write", t[i].id = t[j].id
      PROVE  i = j
  <2>1. i + 1 = j + 1
    BY <1>2, <1>4 DEF Apart
  <2> QED BY <2>1
<1>5. Apart(t, n, w)
  BY <1>2, <1>4 DEF Apart
<1>6. s[1].fn = "write" => \A i \in 1..Len(t) : t[i].fn = "write" => t[i].id # s[1].id
  BY <1>2, <1>3 DEF Apart
<1>7. /\ s[1].fn # "flush"
      /\ s[1].fn = "write" => s[1].id < n /\ s[1].id \notin Range(w)
  BY <1>3 DEF Apart
<1> QED BY <1>1, <1>5, <1>6, <1>7 DEF t

LEMMA ApartSwapped ==
  ASSUME NEW s \in Seq(Frames), s # << >>, NEW n \in Nat, NEW w, Apart(s, n, w),
         NEW f \in Frames,
         f.fn = "report" \/ (f.fn = "write" /\ s[1].fn = "write" /\ f.id = s[1].id)
  PROVE  Apart(<<f>> \o Tail(s), n, w) /\ <<f>> \o Tail(s) \in Seq(Frames)
<1>1. /\ Apart(Tail(s), n, w) /\ Tail(s) \in Seq(Frames)
      /\ s[1].fn = "write" =>
           /\ s[1].id < n /\ s[1].id \notin Range(w)
           /\ \A i \in 1..Len(Tail(s)) : Tail(s)[i].fn = "write" => Tail(s)[i].id # s[1].id
  BY ApartPopped
<1>2. n <= n
  OBVIOUS
<1> QED BY <1>1, <1>2, ApartPushed

\* The calls go on with the stack s, which a hook may have logged into.
LEMMA DirectGoes ==
  ASSUME Sound, WholeDirect, ~BufferOn, NEW s \in Seq(Frames), Apart(s, nextId, written),
         UNCHANGED <<setting, written, lost>>,
         \/ \E k \in Keys : LogCall(k, s)
         \/ stack' = s /\ nextId' = nextId
  PROVE  WholeDirect'
<1>1. nextId \in Nat /\ \A id \in Range(written) : id \in Nat /\ id < nextId
  BY DEF Sound, TypeOK, WholeDirect, Range
<1>2. CASE stack' = s /\ nextId' = nextId
  BY <1>2 DEF WholeDirect, Once
<1>3. CASE \E k \in Keys : LogCall(k, s)
  <2> DEFINE f == WriteFrame(nextId)
  <2>1. nextId' = nextId + 1 /\ stack' = <<f>> \o s
    BY <1>3 DEF LogCall
  <2>2. f \in Frames /\ f.fn = "write" /\ f.id = nextId
    BY <1>1 DEF WriteFrame, Frames
  <2> HIDE DEF f
  <2>3. \A i \in 1..Len(s) : s[i].fn = "write" => s[i].id # f.id
    BY <1>1, <2>2 DEF Apart
  <2>4. f.id < nextId + 1 /\ f.id \notin Range(written) /\ nextId <= nextId + 1
        /\ nextId + 1 \in Nat
    BY <1>1, <2>2
  <2>5. Apart(<<f>> \o s, nextId + 1, written)
    BY <1>1, <2>2, <2>3, <2>4, ApartPushed
  <2>6. \A id \in Range(written) : id < nextId + 1
    BY <1>1
  <2> QED BY <2>1, <2>5, <2>6 DEF WholeDirect, Once
<1> QED BY <1>2, <1>3

LEMMA DirectReportOn ==
  ASSUME Sound, NEW s \in Seq(Frames), Apart(s, nextId, written)
  PROVE  ReportOn(s) \in Seq(Frames) /\ Apart(ReportOn(s), nextId, written)
<1>1. ReportFrame \in Frames /\ ReportFrame.fn = "report" /\ nextId \in Nat
      /\ nextId <= nextId
  BY DEF ReportFrame, Frames, Sound, TypeOK
<1>2. <<ReportFrame>> \o s \in Seq(Frames) /\ Apart(<<ReportFrame>> \o s, nextId, written)
  BY <1>1, ApartPushed
<1> QED BY <1>2 DEF ReportOn

LEMMA DirectAdvance ==
  ASSUME Sound, WholeDirect, NEW step \in {"warn", "throw", "bailout", "return"}, AtStep(step),
         NEW t \in {"throw", "bailout", "return"}
  PROVE  Advance(t) \in Seq(Frames) /\ Apart(Advance(t), nextId, written)
<1>1. stack # << >> /\ Top.fn = "report" /\ Top \in Frames /\ stack \in Seq(Frames)
      /\ nextId \in Nat
  BY AdvanceFacts, TopFacts DEF Sound, TypeOK, FrameOK
<1>2. [Top EXCEPT !.step = t] \in Frames /\ [Top EXCEPT !.step = t].fn = "report"
  BY <1>1 DEF Frames
<1> QED BY <1>1, <1>2, ApartSwapped DEF Advance, WholeDirect

LEMMA NextDirect ==
  ASSUME Sound, Sound', ~BufferOn, WholeDirect, Next
  PROVE  WholeDirect'
<1>1. /\ stack \in Seq(Frames) /\ nextId \in Nat /\ << >> \in Seq(Frames)
      /\ Apart(<< >>, nextId, written)
      /\ written \in Seq(Nat) /\ setting' = setting
  BY SettingKept DEF Sound, TypeOK, Apart
<1>2. CASE (\E k \in Keys : ScriptLog(k)) \/ ShutdownStart
  <2>1. /\ UNCHANGED <<written, lost>>
        /\ (\E k \in Keys : LogCall(k, << >>)) \/ (stack' = << >> /\ nextId' = nextId)
    BY <1>2 DEF ScriptLog, ShutdownStart, Quiet, history
  <2> QED BY <1>1, <2>1, DirectGoes
<1>3. CASE ShutdownFlush \/ NextRequest \/ ReportBailout
  <2>1. UNCHANGED <<written, lost, nextId>> /\ stack' = << >>
    BY <1>3, Zenon DEF ShutdownFlush, NextRequest, ReportBailout, Quiet, history
  <2> QED BY <1>1, <2>1, DirectGoes
<1>4. CASE ScriptFlush
  BY <1>4 DEF ScriptFlush
<1>5. CASE VisitRow \/ VisitFail \/ RowWriteOk \/ RowWriteFail \/ FlushDone \/ FlushStale
  <2>1. stack # << >> /\ Top.fn = "flush"
    BY <1>5 DEF VisitRow, VisitFail, RowWriteOk, RowWriteFail, FlushDone, FlushStale,
                AtRow, InRow, In, Quiet
  <2> QED BY <1>1, <2>1, ApartPopped, Popped DEF WholeDirect, Top
<1>6. CASE WriteOk \/ OpenFail \/ WriteFail
  <2>1. stack # << >> /\ Top.fn = "write" /\ Top = stack[1] /\ Top.id \in Nat
        /\ Top.left \in Nat /\ Top \in [fn : {"write"}, id : Nat, left : Nat]
    <3>1. In("write") /\ stack # << >> /\ Top.fn = "write"
      BY <1>6 DEF WriteOk, OpenFail, WriteFail, In, Quiet
    <3>2. Top \in Frames /\ Top = stack[1]
      BY <1>1, <3>1, Popped DEF Top
    <3> QED BY <3>1, <3>2 DEF Frames
  <2>2. /\ Apart(Tail(stack), nextId, written) /\ Tail(stack) \in Seq(Frames)
        /\ Top.id < nextId /\ Top.id \notin Range(written)
        /\ \A i \in 1..Len(Tail(stack)) :
             Tail(stack)[i].fn = "write" => Tail(stack)[i].id # Top.id
    BY <1>1, <2>1, ApartPopped DEF WholeDirect
  <2>3. CASE WriteOk
    <3>1. /\ written' = Append(written, Top.id) /\ stack' = Tail(stack)
          /\ UNCHANGED <<nextId, lost>>
      BY <2>3 DEF WriteOk
    <3>2. Range(written') = Range(written) \cup {Top.id} /\ Once(written')
      BY <1>1, <2>1, <2>2, <3>1, Appended DEF WholeDirect
    <3>3. Apart(Tail(stack), nextId, written')
      BY <2>2, <3>2 DEF Apart
    <3>4. \A id \in Range(written') : id < nextId
      BY <2>2, <3>2 DEF WholeDirect
    <3> QED BY <3>1, <3>2, <3>3, <3>4 DEF WholeDirect, Once
  <2>4. CASE OpenFail
    <3>1. ReportOn(Tail(stack)) \in Seq(Frames)
          /\ Apart(ReportOn(Tail(stack)), nextId, written)
      BY <2>2, DirectReportOn
    <3>2. /\ UNCHANGED <<written, lost>>
          /\ (\E k \in Keys : LogCall(k, ReportOn(Tail(stack))))
             \/ (stack' = ReportOn(Tail(stack)) /\ nextId' = nextId)
      BY <2>4 DEF OpenFail, Tell, history
    <3> QED BY <1>1, <3>1, <3>2, DirectGoes
  <2>5. CASE WriteFail
    <3> DEFINE f == [Top EXCEPT !.left = @ - 1]
               s == IF Top.left > 1 THEN <<f>> \o Tail(stack) ELSE ReportOn(Tail(stack))
    <3>1. ReportOn(Tail(stack)) \in Seq(Frames)
          /\ Apart(ReportOn(Tail(stack)), nextId, written)
      BY <2>2, DirectReportOn
    <3>2. Top.left > 1 => f \in Frames /\ f.fn = "write" /\ f.id = Top.id
      BY <2>1 DEF Frames
    <3>3. Tell(setting.traceNotice, s) /\ UNCHANGED <<written, lost>>
      BY <2>5 DEF WriteFail, history
    <3>4. s \in Seq(Frames) /\ Apart(s, nextId, written)
      <4>1. CASE Top.left > 1
        <5>1. f \in Frames /\ f.fn = "write" /\ f.id = stack[1].id /\ stack[1].fn = "write"
          BY <2>1, <3>2, <4>1
        <5>2. s = <<f>> \o Tail(stack)
          BY <4>1
        <5> HIDE DEF f, s
        <5>3. <<f>> \o Tail(stack) \in Seq(Frames)
              /\ Apart(<<f>> \o Tail(stack), nextId, written)
          BY <1>1, <2>1, <5>1, ApartSwapped DEF WholeDirect
        <5> QED BY <5>2, <5>3
      <4>2. CASE ~(Top.left > 1)
        BY <3>1, <4>2
      <4> QED BY <4>1, <4>2
    <3> HIDE DEF f, s
    <3>5. (\E k \in Keys : LogCall(k, s)) \/ (stack' = s /\ nextId' = nextId)
      BY <3>3 DEF Tell
    <3> QED BY <1>1, <3>3, <3>4, <3>5, DirectGoes
  <2> QED BY <1>6, <2>3, <2>4, <2>5
<1>7. CASE ReportWarn
  <2>1. Advance("throw") \in Seq(Frames) /\ Apart(Advance("throw"), nextId, written)
    BY <1>7, DirectAdvance DEF ReportWarn
  <2>2. /\ UNCHANGED <<written, lost>>
        /\ (\E k \in Keys : LogCall(k, Advance("throw")))
           \/ (stack' = Advance("throw") /\ nextId' = nextId)
    BY <1>7 DEF ReportWarn, Tell, history
  <2> QED BY <1>1, <2>1, <2>2, DirectGoes
<1>8. CASE ReportThrow
  <2>1. Advance("return") \in Seq(Frames) /\ Apart(Advance("return"), nextId, written)
    BY <1>8, DirectAdvance DEF ReportThrow
  <2>2. /\ UNCHANGED <<written, lost>>
        /\ (\E k \in Keys : LogCall(k, Advance("return")))
           \/ (stack' = Advance("return") /\ nextId' = nextId)
    BY <1>8 DEF ReportThrow, history
  <2> QED BY <1>1, <2>1, <2>2, DirectGoes
<1>9. CASE ReportFatal
  <2>1. Advance("bailout") \in Seq(Frames) /\ Apart(Advance("bailout"), nextId, written)
    BY <1>9, DirectAdvance DEF ReportFatal
  <2>2. /\ UNCHANGED <<written, lost>>
        /\ (\E k \in Keys : LogCall(k, Advance("bailout")))
           \/ (stack' = Advance("bailout") /\ nextId' = nextId)
    BY <1>9 DEF ReportFatal, history
  <2> QED BY <1>1, <2>1, <2>2, DirectGoes
<1>10. CASE ReportReturn
  <2>1. stack # << >> /\ stack' = Tail(stack) /\ UNCHANGED <<written, lost, nextId>>
    BY <1>10 DEF ReportReturn, AtStep, In, Quiet, history
  <2>2. Apart(Tail(stack), nextId, written) /\ Tail(stack) \in Seq(Frames)
    BY <1>1, <2>1, ApartPopped DEF WholeDirect
  <2> QED BY <1>1, <2>1, <2>2, DirectGoes
<1> QED BY <1>2, <1>3, <1>4, <1>5, <1>6, <1>7, <1>8, <1>9, <1>10 DEF Next, InCall

-----------------------------------------------------------------------------
(* With a buffer: a message is added *)

\* The row h of r is that of key k with the message in it, old or new; the
\* others are as they were.
Added(r, k, h) ==
  /\ r[h].key = k
  /\ \A i \in 1..Len(r) : i # h => i \in 1..Len(rows) /\ r[i] = rows[i]
  /\ \/ /\ h \in 1..Len(rows) /\ rows[h].key = k
        /\ r[h].ids = Append(rows[h].ids, nextId)
     \/ /\ r[h].ids = <<nextId>>
        /\ \A i \in 1..Len(rows) : i # h /\ rows[i].key # k

LEMMA RowAdded ==
  ASSUME Sound, NEW k \in Keys, NEW r, r = AddRow(k, nextId),
         \A i, j \in 1..Len(rows) : rows[i].key = rows[j].key => i = j
  PROVE  Len(r) \in Nat /\ \E h \in 1..Len(r) : Added(r, k, h)
<1>1. /\ rows \in Seq(Rows) /\ nextId \in Nat /\ Len(rows) \in Nat
      /\ DOMAIN rows = 1..Len(rows)
  BY DEF Sound, TypeOK, Rows
<1>2. CASE \E i \in DOMAIN rows : rows[i].key = k
  <2> DEFINE q(i) == IF rows[i].key = k THEN [rows[i] EXCEPT !.ids = Append(@, nextId)]
                                        ELSE rows[i]
  <2>1. PICK h \in 1..Len(rows) : rows[h].key = k
    BY <1>1, <1>2
  <2>2. r = [i \in 1..Len(rows) |-> q(i)]
    BY <1>1, <1>2 DEF AddRow
  <2>3. Len(r) = Len(rows)
    <3> HIDE DEF q
    <3>1. [i \in 1..Len(rows) |-> q(i)] \in Seq(Rows)
      BY <2>2, NewRows
    <3>2. Len([i \in 1..Len(rows) |-> q(i)]) = Len(rows)
      BY <1>1, <3>1, LenProperties
    <3> QED BY <2>2, <3>2
  <2>4. \A i \in 1..Len(rows) : i # h => r[i] = rows[i]
    BY <2>1, <2>2
  <2>5. r[h].key = k /\ r[h].ids = Append(rows[h].ids, nextId)
    <3>1. rows[h] \in Rows /\ r[h] = [rows[h] EXCEPT !.ids = Append(@, nextId)]
      BY <1>1, <2>1, <2>2
    <3> QED BY <2>1, <3>1 DEF Rows
  <2> QED BY <1>1, <2>1, <2>3, <2>4, <2>5 DEF Added
<1>3. CASE ~\E i \in DOMAIN rows : rows[i].key = k
  <2> DEFINE new == [key |-> k, ids |-> <<nextId>>]
  <2>1. new \in Rows /\ new.key = k /\ new.ids = <<nextId>>
    BY <1>1 DEF Rows
  <2>2. r = Append(rows, new)
    BY <1>3 DEF AddRow
  <2> HIDE DEF new
  <2>3. /\ Len(r) = Len(rows) + 1 /\ r[Len(rows) + 1] = new
        /\ \A i \in 1..Len(rows) : r[i] = rows[i]
    BY <1>1, <2>1, <2>2, AppendProperties
  <2>4. /\ Len(rows) + 1 \in 1..Len(r) /\ Len(r) \in Nat
        /\ \A i \in 1..Len(r) : i # Len(rows) + 1 => i \in 1..Len(rows)
        /\ \A i \in 1..Len(rows) : i # Len(rows) + 1
    BY <1>1, <2>3
  <2>5. \A i \in 1..Len(rows) : rows[i].key # k
    BY <1>1, <1>3
  <2>6. \A i \in 1..Len(r) : i # Len(rows) + 1 => i \in 1..Len(rows) /\ r[i] = rows[i]
    BY <2>3, <2>4
  <2>7. r[Len(rows) + 1].key = k /\ r[Len(rows) + 1].ids = <<nextId>>
    BY <2>1, <2>3
  <2> QED BY <2>4, <2>5, <2>6, <2>7 DEF Added
<1> QED BY <1>2, <1>3

\* What the table is to a call into it.
LEMMA Table ==
  ASSUME Sound
  PROVE  /\ nextId \in Nat /\ Len(rows) \in Nat /\ written \in Seq(Nat) /\ gen \in Nat
         /\ count \in Nat /\ DOMAIN rows = 1..Len(rows)
         /\ \A i \in 1..Len(rows) : rows[i].ids \in Seq(Nat) /\ Range(rows[i].ids) \subseteq Nat
<1>1. /\ nextId \in Nat /\ Len(rows) \in Nat /\ written \in Seq(Nat) /\ gen \in Nat
      /\ count \in Nat /\ DOMAIN rows = 1..Len(rows)
  BY DEF Sound, TypeOK
<1>2. ASSUME NEW i \in 1..Len(rows)
      PROVE  rows[i].ids \in Seq(Nat) /\ Range(rows[i].ids) \subseteq Nat
  <2>1. i \in DOMAIN rows
    BY <1>1
  <2> QED BY <2>1, RowTypes
<1> QED BY <1>1, <1>2

\* The new message is in the row h of r, and nowhere else.
Filed(r, k, h) ==
  /\ \A i \in 1..Len(r) : i # h => i \in 1..Len(rows) /\ r[i] = rows[i]
  /\ \/ /\ h \in 1..Len(rows) /\ Range(r[h].ids) = Range(rows[h].ids) \cup {nextId}
        /\ Once(rows[h].ids) => Once(r[h].ids)
     \/ h \notin 1..Len(rows) /\ Range(r[h].ids) = {nextId} /\ Once(r[h].ids)
  /\ \A i \in 1..Len(rows) : nextId \notin Range(rows[i].ids)
  /\ nextId \notin Range(written)
  /\ \A i \in 1..Len(rows) : i # h => rows[i].key # k
  /\ r[h].key = k

LEMMA RowFiled ==
  ASSUME Sound, Known(rows, nextId, written), NEW k \in Keys, NEW r, r = AddRow(k, nextId)
  PROVE  Len(r) \in Nat /\ \E h \in 1..Len(r) : Filed(r, k, h)
<1>1. /\ nextId \in Nat
      /\ \A i \in 1..Len(rows) : rows[i].ids \in Seq(Nat) /\ Range(rows[i].ids) \subseteq Nat
  BY Table
<1>2. /\ \A i \in 1..Len(rows) : nextId \notin Range(rows[i].ids)
      /\ nextId \notin Range(written)
  BY <1>1 DEF Known
<1>3. \A i, j \in 1..Len(rows) : rows[i].key = rows[j].key => i = j
  BY DEF Known
<1>4. Len(r) \in Nat /\ \E h \in 1..Len(r) : Added(r, k, h)
  BY <1>3, RowAdded
<1> PICK h \in 1..Len(r) : Added(r, k, h)
  BY <1>4
<1>5. CASE h \in 1..Len(rows) /\ rows[h].key = k /\ r[h].ids = Append(rows[h].ids, nextId)
  <2>1. Range(r[h].ids) = Range(rows[h].ids) \cup {nextId}
        /\ (Once(rows[h].ids) => Once(r[h].ids))
    BY <1>1, <1>2, <1>5, Appended
  <2>2. \A i \in 1..Len(rows) : i # h => rows[i].key # k
    BY <1>3, <1>5
  <2>3. Filed(r, k, h)
    BY <1>2, <1>5, <2>1, <2>2 DEF Added, Filed
  <2> QED BY <1>4, <2>3
<1>6. CASE r[h].ids = <<nextId>> /\ \A i \in 1..Len(rows) : i # h /\ rows[i].key # k
  <2>1. Range(r[h].ids) = {nextId} /\ Once(r[h].ids)
    BY <1>6 DEF Range, Once
  <2>2. h \notin 1..Len(rows)
    BY <1>6
  <2>3. Filed(r, k, h)
    BY <1>2, <1>6, <2>1, <2>2 DEF Added, Filed
  <2> QED BY <1>4, <2>3
<1> QED BY <1>5, <1>6 DEF Added

LEMMA FiledKnown ==
  ASSUME Sound, NEW k \in Keys, Known(rows, nextId, written), rows' = AddRow(k, nextId)
  PROVE  Known(rows', nextId + 1, written)
<1> DEFINE r == rows'
<1>2. \E h \in 1..Len(r) : Filed(r, k, h)
  BY RowFiled
<1> PICK h \in 1..Len(r) : Filed(r, k, h)
  BY <1>2
<1> HIDE DEF r
<1>3. /\ \A i \in 1..Len(r) : i # h => i \in 1..Len(rows) /\ r[i] = rows[i]
      /\ \/ h \in 1..Len(rows) /\ Range(r[h].ids) = Range(rows[h].ids) \cup {nextId}
         \/ h \notin 1..Len(rows) /\ Range(r[h].ids) = {nextId}
      /\ \A i \in 1..Len(rows) : i # h => rows[i].key # k
      /\ r[h].key = k
  BY DEF Filed
<1>4. /\ nextId \in Nat
      /\ \A i \in 1..Len(rows) : Range(rows[i].ids) \subseteq Nat
      /\ Range(written) \subseteq Nat
  BY Table DEF Range
<1>8. nextId < nextId + 1
      /\ \A i \in 1..Len(rows) : \A id \in Range(rows[i].ids) : id < nextId + 1
  <2>1. ASSUME NEW i \in 1..Len(rows), NEW id \in Range(rows[i].ids)
        PROVE  id < nextId + 1
    <3>1. id \in Nat /\ id < nextId
      BY <1>4, <2>1 DEF Known
    <3> QED BY <1>4, <3>1
  <2> QED BY <1>4, <2>1
<1>5. ASSUME NEW i \in 1..Len(r), NEW id \in Range(r[i].ids) PROVE id < nextId + 1
  <2>1. CASE i = h
    <3>1. id = nextId \/ (h \in 1..Len(rows) /\ id \in Range(rows[h].ids))
      BY <1>3, <1>5, <2>1
    <3> QED BY <1>8, <3>1
  <2>2. CASE i # h
    <3>1. i \in 1..Len(rows) /\ id \in Range(rows[i].ids)
      BY <1>3, <1>5, <2>2
    <3> QED BY <1>8, <3>1
  <2> QED BY <2>1, <2>2
<1>6. ASSUME NEW i \in 1..Len(r), NEW j \in 1..Len(r), r[i].key = r[j].key PROVE i = j
  BY <1>3, <1>6 DEF Known
<1>7. \A id \in Range(written) : id < nextId + 1
  BY <1>4 DEF Known
<1>9. Known(r, nextId + 1, written)
  BY <1>5, <1>6, <1>7 DEF Known
<1> QED BY <1>9 DEF r

LEMMA FiledLeft ==
  ASSUME Sound, NEW k \in Keys, Known(rows, nextId, written), rows' = AddRow(k, nextId),
         NEW from, NEW todo \in Seq(Nat), Left(rows, nextId, written, from, todo)
  PROVE  Left(rows', nextId + 1, written, from, todo)
<1> DEFINE r == rows'
<1>2. \E h \in 1..Len(r) : Filed(r, k, h)
  BY RowFiled
<1> PICK h \in 1..Len(r) : Filed(r, k, h)
  BY <1>2
<1> HIDE DEF r
<1>3. /\ \A i \in 1..Len(r) : i # h => i \in 1..Len(rows) /\ r[i] = rows[i]
      /\ \/ /\ h \in 1..Len(rows) /\ Range(r[h].ids) = Range(rows[h].ids) \cup {nextId}
            /\ Once(rows[h].ids) => Once(r[h].ids)
         \/ h \notin 1..Len(rows) /\ Range(r[h].ids) = {nextId} /\ Once(r[h].ids)
      /\ \A i \in 1..Len(rows) : nextId \notin Range(rows[i].ids)
      /\ nextId \notin Range(written)
  BY DEF Filed
<1>4. nextId \in Nat /\ Range(todo) \subseteq Nat
  BY Table DEF Range
<1>5. nextId \notin Range(todo) /\ \A id \in Range(todo) : id < nextId + 1
  BY <1>4 DEF Left
<1>6. ASSUME NEW i \in 1..Len(r), i >= from
      PROVE  Once(r[i].ids) /\ Range(r[i].ids) \cap (Range(written) \cup Range(todo)) = {}
  <2>1. CASE i = h
    <3>1. CASE h \in 1..Len(rows)
      BY <1>3, <1>5, <1>6, <2>1, <3>1 DEF Left
    <3>2. CASE h \notin 1..Len(rows)
      BY <1>3, <1>5, <1>6, <2>1, <3>2
    <3> QED BY <3>1, <3>2
  <2>2. CASE i # h
    BY <1>3, <1>6, <2>2 DEF Left
  <2> QED BY <2>1, <2>2
<1>7. ASSUME NEW i \in 1..Len(r), i # h, i >= from, h >= from
      PROVE  Range(r[i].ids) \cap Range(r[h].ids) = {}
  <2>1. i \in 1..Len(rows) /\ r[i] = rows[i]
    BY <1>3, <1>7
  <2>2. CASE h \in 1..Len(rows)
    BY <1>3, <1>7, <2>1, <2>2 DEF Left
  <2>3. CASE h \notin 1..Len(rows)
    BY <1>3, <1>7, <2>1, <2>3
  <2> QED BY <2>2, <2>3
<1>8. ASSUME NEW i \in 1..Len(r), NEW j \in 1..Len(r), i >= from, j >= from, i # j
      PROVE  Range(r[i].ids) \cap Range(r[j].ids) = {}
  <2>1. CASE i = h \/ j = h
    BY <1>7, <1>8, <2>1
  <2>2. CASE i # h /\ j # h
    BY <1>3, <1>8, <2>2 DEF Left
  <2> QED BY <2>1, <2>2
<1>9. Once(todo) /\ Range(todo) \cap Range(written) = {}
  BY DEF Left
<1>10. Left(r, nextId + 1, written, from, todo)
  BY <1>5, <1>6, <1>8, <1>9 DEF Left
<1> QED BY <1>10 DEF r

LEMMA FiledPassed ==
  ASSUME Sound, NEW k \in Keys, Known(rows, nextId, written), rows' = AddRow(k, nextId),
         NEW v, NEW c, NEW from, NEW todo, NEW last,
         Passed(rows, v, hooked, c, from, todo, last)
  PROVE  Passed(rows', v, hooked \cup {nextId}, c, from, todo, last)
<1> DEFINE r == rows'
<1>2. \E h \in 1..Len(r) : Filed(r, k, h)
  BY RowFiled
<1> PICK h \in 1..Len(r) : Filed(r, k, h)
  BY <1>2
<1> HIDE DEF r
<1>3. /\ \A i \in 1..Len(r) : i # h => i \in 1..Len(rows) /\ r[i] = rows[i]
      /\ \/ h \in 1..Len(rows) /\ Range(r[h].ids) = Range(rows[h].ids) \cup {nextId}
         \/ h \notin 1..Len(rows) /\ Range(r[h].ids) = {nextId}
  BY DEF Filed
<1>4. ASSUME ~c, NEW i \in 1..Len(r), i < from
      PROVE  Range(r[i].ids) \subseteq v \cup Range(todo) \cup (hooked \cup {nextId})
  <2>1. CASE i = h
    BY <1>3, <1>4, <2>1 DEF Passed
  <2>2. CASE i # h
    BY <1>3, <1>4, <2>2 DEF Passed
  <2> QED BY <2>1, <2>2
<1>5. ASSUME NEW i \in 1..Len(r), i > last PROVE Range(r[i].ids) \subseteq hooked \cup {nextId}
  <2>1. CASE i = h
    BY <1>3, <1>5, <2>1 DEF Passed
  <2>2. CASE i # h
    BY <1>3, <1>5, <2>2 DEF Passed
  <2> QED BY <2>1, <2>2
<1>6. Passed(r, v, hooked \cup {nextId}, c, from, todo, last)
  BY <1>4, <1>5 DEF Passed
<1> QED BY <1>6 DEF r

-----------------------------------------------------------------------------
(* With a buffer: a flush and what it reports *)

\* The innermost call, and the flush under it if it is the report of one.
LEMMA Shapes ==
  ASSUME WholeBuffer, stack # << >>
  PROVE  \E f \in FlushFrames :
           /\ Busy(f)
           /\ \/ stack = <<f>> /\ Top = f /\ Tail(stack) = << >>
              \/ \E r \in ReportFrames :
                   /\ stack = <<r, f>> /\ Top = r /\ Tail(stack) = <<f>>
                   /\ r.step = "bailout" => cut
<1>1. PICK f \in FlushFrames : Busy(f)
  BY DEF WholeBuffer, Idle
<1>2. Flushes(stack, f, cut)
  BY <1>1 DEF Busy
<1>3. CASE stack = <<f>>
  BY <1>1, <1>3 DEF Top
<1>4. ASSUME NEW r \in ReportFrames, stack = <<r, f>>, r.step = "bailout" => cut
      PROVE  /\ stack = <<r, f>> /\ Top = r /\ Tail(stack) = <<f>>
             /\ r.step = "bailout" => cut
  BY <1>4 DEF Top
<1> QED BY <1>1, <1>2, <1>3, <1>4 DEF Flushes

LEMMA FlushShape ==
  ASSUME WholeBuffer, In("flush")
  PROVE  Top \in FlushFrames /\ Busy(Top) /\ stack = <<Top>> /\ Tail(stack) = << >>
<1>1. stack # << >> /\ Top.fn = "flush"
  BY DEF In, Quiet
<1>2. PICK f \in FlushFrames :
           /\ Busy(f)
           /\ \/ stack = <<f>> /\ Top = f /\ Tail(stack) = << >>
              \/ \E r \in ReportFrames :
                   /\ stack = <<r, f>> /\ Top = r /\ Tail(stack) = <<f>>
                   /\ r.step = "bailout" => cut
  BY <1>1, Shapes
<1>3. \A r \in ReportFrames : Top # r
  BY <1>1 DEF ReportFrames
<1> QED BY <1>2, <1>3

\* No flush runs on over another array.
LEMMA NeverStale == ASSUME WholeBuffer PROVE ~FlushStale
<1> SUFFICES ASSUME FlushStale PROVE FALSE
  OBVIOUS
<1>1. In("flush") /\ Top.gen # gen
  BY DEF FlushStale
<1> QED BY <1>1, FlushShape DEF Busy, Live

LEMMA FlushesFlushing ==
  ASSUME NEW s, NEW f, NEW c, Flushes(s, f, c), f.fn = "flush"
  PROVE  Flushing(s)
<1>1. CASE s = <<f>>
  BY <1>1 DEF Flushing
<1>2. ASSUME NEW r, s = <<r, f>> PROVE Flushing(s)
  <2>1. 2 \in DOMAIN s /\ s[2] = f
    BY <1>2
  <2> QED BY <2>1 DEF Flushing
<1> QED BY <1>1, <1>2 DEF Flushes

\* The calls go on with the stack s, over the flush f, which a hook may have
\* logged into.
LEMMA BufferGoes ==
  ASSUME Sound, BufferOn, WholeBuffer, ~disturbed', NEW s, NEW f \in FlushFrames,
         Flushes(s, f, cut'), Live(f, gen, Len(rows), phase),
         Known(rows, nextId, written'), Once(written'), cut => cut',
         Left(rows, nextId, written', f.pos, f.todo),
         Passed(rows, visited', hooked, cut', f.pos, f.todo, f.last),
         UNCHANGED <<setting, phase, lost>>,
         written' = written \/ (stack' = s /\ UNCHANGED <<table, nextId, hooked>>),
         \/ \E k \in Keys : LogCall(k, s)
         \/ stack' = s /\ UNCHANGED <<table, nextId, hooked>>
  PROVE  WholeBuffer'
<1>2. ~cut' => lost' \subseteq hooked
  BY DEF WholeBuffer, Books
<1>3. CASE stack' = s /\ UNCHANGED <<table, nextId, hooked>>
  <2>1. UNCHANGED <<gen, rows, count, nextId, hooked>> /\ stack' = s
    BY <1>3 DEF table
  <2>2. Busy(f)'
    BY <2>1 DEF Busy
  <2>3. Books'
    BY <1>2, <2>1 DEF WholeBuffer, Books, Once
  <2> QED BY <2>2, <2>3 DEF WholeBuffer
<1>4. ASSUME NEW k \in Keys, LogCall(k, s), written' = written PROVE WholeBuffer'
  <2>1. Flushing(s)
    BY FlushesFlushing DEF FlushFrames
  <2>2. /\ rows' = AddRow(k, nextId) /\ count' = count + 1 /\ nextId' = nextId + 1
        /\ gen' = gen /\ stack' = s /\ hooked' = hooked \cup {nextId}
    BY <1>4, <2>1 DEF LogCall
  <2>3. /\ Known(rows', nextId + 1, written)
        /\ Passed(rows', visited', hooked \cup {nextId}, cut', f.pos, f.todo, f.last)
    BY <1>4, <2>2, FiledKnown, FiledPassed
  <2>4. f.todo \in Seq(Nat) /\ Left(rows, nextId, written, f.pos, f.todo)
    BY <1>4 DEF FlushFrames
  <2>5. Left(rows', nextId + 1, written, f.pos, f.todo)
    BY <1>4, <2>2, <2>4, FiledLeft
  <2>6. Len(rows) \in Nat /\ Len(rows') \in Nat /\ Len(rows) <= Len(rows')
    <3>1. rows' \in Seq(Rows) /\ Len(rows) <= Len(rows')
      BY <2>2, NewRows
    <3> QED BY <3>1, Table
  <2>7. Live(f, gen', Len(rows'), phase')
    BY <2>2, <2>6 DEF Live, FlushFrames
  <2>8. Busy(f)'
    BY <1>4, <2>2, <2>3, <2>5, <2>7 DEF Busy
  <2>9. count' # 0
    BY <2>2, Table
  <2>10. Books'
    BY <1>2, <1>4, <2>2, <2>3, <2>9 DEF WholeBuffer, Books, Once
  <2> QED BY <2>8, <2>10 DEF WholeBuffer
<1> QED BY <1>3, <1>4

\* The report r of the flush f goes on.
LEMMA BufferAdvance ==
  ASSUME WholeBuffer, NEW step \in {"warn", "throw", "bailout", "return"}, AtStep(step),
         NEW t \in {"throw", "bailout", "return"}, NEW c, t = "bailout" => c
  PROVE  \E f \in FlushFrames : Busy(f) /\ Flushes(Advance(t), f, c)
<1>1. stack # << >> /\ Top.fn = "report"
  BY DEF AtStep, In, Quiet
<1>2. PICK f \in FlushFrames :
           /\ Busy(f)
           /\ \/ stack = <<f>> /\ Top = f /\ Tail(stack) = << >>
              \/ \E r \in ReportFrames :
                   /\ stack = <<r, f>> /\ Top = r /\ Tail(stack) = <<f>>
                   /\ r.step = "bailout" => cut
  BY <1>1, Shapes
<1>3. Top # f
  BY <1>1 DEF FlushFrames
<1>4. PICK r \in ReportFrames : Top = r /\ Tail(stack) = <<f>>
  BY <1>2, <1>3
<1> DEFINE g == [r EXCEPT !.step = t]
<1>5. g \in ReportFrames /\ g.step = t /\ Advance(t) = <<g>> \o <<f>>
  BY <1>4 DEF ReportFrames, Advance
<1> HIDE DEF g
<1>6. Advance(t) = <<g, f>>
  BY <1>5, Pair
<1> QED BY <1>2, <1>5, <1>6 DEF Flushes

LEMMA BufferReports ==
  ASSUME Sound, BufferOn, WholeBuffer, ~disturbed',
         ReportWarn \/ ReportThrow \/ ReportFatal \/ ReportReturn
  PROVE  WholeBuffer'
<1>1. setting' = setting
  BY DEF ReportWarn, ReportThrow, ReportFatal, ReportReturn
<1>2. ASSUME NEW s, NEW f \in FlushFrames, Busy(f), Flushes(s, f, cut'), cut => cut',
             UNCHANGED <<setting, phase, visited, written, lost>>,
             \/ \E k \in Keys : LogCall(k, s)
             \/ stack' = s /\ UNCHANGED <<table, nextId, hooked>>
      PROVE  WholeBuffer'
  <2>1. /\ Live(f, gen, Len(rows), phase)
        /\ Left(rows, nextId, written, f.pos, f.todo)
        /\ Passed(rows, visited, hooked, cut', f.pos, f.todo, f.last)
    BY <1>2 DEF Busy, Passed
  <2>2. Known(rows, nextId, written') /\ Once(written')
    BY <1>2 DEF WholeBuffer, Books
  <2>3. /\ Left(rows, nextId, written', f.pos, f.todo)
        /\ Passed(rows, visited', hooked, cut', f.pos, f.todo, f.last)
        /\ UNCHANGED <<setting, phase, lost>> /\ written' = written
    BY <1>2, <2>1
  <2> QED BY <1>2, <2>1, <2>2, <2>3, BufferGoes
<1>3. CASE ReportWarn
  <2>1. /\ AtStep("warn") /\ UNCHANGED <<setting, phase, visited, written, lost, cut>>
        /\ \/ LogCall(CriticalKey, Advance("throw"))
           \/ stack' = Advance("throw") /\ UNCHANGED <<table, nextId, hooked>>
    BY <1>3 DEF ReportWarn, Tell, history, marks
  <2>2. PICK f \in FlushFrames : Busy(f) /\ Flushes(Advance("throw"), f, cut')
    BY <2>1, BufferAdvance
  <2> QED BY <1>2, <2>1, <2>2
<1>4. CASE ReportThrow
  <2>1. /\ AtStep("throw") /\ UNCHANGED <<setting, phase, visited, written, lost, cut>>
        /\ \/ LogCall(CriticalKey, Advance("return"))
           \/ stack' = Advance("return") /\ UNCHANGED <<table, nextId, hooked>>
    BY <1>4 DEF ReportThrow, history, marks
  <2>2. PICK f \in FlushFrames : Busy(f) /\ Flushes(Advance("return"), f, cut')
    BY <2>1, BufferAdvance
  <2> QED BY <1>2, <2>1, <2>2
<1>5. CASE ReportFatal
  <2>1. /\ AtStep("throw") /\ UNCHANGED <<setting, phase, visited, written, lost>> /\ cut'
        /\ \/ LogCall(CriticalKey, Advance("bailout"))
           \/ stack' = Advance("bailout") /\ UNCHANGED <<table, nextId, hooked>>
    BY <1>5 DEF ReportFatal, marks
  <2>2. PICK f \in FlushFrames : Busy(f) /\ Flushes(Advance("bailout"), f, cut')
    BY <2>1, BufferAdvance
  <2> QED BY <1>2, <2>1, <2>2
<1>6. CASE ReportReturn
  <2>1. /\ stack # << >> /\ Top.fn = "report" /\ stack' = Tail(stack)
        /\ UNCHANGED <<setting, phase, visited, written, lost, cut, table, nextId, hooked>>
    BY <1>6 DEF ReportReturn, AtStep, In, Quiet, history, marks
  <2>2. PICK f \in FlushFrames :
           /\ Busy(f)
           /\ \/ stack = <<f>> /\ Top = f /\ Tail(stack) = << >>
              \/ \E r \in ReportFrames :
                   /\ stack = <<r, f>> /\ Top = r /\ Tail(stack) = <<f>>
                   /\ r.step = "bailout" => cut
    BY <2>1, Shapes
  <2>3. Top # f
    BY <2>1 DEF FlushFrames
  <2>4. Tail(stack) = <<f>>
    BY <2>2, <2>3
  <2>5. Flushes(Tail(stack), f, cut')
    BY <2>4 DEF Flushes
  <2> QED BY <1>2, <2>1, <2>2, <2>5
<1> QED BY <1>3, <1>4, <1>5, <1>6

-----------------------------------------------------------------------------
(* With a buffer: the rows of a flush *)

LEMMA FirstOff ==
  ASSUME NEW s \in Seq(Nat), s # << >>
  PROVE  /\ Head(s) \in Nat /\ Tail(s) \in Seq(Nat)
         /\ Range(s) = {Head(s)} \cup Range(Tail(s))
         /\ Once(s) => Once(Tail(s)) /\ Head(s) \notin Range(Tail(s))
<1> DEFINE t == Tail(s)
<1>1. /\ Len(t) = Len(s) - 1 /\ Len(s) \in Nat /\ Len(s) >= 1 /\ t \in Seq(Nat)
      /\ Head(s) = s[1] /\ s[1] \in Nat
      /\ \A i \in 1..(Len(s) - 1) : t[i] = s[i + 1]
      /\ DOMAIN s = 1..Len(s) /\ DOMAIN t = 1..Len(t)
  BY Popped, LenProperties
<1> HIDE DEF t
<1>2. \A i \in 1..Len(t) : i + 1 \in 1..Len(s) /\ i + 1 # 1 /\ t[i] = s[i + 1]
  BY <1>1
<1>3. 1 \in 1..Len(s)
  BY <1>1
<1>4. \A i \in 1..Len(s) : i = 1 \/ (i - 1 \in 1..Len(t) /\ t[i - 1] = s[i])
  BY <1>1
<1>5. Range(s) = {Head(s)} \cup Range(t)
  <2>1. \A i \in 1..Len(s) : s[i] \in {Head(s)} \cup Range(t)
    BY <1>1, <1>4 DEF Range
  <2>2. Head(s) \in Range(s)
    BY <1>1, <1>3 DEF Range
  <2>3. \A i \in 1..Len(t) : t[i] \in Range(s)
    BY <1>1, <1>2 DEF Range
  <2>4. Range(s) \subseteq {Head(s)} \cup Range(t)
    BY <1>1, <2>1 DEF Range
  <2>5. Range(t) \subseteq Range(s)
    BY <1>1, <2>3 DEF Range
  <2> QED BY <2>2, <2>4, <2>5
<1>6. ASSUME Once(s) PROVE Once(t) /\ Head(s) \notin Range(t)
  <2>1. ASSUME NEW i \in 1..Len(t), NEW j \in 1..Len(t), t[i] = t[j] PROVE i = j
    <3>1. i + 1 = j + 1
      BY <1>2, <1>6, <2>1 DEF Once
    <3> QED BY <3>1
  <2>2. ASSUME NEW i \in 1..Len(t), t[i] = Head(s) PROVE FALSE
    BY <1>1, <1>2, <1>3, <1>6, <2>2 DEF Once
  <2>3. Once(t)
    BY <2>1 DEF Once
  <2>4. Head(s) \notin Range(t)
    BY <1>1, <2>2 DEF Range
  <2> QED BY <2>3, <2>4
<1> QED BY <1>1, <1>5, <1>6 DEF t

LEMMA NoMessages == Range(<< >>) = {} /\ Once(<< >>)
BY DEF Range, Once

\* What is left behind the row p.
LEMMA LeftBehind ==
  ASSUME NEW rs, NEW n, NEW w, NEW p \in Nat, p \in 1..Len(rs), NEW todo,
         Left(rs, n, w, p, << >>), Known(rs, n, w),
         todo = << >> \/ todo = rs[p].ids
  PROVE  Left(rs, n, w, p + 1, todo)
<1>1. \A i \in 1..Len(rs) : i >= p + 1 => i >= p /\ i # p
  OBVIOUS
<1>2. p >= p
  OBVIOUS
<1>3. /\ \A i \in 1..Len(rs) : i >= p => Once(rs[i].ids) /\ Range(rs[i].ids) \cap Range(w) = {}
      /\ \A i, j \in 1..Len(rs) : i >= p /\ j >= p /\ i # j =>
           Range(rs[i].ids) \cap Range(rs[j].ids) = {}
      /\ \A i \in 1..Len(rs) : \A id \in Range(rs[i].ids) : id < n
  BY DEF Left, Known
<1>4. Once(todo) /\ Range(todo) \cap Range(w) = {} /\ \A id \in Range(todo) : id < n
  BY <1>2, <1>3, NoMessages
<1>5. \A i \in 1..Len(rs) : i >= p + 1 => Range(rs[i].ids) \cap Range(todo) = {}
  BY <1>1, <1>2, <1>3, NoMessages
<1>6. \A i \in 1..Len(rs) : i >= p + 1 =>
        Once(rs[i].ids) /\ Range(rs[i].ids) \cap (Range(w) \cup Range(todo)) = {}
  BY <1>1, <1>3, <1>5
<1>7. \A i, j \in 1..Len(rs) : i >= p + 1 /\ j >= p + 1 /\ i # j =>
        Range(rs[i].ids) \cap Range(rs[j].ids) = {}
  BY <1>1, <1>3
<1> QED BY <1>4, <1>6, <1>7 DEF Left

LEMMA PassedBy ==
  ASSUME NEW rs, NEW v, NEW h, NEW c, NEW p \in Nat, NEW last, NEW todo, NEW v2, Len(rs) \in Nat,
         Passed(rs, v, h, c, p, << >>, last), v \subseteq v2,
         Range(rs[p].ids) \subseteq v2 \cup Range(todo)
  PROVE  Passed(rs, v2, h, c, p + 1, todo, last)
<1>1. \A i \in 1..Len(rs) : i < p + 1 => i < p \/ i = p
  OBVIOUS
<1>2. ASSUME ~c, NEW i \in 1..Len(rs), i < p
      PROVE  Range(rs[i].ids) \subseteq v2 \cup Range(todo) \cup h
  BY <1>2, NoMessages DEF Passed
<1> QED BY <1>1, <1>2 DEF Passed

LEMMA BufferRow ==
  ASSUME Sound, BufferOn, WholeBuffer, ~disturbed', VisitRow \/ VisitFail
  PROVE  WholeBuffer'
<1>1. AtRow /\ In("flush")
  BY DEF VisitRow, VisitFail, AtRow
<1> DEFINE f == Top
           ids == rows[f.pos].ids
<1>2. f \in FlushFrames /\ Busy(f) /\ stack = <<f>> /\ Tail(stack) = << >>
  BY <1>1, FlushShape
<1>3. /\ f.todo = << >> /\ f.pos <= f.last /\ f.last <= Len(rows) /\ f.pos \in 1..Len(rows)
      /\ f.pos \in Nat /\ f.last \in Nat /\ Len(rows) \in Nat /\ ids \in Seq(Nat)
  <2>1. f.pos \in Nat /\ f.last \in Nat /\ Len(rows) \in Nat
    BY <1>2, Table DEF FlushFrames
  <2>2. f.todo = << >> /\ f.pos <= f.last /\ f.last <= Len(rows)
    BY <1>1, <1>2 DEF AtRow, Busy, Live
  <2>3. f.pos >= 1
    BY <1>1, FlushFacts DEF AtRow
  <2>4. f.pos \in 1..Len(rows)
    BY <2>1, <2>2, <2>3
  <2> QED BY <2>1, <2>2, <2>4, Table
<1>4. /\ Live(f, gen, Len(rows), phase)
      /\ Left(rows, nextId, written, f.pos, << >>)
      /\ Passed(rows, visited, hooked, cut, f.pos, << >>, f.last)
      /\ Known(rows, nextId, written) /\ Once(written)
  BY <1>2, <1>3 DEF Busy, WholeBuffer, Books
<1>5. CASE VisitRow
  <2> DEFINE p == f.pos + 1
             h == [f EXCEPT !.pos = p]
             g == [f EXCEPT !.pos = @ + 1, !.todo = ids]
  <2>1. stack' = <<g>> \o << >>
        /\ UNCHANGED <<setting, phase, visited, written, lost, cut, table, nextId, hooked>>
    BY <1>2, <1>5 DEF VisitRow, history, marks
  <2>2. p \in Nat
    BY <1>3
  <2>3. h \in FlushFrames /\ g = [h EXCEPT !.todo = ids] /\ h.pos = p /\ h.last = f.last
        /\ h.gen = f.gen /\ h.reinit = f.reinit
    BY <1>2, <2>2 DEF FlushFrames
  <2>4. Left(rows, nextId, written, p, ids)
    BY <1>3, <1>4, LeftBehind
  <2>5. Passed(rows, visited, hooked, cut, p, ids, f.last)
    BY <1>3, <1>4, PassedBy
  <2>6. p <= f.last + 1
    BY <1>3
  <2> HIDE DEF h, g, p, ids
  <2>7. g \in FlushFrames /\ g.pos = p /\ g.todo = ids /\ g.last = f.last /\ g.gen = f.gen
        /\ g.reinit = f.reinit
    BY <1>3, <2>3 DEF FlushFrames
  <2>8. stack' = <<g>>
    BY <2>1
  <2>9. Flushes(<<g>>, g, cut') /\ Live(g, gen, Len(rows), phase)
    BY <1>4, <2>6, <2>7 DEF Flushes, Live
  <2> HIDE DEF f
  <2>10. /\ Known(rows, nextId, written') /\ Once(written')
         /\ Left(rows, nextId, written', g.pos, g.todo)
         /\ Passed(rows, visited', hooked, cut', g.pos, g.todo, g.last)
    BY <1>4, <2>1, <2>4, <2>5, <2>7
  <2> QED BY <2>1, <2>7, <2>8, <2>9, <2>10, BufferGoes
<1>6. CASE VisitFail
  <2> DEFINE p == f.pos + 1
             g == [f EXCEPT !.pos = @ + 1]
             s == ReportOn(<<g>> \o << >>)
  <2>1. /\ visited' = visited \cup Range(ids)
        /\ UNCHANGED <<setting, phase, written, lost, cut>>
        /\ \/ LogCall(CriticalKey, s)
           \/ stack' = s /\ UNCHANGED <<table, nextId, hooked>>
    BY <1>2, <1>6 DEF VisitFail, NextRow, Tell, marks
  <2>2. p \in Nat
    BY <1>3
  <2>3. /\ g \in FlushFrames /\ g.pos = p /\ g.last = f.last /\ g.todo = << >>
        /\ g.gen = f.gen /\ g.reinit = f.reinit
    BY <1>2, <1>3, <2>2 DEF FlushFrames
  <2>4. Left(rows, nextId, written, p, << >>)
    BY <1>3, <1>4, LeftBehind
  <2>5. Passed(rows, visited', hooked, cut, p, << >>, f.last)
    BY <1>3, <1>4, <2>1, PassedBy
  <2>6. p <= f.last + 1
    BY <1>3
  <2>7. s = <<g>> \/ s = <<ReportFrame, g>>
    <3> HIDE DEF g
    <3> QED BY Pair DEF ReportOn
  <2>8. ReportFrame \in ReportFrames /\ ReportFrame.step = "warn"
    BY DEF ReportFrame, ReportFrames
  <2> HIDE DEF g, p, ids, s
  <2>9. Flushes(s, g, cut') /\ Live(g, gen, Len(rows), phase)
    BY <1>4, <2>3, <2>6, <2>7, <2>8 DEF Flushes, Live
  <2> HIDE DEF f
  <2>10. /\ Known(rows, nextId, written') /\ Once(written')
         /\ Left(rows, nextId, written', g.pos, g.todo)
         /\ Passed(rows, visited', hooked, cut', g.pos, g.todo, g.last)
    BY <1>4, <2>1, <2>3, <2>4, <2>5
  <2> QED BY <2>1, <2>3, <2>9, <2>10, BufferGoes
<1> QED BY <1>5, <1>6

LEMMA BufferMessage ==
  ASSUME Sound, BufferOn, WholeBuffer, ~disturbed', RowWriteOk \/ RowWriteFail
  PROVE  WholeBuffer'
<1>1. In("flush") /\ Top.todo # << >>
  BY DEF RowWriteOk, RowWriteFail, InRow
<1> DEFINE f == Top
           x == Head(f.todo)
           rest == Tail(f.todo)
           g == [f EXCEPT !.todo = Tail(@)]
<1>2. f \in FlushFrames /\ Busy(f) /\ stack = <<f>> /\ Tail(stack) = << >>
  BY <1>1, FlushShape
<1>3. /\ f.todo \in Seq(Nat) /\ f.todo # << >>
      /\ Live(f, gen, Len(rows), phase)
      /\ Left(rows, nextId, written, f.pos, f.todo)
      /\ Passed(rows, visited, hooked, cut, f.pos, f.todo, f.last)
      /\ Known(rows, nextId, written) /\ Once(written) /\ written \in Seq(Nat)
  BY <1>1, <1>2, Table DEF Busy, WholeBuffer, Books, FlushFrames
<1>4. /\ x \in Nat /\ rest \in Seq(Nat) /\ Range(f.todo) = {x} \cup Range(rest)
      /\ Once(rest) /\ x \notin Range(rest) /\ x \notin Range(written) /\ x < nextId
  <2>1. Once(f.todo)
    BY <1>3 DEF Left
  <2>2. /\ x \in Nat /\ rest \in Seq(Nat) /\ Range(f.todo) = {x} \cup Range(rest)
        /\ Once(rest) /\ x \notin Range(rest)
    BY <1>3, <2>1, FirstOff
  <2>3. x \notin Range(written) /\ x < nextId
    BY <1>3, <2>2 DEF Left
  <2> QED BY <2>2, <2>3
<1>5. /\ visited' = visited \cup {x} /\ UNCHANGED <<setting, phase, lost, cut>>
      /\ \/ /\ written' = Append(written, x) /\ stack' = <<g>> \o << >>
            /\ UNCHANGED <<table, nextId, hooked>>
         \/ /\ written' = written
            /\ \/ LogCall(CriticalKey, <<g>> \o << >>)
               \/ stack' = <<g>> \o << >> /\ UNCHANGED <<table, nextId, hooked>>
  BY <1>2 DEF RowWriteOk, RowWriteFail, RowWritten, Tell, marks
<1>6. /\ g \in FlushFrames /\ g.pos = f.pos /\ g.last = f.last /\ g.todo = rest
      /\ g.gen = f.gen /\ g.reinit = f.reinit
  BY <1>2, <1>4 DEF FlushFrames
<1>7. Range(written') \subseteq Range(written) \cup {x} /\ Once(written')
  <2>1. Range(Append(written, x)) = Range(written) \cup {x} /\ Once(Append(written, x))
    BY <1>3, <1>4, Appended
  <2> QED BY <1>3, <1>5, <2>1
<1> HIDE DEF g, rest, x
<1>8. Known(rows, nextId, written')
  BY <1>3, <1>4, <1>7 DEF Known
<1>9. Left(rows, nextId, written', f.pos, rest)
  BY <1>3, <1>4, <1>7 DEF Left
<1>10. Passed(rows, visited', hooked, cut, f.pos, rest, f.last)
  BY <1>3, <1>4, <1>5 DEF Passed
<1>11. Flushes(<<g>>, g, cut') /\ Live(g, gen, Len(rows), phase)
  BY <1>3, <1>6 DEF Flushes, Live
<1> HIDE DEF f
<1>12. /\ Left(rows, nextId, written', g.pos, g.todo)
       /\ Passed(rows, visited', hooked, cut', g.pos, g.todo, g.last)
  BY <1>5, <1>6, <1>9, <1>10
<1>13. /\ written' = written \/ (stack' = <<g>> /\ UNCHANGED <<table, nextId, hooked>>)
       /\ \/ \E k \in Keys : LogCall(k, <<g>>)
          \/ stack' = <<g>> /\ UNCHANGED <<table, nextId, hooked>>
  <2>1. <<g>> \o << >> = <<g>>
    OBVIOUS
  <2> QED BY <1>5, <2>1
<1> QED BY <1>5, <1>6, <1>7, <1>8, <1>11, <1>12, <1>13, BufferGoes

-----------------------------------------------------------------------------
(* With a buffer: the end of a flush, and the script *)

\* With nothing left to write, what is not visited is what hooks logged.
LEMMA AllPassed ==
  ASSUME Sound, NEW last \in Nat, ~cut,
         Passed(rows, visited, hooked, cut, last + 1, << >>, last)
  PROVE  IdsIn(rows) \subseteq visited \cup hooked
<1>1. ASSUME NEW i \in 1..Len(rows) PROVE Range(rows[i].ids) \subseteq visited \cup hooked
  <2>1. i < last + 1 \/ i > last
    OBVIOUS
  <2> QED BY <2>1, NoMessages DEF Passed
<1> QED BY <1>1, Table DEF IdsIn

LEMMA Dropped ==
  ASSUME Sound, Books, NEW last \in Nat, NewTable(<< >>), stack' = << >>,
         Passed(rows, visited, hooked, cut, last + 1, << >>, last),
         UNCHANGED <<setting, nextId, visited, written, cut, hooked>>
  PROVE  WholeBuffer'
<1>1. rows' = << >> /\ lost' = lost \cup (IdsIn(rows) \ visited) /\ Len(<< >>) = 0
  BY DEF NewTable
<1>2. ~cut => lost' \subseteq hooked
  BY <1>1, AllPassed DEF Books
<1>3. Known(rows', nextId, written)
  BY <1>1 DEF Books, Known
<1>4. Books'
  BY <1>1, <1>2, <1>3 DEF Books, Once
<1>5. Left(rows', nextId, written, 1, << >>)
  BY <1>1, NoMessages DEF Left
<1>6. Passed(rows', visited, hooked, cut, Len(rows') + 1, << >>, Len(rows'))
  BY <1>1 DEF Passed
<1>7. Idle'
  BY <1>5, <1>6 DEF Idle
<1> QED BY <1>4, <1>7 DEF WholeBuffer

\* No call is in progress, and RSHUTDOWN has flushed or was cut short.
LEMMA Ended ==
  ASSUME Sound, WholeBuffer, stack' = << >>, phase' = "shutdown",
         UNCHANGED <<setting, table, nextId, visited, written, lost, cut, hooked>>,
         Passed(rows, visited, hooked, cut, Len(rows) + 1, << >>, Len(rows))
  PROVE  WholeBuffer'
<1>1. UNCHANGED <<gen, rows, count>>
  BY DEF table
<1>2. Books'
  BY <1>1 DEF WholeBuffer, Books, Once
<1>3. Idle'
  BY <1>1 DEF Idle
<1> QED BY <1>2, <1>3 DEF WholeBuffer

LEMMA BufferDone ==
  ASSUME Sound, BufferOn, WholeBuffer, FlushDone
  PROVE  WholeBuffer'
<1>1. In("flush") /\ Top.todo = << >> /\ Top.pos > Top.last
  BY DEF FlushDone
<1>2. Top \in FlushFrames /\ Busy(Top) /\ Tail(stack) = << >>
  BY <1>1, FlushShape
<1>3. /\ Top.last \in Nat /\ Top.pos \in Nat /\ Len(rows) \in Nat /\ Top.last <= Len(rows)
      /\ Top.pos = Top.last + 1 /\ (Top.reinit <=> phase # "shutdown")
      /\ Top.reinit \in BOOLEAN
  <2>1. Top.last \in Nat /\ Top.pos \in Nat /\ Len(rows) \in Nat /\ Top.reinit \in BOOLEAN
    BY <1>2, Table DEF FlushFrames
  <2>2. Top.pos <= Top.last + 1 /\ Top.last <= Len(rows) /\ (Top.reinit <=> phase # "shutdown")
    BY <1>2 DEF Busy, Live
  <2> QED BY <1>1, <2>1, <2>2
<1>4. Passed(rows, visited, hooked, cut, Top.last + 1, << >>, Top.last)
  BY <1>1, <1>2, <1>3 DEF Busy
<1>5. stack' = << >> /\ UNCHANGED <<setting, phase, nextId, visited, written, cut, hooked>>
  BY <1>2 DEF FlushDone, marks
<1>6. CASE Top.reinit
  <2>1. NewTable(<< >>)
    BY <1>2, <1>6 DEF FlushDone
  <2> QED BY <1>3, <1>4, <1>5, <2>1, Dropped DEF WholeBuffer
<1>7. CASE ~Top.reinit
  <2>1. UNCHANGED <<table, lost>> /\ phase' = "shutdown"
    BY <1>3, <1>5, <1>7 DEF FlushDone
  <2>2. Passed(rows, visited, hooked, cut, Len(rows) + 1, << >>, Len(rows))
    <3>1. ASSUME ~cut, NEW i \in 1..Len(rows)
          PROVE  Range(rows[i].ids) \subseteq visited \cup Range(<< >>) \cup hooked
      <4>1. i < Top.last + 1 \/ i > Top.last
        BY <1>3
      <4> QED BY <1>4, <3>1, <4>1 DEF Passed
    <3>2. \A i \in 1..Len(rows) : ~(i > Len(rows))
      BY <1>3
    <3> QED BY <3>1, <3>2 DEF Passed
  <2> QED BY <1>5, <2>1, <2>2, Ended
<1> QED BY <1>3, <1>6, <1>7

LEMMA BufferBailout ==
  ASSUME Sound, BufferOn, WholeBuffer, ReportBailout
  PROVE  WholeBuffer'
<1>1. stack # << >> /\ Top.fn = "report" /\ Top.step = "bailout" /\ Len(rows) \in Nat
  BY Table DEF ReportBailout, AtStep, In, Quiet
<1>2. PICK f \in FlushFrames :
         /\ Busy(f)
         /\ \/ stack = <<f>> /\ Top = f /\ Tail(stack) = << >>
            \/ \E r \in ReportFrames :
                 /\ stack = <<r, f>> /\ Top = r /\ Tail(stack) = <<f>>
                 /\ r.step = "bailout" => cut
  BY <1>1, Shapes
<1>3. Top # f
  BY <1>1 DEF FlushFrames
<1>4. cut
  BY <1>1, <1>2, <1>3
<1>5. \A i \in 1..Len(rows) : ~(i > Len(rows))
  BY <1>1
<1>6. Passed(rows, visited, hooked, cut, Len(rows) + 1, << >>, Len(rows))
  BY <1>4, <1>5 DEF Passed
<1>7. /\ stack' = << >> /\ phase' = "shutdown"
      /\ UNCHANGED <<setting, table, nextId, visited, written, lost, cut, hooked>>
  BY DEF ReportBailout, history, marks
<1> QED BY <1>6, <1>7, Ended

\* A flush begins, over all rows.
LEMMA FlushBegun ==
  ASSUME Sound', Books', NEW r \in BOOLEAN, stack' = <<FlushFrame(gen', Len(rows'), r)>>,
         r <=> phase' # "shutdown",
         Left(rows', nextId', written', 1, << >>)
  PROVE  WholeBuffer'
<1>1. gen' \in Nat /\ Len(rows') \in Nat
  BY DEF Sound, TypeOK
<1>2. FlushFrame(gen', Len(rows'), r) \in FlushFrames
  BY <1>1 DEF FlushFrame, FlushFrames
<1> PICK f \in FlushFrames : f = FlushFrame(gen', Len(rows'), r)
  BY <1>2
<1>3. /\ f.gen = gen' /\ f.pos = 1 /\ f.todo = << >> /\ f.last = Len(rows') /\ f.reinit = r
      /\ stack' = <<f>>
  BY DEF FlushFrame
<1>4. Flushes(stack', f, cut') /\ Live(f, gen', Len(rows'), phase')
  BY <1>1, <1>3 DEF Flushes, Live
<1>5. \A i \in 1..Len(rows') : ~(i < 1) /\ ~(i > Len(rows'))
  BY <1>1
<1>6. Passed(rows', visited', hooked', cut', f.pos, f.todo, f.last)
  BY <1>3, <1>5 DEF Passed
<1>7. Left(rows', nextId', written', f.pos, f.todo)
  BY <1>3
<1>8. Books' /\ Busy(f)'
  BY <1>4, <1>6, <1>7 DEF Busy
<1> QED BY <1>8 DEF WholeBuffer

LEMMA ScriptCalls ==
  ASSUME Sound, Sound', BufferOn, Books, Left(rows, nextId, written, 1, << >>),
         phase' # "shutdown", NEW k \in Keys, LogCall(k, << >>),
         UNCHANGED <<setting, visited, written, lost, cut>>
  PROVE  WholeBuffer'
<1>1. ~Flushing(<< >>)
  BY DEF Flushing
<1>2. /\ rows' = AddRow(k, nextId) /\ count' = count + 1 /\ nextId' = nextId + 1
      /\ hooked' = hooked
      /\ stack' = << >> \/ stack' = <<FlushFrame(gen', Len(rows'), TRUE)>> \o << >>
  BY <1>1 DEF LogCall
<1>3. /\ Known(rows', nextId', written') /\ Left(rows', nextId', written', 1, << >>)
  <2>1. << >> \in Seq(Nat)
    OBVIOUS
  <2>2. Known(rows', nextId + 1, written)
    BY <1>2, FiledKnown DEF Books
  <2>3. Left(rows', nextId + 1, written, 1, << >>)
    BY <1>2, <2>1, FiledLeft DEF Books
  <2> QED BY <1>2, <2>2, <2>3
<1>4. Books'
  <2>1. count' # 0
    BY <1>2, Table
  <2> QED BY <1>2, <1>3, <2>1 DEF Books, Once
<1>5. CASE stack' = << >>
  <2>1. Idle'
    BY <1>3, <1>5 DEF Idle
  <2> QED BY <1>4, <2>1 DEF WholeBuffer
<1>6. CASE stack' = <<FlushFrame(gen', Len(rows'), TRUE)>> \o << >>
  <2>1. stack' = <<FlushFrame(gen', Len(rows'), TRUE)>>
    BY <1>6
  <2> QED BY <1>3, <1>4, <2>1, FlushBegun
<1> QED BY <1>2, <1>5, <1>6

LEMMA BufferScript ==
  ASSUME Sound, Sound', BufferOn, WholeBuffer,
         \/ \E k \in Keys : ScriptLog(k)
         \/ ScriptFlush \/ ShutdownStart \/ ShutdownFlush \/ NextRequest
  PROVE  WholeBuffer'
<1>1. stack = << >>
  BY Zenon DEF ScriptLog, ScriptFlush, ShutdownStart, ShutdownFlush, NextRequest, Quiet
<1>2. Idle
  <2>1. ASSUME NEW f, Busy(f) PROVE FALSE
    BY <1>1, <2>1 DEF Busy, Flushes
  <2> QED BY <2>1 DEF WholeBuffer
<1>3. Books /\ Len(rows) \in Nat
  BY Table DEF WholeBuffer
<1>4. phase # "shutdown" => Left(rows, nextId, written, 1, << >>)
  BY <1>2 DEF Idle
<1>5. ASSUME NEW k \in Keys, ScriptLog(k) PROVE WholeBuffer'
  BY <1>3, <1>4, <1>5, ScriptCalls DEF ScriptLog, history
<1>6. ASSUME UNCHANGED <<setting, table, nextId, visited, written, lost, cut, hooked>>
      PROVE  Books' /\ (phase # "shutdown" => Left(rows', nextId', written', 1, << >>))
             /\ rows' = rows
  <2>1. UNCHANGED <<gen, rows, count>>
    BY <1>6 DEF table
  <2>2. Books'
    BY <1>3, <1>6, <2>1 DEF Books, Once
  <2> QED BY <1>4, <1>6, <2>1, <2>2
<1>7. CASE ScriptFlush
  <2>1. /\ UNCHANGED <<setting, table, nextId, visited, written, lost, cut, hooked>>
        /\ phase # "shutdown" /\ phase' # "shutdown"
        /\ stack' = <<FlushFrame(gen, Len(rows), TRUE)>> /\ gen' = gen /\ rows' = rows
    BY <1>7 DEF ScriptFlush, history, marks, table
  <2>2. stack' = <<FlushFrame(gen', Len(rows'), TRUE)>>
    BY <2>1
  <2> QED BY <1>6, <2>1, <2>2, FlushBegun
<1>8. CASE ShutdownStart
  <2>1. ASSUME NEW k \in Keys, LogCall(k, << >>) PROVE WholeBuffer'
    BY <1>3, <1>4, <1>8, <2>1, ScriptCalls DEF ShutdownStart, history
  <2>2. CASE UNCHANGED <<stack, table, nextId, marks>>
    <3>1. /\ UNCHANGED <<setting, table, nextId, visited, written, lost, cut, hooked>>
          /\ stack' = << >> /\ phase # "shutdown" /\ phase' # "shutdown"
      BY <1>1, <1>8, <2>2 DEF ShutdownStart, history, marks
    <3>2. Idle'
      BY <1>6, <3>1 DEF Idle
    <3> QED BY <1>6, <3>1, <3>2 DEF WholeBuffer
  <2> QED BY <1>8, <2>1, <2>2 DEF ShutdownStart
<1>9. CASE ShutdownFlush
  <2>1. /\ UNCHANGED <<setting, table, nextId, visited, written, lost, cut, hooked>>
        /\ phase # "shutdown" /\ phase' = "shutdown" /\ gen' = gen /\ rows' = rows
    BY <1>9 DEF ShutdownFlush, history, marks, table
  <2>2. CASE count >= 1
    <3>1. stack' = <<FlushFrame(gen', Len(rows'), FALSE)>>
      BY <1>9, <2>1, <2>2 DEF ShutdownFlush
    <3> QED BY <1>6, <2>1, <3>1, FlushBegun
  <2>3. CASE ~(count >= 1)
    <3>1. stack' = << >>
      BY <1>9, <2>3 DEF ShutdownFlush
    <3>2. rows = << >>
      BY <1>3, <2>3, Table DEF Books
    <3>3. Passed(rows, visited, hooked, cut, Len(rows) + 1, << >>, Len(rows))
      BY <3>2 DEF Passed
    <3> QED BY <2>1, <3>1, <3>3, Ended
  <2> QED BY <2>2, <2>3
<1>10. CASE NextRequest
  <2>1. /\ NewTable(<< >>) /\ stack' = << >> /\ phase = "shutdown"
        /\ UNCHANGED <<setting, nextId, visited, written, cut, hooked>>
    BY <1>1, <1>10 DEF NextRequest, marks
  <2>2. Passed(rows, visited, hooked, cut, Len(rows) + 1, << >>, Len(rows))
    BY <1>2, <2>1 DEF Idle
  <2> QED BY <1>3, <2>1, <2>2, Dropped
<1> QED BY <1>5, <1>7, <1>8, <1>9, <1>10

-----------------------------------------------------------------------------
(* The invariant holds *)

LEMMA DisturbedKept == ASSUME Next, disturbed PROVE disturbed'
<1>1. ASSUME NEW k, NEW s, LogCall(k, s) PROVE disturbed'
  BY <1>1 DEF LogCall
<1>2. CASE \/ \E k \in Keys : ScriptLog(k)
           \/ ScriptFlush \/ ShutdownStart \/ ShutdownFlush \/ NextRequest
  BY <1>1, <1>2 DEF ScriptLog, ScriptFlush, ShutdownStart, ShutdownFlush, NextRequest, marks
<1>3. CASE WriteOk \/ OpenFail \/ WriteFail \/ VisitRow \/ VisitFail \/ RowWriteOk \/ RowWriteFail
  BY <1>1, <1>3 DEF WriteOk, OpenFail, WriteFail, VisitRow, VisitFail, RowWriteOk,
                    RowWriteFail, Tell, marks
<1>4. CASE \/ FlushDone \/ FlushStale \/ ReportWarn \/ ReportThrow \/ ReportFatal
           \/ ReportBailout \/ ReportReturn
  BY <1>1, <1>4 DEF FlushDone, FlushStale, ReportWarn, ReportThrow, ReportFatal,
                    ReportBailout, ReportReturn, Tell, marks
<1> QED BY <1>2, <1>3, <1>4 DEF Next, InCall

LEMMA NextBuffer ==
  ASSUME Sound, Sound', BufferOn, Paired(stack), WholeBuffer, ~disturbed', Next
  PROVE  WholeBuffer'
<1>1. CASE \/ \E k \in Keys : ScriptLog(k)
           \/ ScriptFlush \/ ShutdownStart \/ ShutdownFlush \/ NextRequest
  BY <1>1, BufferScript
<1>2. CASE WriteOk \/ OpenFail \/ WriteFail
  <2>1. stack # << >> /\ Top.fn = "write" /\ stack \in Seq(Frames)
    BY <1>2 DEF WriteOk, OpenFail, WriteFail, In, Quiet, Sound, TypeOK
  <2> QED BY <2>1, PairedPopped, Popped DEF Top
<1>3. CASE VisitRow \/ VisitFail
  BY <1>3, BufferRow
<1>4. CASE RowWriteOk \/ RowWriteFail
  BY <1>4, BufferMessage
<1>5. CASE FlushDone
  BY <1>5, BufferDone
<1>6. CASE FlushStale
  BY <1>6, NeverStale
<1>7. CASE ReportWarn \/ ReportThrow \/ ReportFatal \/ ReportReturn
  BY <1>7, BufferReports
<1>8. CASE ReportBailout
  BY <1>8, BufferBailout
<1> QED BY <1>1, <1>2, <1>3, <1>4, <1>5, <1>6, <1>7, <1>8 DEF Next, InCall

LEMMA NextWhole ==
  ASSUME Sound, Sound', Loops, Whole, Next
  PROVE  Whole'
<1>1. setting' = setting
  BY SettingKept
<1>2. BufferOn' <=> BufferOn
  BY <1>1 DEF BufferOn
<1>3. CASE ~BufferOn
  BY <1>2, <1>3, NextDirect DEF Whole
<1>4. CASE BufferOn
  <2>1. CASE disturbed'
    BY <1>2, <1>4, <2>1 DEF Whole
  <2>2. CASE ~disturbed'
    <3>1. ~disturbed
      BY <2>2, DisturbedKept
    <3> QED BY <1>2, <1>4, <2>2, <3>1, NextBuffer DEF Whole, Loops
  <2> QED BY <2>1, <2>2
<1> QED BY <1>3, <1>4

LEMMA InitWhole == Init => Whole /\ Reached
<1> SUFFICES ASSUME Init PROVE Whole /\ Reached
  OBVIOUS
<1>1. /\ stack = << >> /\ rows = << >> /\ written = << >> /\ lost = {} /\ count = 0
      /\ hooked = {} /\ ~disturbed /\ phase = "script" /\ Len(<< >>) = 0
  BY DEF Init
<1>2. WholeDirect
  BY <1>1, NoMessages DEF WholeDirect, Apart
<1>3. Left(rows, nextId, written, 1, << >>)
  BY <1>1, NoMessages DEF Left
<1>4. Idle
  BY <1>1, <1>3 DEF Idle
<1>5. Books
  BY <1>1, NoMessages DEF Books, Known
<1> QED BY <1>1, <1>2, <1>4, <1>5 DEF Whole, WholeBuffer, Reached

LEMMA WholeHolds == Spec => [](Sound /\ Whole /\ Reached)
<1>1. Sound /\ Loops /\ Whole /\ Reached /\ [Next]_vars => Whole' /\ Reached'
  <2> SUFFICES ASSUME Sound, Loops, Whole, Reached, [Next]_vars PROVE Whole' /\ Reached'
    OBVIOUS
  <2>1. Sound'
    BY NextSound
  <2>2. CASE UNCHANGED vars
    <3>1. /\ UNCHANGED <<setting, phase, stack, gen, rows, count, nextId, visited, written>>
          /\ UNCHANGED <<lost, cut, hooked, disturbed>>
      BY <2>2 DEF vars
    <3>2. Books' <=> Books
      BY <3>1 DEF Books, Once
    <3>3. Idle' <=> Idle
      BY <3>1 DEF Idle
    <3>4. ASSUME NEW f PROVE Busy(f)' <=> Busy(f)
      BY <3>1 DEF Busy
    <3>5. WholeBuffer' <=> WholeBuffer
      BY <3>2, <3>3, <3>4 DEF WholeBuffer
    <3>6. WholeDirect' <=> WholeDirect
      BY <3>1 DEF WholeDirect, Once
    <3>7. Whole'
      BY <3>1, <3>5, <3>6 DEF Whole, BufferOn
    <3>8. Reached'
      BY <3>1 DEF Reached, WarningsReach, ExceptionsReach, NoticesReach
    <3> QED BY <3>7, <3>8
  <2> QED BY <2>1, <2>2, NextWhole, NextReached
<1> QED BY <1>1, InitWhole, LoopsHold, PTL DEF Spec

\* seaslog_shutdown_buffer, whatever fails: as long as what hooks log while a
\* flush runs neither fills the buffer nor moves its array, a flush is over a
\* live array, writes no message twice, and leaves unreached only what hooks
\* logged behind it; and under settings by which no failure comes back to
\* SeasLog no hook logs in a flush at all.
THEOREM FlushHolds == Spec => []FlushIsWhole
<1>1. ASSUME Sound, Whole, Reached PROVE FlushIsWhole
  <2> SUFFICES ASSUME ~disturbed
               PROVE  NoStaleIterator /\ NeverTwice /\ (~cut => lost \subseteq hooked)
    BY <1>1 DEF FlushIsWhole, Reached
  <2>1. Once(written) /\ (~cut => lost \subseteq hooked)
    BY <1>1 DEF Whole, WholeBuffer, WholeDirect, Books
  <2>2. NeverTwice
    <3>1. DOMAIN written = 1..Len(written)
      BY <1>1 DEF Sound, TypeOK
    <3> QED BY <2>1, <3>1 DEF Once, NeverTwice
  <2>3. NoStaleIterator
    <3>1. CASE ~BufferOn
      <4>1. DOMAIN stack = 1..Len(stack)
        BY <1>1 DEF Sound, TypeOK
      <4> QED BY <1>1, <3>1, <4>1 DEF Whole, WholeDirect, Apart, NoStaleIterator
    <3>2. CASE stack = << >>
      BY <3>2 DEF NoStaleIterator
    <3>3. ASSUME NEW f \in FlushFrames, Busy(f) PROVE NoStaleIterator
      <4>1. Flushes(stack, f, cut) /\ f.gen = gen
        BY <3>3 DEF Busy, Live
      <4>2. CASE stack = <<f>>
        BY <4>1, <4>2 DEF NoStaleIterator
      <4>3. ASSUME NEW r \in ReportFrames, stack = <<r, f>> PROVE NoStaleIterator
        BY <4>1, <4>3 DEF NoStaleIterator, ReportFrames
      <4> QED BY <4>1, <4>2, <4>3 DEF Flushes
    <3> QED BY <1>1, <3>1, <3>2, <3>3 DEF Whole, WholeBuffer, Idle
  <2> QED BY <2>1, <2>2, <2>3
<1> QED BY <1>1, WholeHolds, PTL
=============================================================================
