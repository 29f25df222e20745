---------------------------- MODULE DateCacheProofs ----------------------------
(***************************************************************************)
(* Proofs about DateCache, for every window, period, set of formats and    *)
(* length of time.                                                         *)
(***************************************************************************)
EXTENDS DateCache, Integers, TLAPS

USE TimesAssumption, FormatsAssumption

\* A later second is in the same period or a later one.
LEMMA LaterPeriod ==
  ASSUME NEW s \in Nat, NEW t \in Nat, s <= t
  PROVE  DateOf(s) <= DateOf(t) /\ DateOf(s) \in Nat
<1> DEFINE P == Period
<1>1. P \in Nat /\ P > 0
  OBVIOUS
<1>2. /\ s \div P \in Int /\ t \div P \in Int
      /\ P * (s \div P) <= s /\ t < P * (t \div P) + P /\ s < P * (s \div P) + P
  BY <1>1, SMTT(30)
<1> HIDE DEF P
<1>3. s \div P <= t \div P
  <2> SUFFICES ASSUME t \div P < s \div P PROVE FALSE
    BY <1>2
  <2>1. (t \div P) + 1 <= s \div P
    BY <1>2
  <2>2. P * ((t \div P) + 1) <= P * (s \div P)
    <3> DEFINE q == t \div P
               r == s \div P
    <3> SUFFICES P * (q + 1) <= P * r
      OBVIOUS
    <3>1. q \in Int /\ r \in Int /\ q + 1 <= r
      BY <1>2, <2>1
    <3> HIDE DEF q, r
    <3> QED BY <1>1, <3>1, SMTT(30)
  <2>3. P * ((t \div P) + 1) = P * (t \div P) + P
    <3> DEFINE q == t \div P
    <3>1. q \in Int
      BY <1>2
    <3> HIDE DEF q
    <3>2. P * (q + 1) = P * q + P
      BY <1>1, <3>1, SMTT(30)
    <3> QED BY <3>2 DEF q
  <2> QED BY <1>1, <1>2, <2>2, <2>3
<1>4. s \div P \in Nat
  BY <1>1, SMTT(30)
<1> QED BY <1>3, <1>4 DEF P, DateOf

\* What the call that is under way found, and what the latest line shows.
Recent ==
  call = "dated" => lastMin.sec <= called /\ lastMin.sec + Window >= called

DateInv == TypeOK /\ Recent /\ FileNeverAhead /\ TimeExact

LEMMA InitDates == Init => DateInv
<1> SUFFICES ASSUME Init PROVE DateInv
  OBVIOUS
<1>1. TypeOK
  BY DEF Init, TypeOK, ProcessLastMin, ProcessLastSec
<1> QED BY <1>1 DEF Init, DateInv, Recent, FileNeverAhead, TimeExact, Written

LEMMA NextDates == DateInv /\ [Next]_vars => DateInv'
<1> SUFFICES ASSUME DateInv, [Next]_vars PROVE DateInv'
  OBVIOUS
<1>1. /\ now \in Nat /\ lastMin.sec \in Nat /\ lastMin.sec <= now /\ lastSec.sec \in Nat
      /\ lastSec.sec <= now /\ called \in Nat /\ called <= now /\ Window \in Nat
  BY DEF DateInv, TypeOK
<1>2. CASE Tick
  <2>1. TypeOK'
    BY <1>2 DEF Tick, DateInv, TypeOK
  <2> QED BY <1>2, <2>1 DEF Tick, DateInv, Recent, FileNeverAhead, TimeExact, Written
<1>3. CASE NextRequest
  <2>1. TypeOK'
    BY <1>3 DEF NextRequest, DateInv, TypeOK, ProcessLastMin, ProcessLastSec
  <2> QED BY <1>3, <2>1 DEF NextRequest, DateInv, Recent, FileNeverAhead, TimeExact, Written
<1>4. ASSUME NEW f \in Formats, SetDatetimeFormat(f) PROVE DateInv'
  <2>1. TypeOK'
    BY <1>4 DEF SetDatetimeFormat, DateInv, TypeOK, ProcessLastSec
  <2> QED BY <1>4, <2>1
        DEF SetDatetimeFormat, DateInv, Recent, FileNeverAhead, TimeExact, Written
<1>5. CASE LogDate
  <2>1. \/ now > lastMin.sec + Window /\ lastMin' = ProcessLastMin(now)
        \/ ~(now > lastMin.sec + Window) /\ lastMin' = lastMin
    BY <1>5 DEF LogDate, MakeRealDate
  <2>2. TypeOK'
    BY <1>1, <1>5, <2>1 DEF LogDate, DateInv, TypeOK, ProcessLastMin
  <2>3. Recent'
    BY <1>1, <1>5, <2>1 DEF LogDate, Recent, ProcessLastMin
  <2> QED BY <1>5, <2>2, <2>3 DEF LogDate, DateInv, FileNeverAhead, TimeExact, Written
<1>6. CASE LogLine
  <2>1. lastSec'.sec = now
    BY <1>1, <1>6 DEF LogLine, MakeRealTime, ProcessLastSec
  <2>2. TypeOK'
    BY <1>1, <1>6, <2>1 DEF LogLine, DateInv, TypeOK
  <2>3. /\ line'.date = lastMin.date /\ line'.sec = now /\ line'.at = now
        /\ call' = "idle"
    BY <1>6, <2>1 DEF LogLine
  <2>4. lastMin.date <= DateOf(now)
    BY <1>1, LaterPeriod DEF DateInv, TypeOK
  <2> QED BY <2>2, <2>3, <2>4 DEF DateInv, Recent, FileNeverAhead, TimeExact
<1>7. CASE UNCHANGED vars
  BY <1>7 DEF vars, DateInv, TypeOK, Recent, FileNeverAhead, TimeExact, Written
<1> QED BY <1>2, <1>3, <1>4, <1>5, <1>6, <1>7 DEF Next

LEMMA DatesHold == Spec => []DateInv
<1>1. Init => DateInv
  BY InitDates
<1>2. DateInv /\ [Next]_vars => DateInv'
  BY NextDates
<1> QED BY <1>1, <1>2, PTL DEF Spec

\* A cached time or date is what its own second gives, and none is of the
\* future.
THEOREM TypeCorrect == Spec => []TypeOK
<1>1. DateInv => TypeOK
  BY DEF DateInv
<1> QED BY <1>1, DatesHold, PTL

\* A log call goes to the file of its own period, or of one that ended at most
\* Window seconds before it.
THEOREM FileLag == Spec => []FileLagBounded
<1>1. ASSUME DateInv, call = "dated"
      PROVE  /\ lastMin.date <= DateOf(called)
             /\ \E t \in 0..called : t + Window >= called /\ lastMin.date = DateOf(t)
  <2>1. /\ lastMin.sec \in Nat /\ called \in Nat /\ lastMin.sec <= called
        /\ lastMin.sec + Window >= called /\ lastMin.date = DateOf(lastMin.sec)
    BY <1>1 DEF DateInv, TypeOK, Recent
  <2>2. lastMin.date <= DateOf(called)
    BY <2>1, LaterPeriod
  <2>3. lastMin.sec \in 0..called
    BY <2>1
  <2> QED BY <2>1, <2>2, <2>3
<1>2. DateInv => FileLagBounded
  BY <1>1 DEF FileLagBounded
<1> QED BY <1>2, DatesHold, PTL

\* No line is in the file of a period that its own time has not reached.
THEOREM NeverAhead == Spec => []FileNeverAhead
<1>1. DateInv => FileNeverAhead
  BY DEF DateInv
<1> QED BY <1>1, DatesHold, PTL

\* Every line shows the second in which it is made.
THEOREM ExactTime == Spec => []TimeExact
<1>1. DateInv => TimeExact
  BY DEF DateInv
<1> QED BY <1>1, DatesHold, PTL

=============================================================================
