------------------------------- MODULE DateCache -------------------------------
(***************************************************************************)
(* The two times a worker caches: last_min, whose date names the log file, *)
(* and last_sec, whose text begins the log line (src/src/Datetime.c), with *)
(* the format of that text (setDatetimeFormat) and the part of a log call  *)
(* that uses both (appender_handle_file of src/src/Appender.c). The clock  *)
(* runs on between any two calls of time().                                *)
(***************************************************************************)
EXTENDS Naturals, Sequences

CONSTANTS
  Window,   \* the seconds last_min is kept: 60 in the code
  Period,   \* the seconds a file name covers: a day, or an hour
  Formats,  \* datetime formats, each the sequence of its characters
  DefaultFormat, \* seaslog.default_datetime_format
  MaxTime   \* bound: the last second

ASSUME TimesAssumption ==
  Window \in Nat /\ Period \in Nat \ {0} /\ MaxTime \in Nat
ASSUME FormatsAssumption == DefaultFormat \in Formats /\ << >> \notin Formats

VARIABLES
  now,       \* time(NULL)
  lastMin,   \* SEASLOG_G(last_min): its second and the date for file names
  lastSec,   \* SEASLOG_G(last_sec): its second and the format it is shown in
  format,    \* SEASLOG_G(current_datetime_format)
  formatLen, \* SEASLOG_G(current_datetime_format_len)
  call,      \* "idle", or "dated" in a log call that has its file name
  called,    \* history: the second in which the file name was made
  line       \* history: the latest line: its file and its time

vars == <<now, lastMin, lastSec, format, formatLen, call, called, line>>

Beyond == "what follows the string in memory"
NoLine == [date |-> 0, sec |-> 0, shown |-> << >>, at |-> 0, format |-> << >>]

DateOf(t) == t \div Period

\* php_format_date(f, len, ...): a shorter f is read beyond its end.
Shown(f, len) == [i \in 1..len |-> IF i <= Len(f) THEN f[i] ELSE Beyond]

ProcessLastMin(t) == [sec |-> t, date |-> DateOf(t)]
ProcessLastSec(t, f, len) == [sec |-> t, shown |-> Shown(f, len)]

Init ==
  /\ now \in 0..MaxTime
  /\ format = DefaultFormat /\ formatLen = Len(DefaultFormat)
  /\ lastMin = ProcessLastMin(now)
  /\ lastSec = ProcessLastSec(now, format, formatLen)
  /\ call = "idle" /\ called = now /\ line = NoLine

Tick ==
  /\ now < MaxTime
  /\ now' = now + 1
  /\ UNCHANGED <<lastMin, lastSec, format, formatLen, call, called, line>>

\* RSHUTDOWN, and the RINIT of the next request: seaslog_init_last_time
NextRequest ==
  /\ call = "idle"
  /\ format' = DefaultFormat /\ formatLen' = Len(DefaultFormat)
  /\ lastMin' = ProcessLastMin(now)
  /\ lastSec' = ProcessLastSec(now, format', formatLen')
  /\ line' = NoLine
  /\ UNCHANGED <<now, call, called>>

SetDatetimeFormat(f) ==
  /\ call = "idle"
  /\ format' = f
  /\ lastSec' = ProcessLastSec(now, f, formatLen)
  /\ UNCHANGED <<now, lastMin, formatLen, call, called, line>>

\* Seeded fault: one second more than the window.
MakeRealDate_Late == IF now > lastMin.sec + Window + 1 THEN ProcessLastMin(now) ELSE lastMin

\* Seeded fault: the next period's name as soon as the window is over.
MakeRealDate_Ahead ==
  IF now > lastMin.sec + Window THEN ProcessLastMin(now + Window) ELSE lastMin

MakeRealDate == IF now > lastMin.sec + Window THEN ProcessLastMin(now) ELSE lastMin

\* Seeded fault: the time is cached as long as the date is.
MakeRealTime_Minute ==
  IF now > lastSec.sec + Window
    THEN ProcessLastSec(now, format, formatLen) ELSE lastSec

MakeRealTime ==
  IF now > lastSec.sec THEN ProcessLastSec(now, format, formatLen) ELSE lastSec

\* The file name of a log call ...
LogDate ==
  /\ call = "idle"
  /\ lastMin' = MakeRealDate
  /\ call' = "dated" /\ called' = now
  /\ UNCHANGED <<now, lastSec, format, formatLen, line>>

\* ... and its line, made after it.
LogLine ==
  /\ call = "dated"
  /\ lastSec' = MakeRealTime
  /\ line' = [date |-> lastMin.date, sec |-> lastSec'.sec,
              shown |-> lastSec'.shown, at |-> now, format |-> format]
  /\ call' = "idle"
  /\ UNCHANGED <<now, lastMin, format, formatLen, called>>

Next ==
  \/ Tick \/ NextRequest \/ LogDate \/ LogLine
  \/ \E f \in Formats : SetDatetimeFormat(f)

Spec == Init /\ [][Next]_vars

-----------------------------------------------------------------------------
(* Properties *)

Written == line # NoLine

\* A cached entry is what its own second gives, and no later second is cached.
TypeOK ==
  /\ now \in 0..MaxTime
  /\ lastMin.sec \in 0..now /\ lastMin.date = DateOf(lastMin.sec)
  /\ lastSec.sec \in 0..now
  /\ format \in Formats /\ formatLen = Len(DefaultFormat)
  /\ call \in {"idle", "dated"} /\ called \in 0..now

\* A line goes to the file of the period in which it is logged, or of a
\* period that ended at most Window seconds before the call
\* (make_real_date).
FileLagBounded ==
  call = "dated" =>
    /\ lastMin.date <= DateOf(called)
    /\ \E t \in 0..called : t + Window >= called /\ lastMin.date = DateOf(t)

\* No line is in the file of a period that its own time has not reached: the
\* name is made before the line, and the clock runs forward.
FileNeverAhead == Written => line.date <= DateOf(line.sec)

\* A line shows the second in which it is made (make_real_time), whatever is
\* cached for its file name.
TimeExact == Written => line.sec = line.at

\* README: setDatetimeFormat sets "The DatetimeFormat": the time of a line is
\* shown in the format set last, all of it and nothing else.
FormatWhole == Written => line.shown = line.format
=============================================================================
