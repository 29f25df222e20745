------------------------------ MODULE LogReentry ------------------------------
(***************************************************************************)
(* SeasLog logging from inside SeasLog. What fails in a log call or in a   *)
(* flush is told in up to three ways: PHP warns of a stream that it cannot *)
(* open and notices a failed write, and SeasLog reports what it gives up   *)
(* (seaslog_throw_exception, src/src/ExceptionHook.c) with a warning, an   *)
(* exception, or both. Each reaches SeasLog's own hooks, which log:        *)
(* seaslog_error_cb (src/src/ErrorHook.c) and                              *)
(* seaslog_throw_exception_hook. The calls nest, so the state is a call    *)
(* stack. In RSHUTDOWN there is no script to throw to: PHP makes a fatal   *)
(* error of the exception, which the hook logs, and leaves RSHUTDOWN where *)
(* it is.                                                                  *)
(*                                                                         *)
(* What a write leaves in a file and which streams are kept is modelled in *)
(* StreamCache and LogBuffer. seaslog.level lets CRITICAL messages through. *)
(***************************************************************************)
EXTENDS Naturals, Sequences, FiniteSets, Functions

CONSTANTS
  Settings,    \* settings of a behaviour: see SettingsAssumption
  Keys,        \* buffer keys: log file paths
  CriticalKey, \* the key of what the hooks log
  Retry,       \* seaslog.appender_retry
  Slots,       \* entries that a new array of PHP has room for
  MaxLogs      \* bound: messages numbered when the script calls log

\* A buffer size of 0: the buffer is off. openWarns: PHP itself warns of a
\* stream that cannot be opened, as it does of a TCP or UDP connection, and of
\* a file outside open_basedir.
ASSUME SettingsAssumption ==
  Settings \subseteq
    [throwException : BOOLEAN, ignoreWarning : BOOLEAN,
     traceException : BOOLEAN, traceWarning : BOOLEAN, traceError : BOOLEAN,
     traceNotice : BOOLEAN, openWarns : BOOLEAN, bufferSize : Nat]
ASSUME KeysAssumption == CriticalKey \in Keys
ASSUME BoundsAssumption == Retry \in Nat /\ Slots \in Nat \ {0} /\ MaxLogs \in Nat

VARIABLES
  setting,   \* the settings
  phase,     \* "script", or in RSHUTDOWN: "report" of the performance, "shutdown"
  stack,     \* the calls in progress, innermost first
  gen,       \* which array SEASLOG_G(buffer) is, to the flushes in progress
  rows,      \* its rows, in the hash table's order: a key and its messages
  count,     \* SEASLOG_G(buffer_count)
  errorLoop, \* SEASLOG_G(error_loop)
  pending,   \* EG(exception): an exception is on its way to the script
  nextId,    \* number of the next message
  visited,   \* history: messages some flush has reached
  written,   \* history: the messages written, in order
  lost,      \* history: messages destroyed that no flush had reached
  cut,       \* history: a fatal error has left a RSHUTDOWN
  hooked,    \* history: messages that a hook logged while a flush ran
  disturbed  \* history: one of them filled the buffer, or made the array grow

table   == <<gen, rows, count>>
marks   == <<hooked, disturbed>>
history == <<visited, written, lost, cut>>
vars == <<setting, phase, stack, gen, rows, count, errorLoop, pending, nextId,
          visited, written, lost, cut, hooked, disturbed>>

BufferOn == setting.bufferSize > 0
Quiet == stack = << >>
Top   == Head(stack)
In(fn) == ~Quiet /\ Top.fn = fn
IdsIn(rs) == UNION {Range(rs[i].ids) : i \in DOMAIN rs}
Flushing(s) == \E i \in DOMAIN s : s[i].fn = "flush"

\* left: the attempts at the write that are left.
WriteFrame(id) == [fn |-> "write", id |-> id, left |-> Retry + 1]
ReportFrame    == [fn |-> "report", step |-> "warn"]

\* ZEND_HASH_FOREACH takes the table g and its end when the loop starts. todo:
\* the messages of the row before pos that are left to write.
FlushFrame(g, last, reinit) ==
  [fn |-> "flush", gen |-> g, pos |-> 1, todo |-> << >>, last |-> last,
   reinit |-> reinit]

Init ==
  /\ setting \in Settings
  /\ phase = "script"
  /\ stack = << >>
  /\ gen = 0 /\ rows = << >> /\ count = 0
  /\ errorLoop = 0 /\ pending = FALSE
  /\ nextId = 1
  /\ visited = {} /\ written = << >> /\ lost = {}
  /\ cut = FALSE
  /\ hooked = {} /\ disturbed = FALSE

-----------------------------------------------------------------------------
(* seaslog_log_ex, called with the stack s *)

AddRow(k, id) ==
  IF \E i \in DOMAIN rows : rows[i].key = k
    THEN [i \in DOMAIN rows |->
            IF rows[i].key = k THEN [rows[i] EXCEPT !.ids = Append(@, id)]
                               ELSE rows[i]]
    ELSE Append(rows, [key |-> k, ids |-> <<id>>])

\* An array with no room left is moved to memory twice as large.
Full(n) == \E d \in 0..n : n = Slots * 2^d

\* The next message of k moves an array that a flush of s runs over: the table,
\* or the row whose messages it writes.
Moves(k, s) ==
  IF \E i \in DOMAIN rows : rows[i].key = k
    THEN \E i \in DOMAIN rows, j \in DOMAIN s :
           /\ rows[i].key = k /\ Full(Len(rows[i].ids))
           /\ s[j].fn = "flush" /\ s[j].pos = i + 1 /\ s[j].todo # << >>
    ELSE Flushing(s) /\ Full(Len(rows))

Fills == count + 1 >= setting.bufferSize

LogCall(k, s) ==
  /\ nextId' = nextId + 1
  /\ hooked' = IF Flushing(s) THEN hooked \cup {nextId} ELSE hooked
  /\ IF BufferOn
       THEN /\ rows' = AddRow(k, nextId)
            /\ count' = count + 1
            /\ gen' = IF Moves(k, s) THEN gen + 1 ELSE gen
            /\ stack' = IF Fills THEN <<FlushFrame(gen', Len(rows'), TRUE)>> \o s ELSE s
            /\ disturbed' = (disturbed \/ Moves(k, s) \/ (Fills /\ Flushing(s)))
       ELSE /\ stack' = <<WriteFrame(nextId)>> \o s
            /\ UNCHANGED <<table, disturbed>>

\* The engine tells something, and goes on with the stack s: seaslog_error_cb
\* logs what reaches it, unless an error handler of the script has taken it or
\* there was nothing to tell.
Tell(reaches, s) ==
  \/ reaches /\ LogCall(CriticalKey, s)
  \/ stack' = s /\ UNCHANGED <<table, nextId, marks>>

\* seaslog_throw_exception, called with the stack s.
ReportOn(s) ==
  IF setting.ignoreWarning /\ ~setting.throwException THEN s
                                                      ELSE <<ReportFrame>> \o s

-----------------------------------------------------------------------------
(* The script *)

\* A script that logs again has dealt with the last exception.
ScriptLog(k) ==
  /\ Quiet /\ phase = "script" /\ nextId <= MaxLogs
  /\ LogCall(k, << >>)
  /\ pending' = FALSE
  /\ UNCHANGED <<setting, phase, errorLoop, history>>

\* flushBuffer(1), __destruct, closeLoggerStream
ScriptFlush ==
  /\ Quiet /\ phase = "script" /\ BufferOn /\ count >= 1
  /\ stack' = <<FlushFrame(gen, Len(rows), TRUE)>>
  /\ pending' = FALSE
  /\ UNCHANGED <<setting, phase, table, errorLoop, nextId, history, marks>>

\* RSHUTDOWN begins: seaslog_clear_performance may log a report.
ShutdownStart ==
  /\ Quiet /\ phase = "script"
  /\ phase' = "report"
  /\ pending' = FALSE
  /\ \/ nextId <= MaxLogs /\ \E k \in Keys : LogCall(k, << >>)
     \/ UNCHANGED <<stack, table, nextId, marks>>
  /\ UNCHANGED <<setting, errorLoop, history>>

\* seaslog_shutdown_buffer(RE_INIT_NO)
ShutdownFlush ==
  /\ Quiet /\ phase = "report"
  /\ phase' = "shutdown"
  /\ stack' = IF BufferOn /\ count >= 1
                THEN <<FlushFrame(gen, Len(rows), FALSE)>> ELSE << >>
  /\ UNCHANGED <<setting, table, errorLoop, pending, nextId, history, marks>>

\* A new array, with the calls s still to return; only a flush among them
\* could tell it from the old one.
NewTable(s) ==
  /\ gen' = IF Flushing(s) THEN gen + 1 ELSE 0
  /\ rows' = << >>
  /\ count' = 0
  /\ lost' = lost \cup (IdsIn(rows) \ visited)

\* seaslog_clear_buffer, and the RINIT of the next request; after a fatal
\* error only that.
NextRequest ==
  /\ Quiet /\ phase = "shutdown"
  /\ phase' = "script"
  /\ IF BufferOn THEN NewTable(stack) ELSE UNCHANGED <<table, lost>>
  /\ errorLoop' = 0 /\ pending' = FALSE
  /\ UNCHANGED <<setting, stack, nextId, visited, written, cut, marks>>

-----------------------------------------------------------------------------
(* seaslog_real_log_ex *)

WriteOk ==
  /\ In("write")
  /\ written' = Append(written, Top.id)
  /\ stack' = Tail(stack)
  /\ UNCHANGED <<setting, phase, table, errorLoop, pending, nextId, visited,
                 lost, cut, marks>>

\* process_stream has no stream: PHP may have warned, then SeasLog reports.
OpenFail ==
  /\ In("write") /\ Top.left = Retry + 1
  /\ Tell(setting.openWarns /\ setting.traceWarning, ReportOn(Tail(stack)))
  /\ UNCHANGED <<setting, phase, errorLoop, pending, history>>

\* Seeded fault: the attempts are counted anew, and never end.
WriteFail_Retries ==
  /\ In("write")
  /\ Tell(setting.traceNotice,
          IF Top.left > 1 THEN <<[Top EXCEPT !.left = @ - 1]>> \o Tail(stack)
                          ELSE <<[Top EXCEPT !.left = Retry + 1]>> \o Tail(stack))
  /\ UNCHANGED <<setting, phase, errorLoop, pending, history>>

\* An attempt falls short, of which PHP may give notice.
WriteFail ==
  /\ In("write")
  /\ Tell(setting.traceNotice,
          IF Top.left > 1 THEN <<[Top EXCEPT !.left = @ - 1]>> \o Tail(stack)
                          ELSE ReportOn(Tail(stack)))
  /\ UNCHANGED <<setting, phase, errorLoop, pending, history>>

-----------------------------------------------------------------------------
(* seaslog_shutdown_buffer, real_php_log_buffer *)

AtRow == In("flush") /\ Top.gen = gen /\ Top.todo = << >> /\ Top.pos <= Top.last
InRow == In("flush") /\ Top.gen = gen /\ Top.todo # << >>
NextRow == <<[Top EXCEPT !.pos = @ + 1]>> \o Tail(stack)
RowWritten == <<[Top EXCEPT !.todo = Tail(@)]>> \o Tail(stack)

\* The row has a stream; its loop too takes its end when it starts.
VisitRow ==
  /\ AtRow
  /\ stack' = <<[Top EXCEPT !.pos = @ + 1, !.todo = rows[Top.pos].ids]>> \o Tail(stack)
  /\ UNCHANGED <<setting, phase, table, errorLoop, pending, nextId, history, marks>>

\* process_stream has no stream for the key.
VisitFail ==
  /\ AtRow
  /\ visited' = visited \cup Range(rows[Top.pos].ids)
  /\ Tell(setting.openWarns /\ setting.traceWarning, ReportOn(NextRow))
  /\ UNCHANGED <<setting, phase, errorLoop, pending, written, lost, cut>>

RowWriteOk ==
  /\ InRow
  /\ written' = Append(written, Head(Top.todo))
  /\ visited' = visited \cup {Head(Top.todo)}
  /\ stack' = RowWritten
  /\ UNCHANGED <<setting, phase, table, errorLoop, pending, nextId, lost, cut, marks>>

\* A flush does not look at what php_stream_write returns.
RowWriteFail ==
  /\ InRow
  /\ visited' = visited \cup {Head(Top.todo)}
  /\ Tell(setting.traceNotice, RowWritten)
  /\ UNCHANGED <<setting, phase, errorLoop, pending, written, lost, cut>>

\* Behind the last row the loop does not look at its array again.
FlushDone ==
  /\ In("flush") /\ Top.todo = << >> /\ Top.pos > Top.last
  /\ IF Top.reinit THEN NewTable(Tail(stack)) ELSE UNCHANGED <<table, lost>>
  /\ stack' = Tail(stack)
  /\ UNCHANGED <<setting, phase, errorLoop, pending, nextId, visited, written, cut,
                 marks>>

\* The loop goes on over an array that was destroyed or moved under it:
\* undefined, here the death of the worker.
FlushStale ==
  /\ In("flush") /\ Top.gen # gen /\ (Top.todo # << >> \/ Top.pos <= Top.last)
  /\ stack' = << >> /\ phase' = "script"
  /\ NewTable(<< >>)
  /\ errorLoop' = 0 /\ pending' = FALSE
  /\ UNCHANGED <<setting, nextId, visited, written, cut, marks>>

-----------------------------------------------------------------------------
(* seaslog_throw_exception and the hooks *)

AtStep(step) == In("report") /\ Top.step = step
Advance(step) == <<[Top EXCEPT !.step = step]>> \o Tail(stack)

\* php_error_docref
ReportWarn ==
  /\ AtStep("warn")
  /\ Tell(~setting.ignoreWarning /\ setting.traceWarning, Advance("throw"))
  /\ UNCHANGED <<setting, phase, errorLoop, pending, history>>

Throws == setting.throwException /\ errorLoop <= 1

\* There is no stack frame to throw to.
Fatal  == Throws /\ phase # "script"

\* Seeded fault: one exception too many is let out.
ReportThrow_OffByOne ==
  /\ AtStep("throw") /\ ~Fatal
  /\ IF setting.throwException /\ errorLoop <= 2
       THEN /\ errorLoop' = errorLoop + 1
            /\ pending' = TRUE
            /\ \/ /\ setting.traceException
                  /\ LogCall(CriticalKey, Advance("return"))
               \/ /\ pending \/ ~setting.traceException
                  /\ stack' = Advance("return") /\ UNCHANGED <<table, nextId, marks>>
       ELSE /\ stack' = Advance("return")
            /\ UNCHANGED <<table, nextId, errorLoop, pending, marks>>
  /\ UNCHANGED <<setting, phase, history>>

\* Seeded fault: the exception hook is installed whatever trace_exception says.
ReportThrow_AlwaysHooked ==
  /\ AtStep("throw") /\ ~Fatal
  /\ IF Throws
       THEN /\ errorLoop' = errorLoop + 1
            /\ pending' = TRUE
            /\ LogCall(CriticalKey, Advance("return"))
       ELSE /\ stack' = Advance("return")
            /\ UNCHANGED <<table, nextId, errorLoop, pending, marks>>
  /\ UNCHANGED <<setting, phase, history>>

\* zend_throw_exception_ex calls the hook, if there is one; with another
\* exception pending it may only chain the two.
ReportThrow ==
  /\ AtStep("throw") /\ ~Fatal
  /\ IF Throws
       THEN /\ errorLoop' = errorLoop + 1
            /\ pending' = TRUE
            /\ \/ /\ setting.traceException
                  /\ LogCall(CriticalKey, Advance("return"))
               \/ /\ pending \/ ~setting.traceException
                  /\ stack' = Advance("return") /\ UNCHANGED <<table, nextId, marks>>
       ELSE /\ stack' = Advance("return")
            /\ UNCHANGED <<table, nextId, errorLoop, pending, marks>>
  /\ UNCHANGED <<setting, phase, history>>

\* zend_throw_exception_ex without a script: seaslog_error_cb gets an E_ERROR.
ReportFatal ==
  /\ AtStep("throw") /\ Fatal
  /\ errorLoop' = errorLoop + 1
  /\ IF setting.traceError
       THEN LogCall(CriticalKey, Advance("bailout"))
       ELSE stack' = Advance("bailout") /\ UNCHANGED <<table, nextId, marks>>
  /\ cut' = TRUE
  /\ UNCHANGED <<setting, phase, pending, visited, written, lost>>

\* php_error_cb bails out of RSHUTDOWN, with every call in progress.
ReportBailout ==
  /\ AtStep("bailout")
  /\ stack' = << >> /\ phase' = "shutdown"
  /\ UNCHANGED <<setting, table, errorLoop, pending, nextId, history, marks>>

ReportReturn ==
  /\ AtStep("return")
  /\ stack' = Tail(stack)
  /\ UNCHANGED <<setting, phase, table, errorLoop, pending, nextId, history, marks>>

-----------------------------------------------------------------------------
InCall ==
  \/ WriteOk \/ OpenFail \/ WriteFail
  \/ VisitRow \/ VisitFail \/ RowWriteOk \/ RowWriteFail
  \/ FlushDone \/ FlushStale
  \/ ReportWarn \/ ReportThrow \/ ReportFatal \/ ReportBailout \/ ReportReturn

Next ==
  \/ \E k \in Keys : ScriptLog(k)
  \/ ScriptFlush \/ ShutdownStart \/ ShutdownFlush \/ NextRequest
  \/ InCall

Spec == Init /\ [][Next]_vars

\* A call into the extension runs on by itself.
FairSpec == Spec /\ WF_vars(InCall)

-----------------------------------------------------------------------------
(* Properties *)

Frames ==
  [fn : {"write"}, id : Nat, left : Nat] \cup
  [fn : {"report"}, step : {"warn", "throw", "bailout", "return"}] \cup
  [fn : {"flush"}, gen : Nat, pos : Nat, todo : Seq(Nat), last : Nat,
   reinit : BOOLEAN]

TypeOK ==
  /\ setting \in Settings /\ phase \in {"script", "report", "shutdown"}
  /\ stack \in Seq(Frames)
  /\ gen \in Nat /\ count \in Nat /\ errorLoop \in 0..2
  /\ rows \in Seq([key : Keys, ids : Seq(Nat)])
  /\ pending \in BOOLEAN /\ cut \in BOOLEAN /\ disturbed \in BOOLEAN
  /\ nextId \in Nat
  /\ visited \subseteq Nat /\ lost \subseteq Nat /\ hooked \subseteq Nat
  /\ written \in Seq(Nat)

\* The failures that SeasLog is reporting one inside the other.
Nested == Cardinality({i \in DOMAIN stack : stack[i].fn = "report"})

\* A failure comes back to SeasLog as a warning, of SeasLog or of PHP, as an
\* exception, or as a notice of PHP.
WarningsReach ==
  setting.traceWarning /\ (~setting.ignoreWarning \/ setting.openWarns)
ExceptionsReach == setting.throwException /\ setting.traceException
NoticesReach == setting.traceNotice

\* What a hook logs of a failure fails as well: nothing in the code ends that
\* for warnings and notices, when each is written at once, or by a flush
\* inside the flush that failed.
FlushInFlush ==
  \E i, j \in DOMAIN stack : i # j /\ stack[i].fn = "flush" /\ stack[j].fn = "flush"
HooksLoop == (WarningsReach \/ NoticesReach) /\ (~BufferOn \/ FlushInFlush)

\* package.xml: "Fix error and exception hook dead loop". error_loop lets two
\* exceptions out, so that a report never holds more than two others in it; it
\* does not count warnings and notices, which only a buffer that is not full
\* keeps from nesting.
DepthBounded == ~HooksLoop => Nested <= 3

\* Every call into SeasLog comes back to the script, whatever fails and
\* whatever its hooks log meanwhile, unless it gets to where warnings or
\* notices of a failure fail and are told for ever (HooksLoop).
CallReturns == ~Quiet ~> (Quiet \/ HooksLoop)

\* README: a full buffer is "rewritten down into the Data Store [...] and then
\* refresh the memory poll": the array a flush runs over is not destroyed
\* before the flush ends.
NoStaleIterator ==
  \A i \in DOMAIN stack : stack[i].fn = "flush" => stack[i].gen = gen

NeverTwice == \A i, j \in DOMAIN written : written[i] = written[j] => i = j

\* Whatever fails, and whatever hooks log while a flush runs, as long as that
\* neither fills the buffer nor outgrows the memory of its array: a flush runs
\* over a live array, no message is written twice, and all that is destroyed
\* unreached is what hooks logged behind the loop. And only failures that come
\* back are logged in a flush: under all other settings it is whole as it is.
\* A fatal error in RSHUTDOWN comes back by trace_error, and leaves the rest
\* of the messages where they are.
FlushIsWhole ==
  /\ ~disturbed => NoStaleIterator /\ NeverTwice /\ (~cut => lost \subseteq hooked)
  /\ disturbed => hooked # {}
  /\ hooked # {} => \/ WarningsReach \/ ExceptionsReach \/ NoticesReach
                    \/ cut /\ setting.traceError
=============================================================================
