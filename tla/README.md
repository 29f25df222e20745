# SeasLog in TLA+

SeasLog is a logging extension for PHP, written in C: a script calls
`SeasLog::info(...)`, and the extension decides by logger, level and date which
file (or TCP/UDP server) the line goes to, keeps it in memory for a while if
told to, and writes it. It also logs errors and exceptions of PHP, traces the
performance of a script, and comes with a small PHP program that searches the
logs in parallel and mails what it finds.

This directory holds specifications of its state machines, the TLC
configurations that check them, and proofs about the log buffer, its abstract
store, the stream cache, the re-entry of hooks, the date cache, the logger
cache, the lines and their search, the tracer with its report and the parallel
analyzer. Everything is translated from the source; a path without a directory
is under `src/src/` (`Buffer.c` is `src/src/Buffer.c`), and the lines each
definition stands for are in `PROJECT.json`, under `map`. The PHP 7 side of the
`#if`s is followed.

## The system

A PHP worker is one process (or thread, each with its own globals) that runs
one request after another. All state of the extension is in
`SEASLOG_G(...)`, the globals of `php_seaslog.h`; MINIT runs once per process,
RINIT and RSHUTDOWN around each request. Inside a worker nothing is concurrent,
but calls nest (SeasLog's own failures come back to SeasLog through PHP's
hooks), a request ends anywhere, the process dies anywhere, and the file system
is shared with other workers and with an administrator who rotates files.

| Component | Source | State | Operations |
| --- | --- | --- | --- |
| log buffer | `Buffer.c` | `enable_buffer_real`, `buffer`, `buffer_count`, `buffer_size` | switch at MINIT; file a message and count it; flush; clear; renew |
| stream cache | `StreamWrapper.c` | `stream_list`: hash of the path to an open stream | look up (and `stat`), open, replace, close all, close by name |
| appender | `Appender.c` | none | write with retries; make directories; choose path and buffer |
| logger cache | `Logger.c` | `base_path`, `last_logger`, `tmp_logger`, `logger_list` | resolve a logger; rebuild the last one; clear |
| date cache | `Datetime.c` | `last_min`, `last_sec`, `current_datetime_format` and its length | date of a file name, time of a line, change of format |
| hooks | `ExceptionHook.c`, `ErrorHook.c` | `error_loop`, the installed hooks | report a failure; log PHP's errors and exceptions |
| performance tracer | `Performance.c` | `stack_level`, `performance_frames`, `function_hash_counters`, `performance_buckets` | frame begin and end; report |
| request variables | `Request.c` | `request_variable`, `request_id` | read from `$_SERVER`, set by the script |
| template, helpers | `TemplateFormatter.c`, `Common.c` | `current_template`, `level_template` | expand in two passes, replace placeholders, check the level |
| log search | `Analyzer.c` | none (reads `logger_access`) | count and list with `cat`, `tac`, `grep`, `sed` in a shell |
| PHP interface | `seaslog.c` | none of its own | the methods of class SeasLog; MINIT, RINIT, RSHUTDOWN |
| parallel analyzer | `Analyzer/core/analyzer/pcntl.php` | batches, children | cut into batches, fork, wait |

How they meet: a log method calls `seaslog_log_ex`, which resolves the logger
(logger cache), names the file (date cache), makes the line (template, date
cache) and hands it to the buffer or writes it (appender, stream cache). A
flush writes through the stream cache. A failure anywhere calls
`seaslog_throw_exception`, which warns and throws, and so may call the hooks,
which call `seaslog_log_ex` again. RSHUTDOWN reports the performance (a log
call), flushes the buffer and clears the caches, in this order.

What is hard, and what would make each part right:

- **buffer**: no accepted message vanishes or doubles over flushes, partial
  failures, discards, size changes, request ends and crashes; order is kept; a
  crash costs at most one buffer; nothing waits for ever.
- **stream cache**: TRUE means written once and whole, FALSE means nowhere
  whole; a stream serves one path only, over rotations and re-creations by
  other workers; every call returns; `closeLoggerStream` closes what it names.
- **hooks**: the nesting of failures is bounded and comes back; a nested call
  does not destroy what an outer one works on.
- **logger cache**: a line goes to the logger it names, whatever was cached;
  the directory is there when it is needed.
- **date cache**: how far the file name may lag behind the line.
- **line**: two passes and one replacement after the other give what one
  expansion of the template would; an array of messages is logged up to where
  its result says.
- **log search**: a search for a level finds the lines of that level; reading
  page by page misses nothing, although the worker goes on writing.
- **tracer**: levels balance, the profile is that of the call tree, the report
  shows the longest functions.
- **parallel analyzer**: each analysis runs exactly once.

The hazards, each at its line, are listed in `PROJECT.json` under `hazards`.

## The modules

| Module | Models | Checked by |
| --- | --- | --- |
| `LogBuffer` | the buffer of one worker over requests and crashes | `LogBuffer.cfg`, `LogBufferSizeZero.cfg`, `LogBufferProofs` |
| `LogStore` | abstract: an append-only log per key with a queue of accepted messages | |
| `LogBufferRefinement` | the refinement mapping from `LogBuffer` to `LogStore` | `LogBuffer.cfg` |
| `LogBufferProofs` | six theorems about `LogBuffer`, and that it implements `LogStore` | TLAPS |
| `StreamCache`, `StreamCacheMC` | the stream lists of several workers, files, rotation, connections, retries | `StreamCache.cfg` |
| `StreamCacheProofs` | five theorems about `StreamCache` | TLAPS |
| `LogReentry`, `LogReentryMC` | the call stack of log calls, flushes, reports and hooks | `LogReentry.cfg`, `LogReentryFlush.cfg` |
| `LogReentryProofs` | three theorems about `LogReentry`: types, depth and flushes | TLAPS |
| `LoggerCache`, `LoggerCacheMC` | base path, loggers, directories | `LoggerCache.cfg` |
| `LoggerCacheProofs` | five theorems about `LoggerCache` | TLAPS |
| `DateCache`, `DateCacheMC` | the two cached times against a running clock | `DateCache.cfg`, `DateCacheFormat.cfg` |
| `DateCacheProofs` | four theorems about `DateCache` | TLAPS |
| `LogLine` | operators: template, placeholders, `grep` and `sed` over texts | `LogSearch.cfg` |
| `LogText` | extends it: request variables, log calls with arrays and contexts, the line | `LogSearch.cfg` |
| `LogSearch`, `LogSearchMC` | extends it: a reader that counts and pages while the worker writes | `LogSearch.cfg` |
| `LogSearchProofs` | four theorems about `LogText`, four about `LogSearch` | TLAPS |
| `CallProfile` | frames, levels, counters and buckets of the tracer | `PerformanceReport.cfg` |
| `TopFunctions` | the selection of the longest functions | `PerformanceReport.cfg` |
| `PerformanceReport`, `PerformanceReportMC` | both together: requests, and the report over their buckets | `PerformanceReport.cfg` |
| `PerformanceProofs` | three theorems about `CallProfile`, four about `PerformanceReport` | TLAPS |
| `AnalyzerFork`, `AnalyzerForkMC` | batches, forks and children of the analyzer | `AnalyzerFork.cfg`, `AnalyzerForkRest.cfg` |
| `AnalyzerForkProofs` | three theorems about `AnalyzerFork` | TLAPS |

A module that ends in `MC` gives TLC the values of structured constants.
Operators marked "Seeded fault" are the definitions next to them with a
plausible bug; no specification uses them. Each property of each passing run
is violated when one of them takes the place of its neighbour (`mutants`).

### LogBuffer

A message is the number of its log call; a key is the path (or logger) it is
filed under. `phase` is where the worker is in a request. `keys` is the order of
the hash table, `keyPos` and `msgPos` are the two loops of
`seaslog_shutdown_buffer` and `real_php_log_buffer`, so that a crash may come
between any two writes. Each log call either files a message and starts a flush
when the count reaches the size (`LogBuffered`), or, without a buffer, is
written or refused at once (`LogDirect`). The result of a write in a flush is
ignored by the code, and so a short write loses its message; a key that cannot
be opened loses all of its messages. `lost` says to which cause.

`LogStore` says what a caller may rely on: per key, messages queue up, are
committed from the head or dropped. In the mapping the queue of a key is the
part of its buffer the running flush has not visited, and `gone` is what is
lost to any cause.

No log call starts while a flush runs here. That is what the code does as long
as the hooks do not log; `LogReentry` is about the settings in which they do.

### StreamCache

What a worker opens is a number in the order of creation, so that "the same
path" and "the same file" are different things. A log call is four steps:
called, looked up (`process_stream` asks whether a file of that name exists, or
`php_stream_eof` whether the connection is up), opened, written; between any two
of them another worker may create the file, an administrator take it away
(`TakeAway`) or the server end the connection (`Disconnect`). With the appender
FILE the stream list has an entry per path; with TCP and UDP it has one for all
(`EntryOf`), and a number is a connection, whose content is what was handed to
the stream. A short write leaves a part of the message, and the retry starts the
message anew. `orphans` are the streams whose entry was replaced. The buffer is
off; hashes of paths are taken to be distinct.

### LogReentry

The state is the stack of calls in progress: a direct write with the attempts
left, a flush with its position, the messages of the row it writes (`todo`) and
the array it started on, a report with its next step. A failure is told in up to
three ways, and each may log through a hook (`Tell`):

- PHP itself warns of a stream that cannot be opened. A TCP or UDP connection
  that fails does so whatever `ignore_warning` says, for it is opened with
  `REPORT_ERRORS`; a file does where `open_basedir` forbids it. `openWarns` says
  that it does (`OpenFail`, `VisitFail`).
- PHP gives notice of a write that falls short (`WriteFail`, at each attempt;
  `RowWriteFail`). With `trace_notice` that is logged.
- SeasLog's own report (`seaslog_throw_exception`) warns unless told not to
  (`ReportWarn`), and throws while `error_loop` allows (`ReportThrow`), which
  `seaslog_throw_exception_hook` may log.

In RSHUTDOWN there is no script to throw to: PHP makes a fatal error of the
exception, which `seaslog_error_cb` may log, and leaves RSHUTDOWN at once with
all calls in progress (`ReportFatal`, `ReportBailout`; `cut` remembers it).

`gen` tells the arrays apart while a flush runs. A nested flush destroys the
array of the outer one, and a message appended to a full array moves it to
larger memory (`Full`, `Moves`), the table as well as a row. What happens when
the loop goes on over either is undefined; here the worker dies when it looks
there next (`FlushStale`). `hooked` remembers what hooks logged while a flush
ran, and `disturbed` that this filled the buffer or moved an array.

Left out: the report of directories that cannot be made comes before the call it
belongs to goes on; and a script may have an error handler of its own that logs,
which is one more way for a failure to come back.

### LoggerCache

A directory is a base path and a sequence of names. `make_log_dir` makes the
missing directories from the top and may stop at any (`MakeDir`).
`process_logger` is `EnterList` (a new logger is listed with its path and
access, found now) and `Processed` (the entry that comes out). The first RINIT,
too, may make only a part of the default directory. `excused` are the
directories the environment refused or removed in this request: what is missing
below them is not the code's fault. Hashes of loggers are taken to be distinct
and not 0.

### DateCache

`now` advances between any two calls of `time()`; a log call names its file
(`LogDate`) and makes its line later (`LogLine`). A format is the sequence of
its characters, and formatting with a wrong length cuts it or reads beyond it.

### LogLine, LogText and LogSearch

A text is a sequence of tokens: a character that the code looks at (`%`, `{`,
`}`, a line feed, a specifier's letter), or a token for a piece of text that it
only copies. `LogLine` has the operators. `Format` is one pass of
`seaslog_template_formatter`: it replaces the specifiers it knows and keeps the
others, so that the first pass (the variables of the request, at RINIT and at
each `setRequestVariable`) leaves those of the second (time, level, message).
`LevelTemplate` is the literal text around `%L`, which a search for a level
looks for. `StrReplace` begins again at the start after each replacement, up to
`MaxRounds`; one that has not ended then never does.

`LogText` is the worker: `NextRequest` makes the variables and both templates,
`SetRequestVariable` makes the template again, `Log` starts a call with its
array of messages, `WriteOk` and `WriteFail` are its messages one by one,
`Filtered` those below the level. Each `%M` of the second pass takes an argument
of the formatter, and one is passed: with two of them, be it that a variable
brought one in, the code reads what nobody passed, which is undefined. Here the
worker dies of it, before the line is anywhere (`OneMessage`, `StrayArgument`).
`setRequestID` is put in by the second pass and needs no new template. `out` is
where the lines are: one file, one per level (`disting_type`), or the server
with the RFC 5424 header before each line.

`LogSearch` adds a reader whose every command is one step between the worker's
writes: `FirstPage` and `NextPage` are `get_detail` with the start and limit of
`analyzerDetail`, `TypeCount` is `get_type_count`. `recent` keeps the order
`ls -t` gives. A pattern stands for itself; no instance has a character that
`grep` or the shell would read as anything else, nor two tokens that differ in
case only.

### CallProfile, TopFunctions and PerformanceReport

`php` is PHP's own call stack with what the hook returned for each call;
`calls` is the history of the request's calls. `ProfileExact` recomputes from
that history what the buckets must be, by a recursive function over the call
tree. `Bailout` leaves all calls without their return hooks. `TopFunctions`
takes the buckets one by one in any order; each goes through the insertion and
the shift of `process_seaslog_performance_log`. `PerformanceReport` is the
request around both: at its end the report runs over the buckets that the calls
have left (`ReportStart`), or over those of a request too long to be followed
call by call (`ReportLong`).

### AnalyzerFork

`BatchArray` is `getBatchArray` case by case. Children run their batches
concurrently; an analysis that throws ends its child.

## What the runs show

Runs that pass:

| Run | Properties | Bounds |
| --- | --- | --- |
| `buffer` | `TypeOK`, `Accounting`, `StoredInOrder`, `CountIsExact`, `LossIsBounded`, `NothingCleared`, `ImplementsFairStore` | 2 keys, 5 log calls, sizes 0 and 2 from php.ini, 1 and 3 from `ini_set` |
| `stream` | `TypeOK`, `ResultIsTrue`, `NoForeignFile`, `StaleOnlyIfRecreated`, `ForgottenAreGone`, `CallReturns` | files and connections; 2 workers, 2 paths, 3 calls, 1 retry, 2 files or connections made |
| `reentry` | `TypeOK`, `FlushIsWhole`, `DepthBounded`, `CallReturns` | all settings in which no warning or notice comes back, without a buffer and with size 2; all in which one does, with size 30; 3 keys, 1 retry, arrays of 2 slots that grow, the script logs up to message 3 |
| `logger_cache` | `TypeOK`, `RightLogger`, `BaseOfFirstUse`, `PathReady`, `NoAccessOnlyIfRefused` | 2 base paths, a plain logger and one in a module, both `disting_folder` |
| `date_cache` | `TypeOK`, `FileLagBounded`, `FileNeverAhead`, `TimeExact` | window 2, period 3, ten seconds |
| `log_search` | `TypeOK`, `LineIsExpanded`, `KilledOnlyByBraces`, `ArrayStops`, `LevelFound`, `PagesWhole` | 4 templates, 2 servers, 4 calls of up to two messages, 3 searches; 2 log calls in a behaviour, 4 replacements of a placeholder |
| `call_profile` | `TypeOK`, `LevelBalanced`, `ProfileExact`, `ReportIsTop`, `ReportIsProfile` | 2 functions with one hash, start depth 2, 4 calls, 2 requests; or up to 4 functions on 2 levels, wall times 1 to 3, 3 ranks |
| `analyzer_fork` | `TypeOK`, `AllRunOnce`, `MasterEnds` | one pair of numbers per case of `getBatchArray` |

Each property, with the code it is about, is stated in a comment above its
definition. In a sentence each, those that say the most:

- `Accounting`: each message numbered so far was refused, is stored once, is in
  the buffer and not yet visited, or is lost to a named cause.
- `ImplementsFairStore`: every behaviour is one of the abstract log, and no
  message waits for ever in a worker that runs on.
- `LossIsBounded`: what a crash would cost now is at most one buffer.
- `ResultIsTrue`: TRUE means once and whole, FALSE nowhere whole, over short
  writes, retries, rotations and lost connections.
- `StaleOnlyIfRecreated`: the `stat` (or the end-of-file test) before each write
  does its work; what it leaves is a file or connection that went away after it,
  or a file that another worker has re-created under the same name.
- `ForgottenAreGone`: what falls out of a stream list is never a file or
  connection that is still in use.
- `FlushIsWhole`: whatever fails, and whatever hooks log while a flush runs, as
  long as that neither fills the buffer nor moves its array: the flush runs over
  a live array, writes no message twice, and only what hooks logged behind its
  loop is destroyed unreached, unless a fatal error cuts RSHUTDOWN short. And
  hooks log in a flush only where the settings let a failure come back.
- `DepthBounded`: `error_loop` lets two exceptions out, and so three failures
  at most are reported one inside the other. Left out is `HooksLoop`: warnings
  or notices come back and are written at once, or by a flush inside a flush.
- `CallReturns` (of `LogReentry`): every call comes back to the script, unless it
  gets to `HooksLoop`, which nothing ends while writes fail.
- `PathReady`: the directory of a log file is there when it is opened, unless it
  was refused or removed in this request. Without `disting_folder`, for a logger
  in a module, this is so below the base path of its first use only.
- `BaseOfFirstUse`: a line goes below the current base path or below the one
  the logger was first used with in this request, and nowhere else.
- `FileLagBounded`: the file of a line is that of a period that was current no
  longer ago than the window.
- `LineIsExpanded`: two passes over the template and one placeholder after the
  other give the line that one expansion from left to right gives, with the
  variables as they are at the call. `Plain` names the lines it is about: those
  in which no pass meets what an earlier one put in. The first pass puts no `%`
  in, the context no brace, no placeholder is inside another, and none overlaps
  another.
- `ArrayStops`: of an array of messages exactly a first part is logged, and all
  of it when the result is TRUE.
- `LevelFound`: a search for a level looks for the text around `%L` with the
  level in it. It finds the lines of that level and no others, and counts each of
  them once, also in a file of several levels and where a message makes a line of
  several rows. `OneLevel` names what this takes: a template of one line with one
  `%L`, no `%` in what the first pass puts in, and the name of a level in nothing
  that the template, a variable, a message or a context gives a line. Else `ERROR`
  in a message is found as a level where nothing is around `%L`.
- `PagesWhole`: a reader who pages through a growing log misses no line.
- `ProfileExact`: the buckets are those of the request's call tree, although
  functions collide, recur and are left by `exit`.
- `ReportIsProfile`: the report shows of that call tree what took longest, with
  the tree's times.

Runs that find what a document says violated by what the code does (quoted in
`PROJECT.json` under `findings`):

| Run | Property | What happens |
| --- | --- | --- |
| `buffer_size_zero` | `NothingCleared` | `ini_set` of `buffer_size` to 0 stops the counting, the shutdown flush returns early, RSHUTDOWN destroys the messages |
| `reentry_flush` | `NoStaleIterator` | with `trace_exception`, a failing flush is re-entered and its array destroyed under it |
| `date_format` | `FormatWhole` | `setDatetimeFormat` keeps the old length |
| `analyzer_rest` | `AllRunOnce` | six analyses, two processes: three batches of two, the third never run |

### Differences met while modelling

The modules show more places where the code does less than a reader of its
documents may expect, beside the runs above. They have no run of their own; the
passing properties are stated so that they say what does hold there.

- `StreamWrapper.c:287`: the stream of a rotated file is replaced in the list
  and stays open until the end of the request; `closeLoggerStream()` does not
  reach it. These are the `orphans` of `StreamCache`, and `ForgottenAreGone`
  says that only files and connections that are gone become orphans.
- `Appender.c:44`: with TCP, a write to a connection that ended after the lookup
  may still succeed: the call returns TRUE and the line is nowhere. A UDP socket
  never reports its end.
- `StreamWrapper.c:120`: closing one logger's stream by name closes every
  stream whose path contains the name (`Mentions` in `StreamCache`).
- `ErrorHook.c:87`, `ErrorHook.c:93`: `error_loop` counts neither warnings nor
  notices. With `trace_warning = 1` a stream that does not open is warned of, the
  hook logs the warning, that one does not open either, and so on while writes
  fail: with `ignore_warning = 0` by SeasLog's own warning, and with TCP and UDP
  whatever that setting says, for PHP warns of the connection
  (`StreamWrapper.c:37`). With `trace_notice = 1` it is so of writes that fall
  short. A buffer that is not full takes the message up and ends it. `HooksLoop`
  is where nothing does, and all that `DepthBounded` and `CallReturns` leave out.
- `ExceptionHook.c:138`: a write that fails in RSHUTDOWN throws where no script
  runs. PHP ends RSHUTDOWN with a fatal error; the messages behind the failing
  key are never written (`cut` in `FlushIsWhole`), and when the fatal error
  itself is logged into the full buffer they are flushed from the beginning
  (`disturbed`).
- `seaslog.c:353`: `initRComplete` stays set after RSHUTDOWN, so that an error
  another extension raises there is still logged, with freed caches.
- `ExceptionHook.c:129`: `error_loop` is reset at RINIT only, and so the third
  failure of a request throws nothing.
- `Buffer.c:236`: what a hook logs in the middle of a flush under a key the
  array did not have is destroyed at the end of that flush (`hooked` in
  `FlushIsWhole`). And a flush inside a flush writes the messages that the outer
  one has visited once more (`disturbed`).
- `Logger.c:103`: without `disting_folder`, `setLogger('a/b')` and then
  `setBasePath` leave the directory `a` of the log file unmade, and so does RINIT
  where the default logger is in a module. `PathReady` is of the base path of a
  logger's first use there.
- `Logger.c:208`, `Logger.c:228`: a logger used before `setBasePath` goes on
  under the old base path (`BaseOfFirstUse`).
- `Datetime.c:106`: up to a minute of a new hour or day goes to the file of the
  old one (`FileLagBounded`).
- `Performance.c:358`: a recursive call is counted at the level of the frame it
  recurs on, not at its depth; `ProfileExact` is stated with the levels of the
  code.
- `Performance.c:594`, `Performance.c:621`, `Performance.c:669`: a hash code of 0
  and a wall time of 0 are also the marks of an unused rank. A hash code is taken
  modulo 1024 (`Performance.c:335`), so that of one name in 1024 is 0: its bucket
  is overwritten in the first rank, and not shown in any; and what is behind it in
  a row is no longer in order. A bucket of no wall time never takes the place of
  an unused rank but the first. The inputs of `call_profile` have neither, and
  `NoMarks` excludes them from the proofs.
- `TemplateFormatter.c:157`: the second pass expands what the first put in. Of
  the address `/caf%C3%A9` it takes the `%C` for the class and action, a `%B`
  shows the base path, and a `%M` the message (`LineIsExpanded` excludes variables
  with a `%`).
- `TemplateFormatter.c:313`: each `%M` takes an argument, and one is passed. A
  template with two, or a request variable with one in it, makes the formatter
  read an argument that is not there (`StrayArgument`).
- `Common.c:103`: `str_replace` never ends when a value contains its own
  placeholder: the request dies of its time or memory limit
  (`KilledOnlyByBraces`).
- `Common.c:146`: where placeholders overlap, or one is inside another, the key
  that comes first in the context decides what the line shows (`Plain`).
- `Common.c`, `message_trim_wrap`: with `trim_wrap` the line feeds are replaced
  in the caller's own string.
- `Appender.c:113`: the header of TCP and UDP is `host domain pid logger`, and
  `README.md:814` of the repository shows `{HostName} {loggerName}[{pid}]:`.
  Without a domain it has `(null)`.
- `Request.c:45`: host and process id are read at RINIT; a child made by
  `pcntl_fork` logs its parent's, and writes its parent's buffer once more.
- `TemplateFormatter.c:146`: a template without `%L` makes a search for a level
  look for `ALL`; and `grep -i` reads the text around `%L` as a regular
  expression, upper and lower case alike.
- `Analyzer.c`, `get_detail`: lines with the base path in them are taken for
  messages of the shell and left out. With `%B` in the template nothing is
  shown, and an empty page does not mean the end (`PagesWhole` excludes it). A
  limit of 0 gives one line, a start of 0 none.
- `Analyzer.c`: newest first over several files, the order is `ls -t`, and a
  write between two pages may bring another file to the front, so that lines
  move back across the page boundary and are missed (`PagesWhole` excludes it).

### Why the bounds are enough

The log calls suffice to fill a buffer, flush it, and start the next one, with
both keys in it, in one request and across two; sizes below, at and above the
messages at hand occur, so that `ini_set` meets a buffer that is already over
the new size. Two workers and two created files give: my file gone, and
re-created by me or by the other. In `LogReentry` size 2 is the smallest buffer
that a hook can refill inside a flush, and size 30 one that no hook fills, for
what comes back of three messages is less; with two slots the table and its rows
outgrow their memory under the loop. Where warnings or notices come back and the
buffer is smaller, or off, the calls nest for ever, so that no run is exhaustive
there; the theorems of `LogReentryProofs` cover all sizes. With one retry a
failed attempt is followed by another. Three messages of the script fill the
buffer and begin the next, and what hooks log of them makes one failure more
than `error_loop` allows. In `DateCache` window and period have no common
factor, so that a period ends at every place of a window; in the code they are
60 and 3600 or 86400. In `CallProfile` start depth 2 has calls skipped above it,
and four calls nest a function in itself through another one that collides with
it. The number of functions of a long request is one more than that of the
ranks, so that every shift and every function pushed out occurs. In `LogSearch`
the templates have `%L` in the middle, at the beginning and not at all, an
unknown specifier, one that ends in `%`, the base path, and a second `%M`, and
one request has a specifier in its address; the contexts have values that are
plain, that are the key of the next pair, and that bring their own placeholder
back; two calls put lines of two levels into one file or into two with the
reader between them. What `PagesWhole` excludes for several files needs three
calls, so that at this size the run would not show it; the exclusion is what the
code says. Four replacements are more than a message of the run has opening
braces (`BracesAssumption`), so that what has not ended then owes it to a value.
The analyzer's numbers take every branch.

### Fairness

- `LogBuffer` (`FairSpec`): the steps of a flush and of RSHUTDOWN are C code
  that runs on; every script ends (its last statement, or
  `max_execution_time`), after which PHP calls RSHUTDOWN. No fairness is given
  to log calls, requests or crashes.
- `StreamCache`: a worker inside a log call runs on; administrators, servers and
  other workers owe nothing. The retry loop is finite in the code, and that is
  what `CallReturns` tests.
- `LogReentry`: the code of the extension runs on; the script owes nothing.
- `AnalyzerFork`: the operating system runs the master and every child on.
- All other properties are safety, checked without fairness.

## What is proved

| Module | Theorem | Says | Assumes |
| --- | --- | --- | --- |
| `LogBufferProofs` | `TypeCorrect` | `Spec => []TypeOK` | `SizesAssumption`, `MaxLogsAssumption` |
| | `AccountingHolds` | `Spec => []Accounting` | the same |
| | `OrderHolds` | `Spec => []StoredInOrder` | the same |
| | `CountHolds` | `Spec => []CountIsExact` | ... and no script sets the size to 0 |
| | `LossHolds` | `Spec => []LossIsBounded` | ... and no script sets the size to 0 |
| | `ShutdownHolds` | `Spec => []NothingCleared` | ... and no script sets the size to 0 |
| | `StoreImplemented` | `Spec => Store!StoreSpec` | `SizesAssumption`, `MaxLogsAssumption` |
| `StreamCacheProofs` | `TypeCorrect` | `Spec => []TypeOK` | the assumptions of `StreamCache` |
| | `OwnFile` | `Spec => []NoForeignFile` | the same |
| | `StaleStreams` | `Spec => []StaleOnlyIfRecreated` | the same |
| | `ForgottenStreams` | `Spec => []ForgottenAreGone` | the same |
| | `TrueResults` | `Spec => []ResultIsTrue` | the same |
| `LogReentryProofs` | `TypeCorrect` | `Spec => []TypeOK` | the assumptions of `LogReentry` |
| | `DepthHolds` | `Spec => []DepthBounded` | the same |
| | `FlushHolds` | `Spec => []FlushIsWhole` | the same |
| `DateCacheProofs` | `TypeCorrect` | `Spec => []TypeOK` | the assumptions of `DateCache` |
| | `FileLag` | `Spec => []FileLagBounded` | the same |
| | `NeverAhead` | `Spec => []FileNeverAhead` | the same |
| | `ExactTime` | `Spec => []TimeExact` | the same |
| `LoggerCacheProofs` | `CallsGoToTheirLogger` | `Spec => []RightLogger` | the assumptions of `LoggerCache` |
| | `BaseKnown` | `Spec => []BaseOfFirstUse` | the same |
| | `TypeCorrect` | `Spec => []TypeOK` | the same |
| | `PathsReady` | `Spec => []PathReady` | the same |
| | `AccessRight` | `Spec => []NoAccessOnlyIfRefused` | the same |
| `PerformanceProofs` | `TypeCorrect` | `Spec => []TypeOK` | the assumptions of `CallProfile` |
| | `LevelHolds` | `Spec => []LevelBalanced` | the same |
| | `ProfileHolds` | `Spec => []ProfileExact` | the same |
| | `ReportImplements` | `ReportSpec => Spec` | ... and those of `PerformanceReport` |
| | `ReportTyped` | the three properties above of `ReportSpec` | the same |
| | `ReportTopHolds` | `ReportSpec => []ReportIsTop` | ... and `NoMarks` |
| | `ReportProfileHolds` | `ReportSpec => []ReportIsProfile` | ... and `NoMarks` |
| `LogSearchProofs` | `ArrayHolds` | `Spec => []ArrayStops` | the assumptions of `LogText` |
| | `KilledHolds` | `Spec => []KilledOnlyByBraces` | the same |
| | `TypeCorrect` | `Spec => []TypeOK` | the same |
| | `LinesExpanded` | `Spec => []LineIsExpanded` | the same |
| | `SearchWritesNothing` | `SearchSpec => Spec` | ... and those of `LogSearch` |
| | `SearchLinesHold` | the four properties above of `SearchSpec` | the same |
| | `PagesHold` | `SearchSpec => []PagesWhole` | the same |
| | `LevelsFound` | `SearchSpec => []LevelFound` | the same |
| `AnalyzerForkProofs` | `TypeCorrect` | `Spec => []TypeOK` | the assumptions of `AnalyzerFork` |
| | `NoneTwice` | no analysis is run twice, none that broke off was run | the same |
| | `AllRunHolds` | `Spec => []AllRunOnce` | ... and every pair of numbers `Fits` |

All hold for every value of the constants: any number of keys, workers, paths,
loggers, calls and files, any sizes, retries, window and period.

**Log buffer.** The assumption about the size is needed: `buffer_size_zero` is
what happens without it. `TypeOK` is inductive: `BufferShape` in it ties the
hash-table order to the buffer and the flush position to both. `Accounting` and
`StoredInOrder` are not. Their inductive invariant `IInv` adds that every number
in the buffer is below `nextId`, that each key's buffer is in order and shares no
message with another key's, and that what is stored for a key is before
everything still to be visited for it: without it a flush could append an old
message behind a new one. The proof has one lemma per action; the two steps that
move a flush (`FlushOpenInv`, `FlushWriteInv`) rest on four lemmas that say how
the set of messages still to visit changes when the position moves
(`CurrentTodo`, `NextKeyTodo`, `NextMsgTodo`, `DoneTodo`). `CountInv` adds that
sizes are positive while the buffer is on and that an idle buffer is not full;
from it `LossIsBounded` follows, since a flush begins with the call that fills
the buffer. `ClearInv` says that when RSHUTDOWN is about to destroy the buffer
every message has been visited.

**Refinement.** `StoreImplemented` maps the initial state and each step. The
queue of a key is the part of its buffer that the flush has not visited, and so
a step of the flush is a suffix that loses its head (`SuffixFacts`): a write that
succeeds is a commit, one that fails a drop, and the end of a key that cannot be
opened, a discard or a crash drops several at once. Steps that only move the
flush are stutters.

**Stream cache.** `Sound` is `TypeOK` with `Known`: whatever a path names, a list
caches or has forgotten was opened before. On it rest two invariants.
`FilesInv` follows the files: of which path and worker each name and each entry
is (`Named`), what a worker holds while it writes (`Held`), that the forgotten
are apart from what is in use (`Forgotten`), when an open replaces an entry
(`OpensStale`), and from these that a stream is the right one (`Right`). It gives
`OwnFile`, `StaleStreams` and `ForgottenStreams`. `Honest` follows the messages:
calls under way have different numbers, nothing is written whole before the call
that writes it returns, and the attempts made with those left are not more than
`Retry + 1` (`Tally`). The lemmas `WritePlaces` and `WriteCounts` say how one
write changes the set of places of a message and its cardinality. It gives
`TrueResults`.

**Re-entry of hooks.** `Sound` is `TypeOK` with `StackOK`: each flush in progress
is over the array of now, which has the rows it goes to, or over one that is
gone.

`DepthBounded` follows from `Loops`, which has a half for each reason. While no
warning and no notice comes back (`Silent`), `Deep` says that every report with
another call on top of it has let an exception out, of which `error_loop` counts
at most two; a report on top of all makes three. The reports are counted from the
outermost (`Under`), so that a call on top does not move them. With a buffer,
`Paired` says that nothing is written at once and every report is that of a flush
right below it, so that one flush in progress makes one report.

`FlushIsWhole` has a part for the settings and one for the flush. `Reached` says
that in a flush only failures that come back are logged. `Whole`, without a
buffer, says that the writes in progress are of messages of their own, not yet
written (`WholeDirect`, `Apart`). With a buffer that was not disturbed
(`WholeBuffer`), a row has its key alone and each number is below `nextId`
(`Books`), and there is no flush (`Idle`), or the one of `Busy`: what it has left
to write is in one place and not yet written (`Left`), and what is before that, or
behind its last row, was visited or logged by a hook (`Passed`). A hook's message
is filed in a row before the position, at it or behind it (`Filed`), and each of
these keeps the two (`FiledLeft`, `FiledPassed`). So the array is destroyed with
nothing else in it (`Dropped`), and the step on which the worker dies never comes
(`NeverStale`).

**Date cache.** `Recent` says that a date in use is that of a second no more than
the window before the call; `LaterPeriod`, that a later second is not in an
earlier period.

**Logger cache.** `Routed` says of each of the three caches what it holds: the
list a path for each logger under the base path of its first use (`ListOK`), an
entry its own logger and hash (`EntryOK`), the entry of one call the path of the
list (`TmpOK`), the last logger the one set last (`LastOK`), and the entry in use
the one asked for (`UseOK`). `LastOK` is weaker than `TmpOK`: after `setBasePath`
the last logger keeps its hash with a path the list does not have. `Settled`,
kept beside it, follows the directories. What is above a directory are the
prefixes of its name (`Holds`, `AboveHolds`); a directory that is not there is
excused if it, or one above it, was removed or refused (`Excused`). No step takes
an excuse away or an unexcused directory (`DirMade`, `DirRemoved`, `Lasting`), so
that the directory of each logger in the list is there or excused (`ListSettled`);
of the last logger this holds where its path names its directory (`LastSettled`),
or is the one the list has.

**Tracer.** That the level is balanced is not inductive, for the end of a frame
takes it back whatever it is. `Inv` counts the calls on PHP's stack that will
give something back (`Number`) and says that this is there: a frame for each
traced call (`FramesCover`), a level for each counted one (`LevelCovers`), and in
each hash counter the frames of that hash (`CounterCovers`). These hold after a
bailout too, which takes the calls and leaves the rest; `Balance`, that there is
nothing else, holds until then. `Minimum`, from a well-founded order on the
numbers, finds the frame whose level a nested call takes.

**Profile.** `ExactInv` adds, until a bailout, that PHP's stack is a path in the
call tree (`PhpTree`): calls that have not returned, the last begun first, traced
from the start depth on. There is a frame for each traced call on it, in the same
order, with the start and the level its call should have (`FramesTree`), and the
buckets are what the tree says (`BucketsExact`). The frame that a new call takes
its level from is therefore that of the nearest call of the same function, though
the code finds it by hash and comparison (`FrameLevelIs`), and the frame that a
return takes is that of the call that returns (`HeadsAgree`). `Idle` says that a
request without a sample leaves neither buckets nor traced calls. The level of a
call in the tree is a recursive function, and the time of a bucket a sum over a
set. Both exist because a least counterexample would contradict itself
(`LevelsExist`, `SumsExist`); a later call or the end of one changes no level
(`LevelsKept`), and a sum does not depend on the order (`SumWithout`). `NoneLost`
is the converse of `PhpTree`: what has not returned is on PHP's stack.

**Report.** A step of `PerformanceReport` leaves the tracer's state alone or is
one of its steps, so that what is proved of the tracer holds while reports are
made. A row of the report is filled up to a rank with buckets it was given, in
order and none twice, and unused behind it; a bucket that is not in it found it
full of no shorter ones (`RowOK`). `Coming` is the row when the shift, which goes
from the last rank up and swaps, has come down to a rank: the last result is
carried up, the others are one further down (`ComingStep`); so a bucket is put in
before the first it is longer than, and those behind it move down (`MovedIs`,
`MovedOK`). `NoMarks` is needed, for 0 marks an unused result: no function may
hash to 0, and the least wall time that is reported must not be 0; its default is
10. What happens otherwise is among the differences above. `ReportIsProfile`
joins both: when the report is made nothing is on PHP's stack, so every call has
returned and is in a bucket, and the buckets seen are those that the calls have
left (`Left`).

**Parallel analyzer.** `BatchDeals` follows `getBatchArray` case by case: the
batches deal out the analyses (`Deals`), each in one place of one batch. Where a
division leaves no rest, the quotient is taken for the number of batches, which
it is not: `Fits` names the settings in which there are no more batches than
processes. The others are the finding of `analyzer_rest`. `Homes` says of every
place of every batch what became of the analysis in it: not forked yet, run,
broken off by an exception, or before its child, which has the end of its batch
left (`Lefts`). That `Deals` gives each analysis one place keeps a step of one
child away from the analyses of all others, and makes a place of each analysis,
so that `AllRunOnce` follows when all have forked and ended.

**Arrays.** `ArrayInv` says of the call in progress that it has logged exactly
the messages before its next one (`OpenLogged`), of every line that it says the
message that has its place among the lines of its call (`LinesNumbered`) and that
the call is in progress or has returned (`LinesOwned`), and of a call that
returned what the property says. A new line changes the lines of no other call
and comes last in its own (`LineMore`). What a message becomes plays no part, nor
whether the files are searched meanwhile (`SearchWritesNothing`).

**Functions over texts.** The operators of `LogLine` are recursive functions, of
which the prover knows nothing until one is shown to exist. `Iterates` does that
for a function that goes through a sequence from its start, `ItemsThere` for the
two passes over a template, which go back from its end; both take the least place
where there would be none (`Minimum`). Then it is known of each what it returns
for a text: a text of such tokens (`FormatIsSeq`, `StrReplaceIsSeq`,
`StrtrArrayIs`), or as many lines as the text has ends (`LinesOfIs`).

**Replacements.** `KilledOnlyByBraces` needs a measure. A placeholder begins with
a brace, and so a replacement whose value has none leaves one brace fewer in the
text (`BraceLess`); after as many rounds as there were braces nothing is found
(`StrReplaceEnds`), and what is left for the next pair has no more of them
(`StrtrArrayIs`). `BracesAssumption` is what makes `MaxRounds` no bound on this:
no message has more braces of its own than the model has rounds. A value with a
brace may go on past any bound, and there the property claims nothing.

**Files.** `LineInv` adds to `ArrayInv` that all texts are texts (`TextsInv`),
that a result and a line are of calls of the script (`SayingsInv`), and
`FilesInv`: only the files have rows that the settings name, each row is of a
line that was said, and `recent` has each file with rows once. For the last,
every entry must have a line at all (`NewRowsAre`), which it has because it ends
in a line feed.

**Search.** What a search finds stays in it, in the same order, when a line is
written (`FoundGrows`). `IsIn` says that by an embedding, a growing function from
the places of one sequence to those of the other; files that grow at their ends
have it, also read backwards (`MoreIsIn`), and files one after the other
(`FlattenIsIn`), or one alone (`ContentIs`), and a `grep` keeps it (`GrepIsIn`).
An embedding only moves a row further back (`EmbedsGrows`), and so `ReaderInv`
holds: whatever the reader was due and has not got is at the start of his next
page or behind it (`Ahead`), and no page of his was empty. A page takes what comes
before the next start, without a gap (`PageGoesOn`). From the newest of several
files on there is no embedding, and with lines that are not shown a page may be
empty: what `PagesWhole` excludes is what this argument cannot do without.

The first attempt at these proofs found a flaw of the model. `Items` was a `CASE`
whose guards overlapped at the end of a template. TLC takes the first arm that
fits, which was what the code does; the meaning of such a `CASE` is any of them.
Its arms now exclude each other.

**Lines.** `LineIsExpanded` compares two ways to make a line, and neither is the
other step by step: the code goes over the template twice and over the message
once for each key, always from the start. Both halves need a law of how a text is
read from its front: what a pass makes of it is what it makes of the first
character, specifier or placeholder, before what it makes of the rest
(`FormatAre`, `InterpolationGoes`, `ReplaceGoes`). Each recursive function obeys
its law because what it gives from a place on does not depend on what is before
that place (`TableShift`, `PutTableShift`).

For the template this is enough: a specifier that the first pass has no value for
stays as it is, a value without `%` is text to the second (`FormatText`), and so
two passes do what one does with the values of both (`TwoPasses`).

For the message it is not. A replacement could join an opening brace before it
with text behind it to a placeholder that was not there. `Flat` excludes that: an
opening brace has a closing one before the next, so in front of a placeholder
there is no open one. It is kept by a replacement (`ReplaceFlat`), and in a flat
text the end of a placeholder is never new where a brace could use it
(`ClosingStays`). Then the replacements of one key, each from the start, are one
pass for that key (`StrReplaceOnce`); and a pass for one more key after those
before it is a pass for all of them (`OnePairMore`), by induction over the text:
where an earlier placeholder begins, where the new one does, or neither. The last
step is the context, pair after pair (`StrtrArrayOnce`).

`LineWritten` joins this to the state: the template of now is that of the request
and of what the script has set (`RequestNow`), and the rows of a line are in one
file, all of them, with the text in two passes (`RowsInv`, `RowsWrite`).

The proof found that the property had claimed too much. With the keys `b` and
`a}{b`, in this order, the placeholders `{b}` and `{a}{b}` overlap; of a message
`{a}{b}` the code makes `{a}` and the value of `b` where one pass puts in the
value of the other key. `Plain` now asks for placeholders with a brace at each
end and no others (`Enclosed`). It also asks that the host and the process id
have no `%`, which the first pass puts in as well.

**Levels.** `LevelFound` compares a search, which sees rows, with calls, which say
lines. Three facts join them. The pattern of a search is the literals of the
template from the specifier before `%L` to the one behind it, with the level in
between (`LevelAtThere`, `PatternIs`). A line is a text, the pattern of its own
level, and a text (`FormatCut`); by `OneLevel` neither of the two texts has the
name of a level (`LineIs`). And the rows of a line are what it has between its
feeds (`EndsThere`). The pattern has no feed, so one row has all of it
(`LineAround`), and no other row has it, because none has the level in it
(`OneRow`, `RowsFound`); the pattern of another level is in no row (`NoRow`). By
`RowsInv` these rows are in the file of the level, so that one place there has
the pattern for each line of the level (`PlaceOf`, `LineFound`). The places found
and the lines of the level are one to one (`LinesMatched`), and no other file that
is read has anything in it (`ContentOfLevel`).

For every value of the constants this took more than the run had shown. Each file
name comes up once in what `cat` is given (`AlphabetAssumption`), no level has the
name of a file of another kind, nor that of the search for all levels
(`LevelNamesAssumption`), and no level is a space, a `%` or a line feed
(`LevelsAssumption`): with a space for a level, `trim_wrap` would write it.

Only model-checked is liveness, which the prover does not reach. The runs that end
in a violation show what is no theorem.

## What is not modelled

- Pure formatting without state between calls: `mic_time`, the RFC 3339 time,
  the texts of `%T %t %F %U %u %C` (constants of `LogText`), the JSON of the
  performance report, and its memory column.
- The shell, the regular expressions of `grep`, and the length of a line
  (`fgets` cuts those longer than its buffer).
- What the network does with a line after a successful write; timeouts of a
  connection, which are failed opens and writes here.
- Getters of the PHP interface and the parsing of its arguments; `getBuffer`
  hands out the array that later calls change in place, a matter of the engine's
  reference counts.
- Memory: allocation, reference counts, and the free lists of frames.
- A clock that is set back; a process that forks in the middle of a request.
- `Analyzer/lib` (PHPMailer and its caller), `CodeTips`, `include` (constants
  and version macros).

## Plan

Done: the buffer with its abstract store, the stream cache with files and
connections, the re-entry of hooks, the logger and date caches, the line, the
request variables and the search, the tracer with its report, the parallel
analyzer; proofs of the buffer, its store, the re-entry of hooks, the stream,
date and logger caches, the tracer and its report, the log calls with their
arrays and contexts, the lines they write, the search page by page and by level,
and the analyzer. Left:

- `SeasLogRequest`: one request of `LogBuffer`, `StreamCache` and `DateCache`
  together, with RSHUTDOWN in the order of `seaslog.c`; property: a line
  buffered under a file name is in the file of the date its call had, in order,
  once. Its abstract specification is `LogStore` again.
