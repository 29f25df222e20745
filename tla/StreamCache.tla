------------------------------ MODULE StreamCache ------------------------------
(***************************************************************************)
(* The stream cache of the PHP workers that log to the same files or to    *)
(* the same log server, with the buffer off: process_stream,               *)
(* seaslog_stream_open_wrapper and seaslog_clear_stream of                 *)
(* src/src/StreamWrapper.c, the write and its retries in                   *)
(* seaslog_real_log_ex (src/src/Appender.c) and closeLoggerStream.         *)
(*                                                                         *)
(* What a worker opens is a number, in the order of creation. With the     *)
(* appender FILE it is a file: a path names it until somebody (a rotation, *)
(* rm) takes it away from its path, and a worker keeps writing to the file *)
(* it opened, wherever that is now. With TCP or UDP it is a connection:    *)
(* one entry of the list serves all paths, until the other side ends it.   *)
(***************************************************************************)
EXTENDS Naturals, Sequences, FiniteSets, Functions

CONSTANTS
  Workers,   \* PHP processes, each with its own stream_list
  Paths,     \* paths of log files
  Loggers,   \* logger names
  LoggerOf,  \* the logger that writes to a path
  Mentions,  \* the paths in which a logger's name occurs (strstr)
  Appenders, \* the settings of seaslog.appender considered: file, remote
  Retry,     \* seaslog.appender_retry
  MaxLogs,   \* bound: log calls
  MaxFiles   \* bound: files ever created, or connections ever made

ASSUME LoggersAssumption ==
  /\ Paths # {}
  /\ LoggerOf \in [Paths -> Loggers]
  /\ Mentions \in [Loggers -> SUBSET Paths]
  /\ \A p \in Paths : p \in Mentions[LoggerOf[p]]
ASSUME AppendersAssumption == Appenders \subseteq {"file", "remote"}
ASSUME BoundsAssumption == Retry \in Nat /\ MaxLogs \in Nat /\ MaxFiles \in Nat

NoFile == 0
Files  == 1..MaxFiles

VARIABLES
  appender, \* SEASLOG_G(appender), set before the workers start
  dir,      \* the file a path names, or NoFile
  up,       \* the connections that both sides keep
  content,  \* what was written to a file or connection: attempts, in order
  madeAt,   \* history: the path a file was created at, the opt of the
            \* call that made a connection
  madeBy,   \* history: the worker that created it
  stream,   \* SEASLOG_G(stream_list) of a worker: the open file (or connection) of an entry
  orphans,  \* open streams of a worker that its stream_list has forgotten
  call,     \* the log call a worker is in
  taken,    \* history: a call's stream lost its name or peer after the lookup
  nextId,   \* number of the next log call
  accepted, \* history: messages whose call returned TRUE
  refused   \* history: messages whose call returned FALSE

files == <<dir, up, content, madeAt, madeBy>>
vars  == <<appender, dir, up, content, madeAt, madeBy, stream, orphans, call,
           taken, nextId, accepted, refused>>

Ids == 1..MaxLogs
AnyPath == CHOOSE p \in Paths : TRUE
Idle == [at |-> "idle", path |-> AnyPath, id |-> 0, left |-> 0]

IsIdle(w) == call[w].at = "idle"
IsRemote  == appender = "remote"

\* The hash under which process_stream keeps a stream: that of the path, of
\* "tcp" or of "udp".
EntryOf(p) == IF IsRemote THEN AnyPath ELSE p
Cached(w)  == stream[w][EntryOf(call[w].path)]

Attempt(w, whole) == [id |-> call[w].id, path |-> call[w].path, whole |-> whole]

Init ==
  /\ appender \in Appenders
  /\ up = {}
  /\ dir = [p \in Paths |-> NoFile]
  /\ content = << >> /\ madeAt = << >> /\ madeBy = << >>
  /\ stream = [w \in Workers |-> [p \in Paths |-> NoFile]]
  /\ orphans = [w \in Workers |-> {}]
  /\ call = [w \in Workers |-> Idle]
  /\ taken = [w \in Workers |-> FALSE]
  /\ nextId = 1
  /\ accepted = {} /\ refused = {}

-----------------------------------------------------------------------------
(* A log call: seaslog_real_log_ex *)

\* Seeded fault: the first write is counted as a retry.
Log_ExtraRetry(w, p) ==
  /\ IsIdle(w) /\ nextId <= MaxLogs
  /\ call' = [call EXCEPT ![w] =
                [at |-> "lookup", path |-> p, id |-> nextId, left |-> Retry + 1]]
  /\ nextId' = nextId + 1
  /\ UNCHANGED <<appender, files, stream, orphans, taken, accepted, refused>>

Log(w, p) ==
  /\ IsIdle(w) /\ nextId <= MaxLogs
  /\ call' = [call EXCEPT ![w] =
                [at |-> "lookup", path |-> p, id |-> nextId, left |-> Retry]]
  /\ nextId' = nextId + 1
  /\ UNCHANGED <<appender, files, stream, orphans, taken, accepted, refused>>

Return(w, ok) ==
  /\ call' = [call EXCEPT ![w] = Idle]
  /\ accepted' = IF ok THEN accepted \cup {call[w].id} ELSE accepted
  /\ refused' = IF ok THEN refused ELSE refused \cup {call[w].id}
  /\ taken' = [taken EXCEPT ![w] = FALSE]

\* Seeded fault: a cached stream is good for ever.
Lookup_NoStat(w) ==
  /\ call[w].at = "lookup"
  /\ call' = [call EXCEPT ![w].at = IF Cached(w) # NoFile THEN "write" ELSE "open"]
  /\ UNCHANGED <<appender, files, stream, orphans, taken, nextId, accepted, refused>>

\* Seeded fault: the cache is never used.
Lookup_AlwaysOpens(w) ==
  /\ call[w].at = "lookup"
  /\ call' = [call EXCEPT ![w].at = "open"]
  /\ UNCHANGED <<appender, files, stream, orphans, taken, nextId, accepted, refused>>

\* A file is usable when a file of that name exists, this one or another; a
\* connection when php_stream_eof does not say that it has ended.
Usable(w) == IF IsRemote THEN Cached(w) \in up ELSE dir[call[w].path] # NoFile

\* Seeded fault: wait until the cached stream is usable again.
Lookup_Waits(w) ==
  /\ call[w].at = "lookup"
  /\ Cached(w) # NoFile => Usable(w)
  /\ call' = [call EXCEPT ![w].at = IF Cached(w) # NoFile THEN "write" ELSE "open"]
  /\ UNCHANGED <<appender, files, stream, orphans, taken, nextId, accepted, refused>>

\* process_stream up to the return of a cached stream.
Lookup(w) ==
  /\ call[w].at = "lookup"
  /\ call' = [call EXCEPT ![w].at =
                IF Cached(w) # NoFile /\ Usable(w) THEN "write" ELSE "open"]
  /\ UNCHANGED <<appender, files, stream, orphans, taken, nextId, accepted, refused>>

\* seaslog_stream_open_wrapper gives no stream; an old entry stays.
OpenFail(w) ==
  /\ call[w].at = "open"
  /\ Return(w, FALSE)
  /\ UNCHANGED <<appender, files, stream, orphans, nextId>>

NewFile(p, w) ==
  LET f == Len(madeAt) + 1 IN
  /\ f <= MaxFiles
  /\ IF IsRemote THEN up' = up \cup {f} /\ UNCHANGED dir
                 ELSE dir' = [dir EXCEPT ![p] = f] /\ UNCHANGED up
  /\ content' = Append(content, << >>)
  /\ madeAt' = Append(madeAt, p)
  /\ madeBy' = Append(madeBy, w)

\* fopen(path, "a") creates the file or takes the one there is; a remote
\* appender connects anew.
OpenedBy(w) ==
  LET p == call[w].path IN
  IF IsRemote \/ dir[p] = NoFile THEN Len(madeAt) + 1 ELSE dir[p]

\* Seeded fault: one entry for every path.
Open_OneEntry(w) ==
  /\ call[w].at = "open"
  /\ IF OpenedBy(w) > Len(madeAt) THEN NewFile(call[w].path, w) ELSE UNCHANGED files
  /\ stream' = [stream EXCEPT ![w] = [q \in Paths |-> OpenedBy(w)]]
  /\ orphans' = [orphans EXCEPT ![w] = @ \cup ({Cached(w)} \ {NoFile})]
  /\ call' = [call EXCEPT ![w].at = "write"]
  /\ UNCHANGED <<appender, taken, nextId, accepted, refused>>

\* The new entry replaces the old one, whose stream nobody closes.
Open(w) ==
  /\ call[w].at = "open"
  /\ IF OpenedBy(w) > Len(madeAt) THEN NewFile(call[w].path, w) ELSE UNCHANGED files
  /\ stream' = [stream EXCEPT ![w][EntryOf(call[w].path)] = OpenedBy(w)]
  /\ orphans' = [orphans EXCEPT ![w] = @ \cup ({Cached(w)} \ {NoFile})]
  /\ call' = [call EXCEPT ![w].at = "write"]
  /\ UNCHANGED <<appender, taken, nextId, accepted, refused>>

WriteAttempt(w, whole) ==
  content' = [content EXCEPT ![Cached(w)] = Append(@, Attempt(w, whole))]

\* Seeded fault: the loop writes once more although a write succeeded.
WriteWhole_Again(w) ==
  /\ call[w].at = "write"
  /\ WriteAttempt(w, TRUE)
  /\ IF call[w].left > 0
       THEN /\ call' = [call EXCEPT ![w].left = @ - 1]
            /\ UNCHANGED <<taken, accepted, refused>>
       ELSE Return(w, TRUE)
  /\ UNCHANGED <<appender, dir, up, madeAt, madeBy, stream, orphans, nextId>>

WriteWhole(w) ==
  /\ call[w].at = "write"
  /\ WriteAttempt(w, TRUE)
  /\ Return(w, TRUE)
  /\ UNCHANGED <<appender, dir, up, madeAt, madeBy, stream, orphans, nextId>>

\* php_stream_write wrote a part of the message, or nothing; every retry
\* begins the message again.
WriteShort(w) ==
  /\ call[w].at = "write"
  /\ WriteAttempt(w, FALSE) \/ UNCHANGED content
  /\ IF call[w].left > 0
       THEN /\ call' = [call EXCEPT ![w].left = @ - 1]
            /\ UNCHANGED <<taken, accepted, refused>>
       ELSE Return(w, FALSE)
  /\ UNCHANGED <<appender, dir, up, madeAt, madeBy, stream, orphans, nextId>>

-----------------------------------------------------------------------------
(* seaslog_clear_stream and its callers *)

\* Closes the streams whose opt is one of the closed paths. The opt of an
\* entry is the path of the call that opened it, with TCP and UDP too.
ClearStream(w, closed) ==
  LET gone == {f \in Range(stream[w]) \ {NoFile} : madeAt[f] \in closed} IN
  /\ stream' = [stream EXCEPT ![w] =
                  [p \in Paths |-> IF @[p] \in gone THEN NoFile ELSE @[p]]]
  /\ up' = up \ gone
  /\ UNCHANGED <<appender, dir, content, madeAt, madeBy>>

\* closeLoggerStream(SEASLOG_CLOSE_LOGGER_STREAM_MOD_ALL)
CloseAll(w) ==
  /\ IsIdle(w)
  /\ ClearStream(w, Paths)
  /\ UNCHANGED <<orphans, call, taken, nextId, accepted, refused>>

\* closeLoggerStream(SEASLOG_CLOSE_LOGGER_STREAM_MOD_ASSIGN, l)
CloseAssign(w, l) ==
  /\ IsIdle(w)
  /\ ClearStream(w, Mentions[l])
  /\ UNCHANGED <<orphans, call, taken, nextId, accepted, refused>>

\* RSHUTDOWN clears the list; PHP then closes what the request left open.
RequestEnd(w) ==
  /\ IsIdle(w)
  /\ ClearStream(w, Paths)
  /\ orphans' = [orphans EXCEPT ![w] = {}]
  /\ UNCHANGED <<call, taken, nextId, accepted, refused>>

\* These workers have looked up their stream and are about to write.
Writing == {w \in Workers : call[w].at = "write"}
Take(lost) == taken' = [w \in Workers |-> taken[w] \/ w \in lost]

\* The administrator renames or removes the log file.
TakeAway(p) ==
  /\ dir[p] # NoFile
  /\ Take({w \in Writing : call[w].path = p})
  /\ dir' = [dir EXCEPT ![p] = NoFile]
  /\ UNCHANGED <<appender, up, content, madeAt, madeBy, stream, orphans, call,
                 nextId, accepted, refused>>

\* The log server ends a TCP connection, or is gone.
Disconnect(f) ==
  /\ f \in up
  /\ Take({w \in Writing : Cached(w) = f})
  /\ up' = up \ {f}
  /\ UNCHANGED <<appender, dir, content, madeAt, madeBy, stream, orphans, call,
                 nextId, accepted, refused>>

-----------------------------------------------------------------------------
InCall(w) == Lookup(w) \/ OpenFail(w) \/ Open(w) \/ WriteWhole(w) \/ WriteShort(w)

Next ==
  \/ \E w \in Workers :
       \/ InCall(w)
       \/ \E p \in Paths : Log(w, p)
       \/ \E l \in Loggers : CloseAssign(w, l)
       \/ CloseAll(w) \/ RequestEnd(w)
  \/ \E p \in Paths : TakeAway(p)
  \/ \E f \in up : Disconnect(f)

Spec == Init /\ [][Next]_vars

\* A worker inside a log call runs on by itself.
FairSpec == Spec /\ \A w \in Workers : WF_vars(InCall(w))

-----------------------------------------------------------------------------
(* Properties *)

TypeOK ==
  /\ appender \in Appenders
  /\ dir \in [Paths -> Files \cup {NoFile}] /\ up \subseteq Files
  /\ content \in Seq(Seq([id : Ids, path : Paths, whole : BOOLEAN]))
  /\ madeAt \in Seq(Paths) /\ madeBy \in Seq(Workers)
  /\ Len(madeAt) = Len(content) /\ Len(madeBy) = Len(content)
  /\ Len(content) <= MaxFiles
  /\ stream \in [Workers -> [Paths -> Files \cup {NoFile}]]
  /\ orphans \in [Workers -> SUBSET Files]
  /\ call \in [Workers -> [at : {"idle", "lookup", "open", "write"}, path : Paths,
                          id : 0..MaxLogs, left : 0..Retry]]
  /\ \A w \in Workers : call[w].at = "write" => Cached(w) # NoFile
  /\ taken \in [Workers -> BOOLEAN]
  /\ nextId \in 1..(MaxLogs + 1)
  /\ accepted \subseteq Ids /\ refused \subseteq Ids

\* The places where an attempt at message id was written.
Attempts(id) ==
  UNION {{<<f, i>> : i \in {j \in DOMAIN content[f] : content[f][j].id = id}} :
           f \in DOMAIN content}
Wholes(id) == {a \in Attempts(id) : content[a[1]][a[2]].whole}

\* TRUE means: the message was written whole and once. FALSE means: it is
\* nowhere whole, so that a caller who logs it again makes no duplicate.
\* Between them are the write, its retries (appender_retry more attempts at
\* the most) and the two results of seaslog_real_log_ex.
ResultIsTrue ==
  /\ \A id \in accepted : Cardinality(Wholes(id)) = 1
  /\ \A id \in refused : Wholes(id) = {}
  /\ accepted \cap refused = {}
  /\ \A id \in Ids : Cardinality(Attempts(id)) <= Retry + 1

\* Whatever is cached, orphaned, rotated or re-created, by this worker or by
\* others: what is written to a file was logged to the path the file was
\* created at (the hash of process_stream). With TCP and UDP one connection
\* carries every path, and the line's header says which logger it is of.
NoForeignFile ==
  ~IsRemote =>
    \A f \in DOMAIN content : \A i \in DOMAIN content[f] :
      content[f][i].path = madeAt[f]

\* A worker is about to write to a stream that leads nowhere any more only if
\* that came about after its lookup; for a file also if another worker has
\* re-created the path before this one looked, for process_stream checks that
\* the name exists, not that it still names the stream's file.
StaleOnlyIfRecreated ==
  \A w \in Workers :
    LET f == dir[call[w].path] IN
    call[w].at = "write" /\ ~taken[w] =>
      IF IsRemote THEN Cached(w) \in up
                  ELSE Cached(w) = f \/ (f # NoFile /\ madeBy[f] # w)

\* Every log call returns, whatever rotates and however often a write falls
\* short (the retry loop of seaslog_real_log_ex).
CallReturns == \A w \in Workers : ~IsIdle(w) ~> IsIdle(w)

\* README: closeLoggerStream() releases "all of the logger stream handle".
\* process_stream forgets an open stream when it opens another under its
\* hash; what no closeLoggerStream can reach from then on is a file that
\* nobody finds under a log path any more or a connection that has ended,
\* never one that is still logged to.
ForgottenAreGone ==
  /\ \A w \in Workers :
       orphans[w] \cap (Range(dir) \cup Range(stream[w]) \cup up) = {}
  /\ \A f \in up : f \in Range(stream[madeBy[f]])
=============================================================================
