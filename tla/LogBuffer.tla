------------------------------ MODULE LogBuffer ------------------------------
(***************************************************************************)
(* The in-memory log buffer of one PHP worker process: src/src/Buffer.c,   *)
(* the two branches of seaslog_real_buffer_log_ex in src/src/Appender.c,   *)
(* and the entry points that start, flush, discard or end a buffer (RINIT, *)
(* RSHUTDOWN, __destruct, flushBuffer, closeLoggerStream, ini_set).        *)
(*                                                                         *)
(* A log message is its number, handed out in the order of the log calls.  *)
(* A key is what seaslog_buffer_set files a message under: the path of the *)
(* log file (appender FILE) or the logger's name (TCP, UDP).               *)
(***************************************************************************)
EXTENDS Naturals, Sequences, FiniteSets, Functions

CONSTANTS
  Keys,        \* the buffer keys: log file paths, or logger names
  IniSizes,    \* values of seaslog.buffer_size in php.ini
  SetSizes,    \* values a script gives it with ini_set (PHP_INI_ALL)
  MaxLogs      \* bound: the log calls of a behaviour

ASSUME SizesAssumption == IniSizes \subseteq Nat /\ SetSizes \subseteq Nat
ASSUME MaxLogsAssumption == MaxLogs \in Nat

VARIABLES
  enabled,     \* SEASLOG_G(enable_buffer_real), decided once, at MINIT
  iniSize,     \* seaslog.buffer_size of php.ini, restored after a request
  bufferSize,  \* SEASLOG_G(buffer_size), as the running script left it
  phase,       \* where the worker is in the life of a request
  buffer,      \* SEASLOG_G(buffer): the messages filed under each key
  keys,        \* the keys of SEASLOG_G(buffer), in the hash table's order
  bufferCount, \* SEASLOG_G(buffer_count)
  keyPos,      \* position in keys of a running flush, 0 when none runs
  msgPos,      \* next message of that key, 0 before process_stream
  nextId,      \* number of the next log call
  stored,      \* history: what reached the data store whole, per key
  accepted,    \* history: the messages whose log call returned TRUE
  lost         \* history: accepted messages that never will, by cause

memory  == <<buffer, keys, bufferCount>>
history == <<nextId, stored, accepted, lost>>
vars == <<enabled, iniSize, bufferSize, phase, buffer, keys, bufferCount,
          keyPos, msgPos, nextId, stored, accepted, lost>>

\* "down": between requests; "script": after RINIT; "shutdown": RSHUTDOWN
\* flushes; "clear": RSHUTDOWN is about to destroy the buffer.
Phases == {"down", "script", "shutdown", "clear"}

\* "open": process_stream gave no stream; "short": a write fell short and
\* its result was ignored; "discard": flushBuffer(0); "cleared": the buffer
\* was destroyed with messages that no flush had visited; "crash".
Causes == {"open", "short", "discard", "cleared", "crash"}

-----------------------------------------------------------------------------
Flushing   == keyPos > 0
InKeys     == Flushing /\ keyPos <= Len(keys)
CurrentKey == keys[keyPos]

Buffered == UNION {Range(buffer[k]) : k \in Keys}
Stored   == UNION {Range(stored[k]) : k \in Keys}
Lost     == UNION {lost[c] : c \in Causes}

\* The first message of key k that the running flush has still to visit.
FirstTodo(k) ==
  IF \E i \in DOMAIN keys : keys[i] = k /\ i < keyPos
    THEN Len(buffer[k]) + 1
    ELSE IF InKeys /\ CurrentKey = k /\ msgPos > 0 THEN msgPos ELSE 1

Todo(k) == {buffer[k][i] : i \in FirstTodo(k)..Len(buffer[k])}

\* The messages that sit in memory with their fate open.
Pending == UNION {Todo(k) : k \in Keys}

Lose(cause, ids) == lost' = [lost EXCEPT ![cause] = @ \cup ids]

-----------------------------------------------------------------------------
(* MINIT *)

InitBufferSwitch(useBuffer, size, cli, disabledInCli) ==
  ~(cli /\ disabledInCli) /\ useBuffer /\ size > 0

Init ==
  /\ iniSize \in IniSizes
  /\ \E useBuffer, cli, disabledInCli \in BOOLEAN :
       enabled = InitBufferSwitch(useBuffer, iniSize, cli, disabledInCli)
  /\ bufferSize = iniSize
  /\ phase = "down"
  /\ buffer = [k \in Keys |-> << >>] /\ keys = << >> /\ bufferCount = 0
  /\ keyPos = 0 /\ msgPos = 0
  /\ nextId = 1
  /\ stored = [k \in Keys |-> << >>]
  /\ accepted = {}
  /\ lost = [c \in Causes |-> {}]

-----------------------------------------------------------------------------
(* The operations of Buffer.c *)

\* Seeded fault: the array is renewed and the count forgotten.
ReinitBuffer_KeepsCount ==
  /\ buffer' = [k \in Keys |-> << >>]
  /\ keys' = << >>
  /\ UNCHANGED bufferCount

\* Seeded fault: the count is reset and the array kept.
ReinitBuffer_KeepsArray ==
  /\ bufferCount' = 0
  /\ UNCHANGED <<buffer, keys>>

\* seaslog_clear_buffer, and seaslog_init_buffer after it.
ReinitBuffer ==
  /\ buffer' = [k \in Keys |-> << >>]
  /\ keys' = << >>
  /\ bufferCount' = 0

\* Seeded fault: off by one, a single message is not worth a flush.
FlushIfCounted_OffByOne ==
  /\ keyPos' = IF enabled /\ bufferCount > 1 THEN 1 ELSE 0
  /\ msgPos' = 0

\* seaslog_shutdown_buffer runs a flush only when something was counted.
FlushIfCounted ==
  /\ keyPos' = IF enabled /\ bufferCount >= 1 THEN 1 ELSE 0
  /\ msgPos' = 0

\* Seeded fault: every message starts a new array for its key.
AddToBuffer_Replaces(k, id) ==
  /\ buffer' = [buffer EXCEPT ![k] = <<id>>]
  /\ keys' = IF k \in Range(keys) THEN keys ELSE Append(keys, k)

\* Seeded fault: the newest message goes first.
AddToBuffer_Prepends(k, id) ==
  /\ buffer' = [buffer EXCEPT ![k] = <<id>> \o @]
  /\ keys' = IF k \in Range(keys) THEN keys ELSE Append(keys, k)

\* Seeded fault: a known key is looked up and not found.
AddToBuffer_NewKey(k, id) ==
  /\ buffer' = [buffer EXCEPT ![k] = Append(@, id)]
  /\ keys' = Append(keys, k)

\* A new key goes to the end of the hash table, a known key keeps its place.
AddToBuffer(k, id) ==
  /\ buffer' = [buffer EXCEPT ![k] = Append(@, id)]
  /\ keys' = IF k \in Range(keys) THEN keys ELSE Append(keys, k)

\* Seeded fault: full means exactly full.
CountAndFlushIfFull_Equal ==
  IF bufferSize > 0
    THEN /\ bufferCount' = bufferCount + 1
         /\ keyPos' = IF bufferCount + 1 = bufferSize THEN 1 ELSE 0
         /\ msgPos' = 0
    ELSE UNCHANGED <<bufferCount, keyPos, msgPos>>

CountAndFlushIfFull ==
  IF bufferSize > 0
    THEN /\ bufferCount' = bufferCount + 1
         /\ keyPos' = IF bufferCount + 1 >= bufferSize THEN 1 ELSE 0
         /\ msgPos' = 0
    ELSE UNCHANGED <<bufferCount, keyPos, msgPos>>

-----------------------------------------------------------------------------
(* RINIT and the calls of the script; no call starts while a flush runs *)

RequestStart ==
  /\ phase = "down"
  /\ phase' = "script"
  /\ IF enabled THEN ReinitBuffer ELSE UNCHANGED memory
  /\ UNCHANGED <<enabled, iniSize, bufferSize, keyPos, msgPos, history>>

InScript == phase = "script" /\ ~Flushing

\* A log call with the buffer on returns TRUE, whatever becomes of the flush
\* it may start.
LogBuffered(k) ==
  /\ InScript /\ enabled /\ nextId <= MaxLogs
  /\ AddToBuffer(k, nextId)
  /\ CountAndFlushIfFull
  /\ accepted' = accepted \cup {nextId}
  /\ nextId' = nextId + 1
  /\ UNCHANGED <<enabled, iniSize, bufferSize, phase, stored, lost>>

\* A log call with the buffer off: the message is written before the call
\* returns TRUE, or the call returns FALSE (no stream, or every attempt fell
\* short).
LogDirect(k) ==
  /\ InScript /\ ~enabled /\ nextId <= MaxLogs
  /\ \/ /\ stored' = [stored EXCEPT ![k] = Append(@, nextId)]
        /\ accepted' = accepted \cup {nextId}
     \/ UNCHANGED <<stored, accepted>>
  /\ nextId' = nextId + 1
  /\ UNCHANGED <<enabled, iniSize, bufferSize, phase, memory, keyPos, msgPos,
                 lost>>

\* flushBuffer(0) throws the buffer away.
FlushBufferDiscard ==
  /\ InScript
  /\ IF enabled THEN ReinitBuffer /\ Lose("discard", Pending)
                ELSE UNCHANGED <<memory, lost>>
  /\ UNCHANGED <<enabled, iniSize, bufferSize, phase, keyPos, msgPos, nextId,
                 stored, accepted>>

\* flushBuffer(1), __destruct of a SeasLog object, closeLoggerStream: each
\* begins with seaslog_shutdown_buffer(RE_INIT_YES).
FlushCall ==
  /\ InScript
  /\ FlushIfCounted
  /\ UNCHANGED <<enabled, iniSize, bufferSize, phase, memory, history>>

\* ini_set('seaslog.buffer_size', n): enable_buffer_real is not recomputed.
SetBufferSize(n) ==
  /\ InScript
  /\ bufferSize' = n
  /\ UNCHANGED <<enabled, iniSize, phase, memory, keyPos, msgPos, history>>

-----------------------------------------------------------------------------
(* The steps of seaslog_shutdown_buffer and real_php_log_buffer *)

\* process_stream for the next key. A FAILURE skips the key's messages: the
\* caller ignores it.
FlushOpen ==
  /\ InKeys /\ msgPos = 0
  /\ \/ msgPos' = 1 /\ UNCHANGED <<keyPos, lost>>
     \/ /\ Lose("open", Range(buffer[CurrentKey]))
        /\ keyPos' = keyPos + 1 /\ msgPos' = 0
  /\ UNCHANGED <<enabled, iniSize, bufferSize, phase, memory, nextId, stored,
                 accepted>>

\* Seeded fault: the loop waits for a message after the last one.
FlushWrite_WaitsAtLast ==
  /\ InKeys /\ msgPos > 0 /\ msgPos < Len(buffer[CurrentKey])
  /\ LET id == buffer[CurrentKey][msgPos] IN
       \/ /\ stored' = [stored EXCEPT ![CurrentKey] = Append(@, id)]
          /\ UNCHANGED lost
       \/ Lose("short", {id}) /\ UNCHANGED stored
  /\ msgPos' = msgPos + 1
  /\ UNCHANGED <<enabled, iniSize, bufferSize, phase, memory, keyPos, nextId,
                 accepted>>

\* php_stream_write of one message; its result is ignored.
FlushWrite ==
  /\ InKeys /\ msgPos > 0
  /\ LET id == buffer[CurrentKey][msgPos] IN
       \/ /\ stored' = [stored EXCEPT ![CurrentKey] = Append(@, id)]
          /\ UNCHANGED lost
       \/ Lose("short", {id}) /\ UNCHANGED stored
  /\ IF msgPos < Len(buffer[CurrentKey])
       THEN msgPos' = msgPos + 1 /\ UNCHANGED keyPos
       ELSE msgPos' = 0 /\ keyPos' = keyPos + 1
  /\ UNCHANGED <<enabled, iniSize, bufferSize, phase, memory, nextId,
                 accepted>>

\* Every key is visited. Only RSHUTDOWN passes RE_INIT_NO.
FlushDone ==
  /\ Flushing /\ keyPos > Len(keys)
  /\ \/ /\ phase = "script"
        /\ ReinitBuffer
        /\ keyPos' = 0
        /\ UNCHANGED phase
     \/ /\ phase = "shutdown"
        /\ phase' = "clear"
        /\ UNCHANGED <<memory, keyPos>>
  /\ UNCHANGED <<enabled, iniSize, bufferSize, msgPos, history>>

-----------------------------------------------------------------------------
(* RSHUTDOWN, and the death of the worker *)

ShutdownStart ==
  /\ InScript
  /\ FlushIfCounted
  /\ phase' = IF keyPos' > 0 THEN "shutdown" ELSE "clear"
  /\ UNCHANGED <<enabled, iniSize, bufferSize, memory, history>>

\* seaslog_clear_buffer; PHP restores the ini entries after RSHUTDOWN.
RequestEnd ==
  /\ phase = "clear"
  /\ phase' = "down"
  /\ IF enabled THEN ReinitBuffer /\ Lose("cleared", Pending)
                ELSE UNCHANGED <<memory, lost>>
  /\ bufferSize' = iniSize
  /\ keyPos' = 0 /\ msgPos' = 0
  /\ UNCHANGED <<enabled, iniSize, nextId, stored, accepted>>

\* The process dies without RSHUTDOWN; a new worker runs MINIT with the same
\* php.ini. The memory of a request is gone like that, too, when a fatal error
\* cuts RSHUTDOWN short (LogReentry).
Crash ==
  /\ phase # "down"
  /\ phase' = "down"
  /\ ReinitBuffer
  /\ Lose("crash", Pending)
  /\ bufferSize' = iniSize
  /\ keyPos' = 0 /\ msgPos' = 0
  /\ UNCHANGED <<enabled, iniSize, nextId, stored, accepted>>

-----------------------------------------------------------------------------
Flush == FlushOpen \/ FlushWrite \/ FlushDone

Next ==
  \/ RequestStart \/ ShutdownStart \/ RequestEnd \/ Crash
  \/ \E k \in Keys : LogBuffered(k) \/ LogDirect(k)
  \/ FlushBufferDiscard \/ FlushCall
  \/ \E n \in SetSizes : SetBufferSize(n)
  \/ Flush

Spec == Init /\ [][Next]_vars

\* The extension runs on by itself once a flush or RSHUTDOWN has begun, and
\* PHP ends every script (max_execution_time, or its last statement).
FairSpec == Spec /\ WF_vars(Flush) /\ WF_vars(ShutdownStart \/ RequestEnd)
-----------------------------------------------------------------------------
(* Properties *)

\* The buffer is a hash table with one entry per key that has messages, and
\* a flush points at one of them, or just past the last. It is empty between
\* requests, and always when the buffer is off.
BufferShape ==
  /\ \A i, j \in DOMAIN keys : keys[i] = keys[j] => i = j
  /\ \A k \in Keys : k \in Range(keys) <=> buffer[k] # << >>
  /\ keyPos <= Len(keys) + 1 /\ (Flushing => phase # "down")
  /\ keys = << >> \/ (enabled /\ phase # "down")
  /\ msgPos > 0 => InKeys /\ msgPos <= Len(buffer[CurrentKey])

TypeOK ==
  /\ enabled \in BOOLEAN /\ iniSize \in IniSizes
  /\ bufferSize \in IniSizes \cup SetSizes
  /\ phase \in Phases
  /\ buffer \in [Keys -> Seq(Nat)] /\ keys \in Seq(Keys)
  /\ bufferCount \in Nat /\ keyPos \in Nat /\ msgPos \in Nat
  /\ nextId \in Nat
  /\ stored \in [Keys -> Seq(Nat)]
  /\ accepted \subseteq Nat /\ lost \in [Causes -> SUBSET Nat]
  /\ BufferShape

\* No accepted message vanishes or is counted twice: it waits in memory for
\* a flush, or was written, or is lost to a cause the code can name. This is
\* the conservation that seaslog_buffer_set, the flush loop and the
\* clear/init pair have to keep between them.
Accounting ==
  /\ accepted = Pending \cup Stored \cup Lost
  /\ Pending \cap Stored = {}
  /\ Pending \cap Lost = {}
  /\ Stored \cap Lost = {}

\* A log file holds each message once, in the order of the log calls,
\* however often the buffer was flushed, by whom, and whatever failed.
StoredInOrder ==
  \A k \in Keys : \A i, j \in DOMAIN stored[k] :
    i < j => stored[k][i] < stored[k][j]

\* getBufferCount tells how many messages getBuffer returns, at every step
\* of a flush too.
CountIsExact == bufferCount = Cardinality(Buffered)

\* A crash can cost at most one buffer of messages: a flush begins with the
\* call that fills the buffer.
LossIsBounded ==
  \E n \in IniSizes \cup SetSizes : Cardinality(Pending) <= n

\* README: "rewritten down into the Data Store by request shutdown": the end
\* of a request destroys no message that no flush has tried to write.
NothingCleared == lost["cleared"] = {}
=============================================================================
