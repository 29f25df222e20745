------------------------- MODULE LogBufferRefinement -------------------------
(***************************************************************************)
(* The buffer of LogBuffer implements the log of LogStore: the queue of a  *)
(* key is the part of its buffer that the running flush has not visited.   *)
(***************************************************************************)
EXTENDS LogBuffer

queueBar == [k \in Keys |-> SubSeq(buffer[k], FirstTodo(k), Len(buffer[k]))]

Store == INSTANCE LogStore WITH
  next <- nextId, queue <- queueBar, log <- stored, gone <- Lost

\* Every behaviour of the buffer, of its flushes, its failures and its
\* crashes is one of an append-only log that keeps each key's order and
\* stores a message once (seaslog_buffer_set, seaslog_shutdown_buffer,
\* seaslog_clear_buffer) and, when scripts end, one in which no message waits
\* for ever.
ImplementsFairStore == Store!StoreFairSpec
=============================================================================
