------------------------------- MODULE LogStore -------------------------------
(***************************************************************************)
(* What a caller of SeasLog may rely on, whatever the buffer does inside:  *)
(* a log per key that is append-only, keeps the order of the calls and     *)
(* holds each message once. An accepted message waits in its key's queue   *)
(* until it is committed from the head, or is dropped.                     *)
(***************************************************************************)
EXTENDS Naturals, Sequences

CONSTANTS
  Keys,    \* the destinations of log messages
  MaxLogs  \* bound: the log calls of a behaviour

VARIABLES
  next,    \* number of the next log call
  queue,   \* accepted messages that wait, per key
  log,     \* the data store, per key
  gone     \* messages accepted and dropped

storeVars == <<next, queue, log, gone>>

Waiting(k) == {queue[k][i] : i \in DOMAIN queue[k]}

StoreInit ==
  /\ next = 1
  /\ queue = [k \in Keys |-> << >>]
  /\ log = [k \in Keys |-> << >>]
  /\ gone = {}

Accept(k) ==
  /\ next <= MaxLogs
  /\ next' = next + 1
  /\ queue' = [queue EXCEPT ![k] = Append(@, next)]
  /\ UNCHANGED <<log, gone>>

\* Accepted and committed in the same call; only when nothing waits.
WriteThrough(k) ==
  /\ next <= MaxLogs /\ queue[k] = << >>
  /\ next' = next + 1
  /\ log' = [log EXCEPT ![k] = Append(@, next)]
  /\ UNCHANGED <<queue, gone>>

Refuse ==
  /\ next <= MaxLogs
  /\ next' = next + 1
  /\ UNCHANGED <<queue, log, gone>>

Commit(k) ==
  /\ queue[k] # << >>
  /\ log' = [log EXCEPT ![k] = Append(@, Head(queue[k]))]
  /\ queue' = [queue EXCEPT ![k] = Tail(@)]
  /\ UNCHANGED <<next, gone>>

\* The first n messages that wait for k are dropped.
Drop(k, n) ==
  /\ n \in 1..Len(queue[k])
  /\ gone' = gone \cup {queue[k][i] : i \in 1..n}
  /\ queue' = [queue EXCEPT ![k] = SubSeq(@, n + 1, Len(@))]
  /\ UNCHANGED <<next, log>>

\* All that waits is dropped: a discard, a crash.
DropAll ==
  /\ gone' = gone \cup UNION {Waiting(k) : k \in Keys}
  /\ queue' = [k \in Keys |-> << >>]
  /\ UNCHANGED <<next, log>>

Settle(k) ==
  /\ queue[k] # << >>
  /\ Commit(k) \/ DropAll \/ \E n \in 1..Len(queue[k]) : Drop(k, n)

StoreNext ==
  \/ \E k \in Keys : Accept(k) \/ WriteThrough(k) \/ Settle(k)
  \/ Refuse

StoreSpec == StoreInit /\ [][StoreNext]_storeVars

\* What waits does not wait for ever.
StoreFairSpec == StoreSpec /\ \A k \in Keys : WF_storeVars(Settle(k))
=============================================================================
