--------------------------- MODULE LogBufferProofs ---------------------------
(***************************************************************************)
(* Proofs about LogBuffer, for every set of keys, every buffer size and    *)
(* every number of log calls.                                              *)
(***************************************************************************)
EXTENDS LogBufferRefinement, FiniteSetTheorems, SequenceTheorems, TLAPS

USE SizesAssumption, MaxLogsAssumption

-----------------------------------------------------------------------------
(* Sequences *)

LEMMA AppendFacts ==
  ASSUME NEW S, NEW s \in Seq(S), NEW e \in S
  PROVE  /\ Append(s, e) \in Seq(S) /\ Append(s, e) # << >>
         /\ Len(s) \in Nat /\ Len(Append(s, e)) = Len(s) + 1
         /\ DOMAIN s = 1..Len(s) /\ DOMAIN Append(s, e) = 1..(Len(s) + 1)
         /\ \A i \in 1..Len(s) : Append(s, e)[i] = s[i] /\ s[i] \in S
         /\ Append(s, e)[Len(s) + 1] = e
<1>1. Len(Append(s, e)) = Len(s) + 1 /\ Len(s) \in Nat /\ Append(s, e) \in Seq(S)
  OBVIOUS
<1> QED BY <1>1

LEMMA AppendNonEmpty == \A s \in Seq(Nat), e \in Nat : Append(s, e) # << >>
<1> SUFFICES ASSUME NEW s \in Seq(Nat), NEW e \in Nat PROVE Append(s, e) # << >>
  OBVIOUS
<1>1. Len(Append(s, e)) = Len(s) + 1 /\ Len(s) \in Nat
  OBVIOUS
<1> QED BY <1>1

LEMMA RangeAppend ==
  ASSUME NEW S, NEW s \in Seq(S), NEW e \in S
  PROVE  Range(Append(s, e)) = Range(s) \cup {e}
BY AppendFacts DEF Range

-----------------------------------------------------------------------------
(* Type correctness *)

Types ==
  /\ enabled \in BOOLEAN /\ iniSize \in IniSizes
  /\ bufferSize \in IniSizes \cup SetSizes
  /\ phase \in Phases
  /\ buffer \in [Keys -> Seq(Nat)] /\ keys \in Seq(Keys)
  /\ bufferCount \in Nat /\ keyPos \in Nat /\ msgPos \in Nat
  /\ nextId \in Nat
  /\ stored \in [Keys -> Seq(Nat)]
  /\ accepted \subseteq Nat /\ lost \in [Causes -> SUBSET Nat]

LEMMA TypeOKParts == TypeOK <=> Types /\ BufferShape
BY Zenon DEF TypeOK, Types

\* ReinitBuffer leaves an empty buffer; with no flush running it has shape.
LEMMA ReinitShape ==
  ASSUME ReinitBuffer, keyPos' = 0, msgPos' = 0
  PROVE  BufferShape'
<1>1. keys' = << >> /\ buffer' = [k \in Keys |-> << >>]
  BY DEF ReinitBuffer
<1>2. Range(keys') = {}
  BY <1>1 DEF Range
<1> QED BY <1>1, <1>2 DEF BufferShape, InKeys, Flushing

LEMMA ReinitTypes ==
  ASSUME ReinitBuffer
  PROVE  buffer' \in [Keys -> Seq(Nat)] /\ keys' \in Seq(Keys) /\ bufferCount' \in Nat
BY DEF ReinitBuffer

LEMMA LoseTypes ==
  ASSUME NEW c \in Causes, NEW S \in SUBSET Nat, Types, Lose(c, S)
  PROVE  lost' \in [Causes -> SUBSET Nat]
BY DEF Types, Lose

LEMMA PendingTypes ==
  ASSUME Types
  PROVE  Pending \subseteq Nat
<1> SUFFICES ASSUME NEW k \in Keys, NEW i \in FirstTodo(k)..Len(buffer[k]), NEW id, id = buffer[k][i]
             PROVE  id \in Nat
  BY DEF Pending, Todo
<1>1. buffer[k] \in Seq(Nat) /\ keyPos \in Nat /\ msgPos \in Nat
  BY DEF Types
<1>2. FirstTodo(k) \in Nat /\ FirstTodo(k) >= 1
  BY <1>1 DEF FirstTodo
<1> QED BY <1>1, <1>2

LEMMA InitType == Init => TypeOK
<1> SUFFICES ASSUME Init PROVE TypeOK
  OBVIOUS
<1>1. Types
  BY DEF Init, Types, InitBufferSwitch, Phases
<1>2. BufferShape
  <2>1. Range(keys) = {}
    BY DEF Init, Range
  <2> QED BY <2>1 DEF Init, BufferShape, InKeys, Flushing
<1> QED BY <1>1, <1>2, TypeOKParts

\* seaslog_buffer_set keeps the table a table: one entry per key.
LEMMA AddShape ==
  ASSUME Types, BufferShape, ~Flushing, NEW k \in Keys, NEW id \in Nat,
         AddToBuffer(k, id), keyPos' \in {0, 1}, msgPos' = 0, enabled', phase' = "script"
  PROVE  /\ buffer' \in [Keys -> Seq(Nat)] /\ keys' \in Seq(Keys)
         /\ BufferShape'
<1> USE DEF Types
<1>1. buffer' \in [Keys -> Seq(Nat)] /\ keys' \in Seq(Keys)
  BY DEF AddToBuffer
<1>2. \A l \in Keys : buffer'[l] = IF l = k THEN Append(buffer[k], id) ELSE buffer[l]
  BY DEF AddToBuffer
<1>3. \A l \in Keys : l \in Range(keys') <=> buffer'[l] # << >>
  <2> SUFFICES ASSUME NEW l \in Keys PROVE l \in Range(keys') <=> buffer'[l] # << >>
    OBVIOUS
  <2>1. Append(buffer[k], id) # << >>
    <3>1. buffer[k] \in Seq(Nat)
      OBVIOUS
    <3> QED BY <3>1, AppendNonEmpty, Zenon
  <2>2. CASE k \in Range(keys)
    BY <1>2, <2>1, <2>2 DEF AddToBuffer, BufferShape
  <2>3. CASE k \notin Range(keys)
    <3>1. keys' = Append(keys, k)
      BY <2>3 DEF AddToBuffer
    <3>2. l \in Range(keys') <=> l \in Range(keys) \/ l = k
      BY <3>1, RangeAppend
    <3> QED BY <1>2, <2>1, <3>2 DEF BufferShape
  <2> QED BY <2>2, <2>3
<1>4. \A i, j \in DOMAIN keys' : keys'[i] = keys'[j] => i = j
  <2>1. CASE k \in Range(keys)
    BY <2>1 DEF AddToBuffer, BufferShape
  <2>2. CASE k \notin Range(keys)
    <3>1. keys' = Append(keys, k) /\ keys \in Seq(Keys)
      BY <2>2 DEF AddToBuffer
    <3>2. \A i \in DOMAIN keys : keys[i] # k
      BY <2>2 DEF Range
    <3>3. /\ DOMAIN keys = 1..Len(keys) /\ DOMAIN keys' = 1..(Len(keys) + 1)
          /\ Len(keys) \in Nat
          /\ \A i \in 1..Len(keys) : keys'[i] = keys[i]
          /\ keys'[Len(keys) + 1] = k
      BY <3>1, AppendFacts
    <3>4. \A i, j \in DOMAIN keys : keys[i] = keys[j] => i = j
      BY DEF BufferShape
    <3> SUFFICES ASSUME NEW i \in DOMAIN keys', NEW j \in DOMAIN keys', keys'[i] = keys'[j]
                 PROVE  i = j
      OBVIOUS
    <3>5. CASE i \in DOMAIN keys /\ j \in DOMAIN keys
      BY <3>3, <3>4, <3>5
    <3>6. CASE i \in DOMAIN keys /\ j = Len(keys) + 1
      BY <3>2, <3>3, <3>6
    <3>7. CASE i = Len(keys) + 1 /\ j \in DOMAIN keys
      BY <3>2, <3>3, <3>7
    <3>8. CASE i = Len(keys) + 1 /\ j = Len(keys) + 1
      BY <3>8
    <3>9. /\ i \in DOMAIN keys \/ i = Len(keys) + 1
          /\ j \in DOMAIN keys \/ j = Len(keys) + 1
      BY <3>3
    <3> QED BY <3>5, <3>6, <3>7, <3>8, <3>9, Zenon
  <2> QED BY <2>1, <2>2
<1>5. keyPos' <= Len(keys') + 1
  BY <1>1
<1> QED BY <1>1, <1>3, <1>4, <1>5 DEF BufferShape

\* Every action keeps the types and the shape of the buffer.
LEMMA NextType == TypeOK /\ [Next]_vars => TypeOK'
<1> SUFFICES ASSUME Types, BufferShape, [Next]_vars
             PROVE  Types' /\ BufferShape'
  BY TypeOKParts, PTL
<1>a. Flushing \in BOOLEAN /\ (msgPos > 0 => Flushing) /\ (~Flushing => keyPos = 0 /\ msgPos = 0)
  BY DEF Flushing, Types, BufferShape, InKeys
<1>1. CASE RequestStart
  <2>1. keyPos = 0 /\ msgPos = 0
    BY <1>1, <1>a DEF RequestStart, BufferShape
  <2>2. CASE ReinitBuffer
    BY <1>1, <2>1, <2>2, ReinitShape, ReinitTypes
    DEF RequestStart, Types, Phases, history
  <2>3. CASE UNCHANGED memory
    BY <1>1, <2>1, <2>3
    DEF RequestStart, Types, Phases, memory, history, BufferShape, InKeys, Flushing
  <2> QED BY <1>1, <2>2, <2>3 DEF RequestStart
<1>2. ASSUME NEW k \in Keys, LogBuffered(k) PROVE Types' /\ BufferShape'
  <2>1. keyPos' \in {0, 1} /\ msgPos' = 0 /\ bufferCount' \in Nat
    BY <1>2, <1>a DEF LogBuffered, InScript, CountAndFlushIfFull, Types
  <2>2. /\ buffer' \in [Keys -> Seq(Nat)] /\ keys' \in Seq(Keys)
        /\ BufferShape'
    BY <1>2, <2>1, AddShape DEF LogBuffered, InScript, Types
  <2> QED BY <1>2, <2>1, <2>2 DEF LogBuffered, Types
<1>3. ASSUME NEW k \in Keys, LogDirect(k) PROVE Types' /\ BufferShape'
  <2>1. stored[k] \in Seq(Nat) /\ nextId \in Nat /\ nextId + 1 \in Nat
    BY DEF Types
  <2>2. Append(stored[k], nextId) \in Seq(Nat)
    BY <2>1
  <2>3. stored' \in [Keys -> Seq(Nat)] /\ accepted' \subseteq Nat
    BY <1>3, <2>1, <2>2 DEF LogDirect, Types
  <2>4. Types'
    BY <1>3, <2>1, <2>3 DEF LogDirect, Types, memory
  <2>5. BufferShape'
    BY <1>3 DEF LogDirect, BufferShape, memory, InKeys, Flushing, CurrentKey
  <2> QED BY <2>4, <2>5
<1>4. CASE FlushBufferDiscard
  <2>1. keyPos' = 0 /\ msgPos' = 0
    BY <1>4, <1>a DEF FlushBufferDiscard, InScript
  <2>2. CASE ReinitBuffer /\ Lose("discard", Pending)
    BY <1>4, <2>1, <2>2, ReinitShape, ReinitTypes, LoseTypes, PendingTypes
    DEF FlushBufferDiscard, Types, Causes
  <2>3. CASE UNCHANGED <<memory, lost>>
    BY <1>4, <2>1, <2>3
    DEF FlushBufferDiscard, Types, memory, BufferShape, InKeys, Flushing
  <2> QED BY <1>4, <2>2, <2>3 DEF FlushBufferDiscard
<1>5. CASE FlushCall
  BY <1>5 DEF FlushCall, InScript, FlushIfCounted, Types, BufferShape, memory, history,
     InKeys, Flushing, CurrentKey
<1>6. ASSUME NEW n \in SetSizes, SetBufferSize(n) PROVE Types' /\ BufferShape'
  BY <1>6 DEF SetBufferSize, Types, BufferShape, memory, history, InKeys, Flushing, CurrentKey
<1>7. CASE FlushOpen
  <2>1. InKeys /\ CurrentKey \in Keys /\ buffer[CurrentKey] \in Seq(Nat)
    BY <1>7 DEF FlushOpen, InKeys, Flushing, CurrentKey, Types
  <2>2. buffer[CurrentKey] # << >>
    BY <2>1 DEF BufferShape, InKeys, Flushing, CurrentKey, Range, Types
  <2>3. Range(buffer[CurrentKey]) \in SUBSET Nat
    BY <2>1 DEF Range
  <2>4. lost' \in [Causes -> SUBSET Nat]
    BY <1>7, <2>3, LoseTypes DEF FlushOpen, Causes, Types
  <2>5. Types'
    BY <1>7, <2>4 DEF FlushOpen, Types, memory
  <2>6. BufferShape'
    BY <1>7, <2>1, <2>2 DEF FlushOpen, BufferShape, memory, InKeys, Flushing, CurrentKey, Types
  <2> QED BY <2>5, <2>6
<1>8. CASE FlushWrite
  <2> DEFINE id == buffer[CurrentKey][msgPos]
  <2>1. InKeys /\ CurrentKey \in Keys /\ buffer[CurrentKey] \in Seq(Nat)
    BY <1>8 DEF FlushWrite, InKeys, Flushing, CurrentKey, Types
  <2>2. id \in Nat /\ msgPos <= Len(buffer[CurrentKey])
    BY <1>8, <2>1 DEF FlushWrite, BufferShape, Types
  <2>3. stored' \in [Keys -> Seq(Nat)] /\ lost' \in [Causes -> SUBSET Nat]
    <3>1. CASE stored' = [stored EXCEPT ![CurrentKey] = Append(@, id)] /\ UNCHANGED lost
      BY <2>1, <2>2, <3>1, AppendFacts DEF Types
    <3>2. CASE Lose("short", {id}) /\ UNCHANGED stored
      BY <2>2, <3>2, LoseTypes DEF Types, Causes
    <3> QED BY <1>8, <3>1, <3>2 DEF FlushWrite
  <2>4. Types'
    BY <1>8, <2>3 DEF FlushWrite, Types, memory
  <2>5. BufferShape'
    <3>1. UNCHANGED <<buffer, keys, phase, enabled>> /\ keyPos \in Nat /\ msgPos \in Nat
      BY <1>8 DEF FlushWrite, memory, Types
    <3>2. keyPos > 0 /\ keyPos <= Len(keys) /\ Len(keys) \in Nat /\ phase # "down"
      BY <1>8 DEF FlushWrite, BufferShape, InKeys, Flushing, Types
    <3>3. keyPos' <= Len(keys') + 1
      BY <1>8, <3>1, <3>2 DEF FlushWrite
    <3>4. msgPos' > 0 => InKeys' /\ msgPos' <= Len(buffer'[CurrentKey'])
      <4>1. CASE msgPos < Len(buffer[CurrentKey])
        BY <1>8, <2>1, <3>1, <4>1 DEF FlushWrite, InKeys, Flushing, CurrentKey
      <4>2. CASE ~(msgPos < Len(buffer[CurrentKey]))
        BY <1>8, <4>2 DEF FlushWrite
      <4> QED BY <4>1, <4>2
    <3> QED BY <3>1, <3>2, <3>3, <3>4 DEF BufferShape, Flushing
  <2> QED BY <2>4, <2>5
<1>9. CASE FlushDone
  <2>1. msgPos = 0
    BY <1>9 DEF FlushDone, BufferShape, InKeys, Types
  <2>2. CASE phase = "script"
    BY <1>9, <2>1, <2>2, ReinitShape, ReinitTypes DEF FlushDone, Types, history
  <2>3. CASE phase = "shutdown"
    BY <1>9, <2>3 DEF FlushDone, Types, memory, history, BufferShape, InKeys, Flushing,
       CurrentKey, Phases
  <2> QED BY <1>9, <2>2, <2>3 DEF FlushDone
<1>10. CASE ShutdownStart
  BY <1>10 DEF ShutdownStart, InScript, FlushIfCounted, Types, BufferShape, memory, history,
     InKeys, Flushing, CurrentKey, Phases
<1>11. CASE RequestEnd
  <2>1. CASE ReinitBuffer /\ Lose("cleared", Pending)
    BY <1>11, <2>1, ReinitShape, ReinitTypes, LoseTypes, PendingTypes
    DEF RequestEnd, Types, Causes, Phases
  <2>2. CASE ~enabled /\ UNCHANGED <<memory, lost>>
    BY <1>11, <2>2
    DEF RequestEnd, Types, memory, BufferShape, InKeys, Flushing, Phases
  <2> QED BY <1>11, <2>1, <2>2 DEF RequestEnd
<1>12. CASE Crash
  BY <1>12, ReinitShape, ReinitTypes, LoseTypes, PendingTypes DEF Crash, Types, Causes, Phases
<1>13. CASE UNCHANGED vars
  BY <1>13 DEF vars, Types, BufferShape, InKeys, Flushing, CurrentKey
<1> QED
  BY <1>1, <1>2, <1>3, <1>4, <1>5, <1>6, <1>7, <1>8, <1>9, <1>10, <1>11, <1>12, <1>13
  DEF Next, Flush

\* The buffer is a well-formed table and every variable keeps its type.
THEOREM TypeCorrect == Spec => []TypeOK
<1>1. Init => TypeOK
  BY InitType
<1>2. TypeOK /\ [Next]_vars => TypeOK'
  BY NextType
<1> QED BY <1>1, <1>2, PTL DEF Spec

-----------------------------------------------------------------------------
(* Conservation and order: the inductive invariant *)

\* Message numbers are handed out once, so a buffer holds them in order and
\* no two keys share one; the part of a buffer that no flush has visited is
\* newer than everything in its file.
Fresh       == \A id \in accepted : id < nextId
BufferOrder == \A k \in Keys : \A i, j \in DOMAIN buffer[k] :
                 i < j => buffer[k][i] < buffer[k][j]
KeysApart   == \A k, l \in Keys : \A i \in DOMAIN buffer[k], j \in DOMAIN buffer[l] :
                 buffer[k][i] = buffer[l][j] => k = l
Known       == \A k \in Keys : \A i \in DOMAIN buffer[k] : buffer[k][i] \in accepted
TodoAhead   == \A k \in Keys : \A i \in FirstTodo(k)..Len(buffer[k]), j \in DOMAIN stored[k] :
                 stored[k][j] < buffer[k][i]


IInv ==
  /\ TypeOK /\ Accounting /\ StoredInOrder
  /\ Fresh /\ BufferOrder /\ KeysApart /\ Known /\ TodoAhead

-----------------------------------------------------------------------------
(* How each step moves the pending messages *)

LEMMA FirstTodoRange ==
  Types => \A k \in Keys : FirstTodo(k) \in Nat /\ FirstTodo(k) >= 1
<1> SUFFICES ASSUME Types, NEW k \in Keys
             PROVE  FirstTodo(k) \in Nat /\ FirstTodo(k) >= 1
  OBVIOUS
<1>1. buffer[k] \in Seq(Nat) /\ msgPos \in Nat
  BY DEF Types
<1> QED BY <1>1 DEF FirstTodo

LEMMA InTodo ==
  \A k \in Keys : \A id : id \in Todo(k) <=>
    \E i \in FirstTodo(k)..Len(buffer[k]) : id = buffer[k][i]
BY DEF Todo

\* Before a flush, and at its start, every buffered message is to be visited.
AtStart == keyPos \in {0, 1} /\ msgPos = 0
AllTodo ==
  /\ \A k \in Keys : FirstTodo(k) = 1 /\ Todo(k) = Range(buffer[k])
  /\ Pending = Buffered

LEMMA IdleTodo == Types /\ AtStart => AllTodo
<1> SUFFICES ASSUME Types, AtStart PROVE AllTodo
  OBVIOUS
<1> USE DEF AtStart
<1>1. ASSUME NEW k \in Keys PROVE FirstTodo(k) = 1
  <2>1. \A i \in DOMAIN keys : ~(i < keyPos)
    BY DEF Types
  <2> QED BY <2>1 DEF FirstTodo
<1>2. ASSUME NEW k \in Keys PROVE Todo(k) = Range(buffer[k])
  <2>1. buffer[k] \in Seq(Nat) /\ DOMAIN buffer[k] = 1..Len(buffer[k])
    BY DEF Types
  <2> QED BY <1>1, <2>1 DEF Todo, Range
<1>3. Pending = Buffered
  BY <1>2 DEF Pending, Buffered
<1> QED BY <1>1, <1>2, <1>3 DEF AllTodo

\* Where the flush stands: the current key from msgPos on, later keys whole.
LEMMA CurrentTodo ==
  Types /\ BufferShape /\ InKeys =>
    /\ CurrentKey \in Keys
    /\ FirstTodo(CurrentKey) = IF msgPos > 0 THEN msgPos ELSE 1
<1> SUFFICES ASSUME Types, BufferShape, InKeys
             PROVE  /\ CurrentKey \in Keys
                    /\ FirstTodo(CurrentKey) = IF msgPos > 0 THEN msgPos ELSE 1
  OBVIOUS
<1>1. keyPos \in 1..Len(keys) /\ keys \in Seq(Keys) /\ DOMAIN keys = 1..Len(keys)
  BY DEF Types, InKeys, Flushing
<1>2. CurrentKey \in Keys
  BY <1>1 DEF CurrentKey
<1>3. ~ \E i \in DOMAIN keys : keys[i] = CurrentKey /\ i < keyPos
  BY <1>1 DEF CurrentKey, BufferShape
<1> QED BY <1>2, <1>3 DEF FirstTodo

\* The flush leaves the current key: nothing of it remains to be visited.
LEMMA NextKeyTodo ==
  ASSUME Types, BufferShape, InKeys, UNCHANGED <<buffer, keys>>,
         keyPos' = keyPos + 1, msgPos' = 0
  PROVE  \A k \in Keys :
           FirstTodo(k)' = IF k = CurrentKey THEN Len(buffer[k]) + 1 ELSE FirstTodo(k)
<1>1. keyPos \in 1..Len(keys) /\ keys \in Seq(Keys) /\ DOMAIN keys = 1..Len(keys)
  BY DEF Types, InKeys, Flushing
<1>2. ASSUME NEW k \in Keys
      PROVE  (\E i \in DOMAIN keys : keys[i] = k /\ i < keyPos + 1)
               <=> k = CurrentKey \/ \E i \in DOMAIN keys : keys[i] = k /\ i < keyPos
  BY <1>1 DEF CurrentKey
<1> QED BY <1>1, <1>2 DEF FirstTodo

\* The flush moves on within the current key.
LEMMA NextMsgTodo ==
  ASSUME Types, BufferShape, InKeys, UNCHANGED <<buffer, keys, keyPos>>,
         msgPos' = msgPos + 1
  PROVE  \A k \in Keys :
           FirstTodo(k)' = IF k = CurrentKey THEN msgPos + 1 ELSE FirstTodo(k)
<1>1. keyPos \in 1..Len(keys) /\ keys \in Seq(Keys) /\ DOMAIN keys = 1..Len(keys)
  BY DEF Types, InKeys, Flushing
<1>2. ~ \E i \in DOMAIN keys : keys[i] = CurrentKey /\ i < keyPos
  BY <1>1 DEF CurrentKey, BufferShape
<1>3. InKeys' /\ CurrentKey' = CurrentKey /\ msgPos' > 0
  BY DEF InKeys, Flushing, CurrentKey, Types
<1> QED BY <1>2, <1>3 DEF FirstTodo, Types

\* At the end of a flush nothing is left to visit.
LEMMA DoneTodo ==
  Types /\ BufferShape /\ Flushing /\ keyPos > Len(keys) =>
    /\ \A k \in Keys : FirstTodo(k) > Len(buffer[k]) \/ buffer[k] = << >>
    /\ Pending = {}
<1> SUFFICES ASSUME Types, BufferShape, Flushing, keyPos > Len(keys)
             PROVE  /\ \A k \in Keys : FirstTodo(k) > Len(buffer[k]) \/ buffer[k] = << >>
                    /\ Pending = {}
  OBVIOUS
<1>1. ASSUME NEW k \in Keys, buffer[k] # << >> PROVE FirstTodo(k) = Len(buffer[k]) + 1
  <2>1. k \in Range(keys)
    BY <1>1 DEF BufferShape
  <2>2. \E i \in DOMAIN keys : keys[i] = k /\ i < keyPos
    BY <2>1 DEF Range, Types
  <2> QED BY <2>2 DEF FirstTodo
<1>2. ASSUME NEW k \in Keys PROVE Todo(k) = {}
  <2>1. buffer[k] \in Seq(Nat) /\ Len(buffer[k]) \in Nat
    BY DEF Types
  <2>2. CASE buffer[k] = << >>
    <3>1. Len(buffer[k]) = 0
      BY <2>2
    <3> QED BY <3>1, FirstTodoRange DEF Todo
  <2>3. CASE buffer[k] # << >>
    BY <1>1, <2>1, <2>3 DEF Todo
  <2> QED BY <2>2, <2>3
<1>3. Pending = {}
  BY <1>2 DEF Pending
<1>4. \A k \in Keys : Len(buffer[k]) \in Nat
  BY DEF Types
<1> QED BY <1>1, <1>3, <1>4

LEMMA EmptyTable ==
  BufferShape /\ keys = << >> => \A k \in Keys : buffer[k] = << >>
BY DEF BufferShape, Range

LEMMA IdlePending ==
  Types /\ BufferShape /\ keys = << >> => Pending = {}
<1> SUFFICES ASSUME Types, BufferShape, keys = << >> PROVE Pending = {}
  OBVIOUS
<1>1. ASSUME NEW k \in Keys PROVE Todo(k) = {}
  <2>1. buffer[k] = << >> /\ FirstTodo(k) >= 1 /\ FirstTodo(k) \in Nat
    BY EmptyTable, FirstTodoRange
  <2>2. Len(buffer[k]) = 0
    BY <2>1
  <2> QED BY <2>1, <2>2 DEF Todo
<1> QED BY <1>1 DEF Pending

LEMMA EmptyPending ==
  ASSUME keys' = << >>, \A k \in Keys : buffer'[k] = << >>, keyPos' = 0
  PROVE  Pending' = {}
<1>2. ASSUME NEW k \in Keys PROVE Todo(k)' = {}
  <2>1. FirstTodo(k)' = 1
    BY DEF FirstTodo, InKeys, Flushing
  <2> QED BY <2>1 DEF Todo
<1> QED BY <1>2 DEF Pending

-----------------------------------------------------------------------------
(* How each step moves what is stored and what is lost *)

LEMMA StoredAppend ==
  ASSUME Types, NEW k \in Keys, NEW id \in Nat,
         stored' = [stored EXCEPT ![k] = Append(@, id)]
  PROVE  Stored' = Stored \cup {id}
<1>1. stored[k] \in Seq(Nat)
  BY DEF Types
<1>2. Range(Append(stored[k], id)) = Range(stored[k]) \cup {id}
  BY <1>1, RangeAppend
<1>3. \A l \in Keys : stored'[l] = IF l = k THEN Append(stored[k], id) ELSE stored[l]
  BY DEF Types
<1> QED BY <1>2, <1>3, Zenon DEF Stored

LEMMA LostGrows ==
  ASSUME Types, NEW c \in Causes, NEW S, Lose(c, S)
  PROVE  Lost' = Lost \cup S
<1>1. \A d \in Causes : lost'[d] = IF d = c THEN lost[c] \cup S ELSE lost[d]
  BY DEF Types, Lose
<1> QED BY <1>1, Zenon DEF Lost

LEMMA StoreInOrder ==
  ASSUME Types, StoredInOrder, NEW k \in Keys, NEW id \in Nat,
         stored' = [stored EXCEPT ![k] = Append(@, id)],
         \A j \in DOMAIN stored[k] : stored[k][j] < id
  PROVE  StoredInOrder'
<1>1. stored[k] \in Seq(Nat) /\ id \in Nat
  BY DEF Types
<1>2. \A l \in Keys : stored'[l] = IF l = k THEN Append(stored[k], id) ELSE stored[l]
  BY DEF Types
<1>3. SUFFICES ASSUME NEW i \in DOMAIN stored'[k], NEW j \in DOMAIN stored'[k], i < j
               PROVE  stored'[k][i] < stored'[k][j]
  BY <1>2 DEF StoredInOrder
<1>4. stored'[k] = Append(stored[k], id)
  BY <1>2
<1>5. CASE j = Len(stored[k]) + 1
  BY <1>1, <1>3, <1>4, <1>5, AppendFacts
<1>6. CASE j # Len(stored[k]) + 1
  BY <1>1, <1>3, <1>4, <1>6, AppendFacts DEF StoredInOrder
<1> QED BY <1>5, <1>6

LEMMA InitInv == Init => IInv
<1> SUFFICES ASSUME Init PROVE IInv
  OBVIOUS
<1>1. TypeOK
  BY InitType
<1>2. /\ \A k \in Keys : buffer[k] = << >> /\ stored[k] = << >>
      /\ \A c \in Causes : lost[c] = {}
  BY DEF Init
<1>3. Stored = {} /\ Lost = {} /\ Buffered = {}
  BY <1>2 DEF Stored, Lost, Buffered, Range
<1>4. Pending = {}
  <2>1. Types /\ AtStart
    BY <1>1, TypeOKParts DEF Init, AtStart
  <2> QED BY <1>3, <2>1, IdleTodo DEF AllTodo
<1>5. Accounting
  BY <1>3, <1>4 DEF Accounting, Init
<1>6. StoredInOrder /\ Fresh /\ BufferOrder /\ KeysApart /\ Known /\ TodoAhead
  BY <1>2 DEF StoredInOrder, Fresh, BufferOrder, KeysApart, Known, TodoAhead, Init
<1> QED BY <1>1, <1>5, <1>6 DEF IInv

-----------------------------------------------------------------------------
(* Each action keeps the invariant *)

\* A step that changes neither the flush, nor the memory, nor the histories.
LEMMA QuietInv ==
  ASSUME IInv, TypeOK', UNCHANGED <<enabled, buffer, keys, keyPos, msgPos, nextId, stored, accepted, lost>>
  PROVE  IInv'
<1>1. /\ \A k \in Keys : FirstTodo(k)' = FirstTodo(k) /\ Todo(k)' = Todo(k)
      /\ Stored' = Stored /\ Lost' = Lost
  BY DEF FirstTodo, Todo, InKeys, Flushing, CurrentKey, Stored, Lost
<1>2. Pending' = Pending
  BY <1>1 DEF Pending
<1> QED
  BY <1>1, <1>2 DEF IInv, Accounting, StoredInOrder, Fresh, BufferOrder, KeysApart, Known,
     TodoAhead

\* A flush starts: every buffered message was, and is, to be visited.
LEMMA FlushStartInv ==
  ASSUME IInv, TypeOK', keyPos = 0, msgPos = 0, keyPos' \in {0, 1}, msgPos' = 0,
         UNCHANGED <<enabled, buffer, keys, nextId, stored, accepted, lost>>
  PROVE  IInv'
<1>1. Types /\ Types'
  BY TypeOKParts, PTL DEF IInv
<1>2. AllTodo
  BY <1>1, IdleTodo DEF AtStart
<1>3. AllTodo'
  <2>1. Types' /\ AtStart'
    BY <1>1 DEF AtStart
  <2> QED BY <2>1, IdleTodo, PTL
<1>4. Buffered' = Buffered /\ Stored' = Stored /\ Lost' = Lost
  BY DEF Buffered, Stored, Lost
<1> QED
  BY <1>2, <1>3, <1>4
  DEF AllTodo, IInv, Accounting, StoredInOrder, Fresh, BufferOrder, KeysApart, Known,
      TodoAhead

\* The buffer is emptied and what was pending is lost to some cause.
LEMMA EmptiedInv ==
  ASSUME IInv, TypeOK', keys' = << >>, \A k \in Keys : buffer'[k] = << >>, keyPos' = 0,
         UNCHANGED <<nextId, stored, accepted>>, Lost' = Lost \cup Pending
  PROVE  IInv'
<1>1. Pending' = {}
  BY EmptyPending
<1>2. Stored' = Stored
  BY DEF Stored
<1>3. Accounting'
  BY <1>1, <1>2 DEF IInv, Accounting
<1>4. TodoAhead'
  <2>1. \A k \in Keys : Len(buffer'[k]) = 0 /\ FirstTodo(k)' = 1
    BY DEF FirstTodo, InKeys, Flushing
  <2> QED BY <2>1 DEF TodoAhead
<1> QED
  BY <1>1, <1>3, <1>4 DEF IInv, StoredInOrder, Fresh, BufferOrder, KeysApart, Known

LEMMA LogBufferedInv ==
  ASSUME IInv, TypeOK', NEW k \in Keys, LogBuffered(k)
  PROVE  IInv'
<1>0. Types /\ Types' /\ BufferShape
  BY TypeOKParts, PTL DEF IInv
<1>1. nextId \in Nat /\ keyPos = 0 /\ msgPos = 0
  BY <1>0 DEF Types, LogBuffered, InScript, Flushing, BufferShape, InKeys
<1>2. AtStart'
  BY <1>1 DEF LogBuffered, CountAndFlushIfFull, AtStart
<1>3. /\ buffer[k] \in Seq(Nat) /\ buffer' = [buffer EXCEPT ![k] = Append(@, nextId)]
      /\ \A l \in Keys : buffer'[l] = IF l = k THEN Append(buffer[k], nextId) ELSE buffer[l]
      /\ \A l \in Keys : buffer[l] \in Seq(Nat)
  BY <1>0 DEF LogBuffered, AddToBuffer, Types
<1>4. AllTodo
  BY <1>0, <1>1, IdleTodo DEF AtStart
<1>5. AllTodo'
  BY <1>0, <1>2, IdleTodo, PTL
<1>6. Buffered' = Buffered \cup {nextId}
  <2>1. Range(buffer'[k]) = Range(buffer[k]) \cup {nextId}
    <3>1. buffer'[k] = Append(buffer[k], nextId)
      BY <1>3
    <3>2. Range(Append(buffer[k], nextId)) = Range(buffer[k]) \cup {nextId}
      BY <1>1, <1>3, RangeAppend
    <3> QED BY <3>1, <3>2
  <2> QED BY <1>3, <2>1, Zenon DEF Buffered
<1>7. Stored' = Stored /\ Lost' = Lost /\ accepted' = accepted \cup {nextId} /\ nextId' = nextId + 1
  BY DEF LogBuffered, Stored, Lost
<1>8. nextId \notin accepted
  BY <1>1 DEF IInv, Fresh
<1>9. Accounting'
  BY <1>4, <1>5, <1>6, <1>7, <1>8 DEF AllTodo, IInv, Accounting
<1>10. Fresh' /\ StoredInOrder'
  <2>1. Fresh'
    BY <1>1, <1>7 DEF IInv, Fresh, TypeOK
  <2>2. UNCHANGED stored
    BY DEF LogBuffered
  <2> QED BY <2>1, <2>2 DEF IInv, StoredInOrder
<1>11. /\ \A l \in Keys \ {k} : buffer'[l] = buffer[l]
       /\ buffer'[k] = Append(buffer[k], nextId)
       /\ DOMAIN buffer'[k] = 1..(Len(buffer[k]) + 1) /\ DOMAIN buffer[k] = 1..Len(buffer[k])
       /\ Len(buffer'[k]) = Len(buffer[k]) + 1 /\ Len(buffer[k]) \in Nat
       /\ \A i \in 1..Len(buffer[k]) : buffer'[k][i] = buffer[k][i]
       /\ buffer'[k][Len(buffer[k]) + 1] = nextId
  <2>1. /\ \A l \in Keys \ {k} : buffer'[l] = buffer[l]
        /\ buffer'[k] = Append(buffer[k], nextId)
    BY <1>3
  <2> QED BY <1>1, <1>3, <2>1, AppendFacts
<1>12. \A l \in Keys : \A i \in DOMAIN buffer[l] : buffer[l][i] < nextId
  BY DEF IInv, Known, Fresh
<1>13. Known'
  BY <1>7, <1>11 DEF IInv, Known
<1>14. BufferOrder'
  <2> SUFFICES ASSUME NEW l \in Keys, NEW i \in DOMAIN buffer'[l],
                      NEW j \in DOMAIN buffer'[l], i < j
               PROVE  buffer'[l][i] < buffer'[l][j]
    BY DEF BufferOrder
  <2>1. \A m, n \in DOMAIN buffer[l] : m < n => buffer[l][m] < buffer[l][n]
    BY DEF IInv, BufferOrder
  <2>2. CASE l # k
    BY <1>11, <2>1, <2>2
  <2>3. CASE l = k /\ j = Len(buffer[k]) + 1
    <3>1. i \in 1..Len(buffer[k])
      BY <1>11, <2>3
    <3> QED BY <1>11, <1>12, <2>3, <3>1
  <2>4. CASE l = k /\ j # Len(buffer[k]) + 1
    <3>1. i \in 1..Len(buffer[k]) /\ j \in 1..Len(buffer[k])
      BY <1>11, <2>4
    <3> QED BY <1>11, <2>1, <2>4, <3>1
  <2> QED BY <1>11, <2>2, <2>3, <2>4
<1>15. KeysApart'
  <2> SUFFICES ASSUME NEW a \in Keys, NEW b \in Keys, NEW i \in DOMAIN buffer'[a],
                      NEW j \in DOMAIN buffer'[b], buffer'[a][i] = buffer'[b][j], a # b
               PROVE  FALSE
    BY DEF KeysApart
  <2>1. CASE a = k
    BY <1>1, <1>11, <1>12, <2>1, SMTT(30) DEF IInv, KeysApart
  <2>2. CASE b = k
    BY <1>1, <1>11, <1>12, <2>2, SMTT(30) DEF IInv, KeysApart
  <2>3. CASE a # k /\ b # k
    BY <1>11, <2>3 DEF IInv, KeysApart
  <2> QED BY <2>1, <2>2, <2>3
<1>16. TodoAhead'
  <2> SUFFICES ASSUME NEW l \in Keys, NEW i \in 1..Len(buffer'[l]), NEW j \in DOMAIN stored[l]
               PROVE  stored[l][j] < buffer'[l][i]
    BY <1>5 DEF AllTodo, TodoAhead, LogBuffered
  <2>1. stored[l][j] \in accepted
    BY DEF IInv, Accounting, Stored, Range
  <2>2. CASE l = k /\ i = Len(buffer[k]) + 1
    BY <1>11, <2>1, <2>2 DEF IInv, Fresh
  <2>3. CASE l # k \/ i # Len(buffer[k]) + 1
    <3>1. i \in 1..Len(buffer[l]) /\ buffer'[l][i] = buffer[l][i]
      BY <1>11, <2>3
    <3> QED BY <1>4, <3>1 DEF AllTodo, IInv, TodoAhead
  <2> QED BY <2>2, <2>3
<1> QED BY <1>9, <1>10, <1>13, <1>14, <1>15, <1>16 DEF IInv

LEMMA LogDirectInv ==
  ASSUME IInv, TypeOK', NEW k \in Keys, LogDirect(k)
  PROVE  IInv'
<1>1. Types /\ nextId \in Nat
  BY TypeOKParts DEF IInv, Types
<1>2. \A l \in Keys : buffer[l] = << >>
  BY EmptyTable, TypeOKParts DEF IInv, BufferShape, LogDirect
<1>3. UNCHANGED <<enabled, buffer, keys, keyPos, msgPos, lost>> /\ nextId' = nextId + 1
  BY DEF LogDirect, memory
<1>4. Pending' = Pending /\ Lost' = Lost
  <2>1. \A l \in Keys : FirstTodo(l)' = FirstTodo(l) /\ Todo(l)' = Todo(l)
    BY <1>3 DEF FirstTodo, Todo, InKeys, Flushing, CurrentKey
  <2> QED BY <1>3, <2>1 DEF Pending, Lost
<1>5. BufferOrder' /\ KeysApart' /\ Known'
  BY <1>2, <1>3 DEF BufferOrder, KeysApart, Known
<1>6. TodoAhead'
  <2>1. \A l \in Keys : FirstTodo(l)' >= 1 /\ FirstTodo(l)' \in Nat /\ Len(buffer'[l]) = 0
    BY <1>1, <1>2, <1>3, FirstTodoRange DEF FirstTodo, InKeys, Flushing, CurrentKey
  <2> QED BY <2>1 DEF TodoAhead
<1>7. CASE UNCHANGED <<stored, accepted>>
  <2>1. Stored' = Stored
    BY <1>7 DEF Stored
  <2>2. Accounting' /\ StoredInOrder' /\ Fresh'
    BY <1>1, <1>3, <1>4, <1>7, <2>1 DEF IInv, Accounting, StoredInOrder, Fresh, TypeOK
  <2> QED BY <1>5, <1>6, <2>2 DEF IInv
<1>8. CASE /\ stored' = [stored EXCEPT ![k] = Append(@, nextId)]
           /\ accepted' = accepted \cup {nextId}
  <2>1. Stored' = Stored \cup {nextId}
    BY <1>1, <1>8, StoredAppend
  <2>2. \A j \in DOMAIN stored[k] : stored[k][j] < nextId
    BY DEF IInv, Accounting, Stored, Range, Fresh
  <2>3. StoredInOrder'
    BY <1>1, <1>8, <2>2, StoreInOrder DEF IInv
  <2>4. nextId \notin accepted
    BY <1>1 DEF IInv, Fresh
  <2>5. Accounting'
    BY <1>4, <1>8, <2>1, <2>4 DEF IInv, Accounting
  <2>6. Fresh'
    BY <1>1, <1>3, <1>8 DEF IInv, Fresh, TypeOK
  <2> QED BY <1>5, <1>6, <2>3, <2>5, <2>6 DEF IInv
<1> QED BY <1>7, <1>8 DEF LogDirect

\* Memory and histories other than stored and lost rest during a flush.
LEMMA FlushStepInv ==
  ASSUME IInv, TypeOK', UNCHANGED <<enabled, buffer, keys, nextId, accepted>>,
         NEW Gone, Gone \subseteq Pending, Pending' = Pending \ Gone,
         Stored' \cup Lost' = Stored \cup Lost \cup Gone, Stored' \cap Lost' = {},
         Stored \subseteq Stored', StoredInOrder', TodoAhead'
  PROVE  IInv'
<1>1. Accounting'
  BY DEF IInv, Accounting
<1> QED
  BY <1>1 DEF IInv, Fresh, BufferOrder, KeysApart, Known

LEMMA FlushOpenInv ==
  ASSUME IInv, TypeOK', FlushOpen
  PROVE  IInv'
<1>1. Types /\ BufferShape
  BY TypeOKParts DEF IInv
<1>2. /\ UNCHANGED <<enabled, buffer, keys, nextId, stored, accepted>>
      /\ InKeys /\ msgPos = 0 /\ Stored' = Stored
  BY DEF FlushOpen, memory, Stored
<1>3. /\ CurrentKey \in Keys /\ FirstTodo(CurrentKey) = 1
      /\ buffer[CurrentKey] \in Seq(Nat)
  BY <1>1, <1>2, CurrentTodo DEF Types
<1>4. CASE msgPos' = 1 /\ UNCHANGED <<keyPos, lost>>
  <2>1. \A l \in Keys : FirstTodo(l)' = FirstTodo(l)
    <3>1. \A l \in Keys : FirstTodo(l)' = IF l = CurrentKey THEN 1 ELSE FirstTodo(l)
      BY <1>1, <1>2, <1>4, NextMsgTodo
    <3> QED BY <1>3, <3>1
  <2>2. \A l \in Keys : Todo(l)' = Todo(l)
    BY <1>2, <2>1 DEF Todo
  <2>3. Pending' = Pending /\ Lost' = Lost
    BY <1>4, <2>2 DEF Pending, Lost
  <2>4. StoredInOrder' /\ TodoAhead'
    BY <1>2, <2>1 DEF IInv, StoredInOrder, TodoAhead
  <2>5. Stored \cap Lost = {}
    BY DEF IInv, Accounting
  <2>6. {} \subseteq Pending /\ Pending' = Pending \ {}
    BY <2>3
  <2> QED BY <1>2, <2>3, <2>4, <2>5, <2>6, FlushStepInv
<1>5. CASE /\ Lose("open", Range(buffer[CurrentKey]))
           /\ keyPos' = keyPos + 1 /\ msgPos' = 0
  <2> DEFINE Gone == Range(buffer[CurrentKey])
  <2>1. \A l \in Keys : FirstTodo(l)' = IF l = CurrentKey THEN Len(buffer[l]) + 1 ELSE FirstTodo(l)
    BY <1>1, <1>2, <1>5, NextKeyTodo
  <2>2. Todo(CurrentKey) = Gone
    BY <1>3 DEF Todo, Range
  <2>3. Gone \subseteq Pending
    BY <1>3, <2>2 DEF Pending
  <2>4. \A l \in Keys : Todo(l)' = IF l = CurrentKey THEN {} ELSE Todo(l)
    BY <1>2, <1>3, <2>1 DEF Todo
  <2>5. \A l \in Keys : l # CurrentKey => Todo(l) \cap Gone = {}
    <3> SUFFICES ASSUME NEW l \in Keys, l # CurrentKey, NEW i \in FirstTodo(l)..Len(buffer[l]),
                        NEW j \in DOMAIN buffer[CurrentKey], buffer[l][i] = buffer[CurrentKey][j]
                 PROVE  FALSE
      BY DEF Todo, Range
    <3>1. i \in DOMAIN buffer[l]
      BY <1>1, FirstTodoRange DEF Types
    <3> QED BY <1>3, <3>1 DEF IInv, KeysApart
  <2>6. Pending' = Pending \ Gone
    <3> HIDE DEF Gone
    <3> QED BY <1>3, <2>2, <2>4, <2>5 DEF Pending
  <2>7. Lost' = Lost \cup Gone
    BY <1>1, <1>5, LostGrows DEF Causes
  <2>8. StoredInOrder'
    BY <1>2 DEF IInv, StoredInOrder
  <2>9. TodoAhead'
    BY <1>2, <1>3, <2>1 DEF IInv, TodoAhead
  <2>10. Stored' \cap Lost' = {}
    BY <1>2, <2>3, <2>7 DEF IInv, Accounting
  <2> HIDE DEF Gone
  <2> QED BY <1>2, <2>3, <2>6, <2>7, <2>8, <2>9, <2>10, FlushStepInv
<1> QED BY <1>4, <1>5 DEF FlushOpen

LEMMA FlushWriteInv ==
  ASSUME IInv, TypeOK', FlushWrite
  PROVE  IInv'
<1> DEFINE id == buffer[CurrentKey][msgPos]
<1>1. Types /\ BufferShape
  BY TypeOKParts DEF IInv
<1>2. /\ UNCHANGED <<enabled, buffer, keys, nextId, accepted>>
      /\ InKeys /\ msgPos > 0
  BY DEF FlushWrite, memory
<1>3. /\ CurrentKey \in Keys /\ FirstTodo(CurrentKey) = msgPos
      /\ buffer[CurrentKey] \in Seq(Nat) /\ DOMAIN buffer[CurrentKey] = 1..Len(buffer[CurrentKey])
      /\ msgPos \in 1..Len(buffer[CurrentKey]) /\ id \in Nat
  <2>1. CurrentKey \in Keys /\ FirstTodo(CurrentKey) = msgPos
    BY <1>1, <1>2, CurrentTodo
  <2>2. buffer[CurrentKey] \in Seq(Nat) /\ msgPos \in Nat
    BY <1>1, <2>1 DEF Types
  <2>3. msgPos \in 1..Len(buffer[CurrentKey])
    BY <1>1, <1>2, <2>2 DEF BufferShape
  <2> QED BY <2>1, <2>2, <2>3
<1>4. \A l \in Keys : FirstTodo(l)' = IF l = CurrentKey THEN msgPos + 1 ELSE FirstTodo(l)
  <2>1. CASE msgPos < Len(buffer[CurrentKey])
    BY <1>1, <1>2, <2>1, NextMsgTodo DEF FlushWrite
  <2>2. CASE ~(msgPos < Len(buffer[CurrentKey]))
    <3>1. msgPos = Len(buffer[CurrentKey])
      BY <1>3, <2>2
    <3>2. msgPos' = 0 /\ keyPos' = keyPos + 1
      BY <2>2 DEF FlushWrite
    <3>3. \A l \in Keys : FirstTodo(l)' = IF l = CurrentKey THEN Len(buffer[l]) + 1 ELSE FirstTodo(l)
      BY <1>1, <1>2, <3>2, NextKeyTodo
    <3> QED BY <3>1, <3>3
  <2> QED BY <2>1, <2>2
<1>5. id \in Todo(CurrentKey)
  BY <1>3 DEF Todo
<1>6. \A l \in Keys : Todo(l)' = IF l = CurrentKey THEN Todo(l) \ {id} ELSE Todo(l)
  <2>1. ASSUME NEW l \in Keys, l # CurrentKey PROVE Todo(l)' = Todo(l)
    BY <1>2, <1>4, <2>1 DEF Todo
  <2>2. ASSUME NEW l \in Keys, l = CurrentKey PROVE Todo(l)' = Todo(l) \ {id}
    <3>1. Todo(l) = {buffer[l][i] : i \in msgPos..Len(buffer[l])}
      BY <1>3, <2>2 DEF Todo
    <3>2. Todo(l)' = {buffer[l][i] : i \in (msgPos + 1)..Len(buffer[l])}
      BY <1>2, <1>4, <2>2 DEF Todo
    <3>3. \A i \in (msgPos + 1)..Len(buffer[l]) : buffer[l][i] # id
      <4> SUFFICES ASSUME NEW i \in (msgPos + 1)..Len(buffer[l])
                   PROVE  id < buffer[l][i] /\ buffer[l][i] \in Nat
        BY <1>3
      <4> QED BY <1>3, <2>2 DEF IInv, BufferOrder
    <3> QED BY <1>3, <2>2, <3>1, <3>2, <3>3
  <2> QED BY <2>1, <2>2
<1>7. \A l \in Keys : l # CurrentKey => id \notin Todo(l)
  <2> SUFFICES ASSUME NEW l \in Keys, l # CurrentKey, NEW i \in FirstTodo(l)..Len(buffer[l]),
                      buffer[l][i] = id
               PROVE  FALSE
    BY DEF Todo
  <2>1. i \in DOMAIN buffer[l]
    BY <1>1, FirstTodoRange DEF Types
  <2> QED BY <1>3, <2>1 DEF IInv, KeysApart
<1>8. {id} \subseteq Pending /\ Pending' = Pending \ {id}
  <2> HIDE DEF id
  <2> QED BY <1>3, <1>5, <1>6, <1>7 DEF Pending
<1>9. id \notin Stored /\ id \notin Lost
  BY <1>8 DEF IInv, Accounting
<1>10. CASE /\ stored' = [stored EXCEPT ![CurrentKey] = Append(@, id)]
            /\ UNCHANGED lost
  <2>1. Stored' = Stored \cup {id} /\ Lost' = Lost
    BY <1>1, <1>3, <1>10, StoredAppend DEF Lost
  <2>2. \A j \in DOMAIN stored[CurrentKey] : stored[CurrentKey][j] < id
    BY <1>3 DEF IInv, TodoAhead
  <2>3. StoredInOrder'
    BY <1>1, <1>3, <1>10, <2>2, StoreInOrder DEF IInv
  <2>4. TodoAhead'
    <3> SUFFICES ASSUME NEW l \in Keys, NEW i \in FirstTodo(l)'..Len(buffer[l]),
                        NEW j \in DOMAIN stored'[l]
                 PROVE  stored'[l][j] < buffer[l][i]
      BY <1>2 DEF TodoAhead
    <3>1. CASE l # CurrentKey
      BY <1>1, <1>3, <1>4, <1>10, <3>1 DEF IInv, TodoAhead, Types
    <3>2. CASE l = CurrentKey
      <4>1. /\ stored'[l] = Append(stored[l], id) /\ stored[l] \in Seq(Nat)
            /\ i \in (msgPos + 1)..Len(buffer[l])
        BY <1>1, <1>4, <1>10, <3>2 DEF Types
      <4>2. CASE j = Len(stored[l]) + 1
        <5>1. stored'[l][j] = id
          BY <1>3, <4>1, <4>2, AppendFacts
        <5>2. msgPos \in DOMAIN buffer[l] /\ i \in DOMAIN buffer[l] /\ msgPos < i
          BY <1>3, <3>2, <4>1
        <5> QED BY <3>2, <5>1, <5>2 DEF IInv, BufferOrder
      <4>3. CASE j # Len(stored[l]) + 1
        <5>1. j \in DOMAIN stored[l] /\ stored'[l][j] = stored[l][j]
          BY <1>3, <4>1, <4>3, AppendFacts
        <5>2. i \in FirstTodo(l)..Len(buffer[l])
          BY <1>3, <3>2, <4>1
        <5> QED BY <5>1, <5>2 DEF IInv, TodoAhead
      <4> QED BY <4>2, <4>3
    <3> QED BY <3>1, <3>2
  <2>5. Stored' \cap Lost' = {}
    BY <1>9, <2>1 DEF IInv, Accounting
  <2> HIDE DEF id
  <2> QED BY <1>2, <1>8, <2>1, <2>3, <2>4, <2>5, FlushStepInv
<1>11. CASE Lose("short", {id}) /\ UNCHANGED stored
  <2>1. Lost' = Lost \cup {id} /\ Stored' = Stored
    BY <1>1, <1>11, LostGrows DEF Causes, Stored
  <2>2. StoredInOrder'
    BY <1>11 DEF IInv, StoredInOrder
  <2>3. TodoAhead'
    BY <1>2, <1>3, <1>4, <1>11 DEF IInv, TodoAhead
  <2>4. Stored' \cap Lost' = {}
    BY <1>9, <2>1 DEF IInv, Accounting
  <2> HIDE DEF id
  <2> QED BY <1>2, <1>8, <2>1, <2>2, <2>3, <2>4, FlushStepInv
<1> QED BY <1>10, <1>11 DEF FlushWrite

LEMMA FlushDoneInv ==
  ASSUME IInv, TypeOK', FlushDone
  PROVE  IInv'
<1>1. Types /\ BufferShape /\ Flushing /\ keyPos > Len(keys)
  BY TypeOKParts DEF IInv, FlushDone
<1>2. Pending = {}
  BY <1>1, DoneTodo
<1>3. CASE phase = "script"
  <2>1. Lost' = Lost \cup Pending
    BY <1>2 DEF FlushDone, history, Lost
  <2> QED BY <1>3, <2>1, EmptiedInv DEF FlushDone, history, ReinitBuffer
<1>4. CASE phase = "shutdown"
  BY <1>4, QuietInv DEF FlushDone, memory, history
<1> QED BY <1>3, <1>4 DEF FlushDone

LEMMA NextInv == IInv /\ [Next]_vars => IInv'
<1> SUFFICES ASSUME IInv, [Next]_vars PROVE IInv'
  OBVIOUS
<1>1. TypeOK' /\ Types /\ BufferShape
  BY NextType, TypeOKParts DEF IInv
<1>2. (~Flushing => keyPos = 0 /\ msgPos = 0) /\ (phase = "down" => ~Flushing)
  BY <1>1 DEF Flushing, Types, BufferShape, InKeys
<1>3. CASE RequestStart
  <2>1. UNCHANGED <<enabled, keyPos, msgPos, nextId, stored, accepted, lost>> /\ keyPos = 0 /\ msgPos = 0
    BY <1>2, <1>3 DEF RequestStart, history
  <2>2. CASE ReinitBuffer
    <3>1. Pending = {}
      <4>1. keys = << >> /\ keyPos = 0
        BY <1>1, <1>3, <2>1 DEF RequestStart, BufferShape
      <4> QED BY <1>1, <4>1, IdlePending
    <3>2. Lost' = Lost \cup Pending
      BY <2>1, <3>1 DEF Lost
    <3> QED BY <1>1, <2>1, <2>2, <3>2, EmptiedInv DEF ReinitBuffer
  <2>3. CASE UNCHANGED memory
    BY <1>1, <2>1, <2>3, QuietInv DEF memory
  <2> QED BY <1>3, <2>2, <2>3 DEF RequestStart
<1>4. ASSUME NEW k \in Keys, LogBuffered(k) PROVE IInv'
  BY <1>1, <1>4, LogBufferedInv
<1>5. ASSUME NEW k \in Keys, LogDirect(k) PROVE IInv'
  BY <1>1, <1>5, LogDirectInv
<1>6. CASE FlushBufferDiscard
  <2>1. keyPos' = 0 /\ UNCHANGED <<nextId, stored, accepted>>
    BY <1>2, <1>6 DEF FlushBufferDiscard, InScript
  <2>2. CASE ReinitBuffer /\ Lose("discard", Pending)
    BY <1>1, <2>1, <2>2, LostGrows, EmptiedInv DEF ReinitBuffer, Causes
  <2>3. CASE UNCHANGED <<memory, lost>>
    BY <1>1, <1>6, <2>3, QuietInv DEF FlushBufferDiscard, memory
  <2> QED BY <1>6, <2>2, <2>3 DEF FlushBufferDiscard
<1>7. CASE FlushCall
  BY <1>1, <1>2, <1>7, FlushStartInv DEF FlushCall, InScript, FlushIfCounted, memory, history
<1>8. ASSUME NEW n \in SetSizes, SetBufferSize(n) PROVE IInv'
  BY <1>1, <1>8, QuietInv DEF SetBufferSize, memory, history
<1>9. CASE FlushOpen
  BY <1>1, <1>9, FlushOpenInv
<1>10. CASE FlushWrite
  BY <1>1, <1>10, FlushWriteInv
<1>11. CASE FlushDone
  BY <1>1, <1>11, FlushDoneInv
<1>12. CASE ShutdownStart
  BY <1>1, <1>2, <1>12, FlushStartInv DEF ShutdownStart, InScript, FlushIfCounted, memory, history
<1>13. CASE RequestEnd
  <2>1. CASE ReinitBuffer /\ Lose("cleared", Pending)
    BY <1>1, <1>13, <2>1, LostGrows, EmptiedInv DEF ReinitBuffer, RequestEnd, Causes
  <2>2. CASE ~enabled /\ UNCHANGED <<memory, lost>>
    <3>1. keys = << >> /\ \A k \in Keys : buffer[k] = << >>
      BY <1>1, <2>2, EmptyTable DEF BufferShape
    <3>2. Lost' = Lost \cup Pending
      BY <1>1, <2>2, <3>1, IdlePending DEF Lost
    <3> QED BY <1>1, <1>13, <2>2, <3>1, <3>2, EmptiedInv DEF RequestEnd, memory
  <2> QED BY <1>13, <2>1, <2>2 DEF RequestEnd
<1>14. CASE Crash
  BY <1>1, <1>14, LostGrows, EmptiedInv DEF ReinitBuffer, Crash, Causes
<1>15. CASE UNCHANGED vars
  BY <1>1, <1>15, QuietInv DEF vars
<1> QED
  BY <1>3, <1>4, <1>5, <1>6, <1>7, <1>8, <1>9, <1>10, <1>11, <1>12, <1>13, <1>14, <1>15
  DEF Next, Flush

LEMMA InvariantHolds == Spec => []IInv
<1>1. Init => IInv
  BY InitInv
<1>2. IInv /\ [Next]_vars => IInv'
  BY NextInv
<1> QED BY <1>1, <1>2, PTL DEF Spec

\* No accepted message vanishes or is counted twice (seaslog_buffer_set, the
\* flush loop, seaslog_clear_buffer and seaslog_init_buffer).
THEOREM AccountingHolds == Spec => []Accounting
<1>1. IInv => Accounting
  BY DEF IInv
<1> QED BY <1>1, InvariantHolds, PTL

\* Each key's messages reach the data store once and in the order of the log
\* calls, whatever buffer sizes, failures, flushes and crashes come.
THEOREM OrderHolds == Spec => []StoredInOrder
<1>1. IInv => StoredInOrder
  BY DEF IInv
<1> QED BY <1>1, InvariantHolds, PTL

-----------------------------------------------------------------------------
(* The count, for scripts that never set the buffer size to zero *)

\* What is counted is what is buffered, and there is room for one more
\* message whenever no flush runs.
SizesPositive == enabled => iniSize > 0 /\ bufferSize > 0
CountBounded  ==
  \E n \in IniSizes \cup SetSizes :
    bufferCount <= n /\ (enabled /\ ~Flushing => bufferCount < n)
CountInv ==
  /\ SizesPositive
  /\ IsFiniteSet(Buffered) /\ CountIsExact
  /\ CountBounded

LEMMA ReinitCount ==
  ASSUME Types', SizesPositive', ReinitBuffer
  PROVE  CountInv'
<1>1. (\A k \in Keys : buffer'[k] = << >>) /\ bufferCount' = 0
  BY DEF ReinitBuffer
<1>2. Buffered' = {}
  BY <1>1 DEF Buffered, Range
<1>3. IsFiniteSet(Buffered)' /\ CountIsExact'
  BY <1>1, <1>2, FS_EmptySet DEF CountIsExact
<1>4. CountBounded'
  <2>1. CASE enabled'
    BY <1>1, <2>1, SizesAssumption DEF CountBounded, SizesPositive, Types
  <2>2. CASE ~enabled'
    BY <1>1, <2>2, SizesAssumption DEF CountBounded, Types
  <2> QED BY <2>1, <2>2
<1> QED BY <1>3, <1>4 DEF CountInv

LEMMA QuietCount ==
  ASSUME CountInv, SizesPositive', UNCHANGED <<enabled, buffer, bufferCount>>,
         enabled /\ Flushing => Flushing'
  PROVE  CountInv'
<1>1. Buffered' = Buffered
  BY DEF Buffered
<1>2. CountIsExact' /\ IsFiniteSet(Buffered)'
  BY <1>1 DEF CountInv, CountIsExact
<1>3. CountBounded'
  BY DEF CountInv, CountBounded
<1> QED BY <1>2, <1>3 DEF CountInv

LEMMA LogBufferedCount ==
  ASSUME IInv, CountInv, SizesPositive', NEW k \in Keys, LogBuffered(k)
  PROVE  CountInv'
<1>1. Types /\ enabled /\ enabled' /\ ~Flushing
  BY TypeOKParts DEF IInv, LogBuffered, InScript
<1>2. nextId \notin Buffered
  BY <1>1 DEF IInv, Known, Fresh, Buffered, Range, Types
<1>3. Buffered' = Buffered \cup {nextId}
  <2>1. \A l \in Keys : buffer'[l] = IF l = k THEN Append(buffer[k], nextId) ELSE buffer[l]
    BY <1>1 DEF LogBuffered, AddToBuffer, Types
  <2>2. Range(Append(buffer[k], nextId)) = Range(buffer[k]) \cup {nextId}
    <3>1. buffer[k] \in Seq(Nat) /\ nextId \in Nat
      BY <1>1 DEF Types
    <3> QED BY <3>1, RangeAppend
  <2> QED BY <2>1, <2>2, Zenon DEF Buffered
<1>4. bufferCount' = bufferCount + 1
  BY <1>1 DEF LogBuffered, CountAndFlushIfFull, CountInv, SizesPositive
<1>5. IsFiniteSet(Buffered') /\ Cardinality(Buffered') = Cardinality(Buffered) + 1
  BY <1>2, <1>3, FS_AddElement DEF CountInv
<1>6. CountIsExact'
  BY <1>4, <1>5 DEF CountIsExact, CountInv
<1>7. CountBounded'
  <2>1. PICK n \in IniSizes \cup SetSizes : bufferCount < n
    BY <1>1 DEF CountInv, CountBounded
  <2>2. n \in Nat /\ bufferCount \in Nat /\ bufferSize \in Nat
    BY <1>1, SizesAssumption DEF Types
  <2>3. bufferSize > 0
    BY <1>1 DEF CountInv, SizesPositive
  <2>4. CASE bufferCount + 1 >= bufferSize
    <3>1. bufferCount' <= n /\ Flushing'
      BY <1>4, <2>1, <2>2, <2>3, <2>4 DEF LogBuffered, CountAndFlushIfFull, Flushing
    <3> QED BY <3>1 DEF CountBounded
  <2>5. CASE ~(bufferCount + 1 >= bufferSize)
    <3>1. bufferCount' < bufferSize
      BY <1>4, <2>2, <2>5
    <3> QED BY <1>1, <1>4, <2>2, <3>1 DEF CountBounded, Types
  <2> QED BY <2>4, <2>5
<1> QED BY <1>5, <1>6, <1>7 DEF CountInv

LEMMA InitCount == Init => CountInv
<1> SUFFICES ASSUME Init PROVE CountInv
  OBVIOUS
<1>1. Types /\ (\A k \in Keys : buffer[k] = << >>) /\ bufferCount = 0
  BY InitType, TypeOKParts DEF Init
<1>2. Buffered = {}
  BY <1>1 DEF Buffered, Range
<1>3. SizesPositive
  BY DEF Init, SizesPositive, InitBufferSwitch
<1>4. CountBounded
  BY <1>1, <1>3, SizesAssumption DEF CountBounded, SizesPositive, Types, Init, Flushing
<1> QED BY <1>1, <1>2, <1>3, <1>4, FS_EmptySet DEF CountInv, CountIsExact

LEMMA NextCount ==
  ASSUME 0 \notin SetSizes
  PROVE  IInv /\ IInv' /\ CountInv /\ [Next]_vars => CountInv'
<1> SUFFICES ASSUME IInv, IInv', CountInv, [Next]_vars PROVE CountInv'
  OBVIOUS
<1>0. Types /\ Types' /\ BufferShape
  BY TypeOKParts, PTL DEF IInv
<1>1. SizesPositive'
  <2>1. enabled' = enabled /\ iniSize' = iniSize
    BY DEF Next, Flush, vars, RequestStart, ShutdownStart, RequestEnd, Crash, LogBuffered,
           LogDirect, FlushBufferDiscard, FlushCall, SetBufferSize, FlushOpen, FlushWrite,
           FlushDone
  <2>2. bufferSize' \in {bufferSize, iniSize} \cup SetSizes
    BY DEF Next, Flush, vars, RequestStart, ShutdownStart, RequestEnd, Crash, LogBuffered,
           LogDirect, FlushBufferDiscard, FlushCall, SetBufferSize, FlushOpen, FlushWrite,
           FlushDone
  <2>3. \A n \in SetSizes : n > 0
    BY SizesAssumption
  <2> QED BY <2>1, <2>2, <2>3 DEF CountInv, SizesPositive
<1>2. CASE RequestStart
  BY <1>0, <1>1, <1>2, ReinitCount, QuietCount DEF RequestStart, memory, Flushing
<1>3. ASSUME NEW k \in Keys, LogBuffered(k) PROVE CountInv'
  BY <1>1, <1>3, LogBufferedCount
<1>4. ASSUME NEW k \in Keys, LogDirect(k) PROVE CountInv'
  BY <1>1, <1>4, QuietCount DEF LogDirect, memory, Flushing
<1>5. CASE FlushBufferDiscard
  BY <1>0, <1>1, <1>5, ReinitCount, QuietCount DEF FlushBufferDiscard, memory, Flushing
<1>6. CASE FlushCall \/ ShutdownStart
  BY <1>1, <1>6, QuietCount DEF FlushCall, ShutdownStart, InScript, memory
<1>7. ASSUME NEW n \in SetSizes, SetBufferSize(n) PROVE CountInv'
  BY <1>1, <1>7, QuietCount DEF SetBufferSize, memory, Flushing
<1>8. CASE FlushOpen \/ FlushWrite
  <2>1. Flushing'
    BY <1>0, <1>8 DEF FlushOpen, FlushWrite, InKeys, Flushing, Types
  <2> QED BY <1>1, <1>8, <2>1, QuietCount DEF FlushOpen, FlushWrite, memory
<1>9. CASE FlushDone
  BY <1>0, <1>1, <1>9, ReinitCount, QuietCount DEF FlushDone, memory, Flushing
<1>10. CASE RequestEnd
  <2>1. CASE enabled
    BY <1>0, <1>1, <1>10, <2>1, ReinitCount DEF RequestEnd
  <2>2. CASE ~enabled
    <3>1. UNCHANGED <<enabled, buffer, bufferCount>>
      BY <1>10, <2>2 DEF RequestEnd, memory
    <3> QED BY <1>1, <2>2, <3>1, QuietCount
  <2> QED BY <2>1, <2>2
<1>11. CASE Crash
  BY <1>0, <1>1, <1>11, ReinitCount DEF Crash
<1>12. CASE UNCHANGED vars
  BY <1>1, <1>12, QuietCount DEF vars, Flushing
<1> QED
  BY <1>2, <1>3, <1>4, <1>5, <1>6, <1>7, <1>8, <1>9, <1>10, <1>11, <1>12 DEF Next, Flush

\* What getBufferCount tells is what getBuffer returns, at every step of a
\* flush too, when no script sets seaslog.buffer_size to zero.
THEOREM CountHolds ==
  ASSUME 0 \notin SetSizes
  PROVE  Spec => []CountIsExact
<1>1. Init => CountInv
  BY InitCount
<1>2. IInv /\ IInv' /\ CountInv /\ [Next]_vars => CountInv'
  BY NextCount
<1>3. CountInv => CountIsExact
  BY DEF CountInv
<1> QED BY <1>1, <1>2, <1>3, InvariantHolds, PTL DEF Spec

LEMMA CountInvHolds ==
  ASSUME 0 \notin SetSizes
  PROVE  Spec => []CountInv
<1>1. Init => CountInv
  BY InitCount
<1>2. IInv /\ IInv' /\ CountInv /\ [Next]_vars => CountInv'
  BY NextCount
<1> QED BY <1>1, <1>2, InvariantHolds, PTL DEF Spec

-----------------------------------------------------------------------------
(* What a crash, or the end of a request, can cost *)

\* What waits for a flush is buffered, and what is buffered was counted and
\* is never more than one buffer_size: the call that fills it flushes it.
THEOREM LossHolds ==
  ASSUME 0 \notin SetSizes
  PROVE  Spec => []LossIsBounded
<1>1. IInv /\ CountInv => LossIsBounded
  <2> SUFFICES ASSUME IInv, CountInv PROVE LossIsBounded
    OBVIOUS
  <2>1. Types
    BY TypeOKParts DEF IInv
  <2>2. Pending \subseteq Buffered
    <3>1. \A k \in Keys : FirstTodo(k) >= 1
      BY <2>1 DEF FirstTodo, Types
    <3>2. \A k \in Keys : Todo(k) \subseteq Range(buffer[k])
      BY <2>1, <3>1 DEF Todo, Range, Types, FirstTodo
    <3> QED BY <3>2 DEF Pending, Buffered
  <2>3. IsFiniteSet(Pending) /\ Cardinality(Pending) <= Cardinality(Buffered)
    BY <2>2, FS_Subset DEF CountInv
  <2>4. Cardinality(Pending) \in Nat
    BY <2>3, FS_CardinalityType
  <2>5. PICK n \in IniSizes \cup SetSizes : bufferCount <= n
    BY DEF CountInv, CountBounded
  <2>6. n \in Nat /\ Cardinality(Buffered) = bufferCount /\ bufferCount \in Nat
    BY <2>1, SizesAssumption DEF CountInv, CountIsExact, Types
  <2> QED BY <2>3, <2>4, <2>5, <2>6 DEF LossIsBounded
<1> QED BY <1>1, InvariantHolds, CountInvHolds, PTL

\* When RSHUTDOWN destroys the buffer, it is empty or a flush visited it all.
Visited  == keys = << >> \/ (Flushing /\ keyPos > Len(keys))
ClearInv == lost["cleared"] = {} /\ (phase = "clear" => Visited)

LEMMA VisitedPending == Types /\ BufferShape /\ Visited => Pending = {}
BY IdlePending, DoneTodo DEF Visited

\* seaslog_shutdown_buffer returns without a flush only on an empty buffer.
LEMMA NoFlushVisited ==
  ASSUME Types, BufferShape, CountInv, FlushIfCounted, keyPos' = 0
  PROVE  keys = << >>
<1>1. CASE ~enabled
  BY <1>1 DEF BufferShape
<1>2. CASE bufferCount = 0
  <2>1. Buffered = {}
    BY <1>2, FS_EmptySet DEF CountInv, CountIsExact
  <2>2. \A k \in Keys : buffer[k] = << >>
    <3> SUFFICES ASSUME NEW k \in Keys, buffer[k] # << >> PROVE FALSE
      OBVIOUS
    <3>1. 1 \in DOMAIN buffer[k]
      BY DEF Types
    <3>2. buffer[k][1] \in Buffered
      BY <3>1 DEF Buffered, Range
    <3> QED BY <2>1, <3>2
  <2>3. \A k \in Keys : k \notin Range(keys)
    BY <2>2 DEF BufferShape
  <2> QED BY <2>3 DEF Range, Types
<1> QED BY <1>1, <1>2 DEF FlushIfCounted, Types

LEMMA NextClear ==
  IInv /\ CountInv /\ ClearInv /\ [Next]_vars => ClearInv'
<1> SUFFICES ASSUME IInv, CountInv, ClearInv, [Next]_vars PROVE ClearInv'
  OBVIOUS
<1>1. Types /\ BufferShape
  BY TypeOKParts DEF IInv
<1>2. CASE \/ RequestStart \/ FlushBufferDiscard \/ FlushCall
           \/ \E k \in Keys : LogBuffered(k) \/ LogDirect(k)
           \/ \E n \in SetSizes : SetBufferSize(n)
  <2>1. phase' = "script"
    BY <1>2 DEF RequestStart, FlushBufferDiscard, FlushCall, LogBuffered, LogDirect,
                SetBufferSize, InScript
  <2>2. lost'["cleared"] = lost["cleared"]
    BY <1>1, <1>2 DEF RequestStart, FlushBufferDiscard, FlushCall, LogBuffered, LogDirect,
                      SetBufferSize, Lose, history, Types, Causes
  <2> QED BY <2>1, <2>2 DEF ClearInv
<1>3. CASE FlushOpen \/ FlushWrite
  <2>1. phase # "clear"
    BY <1>1, <1>3 DEF FlushOpen, FlushWrite, InKeys, Flushing, ClearInv, Visited, Types
  <2>2. phase' = phase /\ lost'["cleared"] = lost["cleared"]
    BY <1>1, <1>3 DEF FlushOpen, FlushWrite, Lose, Types, Causes
  <2> QED BY <2>1, <2>2 DEF ClearInv
<1>4. CASE FlushDone
  BY <1>4 DEF FlushDone, memory, history, ClearInv, Visited, Flushing
<1>5. CASE ShutdownStart
  <2>1. lost'["cleared"] = {} /\ keys' = keys
    BY <1>5 DEF ShutdownStart, history, memory, ClearInv
  <2>2. ASSUME phase' = "clear" PROVE keys = << >>
    <3>1. FlushIfCounted /\ keyPos' = 0
      BY <1>1, <1>5, <2>2 DEF ShutdownStart, FlushIfCounted
    <3> QED BY <1>1, <3>1, NoFlushVisited
  <2> QED BY <2>1, <2>2 DEF ClearInv, Visited
<1>6. CASE RequestEnd
  <2>1. Pending = {}
    BY <1>1, <1>6, VisitedPending DEF RequestEnd, ClearInv
  <2> QED BY <1>1, <1>6, <2>1 DEF RequestEnd, Lose, ClearInv, Types, Causes
<1>7. CASE Crash
  BY <1>1, <1>7 DEF Crash, Lose, ClearInv, Types, Causes
<1>8. CASE UNCHANGED vars
  BY <1>8 DEF vars, ClearInv, Visited, Flushing
<1> QED BY <1>2, <1>3, <1>4, <1>5, <1>6, <1>7, <1>8 DEF Next, Flush

\* "rewritten down into the Data Store by request shutdown" (README.md): the
\* end of a request destroys no message that no flush has tried to write,
\* when no script sets seaslog.buffer_size to zero.
THEOREM ShutdownHolds ==
  ASSUME 0 \notin SetSizes
  PROVE  Spec => []NothingCleared
<1>1. Init => ClearInv
  BY DEF Init, ClearInv, Causes
<1>2. IInv /\ CountInv /\ ClearInv /\ [Next]_vars => ClearInv'
  BY NextClear
<1>3. ClearInv => NothingCleared
  BY DEF ClearInv, NothingCleared
<1> QED BY <1>1, <1>2, <1>3, InvariantHolds, CountInvHolds, PTL DEF Spec

-----------------------------------------------------------------------------
(* LogBuffer implements LogStore under the mapping of LogBufferRefinement,    *)
(* step by step, for every set of keys, every buffer size and every number of *)
(* log calls.                                                                 *)

-----------------------------------------------------------------------------
(* Suffixes of a sequence *)

LEMMA SuffixFacts ==
  ASSUME NEW s \in Seq(Nat), NEW m \in 1..Len(s)
  PROVE  /\ SubSeq(s, m, Len(s)) \in Seq(Nat)
         /\ Len(SubSeq(s, m, Len(s))) = Len(s) - m + 1
         /\ SubSeq(s, m, Len(s)) # << >>
         /\ Head(SubSeq(s, m, Len(s))) = s[m]
         /\ Tail(SubSeq(s, m, Len(s))) = SubSeq(s, m + 1, Len(s))
<1>1. Len(s) \in Nat /\ \A i \in m..Len(s) : s[i] \in Nat
  OBVIOUS
<1>2. /\ SubSeq(s, m, Len(s)) \in Seq(Nat)
      /\ Len(SubSeq(s, m, Len(s))) = Len(s) - m + 1
  BY <1>1, SubSeqProperties
<1>3. SubSeq(s, m, Len(s)) # << >>
  <2>1. Len(SubSeq(s, m, Len(s))) # 0
    BY <1>1, <1>2
  <2> QED BY <2>1, EmptySeq
<1>4. Len(s) \in m..Len(s)
  BY <1>1
<1> QED BY <1>2, <1>3, <1>4, HeadTailOfSubSeq

LEMMA SuffixElements ==
  ASSUME NEW s \in Seq(Nat), NEW m \in Nat, m >= 1
  PROVE  {SubSeq(s, m, Len(s))[i] : i \in DOMAIN SubSeq(s, m, Len(s))}
           = {s[i] : i \in m..Len(s)}
<1> DEFINE q == SubSeq(s, m, Len(s))
<1>1. Len(s) \in Nat /\ \A i \in m..Len(s) : s[i] \in Nat
  OBVIOUS
<1>2. /\ q \in Seq(Nat)
      /\ Len(q) = IF m <= Len(s) THEN Len(s) - m + 1 ELSE 0
      /\ \A i \in 1..(Len(s) - m + 1) : q[i] = s[m + i - 1]
  BY <1>1, SubSeqProperties
<1>3. DOMAIN q = 1..Len(q)
  BY <1>2
<1> HIDE DEF q
<1>4. ASSUME NEW i \in DOMAIN q PROVE \E j \in m..Len(s) : q[i] = s[j]
  <2>1. i \in 1..(Len(s) - m + 1) /\ m + i - 1 \in m..Len(s)
    BY <1>1, <1>2, <1>3
  <2> QED BY <1>2, <2>1
<1>5. ASSUME NEW j \in m..Len(s) PROVE \E i \in DOMAIN q : q[i] = s[j]
  <2>1. /\ j - m + 1 \in 1..(Len(s) - m + 1) /\ j - m + 1 \in DOMAIN q
        /\ m + (j - m + 1) - 1 = j
    BY <1>1, <1>2, <1>3
  <2> QED BY <1>2, <2>1
<1>6. {q[i] : i \in DOMAIN q} = {s[i] : i \in m..Len(s)}
  <2> DEFINE D == DOMAIN q
             E == m..Len(s)
  <2>1. (\A i \in D : \E j \in E : q[i] = s[j]) /\ (\A j \in E : \E i \in D : q[i] = s[j])
    BY <1>4, <1>5
  <2> HIDE DEF D, E
  <2>2. {q[i] : i \in D} = {s[i] : i \in E}
    BY <2>1
  <2> QED BY <2>2 DEF D, E
<1> QED BY <1>6 DEF q

-----------------------------------------------------------------------------
(* The abstract store *)

LEMMA QueueOf ==
  \A k \in Keys : queueBar[k] = SubSeq(buffer[k], FirstTodo(k), Len(buffer[k]))
BY DEF queueBar

LEMMA WaitingIsTodo ==
  ASSUME Types
  PROVE  /\ \A k \in Keys : Store!Waiting(k) = Todo(k)
         /\ UNION {Store!Waiting(k) : k \in Keys} = Pending
<1>1. ASSUME NEW k \in Keys PROVE Store!Waiting(k) = Todo(k)
  <2>1. buffer[k] \in Seq(Nat) /\ FirstTodo(k) \in Nat /\ FirstTodo(k) >= 1
    BY FirstTodoRange DEF Types
  <2>2. {SubSeq(buffer[k], FirstTodo(k), Len(buffer[k]))[i] :
           i \in DOMAIN SubSeq(buffer[k], FirstTodo(k), Len(buffer[k]))} = Todo(k)
    BY <2>1, SuffixElements DEF Todo
  <2>3. queueBar[k] = SubSeq(buffer[k], FirstTodo(k), Len(buffer[k]))
    BY QueueOf
  <2> QED BY <2>2, <2>3 DEF Store!Waiting
<1> QED BY <1>1, Zenon DEF Pending

LEMMA QueueUnchanged ==
  ASSUME UNCHANGED buffer, \A k \in Keys : FirstTodo(k)' = FirstTodo(k)
  PROVE  queueBar' = queueBar
BY DEF queueBar

LEMMA QueueEmptied ==
  ASSUME ReinitBuffer, keyPos' = 0
  PROVE  queueBar' = [k \in Keys |-> << >>]
<1>1. ASSUME NEW k \in Keys
      PROVE  SubSeq(buffer'[k], FirstTodo(k)', Len(buffer'[k])) = << >>
  <2>1. buffer'[k] = << >> /\ FirstTodo(k)' = 1
    BY DEF ReinitBuffer, FirstTodo, InKeys, Flushing
  <2>2. Len(buffer'[k]) = 0
    BY <2>1
  <2> QED BY <2>1, <2>2, SubSeqEmpty
<1> QED BY <1>1 DEF queueBar

\* A queue is empty when its key has nothing that is to be visited.
LEMMA QueueEmpty ==
  ASSUME Types, Pending = {}
  PROVE  queueBar = [k \in Keys |-> << >>]
<1>1. ASSUME NEW k \in Keys
      PROVE  SubSeq(buffer[k], FirstTodo(k), Len(buffer[k])) = << >>
  <2>1. buffer[k] \in Seq(Nat) /\ Len(buffer[k]) \in Nat /\ FirstTodo(k) \in Nat
    BY FirstTodoRange DEF Types
  <2>2. Todo(k) = {}
    BY DEF Pending
  <2>3. Len(buffer[k]) < FirstTodo(k)
    <3>1. SUFFICES ASSUME FirstTodo(k) \in FirstTodo(k)..Len(buffer[k]) PROVE FALSE
      BY <2>1
    <3>2. buffer[k][FirstTodo(k)] \in Todo(k)
      BY <3>1 DEF Todo
    <3> QED BY <2>2, <3>2
  <2> QED BY <2>1, <2>3, SubSeqEmpty
<1> QED BY <1>1 DEF queueBar

\* Between flushes, and at the start of one, a queue is the buffer.
LEMMA QueueIsBuffer ==
  ASSUME Types, AtStart
  PROVE  queueBar = buffer
<1>1. ASSUME NEW k \in Keys PROVE queueBar[k] = buffer[k]
  <2>1. FirstTodo(k) = 1 /\ buffer[k] \in Seq(Nat)
    BY IdleTodo DEF AllTodo, Types
  <2> QED BY <2>1, QueueOf, SubSeqFull
<1> QED BY <1>1 DEF queueBar, Types

LEMMA StoreStutters ==
  ASSUME UNCHANGED <<nextId, stored, lost>>, queueBar' = queueBar
  PROVE  UNCHANGED Store!storeVars
BY DEF Store!storeVars, Lost

\* What still waits is given up.
LEMMA StoreDropsAll ==
  ASSUME Types, UNCHANGED <<nextId, stored>>,
         Lost' = Lost \cup Pending, queueBar' = [k \in Keys |-> << >>]
  PROVE  [Store!StoreNext]_Store!storeVars
<1>1. Store!DropAll
  BY WaitingIsTodo DEF Store!DropAll
<1>2. CASE \E k \in Keys : queueBar[k] # << >>
  BY <1>1, <1>2 DEF Store!Settle, Store!StoreNext
<1>3. CASE \A k \in Keys : queueBar[k] = << >>
  <2>1. queueBar' = queueBar
    BY <1>3 DEF queueBar
  <2>2. \A k \in Keys : Store!Waiting(k) = {}
    BY <1>3 DEF Store!Waiting
  <2>3. Pending = {}
    BY <2>2, WaitingIsTodo
  <2> QED BY <2>1, <2>3 DEF Store!storeVars
<1> QED BY <1>2, <1>3

-----------------------------------------------------------------------------
(* The steps of a flush *)

\* One message of the current key is visited: its queue loses its head.
LEMMA QueueTail ==
  ASSUME Types, BufferShape, FlushWrite
  PROVE  /\ CurrentKey \in Keys
         /\ queueBar[CurrentKey] \in Seq(Nat)
         /\ queueBar[CurrentKey] # << >>
         /\ Head(queueBar[CurrentKey]) = buffer[CurrentKey][msgPos]
         /\ queueBar' = [queueBar EXCEPT ![CurrentKey] = Tail(@)]
<1> DEFINE K == CurrentKey
<1>1. InKeys /\ msgPos > 0 /\ UNCHANGED <<buffer, keys>>
  BY DEF FlushWrite, memory
<1>2. K \in Keys /\ FirstTodo(K) = msgPos
  BY <1>1, CurrentTodo
<1>3. buffer[K] \in Seq(Nat) /\ msgPos \in 1..Len(buffer[K])
  BY <1>1, <1>2 DEF Types, BufferShape
<1>4. queueBar[K] = SubSeq(buffer[K], msgPos, Len(buffer[K]))
  BY <1>2, QueueOf
<1>5. \A k \in Keys : FirstTodo(k)' = IF k = K THEN msgPos + 1 ELSE FirstTodo(k)
  <2>1. CASE msgPos < Len(buffer[K])
    <3>1. msgPos' = msgPos + 1 /\ UNCHANGED keyPos
      BY <2>1 DEF FlushWrite
    <3> QED BY <1>1, <3>1, NextMsgTodo
  <2>2. CASE ~(msgPos < Len(buffer[K]))
    <3>1. msgPos' = 0 /\ keyPos' = keyPos + 1
      BY <2>2 DEF FlushWrite
    <3>2. msgPos = Len(buffer[K])
      BY <1>3, <2>2
    <3> QED BY <1>1, <3>1, <3>2, NextKeyTodo
  <2> QED BY <2>1, <2>2
<1>6. Tail(queueBar[K]) = SubSeq(buffer[K], msgPos + 1, Len(buffer[K]))
  BY <1>3, <1>4, SuffixFacts
<1>7. queueBar' = [queueBar EXCEPT ![K] = Tail(@)]
  BY <1>1, <1>2, <1>5, <1>6 DEF queueBar
<1> QED BY <1>2, <1>3, <1>4, <1>7, SuffixFacts

LEMMA FlushWriteStore ==
  ASSUME Types, BufferShape, FlushWrite
  PROVE  [Store!StoreNext]_Store!storeVars
<1> DEFINE K  == CurrentKey
           q  == queueBar[K]
           id == buffer[K][msgPos]
<1>1. /\ K \in Keys /\ q \in Seq(Nat) /\ q # << >> /\ Head(q) = id
      /\ queueBar' = [queueBar EXCEPT ![K] = Tail(@)]
      /\ UNCHANGED nextId
  BY QueueTail DEF FlushWrite
<1>2. CASE stored' = [stored EXCEPT ![K] = Append(@, id)] /\ UNCHANGED lost
  <2>1. Store!Commit(K)
    BY <1>1, <1>2 DEF Store!Commit, Lost
  <2> QED BY <1>1, <2>1 DEF Store!Settle, Store!StoreNext
<1>3. CASE Lose("short", {id}) /\ UNCHANGED stored
  <2>1. Lost' = Lost \cup {id}
    BY <1>3, LostGrows DEF Causes
  <2>2. Len(q) \in Nat /\ Len(q) # 0
    BY <1>1, EmptySeq
  <2>3. Tail(q) = SubSeq(q, 1 + 1, Len(q))
    BY <1>1, TailIsSubSeq
  <2>4. {q[i] : i \in 1..1} = {id}
    <3>1. 1..1 = {1} /\ q[1] = id
      BY <1>1
    <3> QED BY <3>1
  <2>5. Store!Drop(K, 1)
    <3>1. queueBar' = [queueBar EXCEPT ![K] = SubSeq(queueBar[K], 1 + 1, Len(queueBar[K]))]
      BY <1>1, <2>3
    <3>2. Lost' = Lost \cup {queueBar[K][i] : i \in 1..1}
      BY <2>1, <2>4
    <3>3. 1 \in 1..Len(queueBar[K]) /\ UNCHANGED <<nextId, stored>>
      BY <1>1, <1>3, <2>2
    <3> QED BY <3>1, <3>2, <3>3 DEF Store!Drop
  <2>6. 1 \in 1..Len(q)
    BY <2>2
  <2> QED BY <1>1, <2>5, <2>6 DEF Store!Settle, Store!StoreNext
<1> QED BY <1>2, <1>3 DEF FlushWrite

\* process_stream succeeds, and nothing is visited; or it fails, and the queue
\* of its key is dropped.
LEMMA FlushOpenStore ==
  ASSUME Types, BufferShape, FlushOpen
  PROVE  [Store!StoreNext]_Store!storeVars
<1> DEFINE K == CurrentKey
           b == buffer[K]
<1>1. InKeys /\ msgPos = 0 /\ UNCHANGED <<buffer, keys, nextId, stored>>
  BY DEF FlushOpen, memory
<1>2. K \in Keys /\ FirstTodo(K) = 1
  BY <1>1, CurrentTodo
<1>3. b \in Seq(Nat) /\ Len(b) \in Nat /\ b # << >>
  BY <1>1, <1>2 DEF Types, BufferShape, InKeys, Flushing, CurrentKey, Range
<1>4. CASE msgPos' = 1 /\ UNCHANGED <<keyPos, lost>>
  <2>1. msgPos' = msgPos + 1
    BY <1>1, <1>4
  <2>2. \A k \in Keys : FirstTodo(k)' = FirstTodo(k)
    BY <1>1, <1>2, <1>4, <2>1, NextMsgTodo
  <2> QED BY <1>1, <1>4, <2>2, QueueUnchanged, StoreStutters
<1>5. CASE Lose("open", Range(b)) /\ keyPos' = keyPos + 1 /\ msgPos' = 0
  <2>1. Lost' = Lost \cup Range(b)
    BY <1>5, LostGrows DEF Causes
  <2>2. queueBar[K] = b
    BY <1>2, <1>3, QueueOf, SubSeqFull
  <2>3. SubSeq(b, Len(b) + 1, Len(b)) = << >>
    BY <1>3, SubSeqEmpty
  <2>4. \A k \in Keys : FirstTodo(k)' = IF k = K THEN Len(b) + 1 ELSE FirstTodo(k)
    BY <1>1, <1>5, NextKeyTodo
  <2>5. queueBar' = [queueBar EXCEPT ![K] = SubSeq(@, Len(b) + 1, Len(b))]
    BY <1>1, <1>2, <2>2, <2>3, <2>4 DEF queueBar
  <2>6. {b[i] : i \in 1..Len(b)} = Range(b)
    BY <1>3 DEF Range
  <2>7. Len(b) \in 1..Len(b)
    BY <1>3, EmptySeq
  <2>8. Store!Drop(K, Len(b))
    BY <1>1, <2>1, <2>2, <2>5, <2>6, <2>7 DEF Store!Drop
  <2> QED BY <1>2, <1>3, <2>2, <2>7, <2>8 DEF Store!Settle, Store!StoreNext
<1> QED BY <1>4, <1>5 DEF FlushOpen

\* The end of a flush finds nothing left to visit.
LEMMA FlushDoneStore ==
  ASSUME Types, BufferShape, FlushDone
  PROVE  [Store!StoreNext]_Store!storeVars
<1>1. UNCHANGED <<nextId, stored, lost>> /\ Pending = {}
  BY DoneTodo DEF FlushDone, history
<1>2. CASE phase = "script"
  <2>1. ReinitBuffer /\ keyPos' = 0
    BY <1>2 DEF FlushDone
  <2> QED BY <1>1, <2>1, QueueEmpty, QueueEmptied, StoreStutters
<1>3. CASE phase = "shutdown"
  <2>1. UNCHANGED <<buffer, keys, keyPos, msgPos>>
    BY <1>3 DEF FlushDone, memory
  <2>2. queueBar' = queueBar
    BY <2>1 DEF queueBar, FirstTodo, InKeys, Flushing, CurrentKey
  <2> QED BY <1>1, <2>2, StoreStutters
<1> QED BY <1>2, <1>3 DEF FlushDone

-----------------------------------------------------------------------------
(* The other steps *)

LEMMA LogBufferedStore ==
  ASSUME Types, Types', BufferShape, NEW k \in Keys, LogBuffered(k)
  PROVE  Store!StoreNext
<1>1. AtStart /\ AtStart'
  BY DEF LogBuffered, InScript, Flushing, CountAndFlushIfFull, AtStart, Types, BufferShape, InKeys
<1>2. queueBar = buffer /\ queueBar' = buffer'
  <2>1. queueBar = buffer
    BY <1>1, QueueIsBuffer
  <2>2. (Types /\ AtStart => queueBar = buffer)'
    BY QueueIsBuffer, PTL
  <2> QED BY <1>1, <2>1, <2>2
<1>3. Store!Accept(k)
  BY <1>2 DEF LogBuffered, AddToBuffer, Store!Accept, Lost
<1> QED BY <1>3 DEF Store!StoreNext

\* With the buffer off the queues are empty.
LEMMA LogDirectStore ==
  ASSUME Types, BufferShape, NEW k \in Keys, LogDirect(k)
  PROVE  Store!StoreNext
<1>1. /\ ~enabled /\ nextId <= MaxLogs /\ nextId' = nextId + 1
      /\ UNCHANGED <<memory, keyPos, msgPos, lost>>
  BY DEF LogDirect
<1>2. queueBar' = queueBar
  BY <1>1 DEF queueBar, memory, FirstTodo, InKeys, Flushing, CurrentKey
<1>3. queueBar[k] = << >>
  <2>1. Pending = {}
    BY <1>1, IdlePending DEF BufferShape
  <2> QED BY <2>1, QueueEmpty
<1>4. CASE stored' = [stored EXCEPT ![k] = Append(@, nextId)]
  <2>1. Store!WriteThrough(k)
    BY <1>1, <1>2, <1>3, <1>4 DEF Store!WriteThrough, Lost
  <2> QED BY <2>1 DEF Store!StoreNext
<1>5. CASE UNCHANGED stored
  <2>1. Store!Refuse
    BY <1>1, <1>2, <1>5 DEF Store!Refuse, Lost
  <2> QED BY <2>1 DEF Store!StoreNext
<1> QED BY <1>4, <1>5 DEF LogDirect

\* Steps that start a flush, or leave the buffer as it is.
LEMMA QuietStore ==
  ASSUME Types, Types', AtStart, AtStart', UNCHANGED <<buffer, nextId, stored, lost>>
  PROVE  UNCHANGED Store!storeVars
<1>1. queueBar = buffer
  BY QueueIsBuffer
<1>2. (Types /\ AtStart => queueBar = buffer)'
  BY QueueIsBuffer, PTL
<1> QED BY <1>1, <1>2, StoreStutters

\* What is lost here has not been visited by a flush.
LEMMA GiveUpStore ==
  ASSUME Types, ReinitBuffer, keyPos' = 0, UNCHANGED <<nextId, stored>>,
         NEW c \in Causes, Lose(c, Pending)
  PROVE  [Store!StoreNext]_Store!storeVars
<1>1. Lost' = Lost \cup Pending
  BY LostGrows
<1> QED BY <1>1, QueueEmptied, StoreDropsAll

LEMMA InitStore == Init => Store!StoreInit
<1> SUFFICES ASSUME Init PROVE Store!StoreInit
  OBVIOUS
<1>1. TypeOK /\ AtStart
  BY InitType DEF Init, AtStart
<1>2. queueBar = buffer
  BY <1>1, QueueIsBuffer, TypeOKParts
<1>3. Lost = {}
  BY DEF Init, Lost
<1> QED BY <1>2, <1>3 DEF Init, Store!StoreInit

LEMMA NextStore ==
  TypeOK /\ TypeOK' /\ [Next]_vars => [Store!StoreNext]_Store!storeVars
<1> SUFFICES ASSUME Types, BufferShape, Types', BufferShape', [Next]_vars
             PROVE  [Store!StoreNext]_Store!storeVars
  BY TypeOKParts, PTL
<1>a. ~Flushing => AtStart
  BY DEF Flushing, Types, BufferShape, InKeys, AtStart
<1>1. CASE RequestStart
  <2>1. keys = << >> /\ AtStart
    BY <1>1, <1>a DEF RequestStart, BufferShape
  <2>2. Pending = {}
    BY <2>1, IdlePending
  <2>3. UNCHANGED <<nextId, stored, lost, keyPos, msgPos>>
    BY <1>1 DEF RequestStart, history
  <2>4. CASE ReinitBuffer
    <3>1. keyPos' = 0
      BY <1>1, <2>3 DEF RequestStart, BufferShape, Flushing, Types
    <3> QED BY <2>2, <2>3, <2>4, <3>1, QueueEmpty, QueueEmptied, StoreStutters
  <2>5. CASE UNCHANGED memory
    BY <2>1, <2>3, <2>5, QuietStore DEF AtStart, memory
  <2> QED BY <1>1, <2>4, <2>5 DEF RequestStart
<1>2. ASSUME NEW k \in Keys, LogBuffered(k) \/ LogDirect(k)
      PROVE  [Store!StoreNext]_Store!storeVars
  BY <1>2, LogBufferedStore, LogDirectStore
<1>3. CASE FlushBufferDiscard
  <2>1. CASE enabled
    <3>1. ReinitBuffer /\ Lose("discard", Pending) /\ keyPos' = 0
      BY <1>3, <1>a, <2>1 DEF FlushBufferDiscard, InScript, AtStart, Flushing, Types
    <3> QED BY <1>3, <3>1, GiveUpStore DEF FlushBufferDiscard, Causes
  <2>2. CASE ~enabled
    BY <1>3, <1>a, <2>2, QuietStore DEF FlushBufferDiscard, InScript, AtStart, memory
  <2> QED BY <2>1, <2>2
<1>4. CASE FlushCall \/ ShutdownStart \/ \E n \in SetSizes : SetBufferSize(n)
  <2>1. AtStart
    BY <1>4, <1>a DEF FlushCall, ShutdownStart, SetBufferSize, InScript
  <2>2. AtStart'
    BY <1>4, <2>1 DEF FlushCall, ShutdownStart, SetBufferSize, FlushIfCounted, AtStart
  <2>3. UNCHANGED <<buffer, nextId, stored, lost>>
    BY <1>4 DEF FlushCall, ShutdownStart, SetBufferSize, memory, history
  <2> QED BY <2>1, <2>2, <2>3, QuietStore
<1>5. CASE Flush
  BY <1>5, FlushOpenStore, FlushWriteStore, FlushDoneStore DEF Flush
<1>6. CASE RequestEnd
  <2>1. CASE enabled
    BY <1>6, <2>1, GiveUpStore DEF RequestEnd, Causes
  <2>2. CASE ~enabled
    <3>1. keys = << >> /\ keyPos' = 0 /\ UNCHANGED <<memory, lost, nextId, stored>>
      BY <1>6, <2>2 DEF RequestEnd, BufferShape
    <3>2. \A k \in Keys : FirstTodo(k) = 1 /\ FirstTodo(k)' = 1
      <4>1. DOMAIN keys = {} /\ DOMAIN keys' = {} /\ Len(keys) = 0 /\ Len(keys') = 0
        BY <3>1 DEF memory
      <4>2. ~InKeys /\ ~InKeys'
        BY <4>1 DEF InKeys, Flushing, Types
      <4> QED BY <4>1, <4>2 DEF FirstTodo
    <3>3. queueBar' = queueBar
      BY <3>1, <3>2, QueueUnchanged DEF memory
    <3> QED BY <3>1, <3>3, StoreStutters
  <2> QED BY <2>1, <2>2
<1>7. CASE Crash
  BY <1>7, GiveUpStore DEF Crash, Causes
<1>8. CASE UNCHANGED vars
  <2>1. queueBar' = queueBar
    BY <1>8 DEF vars, queueBar, FirstTodo, InKeys, Flushing, CurrentKey
  <2> QED BY <1>8, <2>1, StoreStutters DEF vars
<1> QED BY <1>1, <1>2, <1>3, <1>4, <1>5, <1>6, <1>7, <1>8 DEF Next

\* The buffer, with its flushes, failures, discards, request ends and crashes
\* (Buffer.c), implements an append-only log that keeps each key's order and
\* stores a message at most once.
THEOREM StoreImplemented == Spec => Store!StoreSpec
<1>1. Init => Store!StoreInit
  BY InitStore
<1>2. TypeOK /\ TypeOK' /\ [Next]_vars => [Store!StoreNext]_Store!storeVars
  BY NextStore
<1> QED BY <1>1, <1>2, TypeCorrect, PTL DEF Spec, Store!StoreSpec
=============================================================================
