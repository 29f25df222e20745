--------------------------- MODULE StreamCacheProofs ---------------------------
(***************************************************************************)
(* Proofs about StreamCache, for every number of workers, paths, loggers,  *)
(* retries, log calls and files, with either appender.                     *)
(***************************************************************************)
EXTENDS StreamCache, FiniteSetTheorems, SequenceTheorems, TLAPS

USE LoggersAssumption, AppendersAssumption, BoundsAssumption

Entries == [id : Ids, path : Paths, whole : BOOLEAN]

LEMMA AnyPathType == AnyPath \in Paths
BY DEF AnyPath

LEMMA EntryType == \A p \in Paths : EntryOf(p) \in Paths
BY AnyPathType DEF EntryOf

-----------------------------------------------------------------------------
(* Type correctness *)

\* Whatever is named, cached, kept up or forgotten was opened before, and a
\* call has a number that was handed out.
Known ==
  /\ \A p \in Paths : dir[p] # NoFile => dir[p] \in DOMAIN content
  /\ \A w \in Workers, p \in Paths : stream[w][p] # NoFile => stream[w][p] \in DOMAIN content
  /\ up \subseteq DOMAIN content
  /\ \A w \in Workers : orphans[w] \subseteq DOMAIN content
  /\ \A w \in Workers : ~IsIdle(w) => call[w].id \in 1..(nextId - 1)

Sound == TypeOK /\ Known

LEMMA InitSound == Init => Sound
BY AnyPathType DEF Init, Sound, Known, IsIdle, TypeOK, Files, NoFile, Idle, Ids

LEMMA WriteAttemptTypes ==
  ASSUME Sound, NEW w \in Workers, NEW whole \in BOOLEAN,
         call[w].at = "write", WriteAttempt(w, whole)
  PROVE  /\ content' \in Seq(Seq(Entries)) /\ Len(content') = Len(content)
         /\ DOMAIN content' = DOMAIN content
         /\ \A f \in DOMAIN content :
              content'[f] = IF f = Cached(w) THEN Append(content[f], Attempt(w, whole))
                                             ELSE content[f]
<1>1. /\ content \in Seq(Seq(Entries)) /\ call[w].path \in Paths
      /\ call[w].id \in Ids /\ Cached(w) \in DOMAIN content
  BY EntryType DEF Sound, TypeOK, Known, Entries, Ids, IsIdle, Cached
<1>2. Attempt(w, whole) \in Entries
  BY <1>1 DEF Attempt, Entries
<1>3. content[Cached(w)] \in Seq(Entries)
  BY <1>1
<1>4. Append(content[Cached(w)], Attempt(w, whole)) \in Seq(Entries)
  BY <1>2, <1>3
<1>5. content' = [content EXCEPT ![Cached(w)] = Append(content[Cached(w)], Attempt(w, whole))]
  BY DEF WriteAttempt
<1>6. Cached(w) \in 1..Len(content)
  BY <1>1
<1> HIDE DEF WriteAttempt
<1>7. content' \in Seq(Seq(Entries)) /\ Len(content') = Len(content)
  BY <1>1, <1>4, <1>5, <1>6, ExceptSeq
<1> QED BY <1>1, <1>5, <1>6, <1>7

\* What an open does: a new file or connection, or the file of the path.
Fresh(w) ==
  /\ IsRemote \/ dir[call[w].path] = NoFile
  /\ OpenedBy(w) = Len(content) + 1 /\ OpenedBy(w) \in Files
  /\ NewFile(call[w].path, w)

Found(w) ==
  /\ ~IsRemote /\ OpenedBy(w) = dir[call[w].path] /\ OpenedBy(w) \in DOMAIN content
  /\ UNCHANGED files

LEMMA OpenEffect ==
  ASSUME Sound, NEW w \in Workers, Open(w)
  PROVE  /\ Fresh(w) \/ Found(w)
         /\ OpenedBy(w) \in Files /\ OpenedBy(w) # NoFile
         /\ EntryOf(call[w].path) \in Paths /\ call[w].path \in Paths
         /\ stream' \in [Workers -> [Paths -> Files \cup {NoFile}]]
         /\ \A v \in Workers, p \in Paths :
              stream'[v][p] = IF v = w /\ p = EntryOf(call[w].path) THEN OpenedBy(w)
                                                                   ELSE stream[v][p]
<1> USE DEF Sound, TypeOK
<1>1. EntryOf(call[w].path) \in Paths /\ call[w].path \in Paths
  BY EntryType
<1>2. Len(content) \in Nat /\ DOMAIN content = 1..Len(content) /\ Len(madeAt) = Len(content)
  OBVIOUS
<1>3. ASSUME IsRemote \/ dir[call[w].path] = NoFile PROVE Fresh(w)
  <2>1. OpenedBy(w) = Len(content) + 1
    BY <1>2, <1>3 DEF OpenedBy
  <2>2. NewFile(call[w].path, w)
    BY <1>2, <2>1 DEF Open
  <2>3. OpenedBy(w) \in Files
    BY <1>2, <2>1, <2>2 DEF NewFile, Files
  <2> QED BY <1>3, <2>1, <2>2, <2>3 DEF Fresh
<1>4. ASSUME ~(IsRemote \/ dir[call[w].path] = NoFile) PROVE Found(w)
  <2>1. OpenedBy(w) = dir[call[w].path] /\ OpenedBy(w) \in DOMAIN content
    BY <1>1, <1>4 DEF OpenedBy, Known
  <2>2. ~(OpenedBy(w) > Len(madeAt))
    BY <1>2, <2>1
  <2> QED BY <1>4, <2>1, <2>2 DEF Open, Found
<1>5. OpenedBy(w) \in Files /\ OpenedBy(w) # NoFile
  <2>1. Fresh(w) \/ Found(w)
    BY <1>3, <1>4
  <2> QED BY <1>2, <2>1 DEF Fresh, Found, Files, NoFile
<1>6. /\ stream' \in [Workers -> [Paths -> Files \cup {NoFile}]]
      /\ \A v \in Workers, p \in Paths :
           stream'[v][p] = IF v = w /\ p = EntryOf(call[w].path) THEN OpenedBy(w)
                                                                ELSE stream[v][p]
  BY <1>1, <1>5 DEF Open
<1> QED BY <1>1, <1>3, <1>4, <1>5, <1>6

\* What a close does to the lists and the connections.
Gone(w, closed) == {f \in Range(stream[w]) \ {NoFile} : madeAt[f] \in closed}

LEMMA ClearEffect ==
  ASSUME Sound, NEW w \in Workers, NEW closed, ClearStream(w, closed)
  PROVE  /\ stream' \in [Workers -> [Paths -> Files \cup {NoFile}]]
         /\ \A v \in Workers, p \in Paths :
              stream'[v][p] = IF v = w /\ stream[w][p] \in Gone(w, closed) THEN NoFile
                                                                         ELSE stream[v][p]
         /\ up' = up \ Gone(w, closed)
         /\ UNCHANGED <<appender, dir, content, madeAt, madeBy>>
<1>1. stream \in [Workers -> [Paths -> Files \cup {NoFile}]]
  BY DEF Sound, TypeOK
<1>2. stream' = [stream EXCEPT ![w] =
                   [p \in Paths |-> IF stream[w][p] \in Gone(w, closed) THEN NoFile ELSE stream[w][p]]]
  BY DEF ClearStream, Gone
<1>3. up' = up \ Gone(w, closed) /\ UNCHANGED <<appender, dir, content, madeAt, madeBy>>
  BY DEF ClearStream, Gone
<1> QED BY <1>1, <1>2, <1>3

Steps == {"idle", "lookup", "open", "write"}
Calls == [at : Steps, path : Paths, id : 0..MaxLogs, left : 0..Retry]

GoesTo(w, a) == call' = [call EXCEPT ![w].at = a]

\* A worker goes on to another step of its call, or returns from it.
LEMMA StepEffect ==
  ASSUME Sound, NEW w \in Workers, NEW a \in Steps, GoesTo(w, a)
  PROVE  /\ call' \in [Workers -> Calls]
         /\ \A v \in Workers : /\ call'[v].at = IF v = w THEN a ELSE call[v].at
                              /\ call'[v].path = call[v].path
                              /\ call'[v].id = call[v].id
                              /\ call'[v].left = call[v].left
<1>1. call \in [Workers -> Calls]
  BY DEF Sound, TypeOK, Steps, Calls
<1>2. call' = [v \in Workers |-> IF v = w THEN [call[v] EXCEPT !.at = a] ELSE call[v]]
  BY <1>1 DEF GoesTo
<1>3. ASSUME NEW v \in Workers
      PROVE  /\ call'[v] \in Calls
             /\ call'[v].at = IF v = w THEN a ELSE call[v].at
             /\ call'[v].path = call[v].path
             /\ call'[v].id = call[v].id
             /\ call'[v].left = call[v].left
  <2>1. call[v] \in Calls /\ call'[v] = IF v = w THEN [call[v] EXCEPT !.at = a] ELSE call[v]
    BY <1>1, <1>2
  <2> HIDE DEF Steps
  <2> QED BY <2>1 DEF Calls
<1>4. call' \in [Workers -> Calls]
  BY <1>2, <1>3
<1> QED BY <1>3, <1>4

LEMMA ReturnEffect ==
  ASSUME Sound, NEW w \in Workers, NEW ok, ~IsIdle(w), Return(w, ok)
  PROVE  /\ call' \in [Workers -> Calls]
         /\ \A v \in Workers : call'[v] = IF v = w THEN Idle ELSE call[v]
         /\ taken' \in [Workers -> BOOLEAN]
         /\ \A v \in Workers : taken'[v] = IF v = w THEN FALSE ELSE taken[v]
         /\ accepted' \subseteq Ids /\ refused' \subseteq Ids
<1>1. Idle \in Calls
  BY AnyPathType DEF Idle, Calls, Steps
<1>2. call[w].id \in Ids
  BY DEF Sound, TypeOK, Known, Ids
<1> QED BY <1>1, <1>2 DEF Return, Sound, TypeOK, Calls, Steps

\* A worker whose call and list stay has the same stream.
LEMMA SameCached ==
  ASSUME Sound, UNCHANGED appender, NEW v \in Workers, call'[v].path = call[v].path,
         \A p \in Paths : stream'[v][p] = stream[v][p]
  PROVE  Cached(v)' = Cached(v)
BY EntryType DEF Sound, TypeOK, Cached, EntryOf, IsRemote

LEMMA LogSound ==
  ASSUME Sound, NEW w \in Workers, NEW p \in Paths, Log(w, p)
  PROVE  Sound'
<1>1. /\ nextId <= MaxLogs /\ nextId' = nextId + 1 /\ nextId \in Nat
      /\ call' = [call EXCEPT ![w] = [at |-> "lookup", path |-> p, id |-> nextId, left |-> Retry]]
      /\ UNCHANGED <<appender, files, stream, orphans, taken, accepted, refused>>
  BY DEF Log, Sound, TypeOK
<1>2. call' \in [Workers -> Calls] /\ nextId' \in 1..(MaxLogs + 1)
  BY <1>1 DEF Sound, TypeOK, Calls, Steps
<1>3. \A v \in Workers : call'[v].at = "write" => Cached(v)' # NoFile
  <2> SUFFICES ASSUME NEW v \in Workers, call'[v].at = "write" PROVE Cached(v)' # NoFile
    OBVIOUS
  <2>1. v # w /\ call'[v] = call[v]
    BY <1>1 DEF Sound, TypeOK
  <2>2. Cached(v)' = Cached(v)
    BY <1>1, <2>1, SameCached
  <2> QED BY <2>1, <2>2 DEF Sound, TypeOK
<1>4. \A v \in Workers : ~IsIdle(v)' => call'[v].id \in 1..(nextId' - 1)
  BY <1>1 DEF Sound, TypeOK, Known, IsIdle
<1>5. TypeOK'
  BY <1>1, <1>2, <1>3 DEF Sound, TypeOK, files, Calls, Steps
<1>6. Known'
  BY <1>1, <1>4 DEF Sound, Known, files
<1> QED BY <1>5, <1>6 DEF Sound

LEMMA LookupSound ==
  ASSUME Sound, NEW w \in Workers, Lookup(w)
  PROVE  Sound'
<1> DEFINE a == IF Cached(w) # NoFile /\ Usable(w) THEN "write" ELSE "open"
<1>1. /\ call[w].at = "lookup" /\ a \in Steps /\ GoesTo(w, a)
      /\ UNCHANGED <<appender, files, stream, orphans, taken, nextId, accepted, refused>>
  BY DEF Lookup, Steps, GoesTo
<1>2. /\ call' \in [Workers -> Calls]
      /\ \A v \in Workers : /\ call'[v].at = IF v = w THEN a ELSE call[v].at
                           /\ call'[v].path = call[v].path /\ call'[v].id = call[v].id
  BY <1>1, StepEffect
<1>3. \A v \in Workers : Cached(v)' = Cached(v)
  BY <1>1, <1>2, SameCached
<1>4. \A v \in Workers : call'[v].at = "write" => Cached(v)' # NoFile
  BY <1>2, <1>3 DEF Sound, TypeOK
<1>5. TypeOK'
  BY <1>1, <1>2, <1>4 DEF Sound, TypeOK, files, Calls, Steps
<1>6. Known'
  BY <1>1, <1>2 DEF Sound, Known, files, IsIdle
<1> QED BY <1>5, <1>6 DEF Sound

LEMMA OpenFailSound ==
  ASSUME Sound, NEW w \in Workers, OpenFail(w)
  PROVE  Sound'
<1>1. /\ ~IsIdle(w) /\ Return(w, FALSE)
      /\ UNCHANGED <<appender, files, stream, orphans, nextId>>
  BY DEF OpenFail, IsIdle
<1>2. /\ call' \in [Workers -> Calls] /\ taken' \in [Workers -> BOOLEAN]
      /\ \A v \in Workers : call'[v] = IF v = w THEN Idle ELSE call[v]
      /\ accepted' \subseteq Ids /\ refused' \subseteq Ids
  BY <1>1, ReturnEffect
<1>3. \A v \in Workers : call'[v].at = "write" => Cached(v)' # NoFile
  <2> SUFFICES ASSUME NEW v \in Workers, call'[v].at = "write" PROVE Cached(v)' # NoFile
    OBVIOUS
  <2>1. call'[v] = call[v]
    BY <1>2 DEF Idle
  <2>2. Cached(v)' = Cached(v)
    BY <1>1, <2>1, SameCached
  <2> QED BY <2>1, <2>2 DEF Sound, TypeOK
<1>4. TypeOK'
  BY <1>1, <1>2, <1>3 DEF Sound, TypeOK, files, Calls, Steps
<1>5. Known'
  BY <1>1, <1>2 DEF Sound, Known, files, IsIdle, Idle
<1> QED BY <1>4, <1>5 DEF Sound

LEMMA OpenSound ==
  ASSUME Sound, NEW w \in Workers, Open(w)
  PROVE  Sound'
<1>1. /\ call[w].at = "open" /\ GoesTo(w, "write") /\ "write" \in Steps
      /\ orphans' = [orphans EXCEPT ![w] = @ \cup ({Cached(w)} \ {NoFile})]
      /\ UNCHANGED <<appender, taken, nextId, accepted, refused>>
  BY DEF Open, Steps, GoesTo
<1>2. /\ call' \in [Workers -> Calls]
      /\ \A v \in Workers : /\ call'[v].at = IF v = w THEN "write" ELSE call[v].at
                           /\ call'[v].path = call[v].path /\ call'[v].id = call[v].id
  BY <1>1, StepEffect
<1>3. /\ Fresh(w) \/ Found(w)
      /\ OpenedBy(w) \in Files /\ OpenedBy(w) # NoFile
      /\ EntryOf(call[w].path) \in Paths /\ call[w].path \in Paths
      /\ stream' \in [Workers -> [Paths -> Files \cup {NoFile}]]
      /\ \A v \in Workers, p \in Paths :
           stream'[v][p] = IF v = w /\ p = EntryOf(call[w].path) THEN OpenedBy(w)
                                                                ELSE stream[v][p]
  BY OpenEffect
<1>4. \A v \in Workers : call'[v].at = "write" => Cached(v)' # NoFile
  <2>1. Cached(w)' = OpenedBy(w)
    BY <1>1, <1>2, <1>3 DEF Cached, EntryOf, IsRemote
  <2>2. ASSUME NEW v \in Workers, v # w PROVE Cached(v)' = Cached(v)
    BY <1>1, <1>2, <1>3, <2>2, SameCached
  <2>3. ASSUME NEW v \in Workers, v # w, call'[v].at = "write" PROVE Cached(v)' # NoFile
    <3>1. call[v].at = "write"
      BY <1>2, <2>3
    <3>2. Cached(v) # NoFile
      BY <3>1 DEF Sound, TypeOK
    <3> QED BY <2>2, <2>3, <3>2
  <2> QED BY <1>3, <2>1, <2>3
<1>5. /\ Cached(w) \in Files \cup {NoFile} /\ (Cached(w) # NoFile => Cached(w) \in DOMAIN content)
      /\ orphans' \in [Workers -> SUBSET Files]
      /\ \A v \in Workers : orphans'[v] \subseteq orphans[v] \cup ({Cached(w)} \ {NoFile})
  BY <1>1, <1>3 DEF Sound, TypeOK, Known, Cached
<1>6. CASE Fresh(w)
  <2> DEFINE p == call[w].path
             f == Len(content) + 1
  <2>1. /\ content' = Append(content, << >>) /\ madeAt' = Append(madeAt, p)
        /\ madeBy' = Append(madeBy, w) /\ f \in Files
        /\ OpenedBy(w) = f
        /\ IF IsRemote THEN up' = up \cup {f} /\ UNCHANGED dir
                       ELSE dir' = [dir EXCEPT ![p] = f] /\ UNCHANGED up
    BY <1>6 DEF Fresh, NewFile, Sound, TypeOK
  <2>2. /\ content' \in Seq(Seq(Entries)) /\ madeAt' \in Seq(Paths) /\ madeBy' \in Seq(Workers)
        /\ Len(content') = f /\ Len(madeAt') = f /\ Len(madeBy') = f
        /\ DOMAIN content' = 1..f /\ DOMAIN content = 1..(f - 1) /\ f \in Nat /\ f <= MaxFiles
    BY <1>3, <2>1 DEF Sound, TypeOK, Entries, Files
  <2>3. dir' \in [Paths -> Files \cup {NoFile}] /\ up' \subseteq Files
    <3>1. CASE IsRemote
      BY <2>1, <3>1 DEF Sound, TypeOK
    <3>2. CASE ~IsRemote
      BY <1>3, <2>1, <3>2, SMTT(30) DEF Sound, TypeOK
    <3> QED BY <3>1, <3>2
  <2>4. TypeOK'
    BY <1>1, <1>2, <1>3, <1>4, <1>5, <2>2, <2>3 DEF Sound, TypeOK, Calls, Steps, Entries
  <2>5. \A q \in Paths : dir'[q] # NoFile => dir'[q] \in DOMAIN content'
    BY <1>3, <2>1, <2>2 DEF Sound, TypeOK, Known
  <2>6. up' \subseteq DOMAIN content'
    BY <2>1, <2>2 DEF Sound, Known
  <2>7. \A v \in Workers, q \in Paths : stream'[v][q] # NoFile => stream'[v][q] \in DOMAIN content'
    BY <1>3, <2>1, <2>2 DEF Sound, Known
  <2>8. \A v \in Workers : orphans'[v] \subseteq DOMAIN content'
    <3>1. DOMAIN content \subseteq DOMAIN content'
      BY <2>2
    <3>2. \A v \in Workers : orphans[v] \subseteq DOMAIN content
      BY DEF Sound, Known
    <3> QED BY <1>5, <3>1, <3>2
  <2>9. Known'
    BY <1>1, <1>2, <2>5, <2>6, <2>7, <2>8 DEF Sound, Known, IsIdle
  <2> QED BY <2>4, <2>9 DEF Sound
<1>7. CASE Found(w)
  <2>1. UNCHANGED <<dir, up, content, madeAt, madeBy>> /\ OpenedBy(w) \in DOMAIN content
    BY <1>7 DEF Found, files
  <2>2. TypeOK'
    BY <1>1, <1>2, <1>3, <1>4, <1>5, <2>1 DEF Sound, TypeOK, Calls, Steps
  <2>3. \A v \in Workers : orphans'[v] \subseteq DOMAIN content'
    <3>1. \A v \in Workers : orphans[v] \subseteq DOMAIN content
      BY DEF Sound, Known
    <3> QED BY <1>5, <2>1, <3>1
  <2>4. \A v \in Workers, q \in Paths : stream'[v][q] # NoFile => stream'[v][q] \in DOMAIN content'
    BY <1>3, <2>1 DEF Sound, Known
  <2>5. Known'
    BY <1>1, <1>2, <2>1, <2>3, <2>4 DEF Sound, Known, IsIdle
  <2> QED BY <2>2, <2>5 DEF Sound
<1> QED BY <1>3, <1>6, <1>7

\* What WriteWhole and WriteShort have in common.
LEMMA WriteSound ==
  ASSUME Sound, NEW w \in Workers, call[w].at = "write",
         UNCHANGED <<appender, dir, up, madeAt, madeBy, stream, orphans, nextId>>,
         (\E whole \in BOOLEAN : WriteAttempt(w, whole)) \/ UNCHANGED content,
         \/ \E ok \in BOOLEAN : Return(w, ok)
         \/ /\ call[w].left > 0 /\ call' = [call EXCEPT ![w].left = @ - 1]
            /\ UNCHANGED <<taken, accepted, refused>>
  PROVE  Sound'
<1>1. content' \in Seq(Seq(Entries)) /\ Len(content') = Len(content) /\ DOMAIN content' = DOMAIN content
  <2>1. CASE UNCHANGED content
    BY <2>1 DEF Sound, TypeOK, Entries
  <2>2. ASSUME NEW whole \in BOOLEAN, WriteAttempt(w, whole)
        PROVE  /\ content' \in Seq(Seq(Entries)) /\ Len(content') = Len(content)
               /\ DOMAIN content' = DOMAIN content
    BY <2>2, WriteAttemptTypes
  <2> QED BY <2>1, <2>2
<1>2. /\ call' \in [Workers -> Calls] /\ taken' \in [Workers -> BOOLEAN]
      /\ accepted' \subseteq Ids /\ refused' \subseteq Ids
      /\ \A v \in Workers : call'[v].at # "idle" =>
           /\ call'[v].at = call[v].at /\ call'[v].path = call[v].path
           /\ call'[v].id = call[v].id
  <2>1. ASSUME NEW ok \in BOOLEAN, Return(w, ok)
        PROVE  /\ call' \in [Workers -> Calls] /\ taken' \in [Workers -> BOOLEAN]
               /\ accepted' \subseteq Ids /\ refused' \subseteq Ids
               /\ \A v \in Workers : call'[v] = IF v = w THEN Idle ELSE call[v]
    BY <2>1, ReturnEffect DEF IsIdle
  <2>2. ASSUME call[w].left > 0, call' = [call EXCEPT ![w].left = @ - 1],
               UNCHANGED <<taken, accepted, refused>>
        PROVE  /\ call' \in [Workers -> Calls] /\ taken' \in [Workers -> BOOLEAN]
               /\ accepted' \subseteq Ids /\ refused' \subseteq Ids
               /\ \A v \in Workers : /\ call'[v].at = call[v].at
                                     /\ call'[v].path = call[v].path
                                     /\ call'[v].id = call[v].id
    <3>1. call \in [Workers -> Calls] /\ Retry \in Nat
      BY BoundsAssumption DEF Sound, TypeOK, Calls, Steps
    <3>2. call[w] \in Calls
      BY <3>1
    <3>3. call[w].left - 1 \in 0..Retry
      BY <2>2, <3>1, <3>2 DEF Calls
    <3>4. [call[w] EXCEPT !.left = @ - 1] \in Calls
      BY <3>2, <3>3 DEF Calls
    <3>5. call' = [call EXCEPT ![w] = [call[w] EXCEPT !.left = @ - 1]]
      BY <2>2
    <3>6. call' \in [Workers -> Calls]
      BY <3>1, <3>4, <3>5
    <3>7. ASSUME NEW v \in Workers
          PROVE  /\ call'[v].at = call[v].at /\ call'[v].path = call[v].path
                 /\ call'[v].id = call[v].id
      BY <3>1, <3>2, <3>5 DEF Calls
    <3> QED BY <2>2, <3>6, <3>7 DEF Sound, TypeOK
  <2> QED BY <2>1, <2>2 DEF Idle
<1>3. ASSUME NEW v \in Workers, call'[v].at = "write" PROVE Cached(v)' # NoFile
  <2>1. call[v].at = "write" /\ call'[v].path = call[v].path
    BY <1>2, <1>3
  <2>2. Cached(v)' = Cached(v)
    BY <2>1, SameCached
  <2> QED BY <2>1, <2>2 DEF Sound, TypeOK
<1>4. TypeOK'
  BY <1>1, <1>2, <1>3 DEF Sound, TypeOK, Entries, Calls, Steps
<1>5. Known'
  BY <1>1, <1>2 DEF Sound, Known, IsIdle
<1> QED BY <1>4, <1>5 DEF Sound

LEMMA CloseSound ==
  ASSUME Sound, NEW w \in Workers, NEW closed, IsIdle(w), ClearStream(w, closed),
         orphans' \in [Workers -> SUBSET Files],
         \A v \in Workers : orphans'[v] \subseteq orphans[v],
         UNCHANGED <<call, taken, nextId, accepted, refused>>
  PROVE  Sound'
<1>1. /\ stream' \in [Workers -> [Paths -> Files \cup {NoFile}]]
      /\ \A v \in Workers, p \in Paths :
           stream'[v][p] = IF v = w /\ stream[w][p] \in Gone(w, closed) THEN NoFile
                                                                      ELSE stream[v][p]
      /\ up' \subseteq up
      /\ UNCHANGED <<appender, dir, content, madeAt, madeBy>>
  BY ClearEffect
<1>2. ASSUME NEW v \in Workers, call'[v].at = "write" PROVE Cached(v)' # NoFile
  <2>1. v # w /\ call[v].at = "write"
    BY <1>2 DEF IsIdle
  <2>2. Cached(v)' = Cached(v)
    BY <1>1, <2>1, SameCached
  <2> QED BY <2>1, <2>2 DEF Sound, TypeOK
<1>3. TypeOK'
  BY <1>1, <1>2 DEF Sound, TypeOK
<1>4. \A v \in Workers : orphans'[v] \subseteq DOMAIN content'
  <2>1. \A v \in Workers : orphans[v] \subseteq DOMAIN content
    BY DEF Sound, Known
  <2> QED BY <1>1, <2>1
<1>5. Known'
  BY <1>1, <1>4 DEF Sound, Known, IsIdle
<1> QED BY <1>3, <1>5 DEF Sound

LEMMA OutsideSound ==
  ASSUME Sound, dir' \in [Paths -> Files \cup {NoFile}],
         \A p \in Paths : dir'[p] \in {dir[p], NoFile}, up' \subseteq up,
         taken' \in [Workers -> BOOLEAN],
         UNCHANGED <<appender, content, madeAt, madeBy, stream, orphans, call, nextId,
                     accepted, refused>>
  PROVE  Sound'
<1>1. \A v \in Workers : Cached(v)' = Cached(v)
  BY SameCached
<1>2. TypeOK'
  BY <1>1 DEF Sound, TypeOK
<1>3. Known'
  BY DEF Sound, Known, IsIdle
<1> QED BY <1>2, <1>3 DEF Sound

LEMMA TakeTypes ==
  ASSUME NEW lost, Take(lost), Sound
  PROVE  /\ taken' \in [Workers -> BOOLEAN]
         /\ \A w \in Workers : taken'[w] = (taken[w] \/ w \in lost)
<1>1. taken' = [w \in Workers |-> taken[w] \/ w \in lost] /\ taken \in [Workers -> BOOLEAN]
  BY DEF Take, Sound, TypeOK
<1>2. \A w \in Workers : (taken[w] \/ w \in lost) \in BOOLEAN
  OBVIOUS
<1> QED BY <1>1, <1>2, Zenon

LEMMA NextSound == Sound /\ [Next]_vars => Sound'
<1> SUFFICES ASSUME Sound, [Next]_vars PROVE Sound'
  OBVIOUS
<1>1. ASSUME NEW w \in Workers, InCall(w) PROVE Sound'
  <2>1. CASE Lookup(w)
    BY <2>1, LookupSound
  <2>2. CASE OpenFail(w)
    BY <2>2, OpenFailSound
  <2>3. CASE Open(w)
    BY <2>3, OpenSound
  <2>4. CASE WriteWhole(w)
    BY <2>4, WriteSound DEF WriteWhole
  <2>5. CASE WriteShort(w)
    BY <2>5, WriteSound DEF WriteShort
  <2> QED BY <1>1, <2>1, <2>2, <2>3, <2>4, <2>5 DEF InCall
<1>2. ASSUME NEW w \in Workers, NEW p \in Paths, Log(w, p) PROVE Sound'
  BY <1>2, LogSound
<1>3. ASSUME NEW w \in Workers,
             CloseAll(w) \/ RequestEnd(w) \/ \E l \in Loggers : CloseAssign(w, l)
      PROVE  Sound'
  <2>1. IsIdle(w) /\ UNCHANGED <<call, taken, nextId, accepted, refused>>
    BY <1>3 DEF CloseAll, RequestEnd, CloseAssign
  <2>2. PICK closed : ClearStream(w, closed)
    BY <1>3 DEF CloseAll, RequestEnd, CloseAssign
  <2>3. /\ orphans' \in [Workers -> SUBSET Files]
        /\ \A v \in Workers : orphans'[v] \subseteq orphans[v]
    BY <1>3 DEF CloseAll, RequestEnd, CloseAssign, Sound, TypeOK
  <2> QED BY <2>1, <2>2, <2>3, CloseSound
<1>4. ASSUME NEW p \in Paths, TakeAway(p) PROVE Sound'
  <2>1. taken' \in [Workers -> BOOLEAN]
    BY <1>4, TakeTypes DEF TakeAway
  <2>2. /\ dir' \in [Paths -> Files \cup {NoFile}]
        /\ \A q \in Paths : dir'[q] \in {dir[q], NoFile}
    BY <1>4 DEF TakeAway, Sound, TypeOK
  <2> QED BY <1>4, <2>1, <2>2, OutsideSound DEF TakeAway
<1>5. ASSUME NEW f \in up, Disconnect(f) PROVE Sound'
  <2>1. taken' \in [Workers -> BOOLEAN]
    BY <1>5, TakeTypes DEF Disconnect
  <2>2. dir' = dir /\ dir \in [Paths -> Files \cup {NoFile}] /\ up' \subseteq up
    BY <1>5 DEF Disconnect, Sound, TypeOK
  <2> QED BY <1>5, <2>1, <2>2, OutsideSound DEF Disconnect
<1>6. CASE UNCHANGED vars
  <2>1. UNCHANGED <<appender, dir, up, content, madeAt, madeBy, stream, orphans, call, taken,
                    nextId, accepted, refused>>
    BY <1>6 DEF vars
  <2>2. \A p \in Paths : dir'[p] \in {dir[p], NoFile}
    BY <2>1
  <2>3. dir' \in [Paths -> Files \cup {NoFile}] /\ taken' \in [Workers -> BOOLEAN]
    BY <2>1 DEF Sound, TypeOK
  <2> QED BY <2>1, <2>2, <2>3, OutsideSound
<1> QED BY <1>1, <1>2, <1>3, <1>4, <1>5, <1>6 DEF Next

LEMMA SoundHolds == Spec => []Sound
<1>1. Init => Sound
  BY InitSound
<1>2. Sound /\ [Next]_vars => Sound'
  BY NextSound
<1> QED BY <1>1, <1>2, PTL DEF Spec

\* Every variable keeps its type, and a worker writes only with a stream.
THEOREM TypeCorrect == Spec => []TypeOK
<1>1. Sound => TypeOK
  BY DEF Sound
<1> QED BY <1>1, SoundHolds, PTL

-----------------------------------------------------------------------------
(* Which file or connection a worker holds *)

\* A file's entries are of its path; a connection's only entry is its maker's.
Named ==
  /\ IsRemote => /\ \A p \in Paths : dir[p] = NoFile
                 /\ \A w \in Workers, p \in Paths :
                      stream[w][p] # NoFile => p = AnyPath /\ madeBy[stream[w][p]] = w
  /\ ~IsRemote => /\ up = {}
                  /\ \A p \in Paths : dir[p] # NoFile => madeAt[dir[p]] = p
                  /\ \A w \in Workers, p \in Paths :
                       stream[w][p] # NoFile => madeAt[stream[w][p]] = p

\* A worker that made the file of a path has that file in its entry.
Held ==
  ~IsRemote =>
    \A w \in Workers, p \in Paths :
      stream[w][p] # NoFile /\ dir[p] # NoFile =>
        stream[w][p] = dir[p] \/ madeBy[dir[p]] # w

\* ForgottenAreGone, without the sets.
Forgotten ==
  /\ \A w \in Workers, f \in Files :
       f \in orphans[w] => f \notin up /\ \A p \in Paths : dir[p] # f /\ stream[w][p] # f
  /\ \A f \in Files : f \in up => \E p \in Paths : stream[madeBy[f]][p] = f

\* What a worker is going to open anew leads nowhere any more.
OpensAnew(w) ==
  call[w].at = "open" /\ Cached(w) # NoFile =>
    Cached(w) \notin up /\ \A p \in Paths : dir[p] # Cached(w)
OpensStale == \A w \in Workers : OpensAnew(w)

Apart == Named /\ Held /\ Forgotten
Kept  == Sound /\ Apart /\ OpensStale

\* StaleOnlyIfRecreated, for one worker.
Right(w) ==
  call[w].at = "write" /\ ~taken[w] =>
    IF IsRemote THEN Cached(w) \in up
                ELSE \/ Cached(w) = dir[call[w].path]
                     \/ dir[call[w].path] # NoFile /\ madeBy[dir[call[w].path]] # w

LEMMA InitApart == Init => Apart /\ OpensStale
BY DEF Init, Apart, Named, Held, Forgotten, OpensStale, OpensAnew, Idle, IsRemote, NoFile

LEMMA OpenApart ==
  ASSUME Kept, NEW w \in Workers, Open(w)
  PROVE  Apart'
<1> DEFINE p == call[w].path
           e == EntryOf(call[w].path)
           new == Len(content) + 1
<1>1. /\ call[w].at = "open" /\ appender' = appender
      /\ Fresh(w) \/ Found(w)
      /\ OpenedBy(w) \in Files /\ OpenedBy(w) # NoFile /\ e \in Paths /\ p \in Paths
      /\ \A v \in Workers, q \in Paths :
           stream'[v][q] = IF v = w /\ q = e THEN OpenedBy(w) ELSE stream[v][q]
  BY OpenEffect DEF Open, Kept
<1>2. /\ Len(content) \in Nat /\ DOMAIN content = 1..Len(content)
      /\ Len(madeAt) = Len(content) /\ Len(madeBy) = Len(content)
      /\ madeAt \in Seq(Paths) /\ madeBy \in Seq(Workers)
      /\ DOMAIN madeAt = 1..Len(content) /\ DOMAIN madeBy = 1..Len(content)
  BY DEF Kept, Sound, TypeOK
<1>3. /\ Cached(w) = stream[w][e]
      /\ Cached(w) # NoFile => Cached(w) \in DOMAIN content
      /\ \A q \in Paths : dir[q] # NoFile => dir[q] \in DOMAIN content
      /\ \A v \in Workers, q \in Paths : stream[v][q] # NoFile => stream[v][q] \in DOMAIN content
      /\ up \subseteq DOMAIN content
      /\ \A v \in Workers : orphans[v] \subseteq DOMAIN content
  BY <1>1 DEF Cached, Kept, Sound, Known
<1>4. \A v \in Workers :
         orphans'[v] = IF v = w THEN orphans[w] \cup ({Cached(w)} \ {NoFile}) ELSE orphans[v]
  BY DEF Open, Kept, Sound, TypeOK
<1>5. /\ IsRemote' = IsRemote /\ (IsRemote => e = AnyPath) /\ (~IsRemote => e = p)
  BY <1>1 DEF IsRemote, EntryOf
<1>6. ASSUME Fresh(w)
      PROVE  /\ OpenedBy(w) = new
             /\ \A f \in DOMAIN content : madeAt'[f] = madeAt[f] /\ madeBy'[f] = madeBy[f]
             /\ madeAt'[new] = p /\ madeBy'[new] = w
             /\ IsRemote => dir' = dir /\ up' = up \cup {new}
             /\ ~IsRemote => /\ up' = up
                             /\ \A q \in Paths : dir'[q] = IF q = p THEN new ELSE dir[q]
  BY <1>1, <1>2, <1>6 DEF Fresh, NewFile, Kept, Sound, TypeOK
<1>7. ASSUME Found(w)
      PROVE  /\ ~IsRemote /\ OpenedBy(w) = dir[p]
             /\ UNCHANGED <<dir, up, madeAt, madeBy>>
  BY <1>7 DEF Found, files
<1>8. Named'
  <2>1. CASE Fresh(w)
    BY <1>1, <1>2, <1>3, <1>5, <1>6, <2>1, SMTT(30) DEF Kept, Apart, Named, NoFile
  <2>2. CASE Found(w)
    BY <1>1, <1>5, <1>7, <2>2 DEF Kept, Apart, Named
  <2> QED BY <1>1, <2>1, <2>2
<1>9. Held'
  <2>1. CASE Fresh(w)
    BY <1>1, <1>2, <1>3, <1>5, <1>6, <2>1 DEF Kept, Apart, Held, NoFile
  <2>2. CASE Found(w)
    BY <1>1, <1>5, <1>7, <2>2 DEF Kept, Apart, Held
  <2> QED BY <1>1, <2>1, <2>2
<1>10. ASSUME NEW v \in Workers, NEW f \in Files, f \in orphans'[v]
      PROVE  f \notin up' /\ \A q \in Paths : dir'[q] # f /\ stream'[v][q] # f
  <2>1. f \in DOMAIN content
    BY <1>3, <1>10, <1>4
  <2>2. f \notin up /\ \A q \in Paths : dir[q] # f
    BY <1>1, <1>10, <1>4 DEF Kept, Apart, Forgotten, OpensStale, OpensAnew
  <2>3. f # new
    BY <1>2, <2>1
  <2>4. f \notin up' /\ \A q \in Paths : dir'[q] # f
    BY <1>1, <1>6, <1>7, <2>2, <2>3
  <2>5. OpenedBy(w) # f
    BY <1>1, <1>6, <1>7, <2>2, <2>3
  <2>6. ASSUME NEW q \in Paths, stream[v][q] = f, ~(v = w /\ q = e) PROVE FALSE
    <3>1. v = w /\ f = Cached(w) /\ f # NoFile
      BY <1>10, <1>4, <2>6 DEF Kept, Apart, Forgotten
    <3>2. /\ q # e /\ stream[w][q] = f /\ stream[w][e] = f /\ q \in Paths /\ e \in Paths
      BY <1>1, <1>3, <2>6, <3>1
    <3>3. CASE IsRemote
      <4>1. q = AnyPath
        BY <3>1, <3>2, <3>3 DEF Kept, Apart, Named
      <4> QED BY <1>5, <3>2, <3>3, <4>1
    <3>4. CASE ~IsRemote
      <4>1. madeAt[f] = q /\ madeAt[f] = e
        BY <3>1, <3>2, <3>4 DEF Kept, Apart, Named
      <4> QED BY <3>2, <4>1
    <3> QED BY <3>3, <3>4
  <2> QED BY <1>1, <2>4, <2>5, <2>6
<1>11. ASSUME NEW f \in Files, f \in up'
       PROVE  \E q \in Paths : stream'[madeBy'[f]][q] = f
  <2>1. IsRemote /\ Fresh(w)
    BY <1>1, <1>6, <1>7, <1>11 DEF Kept, Apart, Named
  <2>2. CASE f = new
    BY <1>1, <1>6, <2>1, <2>2
  <2>3. CASE f # new
    <3>1. f \in up /\ f \in DOMAIN content /\ madeBy'[f] = madeBy[f] /\ madeBy[f] \in Workers
      BY <1>2, <1>3, <1>6, <1>11, <2>1, <2>3
    <3>2. PICK q \in Paths : stream[madeBy[f]][q] = f
      BY <3>1 DEF Kept, Apart, Forgotten
    <3>3. ~(madeBy[f] = w /\ q = e)
      <4>1. f # NoFile
        BY DEF Files, NoFile
      <4>2. Cached(w) # NoFile => Cached(w) \notin up
        BY <1>1 DEF Kept, OpensStale, OpensAnew
      <4> QED BY <1>3, <3>1, <3>2, <4>1, <4>2
    <3> QED BY <1>1, <3>1, <3>2, <3>3
  <2> QED BY <2>2, <2>3
<1>12. Forgotten'
  BY <1>10, <1>11 DEF Forgotten
<1> QED BY <1>8, <1>9, <1>12 DEF Apart

LEMMA CloseApart ==
  ASSUME Kept, NEW w \in Workers, NEW closed, ClearStream(w, closed),
         \A v \in Workers : orphans'[v] \subseteq orphans[v]
  PROVE  Apart'
<1>1. /\ \A v \in Workers, p \in Paths :
           stream'[v][p] = IF v = w /\ stream[w][p] \in Gone(w, closed) THEN NoFile
                                                                      ELSE stream[v][p]
      /\ up' = up \ Gone(w, closed)
      /\ UNCHANGED <<appender, dir, madeAt, madeBy>>
  BY ClearEffect DEF Kept
<1>2. IsRemote' = IsRemote
  BY <1>1 DEF IsRemote
<1>3. Named' /\ Held'
  BY <1>1, <1>2 DEF Kept, Apart, Named, Held
<1>4. ASSUME NEW v \in Workers, NEW f \in Files, f \in orphans'[v]
      PROVE  f \notin up' /\ \A p \in Paths : dir'[p] # f /\ stream'[v][p] # f
  <2>1. f \notin up /\ \A p \in Paths : dir[p] # f /\ stream[v][p] # f
    BY <1>4 DEF Kept, Apart, Forgotten
  <2>2. f # NoFile
    BY DEF Files, NoFile
  <2> QED BY <1>1, <2>1, <2>2
<1>5. ASSUME NEW f \in Files, f \in up'
      PROVE  \E p \in Paths : stream'[madeBy'[f]][p] = f
  <2>1. f \in up /\ f \notin Gone(w, closed) /\ madeBy' = madeBy
    BY <1>1, <1>5
  <2>2. PICK p \in Paths : stream[madeBy[f]][p] = f
    BY <2>1 DEF Kept, Apart, Forgotten
  <2>3. madeBy[f] \in Workers
    BY <2>1 DEF Kept, Sound, TypeOK, Known
  <2> QED BY <1>1, <2>1, <2>2, <2>3
<1>6. Forgotten'
  BY <1>4, <1>5 DEF Forgotten
<1> QED BY <1>3, <1>6 DEF Apart

LEMMA OutsideApart ==
  ASSUME Kept, \A p \in Paths : dir'[p] \in {dir[p], NoFile}, up' \subseteq up,
         UNCHANGED <<appender, madeAt, madeBy, stream, orphans>>
  PROVE  Apart'
<1>1. IsRemote' = IsRemote
  BY DEF IsRemote
<1>2. Named' /\ Held'
  BY <1>1 DEF Kept, Apart, Named, Held
<1>3. \A f \in Files : f # NoFile
  BY DEF Files, NoFile
<1>4. Forgotten'
  BY <1>3 DEF Kept, Apart, Forgotten
<1> QED BY <1>2, <1>4 DEF Apart

LEMMA StillApart ==
  ASSUME Kept, UNCHANGED <<appender, dir, up, madeAt, madeBy, stream, orphans>>
  PROVE  Apart'
BY DEF Kept, Apart, Named, Held, Forgotten, IsRemote

\* A worker that is not the one that acts, or that stays where it is.
LEMMA Bystander ==
  ASSUME Kept, NEW v \in Workers, Right(v), UNCHANGED appender,
         call'[v].at \in {"open", "write"} =>
           /\ call'[v].at = call[v].at /\ call'[v].path = call[v].path
           /\ \A p \in Paths : stream'[v][p] = stream[v][p]
           /\ ~taken'[v] => /\ ~taken[v]
                            /\ Cached(v) \in up => Cached(v) \in up'
                            /\ dir[call[v].path] \in {dir'[call[v].path], NoFile},
         \A f \in DOMAIN content : madeBy'[f] = madeBy[f],
         \A f \in up' : f \in up \/ f \notin DOMAIN content,
         \A p \in Paths : dir'[p] \in {dir[p], NoFile} \/ dir'[p] \notin DOMAIN content
  PROVE  OpensAnew(v)' /\ Right(v)'
<1>1. CASE call'[v].at \notin {"open", "write"}
  BY <1>1 DEF OpensAnew, Right
<1>2. CASE call'[v].at \in {"open", "write"}
  <2>1. Cached(v)' = Cached(v) /\ IsRemote' = IsRemote
    BY <1>2, SameCached DEF Kept, IsRemote
  <2>2. call[v].path \in Paths /\ EntryOf(call[v].path) \in Paths
    BY EntryType DEF Kept, Sound, TypeOK
  <2>3. Cached(v) # NoFile => Cached(v) \in DOMAIN content
    BY <2>2 DEF Kept, Sound, Known, Cached
  <2>4. OpensAnew(v)'
    <3> SUFFICES ASSUME call'[v].at = "open", Cached(v) # NoFile
                 PROVE  Cached(v) \notin up' /\ \A p \in Paths : dir'[p] # Cached(v)
      BY <2>1 DEF OpensAnew
    <3>1. call[v].at = "open"
      OBVIOUS
    <3>2. Cached(v) \notin up /\ \A p \in Paths : dir[p] # Cached(v)
      BY <3>1 DEF Kept, OpensStale, OpensAnew
    <3> QED BY <2>3, <3>2
  <2>5. Right(v)'
    <3> SUFFICES ASSUME call'[v].at = "write", ~taken'[v]
                 PROVE  IF IsRemote THEN Cached(v) \in up'
                        ELSE \/ Cached(v) = dir'[call[v].path]
                             \/ /\ dir'[call[v].path] # NoFile
                                /\ madeBy'[dir'[call[v].path]] # v
      BY <2>1 DEF Right
    <3>1. call[v].at = "write" /\ ~taken[v] /\ Cached(v) # NoFile
      BY DEF Kept, Sound, TypeOK
    <3>2. CASE IsRemote
      BY <3>1, <3>2 DEF Right
    <3>3. CASE ~IsRemote
      <4>1. dir[call[v].path] # NoFile /\ dir'[call[v].path] = dir[call[v].path]
        BY <3>1, <3>3 DEF Right
      <4>2. dir[call[v].path] \in DOMAIN content
        BY <2>2, <4>1 DEF Kept, Sound, Known
      <4> QED BY <3>1, <3>3, <4>1, <4>2 DEF Right
    <3> QED BY <3>2, <3>3
  <2> QED BY <2>4, <2>5
<1> QED BY <1>1, <1>2

\* What a worker finds or opens is where it leads.
LEMMA LookupRight ==
  ASSUME Kept, \A v \in Workers : Right(v), NEW w \in Workers, Lookup(w)
  PROVE  \A v \in Workers : OpensAnew(v)' /\ Right(v)'
<1> DEFINE a == IF Cached(w) # NoFile /\ Usable(w) THEN "write" ELSE "open"
<1>1. /\ call[w].at = "lookup" /\ a \in Steps /\ GoesTo(w, a)
      /\ UNCHANGED <<appender, dir, up, content, madeAt, madeBy, stream, taken>>
  BY DEF Lookup, Steps, files, GoesTo
<1>2. \A v \in Workers : /\ call'[v].at = IF v = w THEN a ELSE call[v].at
                         /\ call'[v].path = call[v].path
  BY <1>1, StepEffect DEF Kept
<1>3. Cached(w)' = Cached(w) /\ IsRemote' = IsRemote
  BY <1>1, <1>2, SameCached DEF Kept, IsRemote
<1>4. /\ call[w].path \in Paths /\ EntryOf(call[w].path) \in Paths
      /\ ~IsRemote => EntryOf(call[w].path) = call[w].path
  BY EntryType DEF Kept, Sound, TypeOK, EntryOf
<1>5. Right(w)'
  <2> SUFFICES ASSUME a = "write"
               PROVE  IF IsRemote THEN Cached(w) \in up
                      ELSE \/ Cached(w) = dir[call[w].path]
                           \/ dir[call[w].path] # NoFile /\ madeBy[dir[call[w].path]] # w
    BY <1>1, <1>2, <1>3 DEF Right
  <2>1. Cached(w) # NoFile /\ Usable(w)
    OBVIOUS
  <2> QED BY <1>4, <2>1 DEF Usable, Cached, Kept, Apart, Held
<1>6. OpensAnew(w)'
  <2> SUFFICES ASSUME Cached(w) # NoFile, ~Usable(w)
               PROVE  Cached(w) \notin up /\ \A p \in Paths : dir[p] # Cached(w)
    BY <1>1, <1>2, <1>3 DEF OpensAnew
  <2>1. CASE IsRemote
    BY <2>1 DEF Usable, Kept, Apart, Named
  <2>2. CASE ~IsRemote
    <3>1. up = {} /\ dir[call[w].path] = NoFile
      BY <2>2 DEF Usable, Kept, Apart, Named
    <3>2. ASSUME NEW p \in Paths, dir[p] = Cached(w) PROVE FALSE
      <4>1. madeAt[Cached(w)] = p /\ madeAt[Cached(w)] = call[w].path
        BY <1>4, <2>2, <3>2 DEF Cached, Kept, Apart, Named
      <4> QED BY <3>1, <3>2, <4>1
    <3> QED BY <3>1, <3>2
  <2> QED BY <2>1, <2>2
<1>7. ASSUME NEW v \in Workers, v # w PROVE OpensAnew(v)' /\ Right(v)'
  BY <1>1, <1>2, <1>7, Bystander
<1> QED BY <1>5, <1>6, <1>7

LEMMA OpenRight ==
  ASSUME Kept, \A v \in Workers : Right(v), NEW w \in Workers, Open(w)
  PROVE  \A v \in Workers : OpensAnew(v)' /\ Right(v)'
<1> DEFINE p == call[w].path
           e == EntryOf(call[w].path)
<1>1. /\ call[w].at = "open" /\ "write" \in Steps /\ GoesTo(w, "write")
      /\ appender' = appender /\ taken' = taken
  BY DEF Open, Steps, GoesTo
<1>2. \A v \in Workers : /\ call'[v].at = IF v = w THEN "write" ELSE call[v].at
                         /\ call'[v].path = call[v].path
  BY <1>1, StepEffect DEF Kept
<1>3. /\ Fresh(w) \/ Found(w)
      /\ e \in Paths /\ p \in Paths
      /\ \A v \in Workers, q \in Paths :
           stream'[v][q] = IF v = w /\ q = e THEN OpenedBy(w) ELSE stream[v][q]
  BY OpenEffect DEF Kept
<1>4. Cached(w)' = OpenedBy(w) /\ IsRemote' = IsRemote
  BY <1>1, <1>2, <1>3 DEF Cached, EntryOf, IsRemote
<1>5. ASSUME Fresh(w)
      PROVE  /\ OpenedBy(w) \notin DOMAIN content
             /\ \A f \in DOMAIN content : madeBy'[f] = madeBy[f]
             /\ IsRemote => dir' = dir /\ up' = up \cup {OpenedBy(w)}
             /\ ~IsRemote => /\ up' = up /\ dir[p] = NoFile
                             /\ \A q \in Paths : dir'[q] = IF q = p THEN OpenedBy(w) ELSE dir[q]
  BY <1>3, <1>5 DEF Fresh, NewFile, Kept, Sound, TypeOK
<1>6. ASSUME Found(w)
      PROVE  ~IsRemote /\ OpenedBy(w) = dir[p] /\ UNCHANGED <<dir, up, madeBy>>
  BY <1>6 DEF Found, files
<1>7. Right(w)'
  BY <1>2, <1>3, <1>4, <1>5, <1>6 DEF Right
<1>8. OpensAnew(w)'
  BY <1>2 DEF OpensAnew
<1>9. ASSUME NEW v \in Workers, v # w PROVE OpensAnew(v)' /\ Right(v)'
  <2>1. /\ call'[v].at = call[v].at /\ call'[v].path = call[v].path
        /\ \A q \in Paths : stream'[v][q] = stream[v][q]
        /\ call[v].path \in Paths
    BY <1>2, <1>3, <1>9 DEF Kept, Sound, TypeOK
  <2>2. /\ \A f \in DOMAIN content : madeBy'[f] = madeBy[f]
        /\ \A f \in up' : f \in up \/ f \notin DOMAIN content
        /\ \A q \in Paths : dir'[q] \in {dir[q], NoFile} \/ dir'[q] \notin DOMAIN content
        /\ \A q \in Paths : dir[q] \in {dir'[q], NoFile}
        /\ up \subseteq up'
    <3>1. CASE Fresh(w)
      BY <1>5, <3>1
    <3>2. CASE Found(w)
      BY <1>6, <3>2
    <3> QED BY <1>3, <3>1, <3>2
  <2> QED BY <1>1, <2>1, <2>2, Bystander
<1> QED BY <1>7, <1>8, <1>9

LEMMA CloseRight ==
  ASSUME Kept, \A v \in Workers : Right(v), NEW w \in Workers, NEW closed, IsIdle(w),
         ClearStream(w, closed), UNCHANGED <<call, taken>>
  PROVE  \A v \in Workers : OpensAnew(v)' /\ Right(v)'
<1>1. /\ \A v \in Workers, p \in Paths :
           stream'[v][p] = IF v = w /\ stream[w][p] \in Gone(w, closed) THEN NoFile
                                                                      ELSE stream[v][p]
      /\ up' = up \ Gone(w, closed)
      /\ UNCHANGED <<appender, dir, madeBy>>
  BY ClearEffect DEF Kept
<1>2. CASE IsRemote
  <2>1. ASSUME NEW f \in Gone(w, closed) PROVE madeBy[f] = w
    <3>1. PICK p \in Paths : stream[w][p] = f /\ f # NoFile
      BY DEF Gone, Range, Kept, Sound, TypeOK
    <3> QED BY <1>2, <3>1 DEF Kept, Apart, Named
  <2>2. ASSUME NEW v \in Workers, v # w, Cached(v) \in up PROVE Cached(v) \in up'
    <3>1. EntryOf(call[v].path) \in Paths /\ Cached(v) # NoFile
      BY <2>2, EntryType DEF Kept, Sound, TypeOK, Files, NoFile
    <3>2. madeBy[Cached(v)] = v
      BY <1>2, <3>1 DEF Cached, Kept, Apart, Named
    <3> QED BY <1>1, <2>1, <2>2, <3>2
  <2>3. ASSUME NEW v \in Workers, v # w PROVE OpensAnew(v)' /\ Right(v)'
    BY <1>1, <2>2, <2>3, Bystander
  <2>4. OpensAnew(w)' /\ Right(w)'
    BY DEF IsIdle, OpensAnew, Right
  <2> QED BY <2>3, <2>4
<1>3. CASE ~IsRemote
  <2>1. up = {}
    BY <1>3 DEF Kept, Apart, Named
  <2>2. ASSUME NEW v \in Workers, v # w PROVE OpensAnew(v)' /\ Right(v)'
    BY <1>1, <2>1, <2>2, Bystander
  <2>3. OpensAnew(w)' /\ Right(w)'
    BY DEF IsIdle, OpensAnew, Right
  <2> QED BY <2>2, <2>3
<1> QED BY <1>2, <1>3

\* A write adds an attempt for the path that the worker's stream was made at.
LEMMA WriteOwnFile ==
  ASSUME Kept, NoForeignFile, NEW w \in Workers, call[w].at = "write",
         NEW whole \in BOOLEAN, WriteAttempt(w, whole), UNCHANGED <<appender, madeAt>>
  PROVE  NoForeignFile'
<1> SUFFICES ASSUME ~IsRemote, NEW f \in DOMAIN content', NEW i \in DOMAIN content'[f]
             PROVE  content'[f][i].path = madeAt[f]
  BY DEF NoForeignFile, IsRemote
<1>1. /\ DOMAIN content' = DOMAIN content
      /\ content'[f] = IF f = Cached(w) THEN Append(content[f], Attempt(w, whole))
                                       ELSE content[f]
  BY WriteAttemptTypes DEF Kept
<1>2. \A j \in DOMAIN content[f] : content[f][j].path = madeAt[f]
  BY <1>1 DEF NoForeignFile
<1>3. madeAt[Cached(w)] = call[w].path
  BY DEF Cached, EntryOf, Kept, Apart, Named, Sound, TypeOK
<1>4. content[f] \in Seq(Entries)
  BY <1>1 DEF Kept, Sound, TypeOK, Entries
<1>5. CASE f = Cached(w)
  <2>1. \/ i \in DOMAIN content[f] /\ content'[f][i] = content[f][i]
        \/ content'[f][i] = Attempt(w, whole)
    BY <1>1, <1>4, <1>5
  <2> QED BY <1>2, <1>3, <1>5, <2>1 DEF Attempt
<1> QED BY <1>1, <1>2, <1>5

LEMMA SameOwnFile ==
  ASSUME NoForeignFile, UNCHANGED <<appender, content, madeAt>>
  PROVE  NoForeignFile'
BY DEF NoForeignFile, IsRemote

LEMMA OpenOwnFile ==
  ASSUME Kept, NoForeignFile, NEW w \in Workers, Open(w)
  PROVE  NoForeignFile'
<1>1. Fresh(w) \/ Found(w)
  BY OpenEffect DEF Kept
<1>2. appender' = appender
  BY DEF Open
<1>3. CASE Found(w)
  BY <1>2, <1>3, SameOwnFile DEF Found, files
<1>4. CASE Fresh(w)
  <2>1. content' = Append(content, << >>) /\ madeAt' = Append(madeAt, call[w].path)
    BY <1>4 DEF Fresh, NewFile
  <2>2. /\ content \in Seq(Seq(Entries)) /\ madeAt \in Seq(Paths)
        /\ Len(madeAt) = Len(content)
    BY DEF Kept, Sound, TypeOK, Entries
  <2>3. ASSUME NEW f \in DOMAIN content', NEW i \in DOMAIN content'[f]
        PROVE  /\ f \in DOMAIN content /\ content'[f] = content[f] /\ madeAt'[f] = madeAt[f]
    BY <2>1, <2>2
  <2> QED BY <1>2, <2>3 DEF NoForeignFile, IsRemote
<1> QED BY <1>1, <1>3, <1>4

FilesInv == Kept /\ (\A w \in Workers : Right(w)) /\ NoForeignFile

LEMMA InitFiles == Init => FilesInv
<1>1. Init => NoForeignFile /\ \A w \in Workers : Right(w)
  BY DEF Init, NoForeignFile, Right, Idle
<1> QED BY <1>1, InitSound, InitApart DEF FilesInv, Kept

LEMMA NextFiles == FilesInv /\ [Next]_vars => FilesInv'
<1> SUFFICES ASSUME FilesInv, [Next]_vars PROVE FilesInv'
  OBVIOUS
<1>1. Sound' /\ Kept /\ NoForeignFile /\ \A w \in Workers : Right(w)
  BY NextSound DEF FilesInv, Kept
<1>2. ASSUME Apart', NoForeignFile', \A v \in Workers : OpensAnew(v)' /\ Right(v)'
      PROVE  FilesInv'
  BY <1>1, <1>2 DEF FilesInv, Kept, OpensStale
\* The files stay and every worker that goes on inside a call stays where it is.
<1>3. ASSUME UNCHANGED <<appender, dir, up, madeAt, madeBy, stream, orphans>>, NoForeignFile',
             \A v \in Workers : call'[v].at \in {"open", "write"} =>
               /\ call'[v].at = call[v].at /\ call'[v].path = call[v].path
               /\ taken'[v] = taken[v]
      PROVE  FilesInv'
  <2>1. Apart'
    BY <1>1, <1>3, StillApart
  <2>2. ASSUME NEW v \in Workers PROVE OpensAnew(v)' /\ Right(v)'
    BY <1>1, <1>3, Bystander
  <2> QED BY <1>2, <1>3, <2>1, <2>2
<1>4. ASSUME NEW w \in Workers, ~IsIdle(w), NEW ok \in BOOLEAN, Return(w, ok)
      PROVE  \A v \in Workers : call'[v].at \in {"open", "write"} =>
               /\ call'[v].at = call[v].at /\ call'[v].path = call[v].path
               /\ taken'[v] = taken[v]
  <2>1. /\ \A v \in Workers : call'[v] = IF v = w THEN Idle ELSE call[v]
        /\ \A v \in Workers : taken'[v] = IF v = w THEN FALSE ELSE taken[v]
    BY <1>1, <1>4, ReturnEffect DEF Kept
  <2>2. Idle.at \notin {"open", "write"}
    BY DEF Idle
  <2> QED BY <2>1, <2>2
<1>5. ASSUME NEW w \in Workers, InCall(w) PROVE FilesInv'
  <2>1. CASE Lookup(w)
    <3>1. UNCHANGED <<appender, dir, up, content, madeAt, madeBy, stream, orphans>>
      BY <2>1 DEF Lookup, files
    <3> QED BY <1>1, <1>2, <2>1, <3>1, LookupRight, StillApart, SameOwnFile
  <2>2. CASE OpenFail(w)
    <3>1. UNCHANGED <<appender, dir, up, content, madeAt, madeBy, stream, orphans>>
      BY <2>2 DEF OpenFail, files
    <3>2. NoForeignFile'
      BY <1>1, <3>1, SameOwnFile
    <3> QED BY <1>3, <1>4, <2>2, <3>1, <3>2 DEF OpenFail, IsIdle
  <2>3. CASE Open(w)
    BY <1>1, <1>2, <2>3, OpenApart, OpenRight, OpenOwnFile
  <2>4. ASSUME call[w].at = "write",
               UNCHANGED <<appender, dir, up, madeAt, madeBy, stream, orphans>>,
               (\E whole \in BOOLEAN : WriteAttempt(w, whole)) \/ UNCHANGED content,
               \/ \E ok \in BOOLEAN : Return(w, ok)
               \/ call' = [call EXCEPT ![w].left = @ - 1] /\ taken' = taken
        PROVE  FilesInv'
    <3>1. NoForeignFile'
      BY <1>1, <2>4, WriteOwnFile, SameOwnFile
    <3>2. ASSUME call' = [call EXCEPT ![w].left = @ - 1], taken' = taken
          PROVE  \A v \in Workers : /\ call'[v].at = call[v].at
                                    /\ call'[v].path = call[v].path
                                    /\ taken'[v] = taken[v]
      BY <1>1, <3>2 DEF Kept, Sound, TypeOK
    <3> QED BY <1>3, <1>4, <2>4, <3>1, <3>2 DEF IsIdle
  <2>5. CASE WriteWhole(w)
    BY <2>4, <2>5 DEF WriteWhole
  <2>6. CASE WriteShort(w)
    BY <2>4, <2>6 DEF WriteShort
  <2> QED BY <1>5, <2>1, <2>2, <2>3, <2>5, <2>6 DEF InCall
<1>6. ASSUME NEW w \in Workers, NEW p \in Paths, Log(w, p) PROVE FilesInv'
  <2>1. UNCHANGED <<appender, dir, up, content, madeAt, madeBy, stream, orphans, taken>>
    BY <1>6 DEF Log, files
  <2>2. \A v \in Workers : call'[v].at = "lookup" \/ call'[v] = call[v]
    BY <1>1, <1>6 DEF Log, Kept, Sound, TypeOK
  <2> QED BY <1>1, <1>3, <2>1, <2>2, SameOwnFile
<1>7. ASSUME NEW w \in Workers,
             CloseAll(w) \/ RequestEnd(w) \/ \E l \in Loggers : CloseAssign(w, l)
      PROVE  FilesInv'
  <2>1. IsIdle(w) /\ UNCHANGED <<call, taken>>
    BY <1>7 DEF CloseAll, RequestEnd, CloseAssign
  <2>2. PICK closed : ClearStream(w, closed)
    BY <1>7 DEF CloseAll, RequestEnd, CloseAssign
  <2>3. \A v \in Workers : orphans'[v] \subseteq orphans[v]
    BY <1>1, <1>7 DEF CloseAll, RequestEnd, CloseAssign, Kept, Sound, TypeOK
  <2>4. NoForeignFile'
    BY <1>1, <2>2, SameOwnFile DEF ClearStream
  <2> QED BY <1>1, <1>2, <2>1, <2>2, <2>3, <2>4, CloseApart, CloseRight
<1>8. ASSUME NEW p \in Paths, TakeAway(p) PROVE FilesInv'
  <2>1. /\ UNCHANGED <<appender, up, content, madeAt, madeBy, stream, orphans, call>>
        /\ \A q \in Paths : dir'[q] = IF q = p THEN NoFile ELSE dir[q]
    BY <1>1, <1>8 DEF TakeAway, Kept, Sound, TypeOK
  <2>2. \A v \in Workers : taken'[v] = (taken[v] \/ (call[v].at = "write" /\ call[v].path = p))
    BY <1>1, <1>8, TakeTypes DEF TakeAway, Writing, Kept
  <2>3. ASSUME NEW v \in Workers PROVE OpensAnew(v)' /\ Right(v)'
    <3>1. CASE call[v].at = "write" /\ call[v].path = p
      BY <2>1, <2>2, <3>1 DEF OpensAnew, Right
    <3>2. CASE call[v].at = "open"
      <4>1. Cached(v)' = Cached(v)
        BY <1>1, <2>1, SameCached DEF Kept
      <4> QED BY <1>1, <2>1, <3>2, <4>1 DEF Kept, Sound, TypeOK, OpensStale, OpensAnew, Right, NoFile
    <3>3. CASE call[v].at # "open" /\ ~(call[v].at = "write" /\ call[v].path = p)
      <4>1. call[v].path \in Paths
        BY <1>1 DEF Kept, Sound, TypeOK
      <4> QED BY <1>1, <2>1, <2>2, <3>3, <4>1, Bystander
    <3> QED BY <3>1, <3>2, <3>3
  <2>4. Apart' /\ NoForeignFile'
    BY <1>1, <2>1, OutsideApart, SameOwnFile
  <2> QED BY <1>2, <2>3, <2>4
<1>9. ASSUME NEW f \in up, Disconnect(f) PROVE FilesInv'
  <2>1. /\ UNCHANGED <<appender, dir, content, madeAt, madeBy, stream, orphans, call>>
        /\ up' = up \ {f}
    BY <1>9 DEF Disconnect
  <2>2. \A v \in Workers : taken'[v] = (taken[v] \/ (call[v].at = "write" /\ Cached(v) = f))
    BY <1>1, <1>9, TakeTypes DEF Disconnect, Writing, Kept
  <2>3. ASSUME NEW v \in Workers PROVE OpensAnew(v)' /\ Right(v)'
    <3>1. CASE call[v].at = "write" /\ Cached(v) = f
      BY <2>1, <2>2, <3>1 DEF OpensAnew, Right
    <3>2. CASE call[v].at = "open"
      <4>1. Cached(v)' = Cached(v)
        BY <1>1, <2>1, SameCached DEF Kept
      <4> QED BY <1>1, <2>1, <3>2, <4>1 DEF Kept, OpensStale, OpensAnew, Right
    <3>3. CASE call[v].at # "open" /\ ~(call[v].at = "write" /\ Cached(v) = f)
      BY <1>1, <2>1, <2>2, <3>3, Bystander
    <3> QED BY <3>1, <3>2, <3>3
  <2>4. Apart' /\ NoForeignFile'
    BY <1>1, <2>1, OutsideApart, SameOwnFile
  <2> QED BY <1>2, <2>3, <2>4
<1>10. CASE UNCHANGED vars
  <2>1. UNCHANGED <<appender, dir, up, content, madeAt, madeBy, stream, orphans, call, taken>>
    BY <1>10 DEF vars
  <2> QED BY <1>1, <1>3, <2>1, SameOwnFile
<1> QED BY <1>5, <1>6, <1>7, <1>8, <1>9, <1>10 DEF Next

LEMMA FilesHold == Spec => []FilesInv
<1>1. Init => FilesInv
  BY InitFiles
<1>2. FilesInv /\ [Next]_vars => FilesInv'
  BY NextFiles
<1> QED BY <1>1, <1>2, PTL DEF Spec

\* Whatever workers and the administrator do, what is written to a file was
\* logged to the path that the file was created at.
THEOREM OwnFile == Spec => []NoForeignFile
<1>1. FilesInv => NoForeignFile
  BY DEF FilesInv
<1> QED BY <1>1, FilesHold, PTL

\* A stream is stale when it is written to only if it became so after the
\* lookup, or another worker re-created the path.
THEOREM StaleStreams == Spec => []StaleOnlyIfRecreated
<1>1. FilesInv => StaleOnlyIfRecreated
  BY DEF FilesInv, Right, StaleOnlyIfRecreated
<1> QED BY <1>1, FilesHold, PTL

\* What the list has forgotten is never a file that is still logged to, nor a
\* connection that is still up.
THEOREM ForgottenStreams == Spec => []ForgottenAreGone
<1>1. ASSUME FilesInv PROVE ForgottenAreGone
  <2>1. Sound /\ Forgotten
    BY <1>1 DEF FilesInv, Kept, Apart
  <2>2. /\ DOMAIN dir = Paths /\ up \subseteq Files
        /\ \A w \in Workers : DOMAIN stream[w] = Paths /\ orphans[w] \subseteq Files
    BY <2>1 DEF Sound, TypeOK
  <2>3. \A f \in up : madeBy[f] \in Workers
    BY <2>1 DEF Sound, TypeOK, Known
  <2>4. ASSUME NEW w \in Workers, NEW f \in orphans[w]
        PROVE  f \notin Range(dir) \cup Range(stream[w]) \cup up
    BY <2>1, <2>2, <2>4 DEF Range, Forgotten
  <2>5. ASSUME NEW f \in up PROVE f \in Range(stream[madeBy[f]])
    BY <2>1, <2>2, <2>3 DEF Range, Forgotten
  <2> QED BY <2>4, <2>5 DEF ForgottenAreGone
<1> QED BY <1>1, FilesHold, PTL

-----------------------------------------------------------------------------
(* What a result says *)

\* Attempts and Wholes in the written files c.
Places(c, id) ==
  UNION {{<<f, i>> : i \in {j \in DOMAIN c[f] : c[f][j].id = id}} : f \in DOMAIN c}
WholePlaces(c, id) == {a \in Places(c, id) : c[a[1]][a[2]].whole}

LEMMA PlacesAre ==
  ASSUME NEW c, NEW id, NEW a
  PROVE  a \in Places(c, id) <=>
           \E f \in DOMAIN c : \E i \in DOMAIN c[f] : a = <<f, i>> /\ c[f][i].id = id
<1>1. a \in Places(c, id) <=>
        \E f \in DOMAIN c : a \in {<<f, i>> : i \in {j \in DOMAIN c[f] : c[f][j].id = id}}
  BY DEF Places
<1>2. ASSUME NEW f \in DOMAIN c
      PROVE  a \in {<<f, i>> : i \in {j \in DOMAIN c[f] : c[f][j].id = id}}
               <=> \E i \in DOMAIN c[f] : a = <<f, i>> /\ c[f][i].id = id
  OBVIOUS
<1> QED BY <1>1, <1>2

LEMMA OpenPlaces ==
  ASSUME NEW c \in Seq(Seq(Entries)), NEW id
  PROVE  /\ Places(Append(c, << >>), id) = Places(c, id)
         /\ WholePlaces(Append(c, << >>), id) = WholePlaces(c, id)
<1> DEFINE d == Append(c, << >>)
<1>1. /\ DOMAIN c = 1..Len(c) /\ DOMAIN d = 1..(Len(c) + 1) /\ Len(c) \in Nat
      /\ \A f \in DOMAIN c : d[f] = c[f]
      /\ d[Len(c) + 1] = << >>
  OBVIOUS
<1>2. \A f \in DOMAIN d : f \in DOMAIN c \/ DOMAIN d[f] = {}
  BY <1>1
<1> HIDE DEF d
<1>3. ASSUME NEW a PROVE a \in Places(d, id) <=> a \in Places(c, id)
  <2>1. ASSUME a \in Places(d, id) PROVE a \in Places(c, id)
    <3>1. PICK f \in DOMAIN d : \E i \in DOMAIN d[f] : a = <<f, i>> /\ d[f][i].id = id
      BY <2>1, PlacesAre
    <3>2. f \in DOMAIN c /\ d[f] = c[f]
      BY <1>1, <1>2, <3>1
    <3>3. \E i \in DOMAIN c[f] : a = <<f, i>> /\ c[f][i].id = id
      BY <3>1, <3>2
    <3> QED BY <3>2, <3>3, PlacesAre
  <2>2. ASSUME a \in Places(c, id) PROVE a \in Places(d, id)
    <3>1. PICK f \in DOMAIN c : \E i \in DOMAIN c[f] : a = <<f, i>> /\ c[f][i].id = id
      BY <2>2, PlacesAre
    <3>2. f \in DOMAIN d /\ d[f] = c[f]
      BY <1>1
    <3>3. \E i \in DOMAIN d[f] : a = <<f, i>> /\ d[f][i].id = id
      BY <3>1, <3>2
    <3> QED BY <3>2, <3>3, PlacesAre
  <2> QED BY <2>1, <2>2
<1>4. ASSUME NEW a \in Places(c, id) PROVE d[a[1]][a[2]] = c[a[1]][a[2]]
  BY <1>1, PlacesAre
<1>5. Places(d, id) = Places(c, id)
  BY <1>3
<1>6. WholePlaces(d, id) = WholePlaces(c, id)
  BY <1>4, <1>5 DEF WholePlaces
<1> QED BY <1>5, <1>6 DEF d

\* The files d are the files c with the attempt x added to file g.
Adds(c, d, g, x) ==
  /\ c \in Seq(Seq(Entries)) /\ d \in Seq(Seq(Entries)) /\ x \in Entries
  /\ g \in DOMAIN c /\ DOMAIN d = DOMAIN c
  /\ \A f \in DOMAIN c : d[f] = IF f = g THEN Append(c[f], x) ELSE c[f]

Grows(c, d, g, x, id) ==
  /\ Places(d, id) = Places(c, id) \cup (IF x.id = id THEN {<<g, Len(c[g]) + 1>>} ELSE {})
  /\ <<g, Len(c[g]) + 1>> \notin Places(c, id)
  /\ WholePlaces(d, id) = WholePlaces(c, id) \cup
       (IF x.id = id /\ x.whole THEN {<<g, Len(c[g]) + 1>>} ELSE {})

LEMMA WritePlaces ==
  ASSUME NEW c, NEW d, NEW g, NEW x, Adds(c, d, g, x), NEW id
  PROVE  Grows(c, d, g, x, id)
<1> USE DEF Adds
<1> DEFINE n == Len(c[g]) + 1
           new == <<g, n>>
<1>1. /\ c[g] \in Seq(Entries) /\ Len(c[g]) \in Nat /\ DOMAIN c[g] = 1..Len(c[g])
      /\ DOMAIN d[g] = 1..n /\ d[g][n] = x /\ \A i \in DOMAIN c[g] : d[g][i] = c[g][i]
  <2>1. c[g] \in Seq(Entries) /\ d[g] = Append(c[g], x)
    OBVIOUS
  <2>2. ASSUME NEW s \in Seq(Entries)
        PROVE  /\ Len(s) \in Nat /\ DOMAIN s = 1..Len(s)
               /\ DOMAIN Append(s, x) = 1..(Len(s) + 1) /\ Append(s, x)[Len(s) + 1] = x
               /\ \A i \in DOMAIN s : Append(s, x)[i] = s[i]
    OBVIOUS
  <2> QED BY <2>1, <2>2
<1>2. n \notin DOMAIN c[g] /\ n \in DOMAIN d[g] /\ \A i \in DOMAIN d[g] : i = n \/ i \in DOMAIN c[g]
  BY <1>1
<1>3. new \notin Places(c, id)
  BY <1>2, PlacesAre
<1>4. ASSUME NEW a
      PROVE  a \in Places(d, id) <=> a \in Places(c, id) \/ (x.id = id /\ a = new)
  <2>1. ASSUME a \in Places(d, id) PROVE a \in Places(c, id) \/ (x.id = id /\ a = new)
    <3>1. PICK f \in DOMAIN d : \E i \in DOMAIN d[f] : a = <<f, i>> /\ d[f][i].id = id
      BY <2>1, PlacesAre
    <3>2. PICK i \in DOMAIN d[f] : a = <<f, i>> /\ d[f][i].id = id
      BY <3>1
    <3>3. \/ f = g /\ i = n /\ d[f][i] = x
          \/ f \in DOMAIN c /\ i \in DOMAIN c[f] /\ d[f][i] = c[f][i]
      BY <1>1, <1>2, <3>2
    <3>4. ASSUME f \in DOMAIN c, i \in DOMAIN c[f], d[f][i] = c[f][i]
          PROVE  a \in Places(c, id)
      BY <3>2, <3>4, PlacesAre
    <3> QED BY <3>2, <3>3, <3>4
  <2>2. ASSUME a \in Places(c, id) PROVE a \in Places(d, id)
    <3>1. PICK f \in DOMAIN c : \E i \in DOMAIN c[f] : a = <<f, i>> /\ c[f][i].id = id
      BY <2>2, PlacesAre
    <3>2. PICK i \in DOMAIN c[f] : a = <<f, i>> /\ c[f][i].id = id
      BY <3>1
    <3>3. f \in DOMAIN d /\ i \in DOMAIN d[f] /\ d[f][i] = c[f][i]
      <4>1. CASE f = g
        <5>1. DOMAIN c[g] \subseteq DOMAIN d[g]
          BY <1>1
        <5> QED BY <1>1, <4>1, <5>1
      <4>2. CASE f # g
        BY <4>2
      <4> QED BY <4>1, <4>2
    <3> QED BY <3>2, <3>3, PlacesAre
  <2>3. ASSUME x.id = id, a = new PROVE a \in Places(d, id)
    <3>1. g \in DOMAIN d /\ n \in DOMAIN d[g] /\ d[g][n].id = id
      BY <1>1, <1>2, <2>3
    <3> QED BY <2>3, <3>1, PlacesAre
  <2> QED BY <2>1, <2>2, <2>3
<1>5. ASSUME NEW a \in Places(c, id) PROVE d[a[1]][a[2]] = c[a[1]][a[2]]
  <2>1. PICK f \in DOMAIN c : \E i \in DOMAIN c[f] : a = <<f, i>>
    BY PlacesAre
  <2>2. PICK i \in DOMAIN c[f] : a = <<f, i>>
    BY <2>1
  <2>3. d[f][i] = c[f][i]
    BY <1>1, <2>2
  <2> QED BY <2>2, <2>3
<1>6. d[new[1]][new[2]] = x
  BY <1>1
<1>7. Places(d, id) = Places(c, id) \cup (IF x.id = id THEN {new} ELSE {})
  BY <1>4
<1>8. WholePlaces(d, id) = WholePlaces(c, id) \cup (IF x.id = id /\ x.whole THEN {new} ELSE {})
  <2> HIDE DEF new
  <2> QED BY <1>4, <1>5, <1>6 DEF WholePlaces
<1> QED BY <1>3, <1>7, <1>8 DEF Grows

-----------------------------------------------------------------------------
\* The calls under way have numbers of their own, have written nothing whole
\* and have attempts left; a number not yet given is nowhere.
Tally ==
  /\ \A id \in Ids : IsFiniteSet(Places(content, id))
  /\ \A id \in Ids : id >= nextId => Places(content, id) = {} /\ id \notin accepted \cup refused
  /\ \A v, w \in Workers :
       v # w /\ ~IsIdle(v) /\ ~IsIdle(w) => call[v].id # call[w].id
  /\ \A w \in Workers : ~IsIdle(w) =>
       /\ call[w].id \notin accepted \cup refused /\ WholePlaces(content, call[w].id) = {}
       /\ Cardinality(Places(content, call[w].id)) + call[w].left <= Retry

\* ResultIsTrue, over the written files.
Results ==
  /\ \A id \in accepted : Cardinality(WholePlaces(content, id)) = 1
  /\ \A id \in refused : WholePlaces(content, id) = {}
  /\ accepted \cap refused = {}
  /\ \A id \in Ids : Cardinality(Places(content, id)) <= Retry + 1

Honest == Sound /\ Tally /\ Results

LEMMA InitHonest == Init => Honest
<1> SUFFICES ASSUME Init PROVE Honest
  OBVIOUS
<1>1. \A id : Places(content, id) = {}
  <2>1. content = << >> /\ DOMAIN content = {}
    BY DEF Init
  <2> QED BY <2>1 DEF Places
<1>2. IsFiniteSet({}) /\ Cardinality({}) = 0
  BY FS_EmptySet
<1>3. Tally
  BY <1>1, <1>2 DEF Init, Tally, IsIdle, Idle
<1>4. Results
  <2>1. accepted = {} /\ refused = {}
    BY DEF Init
  <2>2. ASSUME NEW id \in Ids PROVE Cardinality(Places(content, id)) <= Retry + 1
    <3>1. Cardinality(Places(content, id)) = 0 /\ Retry \in Nat
      BY <1>1, <1>2, BoundsAssumption
    <3> QED BY <3>1
  <2> QED BY <2>1, <2>2 DEF Results
<1> QED BY <1>3, <1>4, InitSound DEF Honest

\* Nothing is written, and a call goes on as it was or is over: the tally stays.
LEMMA SameTally ==
  ASSUME Honest,
         \A id : /\ Places(content', id) = Places(content, id)
                 /\ WholePlaces(content', id) = WholePlaces(content, id),
         UNCHANGED <<accepted, refused, nextId>>,
         \A w \in Workers :
           call'[w].at # "idle" => /\ call[w].at # "idle" /\ call'[w].id = call[w].id
                                   /\ call'[w].left = call[w].left
  PROVE  Tally' /\ Results'
<1>1. Results'
  BY DEF Honest, Results
<1>2. Tally'
  BY DEF Honest, Tally, IsIdle
<1> QED BY <1>1, <1>2

LEMMA LogTally ==
  ASSUME Honest, NEW w \in Workers, NEW p \in Paths, Log(w, p)
  PROVE  Tally' /\ Results'
<1>1. /\ UNCHANGED <<content, accepted, refused>>
      /\ nextId \in Ids /\ nextId \in Nat /\ nextId' = nextId + 1
      /\ \A v \in Workers : call'[v] = IF v = w THEN [at |-> "lookup", path |-> p,
                                                      id |-> nextId, left |-> Retry] ELSE call[v]
      /\ call[w].at = "idle"
  BY DEF Log, Honest, Sound, TypeOK, files, Ids, IsIdle
<1>2. Results'
  BY <1>1 DEF Honest, Results
<1>3. \A v \in Workers : call[v].at # "idle" => call[v].id < nextId
  BY <1>1 DEF Honest, Sound, TypeOK, Known, IsIdle
<1>4. /\ Places(content, nextId) = {} /\ WholePlaces(content, nextId) = {}
      /\ nextId \notin accepted \cup refused /\ Cardinality({}) = 0
  BY <1>1, FS_EmptySet DEF Honest, Tally, WholePlaces
<1>5. \A u, v \in Workers :
        u # v /\ call'[u].at # "idle" /\ call'[v].at # "idle" => call'[u].id # call'[v].id
  <2> SUFFICES ASSUME NEW u \in Workers, NEW v \in Workers, u # v,
                      call'[u].at # "idle", call'[v].at # "idle"
               PROVE  call'[u].id # call'[v].id
    OBVIOUS
  <2>1. CASE u = w
    BY <1>1, <1>3, <2>1 DEF Ids
  <2>2. CASE v = w
    BY <1>1, <1>3, <2>2 DEF Ids
  <2>3. CASE u # w /\ v # w
    BY <1>1, <2>3 DEF Honest, Tally, IsIdle
  <2> QED BY <2>1, <2>2, <2>3
<1>6. ASSUME NEW v \in Workers, call'[v].at # "idle"
      PROVE  /\ call'[v].id \notin accepted \cup refused
             /\ WholePlaces(content, call'[v].id) = {}
             /\ Cardinality(Places(content, call'[v].id)) + call'[v].left <= Retry
  <2>1. CASE v = w
    <3>1. call'[v].id = nextId /\ call'[v].left = Retry /\ Retry \in Nat
      BY <1>1, <2>1, BoundsAssumption
    <3>2. Cardinality(Places(content, nextId)) = 0
      BY <1>4
    <3>3. Cardinality(Places(content, call'[v].id)) = 0
      BY <3>1, <3>2
    <3>4. Cardinality(Places(content, call'[v].id)) + call'[v].left <= Retry
      <4> HIDE DEF Places
      <4> QED BY <3>1, <3>3
    <3>5. call'[v].id \notin accepted \cup refused /\ WholePlaces(content, call'[v].id) = {}
      BY <1>4, <3>1
    <3> QED BY <3>4, <3>5
  <2>2. CASE v # w
    BY <1>1, <1>6, <2>2 DEF Honest, Tally, IsIdle
  <2> QED BY <2>1, <2>2
<1>7. \A id \in Ids : id >= nextId' => Places(content, id) = {} /\ id \notin accepted \cup refused
  BY <1>1 DEF Honest, Tally, Ids
<1>8. Tally'
  BY <1>1, <1>5, <1>6, <1>7 DEF Honest, Tally, IsIdle
<1> QED BY <1>2, <1>8

\* One more attempt at the message of the call, and none at others.
LEMMA WriteCounts ==
  ASSUME Sound, Tally, NEW w \in Workers, call[w].at = "write",
         NEW whole \in BOOLEAN, WriteAttempt(w, whole)
  PROVE  /\ \A id : id # call[w].id => /\ Places(content', id) = Places(content, id)
                                       /\ WholePlaces(content', id) = WholePlaces(content, id)
         /\ IsFiniteSet(Places(content', call[w].id))
         /\ Cardinality(Places(content', call[w].id)) = Cardinality(Places(content, call[w].id)) + 1
         /\ ~whole => WholePlaces(content', call[w].id) = {}
         /\ whole => Cardinality(WholePlaces(content', call[w].id)) = 1
<1> DEFINE id == call[w].id
           x == Attempt(w, whole)
           new == <<Cached(w), Len(content[Cached(w)]) + 1>>
<1>1. /\ content \in Seq(Seq(Entries)) /\ content' \in Seq(Seq(Entries))
      /\ DOMAIN content' = DOMAIN content
      /\ \A f \in DOMAIN content :
           content'[f] = IF f = Cached(w) THEN Append(content[f], x) ELSE content[f]
  BY WriteAttemptTypes DEF Sound, TypeOK, Entries
<1>2. Cached(w) \in DOMAIN content /\ id \in Ids
  BY EntryType DEF Sound, TypeOK, Known, Cached, Ids, IsIdle
<1>3. x \in Entries /\ x.id = id /\ x.whole = whole
  BY <1>2 DEF Attempt, Entries, Sound, TypeOK
<1>4. ASSUME NEW i
      PROVE  /\ Places(content', i) = Places(content, i) \cup (IF x.id = i THEN {new} ELSE {})
             /\ new \notin Places(content, i)
             /\ WholePlaces(content', i) =
                  WholePlaces(content, i) \cup (IF x.id = i /\ x.whole THEN {new} ELSE {})
  <2>1. Adds(content, content', Cached(w), x)
    <3> HIDE DEF x
    <3> QED BY <1>1, <1>2, <1>3 DEF Adds
  <2>2. Grows(content, content', Cached(w), x, i)
    BY <2>1, WritePlaces
  <2> HIDE DEF x
  <2> QED BY <2>2, Zenon DEF Grows
<1>5. IsFiniteSet(Places(content, id)) /\ WholePlaces(content, id) = {}
  BY <1>2 DEF Tally, IsIdle
<1> HIDE DEF x, new
<1>6. \A i : i # id => /\ Places(content', i) = Places(content, i)
                       /\ WholePlaces(content', i) = WholePlaces(content, i)
  BY <1>3, <1>4
<1>7. /\ Places(content', id) = Places(content, id) \cup {new}
      /\ WholePlaces(content', id) = IF whole THEN {new} ELSE {}
  BY <1>3, <1>4, <1>5
<1>8. /\ IsFiniteSet(Places(content', id))
      /\ Cardinality(Places(content', id)) = Cardinality(Places(content, id)) + 1
  BY <1>4, <1>5, <1>7, FS_AddElement
<1>9. Cardinality({new}) = 1
  BY FS_Singleton
<1> QED BY <1>6, <1>7, <1>8, <1>9

LEMMA OutcomeTally ==
  ASSUME Honest, NEW w \in Workers, call[w].at = "write", nextId' = nextId,
         \A id : id # call[w].id => /\ Places(content', id) = Places(content, id)
                                    /\ WholePlaces(content', id) = WholePlaces(content, id),
         IsFiniteSet(Places(content', call[w].id)),
         Cardinality(Places(content', call[w].id)) <= Cardinality(Places(content, call[w].id)) + 1,
         \/ Return(w, TRUE) /\ Cardinality(WholePlaces(content', call[w].id)) = 1
         \/ Return(w, FALSE) /\ WholePlaces(content', call[w].id) = {}
         \/ /\ call[w].left > 0 /\ call' = [call EXCEPT ![w].left = @ - 1]
            /\ UNCHANGED <<taken, accepted, refused>>
            /\ WholePlaces(content', call[w].id) = {}
  PROVE  Tally' /\ Results'
<1> DEFINE me == call[w].id
<1>1. /\ me \in Ids /\ me < nextId /\ nextId \in Nat /\ me \in Nat
      /\ me \notin accepted \cup refused /\ call[w].left \in Nat /\ Retry \in Nat
      /\ Cardinality(Places(content, me)) + call[w].left <= Retry
      /\ IsFiniteSet(Places(content, me))
  BY DEF Honest, Sound, TypeOK, Known, Tally, IsIdle, Ids
<1>2. Cardinality(Places(content', me)) \in Nat /\ Cardinality(Places(content, me)) \in Nat
  BY <1>1, FS_CardinalityType
<1>3. \A v \in Workers : /\ call'[v].at # "idle" => call[v].at # "idle"
                         /\ call'[v].at # "idle" => call'[v].id = call[v].id
                         /\ v # w => call'[v] = call[v]
  BY DEF Return, Idle, Honest, Sound, TypeOK
<1>4. /\ accepted' \subseteq accepted \cup {me} /\ refused' \subseteq refused \cup {me}
      /\ \A id \in accepted' \cup refused' : id = me \/ id \in accepted \cup refused
      /\ me \in accepted' => Cardinality(WholePlaces(content', me)) = 1
      /\ me \in refused' => WholePlaces(content', me) = {}
      /\ me \in accepted' => me \notin refused'
  BY <1>1 DEF Return
<1>5. Results'
  <2>1. \A id \in accepted' : Cardinality(WholePlaces(content', id)) = 1
    BY <1>4 DEF Honest, Results
  <2>2. \A id \in refused' : WholePlaces(content', id) = {}
    BY <1>4 DEF Honest, Results
  <2>3. accepted' \cap refused' = {}
    BY <1>1, <1>4 DEF Honest, Results
  <2>4. Cardinality(Places(content', me)) <= Retry + 1
    BY <1>1, <1>2
  <2>5. \A id \in Ids : Cardinality(Places(content', id)) <= Retry + 1
    BY <2>4 DEF Honest, Results
  <2> QED BY <2>1, <2>2, <2>3, <2>5 DEF Results
<1>6. ASSUME NEW v \in Workers, call'[v].at # "idle"
      PROVE  /\ call'[v].id \notin accepted' \cup refused'
             /\ WholePlaces(content', call'[v].id) = {}
             /\ Cardinality(Places(content', call'[v].id)) + call'[v].left <= Retry
  <2>1. CASE v = w
    <3>1. /\ call' = [call EXCEPT ![w].left = @ - 1] /\ UNCHANGED <<accepted, refused>>
          /\ call[w].left > 0 /\ WholePlaces(content', me) = {}
      BY <1>6, <2>1 DEF Return, Idle, Honest, Sound, TypeOK
    <3>2. call'[w].id = me /\ call'[w].left = call[w].left - 1
      BY <3>1 DEF Honest, Sound, TypeOK
    <3>3. Cardinality(Places(content', me)) + (call[w].left - 1) <= Retry
      BY <1>1, <1>2
    <3> QED BY <1>1, <2>1, <3>1, <3>2, <3>3
  <2>2. CASE v # w
    <3>1. call'[v] = call[v] /\ call[v].id # me
      BY <1>3, <1>6, <2>2 DEF Honest, Tally, IsIdle
    <3> QED BY <1>3, <1>4, <1>6, <3>1 DEF Honest, Tally, IsIdle
  <2> QED BY <2>1, <2>2
<1>7. \A id \in Ids : IsFiniteSet(Places(content', id))
  BY DEF Honest, Tally
<1>8. ASSUME NEW id \in Ids, id >= nextId'
      PROVE  Places(content', id) = {} /\ id \notin accepted' \cup refused'
  <2>1. id # me
    BY <1>1, <1>8 DEF Ids
  <2> QED BY <1>4, <1>8, <2>1 DEF Honest, Tally
<1>9. \A u, v \in Workers :
        u # v /\ call'[u].at # "idle" /\ call'[v].at # "idle" => call'[u].id # call'[v].id
  BY <1>3 DEF Honest, Tally, IsIdle
<1>10. Tally'
  BY <1>6, <1>7, <1>8, <1>9 DEF Tally, IsIdle
<1> QED BY <1>5, <1>10

LEMMA AttemptsArePlaces ==
  ASSUME NEW id
  PROVE  Attempts(id) = Places(content, id) /\ Wholes(id) = WholePlaces(content, id)
BY DEF Attempts, Wholes, Places, WholePlaces

LEMMA BusyTally ==
  ASSUME Sound, Tally, NEW w \in Workers, call[w].at # "idle"
  PROVE  /\ call[w].id \in Ids /\ call[w].id < nextId /\ nextId \in Nat
         /\ call[w].id \notin accepted \cup refused
         /\ WholePlaces(content, call[w].id) = {}
         /\ IsFiniteSet(Places(content, call[w].id))
         /\ Cardinality(Places(content, call[w].id)) \in Nat
<1>1. /\ call[w].id \in 1..(nextId - 1) /\ nextId \in 1..(MaxLogs + 1) /\ MaxLogs \in Nat
  BY DEF Sound, TypeOK, Known, IsIdle
<1>2. call[w].id \in Ids /\ call[w].id < nextId /\ nextId \in Nat
  BY <1>1 DEF Ids
<1>3. /\ call[w].id \notin accepted \cup refused /\ WholePlaces(content, call[w].id) = {}
      /\ IsFiniteSet(Places(content, call[w].id))
  BY <1>2 DEF Tally, IsIdle
<1>4. Cardinality(Places(content, call[w].id)) \in Nat
  BY <1>3, FS_CardinalityType
<1> QED BY <1>2, <1>3, <1>4

LEMMA NextHonest == Honest /\ [Next]_vars => Honest'
<1> SUFFICES ASSUME Honest, [Next]_vars PROVE Tally' /\ Results'
  BY NextSound DEF Honest
<1>1. Sound /\ Tally
  BY DEF Honest
\* No write, and a call goes on as it was or is over.
<1>2. ASSUME \A id : /\ Places(content', id) = Places(content, id)
                     /\ WholePlaces(content', id) = WholePlaces(content, id),
             UNCHANGED <<accepted, refused, nextId>>,
             \A w \in Workers : call'[w].at # "idle" =>
               /\ call[w].at # "idle" /\ call'[w].id = call[w].id
               /\ call'[w].left = call[w].left
      PROVE  Tally' /\ Results'
  BY <1>2, SameTally
<1>3. ASSUME UNCHANGED <<content, call, accepted, refused, nextId>> PROVE Tally' /\ Results'
  BY <1>2, <1>3
<1>4. ASSUME NEW w \in Workers, InCall(w) PROVE Tally' /\ Results'
  <2>1. CASE Lookup(w)
    <3>1. PICK a \in Steps \ {"idle"} : GoesTo(w, a) /\ call[w].at # "idle"
      BY <2>1 DEF Lookup, Steps, GoesTo
    <3>2. \A v \in Workers : /\ call'[v].at # "idle" => call[v].at # "idle"
                             /\ call'[v].id = call[v].id /\ call'[v].left = call[v].left
      BY <1>1, <3>1, StepEffect
    <3> QED BY <1>2, <2>1, <3>2 DEF Lookup, files
  <2>2. CASE OpenFail(w)
    <3>1. /\ call[w].at = "open" /\ UNCHANGED <<content, nextId>> /\ accepted' = accepted
          /\ refused' = refused \cup {call[w].id}
          /\ call[w].id \in Ids /\ call[w].id < nextId /\ nextId \in Nat
          /\ call[w].id \notin accepted /\ WholePlaces(content, call[w].id) = {}
      <4>1. /\ call[w].at = "open" /\ UNCHANGED <<content, nextId>> /\ accepted' = accepted
            /\ refused' = refused \cup {call[w].id}
        BY <2>2 DEF OpenFail, Return, files
      <4> QED BY <1>1, <4>1, BusyTally
    <3>2. \A v \in Workers : call'[v] = IF v = w THEN Idle ELSE call[v]
      BY <1>1, <2>2, <3>1, ReturnEffect DEF OpenFail, IsIdle
    <3>3. Results'
      BY <3>1 DEF Honest, Results
    <3>4. \A id \in Ids : id >= nextId => id \notin refused'
      BY <3>1 DEF Honest, Tally, Ids
    <3>5. ASSUME NEW v \in Workers, call'[v].at # "idle"
          PROVE  v # w /\ call'[v] = call[v] /\ call[v].id \notin accepted' \cup refused'
      <4>1. v # w /\ call'[v] = call[v] /\ call[v].at # "idle"
        BY <3>2, <3>5 DEF Idle
      <4>2. call[v].id # call[w].id
        BY <1>1, <3>1, <4>1 DEF Tally, IsIdle
      <4> QED BY <1>1, <3>1, <4>1, <4>2 DEF Tally, IsIdle
    <3>6. Tally'
      <4>1. \A id \in Ids : IsFiniteSet(Places(content', id))
        BY <1>1, <3>1 DEF Tally
      <4>2. \A id \in Ids : id >= nextId' =>
              Places(content', id) = {} /\ id \notin accepted' \cup refused'
        BY <1>1, <3>1, <3>4 DEF Tally
      <4>3. ASSUME NEW u \in Workers, NEW v \in Workers, u # v,
                   call'[u].at # "idle", call'[v].at # "idle"
            PROVE  call'[u].id # call'[v].id
        BY <1>1, <3>5, <4>3 DEF Tally, IsIdle
      <4>4. ASSUME NEW v \in Workers, call'[v].at # "idle"
            PROVE  /\ call'[v].id \notin accepted' \cup refused'
                   /\ WholePlaces(content', call'[v].id) = {}
                   /\ Cardinality(Places(content', call'[v].id)) + call'[v].left <= Retry
        BY <1>1, <3>1, <3>5, <4>4 DEF Tally, IsIdle
      <4> QED BY <4>1, <4>2, <4>3, <4>4 DEF Tally, IsIdle
    <3> QED BY <3>3, <3>6
  <2>3. CASE Open(w)
    <3>1. \A v \in Workers : /\ call'[v].at # "idle" => call[v].at # "idle"
                             /\ call'[v].id = call[v].id /\ call'[v].left = call[v].left
      <4>1. GoesTo(w, "write") /\ "write" \in Steps /\ call[w].at # "idle"
        BY <2>3 DEF Open, Steps, GoesTo
      <4> QED BY <1>1, <4>1, StepEffect
    <3>2. content' = content \/ content' = Append(content, << >>)
      BY <1>1, <2>3, OpenEffect DEF Fresh, NewFile, Found, files
    <3>3. content \in Seq(Seq(Entries))
      BY <1>1 DEF Sound, TypeOK, Entries
    <3>4. \A id : /\ Places(content', id) = Places(content, id)
                  /\ WholePlaces(content', id) = WholePlaces(content, id)
      BY <3>2, <3>3, OpenPlaces
    <3>5. UNCHANGED <<accepted, refused, nextId>>
      BY <2>3 DEF Open
    <3> QED BY <1>2, <3>1, <3>4, <3>5
  <2>4. ASSUME call[w].at = "write", NEW whole \in BOOLEAN, WriteAttempt(w, whole),
               nextId' = nextId,
               \/ whole /\ Return(w, TRUE)
               \/ ~whole /\ Return(w, FALSE)
               \/ /\ ~whole /\ call[w].left > 0 /\ call' = [call EXCEPT ![w].left = @ - 1]
                  /\ UNCHANGED <<taken, accepted, refused>>
        PROVE  Tally' /\ Results'
    <3> DEFINE n == Cardinality(Places(content, call[w].id))
    <3>1. n \in Nat
      BY <1>1, <2>4, BusyTally
    <3>2. /\ \A id : id # call[w].id => /\ Places(content', id) = Places(content, id)
                                        /\ WholePlaces(content', id) = WholePlaces(content, id)
          /\ IsFiniteSet(Places(content', call[w].id))
          /\ Cardinality(Places(content', call[w].id)) = n + 1
          /\ ~whole => WholePlaces(content', call[w].id) = {}
          /\ whole => Cardinality(WholePlaces(content', call[w].id)) = 1
      BY <1>1, <2>4, WriteCounts
    <3>3. Cardinality(Places(content', call[w].id)) <= n + 1
      BY <3>1, <3>2
    <3> QED BY <2>4, <3>2, <3>3, OutcomeTally
  <2>5. CASE WriteWhole(w)
    <3>1. /\ call[w].at = "write" /\ WriteAttempt(w, TRUE) /\ Return(w, TRUE)
          /\ nextId' = nextId
      BY <2>5 DEF WriteWhole
    <3> QED BY <2>4, <3>1
  <2>6. CASE WriteShort(w)
    <3>1. /\ call[w].at = "write" /\ nextId' = nextId
          /\ WriteAttempt(w, FALSE) \/ UNCHANGED content
          /\ \/ Return(w, FALSE)
             \/ /\ call[w].left > 0 /\ call' = [call EXCEPT ![w].left = @ - 1]
                /\ UNCHANGED <<taken, accepted, refused>>
      BY <2>6 DEF WriteShort
    <3>2. CASE WriteAttempt(w, FALSE)
      BY <2>4, <3>1, <3>2
    <3>3. CASE UNCHANGED content
      <4> DEFINE n == Cardinality(Places(content, call[w].id))
      <4>1. /\ n \in Nat /\ IsFiniteSet(Places(content, call[w].id))
            /\ WholePlaces(content, call[w].id) = {}
        BY <1>1, <3>1, BusyTally
      <4>2. n <= n + 1
        BY <4>1
      <4> QED BY <3>1, <3>3, <4>1, <4>2, OutcomeTally
    <3> QED BY <3>1, <3>2, <3>3
  <2> QED BY <1>4, <2>1, <2>2, <2>3, <2>5, <2>6 DEF InCall
<1>5. ASSUME NEW w \in Workers, NEW p \in Paths, Log(w, p) PROVE Tally' /\ Results'
  BY <1>5, LogTally
<1>6. ASSUME NEW w \in Workers,
             CloseAll(w) \/ RequestEnd(w) \/ \E l \in Loggers : CloseAssign(w, l)
      PROVE  Tally' /\ Results'
  BY <1>3, <1>6 DEF CloseAll, RequestEnd, CloseAssign, ClearStream
<1>7. ASSUME NEW p \in Paths, TakeAway(p) PROVE Tally' /\ Results'
  BY <1>3, <1>7 DEF TakeAway
<1>8. ASSUME NEW f \in up, Disconnect(f) PROVE Tally' /\ Results'
  BY <1>3, <1>8 DEF Disconnect
<1>9. CASE UNCHANGED vars
  BY <1>3, <1>9 DEF vars
<1> QED BY <1>4, <1>5, <1>6, <1>7, <1>8, <1>9 DEF Next

LEMMA HonestHolds == Spec => []Honest
<1>1. Init => Honest
  BY InitHonest
<1>2. Honest /\ [Next]_vars => Honest'
  BY NextHonest
<1> QED BY <1>1, <1>2, PTL DEF Spec

\* TRUE means that the message was written whole and once, FALSE that it is
\* nowhere whole, and no call writes more often than appender_retry allows.
THEOREM TrueResults == Spec => []ResultIsTrue
<1>1. Honest => ResultIsTrue
  BY AttemptsArePlaces DEF Honest, Results, ResultIsTrue
<1> QED BY <1>1, HonestHolds, PTL

=============================================================================
