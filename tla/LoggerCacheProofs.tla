--------------------------- MODULE LoggerCacheProofs ---------------------------
(***************************************************************************)
(* Proofs about LoggerCache, for every set of base paths, loggers and      *)
(* settings: which logger and which base path a log call uses, and that    *)
(* its directory is there.                                                 *)
(***************************************************************************)
EXTENDS LoggerCache, SequenceTheorems, TLAPS

USE DefaultsAssumption, LoggersAssumption, DistingAssumption

Entries == [logger : Names, hash : Names, path : Paths, access : BOOLEAN]

\* What an entry says of itself and of the list.
EntryOK(e) ==
  /\ e \in Entries
  /\ e.hash # NoLogger => e.hash = e.logger /\ e.hash \in DOMAIN list

\* The entry of one call has the path of the list; that of the last logger may
\* have another one after setBasePath.
TmpOK == tmp.hash # NoLogger => tmp.path = list[tmp.hash].path

\* The list is over loggers, each with a path of its own under the base path
\* of the time it was entered.
ListOK ==
  /\ DOMAIN list \subseteq Loggers /\ DOMAIN firstBase = DOMAIN list
  /\ \A l \in DOMAIN list : /\ firstBase[l] \in Bases
                            /\ list[l].path = <<firstBase[l], l>>
                            /\ list[l].access \in BOOLEAN

\* The last logger is the one set last, under the base path of now or of the
\* time it entered the list.
LastOK ==
  /\ last.logger = current /\ current \in Loggers
  /\ \/ last.path = <<basePath, current>>
     \/ current \in DOMAIN list /\ last.path = <<firstBase[current], current>>

\* So is what a log call used.
UseOK ==
  \/ use.path = <<use.base, use.asked>>
  \/ use.asked \in DOMAIN firstBase /\ use.path = <<firstBase[use.asked], use.asked>>

Routed ==
  /\ basePath \in Bases /\ ListOK /\ EntryOK(last) /\ EntryOK(tmp) /\ TmpOK
  /\ LastOK /\ UseOK

LEMMA DefaultNames == NoLogger \in Names /\ Loggers \subseteq Names /\ NoLogger \notin Loggers
BY DEF Names, NoLogger

LEMMA FreshEntries == FreshTmp \in Entries /\ FreshTmp.hash = NoLogger
BY DefaultNames DEF FreshTmp, Entry, Entries, Paths

LEMMA DefaultEntries ==
  ASSUME NEW a \in BOOLEAN
  PROVE  /\ Entry(DefaultLogger, NoLogger, <<DefaultBase, DefaultLogger>>, a) \in Entries
         /\ Entry(DefaultLogger, NoLogger, <<DefaultBase, DefaultLogger>>, a).hash = NoLogger
BY DefaultNames DEF Entry, Entries, Paths

\* A request begins with the default logger, an empty list and no call.
LEMMA BeginRouted ==
  ASSUME NEW a \in BOOLEAN, basePath = DefaultBase, list = << >>, firstBase = << >>,
         current = DefaultLogger, use = NoUse, tmp = FreshTmp,
         last = Entry(DefaultLogger, NoLogger, <<DefaultBase, DefaultLogger>>, a)
  PROVE  Routed
<1>1. ListOK
  BY DEF ListOK
<1>2. EntryOK(last) /\ EntryOK(tmp)
  BY FreshEntries, DefaultEntries DEF EntryOK
<1>3. TmpOK
  BY FreshEntries DEF TmpOK
<1>4. LastOK
  BY DEF LastOK, Entry
<1>5. UseOK
  BY DEF UseOK, NoUse
<1> QED BY <1>1, <1>2, <1>4, <1>5, <1>3 DEF Routed

LEMMA InitRouted == Init => Routed
<1> SUFFICES ASSUME Init PROVE Routed
  OBVIOUS
<1>1. PICK a \in BOOLEAN :
        last = Entry(DefaultLogger, NoLogger, <<DefaultBase, DefaultLogger>>, a)
  BY DEF Init
<1> QED BY <1>1, BeginRouted DEF Init

\* process_logger: what becomes of the list and of the entry.
LEMMA EnterEffect ==
  ASSUME ListOK, basePath \in Bases, NEW e, EntryOK(e), NEW l \in Loggers,
         e.hash = l => e.path = list[l].path, EnterList(e, l)
  PROVE  /\ ListOK'
         /\ \A m \in DOMAIN list : /\ m \in DOMAIN list' /\ list'[m] = list[m]
                                   /\ firstBase'[m] = firstBase[m]
         /\ l \in DOMAIN list'
         /\ Processed(e, l) \in Entries /\ Processed(e, l).hash = l
         /\ Processed(e, l).logger = l /\ Processed(e, l).path = list'[l].path
         /\ list'[l].path = <<firstBase'[l], l>>
<1>1. l \in Names /\ l # NoLogger
  BY DefaultNames
<1>2. CASE Known(e, l)
  <2>1. UNCHANGED <<list, firstBase>>
    BY <1>2 DEF EnterList
  <2>2. l \in DOMAIN list
    BY <1>1, <1>2 DEF Known, EntryOK
  <2>3. ListOK'
    BY <2>1 DEF ListOK
  <2>4. CASE e.hash = l
    BY <1>1, <2>1, <2>2, <2>3, <2>4 DEF Processed, EntryOK, ListOK
  <2>5. CASE e.hash # l
    <3>1. list[l].path \in Paths /\ list[l].access \in BOOLEAN
      <4>1. firstBase[l] \in Bases /\ list[l].path = <<firstBase[l], l>>
            /\ list[l].access \in BOOLEAN
        BY <2>2 DEF ListOK
      <4> QED BY <1>1, <4>1 DEF Paths
    <3>2. Processed(e, l) = Entry(l, l, list[l].path, list[l].access)
      BY <2>2, <2>5 DEF Processed
    <3> QED BY <1>1, <2>1, <2>2, <2>3, <3>1, <3>2 DEF Entry, Entries, ListOK
  <2> QED BY <2>4, <2>5
<1>3. CASE ~Known(e, l)
  <2> DEFINE a == FileDir(<<basePath, l>>) \in dirs'
             row == [path |-> <<basePath, l>>, access |-> a]
  <2>1. l \notin DOMAIN list /\ e.hash # l
    BY <1>3 DEF Known
  <2>2. list' = Put(list, l, row) /\ firstBase' = Put(firstBase, l, basePath)
    BY <1>3 DEF EnterList, NewRow
  <2>3. /\ DOMAIN list' = DOMAIN list \cup {l} /\ DOMAIN firstBase' = DOMAIN firstBase \cup {l}
        /\ list'[l] = row /\ firstBase'[l] = basePath
        /\ \A m \in DOMAIN list : list'[m] = list[m]
        /\ \A m \in DOMAIN firstBase : firstBase'[m] = firstBase[m]
    BY <2>1, <2>2 DEF Put, ListOK
  <2>4. a \in BOOLEAN
    OBVIOUS
  <2>5. ListOK'
    <3>1. DOMAIN list' \subseteq Loggers /\ DOMAIN firstBase' = DOMAIN list'
      BY <2>3 DEF ListOK
    <3>2. ASSUME NEW m \in DOMAIN list'
          PROVE  /\ firstBase'[m] \in Bases /\ list'[m].path = <<firstBase'[m], m>>
                 /\ list'[m].access \in BOOLEAN
      <4>1. CASE m = l
        <5>1. row.path = <<basePath, l>> /\ row.access = a
          OBVIOUS
        <5> HIDE DEF row, a
        <5> QED BY <2>3, <2>4, <4>1, <5>1
      <4>2. CASE m # l
        <5>1. m \in DOMAIN list /\ m \in DOMAIN firstBase
          BY <2>3, <4>2 DEF ListOK
        <5> QED BY <2>3, <5>1 DEF ListOK
      <4> QED BY <4>1, <4>2
    <3> QED BY <3>1, <3>2 DEF ListOK
  <2>6. Processed(e, l) = Entry(l, l, <<basePath, l>>, a)
    BY <2>1 DEF Processed
  <2>7. Processed(e, l) \in Entries
    BY <1>1, <2>4, <2>6 DEF Entry, Entries, Paths
  <2> QED BY <2>3, <2>5, <2>6, <2>7 DEF Entry, ListOK
<1> QED BY <1>2, <1>3

\* An entry that is not touched stays right when the list grows.
LEMMA OtherEntry ==
  ASSUME NEW e, EntryOK(e),
         \A m \in DOMAIN list : m \in DOMAIN list' /\ list'[m] = list[m]
  PROVE  /\ e \in Entries
         /\ e.hash # NoLogger => e.hash = e.logger /\ e.hash \in DOMAIN list'
BY DEF EntryOK

\* The list and the loggers stay.
LEMMA SameRouted ==
  ASSUME Routed, UNCHANGED <<basePath, last, tmp, list, current, firstBase>>, UseOK'
  PROVE  Routed'
BY DEF Routed, ListOK, EntryOK, TmpOK, LastOK

\* The path of the last logger under the base path b.
LEMMA DefaultRouted ==
  ASSUME Routed, NEW b \in Bases, basePath' = b, InitDefaultLastLogger(b), use' = NoUse,
         UNCHANGED <<tmp, list, current, firstBase>>
  PROVE  Routed'
<1> DEFINE a == DefaultDir(<<b, last.logger>>) \in dirs'
<1>1. a \in BOOLEAN /\ last' = [last EXCEPT !.path = <<b, last.logger>>, !.access = a]
  BY DEF InitDefaultLastLogger
<1> HIDE DEF a
<1>2. /\ last \in Entries /\ last.logger = current /\ current \in Loggers
      /\ last.hash # NoLogger => last.hash = last.logger /\ last.hash \in DOMAIN list
  BY DEF Routed, EntryOK, LastOK
<1>3. /\ last' \in Entries /\ last'.logger = current /\ last'.hash = last.hash
      /\ last'.path = <<b, current>>
  BY <1>1, <1>2, DefaultNames DEF Entries, Paths
<1>4. ListOK' /\ EntryOK(last)' /\ EntryOK(tmp)' /\ TmpOK'
  BY <1>2, <1>3 DEF Routed, ListOK, EntryOK, TmpOK
<1>5. LastOK' /\ UseOK'
  BY <1>2, <1>3 DEF LastOK, UseOK, NoUse
<1> QED BY <1>4, <1>5 DEF Routed

LEMMA SetLoggerRouted ==
  ASSUME Routed, NEW l \in Loggers, SetLogger(l)
  PROVE  Routed'
<1>1. UNCHANGED <<basePath, tmp>> /\ current' = l /\ use' = NoUse
  BY DEF SetLogger
<1>2. UseOK'
  BY <1>1 DEF UseOK, NoUse
<1>3. CASE last.logger = l
  <2>1. UNCHANGED <<last, list, firstBase>> /\ current = l
    BY <1>3 DEF SetLogger, Routed, LastOK
  <2> QED BY <1>1, <1>2, <2>1, SameRouted
<1>4. CASE last.logger # l
  <2>1. EnterList(last, l) /\ last' = Processed(last, l)
    BY <1>4 DEF SetLogger
  <2>2. last.hash # l
    BY <1>4, DefaultNames DEF Routed, EntryOK
  <2>3. /\ ListOK'
        /\ \A m \in DOMAIN list : m \in DOMAIN list' /\ list'[m] = list[m]
        /\ l \in DOMAIN list' /\ last' \in Entries /\ last'.hash = l /\ last'.logger = l
        /\ last'.path = <<firstBase'[l], l>>
    BY <2>1, <2>2, EnterEffect DEF Routed
  <2>4. EntryOK(last)' /\ EntryOK(tmp)' /\ TmpOK'
    BY <1>1, <2>3 DEF Routed, EntryOK, TmpOK
  <2>5. LastOK'
    BY <1>1, <2>3 DEF LastOK
  <2> QED BY <1>1, <1>2, <2>3, <2>4, <2>5 DEF Routed
<1> QED BY <1>3, <1>4

LEMMA LogToRouted ==
  ASSUME Routed, NEW l \in Loggers, LogTo(l)
  PROVE  Routed'
<1>1. /\ UNCHANGED <<basePath, last, current>> /\ EnterList(tmp, l)
      /\ tmp' = Processed(tmp, l) /\ use' = Used(l, tmp')
  BY DEF LogTo
<1>2. tmp.hash = l => tmp.path = list[l].path
  BY DefaultNames DEF Routed, TmpOK
<1>3. /\ ListOK'
      /\ \A m \in DOMAIN list : /\ m \in DOMAIN list' /\ list'[m] = list[m]
                                /\ firstBase'[m] = firstBase[m]
      /\ l \in DOMAIN list' /\ tmp' \in Entries /\ tmp'.hash = l /\ tmp'.logger = l
      /\ tmp'.path = list'[l].path /\ tmp'.path = <<firstBase'[l], l>>
  BY <1>1, <1>2, EnterEffect DEF Routed
<1>4. EntryOK(last)' /\ EntryOK(tmp)' /\ TmpOK'
  BY <1>1, <1>3 DEF Routed, EntryOK, TmpOK
<1>5. LastOK'
  BY <1>1, <1>3 DEF Routed, LastOK
<1>6. UseOK'
  BY <1>1, <1>3 DEF UseOK, Used, ListOK
<1> QED BY <1>1, <1>3, <1>4, <1>5, <1>6 DEF Routed

LEMMA NextRouted == Routed /\ [Next]_vars => Routed'
<1> SUFFICES ASSUME Routed, [Next]_vars PROVE Routed'
  OBVIOUS
<1>1. CASE NextRequest
  <2> DEFINE a == DefaultDir(<<DefaultBase, DefaultLogger>>) \in dirs'
  <2>1. /\ a \in BOOLEAN
        /\ last' = Entry(DefaultLogger, NoLogger, <<DefaultBase, DefaultLogger>>, a)
    BY <1>1 DEF NextRequest, RequestInit
  <2> HIDE DEF a
  <2>2. /\ basePath' = DefaultBase /\ list' = << >> /\ firstBase' = << >>
        /\ current' = DefaultLogger /\ use' = NoUse /\ tmp' = FreshTmp
    BY <1>1 DEF NextRequest, RequestInit
  <2>3. ListOK'
    BY <2>2 DEF ListOK
  <2>4. EntryOK(last)' /\ EntryOK(tmp)' /\ TmpOK'
    BY <2>1, <2>2, FreshEntries, DefaultEntries DEF EntryOK, TmpOK
  <2>5. LastOK' /\ UseOK'
    BY <2>1, <2>2 DEF LastOK, UseOK, NoUse, Entry
  <2> QED BY <2>2, <2>3, <2>4, <2>5 DEF Routed
<1>2. CASE SetFilePrefix
  <2>1. basePath \in Bases
    BY DEF Routed
  <2> QED BY <1>2, <2>1, DefaultRouted DEF SetFilePrefix
<1>3. CASE Log
  <2>1. UseOK'
    BY <1>3 DEF Log, Used, UseOK, Routed, LastOK, ListOK
  <2> QED BY <1>3, <2>1, SameRouted DEF Log
<1>4. ASSUME NEW b \in Bases, SetBasePath(b) PROVE Routed'
  BY <1>4, DefaultRouted DEF SetBasePath
<1>5. ASSUME NEW l \in Loggers, SetLogger(l) \/ LogTo(l) PROVE Routed'
  BY <1>5, SetLoggerRouted, LogToRouted
<1>6. ASSUME NEW d \in dirs, RemoveDir(d) PROVE Routed'
  <2>1. UseOK'
    BY <1>6 DEF RemoveDir, UseOK, NoUse
  <2> QED BY <1>6, <2>1, SameRouted DEF RemoveDir
<1>7. CASE UNCHANGED vars
  <2>1. UseOK'
    BY <1>7 DEF vars, Routed, UseOK
  <2> QED BY <1>7, <2>1, SameRouted DEF vars
<1> QED BY <1>1, <1>2, <1>3, <1>4, <1>5, <1>6, <1>7 DEF Next

LEMMA RoutedHolds == Spec => []Routed
<1>1. Init => Routed
  BY InitRouted
<1>2. Routed /\ [Next]_vars => Routed'
  BY NextRouted
<1> QED BY <1>1, <1>2, PTL DEF Spec

\* Whatever was set, used for one call and cached before, a log call goes to
\* the logger it names, and one that names none to the logger set last.
THEOREM CallsGoToTheirLogger == Spec => []RightLogger
<1>1. Routed => RightLogger
  BY DEF Routed, UseOK, RightLogger
<1> QED BY <1>1, RoutedHolds, PTL

\* The base path of a call is that of now, or of the time its logger entered
\* the list of this request.
THEOREM BaseKnown == Spec => []BaseOfFirstUse
<1>1. Routed => BaseOfFirstUse
  BY DEF Routed, UseOK, BaseOfFirstUse
<1> QED BY <1>1, RoutedHolds, PTL

-----------------------------------------------------------------------------
(* Directories *)

Part   == UNION {Range(l) : l \in Loggers}
Places == Bases \X Seq(Part)

\* The directory e is d, or one that d lies in.
Holds(e, d) ==
  /\ e[1] = d[1] /\ Len(e[2]) <= Len(d[2])
  /\ \A i \in 1..Len(e[2]) : e[2][i] = d[2][i]

LEMMA LoggersLong ==
  ASSUME NEW l \in Loggers
  PROVE  l \in Seq(Part) /\ Len(l) \in Nat /\ Len(l) >= 1
<1>1. l \in Seq(Range(l)) /\ l # << >>
  OBVIOUS
<1>2. Range(l) \subseteq Part
  BY DEF Part
<1>3. Len(l) \in Nat /\ DOMAIN l = 1..Len(l) /\ \A i \in 1..Len(l) : l[i] \in Part
  BY <1>1, <1>2, LenProperties, ElementOfSeq
<1>4. l = [i \in 1..Len(l) |-> l[i]]
  BY <1>1, <1>3
<1>5. [i \in 1..Len(l) |-> l[i]] \in Seq(Part)
  BY <1>3, IsASeq
<1>6. Len(l) # 0
  BY <1>1, EmptySeq
<1> QED BY <1>3, <1>4, <1>5, <1>6

LEMMA Beginning ==
  ASSUME NEW s \in Seq(Part), NEW n \in 0..Len(s)
  PROVE  /\ SubSeq(s, 1, n) \in Seq(Part) /\ Len(SubSeq(s, 1, n)) = n
         /\ \A i \in 1..n : SubSeq(s, 1, n)[i] = s[i]
<1>1. Len(s) \in Nat /\ n \in Int /\ 1 \in Int
  OBVIOUS
<1>2. \A i \in 1..n : s[i] \in Part
  BY <1>1, ElementOfSeq
<1>3. /\ SubSeq(s, 1, n) \in Seq(Part)
      /\ Len(SubSeq(s, 1, n)) = IF 1 <= n THEN n - 1 + 1 ELSE 0
      /\ \A i \in 1..(n - 1 + 1) : SubSeq(s, 1, n)[i] = s[1 + i - 1]
  BY <1>1, <1>2, SubSeqProperties
<1> QED BY <1>1, <1>3

LEMMA AboveHolds ==
  ASSUME NEW d \in Places, NEW e
  PROVE  e \in Above(d) <=> e \in Places /\ Holds(e, d)
<1>1. d[1] \in Bases /\ d[2] \in Seq(Part) /\ Len(d[2]) \in Nat
  BY DEF Places
<1>2. ASSUME NEW n \in 0..Len(d[2]), e = <<d[1], SubSeq(d[2], 1, n)>>
      PROVE  e \in Places /\ Holds(e, d)
  <2>1. /\ SubSeq(d[2], 1, n) \in Seq(Part) /\ Len(SubSeq(d[2], 1, n)) = n
        /\ \A i \in 1..n : SubSeq(d[2], 1, n)[i] = d[2][i]
    BY <1>1, Beginning
  <2>2. e[1] = d[1] /\ e[2] = SubSeq(d[2], 1, n) /\ e \in Places
    BY <1>1, <1>2, <2>1 DEF Places
  <2> QED BY <1>1, <2>1, <2>2 DEF Holds
<1>3. ASSUME e \in Places, Holds(e, d) PROVE e \in Above(d)
  <2>1. e = <<e[1], e[2]>> /\ e[2] \in Seq(Part) /\ Len(e[2]) \in Nat /\ e[1] = d[1]
    BY <1>3 DEF Places, Holds
  <2>2. Len(e[2]) \in 0..Len(d[2])
    BY <1>1, <1>3, <2>1 DEF Holds
  <2>3. /\ SubSeq(d[2], 1, Len(e[2])) \in Seq(Part)
        /\ Len(SubSeq(d[2], 1, Len(e[2]))) = Len(e[2])
        /\ \A i \in 1..Len(e[2]) : SubSeq(d[2], 1, Len(e[2]))[i] = d[2][i]
    BY <1>1, <2>2, Beginning
  <2>4. e[2] = SubSeq(d[2], 1, Len(e[2]))
    BY <1>3, <2>1, <2>3, SeqEqual DEF Holds
  <2>5. e = <<d[1], SubSeq(d[2], 1, Len(e[2]))>>
    BY <2>1, <2>4
  <2> QED BY <2>2, <2>5 DEF Above
<1> QED BY <1>2, <1>3 DEF Above

LEMMA PrefixHolds ==
  ASSUME NEW d \in Places, NEW e \in Places
  PROVE  e[1] = d[1] /\ IsPrefix(d[2], e[2]) <=> Holds(d, e)
<1>1. /\ d[2] \in Seq(Part) /\ Len(d[2]) \in Nat
      /\ e[2] \in Seq(Part) /\ Len(e[2]) \in Nat
  BY DEF Places
<1>2. CASE ~(Len(d[2]) <= Len(e[2]))
  BY <1>2 DEF IsPrefix, Holds
<1>3. CASE Len(d[2]) <= Len(e[2])
  <2> DEFINE n == Len(d[2])
             s == SubSeq(d[2], 1, n)
             t == SubSeq(e[2], 1, n)
  <2>1. n \in 0..Len(d[2]) /\ n \in 0..Len(e[2])
    BY <1>1, <1>3
  <2>2. /\ s \in Seq(Part) /\ t \in Seq(Part) /\ Len(s) = n /\ Len(t) = n
        /\ \A i \in 1..n : s[i] = d[2][i] /\ t[i] = e[2][i]
    BY <1>1, <2>1, Beginning
  <2> HIDE DEF s, t
  <2>3. s = t <=> \A i \in 1..n : d[2][i] = e[2][i]
    <3>1. ASSUME s = t, NEW i \in 1..n PROVE d[2][i] = e[2][i]
      BY <2>2, <3>1
    <3>2. ASSUME \A i \in 1..n : d[2][i] = e[2][i] PROVE s = t
      <4>1. \A i \in 1..n : s[i] = t[i]
        BY <2>2, <3>2
      <4> QED BY <2>2, <4>1, SeqEqual
    <3> QED BY <3>1, <3>2
  <2> QED BY <1>3, <2>3 DEF IsPrefix, Holds, s, t
<1> QED BY <1>2, <1>3

LEMMA AboveOrder ==
  ASSUME NEW d \in Places
  PROVE  /\ d \in Above(d) /\ Above(d) \subseteq Places
         /\ \A e \in Above(d) : Above(e) \subseteq Above(d)
         /\ \A e \in Above(d) : d \in Above(e) => e = d
<1>1. Len(d[2]) \in Nat /\ d[2] \in Seq(Part)
  BY DEF Places
<1>2. d \in Above(d) /\ Above(d) \subseteq Places
  BY <1>1, AboveHolds DEF Holds
<1>3. ASSUME NEW e \in Above(d), NEW f \in Above(e) PROVE f \in Above(d)
  <2>1. e \in Places /\ Holds(e, d)
    BY AboveHolds
  <2>2. f \in Places /\ Holds(f, e)
    BY <2>1, AboveHolds
  <2>3. Len(e[2]) \in Nat /\ Len(f[2]) \in Nat
    BY <2>1, <2>2 DEF Places
  <2>4. Holds(f, d)
    BY <1>1, <2>1, <2>2, <2>3 DEF Holds
  <2> QED BY <2>2, <2>4, AboveHolds
<1>4. ASSUME NEW e \in Above(d), d \in Above(e) PROVE e = d
  <2>1. e \in Places /\ Holds(e, d)
    BY AboveHolds
  <2>2. Holds(d, e)
    BY <1>4, <2>1, AboveHolds
  <2>3. Len(e[2]) = Len(d[2]) /\ e[2] \in Seq(Part)
    BY <1>1, <2>1, <2>2 DEF Holds, Places
  <2>4. e[2] = d[2]
    BY <1>1, <2>1, <2>3, SeqEqual DEF Holds
  <2>5. e = <<e[1], e[2]>> /\ d = <<d[1], d[2]>> /\ e[1] = d[1]
    BY <2>1 DEF Places, Holds
  <2> QED BY <2>4, <2>5
<1> QED BY <1>2, <1>3, <1>4

LEMMA BelowAbove ==
  ASSUME NEW ds, ds \subseteq Places, NEW d \in Places
  PROVE  Below(d, ds) = {e \in ds : d \in Above(e)}
<1>1. ASSUME NEW e \in ds PROVE e[1] = d[1] /\ IsPrefix(d[2], e[2]) <=> d \in Above(e)
  BY PrefixHolds, AboveHolds
<1> QED BY <1>1 DEF Below

\* Excusing a directory takes no excuse away.
LEMMA Excused ==
  ASSUME NEW ds, ds \subseteq Places, NEW d \in Places
  PROVE  /\ Excuse(d, ds) \subseteq Places
         /\ \A x \in Places : d \in Above(x) => Above(x) \cap Excuse(d, ds) # {}
         /\ \A x \in Places : Above(x) \cap ds # {} => Above(x) \cap Excuse(d, ds) # {}
<1>1. CASE Above(d) \cap ds # {}
  <2>1. Excuse(d, ds) = ds
    BY <1>1 DEF Excuse
  <2>2. ASSUME NEW x \in Places, d \in Above(x) PROVE Above(d) \subseteq Above(x)
    BY <2>2, AboveOrder
  <2> QED BY <1>1, <2>1, <2>2
<1>2. CASE Above(d) \cap ds = {}
  <2>1. Excuse(d, ds) = {d} \cup (ds \ {e \in ds : d \in Above(e)})
    BY <1>2, BelowAbove DEF Excuse
  <2>2. ASSUME NEW x \in Places, NEW e \in Above(x), e \in ds, d \in Above(e)
        PROVE  d \in Above(x)
    BY <2>2, AboveOrder
  <2> QED BY <2>1, <2>2
<1> QED BY <1>1, <1>2

LEMMA Placed ==
  ASSUME NEW b \in Bases, NEW s \in Seq(Part)
  PROVE  <<b, s>> \in Places
BY DEF Places

LEMMA FileDirs ==
  ASSUME distingFolder \in BOOLEAN, NEW b \in Bases, NEW l \in Loggers
  PROVE  /\ FileDir(<<b, l>>) \in Places /\ DefaultDir(<<b, l>>) \in Places
         /\ DefaultDir(<<b, l>>) \in Above(FileDir(<<b, l>>))
         /\ distingFolder \/ Len(l) = 1 => DefaultDir(<<b, l>>) = FileDir(<<b, l>>)
<1>1. l \in Seq(Part) /\ Len(l) \in Nat /\ Len(l) >= 1
  BY LoggersLong
<1>2. <<b, l>> \in Places /\ <<b, << >>>> \in Places
  <2>1. << >> \in Seq(Part)
    BY EmptySeq
  <2> QED BY <1>1, <2>1, Placed
<1>3. CASE distingFolder
  BY <1>2, <1>3, AboveOrder DEF FileDir, DefaultDir
<1>4. CASE ~distingFolder
  <2>1. /\ FileDir(<<b, l>>) = <<b, SubSeq(l, 1, Len(l) - 1)>>
        /\ DefaultDir(<<b, l>>) = <<b, << >>>>
    BY <1>4 DEF FileDir, DefaultDir, Front
  <2>2. Len(l) - 1 \in 0..Len(l)
    BY <1>1
  <2>3. /\ SubSeq(l, 1, Len(l) - 1) \in Seq(Part)
        /\ Len(SubSeq(l, 1, Len(l) - 1)) = Len(l) - 1
    BY <1>1, <2>2, Beginning
  <2>4. FileDir(<<b, l>>) \in Places
    BY <2>1, <2>3, Placed
  <2>5. Holds(<<b, << >>>>, <<b, SubSeq(l, 1, Len(l) - 1)>>)
    BY <1>1, <2>3 DEF Holds
  <2>6. DefaultDir(<<b, l>>) \in Above(FileDir(<<b, l>>))
    BY <1>2, <2>1, <2>4, <2>5, AboveHolds
  <2>7. Len(l) = 1 => SubSeq(l, 1, Len(l) - 1) = << >>
    BY <2>3, EmptySeq
  <2> QED BY <1>2, <1>4, <2>1, <2>4, <2>6, <2>7
<1> QED BY <1>3, <1>4

DirsOK ==
  /\ dirs \subseteq Places /\ excused \subseteq Places
  /\ \A d \in dirs : Above(d) \subseteq dirs

\* The directory was refused or removed, or one that it lies in.
Refused(d) == Above(d) \cap excused # {}
Ready(d)   == d \in dirs \/ Refused(d)

\* What there is, is there or excused after the step.
Lasting ==
  \A x \in Places : (Ready(x) => Ready(x)') /\ (Refused(x) => Refused(x)')

LEMMA DirMade ==
  ASSUME DirsOK, NEW d \in Places, NEW before, before \subseteq Places, MakeDir(d, before)
  PROVE  /\ DirsOK' /\ (d \notin dirs' => Above(d) \cap excused' # {})
         /\ before = excused => Lasting
<1>1. CASE dirs' = dirs \cup Above(d) /\ excused' = before
  <2>1. DirsOK' /\ d \in dirs'
    BY <1>1, AboveOrder DEF DirsOK
  <2>2. before = excused => Lasting
    BY <1>1 DEF Lasting, Ready, Refused
  <2> QED BY <2>1, <2>2
<1>2. ASSUME NEW e \in Above(d) \ dirs, dirs' = dirs \cup (Above(e) \ {e}),
             excused' = Excuse(d, before)
      PROVE  /\ DirsOK' /\ (d \notin dirs' => Above(d) \cap excused' # {})
             /\ before = excused => Lasting
  <2>1. e \in Places /\ Above(e) \subseteq Places
    BY AboveOrder
  <2>2. ASSUME NEW f \in Above(e) \ {e} PROVE Above(f) \subseteq Above(e) \ {e}
    <3>1. Above(f) \subseteq Above(e) /\ (e \in Above(f) => f = e)
      BY <2>1, AboveOrder
    <3> QED BY <3>1
  <2>3. /\ excused' \subseteq Places /\ Above(d) \cap excused' # {}
        /\ \A x \in Places : Above(x) \cap before # {} => Above(x) \cap excused' # {}
    BY <1>2, Excused, AboveOrder
  <2>4. DirsOK'
    BY <1>2, <2>1, <2>2, <2>3 DEF DirsOK
  <2>5. before = excused => Lasting
    BY <1>2, <2>3 DEF Lasting, Ready, Refused
  <2> QED BY <2>3, <2>4, <2>5
<1> QED BY <1>1, <1>2 DEF MakeDir

LEMMA DirRemoved ==
  ASSUME DirsOK, NEW d \in dirs, RemoveDir(d)
  PROVE  DirsOK' /\ Lasting
<1>1. d \in Places /\ dirs \subseteq Places /\ excused \subseteq Places
  BY DEF DirsOK
<1>2. dirs' = dirs \ {e \in dirs : d \in Above(e)} /\ excused' = Excuse(d, excused)
  BY <1>1, BelowAbove DEF RemoveDir
<1>3. /\ excused' \subseteq Places
      /\ \A x \in Places : d \in Above(x) => Above(x) \cap excused' # {}
      /\ \A x \in Places : Above(x) \cap excused # {} => Above(x) \cap excused' # {}
  BY <1>1, <1>2, Excused
<1>4. ASSUME NEW e \in dirs', NEW f \in Above(e) PROVE f \in dirs'
  <2>1. e \in Places /\ f \in dirs /\ Above(f) \subseteq Above(e)
    BY <1>1, <1>2, AboveOrder DEF DirsOK
  <2> QED BY <1>2, <2>1
<1>5. DirsOK'
  BY <1>1, <1>2, <1>3, <1>4 DEF DirsOK
<1>6. Lasting
  BY <1>2, <1>3 DEF Lasting, Ready, Refused
<1> QED BY <1>5, <1>6

-----------------------------------------------------------------------------
(* The directory of a log file is there, or excused *)

\* A listed logger had its directory made when it entered the list.
ListSettled ==
  \A l \in DOMAIN list : /\ Ready(FileDir(list[l].path))
                         /\ ~list[l].access => Refused(FileDir(list[l].path))

\* For the last logger setBasePath makes no more than DefaultDir.
LastSettled ==
  /\ distingFolder \/ Len(last.path[2]) = 1 => Ready(FileDir(last.path))
  /\ ~last.access => Refused(FileDir(last.path))

Settled ==
  distingFolder \in Disting /\ DirsOK /\ ListSettled /\ LastSettled /\ PathReady

LEMMA ListedPlace ==
  ASSUME Routed, distingFolder \in BOOLEAN, NEW l \in DOMAIN list
  PROVE  FileDir(list[l].path) \in Places
<1>1. l \in Loggers /\ firstBase[l] \in Bases /\ list[l].path = <<firstBase[l], l>>
  BY DEF Routed, ListOK
<1> QED BY <1>1, FileDirs

LEMMA LastPlace ==
  ASSUME Routed, distingFolder \in BOOLEAN
  PROVE  FileDir(last.path) \in Places
<1>1. \E b \in Bases : last.path = <<b, current>>
  BY DEF Routed, LastOK, ListOK
<1> QED BY <1>1, FileDirs DEF Routed, LastOK

\* What is made for the last logger, in the directories ds with the excuses xs.
LEMMA DefaultMade ==
  ASSUME distingFolder \in BOOLEAN, NEW b \in Bases, NEW l \in Loggers, NEW ds, NEW xs,
         DefaultDir(<<b, l>>) \notin ds => Above(DefaultDir(<<b, l>>)) \cap xs # {}
  PROVE  /\ distingFolder \/ Len(l) = 1 =>
              FileDir(<<b, l>>) \in ds \/ Above(FileDir(<<b, l>>)) \cap xs # {}
         /\ DefaultDir(<<b, l>>) \notin ds => Above(FileDir(<<b, l>>)) \cap xs # {}
<1>1. /\ FileDir(<<b, l>>) \in Places
      /\ DefaultDir(<<b, l>>) \in Above(FileDir(<<b, l>>))
      /\ distingFolder \/ Len(l) = 1 => DefaultDir(<<b, l>>) = FileDir(<<b, l>>)
  BY FileDirs
<1>2. Above(DefaultDir(<<b, l>>)) \subseteq Above(FileDir(<<b, l>>))
  BY <1>1, AboveOrder
<1> QED BY <1>1, <1>2

LEMMA InitSettled == Init => Settled
<1> SUFFICES ASSUME Init PROVE Settled
  OBVIOUS
<1> DEFINE p == <<DefaultBase, DefaultLogger>>
           d == DefaultDir(p)
<1>1. distingFolder \in BOOLEAN /\ distingFolder \in Disting
  BY DEF Init
<1>2. d \in Places
  BY <1>1, FileDirs
<1>3. list = << >> /\ use = NoUse
  BY DEF Init
<1>4. ListSettled /\ PathReady
  BY <1>3 DEF ListSettled, PathReady, NoUse
<1>5. /\ last.path = p /\ (~last.access => d \notin dirs)
      /\ d \notin dirs => Above(d) \cap excused # {}
  <2>1. CASE dirs = Above(d) /\ last = Entry(DefaultLogger, NoLogger, p, TRUE)
    BY <1>2, <2>1, AboveOrder DEF Entry
  <2>2. ASSUME NEW e \in Above(d), dirs = Above(e) \ {e}, excused = {d},
               last = Entry(DefaultLogger, NoLogger, p, FALSE)
        PROVE  /\ last.path = p /\ (~last.access => d \notin dirs)
               /\ d \notin dirs => Above(d) \cap excused # {}
    <3>1. d \in Above(d) /\ (d \in Above(e) => e = d)
      BY <1>2, AboveOrder
    <3> QED BY <2>2, <3>1 DEF Entry
  <2> QED BY <2>1, <2>2 DEF Init
<1>6. LastSettled
  <2>1. /\ distingFolder \/ Len(DefaultLogger) = 1 =>
              FileDir(p) \in dirs \/ Above(FileDir(p)) \cap excused # {}
        /\ d \notin dirs => Above(FileDir(p)) \cap excused # {}
    BY <1>1, <1>5, DefaultMade
  <2>2. last.path[2] = DefaultLogger
    BY <1>5
  <2> QED BY <1>5, <2>1, <2>2 DEF LastSettled, Ready, Refused
<1>7. ASSUME NEW e \in Above(d), dirs = Above(e) \ {e}, excused = {d} PROVE DirsOK
  <2>1. e \in Places /\ Above(e) \subseteq Places
    BY <1>2, AboveOrder
  <2>2. ASSUME NEW f \in Above(e) \ {e} PROVE Above(f) \subseteq Above(e) \ {e}
    <3>1. Above(f) \subseteq Above(e) /\ (e \in Above(f) => f = e)
      BY <2>1, AboveOrder
    <3> QED BY <3>1
  <2> QED BY <1>2, <1>7, <2>1, <2>2 DEF DirsOK
<1>8. ASSUME dirs = Above(d), excused = {} PROVE DirsOK
  BY <1>2, <1>8, AboveOrder DEF DirsOK
<1>9. DirsOK
  BY <1>7, <1>8 DEF Init
<1> QED BY <1>1, <1>4, <1>6, <1>9 DEF Settled

LEMMA StaySettled ==
  ASSUME Routed, Settled, Lasting, distingFolder' = distingFolder
  PROVE  /\ list' = list => ListSettled'
         /\ last' = last => LastSettled'
<1>1. distingFolder \in BOOLEAN
  BY DEF Settled
<1>2. ASSUME list' = list, NEW l \in DOMAIN list
      PROVE  /\ Ready(FileDir(list[l].path))'
             /\ (~list[l].access => Refused(FileDir(list[l].path)))'
  <2>1. FileDir(list[l].path) \in Places
    BY <1>1, ListedPlace
  <2>2. /\ Ready(FileDir(list[l].path))
        /\ ~list[l].access => Refused(FileDir(list[l].path))
    BY DEF Settled, ListSettled
  <2> QED BY <1>2, <2>1, <2>2 DEF Lasting, Ready, Refused, FileDir
<1>3. ASSUME last' = last PROVE LastSettled'
  <2>1. FileDir(last.path) \in Places
    BY <1>1, LastPlace
  <2> QED BY <1>3, <2>1 DEF Settled, LastSettled, Lasting, Ready, Refused, FileDir
<1> QED BY <1>2, <1>3 DEF ListSettled

LEMMA EnterSettled ==
  ASSUME Routed, Settled, ListOK', distingFolder' = distingFolder,
         NEW e, NEW l \in Loggers, EnterList(e, l)
  PROVE  DirsOK' /\ Lasting /\ ListSettled'
<1>1. distingFolder \in BOOLEAN /\ DirsOK /\ basePath \in Bases
  BY DEF Settled, Routed
<1>2. CASE Known(e, l)
  <2>1. UNCHANGED <<list, dirs, excused>>
    BY <1>2 DEF EnterList
  <2>2. DirsOK' /\ Lasting
    BY <1>1, <2>1 DEF DirsOK, Lasting, Ready, Refused
  <2> QED BY <2>1, <2>2, StaySettled
<1>3. CASE ~Known(e, l)
  <2> DEFINE d == FileDir(<<basePath, l>>)
             a == d \in dirs'
             row == [path |-> <<basePath, l>>, access |-> a]
  <2>1. d \in Places
    BY <1>1, FileDirs
  <2>2. MakeDir(d, excused) /\ list' = Put(list, l, row)
    BY <1>3 DEF EnterList, NewRow
  <2>3. DirsOK' /\ Lasting /\ (d \notin dirs' => Above(d) \cap excused' # {})
    <3>1. excused \subseteq Places
      BY <1>1 DEF DirsOK
    <3> HIDE DEF d
    <3> QED BY <1>1, <2>1, <2>2, <3>1, DirMade
  <2>4. /\ DOMAIN list' = DOMAIN list \cup {l} /\ list'[l] = row
        /\ \A m \in DOMAIN list : m # l => list'[m] = list[m]
    BY <2>2 DEF Put
  <2>5. row.path = <<basePath, l>> /\ row.access = a
    OBVIOUS
  <2> HIDE DEF row
  <2>6. /\ Ready(FileDir(list[l].path))'
        /\ (~list[l].access => Refused(FileDir(list[l].path)))'
    <3>1. FileDir(list[l].path)' = d
      BY <2>4, <2>5 DEF FileDir
    <3>2. list'[l].access = (d \in dirs')
      BY <2>4, <2>5
    <3> QED BY <2>3, <3>1, <3>2 DEF Ready, Refused
  <2>7. ASSUME NEW m \in DOMAIN list, m # l
        PROVE  /\ Ready(FileDir(list[m].path))'
               /\ (~list[m].access => Refused(FileDir(list[m].path)))'
    <3>1. FileDir(list[m].path) \in Places
      BY <1>1, ListedPlace
    <3>2. /\ Ready(FileDir(list[m].path))
          /\ ~list[m].access => Refused(FileDir(list[m].path))
      BY DEF Settled, ListSettled
    <3>3. list'[m] = list[m]
      BY <2>4, <2>7
    <3>4. FileDir(list[m].path)' = FileDir(list[m].path)
      BY <3>3 DEF FileDir
    <3> QED BY <2>3, <3>1, <3>2, <3>3, <3>4 DEF Lasting, Ready, Refused
  <2> QED BY <2>3, <2>4, <2>6, <2>7 DEF ListSettled
<1> QED BY <1>2, <1>3

\* seaslog_init_default_last_logger, with the excuses of before, or with none.
LEMMA DefaultSettled ==
  ASSUME distingFolder \in BOOLEAN, distingFolder' = distingFolder, DirsOK,
         NEW b \in Bases, NEW l \in Loggers, NEW before, before \subseteq Places,
         MakeDir(DefaultDir(<<b, l>>), before),
         last'.path = <<b, l>>, last'.access = (DefaultDir(<<b, l>>) \in dirs')
  PROVE  DirsOK' /\ LastSettled' /\ (before = excused => Lasting)
<1> DEFINE d == DefaultDir(<<b, l>>)
<1>1. d \in Places
  BY FileDirs
<1>2. /\ DirsOK' /\ (d \notin dirs' => Above(d) \cap excused' # {})
      /\ before = excused => Lasting
  <2> HIDE DEF d
  <2>1. MakeDir(d, before)
    BY DEF d
  <2> QED BY <1>1, <2>1, DirMade
<1>3. /\ distingFolder \/ Len(l) = 1 =>
           FileDir(<<b, l>>) \in dirs' \/ Above(FileDir(<<b, l>>)) \cap excused' # {}
      /\ d \notin dirs' => Above(FileDir(<<b, l>>)) \cap excused' # {}
  BY <1>2, DefaultMade
<1>4. FileDir(last.path)' = FileDir(<<b, l>>) /\ last'.path[2] = l
  BY DEF FileDir
<1>5. LastSettled'
  BY <1>3, <1>4 DEF LastSettled, Ready, Refused
<1> QED BY <1>2, <1>5

LEMMA BaseSettled ==
  ASSUME Routed, Settled, NEW b \in Bases, InitDefaultLastLogger(b), use' = NoUse,
         UNCHANGED <<distingFolder, list>>
  PROVE  Settled'
<1>1. /\ distingFolder \in BOOLEAN /\ DirsOK /\ excused \subseteq Places
      /\ last.logger \in Loggers /\ last \in Entries
  BY DEF Settled, DirsOK, Routed, LastOK, EntryOK
<1>2. /\ MakeDir(DefaultDir(<<b, last.logger>>), excused)
      /\ last'.path = <<b, last.logger>>
      /\ last'.access = (DefaultDir(<<b, last.logger>>) \in dirs')
  BY <1>1 DEF InitDefaultLastLogger, Entries
<1>3. DirsOK' /\ LastSettled' /\ Lasting
  BY <1>1, <1>2, DefaultSettled
<1>4. ListSettled'
  BY <1>3, StaySettled
<1>5. PathReady'
  BY DEF PathReady, NoUse
<1> QED BY <1>3, <1>4, <1>5 DEF Settled

LEMMA RequestSettled ==
  ASSUME Settled, NextRequest
  PROVE  Settled'
<1>1. distingFolder \in BOOLEAN /\ DirsOK
  BY DEF Settled
<1>2. /\ MakeDir(DefaultDir(<<DefaultBase, DefaultLogger>>), {})
      /\ last'.path = <<DefaultBase, DefaultLogger>>
      /\ last'.access = (DefaultDir(<<DefaultBase, DefaultLogger>>) \in dirs')
      /\ list' = << >> /\ use' = NoUse /\ distingFolder' = distingFolder
  BY DEF NextRequest, RequestInit, Entry
<1>3. DirsOK' /\ LastSettled'
  BY <1>1, <1>2, DefaultSettled
<1>4. ListSettled' /\ PathReady'
  BY <1>2 DEF ListSettled, PathReady, NoUse
<1> QED BY <1>2, <1>3, <1>4 DEF Settled

LEMMA SetLoggerSettled ==
  ASSUME Routed, Routed', Settled, NEW l \in Loggers, SetLogger(l)
  PROVE  Settled'
<1>1. distingFolder' = distingFolder /\ use' = NoUse
  BY DEF SetLogger
<1>2. PathReady'
  BY <1>1 DEF PathReady, NoUse
<1>3. CASE last.logger = l
  <2>1. UNCHANGED <<last, list, dirs, excused>>
    BY <1>3 DEF SetLogger
  <2>2. DirsOK' /\ Lasting
    BY <2>1 DEF Settled, DirsOK, Lasting, Ready, Refused
  <2> QED BY <1>1, <1>2, <2>1, <2>2, StaySettled DEF Settled
<1>4. CASE last.logger # l
  <2>1. EnterList(last, l) /\ last' = Processed(last, l)
    BY <1>4 DEF SetLogger
  <2>2. last.hash # l
    BY <1>4, DefaultNames DEF Routed, EntryOK
  <2>3. DirsOK' /\ Lasting /\ ListSettled'
    BY <1>1, <2>1, EnterSettled DEF Routed
  <2>4. /\ l \in DOMAIN list' /\ last'.path = list'[l].path
        /\ last'.access = list'[l].access
    <3>1. CASE l \in DOMAIN list
      BY <2>1, <2>2, <3>1 DEF EnterList, Known, Processed, Entry
    <3>2. CASE l \notin DOMAIN list
      <4> DEFINE a == FileDir(<<basePath, l>>) \in dirs'
                 row == [path |-> <<basePath, l>>, access |-> a]
      <4>1. list' = Put(list, l, row) /\ last' = Entry(l, l, <<basePath, l>>, a)
        BY <2>1, <2>2, <3>2 DEF EnterList, Known, NewRow, Processed
      <4>2. row.path = <<basePath, l>> /\ row.access = a
        OBVIOUS
      <4> HIDE DEF a, row
      <4> QED BY <4>1, <4>2 DEF Put, Entry
    <3> QED BY <3>1, <3>2
  <2>5. LastSettled'
    <3>1. /\ Ready(FileDir(list[l].path))'
          /\ (~list[l].access => Refused(FileDir(list[l].path)))'
      BY <2>3, <2>4 DEF ListSettled
    <3>2. FileDir(last.path)' = FileDir(list[l].path)'
      BY <2>4 DEF FileDir
    <3> QED BY <2>4, <3>1, <3>2 DEF LastSettled, Ready, Refused
  <2> QED BY <1>1, <1>2, <2>3, <2>5 DEF Settled
<1> QED BY <1>3, <1>4

LEMMA LogToSettled ==
  ASSUME Routed, Routed', Settled, NEW l \in Loggers, LogTo(l)
  PROVE  Settled'
<1>1. /\ UNCHANGED <<distingFolder, last>> /\ EnterList(tmp, l)
      /\ tmp' = Processed(tmp, l) /\ use' = Used(l, tmp')
  BY DEF LogTo
<1>2. DirsOK' /\ Lasting /\ ListSettled'
  BY <1>1, EnterSettled DEF Routed
<1>3. LastSettled'
  BY <1>1, <1>2, StaySettled
<1>4. l \in DOMAIN list' /\ tmp'.path = list'[l].path
  <2>1. tmp.hash = l => tmp.path = list[l].path
    BY DefaultNames DEF Routed, TmpOK
  <2> QED BY <1>1, <2>1, EnterEffect DEF Routed
<1>5. PathReady'
  <2>1. Ready(FileDir(list[l].path))'
    BY <1>2, <1>4 DEF ListSettled
  <2>2. use'.path = list'[l].path /\ use'.missing = (FileDir(tmp'.path) \notin dirs')
    BY <1>1, <1>4 DEF Used
  <2>3. /\ FileDir(use.path)' = FileDir(list[l].path)'
        /\ FileDir(tmp'.path) = FileDir(list[l].path)'
    BY <1>1, <1>4, <2>2 DEF FileDir
  <2> QED BY <2>1, <2>2, <2>3 DEF PathReady, Ready, Refused
<1> QED BY <1>1, <1>2, <1>3, <1>5 DEF Settled

LEMMA NextSettled ==
  ASSUME Routed, Routed', Settled, [Next]_vars
  PROVE  Settled'
<1>1. CASE SetFilePrefix
  <2>1. basePath \in Bases
    BY DEF Routed
  <2> QED BY <1>1, <2>1, BaseSettled DEF SetFilePrefix
<1>2. CASE Log
  <2>1. UNCHANGED <<distingFolder, last, list, dirs, excused>>
    BY <1>2 DEF Log
  <2>2. DirsOK' /\ Lasting
    BY <2>1 DEF Settled, DirsOK, Lasting, Ready, Refused
  <2>3. ListSettled' /\ LastSettled'
    BY <2>1, <2>2, StaySettled
  <2>4. PathReady'
    <3>1. /\ use'.path = last.path /\ use'.missing = (FileDir(last.path) \notin dirs')
          /\ use'.asked = current /\ UNCHANGED <<current, firstBase>>
      BY <1>2 DEF Log, Used
    <3>2. CASE distingFolder \/ Len(last.path[2]) = 1
      BY <2>1, <2>3, <3>1, <3>2 DEF PathReady, LastSettled, Ready, Refused, FileDir
    <3>3. CASE current \in DOMAIN firstBase /\ last.path[1] = firstBase[current]
      <4>1. current \in DOMAIN list /\ last.path = list[current].path
        <5>1. /\ current \in DOMAIN list
              /\ list[current].path = <<firstBase[current], current>>
          BY <3>3 DEF Routed, ListOK
        <5>2. CASE last.path = <<basePath, current>>
          <6>1. last.path[1] = basePath
            BY <5>2
          <6> QED BY <3>3, <5>1, <5>2, <6>1
        <5>3. CASE last.path = <<firstBase[current], current>>
          BY <5>1, <5>3
        <5> QED BY <5>1, <5>2, <5>3 DEF Routed, LastOK
      <4>2. Ready(FileDir(last.path))
        BY <4>1 DEF Settled, ListSettled
      <4> QED BY <2>1, <3>1, <4>2 DEF PathReady, Ready, Refused, FileDir
    <3> QED BY <2>1, <3>1, <3>2, <3>3 DEF PathReady
  <2> QED BY <2>1, <2>2, <2>3, <2>4 DEF Settled
<1>3. ASSUME NEW b \in Bases, SetBasePath(b) PROVE Settled'
  BY <1>3, BaseSettled DEF SetBasePath
<1>4. ASSUME NEW d \in dirs, RemoveDir(d) PROVE Settled'
  <2>1. DirsOK' /\ Lasting
    BY <1>4, DirRemoved DEF Settled
  <2>2. UNCHANGED <<distingFolder, last, list>> /\ use' = NoUse
    BY <1>4 DEF RemoveDir
  <2>3. ListSettled' /\ LastSettled' /\ PathReady'
    BY <2>1, <2>2, StaySettled DEF PathReady, NoUse
  <2> QED BY <2>1, <2>2, <2>3 DEF Settled
<1>5. CASE UNCHANGED vars
  BY <1>5 DEF vars, Settled, DirsOK, ListSettled, LastSettled, PathReady, Ready, Refused, FileDir
<1> QED BY <1>1, <1>2, <1>3, <1>4, <1>5, RequestSettled, SetLoggerSettled, LogToSettled
        DEF Next

LEMMA SettledHolds == Spec => [](Routed /\ Settled)
<1>1. Init => Routed /\ Settled
  BY InitRouted, InitSettled
<1>2. Routed /\ Settled /\ [Next]_vars => Routed' /\ Settled'
  BY NextRouted, NextSettled
<1> QED BY <1>1, <1>2, PTL DEF Spec

\* Every path is one of a logger under a base path, an entry is the one its
\* hash says, and a directory is never there without those it lies in.
THEOREM TypeCorrect == Spec => []TypeOK
<1>1. ASSUME Routed, Settled PROVE TypeOK
  <2>1. \A e \in {last, tmp} :
          /\ e.logger \in Names /\ e.hash \in Names /\ e.path \in Paths
          /\ e.hash # NoLogger => e.hash = e.logger /\ e.hash \in DOMAIN list
    BY <1>1 DEF Routed, EntryOK, Entries
  <2>2. \A l \in DOMAIN list : list[l].path \in Paths /\ firstBase[l] \in Bases
    <3> SUFFICES ASSUME NEW l \in DOMAIN list
                 PROVE  list[l].path \in Paths /\ firstBase[l] \in Bases
      OBVIOUS
    <3>1. l \in Names /\ firstBase[l] \in Bases /\ list[l].path = <<firstBase[l], l>>
      BY <1>1, DefaultNames DEF Routed, ListOK
    <3> QED BY <3>1 DEF Paths
  <2>3. \A d \in dirs : d[1] \in Bases /\ Above(d) \subseteq dirs
    BY <1>1 DEF Settled, DirsOK, Places
  <2> QED BY <1>1, <2>1, <2>2, <2>3 DEF TypeOK, Routed, Settled, ListOK, LastOK
<1> QED BY <1>1, SettledHolds, PTL

\* make_log_dir: the directory of a log file is there when the file is opened,
\* unless it, or one that it lies in, was refused or removed in this request.
THEOREM PathsReady == Spec => []PathReady
<1>1. Settled => PathReady
  BY DEF Settled
<1> QED BY <1>1, SettledHolds, PTL

\* The last logger has no access only after its directory was refused.
THEOREM AccessRight == Spec => []NoAccessOnlyIfRefused
<1>1. Settled => NoAccessOnlyIfRefused
  BY DEF Settled, LastSettled, NoAccessOnlyIfRefused, Refused
<1> QED BY <1>1, SettledHolds, PTL
=============================================================================
