------------------------------- MODULE LogSearch -------------------------------
(***************************************************************************)
(* The files of LogText and a process that searches them while they grow:  *)
(* get_type_count and get_detail of src/src/Analyzer.c, with the arguments *)
(* analyzerCount and analyzerDetail (src/seaslog.c) give them. Both have a *)
(* shell run cat, tac, grep and sed; a pattern stands for itself here, so  *)
(* templates and key words have no character that is special to grep.      *)
(*                                                                         *)
(* The reader asks for one page after the other, each with a command of    *)
(* its own, until a page is empty.                                         *)
(***************************************************************************)
EXTENDS LogText

CONSTANTS
  Alphabet,  \* the file names of one day in the order of the shell's *
  Queries,   \* searches: records [level, word, order, limit]
  AnyWord    \* no key word

ASSUME AlphabetAssumption ==
  IsText(Alphabet) /\ IsInjective(Alphabet) /\ Range(Alphabet) = Places \ {Remote}
ASSUME QueriesAssumption == \A q \in Queries : q.limit \in Nat \ {0} /\ q.order \in {"ASC", "DESC"}

VARIABLES reader \* the search in progress, or NoReader

NoReader == [query |-> Null, start |-> 0, due |-> {}, got |-> {}, over |-> FALSE]
searchVars == <<vars, reader>>

-----------------------------------------------------------------------------
AnyLevel == "ALL"

ASSUME LevelNamesAssumption == Levels \cap {AnyLevel, Shared, Remote} = {}

\* The files a path names: with disting_type those of a level, or all.
Named(level) ==
  {p \in Range(Alphabet) : out[p] # << >> /\ (setting.distingType /\ level # AnyLevel => p = level)}

\* cat of the files, or tac of the files of ls -t
Content(level, order) ==
  LET names == IF order = "ASC" THEN Alphabet ELSE recent
  IN FlattenSeq([i \in DOMAIN names |->
       IF names[i] \notin Named(level) THEN << >>
       ELSE IF order = "ASC" THEN out[names[i]] ELSE Reverse(out[names[i]])])

\* The greps of a search
Found(q) ==
  LET all == Content(q.level, q.order)
      ofLevel == IF q.level = AnyLevel THEN all
                 ELSE Grep(LevelPattern(levelTemplate, q.level), all)
  IN IF q.word = AnyWord THEN ofLevel ELSE Grep(q.word, ofLevel)

\* get_type_count
TypeCount(level, word) == Len(Found([level |-> level, word |-> word, order |-> "ASC"]))

\* get_detail; lines with the base path in them are taken for messages of
\* the shell.
Detail(q, start, end) ==
  LET rows == Sed(Found(q), start, end)
  IN Kept(rows, {i \in 1..Len(rows) : ~Occurs(Base, rows[i].text)})

\* analyzerDetail gives a start and a limit.
Page(q, start) == Detail(q, start, start + q.limit - 1)

-----------------------------------------------------------------------------
SearchInit == Init /\ reader = NoReader

\* A search that finds nothing at first is over at once and left out.
FirstPage(q) ==
  /\ reader = NoReader /\ Found(q) # << >>
  /\ reader' = [query |-> q, start |-> 1 + q.limit, due |-> Range(Found(q)),
                got |-> Range(Page(q, 1)), over |-> Page(q, 1) = << >>]
  /\ UNCHANGED vars

NextPage ==
  LET page == Page(reader.query, reader.start) IN
  /\ reader # NoReader /\ ~reader.over
  /\ reader' = [reader EXCEPT !.start = @ + reader.query.limit,
                              !.got = @ \cup Range(page), !.over = page = << >>]
  /\ UNCHANGED vars

LeaveSearch ==
  /\ reader.over
  /\ reader' = NoReader
  /\ UNCHANGED vars

SearchNext ==
  \/ Next /\ UNCHANGED reader
  \/ \E q \in Queries : FirstPage(q)
  \/ NextPage \/ LeaveSearch

SearchSpec == SearchInit /\ [][SearchNext]_searchVars

-----------------------------------------------------------------------------
(* Properties *)

\* The first pass puts no specifier into a line, and the name of a level is
\* neither in the template nor in what both passes put in.
OneLevelIn(s) ==
  LET first == Range(RequestValues(VariablesOf(s)))
      second == Range(Ambient) \cup {Base, s.id, s.c.messages[s.i]}
                  \cup {pair.value : pair \in Range(s.c.context)}
  IN /\ \A t \in first : "%" \notin Range(t)
     /\ \A t \in first \cup second \cup {setting.template} : Range(t) \cap Levels = {}

\* A line says its level once and no other: the template is of one line and has
\* one %L, and nothing else has the name of a level.
OneLevel ==
  LET it == Items(setting.template) IN
  /\ \E at \in DOMAIN it : {i \in DOMAIN it : it[i] = Specifier("L")} = {at}
  /\ Feed \notin Range(setting.template)
  /\ \A s \in Range(said) : OneLevelIn(s)

LinesFound(rows) == {rows[i].line : i \in DOMAIN rows}

\* A search for a level, which looks for the literal text around %L, finds the
\* lines of that level and no others, although lines of all levels share the
\* file and the rest of the line is as the request and the message make it;
\* and each of them counts once, however many rows it has (get_type_count).
LevelFound ==
  ~setting.tcp /\ OneLevel =>
    \A l \in Levels :
      LET ofLevel == {n \in DOMAIN said : said[n].c.level = l}
      IN /\ LinesFound(Found([level |-> l, word |-> AnyWord, order |-> "ASC"])) = ofLevel
         /\ TypeCount(l, AnyWord) = Cardinality(ofLevel)

\* Who reads page after page, the oldest line first or in one file, misses no
\* line that was there when he began, however many are written meanwhile: they
\* only push lines behind the start of the next page (get_detail). From the
\* newest of several files on, a write brings another file to the front; and a
\* line with the base path in it is not shown, so that a page may be empty.
PagesWhole ==
  /\ reader.over
  /\ reader.query.order = "ASC" \/ reader.query.level # AnyLevel \/ ~setting.distingType
  /\ \A p \in Places : \A r \in Range(out[p]) : ~Occurs(Base, r.text)
  => reader.due \subseteq reader.got
=============================================================================
