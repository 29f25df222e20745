-------------------------------- MODULE LogLine --------------------------------
(***************************************************************************)
(* How a log line is made and found again, as operators: the two passes of *)
(* seaslog_template_formatter (src/src/TemplateFormatter.c), the level     *)
(* template, the placeholders of a message (src/src/Common.c), the search  *)
(* of a level and the page of a result (src/src/Analyzer.c).               *)
(*                                                                         *)
(* A text is a sequence of tokens. A token is a character that the code    *)
(* looks at, or stands for a piece of text that it only copies.            *)
(***************************************************************************)
EXTENDS Naturals, Sequences, SequencesExt, FiniteSetsExt

CONSTANT MaxRounds \* bound: replacements of one placeholder in a message

ASSUME RoundsAssumption == MaxRounds \in Nat

Feed == "\n"
Space == " "
OpenBrace == "{"
CloseBrace == "}"
All == <<"ALL">>

\* A text can have any tokens.
IsText(t) == t \in Seq(Range(t))

\* The k-th of a set of numbers, the smallest first
Nth(S, k) == CHOOSE i \in S : Cardinality({j \in S : j <= i}) = k

\* The elements of a sequence at the places of a set, in their order
Kept(s, S) == [k \in 1..Cardinality(S) |-> s[Nth(S, k)]]

\* f, and g where f has no value
Extended(f, g) == [x \in DOMAIN f \cup DOMAIN g |-> IF x \in DOMAIN f THEN f[x] ELSE g[x]]

\* Where a text has another one in it
Starts(part, text) ==
  {i \in 1..(Len(text) - Len(part) + 1) : SubSeq(text, i, i + Len(part) - 1) = part}

Occurs(part, text) == Starts(part, text) # {}

-----------------------------------------------------------------------------
(* Templates *)

Literal(c) == [spec |-> FALSE, char |-> c]
Specifier(c) == [spec |-> TRUE, char |-> c]

\* The characters of a template, each % taken with what follows it; a % at
\* the end is dropped.
Items(fmt) ==
  LET from[i \in 1..(Len(fmt) + 1)] ==
        IF i > Len(fmt) THEN << >>
        ELSE IF fmt[i] # "%" THEN <<Literal(fmt[i])>> \o from[i + 1]
        ELSE IF i = Len(fmt) THEN << >>
        ELSE <<Specifier(fmt[i + 1])>> \o from[i + 2]
  IN from[1]

\* A pass of the formatter: it replaces the specifiers it has a value for and
\* keeps the others, for a later pass to replace.
Format(fmt, value) ==
  LET it == Items(fmt) IN
  FlattenSeq([i \in DOMAIN it |->
    IF ~it[i].spec THEN <<it[i].char>>
    ELSE IF it[i].char \in DOMAIN value THEN value[it[i].char] ELSE <<"%", it[i].char>>])

\* Seeded fault: the index is not set back at an earlier specifier.
LevelTemplate_NoReset(fmt) ==
  LET it == Items(fmt)
      levels == {i \in DOMAIN it : it[i] = Specifier("L")}
      at == Min(levels)
      after == {i \in (at + 1)..Len(it) : it[i].spec}
      last  == IF after = {} THEN Len(it) ELSE Min(after) - 1
      text == SelectSeq(SubSeq(it, 1, last), LAMBDA x : ~x.spec \/ x.char = "L")
  IN IF levels = {} THEN << >>
     ELSE FlattenSeq([i \in DOMAIN text |->
            IF text[i].spec THEN <<"%", "L">> ELSE <<text[i].char>>])

\* The literal text around the first %L of a template, up to the specifiers
\* on both sides; empty when there is no %L.
LevelTemplate(fmt) ==
  LET it == Items(fmt)
      levels == {i \in DOMAIN it : it[i] = Specifier("L")}
      at == Min(levels)
      before == {i \in 1..(at - 1) : it[i].spec}
      after  == {i \in (at + 1)..Len(it) : it[i].spec}
      first == IF before = {} THEN 1 ELSE Max(before) + 1
      last  == IF after = {} THEN Len(it) ELSE Min(after) - 1
      Chars(a, b) == [i \in 1..((b + 1) - a) |-> it[a + i - 1].char]
  IN IF levels = {} THEN << >>
     ELSE Chars(first, at - 1) \o <<"%", "L">> \o Chars(at + 1, last)

-----------------------------------------------------------------------------
(* Placeholders *)

\* str_appender: a key may come with its braces.
Placeholder(key) ==
  IF key # << >> /\ Head(key) = OpenBrace THEN key ELSE <<OpenBrace>> \o key \o <<CloseBrace>>

\* The first occurrence of a text replaced
ReplaceFirstText(text, from, to) ==
  IF Occurs(from, text)
  THEN ReplaceSubSeqAt(Min(Starts(from, text)), to, from, text)
  ELSE text

\* Seeded fault: the rest is copied from the placeholder on, not from behind it.
StrReplace_KeepsKey(text, from, to) ==
  LET round[n \in 0..MaxRounds] ==
        IF n = 0 THEN text ELSE ReplaceFirstText(round[n - 1], from, to \o from)
  IN IF from = to THEN text ELSE round[MaxRounds]

\* str_replace: the first occurrence is replaced, and the search begins again
\* at the start of the result.
StrReplace(text, from, to) ==
  LET round[n \in 0..MaxRounds] ==
        IF n = 0 THEN text ELSE ReplaceFirstText(round[n - 1], from, to)
  IN IF from = to THEN text ELSE round[MaxRounds]

\* More than MaxRounds replacements: none of them is the last.
NeverEnds(text, from, to) == from # to /\ Occurs(from, StrReplace(text, from, to))

\* php_strtr_array: the pairs of the context one after the other.
StrtrArray(message, context) ==
  LET Pair(sofar, pair) ==
        LET from == Placeholder(pair.key) IN
        IF ~sofar.ends \/ NeverEnds(sofar.text, from, pair.value)
          THEN [sofar EXCEPT !.ends = FALSE]
          ELSE [sofar EXCEPT !.text = StrReplace(@, from, pair.value)]
      after[k \in 0..Len(context)] ==
        IF k = 0 THEN [text |-> message, ends |-> TRUE] ELSE Pair(after[k - 1], context[k])
  IN after[Len(context)]

\* message_trim_wrap
TrimWrap(text) == ReplaceAll(text, Feed, Space)

-----------------------------------------------------------------------------
(* The search *)

\* seaslog_spprintf of a level template
LevelPattern(levelTemplate, level) ==
  IF levelTemplate = << >> THEN All ELSE Format(levelTemplate, [L |-> <<level>>])

\* What cat gives of a text that was written: its lines, without their ends.
LinesOf(text) ==
  LET feeds == {i \in 1..Len(text) : text[i] = Feed}
      ends == feeds \cup (IF Len(text) \in feeds \cup {0} THEN {} ELSE {Len(text) + 1})
      End(k) == IF k = 0 THEN 0 ELSE Nth(ends, k)
  IN [k \in 1..Cardinality(ends) |-> SubSeq(text, End(k - 1) + 1, End(k) - 1)]

\* grep: the lines that have the pattern in them.
Grep(pattern, lines) == Kept(lines, {i \in 1..Len(lines) : Occurs(pattern, lines[i].text)})

\* Seeded fault: the last line of the page is left out.
Sed_Short(lines, start, end) ==
  IF start = 0 THEN << >> ELSE SubSeq(lines, start, Min({end - 1, Len(lines)}))

\* sed -n 'start,end'p: an end before the start is the start.
Sed(lines, start, end) ==
  IF start = 0 THEN << >>
  ELSE SubSeq(lines, start, Min({Max({start, end}), Len(lines)}))
=============================================================================
