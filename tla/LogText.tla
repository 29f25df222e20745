-------------------------------- MODULE LogText --------------------------------
(***************************************************************************)
(* What a worker writes: the variables of a request (src/src/Request.c and *)
(* setRequestVariable), the two passes of the template over them           *)
(* (src/src/TemplateFormatter.c), the log methods with their arrays of     *)
(* messages and contexts (src/seaslog.c) and the line that the appender    *)
(* sends (src/src/Appender.c). The text operators are in LogLine; buffer,  *)
(* streams and loggers have modules of their own.                          *)
(*                                                                         *)
(* A specifier that reads the state of PHP (time, code line, memory) gives *)
(* a constant text.                                                        *)
(***************************************************************************)
EXTENDS LogLine

CONSTANTS
  Settings,   \* values of the ini settings: records [template, tcp, distingType, trimWrap]
  Servers,    \* requests: records [cli, var], var the texts of $_SERVER
  NewValues,  \* pairs <<variable, text>> a script may set
  NewIds,     \* request ids a script may set
  Calls,      \* log calls: records [level, messages, context]
  Levels,     \* level names, tokens of a line
  LevelInt,   \* their numbers, 0 for EMERGENCY to 7 for DEBUG
  Thresholds, \* values of seaslog.level
  Host, Pid, Base, Logger, Uniqid, \* texts
  Ambient,    \* the texts of %T %t %F %U %u %C
  Null,       \* a C pointer that is not set
  MaxCalls    \* bound: log calls

VariableKeys == {"D", "R", "m", "I"}

ASSUME LevelsAssumption ==
  LevelInt \in [Levels -> 0..7] /\ Levels \cap {Feed, Space, "%"} = {}
ASSUME AmbientAssumption == DOMAIN Ambient = {"T", "t", "F", "U", "u", "C"}
ASSUME MaxCallsAssumption == MaxCalls \in Nat
ASSUME SettingsAssumption ==
  \A s \in Settings : IsText(s.template) /\ {s.tcp, s.distingType, s.trimWrap} \subseteq BOOLEAN
ASSUME ServersAssumption ==
  \A s \in Servers : s.cli \in BOOLEAN /\ \A name \in DOMAIN s.var : IsText(s.var[name])
ASSUME NewValuesAssumption ==
  \A new \in NewValues : new[1] \in VariableKeys /\ IsText(new[2])
ASSUME CallsAssumption ==
  \A c \in Calls :
    /\ c.level \in Levels
    /\ IsText(c.messages) /\ \A i \in DOMAIN c.messages : IsText(c.messages[i])
    /\ IsText(c.context) /\ \A pair \in Range(c.context) : IsText(pair.key) /\ IsText(pair.value)
\* The bound on the replacements does not stop those of a message's own braces.
ASSUME BracesAssumption ==
  \A c \in Calls : \A i \in DOMAIN c.messages :
    Cardinality({j \in DOMAIN c.messages[i] : c.messages[i][j] = OpenBrace}) <= MaxRounds
ASSUME TextsAssumption ==
  \A t \in NewIds \cup {Host, Pid, Base, Logger, Uniqid} \cup Range(Ambient) : IsText(t)

VARIABLES
  setting,       \* php.ini
  threshold,     \* SEASLOG_G(level)
  server,        \* history: the request's $_SERVER
  chosen,        \* history: the variables this request has set
  variable,      \* SEASLOG_G(request_variable)
  requestId,     \* SEASLOG_G(request_id)
  current,       \* SEASLOG_G(current_template): the template after its first pass
  levelTemplate, \* SEASLOG_G(level_template)
  call,          \* the log call in progress, or Idle
  out,           \* lines written: per level, in one file, or to the server
  recent,        \* the files by their last write, the newest first
  said,          \* history: what each line was to say
  results        \* history: the log calls that returned

request == <<server, chosen, variable, requestId, current, levelTemplate>>
written == <<out, recent, said>>
vars == <<setting, threshold, request, call, written, results>>

Shared == "shared"
Remote == "remote"
Places == Levels \cup {Shared, Remote}
Idle == [c |-> Null, next |-> 1]
IsIdle == call = Idle

TextOf(v) == IF v = Null THEN << >> ELSE v

-----------------------------------------------------------------------------
(* RINIT *)

\* seaslog_init_request_variable
RequestVariable(s) ==
  LET Var(name) == IF name \in DOMAIN s.var THEN s.var[name] ELSE Null
      addresses == <<"HTTP_X_REAL_IP", "HTTP_X_FORWARDED_FOR", "REMOTE_ADDR">>
      there == {i \in 1..3 : addresses[i] \in DOMAIN s.var}
  IN IF s.cli
     THEN [D |-> <<"cli">>, R |-> Var("SCRIPT_NAME"), m |-> Var("SHELL"), I |-> <<"local">>]
     ELSE [D |-> Var("HTTP_HOST"), R |-> Var("REQUEST_URI"), m |-> Var("REQUEST_METHOD"),
           I |-> IF there = {} THEN Null ELSE s.var[addresses[Min(there)]]]

\* The specifiers of the first pass
RequestValues(v) ==
  [H |-> Host, P |-> Pid, D |-> TextOf(v["D"]), R |-> TextOf(v["R"]),
   m |-> TextOf(v["m"]), I |-> TextOf(v["I"])]

Init ==
  /\ setting \in Settings /\ threshold \in Thresholds
  /\ server \in Servers /\ chosen = << >>
  /\ variable = RequestVariable(server)
  /\ requestId = Uniqid
  /\ current = Format(setting.template, RequestValues(variable))
  /\ levelTemplate = LevelTemplate(setting.template)
  /\ call = Idle
  /\ out = [p \in Places |-> << >>] /\ recent = << >>
  /\ said = << >> /\ results = << >>

\* Seeded fault: the template of the last request is kept.
RequestInit_KeepsTemplate(s) ==
  /\ server' = s /\ chosen' = << >>
  /\ variable' = RequestVariable(s)
  /\ requestId' = Uniqid
  /\ UNCHANGED <<current, levelTemplate>>

RequestInit(s) ==
  /\ server' = s /\ chosen' = << >>
  /\ variable' = RequestVariable(s)
  /\ requestId' = Uniqid
  /\ current' = Format(setting.template, RequestValues(variable'))
  /\ levelTemplate' = LevelTemplate(setting.template)

\* RSHUTDOWN, and RINIT for the next request
NextRequest(s) ==
  /\ IsIdle
  /\ RequestInit(s)
  /\ UNCHANGED <<setting, threshold, call, written, results>>

-----------------------------------------------------------------------------
(* Settings of the script *)

\* Seeded fault: the template is not made anew.
SetRequestVariable_Stale(k, text) ==
  /\ IsIdle
  /\ variable' = [variable EXCEPT ![k] = text]
  /\ chosen' = [j \in DOMAIN chosen \cup {k} |-> IF j = k THEN text ELSE chosen[j]]
  /\ UNCHANGED <<setting, threshold, server, requestId, current, levelTemplate,
                 call, written, results>>

SetRequestVariable(k, text) ==
  /\ IsIdle
  /\ variable' = [variable EXCEPT ![k] = text]
  /\ chosen' = [j \in DOMAIN chosen \cup {k} |-> IF j = k THEN text ELSE chosen[j]]
  /\ current' = Format(setting.template, RequestValues(variable'))
  /\ UNCHANGED <<setting, threshold, server, requestId, levelTemplate, call,
                 written, results>>

SetRequestID(text) ==
  /\ IsIdle
  /\ requestId' = text
  /\ UNCHANGED <<setting, threshold, server, chosen, variable, current,
                 levelTemplate, call, written, results>>

\* ini_set of seaslog.level
SetThreshold(t) ==
  /\ IsIdle
  /\ threshold' = t
  /\ UNCHANGED <<setting, request, call, written, results>>

-----------------------------------------------------------------------------
(* A log call *)

\* Seeded fault: the array is read from before its beginning.
Log_FromZero(c) ==
  /\ IsIdle /\ Len(results) < MaxCalls
  /\ call' = [c |-> c, next |-> 0]
  /\ UNCHANGED <<setting, threshold, request, written, results>>

Log(c) ==
  /\ IsIdle /\ Len(results) < MaxCalls
  /\ call' = [c |-> c, next |-> 1]
  /\ UNCHANGED <<setting, threshold, request, written, results>>

Return(end) ==
  /\ call' = Idle
  /\ results' = Append(results, [end |-> end, c |-> call.c])

AtMessage == ~IsIdle /\ call.next <= Len(call.c.messages)

\* The message after seaslog_log_context
Message == StrtrArray(call.c.messages[call.next], call.c.context)

Passes(level) == LevelInt[level] <= threshold

\* Each %M of the second pass takes an argument, and one is passed.
OneMessage ==
  Cardinality({i \in DOMAIN Items(current) : Items(current)[i] = Specifier("M")}) <= 1

Facility == 8

\* The header of appender_handle_tcp_udp; a pointer that is not set prints so.
Priority(level) == <<"<", ToString(Facility + LevelInt[level]), ">1 ">>
Header(level, v) ==
  Priority(level) \o Ambient["T"] \o <<Space>> \o Host \o <<Space>>
    \o (IF v["D"] = Null THEN <<"(null)">> ELSE v["D"])
    \o <<Space>> \o Pid \o <<Space>> \o Logger \o <<Space>>

\* The specifiers of the second pass
LineValues(level, id, text) ==
  Extended([M |-> text, L |-> <<level>>, Q |-> id, B |-> Base], Ambient)

\* What appender_handle_file and appender_handle_tcp_udp write
Entry(text) ==
  (IF setting.tcp THEN Header(call.c.level, variable) ELSE << >>)
    \o Format(current, LineValues(call.c.level, requestId, text)) \o <<Feed>>

Place == CASE setting.tcp -> Remote
           [] ~setting.tcp /\ setting.distingType -> call.c.level
           [] OTHER -> Shared

Trimmed(text) == IF setting.trimWrap THEN TrimWrap(text) ELSE text

\* seaslog_log_ex, when the write is successful
WriteOk ==
  LET rows == LinesOf(Entry(Trimmed(Message.text)))
      n == Len(said) + 1
  IN /\ AtMessage /\ Message.ends /\ Passes(call.c.level) /\ OneMessage
     /\ out' = [out EXCEPT ![Place] =
                  @ \o [r \in DOMAIN rows |-> [line |-> n, text |-> rows[r]]]]
     /\ recent' = <<Place>> \o Kept(recent, {i \in 1..Len(recent) : recent[i] # Place})
     /\ said' = Append(said, [call |-> Len(results) + 1, c |-> call.c, i |-> call.next,
                              server |-> server, chosen |-> chosen, id |-> requestId])
     /\ call' = [call EXCEPT !.next = @ + 1]
     /\ UNCHANGED <<setting, threshold, request, results>>

\* Seeded fault: the message that could not be written is skipped.
WriteFail_GoesOn ==
  /\ AtMessage /\ Message.ends /\ Passes(call.c.level) /\ OneMessage
  /\ call' = [call EXCEPT !.next = @ + 1]
  /\ UNCHANGED <<setting, threshold, request, written, results>>

\* The stream does not open or the write falls short (StreamCache).
WriteFail ==
  /\ AtMessage /\ Message.ends /\ Passes(call.c.level) /\ OneMessage
  /\ Return("false")
  /\ UNCHANGED <<setting, threshold, request, written>>

\* check_log_level, for each message of the array
Filtered ==
  /\ AtMessage /\ Message.ends /\ ~Passes(call.c.level)
  /\ Return("false")
  /\ UNCHANGED <<setting, threshold, request, written>>

\* str_replace grows the message until the memory limit ends the request.
OutOfMemory(s) ==
  /\ AtMessage /\ ~Message.ends
  /\ Return("killed")
  /\ RequestInit(s)
  /\ UNCHANGED <<setting, threshold, written>>

\* The formatter reads an argument that nobody passed: undefined, here the
\* death of the worker, before the line goes anywhere.
StrayArgument(s) ==
  /\ AtMessage /\ Message.ends /\ Passes(call.c.level) /\ ~OneMessage
  /\ Return("stray")
  /\ RequestInit(s)
  /\ UNCHANGED <<setting, threshold, written>>

\* The loop over the array has come to its end.
Done ==
  /\ ~IsIdle /\ ~AtMessage
  /\ Return("true")
  /\ UNCHANGED <<setting, threshold, request, written>>

-----------------------------------------------------------------------------
Next ==
  \/ \E s \in Servers : NextRequest(s) \/ OutOfMemory(s) \/ StrayArgument(s)
  \/ \E new \in NewValues : SetRequestVariable(new[1], new[2])
  \/ \E id \in NewIds : SetRequestID(id)
  \/ \E t \in Thresholds : SetThreshold(t)
  \/ \E c \in Calls : Log(c)
  \/ WriteOk \/ WriteFail \/ Filtered \/ Done

Spec == Init /\ [][Next]_vars

-----------------------------------------------------------------------------
(* Properties *)

TypeOK ==
  /\ setting \in Settings /\ threshold \in Thresholds /\ server \in Servers
  /\ DOMAIN chosen \subseteq VariableKeys
  /\ DOMAIN variable = VariableKeys
  /\ IsIdle \/ (call.c \in Calls /\ call.next \in 1..(Len(call.c.messages) + 1))
  /\ \A p \in Places : \A r \in Range(out[p]) : r.line \in DOMAIN said
  /\ \A s \in Range(said) : s.c \in Calls /\ s.i \in DOMAIN s.c.messages
  /\ \A r \in Range(results) : r.c \in Calls /\ r.end \in {"true", "false", "killed", "stray"}
  /\ \A p \in Places : p \in Range(recent) <=> out[p] # << >>

\* The rows that were written of line n, wherever they are
RowsOf(n) ==
  LET place == CHOOSE p \in Places : \E r \in Range(out[p]) : r.line = n
      rows == Kept(out[place], {i \in 1..Len(out[place]) : out[place][i].line = n})
  IN [i \in DOMAIN rows |-> rows[i].text]

\* The variables of a line: those the script set, and those of its request.
VariablesOf(s) == Extended(s.chosen, RequestVariable(s.server))

\* The message of a line with all its placeholders replaced in one pass from
\* left to right, as strtr does.
Interpolation(message, context) ==
  LET At(i) == {k \in DOMAIN context :
                  IsPrefix(Placeholder(context[k].key), SubSeq(message, i, Len(message)))}
      from[i \in 1..(Len(message) + 1)] ==
        IF i > Len(message) THEN << >>
        ELSE IF At(i) = {} THEN <<message[i]>> \o from[i + 1]
        ELSE LET pair == context[Min(At(i))]
             IN pair.value \o from[i + Len(Placeholder(pair.key))]
  IN from[1]

HasBrace(text) == OpenBrace \in Range(text) \/ CloseBrace \in Range(text)
Nested(text) ==
  \E i, j \in DOMAIN text : /\ i < j /\ text[i] = OpenBrace /\ text[j] = OpenBrace
                            /\ CloseBrace \notin Range(SubSeq(text, i, j))

\* A placeholder has a brace at each end and no others.
Enclosed(placeholder) ==
  /\ Last(placeholder) = CloseBrace
  /\ ~HasBrace(SubSeq(placeholder, 2, Len(placeholder) - 1))

\* No value of the first pass has a specifier in it, no value of the context a
\* brace, and no placeholder is in another or overlaps one, as {b} does with the
\* {a}{b} of a key a}{b: no pass meets what an earlier one put in.
Plain(s) ==
  /\ ~Nested(s.c.messages[s.i])
  /\ \A text \in Range(RequestValues(VariablesOf(s))) : "%" \notin Range(text)
  /\ \A pair \in Range(s.c.context) : ~HasBrace(pair.value) /\ Enclosed(Placeholder(pair.key))

\* A line is the template with each specifier replaced once, by the variables
\* of the request as they are at the call and by the message with each
\* placeholder replaced once: although the template is expanded in two passes,
\* the first at RINIT and at each setRequestVariable, and the placeholders one
\* key after the other, each from the start (seaslog_spprintf, php_strtr_array).
LineIsExpanded ==
  \A n \in DOMAIN said :
    LET s == said[n]
        v == VariablesOf(s)
        text == Trimmed(Interpolation(s.c.messages[s.i], s.c.context))
    IN Plain(s) =>
         RowsOf(n) = LinesOf(
           (IF setting.tcp THEN Header(s.c.level, v) ELSE << >>)
             \o Format(setting.template,
                       Extended(RequestValues(v), LineValues(s.c.level, s.id, text)))
             \o <<Feed>>)

\* str_replace ends: a request runs out of memory in a log call only when a
\* value of the context has a brace in it, which could make up a placeholder
\* again.
KilledOnlyByBraces ==
  \A r \in Range(results) :
    r.end = "killed" => \E pair \in Range(r.c.context) : HasBrace(pair.value)

\* The lines of call k that are in the log
Logged(k) == {n \in DOMAIN said : said[n].call = k}

\* TRUE means that all messages of the array were logged, in their order and
\* once; FALSE that the first of them were and the others were not, so that a
\* caller can tell from the log where to begin again. The first line of a call
\* says the first message of its array, the second line the second.
ArrayStops ==
  \A k \in DOMAIN results :
    /\ \A n \in Logged(k) : /\ said[n].c = results[k].c
                            /\ said[n].i = Cardinality({m \in Logged(k) : m <= n})
    /\ results[k].end = "true" <=> Cardinality(Logged(k)) = Len(results[k].c.messages)
=============================================================================
