------------------------------ MODULE LogSearchMC ------------------------------
(* A small instance of LogSearch: templates with and without %L, with an     *)
(* unknown specifier, with the base path, with two %M; requests from the     *)
(* command line and through a proxy, one of them with a specifier in its     *)
(* address; contexts whose values are plain, have braces, or have their own  *)
(* placeholder.                                                              *)
EXTENDS LogSearch, TLC

CONSTANTS null, anyWord

Usual == <<"a", "%", "T", "|", "%", "L", "|", "%", "R", "|", "%", "M">>
First == <<"%", "L", "%", "I", ":", "%", "M", "%", "z", "%", "D">>
Bare  == <<"%", "B", ":", "%", "M", " ", "%", "Q", "%">>
Twice == <<"%", "M", "|", "%", "M">>

Setting(template, tcp, disting, trim) ==
  [template |-> template, tcp |-> tcp, distingType |-> disting, trimWrap |-> trim]

MCSettings ==
  {Setting(Usual, FALSE, FALSE, TRUE), Setting(First, FALSE, TRUE, FALSE),
   Setting(Bare, TRUE, FALSE, FALSE), Setting(Twice, FALSE, FALSE, FALSE)}

MCServers ==
  {[cli |-> TRUE, var |-> [SCRIPT_NAME |-> <<"run">>]],
   [cli |-> FALSE, var |-> [HTTP_HOST |-> <<"site">>, REQUEST_URI |-> <<"x", "%", "B">>,
                            HTTP_X_FORWARDED_FOR |-> <<"client">>, REMOTE_ADDR |-> <<"proxy">>]]}

MCNewValues == {<<"D", <<"other">>>>}
MCNewIds == {<<"id">>}

Pair(key, value) == [key |-> key, value |-> value]
LogOf(level, messages, context) == [level |-> level, messages |-> messages, context |-> context]

Greet == <<"{", "k", "}", "-", "{", "j", "}", "{", "k", "}">>
Two   == <<"p", "\n", "q">>
Inner == <<"{", "{", "k", "}", "}">>

MCCalls ==
  {LogOf("ERROR", <<Two, Inner>>, <<Pair(<<"k">>, <<"v">>), Pair(<<"v">>, <<"u">>)>>),
   LogOf("INFO", <<Greet>>, <<Pair(<<"k">>, <<"v">>), Pair(<<"{", "j", "}">>, <<"u", "t">>)>>),
   LogOf("INFO", <<Greet>>, <<Pair(<<"j">>, <<"b", "{", "j", "}">>)>>),
   LogOf("INFO", << >>, << >>)}

MCLevels == {"ERROR", "INFO"}
MCLevelInt == "ERROR" :> 3 @@ "INFO" :> 6
MCHost == <<"host">>
MCPid == <<"77">>
MCBase == <<"base">>
MCLogger == <<"default">>
MCUniqid == <<"uniqid">>
MCAmbient == "T" :> <<"now">> @@ "t" :> <<"1.5">> @@ "F" :> <<"f", ":", "1">>
               @@ "U" :> <<"9">> @@ "u" :> <<"9">> @@ "C" :> << >>
MCAlphabet == <<"ERROR", "INFO", "shared">>
Query(level, word, order, limit) ==
  [level |-> level, word |-> word, order |-> order, limit |-> limit]

MCQueries ==
  {Query("ALL", anyWord, "ASC", 1), Query("ALL", anyWord, "DESC", 2),
   Query("INFO", <<"v">>, "DESC", 1)}
=============================================================================
