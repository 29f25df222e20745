----------------------------- MODULE StreamCacheMC -----------------------------
(* Small instances of StreamCache: two loggers, the name of the first of    *)
(* which is the beginning of the name of the second, as in tests/020.phpt.   *)
EXTENDS StreamCache, TLC

CONSTANTS aaa, aaaBBB, pathA, pathB

MCLoggerOf == pathA :> aaa @@ pathB :> aaaBBB
MCMentions == aaa :> {pathA, pathB} @@ aaaBBB :> {pathB}
=============================================================================
