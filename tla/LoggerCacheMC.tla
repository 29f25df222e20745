----------------------------- MODULE LoggerCacheMC -----------------------------
(* Small instances of LoggerCache: two loggers, one of them in a module, as *)
(* 'testModule/app1' in README.md.                                          *)
EXTENDS LoggerCache

CONSTANTS plain, module, app1

MCLoggers == {<<plain>>, <<module, app1>>}
Plain == <<plain>>
=============================================================================
