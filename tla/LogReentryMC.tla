----------------------------- MODULE LogReentryMC -----------------------------
(* Small instances of LogReentry: the settings of a behaviour. *)
EXTENDS LogReentry

Sized(sizes) ==
  [throwException : BOOLEAN, ignoreWarning : BOOLEAN,
   traceException : BOOLEAN, traceWarning : BOOLEAN, traceError : BOOLEAN,
   traceNotice : BOOLEAN, openWarns : BOOLEAN, bufferSize : sizes]

Reaches(s) ==
  s.traceNotice \/ (s.traceWarning /\ (~s.ignoreWarning \/ s.openWarns))

\* All settings in which no warning and no notice comes back, without a buffer
\* and with the smallest that a hook can fill in a flush; and those in which
\* one does, with a buffer that no hook fills: with a smaller one, or none,
\* the calls nest for ever.
MCSettings ==
  {s \in Sized({0, 2}) : ~Reaches(s)} \cup
  {s \in Sized({30}) : Reaches(s)}

\* The default settings, with exceptions traced.
TraceExceptions ==
  {s \in Sized({2}) : s.throwException /\ s.traceError /\ s.ignoreWarning
                        /\ s.traceException /\ ~s.traceWarning
                        /\ ~s.traceNotice /\ ~s.openWarns}
=============================================================================
