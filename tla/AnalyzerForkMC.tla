---------------------------- MODULE AnalyzerForkMC ----------------------------
(* Small instances of AnalyzerFork: every way getBatchArray divides. *)
EXTENDS AnalyzerFork

Config(n, k) == [analyses |-> n, fork |-> k]

\* No analyses; one process; more processes than analyses; a rest; and no
\* rest with as many batches as there are processes, or fewer.
FittingConfigs == {Config(0, 2), Config(3, 1), Config(3, 4), Config(5, 2),
                   Config(5, 3), Config(4, 2), Config(6, 3)}

SixByTwo == {Config(6, 2)}
=============================================================================
