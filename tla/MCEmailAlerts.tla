--------------------------- MODULE MCEmailAlerts ---------------------------
EXTENDS EmailAlerts, TLC

SignalSymmetry == Permutations(Signals)

\* Three cycles of one run, or two over two runs: one before the restart and
\* one after it.
RunsAndCycles == journal.run + Len(log) <= 4
=============================================================================
