--------------------------- MODULE MCTrustedStore ---------------------------
EXTENDS TrustedStore, TLC

\* Refreshers do the same.
Interchangeable == Permutations(Refreshers)

\* Two generations over three months, or three over two; or over two months
\* two generations with a fault or a correction, or one with both.
Trouble == faults + Cardinality({t \in Correctable : market[t] # 0})

Budget ==
    /\ Cardinality(Taken \ {None}) + Trouble <= 3
    /\ Cardinality(Taken \ {None}) = 3 => confirmed <= 2 * MonthLength
    /\ Trouble > 0 => confirmed <= MonthLength + 1
=============================================================================
