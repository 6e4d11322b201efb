------------------------------ MODULE MC_Storage ------------------------------
EXTENDS Storage

CONSTANTS c1, c2, n1, k1, k2, v1, v2, b1, s1

MCClients == {c1, c2}
MCNames == {n1}
MCKeys == {k1, k2}
MCVals == {v1, v2}
\* Two values of different lengths, so that a lost or doubled count shows.
MCSize == [v \in MCVals |-> IF v = v1 THEN 1 ELSE 2]

=============================================================================
