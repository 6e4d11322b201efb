------------------------ MODULE MC_HierarchicalLock ------------------------
EXTENDS HierarchicalLock, TLC

CONSTANTS t1, t2, lc, la, lb

\* Three lock objects used at levels 1 (lc), 2 (la) and 3 (lb).
MCLevel == (lc :> 1) @@ (la :> 2) @@ (lb :> 3)

====
