--------------------------- MODULE MCWaitsForGraph ---------------------------
EXTENDS WaitsForGraph

CONSTANTS t1, t2, m1, m2, r1

MCThreads == {t1, t2}
MCThreadOrder == <<t1, t2>>
MCMutexes == {m1, m2}
MCOneMutex == {m1}
MCResources == {r1}
=============================================================================
