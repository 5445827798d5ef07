--------------------------- MODULE MCCachedClient ---------------------------
EXTENDS CachedClient, TLC

\* No action tells two callers, or two queries, apart.
MCSymmetry == Permutations(Callers) \cup Permutations(Queries)
=============================================================================
