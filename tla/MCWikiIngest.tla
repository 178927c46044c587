--------------------------- MODULE MCWikiIngest ---------------------------
EXTENDS WikiIngest, TLC

\* The safety runs treat workers and documents alike.
Alike == Permutations(Worker) \cup Permutations(Doc)
=============================================================================
