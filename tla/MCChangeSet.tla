---- MODULE MCChangeSet ----
EXTENDS ChangeSet, TLC
Symm == Permutations(Calls) \cup Permutations(Sessions)
====
