---- MODULE MCCandidate ----
EXTENDS CandidateTransaction, TLC
Symm == Permutations(Calls) \cup Permutations(Sessions)
====
