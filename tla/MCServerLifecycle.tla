------------------------- MODULE MCServerLifecycle -------------------------
(* Instances of ServerLifecycle for TLC.                                    *)
EXTENDS ServerLifecycle, TLC

\* Goroutines and channels of one kind are interchangeable.  Only for runs
\* without liveness properties.
Symmetry == Permutations(Accepted) \cup Permutations(Dialed) \cup Permutations(Stoppers)
=============================================================================
