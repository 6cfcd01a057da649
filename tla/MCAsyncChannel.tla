-------------------------- MODULE MCAsyncChannel ---------------------------
(* Instances of AsyncChannel for TLC.                                       *)
EXTENDS AsyncChannel, TLC

\* The channel waits in Write and in Close, so its peer has to read ...
Patient ==
  [untilWrite |-> TRUE, writeBuffered |-> TRUE, peerReads |-> TRUE, ops |-> {"Write"}]

\* ... or it gives up, and then the peer may stop reading for ever.
Hasty ==
  [untilWrite |-> FALSE, writeBuffered |-> FALSE, peerReads |-> FALSE,
   ops |-> {"Write", "CtxWrite1"}]

OnlyPatient == {Patient}
OnlyRaw == {[Patient EXCEPT !.writeBuffered = FALSE]}
PatientOrHasty == {Patient, Hasty}

\* Goroutines of one kind are interchangeable.  Only for runs without
\* liveness properties.
Symmetry ==
  Permutations(Writers) \cup Permutations(Closers) \cup Permutations(Drainers)
=============================================================================
