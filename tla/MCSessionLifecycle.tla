------------------------- MODULE MCSessionLifecycle -------------------------
EXTENDS SessionLifecycle, TLC

\* Requests and worker slots are interchangeable in the safety runs.
Symmetry == Permutations(Procs) \cup Permutations(Requests) \cup Permutations(Replays)
=============================================================================
