--------------------------- MODULE MCWorkerBroker ---------------------------
EXTENDS WorkerBroker, TLC

Symmetry == Permutations(Sessions) \cup Permutations(Connections)
=============================================================================
