--------------------------- MODULE MCSessionDebug ---------------------------
EXTENDS SessionDebug, TLC

Symmetry == Permutations(Requests) \cup Permutations(RunTasks)
                \cup Permutations(Clients) \cup Permutations(Addresses)

\* The operations that change the breakpoints or let the machine run, and a
\* read, which takes several commands.  A step is a command like these, and a
\* GET the first await of one.
MCOffered == ({"add", "remove"} \X Addresses) \cup ({"read", "pause", "resume"} \X {None})
=============================================================================
