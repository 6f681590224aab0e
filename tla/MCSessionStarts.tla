-------------------------- MODULE MCSessionStarts --------------------------
(* SessionStarts on small instances.                                       *)
EXTENDS SessionStarts, TLC

Symmetry == Permutations(Sessions) \cup Permutations(Calls) \cup Permutations(Notebooks)

\* A window that has no sessions to restore.
NothingToRestore ==
  Init /\ [][Next /\ (used' = used \/ \E c \in Calls, s \in Sessions : SessionCreated(c, s))]_vars
=============================================================================
