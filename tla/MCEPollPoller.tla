--------------------------- MODULE MCEPollPoller ---------------------------
(* Instances of EPollPoller for TLC. *)
EXTENDS EPollPoller, TLC

\* Places in memory and numbers of descriptors are interchangeable.
Symmetry == Permutations(Channels) \cup Permutations(Fds)
=============================================================================
