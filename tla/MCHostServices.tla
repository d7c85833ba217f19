--------------------------- MODULE MCHostServices ---------------------------
(* The services of the host on small sets.  A behaviour follows one service, *)
(* so the sets of different services share their members.                    *)
EXTENDS HostServices, TLC

Symmetry ==
  Permutations(Tx) \cup Permutations(Op) \cup Permutations(Caller)
=============================================================================
