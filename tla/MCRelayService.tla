--------------------------- MODULE MCRelayService ---------------------------
(* Instances of RelayService for TLC: two connections of the host, two     *)
(* guests, a session code and its password.                                *)
EXTENDS RelayService, TLC

CONSTANTS h1, h2, g1, g2

MCSymmetry == Permutations({g1, g2}) \cup Permutations({h1, h2})
=============================================================================
