-------------------------- MODULE MCNetworkResource --------------------------
(* Small instances of NetworkResource.  Addresses are interchangeable, and so *)
(* are listener tasks; liveness is checked without symmetry.                  *)
EXTENDS NetworkResource, TLC

Symmetry == Permutations(Addr) \cup Permutations(Listener)
=============================================================================
