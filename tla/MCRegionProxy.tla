---------------------------- MODULE MCRegionProxy ----------------------------
(***************************************************************************)
(* Small instances of RegionProxy.  Clusters, and handlers, are            *)
(* interchangeable in the runs that check invariants only.                 *)
(***************************************************************************)
EXTENDS RegionProxy, TLC

Symmetry == Permutations(Clusters) \cup Permutations(Requests)

=============================================================================
