------------------------ MODULE MCConnectionLifecycle ------------------------
(***************************************************************************)
(* Instances of ConnectionLifecycle for TLC.  Two connections on one loop  *)
(* turn each other's wheel; with two loops they are spread and removed     *)
(* through the same main loop.                                             *)
(***************************************************************************)
EXTENDS ConnectionLifecycle, TLC

\* The connections are interchangeable.
Symmetry == Permutations(Conns)
=============================================================================
