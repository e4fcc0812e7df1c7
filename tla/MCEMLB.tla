------------------------------- MODULE MCEMLB -------------------------------
(* Instances of EMLB for TLC.                                               *)
EXTENDS EMLB, TLC

Symmetry == Permutations(Nodes) \union Permutations(Ports)
=============================================================================
