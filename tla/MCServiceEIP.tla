---------------------------- MODULE MCServiceEIP ----------------------------
(* Instances of ServiceEIP for TLC.                                         *)
EXTENDS ServiceEIP, TLC

Symmetry == Permutations(Services) \union Permutations(IPs)
=============================================================================
