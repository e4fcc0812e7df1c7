------------------------- MODULE MCMetalLBConfigMap -------------------------
(* Instances of MetalLBConfigMap for TLC.                                   *)
EXTENDS MetalLBConfigMap, TLC

Symmetry == Permutations(Services) \union Permutations(IPs) \union Permutations(Workers)
            \union Permutations(Nodes)

\* What follows a meeting of two calls is not explored.
NoneMet == ~overlap
=============================================================================
