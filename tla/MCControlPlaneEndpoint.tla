----------------------- MODULE MCControlPlaneEndpoint -----------------------
(* Instances of ControlPlaneEndpoint for TLC.                               *)
EXTENDS ControlPlaneEndpoint, TLC

Symmetry == Permutations(Nodes) \union Permutations(KubePorts)

\* Bound: a move changes two Nodes, and an event of something else comes with theirs.
ShortQueue == Len(queue) <= 3
=============================================================================
