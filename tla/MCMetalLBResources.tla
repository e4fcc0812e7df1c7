------------------------- MODULE MCMetalLBResources -------------------------
(* Instances of MetalLBResources for TLC.                                   *)
EXTENDS MetalLBResources, TLC

Symmetry == Permutations(Services) \union Permutations(IPs) \union Permutations(Workers)
            \union Permutations(Nodes)

\* The nodes have the same BGP data at first, whichever they are.
MCInit == Init /\ cluster = [n \in Nodes |-> CHOOSE p \in Specs : TRUE]
MCSpec == MCInit /\ [][Next]_vars

\* A service in the queue is not being set up or waiting for an update of its nodes as
\* well.
QueuedOnce ==
    \A s \in due : s \notin stale /\ \A w \in Workers : task[w].s = s => task[w].op # "add"

\* What follows a write of an outdated resource is not looked at, nor what happens
\* when there is nothing left to be said of any service.
UpToDate == ~outdated /\ hurt # Services
=============================================================================
