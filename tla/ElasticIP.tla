------------------------------ MODULE ElasticIP ------------------------------
(***************************************************************************)
(* What the control plane endpoint manager promises of the Elastic IP,     *)
(* without the informer, the health checks and the calls: one move at a    *)
(* time, the old device released before the new one is assigned, and the   *)
(* EIP given only to an API server that was seen up since the search for a *)
(* new device began, or to a device that the holder of the EIP answered    *)
(* for.  Operators may assign and release devices at any time.             *)
(***************************************************************************)
CONSTANT Nodes

VARIABLES
    up,         \* the devices whose API server answers
    assigned,   \* devices the EIP is assigned to
    manual,     \* those an operator assigned
    wasUp,      \* devices seen up since the search began
    stood       \* the device the EIP's holder answered for

vars == <<up, assigned, manual, wasUp, stood>>

AtMostOne(S) == \A a, b \in S : a = b

\* No device has the EIP by the manager's doing.
Free == assigned \subseteq manual

Init ==
    /\ up \subseteq Nodes
    /\ AtMostOne(assigned)
    /\ assigned \subseteq Nodes
    /\ manual = {}
    /\ wasUp = {}
    /\ stood = {}

\* The search for a new device begins, or ends without a move.
Search ==
    /\ wasUp' \in {{}, up}
    /\ stood' = {}
    /\ UNCHANGED <<up, assigned, manual>>

\* An API server that has the EIP answers in place of n.
StandIn(n) ==
    /\ assigned \cap up # {}
    /\ stood' = {n}
    /\ UNCHANGED <<up, assigned, manual, wasUp>>

\* The device that has the EIP is released.
Release(n) ==
    /\ n \in assigned
    /\ assigned' = assigned \ {n}
    /\ manual' = manual \ {n}
    /\ <<wasUp', stood'>> \in {<<{}, {}>>, <<wasUp, stood>>}
    /\ UNCHANGED up

Assign(n) ==
    /\ Free
    /\ n \in wasUp \union stood
    /\ assigned' = assigned \union {n}
    /\ wasUp' = {}
    /\ stood' = {}
    /\ UNCHANGED <<up, manual>>

OperatorAssigns(n) ==
    /\ n \notin assigned
    /\ assigned' = assigned \union {n}
    /\ manual' = manual \union {n}
    /\ UNCHANGED <<up, wasUp, stood>>

ServerStops(n) ==
    /\ n \in up
    /\ up' = up \ {n}
    /\ UNCHANGED <<assigned, manual, wasUp, stood>>

ServerStarts(n) ==
    /\ n \notin up
    /\ up' = up \union {n}
    /\ wasUp' \in {wasUp, wasUp \union {n}}
    /\ UNCHANGED <<assigned, manual, stood>>

Next ==
    \/ Search
    \/ \E n \in Nodes :
         \/ StandIn(n) \/ Release(n) \/ Assign(n)
         \/ OperatorAssigns(n) \/ ServerStops(n) \/ ServerStarts(n)

Spec == Init /\ [][Next]_vars
=============================================================================
