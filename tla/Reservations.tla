---------------------------- MODULE Reservations ----------------------------
(***************************************************************************)
(* What the service controller and the cloud provider promise of the       *)
(* addresses of services, without calls, tags, retries and queues.  A      *)
(* service that its user wants served is claimed, gets one address at most *)
(* and keeps it until the user no longer wants it: then it is released and *)
(* only after that is the claim given up.  Work that was begun may be      *)
(* dropped at any time, and the rest of the project takes addresses too.   *)
(***************************************************************************)
CONSTANTS Services, IPs, Nobody, Other

VARIABLES
    holder,   \* holder[i]: who has the reservation of address i
    wanted,   \* services whose users want a load balancer
    phase     \* phase[s]: what the provider has taken on for s

vars == <<holder, wanted, phase>>

Init ==
    /\ holder = [i \in IPs |-> Nobody]
    /\ wanted = {}
    /\ phase = [s \in Services |-> "none"]

UserDecides(s) ==
    /\ wanted' \in {wanted \union {s}, wanted \ {s}}
    /\ UNCHANGED <<holder, phase>>

\* Nothing is reserved for a service that is not claimed.
Claim(s) ==
    /\ phase[s] = "none" /\ s \in wanted
    /\ phase' = [phase EXCEPT ![s] = "claimed"]
    /\ UNCHANGED <<holder, wanted>>

Reserve(s, i) ==
    /\ phase[s] = "claimed"
    /\ holder[i] = Nobody /\ \A j \in IPs : holder[j] # s
    /\ holder' = [holder EXCEPT ![i] = s]
    /\ UNCHANGED <<wanted, phase>>

StartRelease(s) ==
    /\ phase[s] = "claimed" /\ s \notin wanted
    /\ phase' = [phase EXCEPT ![s] = "releasing"]
    /\ UNCHANGED <<holder, wanted>>

\* The address is released; the answer may be lost and the release dropped.
Release(s, i) ==
    /\ phase[s] = "releasing" /\ holder[i] = s
    /\ holder' = [holder EXCEPT ![i] = Nobody]
    /\ phase' \in {phase, [phase EXCEPT ![s] = "claimed"]}
    /\ UNCHANGED wanted

\* A service is no longer claimed when nothing is reserved for it.
EndRelease(s) ==
    /\ phase[s] = "releasing" /\ \A i \in IPs : holder[i] # s
    /\ phase' = [phase EXCEPT ![s] = "none"]
    /\ UNCHANGED <<holder, wanted>>

\* Releases are cut off, to be begun again.
Drop(S) ==
    /\ \A s \in S : phase[s] = "releasing"
    /\ phase' = [s \in Services |-> IF s \in S THEN "claimed" ELSE phase[s]]
    /\ UNCHANGED <<holder, wanted>>

OtherReserves(i) ==
    /\ holder[i] = Nobody
    /\ holder' = [holder EXCEPT ![i] = Other]
    /\ UNCHANGED <<wanted, phase>>

Next ==
    \/ \E s \in Services :
         \/ UserDecides(s) \/ Claim(s) \/ StartRelease(s) \/ EndRelease(s)
         \/ \E i \in IPs : Reserve(s, i) \/ Release(s, i)
    \/ \E S \in SUBSET Services : Drop(S)
    \/ \E i \in IPs : OtherReserves(i)

Spec == Init /\ [][Next]_vars
=============================================================================
