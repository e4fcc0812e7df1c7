----------------------------- MODULE ServiceEIP -----------------------------
(***************************************************************************)
(* The Elastic IPs of services of type=LoadBalancer: EnsureLoadBalancer,   *)
(* EnsureLoadBalancerDeleted and addService of metal/loadbalancers.go, for *)
(* the load balancers that use BGP.                                        *)
(*                                                                         *)
(* The service controller of k8s.io/cloud-provider calls the handlers. It  *)
(* syncs one service in at most one worker at a time, as many services at  *)
(* a time as it has workers, and repeats a sync that fails.  task[s] is    *)
(* the sync of service s, with each of its calls a step of its own.        *)
(* "due" is its work queue: created and changed services, failed syncs,    *)
(* and every service when the controller starts.                           *)
(* The Service objects outlive the controller; finalizers keep a deleted   *)
(* Service in the API until its load balancer is gone.                     *)
(*                                                                         *)
(* The load balancer proper (MetalLB's ConfigMap or custom resources) is   *)
(* kept to the set of addresses it maps to services.                       *)
(***************************************************************************)
EXTENDS Integers, FiniteSets

CONSTANTS
    Services,      \* services by namespace and name, which their tags identify
    IPs,           \* addresses Equinix Metal has
    NoIP,          \* spec.loadBalancerIP is empty, or no reservation
    Nobody,        \* holder of an address that is not reserved
    Other,         \* holder of an address reserved without this cluster's tags
    Workers,       \* syncs at a time: --concurrent-service-syncs
    PoolByName,    \* IPAddressPool resources, named by service; else ConfigMap
    Disturbances,  \* the kinds of disturbance that may happen
    MaxFaults      \* bound on their number

ASSUME NoIPAssumption == NoIP \notin IPs
ASSUME HolderAssumption == Nobody \notin Services \union {Other} /\ Other \notin Services
ASSUME PoolAssumption == PoolByName \in BOOLEAN
ASSUME WorkersAssumption == Workers \in Nat \ {0}
ASSUME FaultsAssumption ==
    /\ Disturbances \subseteq {"call", "crash", "retype", "byo", "other"}
    /\ MaxFaults \in Nat

VARIABLES
    service,   \* the Service objects of the Kubernetes API
    holder,    \* holder[i]: who has the reservation of address i
    pools,     \* pairs of a service and an address the load balancer maps
    due,       \* services whose key is in the controller's queue
    task,      \* the sync under way for each service
    faults     \* disturbances so far

vars == <<service, holder, pools, due, task, faults>>

-----------------------------------------------------------------------------
ServiceObject == [exists: BOOLEAN, wants: BOOLEAN, ip: IPs \union {NoIP},
                  deleting: BOOLEAN, finalizer: BOOLEAN]

Task == [pc: {"idle", "find", "request", "save", "map",
              "check", "lookup", "release", "unmap", "finalize"},
         ip: IPs \union {NoIP}]   \* spec.loadBalancerIP read, then the address in work

NoTask == [pc |-> "idle", ip |-> NoIP]
Absent == [exists |-> FALSE, wants |-> FALSE, ip |-> NoIP,
           deleting |-> FALSE, finalizer |-> FALSE]

Disturb(kind) ==
    /\ kind \in Disturbances
    /\ faults < MaxFaults
    /\ faults' = faults + 1

Goto(s, pc)         == task' = [task EXCEPT ![s].pc = pc]
GotoWith(s, pc, ip) == task' = [task EXCEPT ![s] = [pc |-> pc, ip |-> ip]]
Return(s)           == task' = [task EXCEPT ![s] = NoTask]
Enqueue(s)          == due' = due \union {s}

\* An error ends the sync of s, which is repeated later.
Fail(s) == Return(s) /\ Enqueue(s)

\* Mutant: the reservation of the address in the spec will do as well.
ReservationsByAddress(s) ==
    {i \in IPs : holder[i] = s \/ (i = service[s].ip /\ holder[i] # Nobody)}

\* Mutant: any one of the tags will do, and each reservation has the cluster's.
ReservationsByAnyTag(s) == {i \in IPs : holder[i] \in Services}

\* ipReservationByAllTags: the reservation with the tags of s, if there is one.
ReservationsOf(s) == {i \in IPs : holder[i] = s}

-----------------------------------------------------------------------------
(* The service controller: a sync begins and ends.                          *)

\* A worker takes s from the queue.
Take(s) ==
    /\ task[s].pc = "idle"
    /\ s \in due
    /\ Cardinality({t \in Services : task[t].pc # "idle"}) < Workers
    /\ due' = due \ {s}

\* A service that wants a load balancer gets the finalizer before anything else.
StartEnsure(s) ==
    /\ Take(s)
    /\ service[s].exists /\ service[s].wants /\ ~service[s].deleting
    /\ service' = [service EXCEPT ![s].finalizer = TRUE]
    /\ GotoWith(s, "find", service[s].ip)
    /\ UNCHANGED <<holder, pools, faults>>

\* One that has the finalizer and is deleted, or wants none any more, is cleaned up.
StartDelete(s) ==
    /\ Take(s)
    /\ service[s].finalizer /\ (service[s].deleting \/ ~service[s].wants)
    /\ Goto(s, "check")
    /\ UNCHANGED <<service, holder, pools, faults>>

\* Mutant: a service without a reservation is an error.
GetLoadBalancerRequired(s) ==
    /\ task[s].pc = "check"
    /\ \/ ReservationsOf(s) = {} /\ Fail(s)
       \/ ReservationsOf(s) # {} /\ Goto(s, "lookup") /\ UNCHANGED due
    /\ UNCHANGED <<service, holder, pools, faults>>

\* Mutant: without an address in its spec a service has no reservation.
GetLoadBalancerBySpec(s) ==
    /\ task[s].pc = "check"
    /\ IF service[s].ip = NoIP THEN Goto(s, "finalize") ELSE Goto(s, "lookup")
    /\ UNCHANGED <<service, holder, pools, due, faults>>

\* GetLoadBalancer: without a reservation there is nothing to clean up.
GetLoadBalancer(s) ==
    /\ task[s].pc = "check"
    /\ IF ReservationsOf(s) = {} THEN Goto(s, "finalize") ELSE Goto(s, "lookup")
    /\ UNCHANGED <<service, holder, pools, due, faults>>

\* Without its finalizer a Service being deleted is gone.
RemoveFinalizer(s) ==
    /\ task[s].pc = "finalize"
    /\ service' = [service EXCEPT ![s] =
                     IF service[s].deleting THEN Absent
                     ELSE [service[s] EXCEPT !.finalizer = FALSE]]
    /\ Return(s)
    /\ UNCHANGED <<holder, pools, due, faults>>

-----------------------------------------------------------------------------
(* EnsureLoadBalancer and addService.                                       *)

\* Mutant: an address is requested without a look at the reservations.
FindReservationUnread(s) ==
    /\ task[s].pc = "find"
    /\ Goto(s, IF task[s].ip # NoIP THEN "map" ELSE "request")
    /\ UNCHANGED <<service, holder, pools, due, faults>>

\* The project's reservations are read; an address in the spec is used as it is.
FindReservation(s) ==
    /\ task[s].pc = "find"
    /\ \/ /\ task[s].ip # NoIP
          /\ Goto(s, "map")
       \/ /\ task[s].ip = NoIP
          /\ ReservationsOf(s) = {}
          /\ Goto(s, "request")
       \/ \E i \in ReservationsOf(s) :
            /\ task[s].ip = NoIP
            /\ GotoWith(s, "save", i)
    /\ UNCHANGED <<service, holder, pools, due, faults>>

\* Mutant: a reservation that was refused is saved like another.
RequestReservationUnchecked(s) ==
    /\ task[s].pc = "request"
    /\ \/ \E i \in IPs :
            /\ holder[i] = Nobody
            /\ holder' = [holder EXCEPT ![i] = s]
            /\ GotoWith(s, "save", i)
       \/ /\ \A i \in IPs : holder[i] # Nobody
          /\ Goto(s, "save")
          /\ UNCHANGED holder
    /\ UNCHANGED <<service, pools, due, faults>>

\* Mutant: a refusal is no error, so that the sync is not repeated.
RequestReservationGivesUp(s) ==
    /\ task[s].pc = "request"
    /\ \/ \E i \in IPs :
            /\ holder[i] = Nobody
            /\ holder' = [holder EXCEPT ![i] = s]
            /\ GotoWith(s, "save", i)
       \/ /\ \A i \in IPs : holder[i] # Nobody
          /\ Return(s)
          /\ UNCHANGED holder
    /\ UNCHANGED <<service, pools, due, faults>>

\* RequestIPReservation with the tags of s; refused when no address is left.
RequestReservation(s) ==
    /\ task[s].pc = "request"
    /\ \/ \E i \in IPs :
            /\ holder[i] = Nobody
            /\ holder' = [holder EXCEPT ![i] = s]
            /\ GotoWith(s, "save", i)
            /\ UNCHANGED due
       \/ /\ \A i \in IPs : holder[i] # Nobody
          /\ Fail(s)
          /\ UNCHANGED holder
    /\ UNCHANGED <<service, pools, faults>>

\* The address is written to the latest version of the Service, an update that
\* the controller queues.
SaveIP(s) ==
    /\ task[s].pc = "save"
    /\ service' = [service EXCEPT ![s].ip = task[s].ip]
    /\ Enqueue(s)
    /\ Goto(s, "map")
    /\ UNCHANGED <<holder, pools, faults>>

\* AddService of the load balancer; an IPAddressPool of the service's name that
\* exists is left as it is.
Mapped(s, i) ==
    IF PoolByName /\ \E j \in IPs : <<s, j>> \in pools THEN pools
    ELSE pools \union {<<s, i>>}

MapIP(s) ==
    /\ task[s].pc = "map"
    /\ pools' = Mapped(s, task[s].ip)
    /\ IF ReservationsOf(s) = {} THEN Fail(s) ELSE Return(s) /\ UNCHANGED due
    /\ UNCHANGED <<service, holder, faults>>

-----------------------------------------------------------------------------
(* EnsureLoadBalancerDeleted.                                               *)

LookUpReservation(s) ==
    /\ task[s].pc = "lookup"
    /\ \/ /\ ReservationsOf(s) = {}
          /\ Goto(s, "finalize")
       \/ \E i \in ReservationsOf(s) : GotoWith(s, "release", i)
    /\ UNCHANGED <<service, holder, pools, due, faults>>

\* Mutant: a release that fails is only logged.
ReleaseReservationQuietly(s) ==
    /\ task[s].pc = "release"
    /\ holder' \in {holder, [holder EXCEPT ![task[s].ip] = Nobody]}
    /\ Goto(s, "unmap")
    /\ UNCHANGED <<service, pools, due, faults>>

\* DeleteIPAddress of the reservation.
ReleaseReservation(s) ==
    /\ task[s].pc = "release"
    /\ holder' = [holder EXCEPT ![task[s].ip] = Nobody]
    /\ Goto(s, "unmap")
    /\ UNCHANGED <<service, pools, due, faults>>

\* Mutant: the address is compared with the pool's CIDR.
NoneUnmapped(s, i) == pools

\* RemoveService of the load balancer: the ConfigMap loses every pool of the
\* address, whoever it is for.
Unmapped(s, i) == {p \in pools : IF PoolByName THEN p[1] # s ELSE p[2] # i}

UnmapIP(s) ==
    /\ task[s].pc = "unmap"
    /\ pools' = Unmapped(s, task[s].ip)
    /\ Goto(s, "finalize")
    /\ UNCHANGED <<service, holder, due, faults>>

Start(s) == StartEnsure(s) \/ StartDelete(s)

Worker(s) ==
    \/ Start(s) \/ GetLoadBalancer(s) \/ LookUpReservation(s)
    \/ ReleaseReservation(s) \/ UnmapIP(s) \/ RemoveFinalizer(s)
    \/ FindReservation(s) \/ RequestReservation(s) \/ SaveIP(s) \/ MapIP(s)

-----------------------------------------------------------------------------
(* Failures.                                                                *)

\* Any call of a sync fails; the error ends the sync, which is repeated later.
CallFails(s) ==
    /\ task[s].pc # "idle"
    /\ Disturb("call")
    /\ Fail(s)
    /\ UNCHANGED <<service, holder, pools>>

\* A call that changes something is obeyed and its response lost.
ResponseLost(s) ==
    /\ Disturb("call")
    /\ \/ /\ task[s].pc = "request"
          /\ \E i \in IPs : /\ holder[i] = Nobody
                            /\ holder' = [holder EXCEPT ![i] = s]
          /\ UNCHANGED <<service, pools>>
       \/ /\ task[s].pc = "save"
          /\ service' = [service EXCEPT ![s].ip = task[s].ip]
          /\ UNCHANGED <<holder, pools>>
       \/ /\ task[s].pc = "release"
          /\ holder' = [holder EXCEPT ![task[s].ip] = Nobody]
          /\ UNCHANGED <<service, pools>>
    /\ Fail(s)

\* A lost response to a change of the load balancer or of the finalizer is such
\* a change followed by a failure or a further sync.

\* The controller restarts: every sync is forgotten.
Crash ==
    /\ Disturb("crash")
    /\ task' = [s \in Services |-> NoTask]
    /\ due' = {s \in Services : service[s].exists}
    /\ UNCHANGED <<service, holder, pools>>

-----------------------------------------------------------------------------
(* Users and the rest of the project.                                       *)

\* A service is created, with an address of its own only as a disturbance.
CreateService(s) ==
    /\ ~service[s].exists
    /\ \E ip \in IPs \union {NoIP} :
         /\ service' = [service EXCEPT ![s] = [Absent EXCEPT
                          !.exists = TRUE, !.wants = TRUE, !.ip = ip]]
         /\ IF ip = NoIP THEN UNCHANGED faults ELSE Disturb("byo")
    /\ Enqueue(s)
    /\ UNCHANGED <<holder, pools, task>>

\* The type changes from LoadBalancer or back to it; spec.loadBalancerIP stays.
ChangeType(s) ==
    /\ service[s].exists /\ ~service[s].deleting
    /\ Disturb("retype")
    /\ service' = [service EXCEPT ![s].wants = ~@]
    /\ Enqueue(s)
    /\ UNCHANGED <<holder, pools, task>>

\* Another change of the Service, its ports for instance.
EditService(s) ==
    /\ service[s].exists /\ service[s].wants /\ ~service[s].deleting
    /\ s \notin due
    /\ Enqueue(s)
    /\ UNCHANGED <<service, holder, pools, task, faults>>

DeleteService(s) ==
    /\ service[s].exists /\ ~service[s].deleting
    /\ service' = [service EXCEPT ![s] =
                     IF service[s].finalizer THEN [service[s] EXCEPT !.deleting = TRUE]
                     ELSE Absent]
    /\ Enqueue(s)
    /\ UNCHANGED <<holder, pools, task, faults>>

\* Somebody else reserves a free address.
OtherReserves(i) ==
    /\ holder[i] = Nobody
    /\ Disturb("other")
    /\ holder' = [holder EXCEPT ![i] = Other]
    /\ UNCHANGED <<service, pools, due, task>>

Init ==
    /\ service = [s \in Services |-> Absent]
    /\ holder = [i \in IPs |-> Nobody]
    /\ pools = {}
    /\ due = {}
    /\ task = [s \in Services |-> NoTask]
    /\ faults = 0

Next ==
    \/ \E s \in Services :
         \/ Worker(s)
         \/ CallFails(s) \/ ResponseLost(s)
         \/ CreateService(s) \/ ChangeType(s) \/ EditService(s) \/ DeleteService(s)
    \/ Crash
    \/ \E i \in IPs : OtherReserves(i)

Spec == Init /\ [][Next]_vars

\* The controller's workers run and its queue is first in, first out, so that no
\* service waits for ever; users and others need not do anything.
FairSpec == Spec /\ \A s \in Services : WF_vars(Worker(s)) /\ SF_vars(Start(s))

-----------------------------------------------------------------------------
(* Properties.                                                              *)

\* Every variable keeps its type.
TypeOK ==
    /\ service \in [Services -> ServiceObject]
    /\ holder \in [IPs -> Services \union {Nobody, Other}]
    /\ pools \subseteq Services \X IPs
    /\ due \subseteq Services
    /\ task \in [Services -> Task]
    /\ faults \in 0 .. MaxFaults

\* However often the request for an address fails, loses its response or is cut
\* off by a crash, a service never has two reservations: the next sync finds the
\* first by its tags (lines 414-475).
OneReservation ==
    \A i, j \in IPs : holder[i] \in Services /\ holder[i] = holder[j] => i = j

\* A reservation never outlives its Service: when the object is gone from the API
\* nothing is reserved for it (lines 271-293).
NoOrphanReservation ==
    \A i \in IPs : holder[i] \in Services => service[holder[i]].finalizer

\* A reservation is released only by a cleanup of the service it was made for,
\* never by that of another service whose spec names the same address (lines
\* 277-291 find it by tags, not by address).
ReleasedByOwner ==
    [][\A i \in IPs : holder[i] \in Services /\ holder'[i] # holder[i] =>
         /\ holder'[i] = Nobody
         /\ task[holder[i]] = [pc |-> "release", ip |-> i]]_vars

\* The address the load balancer is given for a service is the one reserved for
\* it, when no user sets an address or changes a type (lines 409-546).
MapsReserved ==
    \A s \in Services : task[s].pc = "map" => holder[task[s].ip] = s

\* What the calls, their retries and crashes amount to, for reservations: one address for each
\* service that is wanted, kept until a cleanup that began when it was not wanted, and
\* gone before the finalizer is (lines 262-305, 397-547).
Cleaning == {"check", "lookup", "release", "unmap", "finalize"}

Wanted(s) == service[s].exists /\ service[s].wants /\ ~service[s].deleting

Phase(s) ==
    IF ~service[s].finalizer THEN "none"
    ELSE IF task[s].pc \in Cleaning THEN "releasing" ELSE "claimed"

Abstract == INSTANCE Reservations
    WITH Services <- Services, IPs <- IPs, Nobody <- Nobody, Other <- Other, holder <- holder,
         wanted <- {s \in Services : Wanted(s)}, phase <- [s \in Services |-> Phase(s)]
ImplementsReservations == Abstract!Spec

\* A deleted Service does not stay in the API for ever: its cleanup ends,
\* whichever of its calls failed before (lines 262-305).
DeletionEnds == \A s \in Services : service[s].deleting ~> ~service[s].exists

\* A service that is left alone gets an address mapped for good, if one is to be
\* had, whatever failed while it was being set up (lines 397-547).  With a
\* ConfigMap and more workers than one it does not hold: between the release of
\* an address and its removal from the ConfigMap another service can get the
\* address and map it, and the removal then undoes that (lines 291-301).
Available(s) == \E i \in IPs : holder[i] \in {s, Nobody}

EventuallyServed ==
    \A s \in Services :
        <>[](service[s].wants /\ ~service[s].deleting /\ Available(s))
            => <>[](\E i \in IPs : holder[i] = s /\ <<s, i>> \in pools)

\* What stays mapped for a service that is gone is the trace of a failure, and one
\* failure leaves one address behind for each sync it cuts off: the reservation is
\* released before the address is unmapped, and a cleanup that is cut off between
\* the two finds no reservation when it is repeated (lines 277-301).  An address of the user's
\* own is never unmapped, nor is one kept through a change of type.
LeaksAreFailures ==
    Cardinality({p \in pools : ~service[p[1]].exists}) <= faults * Workers

=============================================================================
