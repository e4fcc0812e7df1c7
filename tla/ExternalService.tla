--------------------------- MODULE ExternalService ---------------------------
(* The Service kube-system/cloud-provider-equinix-metal-kubernetes-external  *)
(* and its EndpointSlice, which mirror default/kubernetes.  They are applied *)
(* by the control plane endpoint manager ("eip"), which puts the Elastic IP  *)
(* on them, and by the control plane load balancer manager ("lb"), which     *)
(* names a managed load balancer on them.  Each has informers of its own and *)
(* one handler at a time for slices and one for services.  The service       *)
(* controller calls EnsureLoadBalancer for the external Service like any     *)
(* other.  Server-side apply is modelled by who owns which field.            *)
EXTENDS Integers, Sequences, FiniteSets, SequencesExt

CONSTANTS
    Kubernetes,    \* the EndpointSlice kubernetes in default
    Others,        \* the slices of other services in default
    Deployments,   \* which managers are configured: the sets that may be
    ServersPorts,  \* the ports the API servers may listen on
    OwnPort,       \* the port of the Service default/kubernetes itself
    PortSettings,  \* the values apiServerPort may be configured to, 0 for none
    EIPs,          \* addresses the tag of the control plane may be put on
    Nil,           \* no address, no slice
    Disturbances,  \* which of "call" "crash" "missed" "delete" "edit" happen
    MaxFaults,     \* bound on them
    MaxChanges     \* bound on changes of what is mirrored

ASSUME DeploymentsAssumption == Deployments \subseteq (SUBSET {"eip", "lb"}) \ {{}}
ASSUME DisturbancesAssumption ==
    Disturbances \subseteq {"call", "crash", "missed", "delete", "edit"}
ASSUME BoundsAssumption == MaxFaults \in Nat /\ MaxChanges \in Nat
ASSUME NamesAssumption == Kubernetes \notin Others /\ Nil \notin Others \union EIPs \union {Kubernetes}

VARIABLES
    managers, setting,  \* the configuration: EIP tag and load balancer ID, apiServerPort
    slices,    \* name -> version of the slices the filter accepts, 0 when there is none
    target,    \* the targetPort of default/kubernetes
    tagged,    \* the address whose reservation has the tag
    mirror,    \* the external EndpointSlice: of which slice and version, and who owns it
    svc,       \* the external Service
    queued,    \* does the service controller have it in its queue?
    ports,     \* manager -> nodeAPIServerPort and apiServerPort
    events,    \* manager -> the events of its two informers
    pass,      \* manager -> the syncService under way
    sync,      \* the service controller's sync of the external Service
    faults, changes

config   == <<managers, setting>>
original == <<slices, target, tagged>>
external == <<mirror, svc, queued>>
memory   == <<ports, events, pass, sync>>
vars     == <<config, original, external, memory, faults, changes>>

Names == {Kubernetes} \union Others

\* A field of an applied object: its value and who owns it.
Field(values) == [value : values, owners : SUBSET {"ccm", "controller", "user"}]
Unset == [value |-> Nil, owners |-> {}]

NoMirror  == [of |-> Nil, version |-> 0, edited |-> FALSE]
NoService == [exists |-> FALSE, deleting |-> FALSE, mark |-> Nil, ip |-> Unset,
              status |-> Unset, port |-> 0, target |-> 0]
NoPass == [pc |-> "idle", target |-> 0, ip |-> Nil]
NoSync == [pc |-> "idle", ip |-> Nil, was |-> Nil]
Unlearnt == [node |-> 0, api |-> setting]

Slice(n) == [of |-> n, version |-> slices[n]]
Copy(e) == [of |-> e.of, version |-> e.version, edited |-> FALSE]
Present(without) == {Slice(n) : n \in {n \in Names \ without : slices[n] > 0}}

----------------------------------------------------------------------------
(* Events.  A change is handed to each manager's informer in order; a resync *)
(* hands on all that is cached, in the order of a map.                       *)

\* The filter: not (another namespace and another name).  Slices of other
\* namespaces are not in Names.
Accepted(e) == e.of \in Names

Delivered(e) == IF Accepted(e) THEN <<e>> ELSE <<>>

\* Mutant: an informer that is never resynced.
NeverRelisted(present) == {<<>>}

\* The events of slices after a start or a resync.
Relisted(present) == SetToSeqs({e \in present : Accepted(e)})

AddSlice(e) == events' = [m \in managers |-> [events[m] EXCEPT !.slices = @ \o Delivered(e)]]
AddTarget(p) == events' = [m \in managers |-> [events[m] EXCEPT !.services = Append(@, p)]]

\* The process starts: everything there is, is added.
Start(present) ==
    /\ events' \in [managers -> {[slices |-> order, services |-> <<target>>] : order \in SetToSeqs(present)}]
    /\ ports' = [m \in managers |-> Unlearnt]
    /\ pass' = [m \in managers |-> NoPass]
    /\ sync' = NoSync
    /\ queued' = svc.exists

Init ==
    /\ managers \in Deployments
    /\ setting \in PortSettings
    /\ slices = [n \in Names |-> IF n = Kubernetes THEN 1 ELSE 0]
    /\ target \in ServersPorts
    /\ tagged \in EIPs \union {Nil}
    /\ mirror = NoMirror
    /\ svc = NoService
    /\ queued = FALSE
    /\ sync = NoSync
    /\ events = [m \in managers |-> [slices |-> <<Slice(Kubernetes)>>, services |-> <<target>>]]
    /\ ports = [m \in managers |-> Unlearnt]
    /\ pass = [m \in managers |-> NoPass]
    /\ faults = 0
    /\ changes = 0

Disturb(kind) ==
    /\ kind \in Disturbances
    /\ faults < MaxFaults
    /\ faults' = faults + 1

Change ==
    /\ changes < MaxChanges
    /\ changes' = changes + 1

----------------------------------------------------------------------------
(* What is mirrored changes. *)

\* The API servers come and go, or another service's endpoints do.
SliceChanges(n) ==
    /\ Change
    /\ slices' = [slices EXCEPT ![n] = changes + 2]
    /\ AddSlice([of |-> n, version |-> changes + 2])
    /\ UNCHANGED <<config, target, tagged, external, ports, pass, sync, faults>>

\* There is no handler of deletions.
OtherDeleted(n) ==
    /\ Change
    /\ slices[n] > 0
    /\ slices' = [slices EXCEPT ![n] = 0]
    /\ UNCHANGED <<config, target, tagged, external, memory, faults>>

ServersMove(p) ==
    /\ Change
    /\ p # target
    /\ target' = p
    /\ AddTarget(p)
    /\ UNCHANGED <<config, slices, tagged, external, ports, pass, sync, faults>>

\* The tag is put on another reservation, or taken off.
Retag(a) ==
    /\ Change
    /\ a # tagged
    /\ tagged' = a
    /\ UNCHANGED <<config, slices, target, external, memory, faults>>

Resync(m) ==
    /\ events[m] = [slices |-> <<>>, services |-> <<>>]
    /\ pass[m] = NoPass
    /\ \E order \in Relisted(Present({})) :
        events' = [events EXCEPT ![m] = [slices |-> order, services |-> <<target>>]]
    /\ UNCHANGED <<config, original, external, ports, pass, sync, faults, changes>>

----------------------------------------------------------------------------
(* A call of the API may do nothing and fail, or do what was asked and lose  *)
(* the answer.  Apply is also refused when it would change a field somebody  *)
(* else owns.                                                                *)

Conflicts(field, value) == field.value # value /\ field.owners \ {"ccm"} # {}

Owned(field, value) == [value |-> value, owners |-> field.owners \union {"ccm"}]

\* A field that was applied and is not any more goes, unless somebody else owns it.
Disowned(field) ==
    IF field.owners \subseteq {"ccm"} THEN Unset ELSE [field EXCEPT !.owners = @ \ {"ccm"}]

\* allowed: the API grants it; Effect: what is then so; Next step on success, on failure.
Call(allowed, Effect, Nothing, Continue, Abandon) ==
    \/ allowed /\ Effect /\ Continue /\ UNCHANGED faults
    \/ ~allowed /\ Nothing /\ Abandon /\ UNCHANGED faults
    \/ Disturb("call") /\ Nothing /\ Abandon
    \/ allowed /\ Disturb("call") /\ Effect /\ Abandon

----------------------------------------------------------------------------
(* syncEndpoints of both managers: one Apply, with the endpoints of the event. *)

\* Mutant: each event in a goroutine of its own.
LastFirst(q) == Len(q)

\* Events are handled one at a time, in order.
Handled(q) == 1

ApplySlice(m) ==
    LET q == events[m].slices
        e == q[Handled(q)] IN
    /\ q # <<>>
    /\ events' = [events EXCEPT ![m].slices = RemoveAt(q, Handled(q))]
    /\ Call(~mirror.edited,
            mirror' = Copy(e), UNCHANGED mirror,
            TRUE, TRUE)
    /\ UNCHANGED <<config, original, svc, queued, ports, pass, sync, changes>>

----------------------------------------------------------------------------
(* syncService *)

End(m) == pass' = [pass EXCEPT ![m] = NoPass]

\* Mutant: a port that is known is not looked at again.
LearntOnce(m, p) ==
    [node |-> IF ports[m].node = 0 THEN p ELSE ports[m].node,
     api |-> IF ports[m].api = 0 THEN p ELSE ports[m].api]

\* Mutant: the port of the Service in place of its targetPort.
LearntOfService(m, p) ==
    [node |-> p, api |-> IF m = "eip" /\ ports[m].api = 0 THEN OwnPort ELSE ports[m].api]

\* The endpoint manager keeps the first port it has learnt as the port of the EIP.
Learnt(m, p) ==
    [node |-> p, api |-> IF m = "eip" /\ ports[m].api = 0 THEN p ELSE ports[m].api]

BeginService(m) ==
    LET p == Head(events[m].services) IN
    /\ pass[m] = NoPass /\ events[m].services # <<>>
    /\ events' = [events EXCEPT ![m].services = Tail(@)]
    /\ ports' = [ports EXCEPT ![m] = Learnt(m, p)]
    /\ pass' = [pass EXCEPT ![m] = [NoPass EXCEPT !.pc = IF m = "eip" THEN "find" ELSE "apply",
                                                  !.target = p]]
    /\ UNCHANGED <<config, original, external, sync, faults, changes>>

\* getControlPlaneEndpointReservation: none is an error.
FindReservation ==
    LET m == "eip" IN
    /\ m \in managers /\ pass[m].pc = "find"
    /\ Call(tagged # Nil, TRUE, TRUE,
            pass' = [pass EXCEPT ![m].pc = "apply", ![m].ip = tagged], End(m))
    /\ UNCHANGED <<config, original, external, ports, events, sync, changes>>

\* What each manager applies.  The endpoint manager copies the ports of the Service
\* as they are; the other puts the configured port, or the servers', on the first.
AppliedPort(m, t) ==
    IF m = "eip" THEN OwnPort ELSE IF setting # 0 THEN setting ELSE t

AppliedService(m) ==
    [svc EXCEPT !.exists = TRUE, !.mark = m, !.port = AppliedPort(m, pass[m].target),
                !.target = pass[m].target,
                !.ip = IF m = "eip" THEN Owned(@, pass[m].ip) ELSE Disowned(@)]

\* The service controller looks at a Service again when its spec or annotations change.
Watched(s) == <<s.exists, s.deleting, s.mark, s.port, s.target, s.ip.value>>

ApplyService(m) ==
    /\ pass[m].pc = "apply"
    /\ Call(m = "eip" => ~Conflicts(svc.ip, pass[m].ip),
            svc' = AppliedService(m) /\ queued' = (queued \/ Watched(svc') # Watched(svc)),
            UNCHANGED <<svc, queued>>,
            IF m = "eip" THEN pass' = [pass EXCEPT ![m].pc = "status"] ELSE End(m), End(m))
    /\ UNCHANGED <<config, original, mirror, ports, events, sync, changes>>

\* The status of a Service that is gone cannot be applied.
ApplyStatus ==
    LET m == "eip" IN
    /\ m \in managers /\ pass[m].pc = "status"
    /\ Call(svc.exists /\ ~Conflicts(svc.status, pass[m].ip),
            svc' = [svc EXCEPT !.status = Owned(@, pass[m].ip)], UNCHANGED svc, End(m), End(m))
    /\ UNCHANGED <<config, original, mirror, queued, ports, events, sync, changes>>

----------------------------------------------------------------------------
(* The service controller and the external Service: EnsureLoadBalancer with  *)
(* retrieveIPByTag where the Elastic IP is managed.  The other implementation *)
(* puts its own status on the Service, which is not followed here.           *)

SyncFails == sync' = NoSync /\ queued' = TRUE
SyncEnds  == sync' = NoSync /\ UNCHANGED queued

BeginSync ==
    /\ sync = NoSync /\ queued /\ svc.exists
    /\ queued' = FALSE
    /\ sync' = IF svc.deleting THEN [NoSync EXCEPT !.pc = "remove"]
               ELSE IF "eip" \in managers
               THEN [pc |-> "list", ip |-> svc.ip.value, was |-> svc.status.value]
               ELSE NoSync
    /\ UNCHANGED <<config, original, mirror, svc, ports, events, pass, faults, changes>>

\* EnsureLoadBalancerDeleted finds no reservation of this Service; the finalizer goes.
RemoveSync ==
    /\ sync.pc = "remove"
    /\ Call(TRUE, svc' = NoService, UNCHANGED svc, SyncEnds, SyncFails)
    /\ UNCHANGED <<config, original, mirror, ports, events, pass, changes>>

\* Mutant: the address of the reservation, whatever the spec says.
AddressOfTag == tagged

\* The address of the spec; that of the reservation when the spec has none.
AddressFound == IF sync.ip # Nil THEN sync.ip ELSE tagged

ListSync ==
    /\ sync.pc = "list"
    /\ Call(AddressFound # Nil, TRUE, TRUE,
            /\ sync' = [sync EXCEPT !.pc = IF sync.ip # Nil THEN "patch" ELSE "update",
                                    !.ip = AddressFound]
            /\ UNCHANGED queued,
            SyncFails)
    /\ UNCHANGED <<config, original, mirror, svc, ports, events, pass, changes>>

\* A write that changes a field makes the writer its only owner.
Written(field, value) ==
    IF field.value = value THEN field ELSE [value |-> value, owners |-> {"controller"}]

UpdateSync ==
    /\ sync.pc = "update"
    /\ Call(svc.exists, svc' = [svc EXCEPT !.ip = Written(@, sync.ip)], UNCHANGED svc,
            sync' = [sync EXCEPT !.pc = "patch"], sync' = NoSync)
    /\ queued' = (queued \/ sync' = NoSync \/ Watched(svc') # Watched(svc))
    /\ UNCHANGED <<config, original, mirror, ports, events, pass, changes>>

\* The controller patches the status if it is not what it was at the beginning.
PatchSync ==
    /\ sync.pc = "patch"
    /\ IF sync.ip = sync.was
       THEN SyncEnds /\ UNCHANGED <<svc, faults>>
       ELSE Call(svc.exists, svc' = [svc EXCEPT !.status = Written(@, sync.ip)], UNCHANGED svc,
                 SyncEnds, SyncFails)
    /\ UNCHANGED <<config, original, mirror, ports, events, pass, changes>>

----------------------------------------------------------------------------
(* Disturbances *)

Crash ==
    /\ Disturb("crash")
    /\ Start(Present({}))
    /\ UNCHANGED <<config, original, mirror, svc, changes>>

\* A deletion the watch has missed comes as DeletedFinalStateUnknown: the filter
\* reads the namespace of a nil object and panics.
MissedDeletion(n) ==
    /\ Disturb("missed")
    /\ slices[n] > 0
    /\ slices' = [slices EXCEPT ![n] = 0]
    /\ Start(Present({n}))
    /\ UNCHANGED <<config, target, tagged, mirror, svc, changes>>

\* Somebody deletes what was applied, or changes it and owns it from then on.
ServiceDeleted ==
    /\ Disturb("delete")
    /\ svc.exists /\ ~svc.deleting
    /\ svc' = [svc EXCEPT !.deleting = TRUE]
    /\ queued' = TRUE
    /\ UNCHANGED <<config, original, mirror, memory, changes>>

MirrorDeleted ==
    /\ Disturb("delete")
    /\ mirror # NoMirror
    /\ mirror' = NoMirror
    /\ UNCHANGED <<config, original, svc, queued, memory, changes>>

MirrorEdited ==
    /\ Disturb("edit")
    /\ mirror # NoMirror
    /\ mirror' = [NoMirror EXCEPT !.edited = TRUE]
    /\ UNCHANGED <<config, original, svc, queued, memory, changes>>

EIPManager == FindReservation \/ ApplyStatus
Controller == BeginSync \/ RemoveSync \/ ListSync \/ UpdateSync \/ PatchSync

Next ==
    \/ \E m \in managers : ApplySlice(m) \/ BeginService(m) \/ ApplyService(m) \/ Resync(m)
    \/ FindReservation \/ ApplyStatus
    \/ BeginSync \/ RemoveSync \/ ListSync \/ UpdateSync \/ PatchSync
    \/ \E n \in Names : SliceChanges(n)
    \/ \E n \in Others : OtherDeleted(n) \/ MissedDeletion(n)
    \/ \E p \in ServersPorts : ServersMove(p)
    \/ \E a \in EIPs \union {Nil} : Retag(a)
    \/ Crash \/ ServiceDeleted \/ MirrorDeleted \/ MirrorEdited

Spec == Init /\ [][Next]_vars

\* The informers' goroutines and the service controller run; the resync period elapses.
Fairness ==
    /\ \A m \in {"eip", "lb"} :
        /\ WF_vars(m \in managers /\ ApplySlice(m))
        /\ WF_vars(m \in managers /\ (BeginService(m) \/ ApplyService(m)))
        /\ SF_vars(m \in managers /\ Resync(m))
    /\ WF_vars(EIPManager)
    /\ WF_vars(Controller)

FairSpec == Spec /\ Fairness

----------------------------------------------------------------------------
(* Properties *)

Address == EIPs \union {Nil}
Versions == 0 .. MaxChanges + 1
Event == [of : Names, version : Versions]
Mirrors == [of : Names \union {Nil}, version : Versions, edited : BOOLEAN]
Services == [exists : BOOLEAN, deleting : BOOLEAN, mark : {"eip", "lb", Nil}, ip : Field(Address),
             status : Field(Address), port : ServersPorts \union PortSettings \union {OwnPort, 0},
             target : ServersPorts \union {0}]
Ports == [node : ServersPorts \union {0}, api : ServersPorts \union PortSettings \union {0}]
Queues == [slices : Seq(Event), services : Seq(ServersPorts)]
Passes == [pc : {"idle", "find", "apply", "status"}, target : ServersPorts \union {0}, ip : Address]
Syncs == [pc : {"idle", "list", "update", "patch", "remove"}, ip : Address, was : Address]

\* Every variable keeps its type: ports are those of the servers or configured, and nothing
\* is applied but what the manager was told.
TypeOK ==
    /\ managers \in Deployments /\ setting \in PortSettings
    /\ slices \in [Names -> Versions] /\ target \in ServersPorts /\ tagged \in Address
    /\ mirror \in Mirrors /\ svc \in Services /\ queued \in BOOLEAN
    /\ ports \in [managers -> Ports] /\ events \in [managers -> Queues]
    /\ pass \in [managers -> Passes] /\ sync \in Syncs
    /\ faults \in 0 .. MaxFaults /\ changes \in 0 .. MaxChanges

\* With one manager the external slice is never put from one state of a slice of default to an
\* earlier state of the same slice, whatever fails, is resynced or starts again; between two
\* slices it may go to and fro (eip_controlplane_reconciliation.go:436).
NeverGoesBack ==
    [][Cardinality(managers) = 1 /\ mirror'.of = mirror.of => mirror'.version >= mirror.version]_vars

\* When nothing is under way the status of the external Service shows the address of its
\* spec: the endpoint manager and the service controller both write it, each from what it
\* read before (eip_controlplane_reconciliation.go:547, loadbalancers.go:179).  The service
\* controller is part of it: it makes good a status that the manager failed to apply, which
\* without it stays until the next resync.
RestsConsistent ==
    managers = {"eip"} /\ svc.exists /\ ~svc.deleting /\ ~queued /\ sync = NoSync /\ pass["eip"] = NoPass
        => svc.status.value = svc.ip.value

\* When no other service has endpoints in default and nobody has taken the slice over, it
\* becomes that of default/kubernetes and stays so, with one manager or two
\* (eip_controlplane_reconciliation.go:165).
Alone == (\A o \in Others : slices[o] = 0) /\ ~mirror.edited
EventuallyMirrored == <>[]Alone => <>[](mirror = Copy(Slice(Kubernetes)))

\* The external Service comes to send to the port the servers listen on, the manager knows that
\* port, and the tagged address is in spec and status (eip_controlplane_reconciliation.go:503).
ServedBy(m) ==
    /\ svc.exists /\ svc.target = target /\ ports[m].node = target
    /\ m = "eip" => svc.ip.value = tagged /\ svc.status.value = tagged
EventuallyServed ==
    Cardinality(managers) = 1 /\ <>[]("eip" \in managers => tagged # Nil)
        => <>[](\A m \in managers : ServedBy(m))

\* README.md:678 "Updates the service kube-system/cloud-provider-equinix-metal-kubernetes-external
\* to have endpoints identical to those in default/kubernetes": the filter lets the slices of
\* every service of the namespace default through (eip_controlplane_reconciliation.go:159).
EndpointsIdentical == <>[](mirror = Copy(Slice(Kubernetes)))

=============================================================================
