# A TLA+ model of cloud-provider-equinix-metal

This directory models the cloud controller manager (CCM) for Equinix Metal,
`sigs.k8s.io/cloud-provider-equinix-metal`, in TLA+: modules translated from the
Go source, TLC runs that check them on small instances, and theorems about them
that TLAPS checks for every value of the constants.  Line numbers are of the
source at the commit beside this directory.

- [1. The system](#1-the-system)
- [2. Modules](#2-modules)
- [3. Runs](#3-runs)
- [4. Proofs](#4-proofs)
- [5. Known behaviour without a property](#5-known-behaviour-without-a-property)
- [6. Not modelled](#6-not-modelled)
- [7. What could follow](#7-what-could-follow)

## 1. The system

The CCM is one process in the cluster.  It registers a cloud provider with the
controllers of `k8s.io/cloud-provider` (service, node, node lifecycle), and starts one
or two managers of its own.  It talks to servers it does not own, the Kubernetes API, the
Equinix Metal API and the load balancer API, and keeps almost all of its state in them.  That is
what makes it hard: every handler is a series of remote reads and writes, any of
which may fail, lose its response or be the last one before a restart, and none
of which is a transaction with the next.

### 1.1 Components

| Component | State it keeps | Operations |
|---|---|---|
| Control plane endpoint manager (`eip_controlplane_reconciliation.go`) | the two ports, in memory; the assignment of the EIP, in Equinix Metal | node update and delete handlers, health check, reassignment; service and endpoint-slice handlers |
| Elastic IPs of services (`loadbalancers.go`, `ipreservations.go`) | reservations with tags in Equinix Metal; `spec.loadBalancerIP` and status in Kubernetes | `GetLoadBalancer`, `EnsureLoadBalancer`, `UpdateLoadBalancer`, `EnsureLoadBalancerDeleted` |
| External control plane service (`syncService`, `syncEndpoints`, `ssa-helpers.go`) | a Service and an EndpointSlice in `kube-system` that mirror `default/kubernetes` | apply on every event of the originals |
| Control plane load balancer manager (`controlplane_load_balancer_manager.go`) | the same pair, for a managed load balancer | as above |
| MetalLB by ConfigMap (`metallb.go`, `configmap.go`, `config.go`) | one ConfigMap; its parsed form in memory, shared by all calls | get, add or remove peers and pools, update |
| MetalLB by custom resources (`cr.go`, `cr_config.go`) | IPAddressPool, BGPAdvertisement, BGPPeer objects | create, patch and delete them |
| Equinix Metal Load Balancer (`emlb/`) | load balancers, pools, origins and ports behind the load balancer API; an annotation of the Service | reconcile, delete |
| Load balancer API client (`internal/lbaas/v1`, `token_exchanger.go`) | none | one request per operation, models encoded and decoded |
| Node annotations and BGP (`annotateNode`, `bgp.go`) | annotations of nodes; BGP sessions of devices | enable BGP, annotate, read neighbours |
| Instances (`devices.go`) | none | node addresses, existence and type, from the device |
| kube-vip, none (`kubevip/`, `empty/`) | none | all return nil |
| Start-up (`main.go`, `cloud.go`, `config.go`) | none after start | read configuration, build the rest |

### 1.2 How they interact

- The **endpoint manager** runs on informers of its own (nodes, services,
  endpoint slices), each with one goroutine.  The node handlers read the ports the
  service handler writes.  The cloud node controller copies the addresses of a
  device into its Node, and with them the EIP: the manager decides who has the EIP
  by that copy, so it sees its own effect through another controller, later.
- The **service controller** calls the load balancer interface from two workers.  One
  takes services (each in at most one worker, `--concurrent-service-syncs` at a time, 1 by
  default): it adds its finalizer before the first call, removes it after the
  last, and repeats a sync that fails.  The other takes changes of the nodes and calls
  `UpdateLoadBalancer` for every service; an update that fails is not repeated, but its service is
  queued with the services, for `EnsureLoadBalancer` (`processNextNodeItem` of `k8s.io/cloud-provider` v0.34.2).
  The two meet in the list of
  reservations, in the MetalLB configuration, in the load balancer of one service, and
  in the Node and Service objects of the informers' caches, which are not copied.
- **MetalLB** (or EMLB) is called last when a service is set up and last when it
  is torn down, after its reservation is made or deleted.
- The **external Service** is applied by a manager, and is then a service like any
  other for the service controller, which looks for the address by the manager's tag
  and writes the same fields.

### 1.3 What is hard, and what would be correct

For each component: the behaviours a test hardly reaches, then the properties that
make it correct.  `PROJECT.json` lists them one by one, each at its line.

- **Endpoint manager.**  The move of the EIP is two calls (delete the assignment,
  create another) made on what a third one read, so that crashes, lost responses and
  operators fall in between; the holder is judged by stale addresses; a probe can
  reach another server than the one it is meant for, once the ports of the EIP and of the nodes have
  parted; events are handled once and
  never repeated.  *Correct:* never two holders by its own doing; only to a server
  that answered, or that the EIP answered for; an unassigned EIP is taken; in the end a healthy server has it.
- **Elastic IPs of services.**  A reservation is made, saved in the Service and
  mapped in three calls; the next sync has to find what the last one left, by tags.
  A cleanup releases first and unmaps later.  *Correct:* one reservation per
  service, none for a service that is gone, none released by another's cleanup,
  nothing mapped that is not reserved, what a removed service leaves mapped bounded by
  the failures; deletions end; services get addresses.
- **MetalLB by ConfigMap.**  Concurrent calls change one parsed configuration and write
  all of it back: service workers, and beside them always the node worker of the service
  controller; a pool several services share by name is removed as a whole; a read
  that fails leaves nil behind for the others.
  *Correct:* a completed call is in the ConfigMap until its own removal, and a call
  changes nothing but its own entries.
- **MetalLB by custom resources.**  A pool that exists ends the set-up of the
  advertisement; a patch replaces a list by what was computed from an older one;
  the list is cut while it is walked.  *Correct:* what a set-up that succeeded made is
  announced, nothing is left of a service that is gone, and no call takes anything
  from another service.
- **EMLB.**  Ports, pools and origins are compared, created and deleted one call at a
  time, and the load balancer's ID is remembered last, by a patch whose answer is decoded into the
  object it was made from, which may be the informer's.  *Correct:* what the last
  reconciliation leaves is what the service asks for, a node that is to be served is
  served throughout, and what failures leave behind is bounded.
- **Load balancer API client.**  Whether a field is sent, hidden or lost is decided by
  nil pointers and by what is kept of a reply.  *Correct:* what is sent is what was set or received;
  an operation that returns no error was obeyed.
- **External service, load balancer manager.**  One filter accepts more slices than
  it is meant to; two writers own the same fields; a missed deletion
  stops the process.  *Correct:* the mirror never goes back, ends as the original, and
  spec and status agree.
- **Node annotations, BGP, instances.**  `annotateNode` writes into the informer's cached
  object before the calls that may fail, and both workers do; an error about a device may
  have no response to look into.  *Correct:* no Node is annotated by half,
  every node whose neighbours are known at once is served in the end, and only Nodes without a device are deleted.

## 2. Modules

| Module | Models |
|---|---|
| `ElasticIP` | abstract: what may happen to the EIP of the control plane |
| `ControlPlaneEndpoint` | the endpoint manager, the nodes and the EIP; implements `ElasticIP` |
| `ExternalService` | both managers' external Service and slice, and the service controller's part in them |
| `Reservations` | abstract: what may happen to the addresses of services |
| `ServiceEIP` | reservations and addresses of services under the service controller; implements `Reservations` |
| `NodeBGP` | node loops of both workers, annotations, BGP sessions, devices and the deletion of Nodes |
| `MetalLBConfigMap` | MetalLB's ConfigMap and the configuration object that calls share |
| `MetalLBResources` | MetalLB's custom resources |
| `EMLB` | a service's managed load balancer, call by call, with the operations of `LBaaSClient` |
| `LBaaSClient` | the operations of the load balancer API: request, and outcome for a reply |
| `LBaaSModels` | its models: fields, setters, encoding, decoding, in a call |
| `MC...` | symmetries and constraints of the instances for TLC |
| `...Proofs` | theorems about `ControlPlaneEndpoint`, `ExternalService`, `ServiceEIP`, `NodeBGP`, `MetalLBConfigMap`, `MetalLBResources`, `EMLB`, `LBaaSModels` |

### 2.1 ControlPlaneEndpoint

*State.*  `assigned` is the set of devices the EIP is assigned to in Equinix Metal;
`node` the Node objects; `server` the port at which each API server answers, if it does;
`targetPort` that of `default/kubernetes`, which changes when an API server with another port takes
over; `apiServerPort` and `nodeAPIServerPort` the fields of the manager; `queue` the node events the informer
has still to deliver; `task` the handler under way: its program counter, what it has
read (`assn`, the assignments of the reservation), the candidates left, and `alias`: the candidates that
list the EIP and, once a target is chosen, the target if only the EIP answered for it.  `manual` and
`wasUp` are history variables that only properties read, except that an operator's
action records itself in `manual`.

*Actions.*  One per call or decision of a handler:

| Action | Code |
|---|---|
| `FilterUpdate`, `FilterOld`, `FilterDelete` | the informer's filter and `OnUpdate`/`OnDelete`, lines 108-144 |
| `PanicOnTombstone` | the unchecked type assertion of the filter, line 112 |
| `GetReservation` | the read of the reservation and the early returns of `doHealthCheck` and `tryReassignAwayFromSelf` |
| `HealthCheckPasses`, `HealthCheckFails` | `doHealthCheck`'s request |
| `ListCandidates` | the list of nodes and the three filters of `tryReassign` |
| `CandidateAnswers`, `CandidateFails`, `NoCandidateLeft` | the loop over addresses |
| `Detach`, `Attach` | `DeleteIPAddress`, `CreateIPAssignment` |
| `SyncService` | the ports as `syncService` records them: that of the nodes at every event, that of the EIP once (lines 513-517) |
| `CallFails`, `ResponseLost`, `ProbeTimesOut`, `Crash` | failures |
| `Resync` ... `AddNode` | Kubernetes |
| `ServerStops` ... `OperatorUnassigns` | devices and operators |

A handler is not atomic: anything of Kubernetes and the world can happen between two
of its steps.  A health check has no memory of which server answered, so that with
two assignments it may be answered by either.  `reassign` probes every address of a candidate at the
port of the nodes, and leaves out the EIP only if that is also the port of the EIP
(`ProbedAtEIP`): else whoever has the EIP answers for the candidate, if it listens there.
`ElasticIP` is what the manager promises: the EIP moves, is taken off and given back one device at a time, and
only to one that was up or that the EIP's holder has stood in for (`StandIn`).

### 2.2 ServiceEIP

*State.*  `service` is the Service objects (with `spec.loadBalancerIP`, the type, the
deletion mark and the finalizer), `holder` the owner of each address' reservation,
as its tags say, `pools` the pairs of service and address the load balancer maps,
`due` the controller's queue, `task` the sync under way for each service.

*Actions.*  `StartEnsure` and `StartDelete` are what a worker of the service controller
does with a key (external code, modelled from its contract); then, in order,

- for a service that wants a load balancer `FindReservation`, `RequestReservation`,
  `SaveIP` and `MapIP`: the calls of `addService`, lines 397-547, and the
  `GetLoadBalancer` that follows it in `EnsureLoadBalancer`;
- for one that does not any more `GetLoadBalancer`, then `LookUpReservation`,
  `ReleaseReservation`, `UnmapIP` of `EnsureLoadBalancerDeleted`, lines 262-305,
  and `RemoveFinalizer`.

`CallFails`, `ResponseLost` and `Crash` are failures; `CreateService`, `ChangeType`,
`EditService`, `DeleteService` the users; `OtherReserves` the rest of the project.
`PoolByName` chooses between the two ways MetalLB is configured, as far as it
matters here: pools named by service, or entries found by address.

`Reservations` is what all this amounts to for the reservations: a service is claimed when
its user wants it, gets one address, is released only by a cleanup begun when it is not wanted, and
stays claimed until nothing is reserved for it; work may be dropped at any time.  The finalizer
and the step of the sync give the phase of a service (`Phase`), its Service object what its user wants (`Wanted`).

### 2.3 MetalLBConfigMap

*State.*  `saved` is the ConfigMap in the Kubernetes API and `config` is `m.config`, the
one parsed copy that all calls share (nil after a start or a failed read).  A
configuration is, for each address, the set of services whose names are joined in
its pool, and, for each node, the set of services its peer lists.  `address` is the
address each service has, `cluster` the nodes, `due` and `stale` the services to be set
up and those whose nodes are to be updated, and `task` the call each worker has under way.
`owner` and `overlap` are history variables: `owner` is the worker that last read the
ConfigMap, as long as no other has stored or written since; `overlap` becomes true
when a call stores or writes what it has read although it is not the owner, or when an
address is set up while a removal of it is still under way.  `skipped` has the nodes that the last
set-up or update of each service left out (`Passed`): those `addService` does not get all of, and those
`UpdateLoadBalancer` cannot enable BGP for; both then succeed, and nobody comes back for these nodes.

*Actions.*  A call is a sequence of steps, between any two of which another worker's can
come:

| Step | Code |
|---|---|
| `StartAdd`, `StartRemove`, `StartUpdate` | the service controller begins `AddService`, `RemoveService`, `UpdateService`, the first and last for the nodes `Passed` to them |
| `UpdateRefused` | a node without provider ID, annotations or neighbours ends `UpdateLoadBalancer` before `UpdateService` |
| `GetConfigMap`, `Get` | `getConfigMap` reads the ConfigMap; `Get` assigns `m.config` |
| `ReadPools`, `StorePools` | the loops of `AddAddressPool` and `RemoveAddressPoolByAddress`, and their assignment to `m.config.Pools` |
| `WritePools`, `WritePeers` | `Update`, which patches all of `m.config` into the ConfigMap |
| `ReadPeers`, `StorePeers` | `UpdatePeersByService`, `RemovePeersByService` |
| `GetFails`, `WriteFails` | failed calls of the API; a write may have been obeyed |
| `Panic`, `Crash` | `m.config` is nil when searched; the process stops |

`AddService` reads the ConfigMap twice, before the pools and again before the peers
(`updateNodes`); a pool that is there already is not written, but the peers still are.
The controller repeats a set-up that fails, and sets a service up whose update failed (`Fail`).  It does not get to repeat
`RemoveService`: the reservation is gone by then (`ServiceEIP`).

### 2.4 MetalLBResources

*State.*  `pool` (the address in each service's IPAddressPool), `adv` (the list of pools of
the one BGPAdvertisement), `peer` (the BGPPeer of each node: the services it is for and
its BGP data), `address`, `cluster`, `due`, `stale` as in 2.3, and `task`: for each worker
what its call has listed and what it has left to do.  `outdated` and `hurt` are
history variables: a resource was written that had changed since it was listed; a service's
call was cut short, its pool was joined with another's, or an update of its nodes met its
removal.

*Actions.*  `SearchPools`/`FindPool`, `WritePool`, `ListAdvs`, `WriteAdv`, `NotAdvertised`,
`ListBGPPeers`, `WritePeer`: one per list or write of `cr.go`.  A patch is what
`PoolWritten`, `AdvWritten` and `PeerWritten` compute from what was *listed*, applied to
what *is*: lists are replaced whole, fields the call has not changed are left alone.
`Found`, `Shortened` and `AdvWritten` follow `RemoveAddressPool`, which deletes places of the
list it is walking and goes on behind them.  `Passed`, `UpdateRefused` and `Fail` are as in 2.3.  `ListFails`, `WriteFails` (obeyed or not) and `Crash` are failures,
`NodesChange` and `SpecChanges` the cluster.

### 2.5 EMLB and LBaaSClient

`LBaaSClient` has an operator for each operation of the generated client: method, path,
the model of the body, the model of the reply.  `Execute` is what the caller gets for a
`Reply`: no token, no connection, a body cut short and a status of 300 or more are
errors, an empty body decodes to nothing.  `EMLB` makes its calls with these (`Call`):
each may be refused, be obeyed, or be obeyed and seem to have failed.

*State of EMLB.*  `lbs` and `pools` are what the API has: ports by load balancer, origins
by pool.  `service` is the Service with the annotation of the ID; `seen` the informer's copy,
`held` the object in the service controller's cache, and `shared` whether these are one
object, which matters because a host update writes into `held`: the ID before the patch that may
fail, and all of the patch's answer after it (`PutInCache`).  `news` is what the watch has yet to deliver:
nothing, one change, more, or one that the informer's object already shows, so that its event queues
nobody.  `hidden` is a history variable: an answer has put a change there that nobody had worked for, and
nobody has begun to since.  `tasks` is what each of the two workers is doing.

*Actions.*  `CreateBalancer`, `ReadBalancer`, `KeepPort`, `AddOrigin`, `DropOrigin`,
`DropPool`, `DropPort`, `AddPool`, `AddPort`, `ReadResult` are the calls of `ReconcileLoadBalancer`
in its order (lines 92-204), `PatchService` and `PatchFails` the annotation (`emlb.go`),
`Exists`, `ReadDoomed`, `DropDoomedPool`, `DropBalancer`, `RemoveFinalizer` the deletion.
`SyncService` and `SyncNodes` are the workers' queues, `Observe` the watch, `Crash` a restart.

### 2.6 LBaaSModels

Every model is its required and optional fields; a oneOf and an enum are marked, since they have
decoders of their own.  An object is its fields and the additional properties of the
reply it came from.  The actions are a call's: `Begin` makes a body, `Set` calls a setter,
`Encode` is `MarshalJSON`/`ToMap`, `Answer` is the reply and `UnmarshalJSON`; `Part` decodes a
model that is part of another.  `meant` is a history variable: the last value each key was
given, by a setter or by a reply.

### 2.7 ExternalService

*State.*  `slices`, `target` and `tagged` are the originals: versions of the EndpointSlices in
`default`, the targetPort of `default/kubernetes` and the address the tag is on.  `mirror` and `svc` are the
external slice and Service, the fields of `svc` with their owners, as server-side
apply has them.  `managers` are those configured, `events` what each one's informers have
still to deliver, `ports` what each has learnt, `pass` its `syncService`, `sync` that of
the service controller.

*Actions.*  `ApplySlice` (`syncEndpoints`), `BeginService`, `FindReservation`, `ApplyService`,
`ApplyStatus` (`syncService`, call by call), `BeginSync` ... `PatchSync` (the service controller,
`EnsureLoadBalancer` and `retrieveIPByTag` for the external Service, and its
removal), `Resync` (in the order of a map), `SliceChanges`, `OtherDeleted`, `ServersMove`, `Retag`,
and the disturbances: failed and lost calls, restarts, a missed deletion that stops the process,
somebody deleting or editing what was applied.

### 2.8 NodeBGP

*State.*  `device` is Equinix Metal's: the ID behind each hostname, its BGP session and
neighbours.  `node` is the Nodes in the API; `copies` are the objects in memory, `cached` which
of them the informer's store points to, and a task keeps the places of those it was given
(`at`): two workers may hold one object, and `Write` changes it for both.  `peers` is
what the load balancer was given.

*Actions.*  `Begin`, `NoProviderID`, `EnableBGP`, `GetNetwork`, `GetPeer`, `PatchNode`,
`AddPeer`, `Finish` are the loop over the nodes of `addService` (worker `service`) and of
`UpdateLoadBalancer` (worker `nodes`), with the calls of `annotateNode` in between; the two
differ in what a failed node does (`NodeFails`): `addService` leaves it out and goes on, and `UpdateLoadBalancer`
ends with an error, upon which the service is queued for `addService` (`Requeue`).  `InitializeNode` and `CheckNode` are the cloud node and
lifecycle controllers with `InstanceMetadata` and `InstanceExists`; `Refresh` the informer;
`MapRace` the runtime's stop when two goroutines are at one map.

## 3. Runs

The modules bound their disturbances (failed calls, crashes, hand-made
changes) by `MaxFaults`, in the guard `Disturb` or `Counted`, and changes of the cluster,
where they would go on for ever, by `MaxChanges`; `Disturbances` chooses the kinds.  Nothing else
is bounded: handlers, resyncs, creations and deletions repeat for ever.

| Run | Checks | Shows |
|---|---|---|
| `cp_safety` | `TypeOK`, `SingleHolder`, `MovesToLiveServer`, `ImplementsElasticIP` | two nodes, any two disturbances of any kind: at most one holder by the manager's doing, moves only to servers seen up or answered for by the EIP, with a port that changes, the abstract specification is implemented |
| `cp_liveness` | `EventuallyHealthyHolder`, `UnassignedIsTaken` | two nodes, any one disturbance, fairness: the EIP ends on a server that is up and is not left unassigned |
| `svc_safety` | `TypeOK`, `OneReservation`, `NoOrphanReservation`, `ReleasedByOwner`, `ImplementsReservations`, `LeaksAreFailures` | two services, three addresses, two workers, any three disturbances: reservations are neither doubled nor left behind nor released by another, the abstract specification is implemented; a removed service is left mapped at most once for each failure and worker |
| `svc_liveness` | `MapsReserved`, `DeletionEnds`, `EventuallyServed` | one worker, fairness, three failures: deletions end and services get addresses |
| `cmap_alone` | `TypeOK`, `WritesItsChange`, `AloneCompletedIsSaved` | two services, nodes and workers, one failed call, crash, node left out or node change, until calls overlap: a write changes what its call is about and nothing else; a set-up that succeeded is in the ConfigMap with the peers of all nodes it did not leave out, whatever failed before |
| `cr_safety` | `TypeOK`, `CompletedIsAdvertised`, `GoneLeavesNothing`, `LosesOnlyItsOwn` | two services, workers and nodes, two kinds of BGP data, any one disturbance, until a call writes what has changed since it was listed: a completed set-up is announced, a removal leaves nothing, and neither takes anything from the other service |
| `emlb` | `TypeOK`, `OneOrphanPerFault`, `RestsBalanced`, `KeepsServing` | two ports, a node that comes and goes, two changes of the cluster, a failed call or a crash; the two workers take turns; what is at rest is as asked for, but for a change that the answer to a patch has hidden |
| `emlb_gone` | `DeletionEnds`, violated | a crash between the deletion of the load balancer and the removal of the finalizer: the Service is never removed |
| `lbaas` | `TypeOK`, `SentIsMeant`, `DoneIsObeyed`, `Unaliased` | all operations and all models; replies with up to two keys, one setter |
| `ext` | `TypeOK`, `RestsConsistent`, `NeverGoesBack`, `EventuallyMirrored`, `EventuallyServed` | either manager with two changes and any one disturbance, both managers undisturbed; two addresses, ports the servers move between, a second service in `default` |
| `ext_foreign` | `EndpointsIdentical`, violated | a second service in `default` with endpoints takes over the mirror |
| `node` | `TypeOK`, `WholeAnnotations`, `RestsServed`, `DeletedWithItsDevice`, `EventuallyServed` | two workers, a node with slow neighbours that is there without annotations and one that joins, one disturbance or one device replaced or lost |

### 3.1 Findings

The violated runs are disagreements of the code with what a comment or document of the
repository says; `PROJECT.json` quotes the lines.

1. `emlb_gone`: `DeleteLoadBalancer` and `GetLoadBalancer` of EMLB return "not found" as an error.
   Once the load balancer is deleted and the finalizer is not yet removed, every retry fails
   although `loadbalancers.go:254` promises nil for a load balancer that does not exist.
2. `ext_foreign`: the filters of both managers drop a slice only if its namespace *and* its
   name are wrong.  A slice of another service in `default` becomes the external one until the next
   event of the right one, and again at each resync, whose order is that of a map;
   `README.md:678` says the endpoints are identical to those of `default/kubernetes`.

### 3.2 Bounds

- *Endpoint manager.*  Two nodes are enough for every step of the manager: a holder, a candidate, and after
  a move the roles exchanged.  Two ports let the target port change, and servers listen at either: then the EIP's
  port and the nodes' part, with none configured.  Two disturbances reach each pair
  (a crash in a move that a stop began, an operator in a deletion); `cp_liveness` has one,
  since its state graph under fairness is checked as a whole.  The queue of events is
  bounded by that, as a resync is only queued when the queue is empty and address
  refreshes need a change of the assignment; in `cp_safety` the constraint `ShortQueue` leaves out states
  with four events and more in it, for the size of the graph: a move changes two Nodes, and a third event comes with theirs.
- *Services.*  Two services with three addresses let each have a reservation and one be taken by another; three
  disturbances reach a service whose reservation is lost twice, or reserved in one crash
  and mapped after a second.  `svc_liveness` has two addresses, so that two services and
  a reservation of somebody else exhaust them.  Symmetry is used for safety alone.
- *MetalLB.*  Two services and two addresses let a service get the address
  another has just lost and join or keep apart their pools; two nodes make the peers
  differ, and let a call that has written one peer meet another before the second (with one node no update
  can meet a removal half-way); two kinds of BGP data make a peer of the custom resources change; two
  workers are one for each kind.  A single disturbance reaches each way a set-up can be
  cut off and repeated.  The constraints `NoneMet` (`cmap_alone`) and `UpToDate`
  (`cr_safety`) end a behaviour where two calls have overwritten each other, since the
  properties but for `TypeOK` are about what comes before; `UpToDate` also ends one where every
  service is in `hurt`.  `MCInit` (the nodes begin with the same BGP data) and
  `QueuedOnce` (a queued service is not at the same time being set up, or queued for its nodes)
  are for the size of the graph.  One disturbance leaves a node out of a set-up, but not out of an update, which a
  change of the nodes must come before: that case is in the theorems, which have none of these bounds.
- *EMLB.*  Two ports are one that is kept and one that is added or removed, in either order; one node is
  there or not.  Two changes let a port go and come back, with the one failure at any call.
- *Load balancer API.*  A key of a reply is handled apart from the others, so that two keys (one of them perhaps unknown)
  and one setter reach each combination of them.  The theorems have no such bound.
- *External service.*  Two addresses and two ports let the tag and the servers move once; `MCInit` fixes which is
  the first.  Two slices are the right one and a wrong one.  With both managers the constraint
  `UndisturbedBoth` leaves out changes and failures, for the size of the graph.
- *Nodes.*  One node is passed before the other fails.  The slow one is there first and has no annotations, so that
  `annotateNode` makes a map of its own; the update with which the other joins ends at it, and
  `addService` has to serve the newcomer.  `Places` are three: at most one older copy
  is in each worker's hands beside the one in the cache.  The constraint `OneOfTwo` has a disturbance or a device
  replaced, not both, for the size of the graph; no step that fairness asks for is cut off by it.  The theorems have both.

### 3.3 Fairness

No disturbance is ever assumed, and none can go on for ever, which is the usual sense of liveness
under faults: once they are over, the system gets there.

- `ControlPlaneEndpoint!FairSpec`: the informer goroutines run (weak fairness of the manager and of the
  service handler), the cloud node controller refreshes addresses (weak), and the resync
  period elapses for each node although other events come in between (strong: `Resync` needs
  the queue empty in the model; client-go's resync is a timer).  Nothing assumes that a server
  starts, that an operator acts or that a probe succeeds.
- `ServiceEIP!FairSpec`: the workers run (weak) and a queued service is
  taken at some time (strong: with as many services under way as there are workers it
  cannot be; the controller's queue is first in, first out).
- `EMLB!FairSpec`: both workers and the watch (weak).
- `ExternalService!FairSpec`: each informer's goroutine and the service controller (weak), and the resync
  (strong, for the same reason as above).
- `NodeBGP!FairSpec`: workers, controllers, the kubelet's registration and the informer (weak, of steps that do
  not fail), and neighbours appear (weak).

## 4. Proofs

Every invariant and action property of the passing runs is a theorem.  No theorem assumes more
than the `ASSUME`s of the modules, unless it is said here, and none bounds the number of nodes,
services, addresses, workers or disturbances (the two workers of the service controller are two in the code).
The `ASSUME`s say that marks such as `Nil` and `NoNode` are nothing else, that the bounds are
numbers, and in `EMLB` and `NodeBGP`, where things are counted, that nodes and ports are finitely many.

**ControlPlaneEndpointProofs**

- `Invariance`: `Spec => []IInv`.  `SingleHolder` is not inductive: `Attach` adds a
  device, so that the invariant has to say what the pass knows at that moment.  `IInv`
  is the conjunction of `TypeOK`, `SingleHolder` and four parts with a lemma each for
  the steps of `Next`.  `HolderInv`: a pass that has read the reservation holds at most
  one assignment and every assignment the manager made is among what it read; at
  `attach` every device with the EIP has it from an operator.  `TargetInv`: the nodes
  up since the list was made include those up now and the target, unless only the EIP
  answered for that.  `PortInv`: a pass runs only when both ports are known.  `QueueInv`: between the two applications of the
  filter the event is still the first in the queue.
- `TypeCorrectness`, `AtMostOneHolder` (`SingleHolder`), `MoveTargets` (`MovesToLiveServer`) and
  `Refinement` (`ImplementsElasticIP`): from it, at every value of the constants, whatever port is
  configured and however the port of the nodes changes.  The refinement maps each action to a step
  of `ElasticIP` or a stutter; the abstract variables are variables of the detailed module, but for `up`, the
  nodes whose server answers at any port, and `stood`, the target that only the EIP answered for (`StoodFor`).

**ServiceEIPProofs**

- `Invariance`: `Spec => []IInv`.  `OneReservation` needs to know at `RequestReservation`
  that the service has none: `SyncInv` says what a sync knows at each of its calls (no
  reservation with its tags at `request`, `unmap` and `finalize`; the address in work
  reserved for it at `save` and `release`).  `NoOrphanReservation` needs
  `FinalizerInv`: a sync runs only for a Service with the finalizer, and that exists.
  The invariant is stated service by service (`InvByService`); a step of one service
  leaves alone what the others rely on (`Isolation`), so that each action is looked at for
  its own service only (`OwnStep`) and for the rest at once (`UnseenStep`).
- `TypeCorrectness`, `AtMostOneReservation`, `NoOrphans`, `ReleaseByOwner`.
- `MappedIsReserved` (`MapsReserved`) assumes that no user sets an address or changes
  a type: a Service that is made ClusterIP and LoadBalancer again keeps a released
  address in its spec, and the code takes that as given.
- `Refinement` (`ImplementsReservations`): `KindOfStep` sorts the steps of a service by what they do to its
  phase, to what its user wants and to the reservations, with the inductive invariant; `KindIsAbstract` finds
  the abstract step for each kind.  A crash is one step that drops all releases.
- `LeaksComeFromFailures` (`LeaksAreFailures`): for every kind of disturbance, MetalLB with pools by name
  or by address.  What is mapped for a Service that is gone is not counted while it is
  made but when it can no longer be undone, which is earlier: `Loose` is an address of a service that
  is mapped without a reservation and not about to be unmapped, or is going to be mapped like that.  `LeakInv`:
  there are at most `faults * Workers` of these.  A step that is no disturbance makes
  none (`Isolation` again, for the other services); a crash makes at most one of each sync under way.

**MetalLBConfigMapProofs**

- `Invariance`: `Spec => []IInv`.  `WritesItsChange` needs `OwnerInv`: the
  owner has read what is still saved, and between its store and its write
  `m.config` is what is saved with its change.  `AloneCompletedIsSaved` needs more.
  `CallInv`: each address is of one service, each service has one set-up or
  removal at most, for the address it has or had.  `AloneInv`, while no calls have
  overlapped: a set-up that is past the pools has its address saved, and one that finds
  its address in `m.config` does so because it is saved (`SetUp`); the peers a
  set-up is about to skip or add are those of the nodes it did not leave out (`NodesOf`), or an update or another
  set-up is on its way (`NodesKnown`); a removal under way is not of an address that completed set-ups use.
  Lemmas say what a call's step changes in `saved` (`SavedStep`, `PoolsKept`, `NodesKept`)
  and then, for the call itself, the other calls and the completed ones, that the
  invariant is kept (`SetUpMoves`, `SetUpKept`, `CompleteMoves`).
- `TypeCorrectness`, `WriteIsItsChange` (`WritesItsChange`), `AloneSaved`
  (`AloneCompletedIsSaved`): for any number of workers, failures, restarts and node
  changes.  That calls do not overlap is part of the properties (section 5).

**MetalLBResourcesProofs**

- `Invariance`: `Spec => []IInv`.  `CompletedIsAdvertised` and `GoneLeavesNothing` look at
  services at rest, so that the invariant has to follow each call there.  `IInv` is `Base`
  and, for each service the history variables do not except, `Consistent`.  `Base`: `TypeOK`, every
  call at a step of its operation (`WellFormed`), one set-up or removal of a service at a time
  (`Exclusive`).  `Consistent`: the service is in the advertisement once
  (`Once`, without which a removal that cuts one place leaves another); at rest it
  is set up, queued, or gone without trace (`AtRest`); `AddMidway` and `RemoveMidway`
  say at each step of a call what is already written, and of a removal that the peers it has still
  to write are all that name the service.  `adv`, `pool` and `peer` are shared, so that a step
  is looked at for the service it is about (`OwnPoolSteps`, `OwnAdvSteps`, `OwnPeerSteps`), and for
  every other service as one that leaves its part alone (`Untouched`, `OthersAct`).
- `TypeCorrectness`, `OthersLoseNothing` (`LosesOnlyItsOwn`), `SetUpIsAdvertised`
  (`CompletedIsAdvertised`), `RemovedLeavesNothing` (`GoneLeavesNothing`): for any services,
  addresses, nodes, workers and failures; the exceptions are those of the properties.

**NodeBGPProofs**

- `Invariance`: `Spec => []IInv`.  `WholeAnnotations` says something of `node` only, but
  what reaches `node` is a map a worker has filled over several calls, in an object that the other
  worker writes into and beside which the informer puts new ones.  `TaskInv`: a worker has
  a copy of every node it has left (`HandOK`), and what it is about to patch in has the peers'
  annotations (`PatchOK`); that copy is not taken away because `Refresh` only uses
  places in nobody's hands.  `SessionInv`: a device with a session has its neighbours, unless
  it is slow.
- `TypeCorrectness`, `NoHalfAnnotations` (`WholeAnnotations`), `DeletedAfterItsDevice`
  (`DeletedWithItsDevice`): for any nodes, failures and changes; the two workers and the
  neighbours' three states are the module's.
- `FailuresLeaveOneNode` (`RestsServed`).  At rest a node is served or lost, in between it may be neither.
  `OnTrack` says who is going to serve it: it is a peer, or the informer has yet to see it, a worker is queued, or
  one has it in its list with a copy of the Node as it is now (`PeerTrack`); and it has its annotations, or some
  worker is about to patch them in, or whoever comes to it next will not find the network in its copy and pass
  it by (`NoteTrack`).  `TrackInv`: at most `faults` of the nodes that are not slow are off track.  A step that
  is no disturbance keeps all of these on track: an update that ends at a node, slow or not, queues the service worker,
  which goes through all nodes again; one that fails takes off the node it is about, and no other.
  (`AgeInv`) a copy with the ID of the device is a copy of the Node that has it, since IDs are not used again.

**LBaaSModelsProofs**

- `Invariance`: `Spec => []IInv`.  `SentIsMeant` is about what is encoded; `ObjectInv` says of
  the object before it is encoded that its fields and its additional properties are, key by key,
  what was last set or received, and that no key is in both: so that the
  additional properties, which are encoded last, hide nothing.  `NewStandsFor`, `DecodedStandsFor`, `SetStandsFor` and
  `EncodedIsMeant` are about the operators, for any model.
- `SentAsMeant` (`SentIsMeant`): for replies with any number of keys and any number of
  setters.  `ObeyedWhenDone` (`DoneIsObeyed`): for all operations and replies.
- `TypeCorrectness`; `RequestsTellOperations` (`Unaliased`): by comparing the operations' paths.

**ExternalServiceProofs**

- `Invariance`: `Spec => []IInv`.  `MirrorInv`: the events of a slice are queued in the order of its versions, none
  later than the slice itself, and where one manager runs none is behind what it has applied; a slice that was
  deleted comes back with a version not used before.  `AddressInv`, for the endpoint manager alone: the address in
  the spec is the manager's and never missing; whoever is about to write the status (the manager
  or the service controller, each with what it read earlier) has that address in hand, unless the
  Service is queued again.
- `TypeCorrectness`, `StatusAgreesAtRest` (`RestsConsistent`), `SliceNeverGoesBack` (`NeverGoesBack`): for any slices,
  ports, addresses, changes and failures; which managers are configured is part of the properties.

**EMLBProofs**

- `Invariance`: `Spec => [](IInv /\ CacheInv)`, workers at once or in turn.  `HandInv`: the pool a worker
  has made for a port that is still to be made is nobody's port's, and neither in the hands nor in
  the memory of the other worker.  `TypeCorrectness` follows, since `TypeOK` has every port's pool exist.
- The others assume `~Overlap`, that the workers take turns; without that they are false (section 5).
- `TurnInvariance`: two ports never share a pool (`Unique`), and `Doing` follows a worker from call to call:
  the ports it has yet to look at are as it read them, those it is through with are as wanted, the pool in work
  has the nodes already added besides the origins that are still to go.
- `ServingIsKept` (`KeepsServing`): from the above, a step at a time; the origins that
  are dropped are of nodes not wanted or already doubled.
- `OrphansAreOfFaults` (`OneOrphanPerFault`): every step adds no orphan, or is a disturbance and adds
  one (`Accounted`).
- `FailuresAreMadeGood` (`RestsBalanced`) needs to know which copy was used.  `CopyInv`: the object in the cache has
  the ID and the ports of the Service, unless the service worker is queued or a change is on its way that the informer's
  object does not show; `GivenInv`: a worker reconciles for the cached ID and ports,
  and for the nodes there are unless the node worker is queued again; `RestInv`: once nothing is
  queued or on its way, and nothing `hidden`, the balancer is as the Service says.

Model-checked only: the liveness properties (`EventuallyHealthyHolder`, `UnassignedIsTaken`, `DeletionEnds`,
`EventuallyServed`, `EventuallyMirrored`), as fairness and `ENABLED` are out of the
prover's reach.  The violated properties are counterexamples of TLC.

## 5. Known behaviour without a property

What the models contain and reading them or running them shows, where the code has no promise that a
property could state, or breaks it in a way the runs above except.

- *The EIP is taken from a healthy device.*  `tryReassignAwayFromSelf` asks the Node whether it has
  the EIP, not the reservation: with three nodes, the Node that lost the EIP a moment ago,
  deleted while it still lists it, takes it from the one that has it now.
- *The EIP answers for a node that is down.*  When the port of the EIP is not that of the nodes, a candidate that
  lists the EIP is also probed at the EIP, and whoever has it answers, if it listens at the nodes' port.  The ports differ
  when one is configured, and also without that: `syncService` follows the port of the nodes and keeps the first as
  that of the EIP.  `MovesToLiveServer` and `ElasticIP` except just this case.  Without the exception they are
  violated, against step 6 at lines 49-50 ("if one of them work assign the ElasticIP to that device") and
  `README.md:637` ("when it gets a healthy one it move the Elastic IP to the new device"); the kept port is against
  `README.md:625` ("by default [...] the same port as the `kube-apiserver`"), and `EventuallyHealthyHolder`
  is about an EIP whose port is still right (`RightPort`).
- *Nobody checks the EIP* of a device whose Node has gone, since the health check begins with
  updates of nodes that list it.  `EventuallyHealthyHolder` excepts it.
- *An address stays mapped* when the process stops or the call fails between the release of the reservation and
  its removal from MetalLB: the repeated cleanup looks for the reservation only.
  `LeaksAreFailures` bounds this; with two workers the
  removal may also hit the service that has got the address in between.
- *Overlapping calls on the ConfigMap:* the node worker's `Get` can put the old content into
  `m.config` between a set-up's change and its `Update`; the set-up succeeds and its address is in
  no pool.  Nothing of it is repeated before the next change of the service or the nodes.
- *Nodes left out:* a node whose BGP session, annotation or neighbours `addService` does not get has no peer for the
  service, which is reported as set up; so has one whose session an update is refused.  Neither is come back to before
  the nodes or the service change.  `AloneCompletedIsSaved` is about the others.
- *Peers of nodes that have left* stay in the ConfigMap as long as a service is listed in them, and are
  removed from the custom resources only for the services updated after the node left.
- *Custom resources:* a pool whose advertisement failed is never announced, since the next set-up ends at the pool
  (`hurt` in `CompletedIsAdvertised`); an update of the nodes under way while its service is removed
  puts the service back into a peer, where it stays (`hurt` in `GoneLeavesNothing`); the first peers are made without their service, and a peer whose data change
  loses its services until the next update.
- *EMLB:* the first load balancer is lost by any failure before the annotation, and a worker
  whose copy of the Service is older than the annotation makes another one without any failure.
  A port whose pool was deleted and whose own deletion failed stays without a pool when
  it is wanted again, which contradicts the comment at `manager.go:137`; `Balanced` excepts
  it.  The answer to a patch of an update of the hosts becomes the informer's object (`emlb.go:103`): a change of the ports
  that came meanwhile is then not seen as one and not worked for until something else queues the service
  (`hidden` in `RestsBalanced`).  When such a patch fails, the object has an ID that the API server
  has not: the patches after it are empty, the status of the service is an error, and that goes on until a change or a
  resync of the informer replaces the object.  When the two workers reconcile at once (`Overlap`), `KeepsServing` and
  `OneOrphanPerFault` do not hold.
- *External service:* the endpoint manager applies the port of the Service itself, although
  `README.md:677` names the targetPort or the override; it keeps the first port it has
  learnt as that of the EIP when the servers move (`README.md:625`).  With no load balancer configured there is no service controller
  to write the status, and one the manager failed to apply stays behind until the resync: `RestsConsistent` is
  about the two together.  With both managers configured
  each overwrites the other's Service without end.  Deleting the external Service under
  the load balancer manager deletes the managed load balancer.
- *Nodes:* neighbours without addresses leave a Node with the annotation of the network alone, for
  good; a slow node that joins ends the update, is left out by the `addService` that follows, and is not come back
  to before the next change of the nodes, without any failure (so that `RestsServed` and `EventuallyServed` do not count
  slow nodes); the error of `UpdateLoadBalancer` says that the node is skipped, although it ends the update for all;
  a patch carries all annotations of an older copy and sets back those of others; a network error
  leaves the response nil and reading its status panics (`bgp.go:91`, `errors.go:13`).
- *Load balancer API:* `LoadBalancerPoolShort.HasId` (`model_load_balancer_pool_short.go:73`) compares a string with
  nil and is never true; nothing calls it.

## 6. Not modelled

- *kube-vip and none:* every operation returns nil.
- *Start-up and configuration:* read once, builds the parts; `METAL_API_SERVER_PORT` is cut to 32 bits there.
- *In the API client:* helpers no operation calls (forms, files, query parameters, cache headers, the
  Nullable wrappers), logging, and the addresses of the servers, which are one.
- *Instances:* the choice and order of a device's addresses and its type, `InstanceShutdown`, and the parsing of provider
  IDs are functions of one answer without state.  An ID that does not parse is a parameter of
  `ControlPlaneEndpoint` and a step of `NodeBGP`.
- *The configuration of the project's BGP* (`newBGP`, `enableBGP`), read or requested once before anything else.
- *Caches.*  `EMLB` and `NodeBGP` have the informers' copies, which are what goes wrong there.  Elsewhere
  a sync begins with the latest object (it is then stale for as
  long as the sync runs).  The endpoint manager's events carry the copies they were made
  of, and its list of nodes is the latest.
- *Requests that outlive their sender.*  A call whose response is lost has taken effect
  by the next step; a request obeyed after a restart of the process is not modelled.
- *Data.*  CIDRs, facilities and metros, labels, order of addresses, passwords and
  ASNs.  A failed comparison of those is a failed call.
- *Requests that return no reservation and no error* (line 481, "need to wait"): the API
  client answers one or the other.
- *MetalLB's ConfigMap.*  A loop over the pools or peers and the assignment of its result
  are two steps; races inside the loops, on slices two calls hold in common or on each
  of several nodes' peers, are not split further.  `Update` is one step: what is
  written is `m.config` when the write takes effect, which differs from the code
  only after calls have overlapped.  Peers are told apart by node only, so a change of a
  password, which makes a second peer of the same node, is left out; so are pools and
  peers that users wrote (a pool without auto-assign makes the comparison with any new one
  panic, `config.go:572`), and an
  unreadable ConfigMap (a failed read).

## 7. What could follow

Every component with state is modelled, and what the runs check of its safety is proved.  What is left is depth:

1. what `EMLB` keeps when its two workers reconcile at once, where `KeepsServing` and `OneOrphanPerFault` fail,
   and how much a run of both loses;
2. an abstract specification of the map from services to addresses, atomic add and remove, that
   `MetalLBConfigMap` and `MetalLBResources` implement while no calls overlap, and `ServiceEIP` composed with them in place of `pools`;
3. liveness of `MetalLBConfigMap`: that every service is mapped in the end.

The runs are kept to a dozen and each below five minutes, so that all of them can be repeated with every change.
